----------------------------- MODULE ConfigLog ------------------------------
(***************************************************************************)
(* Configuration and logging (config.h, config.cc, log.cc): threads load   *)
(* YAML documents, ConfigVar::set_value tells its listeners and stores,    *)
(* the listener of "logs" rebuilds loggers, other threads log.             *)
(*                                                                         *)
(* Each critical section is a step; a set_value that has entered the       *)
(* notification holds the variable's read lock until it leaves it.  A      *)
(* document is a sequence of nodes with a key and a value; the value of    *)
(* "logs" is a sequence of entries, with NoText for an undefined field.    *)
(* The other variable, "groups", is a map from names to sets of vectors of *)
(* numbers: every container config.h converts takes the same way.          *)
(***************************************************************************)
EXTENDS Integers, Sequences, FiniteSets, SequencesExt, LogPattern, LexicalCast

CONSTANTS
  Setters,    \* threads that load documents
  Writers,    \* threads that log
  Users,      \* listeners of the other variable that may be added
  Docs,       \* documents
  Names,      \* logger names, in the order of std::string
  EventLevels, \* levels of records
  Default,    \* the pattern of Logger's constructor
  Initial,    \* the other variable's default value
  MaxLoads    \* bound of the model: documents loaded

Vars == {"logs", "groups"}
LogNames == {Names[i] : i \in DOMAIN Names}

UNKNOW == 0
DEBUG  == 1
NEVER  == 100
NoEvent == [name |-> "root", level |-> UNKNOW]
LevelNames == <<"DEBUG", "INFO", "WARN", "ERROR", "FATAL">>
NoText == ""

(* A node "logs" holds a sequence of entries, each with its name, its      *)
(* pattern and its sequence of appenders; any other node is a map's.       *)
LogsNode(node) ==
  LET entries == node.value IN
  /\ Listed(entries)
  /\ \A i \in DOMAIN entries : /\ entries[i].name \in LogNames \cup {NoText}
                               /\ Listed(entries[i].formatter) /\ Listed(entries[i].appenders)

ASSUME ConfigAssumption ==
  /\ "root" \in LogNames /\ MaxLoads \in Nat
  /\ Listed(Default) /\ ~ is_error(Default) /\ IsGroups(Initial)
  /\ NoText \notin LogNames /\ Names \in Seq(LogNames) /\ IsInjective(Names)
  /\ Setters \cap Writers = {} /\ IsFiniteSet(Users)
  /\ \A d \in Docs : Listed(d) /\ \A i \in DOMAIN d :
                       IF d[i].key = "logs" THEN LogsNode(d[i]) ELSE MapNode(d[i].value)

VARIABLES
  m_val,        \* each ConfigVar's value
  listening,    \* m_cbs of "groups"; "logs" has LogIniter's listener
  registered,   \* names in Config's map
  m_loggers,    \* names in LoggerManager's map
  level, formatter, m_appender, \* of each logger
  pc, doc,      \* setters and writers: where they are; nodes a setter has left
  val, todo,    \* set_value: the new value, and what is left to be notified
  placed,       \* appenders of the logger at hand that were added
  event,        \* a writer's event: logger and level
  loads,
  crashed,      \* the process is gone
  told,         \* history: the value each listener of "groups" knows
  alone,        \* history: set_values of "groups" that no other one overlapped
  behind,       \* history: listeners that may not know the stored value
  disturbed,    \* history: two set_values of "logs" have overlapped
  configured    \* history: loggers that were ever in "logs"

conf    == <<m_val, listening, registered>>
loggers == <<m_loggers, level, formatter, m_appender>>
call    == <<val, todo, placed>>
heard   == <<told, alone, behind>>
history == <<heard, disturbed, configured>>
vars    == <<conf, loggers, pc, doc, call, event, loads, crashed, history>>

(***************************************************************************)
(* Conversions                                                             *)
(***************************************************************************)
from_string(str) ==
  IF \E l \in DOMAIN LevelNames : LevelNames[l] = str
  THEN CHOOSE l \in DOMAIN LevelNames : LevelNames[l] = str ELSE UNKNOW

to_string(l) == IF l \in DOMAIN LevelNames THEN LevelNames[l] ELSE "UNKNOW"

(* An appender entry is skipped without a type, with an unknown type, or   *)
(* as a file without a name.  Its level is never read.                     *)
ParseAppender(a) ==
  CASE a.type = "FileLogAppender" /\ a.file # NoText ->
         <<[type |-> 1, level |-> UNKNOW, formatter |-> a.formatter, file |-> a.file]>>
    [] a.type = "StdoutLogAppender" ->
         <<[type |-> 2, level |-> UNKNOW, formatter |-> a.formatter, file |-> NoText]>>
    [] OTHER -> <<>>

ParseAppenders(as) == FlattenSeq([i \in DOMAIN as |-> ParseAppender(as[i])])

ParseDefine(e) == [level |-> from_string(e.level), formatter |-> e.formatter,
                   appenders |-> ParseAppenders(e.appenders)]

(* A LogDefine without a name throws; std::set keeps the first of equal    *)
(* names (operator< compares names).                                       *)
Parses(entries) == \A i \in DOMAIN entries : entries[i].name # NoText
ParseLogs(entries) ==
  [n \in {entries[i].name : i \in DOMAIN entries} |->
     ParseDefine(entries[SelectInSeq(entries, LAMBDA e : e.name = n)])]

\* Mutant of PrintAppender: the file is written for every type but files.
PrintAppenderNoFile(a) == [type |-> IF a.type = 1 THEN "FileLogAppender" ELSE "StdoutLogAppender",
                           file |-> NoText, formatter |-> a.formatter]

PrintAppender(a) == [type |-> IF a.type = 1 THEN "FileLogAppender" ELSE "StdoutLogAppender",
                     file |-> a.file, formatter |-> a.formatter]

(* A std::set of names, as its iterator meets them.                        *)
InNameOrder(S) ==
  CHOOSE s \in [1 .. Cardinality(S) -> S] :
    \A i, k \in DOMAIN s :
      i < k => \E a, b \in DOMAIN Names : a < b /\ s[i] = Names[a] /\ s[k] = Names[b]

(* to_string of a set of LogDefines.                                       *)
PrintLogs(v) ==
  LET names == InNameOrder(DOMAIN v) IN
  [i \in DOMAIN names |->
     LET d == v[names[i]] IN
     [name |-> names[i], level |-> IF d.level = UNKNOW THEN NoText ELSE to_string(d.level),
      formatter |-> d.formatter,
      appenders |-> [k \in DOMAIN d.appenders |-> PrintAppender(d.appenders[k])]]]

(* ConfigVar's FromStr and ToStr, and whether FromStr throws.              *)
FromStr(v, n) == IF v = "logs" THEN ParseLogs(n) ELSE MapOf(n)
Throws(v, n)  == IF v = "logs" THEN ~ Parses(n) ELSE MapThrows(n)
ToStr(v, x)   == IF v = "logs" THEN PrintLogs(x) ELSE PrintMap(x)

(***************************************************************************)
(* Init: static initialisation.  "logs" and its listener are registered,   *)
(* the root logger prints to the console.                                  *)
(***************************************************************************)
Init ==
  /\ m_val = [v \in Vars |-> IF v = "logs" THEN <<>> ELSE Initial]
  /\ listening = {} /\ registered = {"logs"}
  /\ m_loggers = {"root"}
  /\ level = [n \in LogNames |-> DEBUG]
  /\ formatter = [n \in LogNames |-> Default]
  /\ m_appender = [n \in LogNames |->
       IF n = "root" THEN <<[type |-> 2, level |-> DEBUG, formatter |-> Default, file |-> NoText]>> ELSE <<>>]
  /\ pc = [t \in Setters \cup Writers |-> "idle"]
  /\ doc = [s \in Setters |-> <<>>]
  /\ val = [s \in Setters |-> <<>>] /\ todo = [s \in Setters |-> <<>>]
  /\ placed = [s \in Setters |-> 0]
  /\ event = [w \in Writers |-> NoEvent]
  /\ loads = 0 /\ crashed = FALSE
  /\ told = [u \in Users |-> Initial] /\ alone = {} /\ behind = {}
  /\ disturbed = FALSE /\ configured = {}

Goto(t, from, to) == pc[t] = from /\ pc' = [pc EXCEPT ![t] = to]

(***************************************************************************)
(* Loading a document                                                      *)
(***************************************************************************)
load_from_yaml(s, d) ==
  /\ loads < MaxLoads /\ loads' = loads + 1
  /\ Goto(s, "idle", "next")
  /\ doc' = [doc EXCEPT ![s] = d]
  /\ UNCHANGED <<conf, loggers, call, event, crashed, history>>

Key(s) == Head(doc[s]).key

(* look_up_base finds nothing, or FromStr throws: the node has no effect.  *)
Skip(s) ==
  /\ pc[s] = "next" /\ doc[s] # <<>>
  /\ Key(s) \notin registered \/ Throws(Key(s), Head(doc[s]).value)
  /\ doc' = [doc EXCEPT ![s] = Tail(@)]
  /\ UNCHANGED <<conf, loggers, pc, call, event, loads, crashed, history>>

from_string_of(s) ==
  /\ doc[s] # <<>> /\ Key(s) \in registered /\ ~ Throws(Key(s), Head(doc[s]).value)
  /\ Goto(s, "next", "compare")
  /\ val' = [val EXCEPT ![s] = FromStr(Key(s), Head(doc[s]).value)]
  /\ UNCHANGED <<conf, loggers, doc, todo, placed, event, loads, crashed, history>>

LoadDone(s) ==
  /\ doc[s] = <<>> /\ Goto(s, "next", "idle")
  /\ UNCHANGED <<conf, loggers, doc, call, event, loads, crashed, history>>

(***************************************************************************)
(* ConfigVar                                                               *)
(***************************************************************************)
(* Inside set_value: from the comparison to the store.                     *)
Reading == {"notify", "reload", "level", "formatter", "clear", "add", "remove", "clear_removed"}
Setting(v) == {s \in Setters : pc[s] \in Reading \cup {"store"} /\ Key(s) = v}
Readers(v) == {s \in Setters : pc[s] \in Reading /\ Key(s) = v}
WriteLock(v) == Readers(v) = {}

NextNode(s) == /\ doc' = [doc EXCEPT ![s] = Tail(@)]
               /\ val' = [val EXCEPT ![s] = <<>>] /\ todo' = [todo EXCEPT ![s] = <<>>]
               /\ UNCHANGED placed

SetSame(s) ==
  /\ Goto(s, "compare", "next") /\ val[s] = m_val[Key(s)]
  /\ NextNode(s)
  /\ UNCHANGED <<conf, loggers, event, loads, crashed, history>>

(* The read lock is taken; several callers may hold it.                    *)
SetCompare(s) ==
  /\ Goto(s, "compare", IF Key(s) = "logs" THEN "reload" ELSE "notify")
  /\ val[s] # m_val[Key(s)]
  /\ todo' = [todo EXCEPT ![s] = IF Key(s) = "logs" THEN InNameOrder(DOMAIN val[s])
                                 ELSE SetToSeq(listening)]
  /\ IF Key(s) = "logs"
     THEN /\ disturbed' = (disturbed \/ Setting("logs") # {})
          /\ configured' = configured \cup DOMAIN val[s]
          /\ UNCHANGED alone
     ELSE /\ alone' = IF Setting("groups") = {} THEN {s} ELSE {}
          /\ UNCHANGED <<disturbed, configured>>
  /\ UNCHANGED <<conf, loggers, doc, val, placed, event, loads, crashed, told, behind>>

(* One listener of "groups" is called.  If no other set_value interferes,  *)
(* the value it hears is the one that will be stored.                      *)
Tell(s, value) ==
  /\ pc[s] = "notify" /\ todo[s] # <<>>
  /\ told' = [told EXCEPT ![Head(todo[s])] = value]
  /\ todo' = [todo EXCEPT ![s] = Tail(@)]
  /\ behind' = IF s \in alone THEN behind \ {Head(todo[s])} ELSE behind
  /\ UNCHANGED <<conf, loggers, pc, doc, val, placed, event, loads, crashed, alone, disturbed, configured>>

\* Mutant of Notify: the two arguments of the listener are swapped.
NotifySwapped(s) == Tell(s, m_val["groups"])

Notify(s) == Tell(s, val[s])

(* It throws: from_string catches, and the value is not stored.  Those     *)
(* that have heard it are ahead.                                           *)
NotifyThrows(s) ==
  /\ todo[s] # <<>> /\ Goto(s, "notify", "next")
  /\ NextNode(s)
  /\ behind' = behind \cup (listening \ ToSet(todo[s])) /\ alone' = alone \ {s}
  /\ UNCHANGED <<conf, loggers, event, loads, crashed, told, disturbed, configured>>

Notified(s) ==
  /\ todo[s] = <<>> /\ Goto(s, "notify", "store")
  /\ UNCHANGED <<conf, loggers, doc, call, event, loads, crashed, history>>

(* m_val = v.  Of two set_values that overlap, the one that notifies last  *)
(* may store first.                                                        *)
Assign(s) ==
  /\ Goto(s, "store", "next")
  /\ m_val' = [m_val EXCEPT ![Key(s)] = val[s]]
  /\ behind' = IF Key(s) = "logs" \/ s \in alone THEN behind ELSE behind \cup listening
  /\ alone' = alone \ {s}
  /\ NextNode(s)
  /\ UNCHANGED <<listening, registered, loggers, event, loads, crashed, told, disturbed, configured>>

\* Mutant of Store: the write lock is awaited with the read lock still held.
StoreLocked(s) == Assign(s) /\ Cardinality(Setting(Key(s))) = 1

(* The write lock, once no reader is left.                                 *)
Store(s) == Assign(s) /\ WriteLock(Key(s))

(* A listener is registered, later its owner reads the value it starts     *)
(* from: two calls, between which, as between the two locks of set_value,  *)
(* others may come.                                                        *)
add_listener(u) ==
  /\ "groups" \in registered /\ WriteLock("groups") /\ u \notin listening
  /\ listening' = listening \cup {u} /\ behind' = behind \cup {u}
  /\ UNCHANGED <<m_val, registered, loggers, pc, doc, call, event, loads, crashed, told, alone,
                 disturbed, configured>>

read_value(u) ==
  /\ u \in listening
  /\ told' = [told EXCEPT ![u] = m_val["groups"]]
  /\ behind' = IF Setting("groups") = {} THEN behind \ {u} ELSE behind \cup {u}
  /\ UNCHANGED <<conf, loggers, pc, doc, call, event, loads, crashed, alone, disturbed, configured>>

(* What is gone has heard nothing.                                         *)
Unregister(us) ==
  /\ WriteLock("groups") /\ listening' = listening \ us
  /\ told' = [u \in Users |-> IF u \in us THEN Initial ELSE told[u]] /\ behind' = behind \ us
  /\ UNCHANGED <<m_val, registered, loggers, pc, doc, call, event, loads, crashed, alone,
                 disturbed, configured>>

del_listener(u) == u \in listening /\ Unregister({u})

clear_listener == listening # {} /\ Unregister(listening)

(* look_up registers a name once, with the default value.                  *)
look_up ==
  /\ "groups" \notin registered /\ registered' = Vars
  /\ UNCHANGED <<m_val, listening, loggers, pc, doc, call, event, loads, crashed, history>>

(***************************************************************************)
(* The listener of "logs" (log.cc, LogIniter)                              *)
(***************************************************************************)
Old == m_val["logs"]

get_logger(n) == m_loggers' = m_loggers \cup {n}

Unchanged(s, n) == n \in DOMAIN Old /\ Old[n] = val[s][n]

(* For a definition that did not change `logger' stays null.               *)
ReloadUnchanged(s) ==
  /\ pc[s] = "reload" /\ todo[s] # <<>> /\ Unchanged(s, Head(todo[s]))
  /\ crashed' = TRUE
  /\ UNCHANGED <<conf, loggers, pc, doc, call, event, loads, history>>

ReloadNext(s) ==
  /\ todo[s] # <<>> /\ Goto(s, "reload", "level") /\ ~ Unchanged(s, Head(todo[s]))
  /\ get_logger(Head(todo[s]))
  /\ UNCHANGED <<conf, level, formatter, m_appender, doc, call, event, loads, crashed, history>>

set_level(s) ==
  LET n == Head(todo[s]) IN
  /\ Goto(s, "level", IF val[s][n].formatter = <<>> THEN "clear" ELSE "formatter")
  /\ level' = [level EXCEPT ![n] = val[s][n].level]
  /\ UNCHANGED <<conf, m_loggers, formatter, m_appender, doc, call, event, loads, crashed, history>>

(* A pattern with an error leaves the formatter as it was.                 *)
set_formatter(s) ==
  LET n == Head(todo[s]) IN
  /\ Goto(s, "formatter", "clear")
  /\ formatter' = [formatter EXCEPT ![n] =
       IF is_error(val[s][n].formatter) THEN @ ELSE val[s][n].formatter]
  /\ UNCHANGED <<conf, m_loggers, level, m_appender, doc, call, event, loads, crashed, history>>

\* Mutant of clear_appenders: the old appenders stay.
clear_appenders_not(s) ==
  /\ Goto(s, "clear", "add")
  /\ UNCHANGED <<conf, loggers, doc, call, event, loads, crashed, history>>

clear_appenders(s) ==
  /\ Goto(s, "clear", "add")
  /\ m_appender' = [m_appender EXCEPT ![Head(todo[s])] = <<>>]
  /\ UNCHANGED <<conf, m_loggers, level, formatter, doc, call, event, loads, crashed, history>>

(* ap->set_level, then Logger::add_appender: the formatter it has not got  *)
(* yet is the logger's.                                                    *)
add_appender(s) ==
  LET n == Head(todo[s])
      d == val[s][n].appenders[placed[s] + 1] IN
  /\ pc[s] = "add" /\ placed[s] < Len(val[s][n].appenders)
  /\ m_appender' = [m_appender EXCEPT ![n] = Append(@,
       [type |-> d.type, level |-> d.level, formatter |-> formatter[n], file |-> d.file])]
  /\ placed' = [placed EXCEPT ![s] = @ + 1]
  /\ UNCHANGED <<conf, m_loggers, level, formatter, pc, doc, val, todo, event, loads, crashed, history>>

LoggerDone(s) ==
  /\ Goto(s, "add", "reload") /\ placed[s] = Len(val[s][Head(todo[s])].appenders)
  /\ todo' = [todo EXCEPT ![s] = Tail(@)] /\ placed' = [placed EXCEPT ![s] = 0]
  /\ UNCHANGED <<conf, loggers, doc, val, event, loads, crashed, history>>

(* Then those of the old value that the new one has not got.               *)
Reloaded(s) ==
  /\ todo[s] = <<>> /\ Goto(s, "reload", "remove")
  /\ todo' = [todo EXCEPT ![s] = InNameOrder(DOMAIN Old \ DOMAIN val[s])]
  /\ UNCHANGED <<conf, loggers, doc, val, placed, event, loads, crashed, history>>

RemoveNever(s) ==
  /\ todo[s] # <<>> /\ Goto(s, "remove", "clear_removed")
  /\ level' = [level EXCEPT ![Head(todo[s])] = NEVER]
  /\ UNCHANGED <<conf, m_loggers, formatter, m_appender, doc, call, event, loads, crashed, history>>

\* Mutant of RemoveClear: the removed logger keeps its appenders.
RemoveClearNot(s) ==
  /\ Goto(s, "clear_removed", "remove")
  /\ todo' = [todo EXCEPT ![s] = Tail(@)]
  /\ UNCHANGED <<conf, loggers, doc, val, placed, event, loads, crashed, history>>

RemoveClear(s) ==
  /\ Goto(s, "clear_removed", "remove")
  /\ m_appender' = [m_appender EXCEPT ![Head(todo[s])] = <<>>]
  /\ todo' = [todo EXCEPT ![s] = Tail(@)]
  /\ UNCHANGED <<conf, m_loggers, level, formatter, doc, val, placed, event, loads, crashed, history>>

Removed(s) ==
  /\ todo[s] = <<>> /\ Goto(s, "remove", "store")
  /\ UNCHANGED <<conf, loggers, doc, call, event, loads, crashed, history>>

(***************************************************************************)
(* Logging                                                                 *)
(***************************************************************************)
(* TINYTCP_LOG_LEVEL(TINYTCP_LOG_NAME(n), l): nothing below the level.     *)
LogLevelMacro(w, n, l) ==
  /\ Goto(w, "idle", IF level[n] <= l THEN "log" ELSE "idle")
  /\ get_logger(n)
  /\ event' = [event EXCEPT ![w] = IF level[n] <= l THEN [name |-> n, level |-> l] ELSE NoEvent]
  /\ UNCHANGED <<conf, level, formatter, m_appender, doc, call, loads, crashed, history>>

(* ~LogEventWrap, Logger::log: the level again, before the lock.           *)
log(w) ==
  LET passes == event[w].level >= level[event[w].name] IN
  /\ Goto(w, "log", IF passes THEN "print" ELSE "idle")
  /\ event' = [event EXCEPT ![w] = IF passes THEN @ ELSE NoEvent]
  /\ UNCHANGED <<conf, loggers, doc, call, loads, crashed, history>>

(* The appenders that write the record, under the logger's lock.  Without  *)
(* an appender the loop has no turn, so the root logger is not asked.      *)
Writing(w) == {i \in DOMAIN m_appender[event[w].name] :
                 event[w].level >= m_appender[event[w].name][i].level}

Printed(w) ==
  /\ Goto(w, "print", "idle") /\ event' = [event EXCEPT ![w] = NoEvent]
  /\ UNCHANGED <<conf, loggers, doc, call, loads, crashed, history>>

(* to_yaml_string of an appender, a logger and of the LoggerManager.       *)
AppenderText(a) == PrintAppender(a)
LoggerText(n) ==
  [name |-> n, level |-> IF level[n] = UNKNOW THEN NoText ELSE to_string(level[n]),
   formatter |-> formatter[n],
   appenders |-> [i \in DOMAIN m_appender[n] |-> AppenderText(m_appender[n][i])]]
ManagerText == LET names == InNameOrder(m_loggers) IN [i \in DOMAIN names |-> LoggerText(names[i])]

(***************************************************************************)
(* The specification                                                       *)
(***************************************************************************)
Loading(s) ==
  \/ Skip(s) \/ from_string_of(s) \/ LoadDone(s)
  \/ SetSame(s) \/ SetCompare(s) \/ Notify(s) \/ NotifyThrows(s) \/ Notified(s) \/ Store(s)

Reloading(s) ==
  \/ ReloadUnchanged(s) \/ ReloadNext(s) \/ set_level(s) \/ set_formatter(s)
  \/ clear_appenders(s) \/ add_appender(s) \/ LoggerDone(s)
  \/ Reloaded(s) \/ RemoveNever(s) \/ RemoveClear(s) \/ Removed(s)

Setter(s) == ~ crashed /\ (Loading(s) \/ Reloading(s))

Writer(w) ==
  /\ ~ crashed
  /\ \/ \E n \in LogNames, l \in EventLevels : LogLevelMacro(w, n, l)
     \/ log(w) \/ Printed(w)

User ==
  /\ ~ crashed
  /\ \/ look_up
     \/ \E u \in Users : add_listener(u) \/ read_value(u) \/ del_listener(u)
     \/ clear_listener
     \/ \E s \in Setters, d \in Docs : load_from_yaml(s, d)

Crashed == crashed /\ UNCHANGED vars

SomeSetter == \E s \in Setters : Setter(s)

Next ==
  \/ SomeSetter
  \/ \E w \in Writers : Writer(w)
  \/ User \/ Crashed

Spec == Init /\ [][Next]_vars

(* Some thread that is inside load_from_yaml and does not wait for a lock  *)
(* runs on; nothing is assumed of the order in which locks are given.      *)
FairSpec == Spec /\ WF_vars(SomeSetter)

(***************************************************************************)
(* Properties                                                              *)
(***************************************************************************)
AtRest == ~ crashed /\ Setting("logs") = {} /\ ~ disturbed
Gone(n) == n \in configured /\ n \notin DOMAIN Old

(* When no document is being applied, and none was applied at the same     *)
(* time as another, each configured logger has the level and, in order,    *)
(* the appenders of its definition, and a logger that was configured once  *)
(* is at the level NEVER.                                                  *)
LoggersMatchConfig ==
  AtRest =>
    /\ \A n \in DOMAIN Old :
         /\ level[n] = Old[n].level
         /\ [i \in DOMAIN m_appender[n] |-> m_appender[n][i].type]
              = [i \in DOMAIN Old[n].appenders |-> Old[n].appenders[i].type]
    /\ \A n \in configured \ DOMAIN Old : level[n] = NEVER

(* A record that passed the level tests before its logger was removed is   *)
(* not printed after the removal is done.                                  *)
RemovedStaysSilent ==
  AtRest =>
    \A w \in Writers : pc[w] = "print" /\ Gone(event[w].name) => Writing(w) = {}

(* With no set_value under way, each listener knows the stored value,      *)
(* unless the gap between the two locks of set_value (config.h:293-302)    *)
(* has left it behind: it was registered or read the value while one was   *)
(* under way, two of them overlapped and either was stored, or it heard a  *)
(* value that was not stored because a later listener threw.  The next     *)
(* set_value that runs alone and is stored takes everyone along again,     *)
(* but for those registered or reading meanwhile.                          *)
ListenersKnowValue ==
  ~ crashed /\ Setting("groups") = {} =>
    \A u \in listening \ behind : told[u] = m_val["groups"]

(* The text ConfigVar::to_string writes for a variable is read back as the *)
(* value it was written for, and the text of the LoggerManager as loggers  *)
(* with the same level (unless removed), pattern and appenders.            *)
TypeAndFile(as) == [i \in DOMAIN as |-> <<as[i].type, as[i].file>>]
SavedConfigReloads ==
  /\ \A v \in Vars : LET text == ToStr(v, m_val[v]) IN
                     ~ Throws(v, text) /\ FromStr(v, text) = m_val[v]
  /\ \A n \in m_loggers : LET read == ParseLogs(ManagerText)[n] IN
       /\ level[n] # NEVER => read.level = level[n]
       /\ read.formatter = formatter[n]
       /\ TypeAndFile(read.appenders) = TypeAndFile(m_appender[n])

(* The pattern a logger or an appender uses is one without an error, and   *)
(* its items are the pattern's characters, none lost and none twice.       *)
FormattersAreSound ==
  \A n \in LogNames :
    \A p \in {formatter[n]} \cup {m_appender[n][i].formatter : i \in DOMAIN m_appender[n]} : Sound(p)

(* Every load_from_yaml comes to its end, also when two set the same       *)
(* variable, unless the process is gone.                                   *)
LoadsFinish == []<>(crashed \/ \A s \in Setters : pc[s] = "idle")
==============================================================================
