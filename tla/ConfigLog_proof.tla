--------------------------- MODULE ConfigLog_proof ---------------------------
(***************************************************************************)
(* Proofs about ConfigLog, for any number of threads, documents, loggers   *)
(* and listeners: what the listeners of a variable know, what the loggers  *)
(* are once the listener of "logs" has run, that what is saved is read     *)
(* back, and that a pattern is cut up without losing a character.          *)
(***************************************************************************)
EXTENDS ConfigLog, DataLemmas, TLAPS

Nodes == UNION {Range(d) : d \in Docs}

LogStages == {"reload", "level", "formatter", "clear", "add", "remove", "clear_removed"}
OneLogger == {"level", "formatter", "clear", "add"}
Removing  == {"remove", "clear_removed"}

(* A value of "logs".                                                      *)
IsLogs(f) ==
  /\ DOMAIN f \subseteq LogNames
  /\ \A n \in DOMAIN f : f[n].appenders \in Seq(Range(f[n].appenders))

Typed ==
  /\ DOMAIN m_val = Vars /\ listening \in SUBSET Users /\ registered \in SUBSET Vars
  /\ DOMAIN level = LogNames /\ DOMAIN m_appender = LogNames
  /\ \A n \in LogNames : m_appender[n] \in Seq(Range(m_appender[n]))
  /\ DOMAIN pc = Setters \cup Writers
  /\ doc \in [Setters -> Seq(Nodes)] /\ DOMAIN val = Setters
  /\ todo \in [Setters -> Seq(LogNames \cup Users)] /\ placed \in [Setters -> Nat]
  /\ DOMAIN told = Users

(* What a setter is about at each place it can be.                         *)
AtStage(s) ==
  /\ pc[s] \in LogStages => Key(s) = "logs"
  /\ pc[s] = "notify" => Key(s) = "groups" /\ todo[s] \in Seq(Users)
  /\ pc[s] \in LogStages \cup {"notify", "compare", "store"} => doc[s] # <<>> /\ Key(s) \in Vars
  /\ pc[s] \in LogStages \cup {"compare", "store"} /\ Key(s) = "logs" => IsLogs(val[s])
  /\ pc[s] \in LogStages => todo[s] \in Seq(LogNames)
  /\ pc[s] \in OneLogger \cup {"clear_removed"} => todo[s] # <<>>
  /\ pc[s] \in OneLogger \cup {"reload"} => Range(todo[s]) \subseteq DOMAIN val[s]
  /\ pc[s] \in Removing => Range(todo[s]) \cap DOMAIN val[s] = {}
  /\ pc[s] # "add" => placed[s] = 0
  /\ pc[s] = "add" => placed[s] <= Len(val[s][Head(todo[s])].appenders)
  /\ pc[s] \in LogStages \cup {"store"} /\ Key(s) = "logs" => DOMAIN val[s] \subseteq configured

StageInv ==
  /\ Typed /\ IsLogs(m_val["logs"]) /\ DOMAIN Old \subseteq configured /\ configured \subseteq LogNames
  /\ \A s \in Setters : AtStage(s)

(* Calls of set_value that do not overlap.                                 *)
OneAtATime == ~ disturbed => \A s, t \in Setting("logs") : s = t

(* A set_value of "groups" that is alone is the only one inside.           *)
AloneInv ==
  /\ alone \subseteq Setting("groups")
  /\ \A s \in alone : Setting("groups") = {s}

(* The listeners a set_value of "groups" still has to call, each once.     *)
QueuesInv ==
  \A s \in Setting("groups") :
    IsInjective(todo[s]) /\ (pc[s] = "store" => todo[s] = <<>>)

(* A listener of "groups" that is not behind knows the stored value, or    *)
(* some set_value under way has called it; if that one is alone, it knows  *)
(* the value that is going to be stored.                                   *)
Knows(u) ==
  /\ told[u] = m_val["groups"] \/ \E s \in Setting("groups") : u \notin Range(todo[s])
  /\ \A s \in alone : u \notin Range(todo[s]) => told[u] = val[s]

ListenersInv == AloneInv /\ QueuesInv /\ \A u \in listening \ behind : Knows(u)

(* The loggers.                                                            *)
Types(aps) == [i \in DOMAIN aps |-> aps[i].type]
FirstTypes(aps, k) == [i \in 1 .. k |-> aps[i].type]

Applied(n, d) == level[n] = d.level /\ Types(m_appender[n]) = Types(d.appenders)
Silent(n)     == level[n] = NEVER /\ m_appender[n] = <<>>

(* How far the listener of "logs" has come with the new value.             *)
Progress(s) ==
  /\ \A n \in DOMAIN val[s] :
       \/ Applied(n, val[s][n])
       \/ pc[s] \in OneLogger \cup {"reload"} /\ n \in Range(todo[s])
  /\ \A n \in configured \ DOMAIN val[s] :
       \/ Silent(n)
       \/ pc[s] \in OneLogger \cup {"reload"} /\ n \in DOMAIN Old
       \/ pc[s] \in Removing /\ n \in Range(todo[s])
  /\ LET n == Head(todo[s]) IN
     /\ pc[s] \in {"formatter", "clear", "add"} => level[n] = val[s][n].level
     /\ pc[s] = "add" => Types(m_appender[n]) = FirstTypes(val[s][n].appenders, placed[s])
     /\ pc[s] = "clear_removed" => level[n] = NEVER

LoggersInv ==
  ~ disturbed =>
    /\ Setting("logs") = {} => /\ \A n \in DOMAIN Old : Applied(n, Old[n])
                               /\ \A n \in configured \ DOMAIN Old : Silent(n)
    /\ \A s \in Setting("logs") : Progress(s)
------------------------------------------------------------------------------
(***************************************************************************)
(* Sequences the model builds                                              *)
(***************************************************************************)
(* What FlattenSeq adds up step by step, as a function one can reason      *)
(* about: it exists, by induction on the length.                           *)
LEMMA FlattenUnfolds ==
  ASSUME NEW A, NEW s \in Seq(Seq(A)), s # <<>>
  PROVE  \E f \in [1 .. Len(s) -> Seq(A)] :
           /\ \A i \in 1 .. Len(s) : f[i] = IF i = 1 THEN s[i] ELSE f[i - 1] \o s[i]
           /\ FlattenSeq(s) = f[Len(s)]
<1> DEFINE Step(g, i) == IF i = 1 THEN s[i] ELSE g[i - 1] \o s[i]
           Is(g, n) == g \in [1 .. n -> Seq(A)] /\ \A i \in 1 .. n : g[i] = Step(g, i)
           E(n) == \E g : Is(g, n)
           Q == {n \in Nat : n <= Len(s) => E(n)}
<1>1. Len(s) \in Nat /\ \A i \in 1 .. Len(s) : s[i] \in Seq(A)
  OBVIOUS
<1>2. E(0)
  <2>1. Is([i \in 1 .. 0 |-> <<>>], 0)
    OBVIOUS
  <2> QED
    BY <2>1
<1>3. ASSUME NEW n \in Nat, n + 1 <= Len(s), E(n) PROVE E(n + 1)
  <2>1. PICK g : Is(g, n)
    BY <1>3
  <2> DEFINE last == Step(g, n + 1)
             h == [i \in 1 .. n + 1 |-> IF i = n + 1 THEN last ELSE g[i]]
  <2>2. last \in Seq(A)
    BY <1>1, <1>3, <2>1
  <2>3. h \in [1 .. n + 1 -> Seq(A)]
    BY <2>1, <2>2
  <2>4. ASSUME NEW i \in 1 .. n + 1 PROVE h[i] = Step(h, i)
    <3>1. CASE i = n + 1
      <4>1. i # 1 => h[i - 1] = g[i - 1]
        BY <3>1
      <4>2. h[i] = Step(g, i)
        BY <3>1
      <4> QED
        BY <4>1, <4>2
    <3>2. CASE i # n + 1
      <4>1. i \in 1 .. n /\ h[i] = g[i] /\ (i # 1 => h[i - 1] = g[i - 1])
        BY <3>2
      <4> QED
        BY <2>1, <4>1
    <3> QED
      BY <3>1, <3>2
  <2>5. Is(h, n + 1)
    BY <2>3, <2>4
  <2> HIDE DEF Is
  <2> QED
    BY <2>5
<1>4. E(Len(s))
  <2> HIDE DEF E
  <2>1. 0 \in Q
    BY <1>2
  <2>2. ASSUME NEW n \in Nat, n \in Q PROVE n + 1 \in Q
    BY <1>1, <1>3, <2>2
  <2> HIDE DEF Q
  <2>3. Nat \subseteq Q
    BY <2>1, <2>2, CountingUp
  <2> QED
    BY <1>1, <2>3 DEF Q
<1> DEFINE R(g) == g = [i \in 1 .. Len(s) |-> IF i = 1 THEN s[i] ELSE g[i - 1] \o s[i]]
<1>5. PICK g : Is(g, Len(s))
  BY <1>1, <1>4
<1>6. R(g)
  BY <1>5
<1> DEFINE f == CHOOSE h : R(h)
<1>7. R(f)
  BY <1>6
<1>8. FlattenSeq(s) = f[Len(s)]
  <2>1. Len(s) # 0
    OBVIOUS
  <2> QED
    BY <2>1 DEF FlattenSeq
<1> HIDE DEF f
<1> DEFINE P == {n \in Nat : n \in 1 .. Len(s) => f[n] \in Seq(A)}
<1>9. ASSUME NEW n \in Nat, n \in P PROVE n + 1 \in P
  <2> SUFFICES ASSUME n + 1 \in 1 .. Len(s) PROVE f[n + 1] \in Seq(A)
    OBVIOUS
  <2>1. \A i \in 1 .. Len(s) : f[i] = IF i = 1 THEN s[i] ELSE f[i - 1] \o s[i]
    BY <1>7
  <2> DEFINE k == n + 1
  <2>2. k \in 1 .. Len(s) /\ n = k - 1 /\ (k # 1 => n \in 1 .. Len(s))
    BY <1>1
  <2>3. k # 1 => f[n] \in Seq(A)
    BY <1>9, <2>2
  <2>4. f[k] \in Seq(A)
    <3> HIDE DEF k, f, P, R
    <3>1. CASE k = 1
      BY <1>1, <2>1, <2>2, <3>1
    <3>2. CASE k # 1
      <4>1. f[k] = f[k - 1] \o s[k]
        BY <2>1, <2>2, <3>2
      <4>2. f[k - 1] \in Seq(A) /\ s[k] \in Seq(A)
        BY <1>1, <2>2, <2>3, <3>2
      <4> QED
        BY <4>1, <4>2, ConcatProperties
    <3> QED
      BY <3>1, <3>2
  <2> QED
    BY <2>4
<1>10. Nat \subseteq P
  <2>1. 0 \in P
    OBVIOUS
  <2> HIDE DEF P
  <2> QED
    BY <1>9, <2>1, CountingUp
<1>11. f \in [1 .. Len(s) -> Seq(A)]
  <2>1. \A n \in 1 .. Len(s) : f[n] \in Seq(A)
    BY <1>1, <1>10
  <2> QED
    BY <1>7, <2>1
<1>12. \A i \in 1 .. Len(s) : f[i] = IF i = 1 THEN s[i] ELSE f[i - 1] \o s[i]
  BY <1>7
<1> HIDE DEF Is, R, E, Q, P
<1> QED
  BY <1>8, <1>11, <1>12

(* FlattenSeq of a sequence of sequences is a sequence of their elements.  *)
LEMMA FlattenTyped ==
  ASSUME NEW A, NEW s \in Seq(Seq(A))
  PROVE  FlattenSeq(s) \in Seq(A)
<1>1. CASE s = <<>>
  BY <1>1 DEF FlattenSeq
<1>2. CASE s # <<>>
  <2>1. Len(s) \in 1 .. Len(s)
    BY <1>2
  <2> QED
    BY <1>2, <2>1, FlattenUnfolds
<1> QED
  BY <1>1, <1>2

(* A sequence with one more element.                                       *)
LEMMA OneMore ==
  ASSUME NEW A, NEW u \in Seq(A), NEW e \in A, NEW n \in Nat, Len(u) = n
  PROVE  /\ u \o <<e>> \in Seq(A) /\ Len(u \o <<e>>) = n + 1
         /\ (u \o <<e>>)[n + 1] = e /\ \A i \in 1 .. n : (u \o <<e>>)[i] = u[i]
<1>1. <<e>> \in Seq(A) /\ Len(<<e>>) = 1 /\ <<e>>[1] = e
  OBVIOUS
<1>2. u \o <<e>> \in Seq(A) /\ Len(u \o <<e>>) = n + 1
  BY <1>1
<1>3. \A i \in 1 .. n : (u \o <<e>>)[i] = u[i]
  BY <1>1
<1>4. (u \o <<e>>)[n + 1] = e
  BY <1>1
<1> QED
  BY <1>2, <1>3, <1>4

(* Single elements flatten to the sequence of them.                        *)
LEMMA FlattenSingles ==
  ASSUME NEW A, NEW s \in Seq(A)
  PROVE  FlattenSeq([i \in 1 .. Len(s) |-> <<s[i]>>]) = s
<1> DEFINE t == [i \in 1 .. Len(s) |-> <<s[i]>>]
<1>1. Len(s) \in Nat /\ DOMAIN s = 1 .. Len(s) /\ \A i \in 1 .. Len(s) : s[i] \in A
  OBVIOUS
<1>2. t \in [1 .. Len(s) -> Seq(A)] /\ \A i \in 1 .. Len(s) : t[i] = <<s[i]>>
  BY <1>1
<1> HIDE DEF t
<1>3. t \in Seq(Seq(A)) /\ Len(t) = Len(s)
  BY <1>1, <1>2, FunctionIsSeq
<1>4. CASE s = <<>>
  <2>1. t = <<>>
    BY <1>3, <1>4
  <2> QED
    BY <1>4, <2>1 DEF FlattenSeq, t
<1>5. CASE s # <<>>
  <2>1. t # <<>>
    BY <1>3, <1>5
  <2>2. PICK f \in [1 .. Len(t) -> Seq(A)] :
              /\ \A i \in 1 .. Len(t) : f[i] = IF i = 1 THEN t[i] ELSE f[i - 1] \o t[i]
              /\ FlattenSeq(t) = f[Len(t)]
    BY <1>3, <2>1, FlattenUnfolds
  <2> DEFINE P == {n \in Nat : n \in 1 .. Len(s) =>
                     f[n] \in Seq(A) /\ Len(f[n]) = n /\ \A i \in 1 .. n : f[n][i] = s[i]}
  <2>3. ASSUME NEW n \in Nat, n \in P PROVE n + 1 \in P
    <3> SUFFICES ASSUME n + 1 \in 1 .. Len(s)
                 PROVE  /\ f[n + 1] \in Seq(A) /\ Len(f[n + 1]) = n + 1
                        /\ \A i \in 1 .. n + 1 : f[n + 1][i] = s[i]
      OBVIOUS
    <3>1. s[n + 1] \in A
      BY <1>1
    <3>2. CASE n = 0
      <4>1. n + 1 = 1 /\ 1 \in 1 .. Len(s) /\ f[1] = <<s[1]>>
        BY <1>2, <1>3, <2>2, <3>2
      <4>2. s[1] \in A
        BY <1>1, <4>1
      <4>3. <<s[1]>> \in Seq(A) /\ Len(<<s[1]>>) = 1 /\ \A i \in 1 .. 1 : <<s[1]>>[i] = s[i]
        BY <4>2
      <4> QED
        BY <4>1, <4>3
    <3>3. CASE n # 0
      <4>0. n \in 1 .. Len(s) /\ n + 1 # 1 /\ (n + 1) - 1 = n /\ n + 1 \in 1 .. Len(t)
        BY <1>1, <1>3, <3>3
      <4>1. n \in 1 .. Len(s) /\ f[n + 1] = f[n] \o <<s[n + 1]>>
        <5>1. f[n + 1] = f[(n + 1) - 1] \o t[n + 1]
          BY <2>2, <4>0
        <5> QED
          BY <1>2, <4>0, <5>1
      <4>2. f[n] \in Seq(A) /\ Len(f[n]) = n /\ \A i \in 1 .. n : f[n][i] = s[i]
        BY <2>3, <4>1
      <4> DEFINE u == f[n]
      <4> HIDE DEF u
      <4>3. /\ u \o <<s[n + 1]>> \in Seq(A) /\ Len(u \o <<s[n + 1]>>) = n + 1
            /\ \A i \in 1 .. n + 1 : (u \o <<s[n + 1]>>)[i] = s[i]
        <5>1. u \in Seq(A) /\ Len(u) = n /\ \A i \in 1 .. n : u[i] = s[i]
          BY <4>2 DEF u
        <5> QED
          BY <3>1, <5>1, OneMore
      <4> QED
        BY <4>1, <4>3 DEF u
    <3> QED
      BY <3>2, <3>3
  <2>4. Nat \subseteq P
    <3>1. 0 \in P
      OBVIOUS
    <3> HIDE DEF P
    <3> QED
      BY <2>3, <3>1, CountingUp
  <2>5. Len(s) \in 1 .. Len(s)
    BY <1>1, <1>5
  <2>6. f[Len(s)] \in Seq(A) /\ Len(f[Len(s)]) = Len(s) /\ \A i \in 1 .. Len(s) : f[Len(s)][i] = s[i]
    BY <2>4, <2>5
  <2> DEFINE u == f[Len(s)]
  <2>7. u \in Seq(A) /\ Len(u) = Len(s) /\ \A i \in 1 .. Len(s) : u[i] = s[i]
    BY <2>6
  <2> HIDE DEF u
  <2>8. u = s
    BY <2>7
  <2> QED
    BY <1>3, <2>2, <2>8 DEF u, t
<1> QED
  BY <1>4, <1>5

(* How a concatenation is grouped does not matter.                         *)
Regrouped(A) == \A r, s, t \in Seq(A) : (r \o s) \o t = r \o (s \o t)

(* Concatenation is associative, in the form the proofs cite.              *)
LEMMA Grouping == ASSUME NEW A PROVE Regrouped(A)
BY ConcatAssociative DEF Regrouped

(* A sequence put in front comes first in the flat one.                    *)
LEMMA FlattenCons ==
  ASSUME NEW A, NEW x \in Seq(A), NEW s \in Seq(Seq(A))
  PROVE  FlattenSeq(<<x>> \o s) = x \o FlattenSeq(s)
<1> DEFINE t == <<x>> \o s
<1>1. Len(s) \in Nat /\ \A i \in 1 .. Len(s) : s[i] \in Seq(A)
  OBVIOUS
<1>2. <<x>> \in Seq(Seq(A)) /\ Len(<<x>>) = 1 /\ <<x>>[1] = x
  OBVIOUS
<1>3. /\ t \in Seq(Seq(A)) /\ Len(t) = 1 + Len(s) /\ t[1] = x
      /\ \A i \in 1 .. Len(s) : t[i + 1] = s[i]
  BY <1>1, <1>2
<1> HIDE DEF t
<1>4. t # <<>>
  BY <1>1, <1>3
<1>5. PICK g \in [1 .. Len(t) -> Seq(A)] :
            /\ \A i \in 1 .. Len(t) : g[i] = IF i = 1 THEN t[i] ELSE g[i - 1] \o t[i]
            /\ FlattenSeq(t) = g[Len(t)]
  BY <1>3, <1>4, FlattenUnfolds
<1>6. g[1] = x /\ \A i \in 1 .. Len(s) : g[i + 1] = g[i] \o s[i]
  <2>1. g[1] = x
    BY <1>1, <1>3, <1>5
  <2>2. ASSUME NEW i \in 1 .. Len(s) PROVE g[i + 1] = g[i] \o s[i]
    <3>1. i + 1 \in 1 .. Len(t) /\ i + 1 # 1 /\ (i + 1) - 1 = i
      <4>1. Len(s) \in Nat /\ Len(t) = 1 + Len(s)
        BY <1>1, <1>3
      <4> HIDE <1>1
      <4> QED
        BY <4>1
    <3>2. g[i + 1] = g[(i + 1) - 1] \o t[i + 1]
      BY <1>5, <3>1
    <3> QED
      BY <1>3, <3>1, <3>2
  <2> QED
    BY <2>1, <2>2
<1>7. CASE s = <<>>
  <2>1. FlattenSeq(t) = x
    BY <1>3, <1>5, <1>6, <1>7
  <2>2. FlattenSeq(s) = <<>> /\ x \o <<>> = x
    BY <1>7 DEF FlattenSeq
  <2> QED
    BY <2>1, <2>2 DEF t
<1>8. CASE s # <<>>
  <2>1. PICK f \in [1 .. Len(s) -> Seq(A)] :
              /\ \A i \in 1 .. Len(s) : f[i] = IF i = 1 THEN s[i] ELSE f[i - 1] \o s[i]
              /\ FlattenSeq(s) = f[Len(s)]
    BY <1>8, FlattenUnfolds
  <2> DEFINE P == {n \in Nat : n \in 1 .. Len(s) => g[n + 1] = x \o f[n]}
  <2>2. ASSUME NEW n \in Nat, n \in P PROVE n + 1 \in P
    <3> SUFFICES ASSUME n + 1 \in 1 .. Len(s) PROVE g[(n + 1) + 1] = x \o f[n + 1]
      OBVIOUS
    <3>1. g[(n + 1) + 1] = g[n + 1] \o s[n + 1]
      BY <1>6
    <3>2. CASE n = 0
      <4>0. n + 1 = 1 /\ 1 \in 1 .. Len(s)
        BY <3>2
      <4>1. f[n + 1] = s[n + 1] /\ g[n + 1] = x
        BY <1>6, <2>1, <4>0
      <4> QED
        BY <3>1, <4>1
    <3>3. CASE n # 0
      <4>1. n \in 1 .. Len(s) /\ (n + 1) - 1 = n /\ n + 1 # 1
        BY <1>1, <3>3
      <4>2. f[n + 1] = f[n] \o s[n + 1]
        BY <2>1, <4>1
      <4>3. f[n] \in Seq(A) /\ s[n + 1] \in Seq(A) /\ g[n + 1] = x \o f[n]
        BY <1>1, <2>1, <2>2, <4>1
      <4> DEFINE a == f[n]
                 b == s[n + 1]
      <4>4. a \in Seq(A) /\ b \in Seq(A)
        BY <4>3
      <4> HIDE DEF a, b
      <4>5. (x \o a) \o b = x \o (a \o b)
        <5>1. Regrouped(A)
          BY Grouping
        <5> QED
          BY <4>4, <5>1 DEF Regrouped
      <4> QED
        BY <3>1, <4>2, <4>3, <4>5 DEF a, b
    <3> QED
      BY <3>2, <3>3
  <2>3. Nat \subseteq P
    <3>1. 0 \in P
      OBVIOUS
    <3> HIDE DEF P
    <3> QED
      BY <2>2, <3>1, CountingUp
  <2>4. Len(s) \in Nat /\ Len(s) \in 1 .. Len(s) /\ Len(t) = Len(s) + 1
    BY <1>1, <1>3, <1>8
  <2>5. g[Len(s) + 1] = x \o f[Len(s)]
    BY <2>3, <2>4
  <2> QED
    BY <1>5, <2>1, <2>4, <2>5 DEF t
<1> QED
  BY <1>7, <1>8

(* An enumeration of a finite set without repetitions has all of it.       *)
LEMMA EnumeratesAll ==
  ASSUME NEW S, IsFiniteSet(S), NEW s \in [1 .. Cardinality(S) -> S], IsInjective(s)
  PROVE  s \in Seq(S) /\ Range(s) = S
<1>1. Cardinality(S) \in Nat
  BY FS_CardinalityType
<1>2. Cardinality(1 .. Cardinality(S)) = Cardinality(S)
  BY <1>1, FS_Interval
<1>3. s \in Injection(1 .. Cardinality(S), S)
  BY DEF Injection
<1>4. s \in Surjection(1 .. Cardinality(S), S)
  BY <1>2, <1>3, FS_Injection
<1> QED
  BY <1>1, <1>4, SeqDef DEF Surjection, Range

(* SetToSeq lists a finite set.                                            *)
LEMMA SetToSeqLists ==
  ASSUME NEW S, IsFiniteSet(S)
  PROVE  SetToSeq(S) \in Seq(S) /\ Range(SetToSeq(S)) = S /\ IsInjective(SetToSeq(S))
<1>1. ExistsBijection(1 .. Cardinality(S), S)
  BY FS_CardinalityType
<1>2. \E s \in [1 .. Cardinality(S) -> S] : IsInjective(s)
  BY <1>1 DEF ExistsBijection, Bijection, Injection
<1>3. SetToSeq(S) \in [1 .. Cardinality(S) -> S] /\ IsInjective(SetToSeq(S))
  BY <1>2 DEF SetToSeq
<1> QED
  BY <1>3, EnumeratesAll

Before(m, n) == \E a, b \in DOMAIN Names : a < b /\ m = Names[a] /\ n = Names[b]
InOrder(s) == \A i, k \in DOMAIN s : i < k => Before(s[i], s[k])

(* Every set of names has an enumeration in their order.                   *)
LEMMA OrderExists ==
  ASSUME NEW S, S \subseteq LogNames
  PROVE  IsFiniteSet(S) /\ \E s \in [1 .. Cardinality(S) -> S] : InOrder(s)
<1> DEFINE First(n) == {Names[i] : i \in 1 .. n}
           Good(T) == IsFiniteSet(T) /\ \E s \in [1 .. Cardinality(T) -> T] : InOrder(s)
           Q == {n \in Nat : n <= Len(Names) => \A T \in SUBSET First(n) : Good(T)}
<1>1. Len(Names) \in Nat /\ DOMAIN Names = 1 .. Len(Names)
  BY ConfigAssumption
<1>2. 0 \in Q
  <2>1. IsFiniteSet({}) /\ Cardinality({}) = 0
    BY FS_EmptySet
  <2>2. [i \in 1 .. 0 |-> 0] \in [1 .. 0 -> {}] /\ InOrder([i \in 1 .. 0 |-> 0])
    BY DEF InOrder
  <2>3. Good({})
    BY <2>1, <2>2
  <2>4. \A T \in SUBSET First(0) : T = {}
    OBVIOUS
  <2> QED
    BY <2>3, <2>4
<1>3. ASSUME NEW n \in Nat, n \in Q PROVE n + 1 \in Q
  <2> SUFFICES ASSUME n + 1 <= Len(Names), NEW T \in SUBSET First(n + 1) PROVE Good(T)
    OBVIOUS
  <2> DEFINE last == Names[n + 1]
             R == T \ {last}
  <2>1. R \in SUBSET First(n)
    <3>1. \A i \in 1 .. n + 1 : i = n + 1 \/ i \in 1 .. n
      OBVIOUS
    <3> QED
      BY <3>1
  <2>2. Good(R)
    <3> HIDE DEF Good
    <3> QED
      BY <1>1, <1>3, <2>1
  <2>3. CASE last \notin T
    <3>1. R = T
      BY <2>3
    <3> QED
      BY <2>2, <3>1
  <2>4. CASE last \in T
    <3> DEFINE c == Cardinality(R)
    <3>1. T = R \cup {last} /\ last \notin R
      BY <2>4
    <3>2. IsFiniteSet(T) /\ Cardinality(T) = c + 1 /\ c \in Nat
      <4>1. IsFiniteSet(R)
        BY <2>2
      <4> HIDE DEF Good, R
      <4>2. c \in Nat
        BY <4>1, FS_CardinalityType
      <4>3. IsFiniteSet(R \cup {last}) /\ Cardinality(R \cup {last}) = c + 1
        BY <3>1, <4>1, FS_AddElement
      <4> QED
        BY <3>1, <4>2, <4>3
    <3>3. PICK s \in [1 .. c -> R] : InOrder(s)
      BY <2>2
    <3> HIDE DEF c, R, Good
    <3> DEFINE t == [i \in 1 .. c + 1 |-> IF i = c + 1 THEN last ELSE s[i]]
    <3>4. t \in [1 .. c + 1 -> T]
      BY <3>1, <3>2, <3>3
    <3>5. ASSUME NEW i \in 1 .. c + 1, NEW k \in 1 .. c + 1, i < k PROVE Before(t[i], t[k])
      <4>1. i \in 1 .. c /\ t[i] = s[i] /\ s[i] \in R
        BY <3>2, <3>3, <3>5
      <4>2. CASE k = c + 1
        <5>1. PICK j \in 1 .. n : s[i] = Names[j]
          BY <2>1, <4>1
        <5>2. j \in DOMAIN Names /\ n + 1 \in DOMAIN Names /\ j < n + 1
          BY <1>1
        <5> QED
          BY <4>1, <4>2, <5>1, <5>2 DEF Before
      <4>3. CASE k # c + 1
        <5>1. k \in 1 .. c /\ t[k] = s[k]
          BY <3>2, <4>3
        <5> QED
          BY <3>3, <3>5, <4>1, <5>1 DEF InOrder
      <4> QED
        BY <4>2, <4>3
    <3>6. InOrder(t)
      BY <3>4, <3>5 DEF InOrder
    <3> QED
      BY <3>2, <3>4, <3>6 DEF Good
  <2> QED
    BY <2>3, <2>4
<1>4. Len(Names) \in Q
  <2> HIDE DEF Q
  <2>1. Nat \subseteq Q
    BY <1>2, <1>3, CountingUp
  <2> QED
    BY <1>1, <2>1
<1>5. S \in SUBSET First(Len(Names))
  BY <1>1 DEF LogNames
<1> QED
  BY <1>1, <1>4, <1>5

(* InNameOrder lists a set of logger names.                                *)
LEMMA InNameOrderLists ==
  ASSUME NEW S, S \subseteq LogNames
  PROVE  InNameOrder(S) \in Seq(S) /\ Range(InNameOrder(S)) = S
<1> DEFINE s == InNameOrder(S)
<1>1. s \in [1 .. Cardinality(S) -> S] /\ InOrder(s)
  <2>1. s = CHOOSE t \in [1 .. Cardinality(S) -> S] : InOrder(t)
    BY DEF InNameOrder, InOrder, Before
  <2>2. \E t \in [1 .. Cardinality(S) -> S] : InOrder(t)
    BY OrderExists
  <2> HIDE DEF s
  <2> QED
    BY <2>1, <2>2
<1>2. Cardinality(S) \in Nat /\ IsFiniteSet(S)
  BY OrderExists, FS_CardinalityType
<1> HIDE DEF s
<1>3. IsInjective(s)
  <2> SUFFICES ASSUME NEW i \in DOMAIN s, NEW k \in DOMAIN s, s[i] = s[k], i < k PROVE FALSE
    BY <1>1, <1>2 DEF IsInjective
  <2>1. PICK a \in DOMAIN Names, b \in DOMAIN Names : a < b /\ s[i] = Names[a] /\ s[k] = Names[b]
    BY <1>1 DEF InOrder, Before
  <2>2. a \in Nat /\ b \in Nat /\ a = b
    <3>1. DOMAIN Names \subseteq Nat
      BY ConfigAssumption
    <3>2. IsInjective(Names)
      BY ConfigAssumption
    <3> QED
      BY <2>1, <3>1, <3>2 DEF IsInjective
  <2> QED
    BY <2>1, <2>2
<1>4. s \in Seq(S) /\ Range(s) = S
  BY <1>1, <1>2, <1>3, EnumeratesAll
<1> QED
  BY <1>4 DEF s
------------------------------------------------------------------------------
(***************************************************************************)
(* Where each setter is                                                    *)
(***************************************************************************)
(* What the text of "logs" is read as.                                     *)
LEMMA ParsedLogs ==
  ASSUME NEW node \in Nodes, node.key = "logs", ~ Throws("logs", node.value)
  PROVE  IsLogs(FromStr("logs", node.value))
<1> DEFINE es == node.value
           f == ParseLogs(es)
           names == {es[i].name : i \in DOMAIN es}
<1>1. /\ es \in Seq(Range(es))
      /\ \A i \in DOMAIN es : /\ es[i].name \in LogNames \cup {NoText}
                              /\ es[i].appenders \in Seq(Range(es[i].appenders))
  <2>1. PICK d \in Docs : node \in Range(d)
    BY DEF Nodes
  <2>2. PICK i \in DOMAIN d : node = d[i]
    BY <2>1 DEF Range
  <2> QED
    BY <2>2, ConfigAssumption DEF LogsNode, Listed
<1>2. \A i \in DOMAIN es : es[i].name \in LogNames
  BY <1>1 DEF Throws, Parses
<1>3. FromStr("logs", es) = f /\ DOMAIN f = names
  BY DEF FromStr, ParseLogs
<1>4. ASSUME NEW a
      PROVE  ParseAppender(a) \in Seq(Range(ParseAppender(a)))
  <2>1. ParseAppender(a) = <<>> \/ \E x : ParseAppender(a) = <<x>>
    BY DEF ParseAppender
  <2>2. \E S : ParseAppender(a) \in Seq(S)
    <3>1. CASE ParseAppender(a) = <<>>
      BY <3>1
    <3>2. ASSUME NEW x, ParseAppender(a) = <<x>> PROVE ParseAppender(a) \in Seq({x})
      BY <3>2
    <3> QED
      BY <2>1, <3>1, <3>2
  <2> QED
    BY <2>2, SeqOfRange
<1>5. ASSUME NEW aps, aps \in Seq(Range(aps))
      PROVE  ParseAppenders(aps) \in Seq(Range(ParseAppenders(aps)))
  <2> DEFINE A == UNION {Range(ParseAppender(aps[i])) : i \in DOMAIN aps}
             s == [i \in DOMAIN aps |-> ParseAppender(aps[i])]
  <2>1. Len(aps) \in Nat /\ DOMAIN aps = 1 .. Len(aps)
    BY <1>5, LenProperties
  <2>2. ASSUME NEW i \in DOMAIN aps PROVE ParseAppender(aps[i]) \in Seq(A)
    <3>1. Range(ParseAppender(aps[i])) \subseteq A
      OBVIOUS
    <3> HIDE DEF A
    <3> QED
      BY <1>4, <3>1, SeqMonotonic
  <2>3. s \in [1 .. Len(aps) -> Seq(A)]
    BY <2>1, <2>2
  <2>4. s \in Seq(Seq(A))
    <3> HIDE DEF A, s
    <3> QED
      BY <2>1, <2>3, FunctionIsSeq
  <2>5. ParseAppenders(aps) = FlattenSeq(s)
    BY DEF ParseAppenders
  <2>6. FlattenSeq(s) \in Seq(A)
    <3> HIDE DEF A, s
    <3> QED
      BY <2>4, FlattenTyped
  <2> HIDE DEF A, s
  <2> QED
    BY <2>5, <2>6, SeqOfRange
<1>6. ASSUME NEW n \in names
      PROVE  f[n].appenders \in Seq(Range(f[n].appenders))
  <2> DEFINE k == SelectInSeq(es, LAMBDA e : e.name = n)
             T == {i \in 1 .. Len(es) : es[i].name = n}
  <2>1. Len(es) \in Nat /\ DOMAIN es = 1 .. Len(es)
    BY <1>1
  <2>2. T \subseteq Nat /\ T # {}
    BY <2>1, <1>6
  <2>3. k = Min(T)
    BY <2>2 DEF SelectInSeq
  <2>4. k \in DOMAIN es
    <3>1. Min(T) \in T
      <4> HIDE DEF T
      <4> QED
        BY <2>2, LeastExists DEF Min
    <3> QED
      BY <2>1, <2>3, <3>1
  <2>5. f[n].appenders = ParseAppenders(es[k].appenders)
    BY <1>6 DEF ParseLogs, ParseDefine
  <2> HIDE DEF k, f
  <2> QED
    BY <1>1, <1>5, <2>4, <2>5
<1> HIDE DEF f, es
<1> QED
  BY <1>2, <1>3, <1>6 DEF IsLogs, es

(* Nobody is inside set_value at first.                                    *)
LEMMA StageInit == Init => StageInv
<1> SUFFICES ASSUME Init PROVE StageInv
  OBVIOUS
<1>1. DOMAIN <<>> = {} /\ <<>> \in Seq(Range(<<>>))
  OBVIOUS
<1>2. IsLogs(m_val["logs"]) /\ DOMAIN Old = {}
  BY <1>1 DEF Init, Vars, IsLogs, Old
<1>3. ASSUME NEW n \in LogNames PROVE m_appender[n] \in Seq(Range(m_appender[n]))
  <2> DEFINE a == [type |-> 2, level |-> DEBUG, formatter |-> Default, file |-> NoText]
  <2>1. <<a>> \in Seq({a}) /\ <<>> \in Seq({a})
    OBVIOUS
  <2> HIDE DEF a
  <2>2. <<a>> \in Seq(Range(<<a>>))
    BY <2>1, SeqOfRange
  <2>3. m_appender[n] = <<>> \/ m_appender[n] = <<a>>
    BY DEF Init, a
  <2> QED
    BY <1>1, <2>2, <2>3
<1>4. Typed
  <2>1. doc \in [Setters -> Seq(Nodes)] /\ todo \in [Setters -> Seq(LogNames \cup Users)]
    BY DEF Init
  <2>2. placed \in [Setters -> Nat]
    BY DEF Init
  <2>3. DOMAIN m_val = Vars /\ DOMAIN level = LogNames /\ DOMAIN m_appender = LogNames
    BY DEF Init
  <2>4. DOMAIN pc = Setters \cup Writers /\ DOMAIN val = Setters /\ DOMAIN told = Users
    BY DEF Init
  <2>5. listening \in SUBSET Users /\ registered \in SUBSET Vars
    BY DEF Init, Vars
  <2> QED
    BY <1>3, <2>1, <2>2, <2>3, <2>4, <2>5 DEF Typed
<1>5. ASSUME NEW s \in Setters PROVE AtStage(s)
  BY DEF Init, AtStage, LogStages, OneLogger, Removing
<1> QED
  BY <1>2, <1>4, <1>5 DEF Init, StageInv

(* The other setters are where they were.                                  *)
Only(s) ==
  \A t \in Setters \ {s} : /\ pc'[t] = pc[t] /\ doc'[t] = doc[t] /\ val'[t] = val[t]
                           /\ todo'[t] = todo[t] /\ placed'[t] = placed[t]

(* A setter whose own state is unchanged stays where it is.                *)
LEMMA StageKept ==
  ASSUME NEW s \in Setters, AtStage(s), configured \subseteq configured',
         pc'[s] = pc[s], doc'[s] = doc[s], val'[s] = val[s], todo'[s] = todo[s], placed'[s] = placed[s]
  PROVE  AtStage(s)'
BY DEF AtStage, Key, IsLogs

(* Steps outside set_value.                                                *)
LEMMA StageAside ==
  ASSUME StageInv,
         \/ \E w \in Writers : Writer(w)
         \/ \E u \in Users : add_listener(u) \/ read_value(u) \/ del_listener(u)
         \/ clear_listener \/ look_up \/ Crashed \/ UNCHANGED vars
  PROVE  StageInv'
<1> USE DEF vars, conf, loggers, call, heard, history
<1>1. /\ UNCHANGED <<m_val, level, m_appender, doc, val, todo, placed, configured>>
      /\ listening' \in SUBSET Users /\ registered' \in SUBSET Vars /\ DOMAIN told' = Users
  BY DEF Writer, LogLevelMacro, log, Printed, add_listener, read_value, del_listener,
         clear_listener, Unregister, look_up, Crashed,
         StageInv, Typed
<1>2. DOMAIN pc' = Setters \cup Writers /\ \A s \in Setters : pc'[s] = pc[s]
  <2>0. DOMAIN pc = Setters \cup Writers /\ Setters \cap Writers = {}
    BY ConfigAssumption DEF StageInv, Typed
  <2>1. ASSUME NEW w \in Writers, Writer(w)
        PROVE  DOMAIN pc' = Setters \cup Writers /\ \A s \in Setters : pc'[s] = pc[s]
    BY <2>0, <2>1 DEF Writer, LogLevelMacro, log, Printed, Goto
  <2>2. CASE \/ \E u \in Users : add_listener(u) \/ read_value(u) \/ del_listener(u)
             \/ clear_listener \/ look_up \/ Crashed \/ UNCHANGED vars
    BY <2>0, <2>2 DEF add_listener, read_value, del_listener,
         clear_listener, Unregister, look_up, Crashed
  <2> QED
    BY <2>1, <2>2
<1>3. Typed'
  BY <1>1, <1>2 DEF StageInv, Typed
<1>4. \A s \in Setters : AtStage(s)'
  BY <1>1, <1>2, StageKept DEF StageInv
<1> QED
  BY <1>1, <1>3, <1>4 DEF StageInv, IsLogs, Old

(* A step of a setter needs to be looked at only for that setter.          *)
LEMMA StageStep ==
  ASSUME StageInv, NEW s \in Setters, Only(s), configured \subseteq configured', Typed', AtStage(s)',
         configured' \subseteq LogNames,
         \/ UNCHANGED m_val
         \/ IsLogs(m_val'["logs"]) /\ DOMAIN m_val'["logs"] \subseteq configured'
  PROVE  StageInv'
<1>1. \A t \in Setters : AtStage(t)'
  BY StageKept DEF StageInv, Only
<1> QED
  BY <1>1 DEF StageInv, IsLogs, Old

(* Taking a document, passing nodes over, calling listeners.               *)
LEMMA StageLoad ==
  ASSUME StageInv, NEW s \in Setters,
         \/ \E d \in Docs : load_from_yaml(s, d)
         \/ Skip(s) \/ LoadDone(s) \/ SetSame(s) \/ NotifyThrows(s) \/ Notify(s) \/ Notified(s)
  PROVE  StageInv'
<1> USE DEF conf, loggers, call, heard, history, StageInv, Typed, NextNode
<1>1. /\ UNCHANGED <<m_val, listening, registered, level, m_appender, placed, configured>>
      /\ DOMAIN pc' = Setters \cup Writers /\ DOMAIN val' = Setters /\ DOMAIN told' = Users
  BY DEF load_from_yaml, Skip, LoadDone, SetSame, NotifyThrows, Notify, Tell, Notified, Goto
<1>2. Only(s)
  BY DEF load_from_yaml, Skip, LoadDone, SetSame, NotifyThrows, Notify, Tell, Notified, Goto, Only
<1>3. doc' \in [Setters -> Seq(Nodes)]
  <2>1. ASSUME NEW d \in Docs PROVE d \in Seq(Nodes)
    <3>1. d \in Seq(Range(d)) /\ Range(d) \subseteq Nodes
      BY ConfigAssumption DEF Nodes, Listed
    <3> QED
      BY <3>1, SeqMonotonic
  <2>2. doc[s] # <<>> => Tail(doc[s]) \in Seq(Nodes)
    OBVIOUS
  <2>3. pc[s] \in {"compare", "notify"} => doc[s] # <<>>
    BY DEF AtStage
  <2> QED
    BY <2>1, <2>2, <2>3
    DEF load_from_yaml, Skip, LoadDone, SetSame, NotifyThrows, Notify, Tell, Notified, Goto
<1>4. todo' \in [Setters -> Seq(LogNames \cup Users)]
  <2>1. \/ UNCHANGED todo
        \/ todo' = [todo EXCEPT ![s] = <<>>]
        \/ todo[s] # <<>> /\ todo' = [todo EXCEPT ![s] = Tail(todo[s])]
    BY DEF load_from_yaml, Skip, LoadDone, SetSame, NotifyThrows, Notify, Tell, Notified
  <2>2. todo \in [Setters -> Seq(LogNames \cup Users)]
    OBVIOUS
  <2> HIDE DEF StageInv
  <2> DEFINE T == LogNames \cup Users
  <2>3. <<>> \in Seq(T) /\ (todo[s] # <<>> => Tail(todo[s]) \in Seq(T))
    BY <2>2
  <2> HIDE DEF T
  <2>4. todo' \in [Setters -> Seq(T)]
    BY <2>1, <2>2, <2>3 DEF T
  <2> QED
    BY <2>4 DEF T
<1>5. Typed'
  BY <1>1, <1>3, <1>4
<1>6. AtStage(s)'
  <2>1. CASE Notify(s)
    <3>1. /\ pc[s] = "notify" /\ pc'[s] = "notify" /\ UNCHANGED <<doc, placed>> /\ todo[s] # <<>>
          /\ todo'[s] = Tail(todo[s])
      BY <2>1 DEF Notify, Tell
    <3> QED
      BY <3>1 DEF AtStage, Key, LogStages, OneLogger, Removing
  <2>2. CASE Notified(s)
    <3>1. pc[s] = "notify" /\ pc'[s] = "store" /\ UNCHANGED <<doc, placed>>
      BY <2>2 DEF Notified, Goto
    <3> QED
      BY <3>1 DEF AtStage, Key, LogStages, OneLogger, Removing
  <2>3. CASE ~ Notify(s) /\ ~ Notified(s)
    <3>1. pc'[s] \in {"next", "idle"} /\ pc[s] # "add" /\ UNCHANGED placed
      BY <2>3 DEF load_from_yaml, Skip, LoadDone, SetSame, NotifyThrows, Goto
    <3> QED
      BY <3>1 DEF AtStage, Key, LogStages, OneLogger, Removing
  <2> QED
    BY <2>1, <2>2, <2>3
<1> QED
  BY <1>1, <1>2, <1>5, <1>6, StageStep

(* A value that was read is one of its variable.                           *)
LEMMA StageRead ==
  ASSUME StageInv, NEW s \in Setters, from_string_of(s)
  PROVE  StageInv'
<1> USE DEF conf, loggers, call, heard, history
<1>1. /\ doc[s] # <<>> /\ Key(s) \in Vars /\ ~ Throws(Key(s), Head(doc[s]).value)
      /\ pc[s] = "next" /\ pc' = [pc EXCEPT ![s] = "compare"]
      /\ val' = [val EXCEPT ![s] = FromStr(Key(s), Head(doc[s]).value)]
      /\ UNCHANGED <<m_val, listening, registered, level, m_appender, doc, todo, placed, told, configured>>
  BY DEF from_string_of, Goto, StageInv, Typed
<1>2. Only(s) /\ Typed' /\ pc'[s] = "compare" /\ val'[s] = FromStr(Key(s), Head(doc[s]).value)
  BY <1>1 DEF Only, StageInv, Typed
<1>3. Key(s) = "logs" => IsLogs(val'[s])
  <2>1. Head(doc[s]) \in Nodes
    BY <1>1, SMTT(30) DEF StageInv, Typed
  <2> QED
    BY <1>1, <1>2, <2>1, ParsedLogs DEF Key
<1>4. AtStage(s)'
  BY <1>1, <1>2, <1>3 DEF StageInv, AtStage, Key, LogStages, OneLogger, Removing, IsLogs
<1> QED
  BY <1>1, <1>2, <1>4, StageStep DEF StageInv

(* The queue of listeners, or of loggers, is filled.                       *)
LEMMA StageCompare ==
  ASSUME StageInv, NEW s \in Setters, SetCompare(s)
  PROVE  StageInv'
<1> USE DEF conf, loggers, call, heard, history
<1>0. Typed /\ AtStage(s) /\ configured \subseteq LogNames
  BY DEF StageInv
<1>1. /\ pc[s] = "compare" /\ pc' = [pc EXCEPT ![s] = IF Key(s) = "logs" THEN "reload" ELSE "notify"]
      /\ todo' = [todo EXCEPT ![s] = IF Key(s) = "logs" THEN InNameOrder(DOMAIN val[s])
                                     ELSE SetToSeq(listening)]
      /\ configured' = configured \cup (IF Key(s) = "logs" THEN DOMAIN val[s] ELSE {})
      /\ UNCHANGED <<m_val, listening, registered, level, m_appender, doc, val, placed, told>>
  BY DEF SetCompare, Goto
<1>2. doc[s] # <<>> /\ Key(s) \in Vars /\ (Key(s) = "logs" => IsLogs(val[s])) /\ placed[s] = 0
  BY <1>0, <1>1 DEF AtStage
<1>3. CASE Key(s) = "logs"
  <2> DEFINE new == InNameOrder(DOMAIN val[s])
  <2>1. DOMAIN val[s] \subseteq LogNames
    BY <1>2, <1>3 DEF IsLogs
  <2>2. new \in Seq(LogNames) /\ new \in Seq(LogNames \cup Users) /\ Range(new) = DOMAIN val[s]
    <3>1. new \in Seq(DOMAIN val[s]) /\ Range(new) = DOMAIN val[s]
      BY <2>1, InNameOrderLists
    <3> HIDE DEF new
    <3> QED
      BY <2>1, <3>1, SeqMonotonic
  <2>3. pc' = [pc EXCEPT ![s] = "reload"] /\ todo' = [todo EXCEPT ![s] = new]
    BY <1>1, <1>3
  <2> HIDE DEF new
  <2>4. Only(s) /\ Typed' /\ pc'[s] = "reload" /\ todo'[s] = new
    BY <1>0, <1>1, <2>2, <2>3 DEF Only, Typed
  <2>5. AtStage(s)'
    BY <1>1, <1>2, <1>3, <2>2, <2>4 DEF AtStage, Key, LogStages, OneLogger, Removing, IsLogs
  <2> QED
    BY <1>0, <1>1, <1>3, <2>1, <2>4, <2>5, StageStep
<1>4. CASE Key(s) # "logs"
  <2> DEFINE new == SetToSeq(listening)
  <2>1. new \in Seq(Users) /\ new \in Seq(LogNames \cup Users)
    <3>1. listening \subseteq Users /\ IsFiniteSet(listening)
      BY <1>0, ConfigAssumption, FS_Subset DEF Typed
    <3>2. new \in Seq(listening)
      BY <3>1, SetToSeqLists
    <3> HIDE DEF new
    <3> QED
      BY <3>1, <3>2, SeqMonotonic
  <2>2. pc' = [pc EXCEPT ![s] = "notify"] /\ todo' = [todo EXCEPT ![s] = new] /\ UNCHANGED configured
    BY <1>1, <1>4
  <2> HIDE DEF new
  <2>3. Only(s) /\ Typed' /\ pc'[s] = "notify" /\ todo'[s] = new
    BY <1>0, <1>1, <2>1, <2>2 DEF Only, Typed
  <2>4. Key(s) = "groups"
    BY <1>2, <1>4 DEF Vars
  <2>5. AtStage(s)'
    BY <1>1, <1>2, <2>1, <2>3, <2>4 DEF AtStage, Key, LogStages, OneLogger, Removing, IsLogs
  <2> QED
    BY <1>0, <1>1, <2>2, <2>3, <2>5, StageStep
<1> QED
  BY <1>3, <1>4

(* The new value of a variable is as the setter left it.                   *)
LEMMA StageStore ==
  ASSUME StageInv, NEW s \in Setters, Store(s)
  PROVE  StageInv'
<1> USE DEF conf, loggers, heard, history
<1>0. Typed /\ AtStage(s) /\ configured \subseteq LogNames
  BY DEF StageInv
<1>1. /\ pc[s] = "store" /\ pc' = [pc EXCEPT ![s] = "next"]
      /\ m_val' = [m_val EXCEPT ![Key(s)] = val[s]]
      /\ doc' = [doc EXCEPT ![s] = Tail(@)] /\ val' = [val EXCEPT ![s] = <<>>]
      /\ todo' = [todo EXCEPT ![s] = <<>>]
      /\ UNCHANGED <<listening, registered, level, m_appender, placed, told, configured>>
  BY DEF Store, Assign, Goto, NextNode
<1>2. doc[s] # <<>> /\ Key(s) \in Vars /\ placed[s] = 0
      /\ (Key(s) = "logs" => IsLogs(val[s]) /\ DOMAIN val[s] \subseteq configured)
  BY <1>0, <1>1 DEF AtStage
<1>3. Tail(doc[s]) \in Seq(Nodes)
  BY <1>0, <1>2 DEF Typed
<1>4. Only(s) /\ Typed' /\ pc'[s] = "next"
  BY <1>0, <1>1, <1>3 DEF Only, Typed
<1>5. AtStage(s)'
  BY <1>1, <1>2, <1>4 DEF AtStage, LogStages, OneLogger, Removing
<1>6. IsLogs(m_val'["logs"]) /\ DOMAIN m_val'["logs"] \subseteq configured'
  <2>1. m_val'["logs"] = IF Key(s) = "logs" THEN val[s] ELSE m_val["logs"]
    BY <1>0, <1>1 DEF Typed, Vars
  <2> QED
    BY <1>1, <1>2, <2>1 DEF StageInv, Old
<1> QED
  BY <1>0, <1>1, <1>4, <1>5, <1>6, StageStep

(* The first element of a queue that is not empty.                         *)
LEMMA HeadIsIn ==
  ASSUME NEW S, NEW queue \in Seq(S), queue # <<>>
  PROVE  /\ Head(queue) \in Range(queue) /\ Tail(queue) \in Seq(S)
         /\ Range(Tail(queue)) \subseteq Range(queue)
BY RangeTail

(* The listener of "logs", from one place to the next; a setter inside it  *)
(* is about "logs".                                                        *)
LEMMA StageReload ==
  ASSUME StageInv, NEW s \in Setters, Reloading(s)
  PROVE  StageInv'
<1> USE DEF conf, loggers, call, heard, history
<1>0. Typed /\ AtStage(s) /\ configured \subseteq LogNames /\ IsLogs(Old)
  BY SMTT(30) DEF StageInv, Old
<1>1. pc[s] \in LogStages /\ UNCHANGED <<m_val, listening, registered, doc, val, told, configured>>
  BY DEF Reloading, ReloadUnchanged, ReloadNext, set_level, set_formatter, clear_appenders,
         add_appender, LoggerDone, Reloaded, RemoveNever, RemoveClear, Removed, Goto, LogStages
<1>2. /\ Key(s) = "logs" /\ doc[s] # <<>> /\ IsLogs(val[s]) /\ DOMAIN val[s] \subseteq configured
      /\ todo[s] \in Seq(LogNames)
  BY <1>0, <1>1 DEF AtStage
<1>3. CASE ReloadUnchanged(s)
  <2>1. UNCHANGED <<level, m_appender, pc, todo, placed>>
    BY <1>3 DEF ReloadUnchanged
  <2>2. Only(s) /\ Typed'
    BY <1>0, <1>1, <2>1 DEF Only, Typed
  <2>3. AtStage(s)'
    BY <1>0, <1>1, <2>1, StageKept
  <2> QED
    BY <1>0, <1>1, <2>2, <2>3, StageStep
<1>4. CASE ReloadNext(s) \/ set_level(s) \/ set_formatter(s)
  <2>1. /\ UNCHANGED <<m_appender, todo, placed>> /\ DOMAIN level' = LogNames
        /\ \E from \in {"reload", "level", "formatter"}, to \in {"level", "formatter", "clear"} :
             pc[s] = from /\ pc' = [pc EXCEPT ![s] = to]
        /\ todo[s] # <<>>
    BY <1>0, <1>4 DEF ReloadNext, set_level, set_formatter, Goto, AtStage, OneLogger, Typed
  <2>2. Only(s) /\ Typed' /\ pc'[s] \in {"level", "formatter", "clear"}
    BY <1>0, <1>1, <2>1 DEF Only, Typed
  <2>3. AtStage(s)'
    BY <1>0, <1>1, <1>2, <2>1, <2>2 DEF AtStage, Key, LogStages, OneLogger, Removing, IsLogs
  <2> QED
    BY <1>0, <1>1, <2>2, <2>3, StageStep
<1>5. CASE clear_appenders(s)
  <2>1. /\ UNCHANGED <<level, todo, placed>> /\ pc[s] = "clear" /\ pc' = [pc EXCEPT ![s] = "add"]
        /\ m_appender' = [m_appender EXCEPT ![Head(todo[s])] = <<>>]
    BY <1>5 DEF clear_appenders, Goto
  <2>2. <<>> \in Seq(Range(<<>>))
    OBVIOUS
  <2>3. Only(s) /\ Typed' /\ pc'[s] = "add"
    BY <1>0, <1>1, <2>1, <2>2 DEF Only, Typed
  <2>4. todo[s] # <<>> /\ Head(todo[s]) \in DOMAIN val[s] /\ placed[s] = 0
    BY <1>0, <1>2, <2>1, HeadIsIn DEF AtStage, OneLogger
  <2>5. 0 <= Len(val[s][Head(todo[s])].appenders)
    BY <1>2, <2>4, LenProperties DEF IsLogs
  <2>6. AtStage(s)'
    BY <1>0, <1>1, <1>2, <2>1, <2>3, <2>4, <2>5
    DEF AtStage, Key, LogStages, OneLogger, Removing, IsLogs
  <2> QED
    BY <1>0, <1>1, <2>3, <2>6, StageStep
<1>6. CASE add_appender(s)
  <2> DEFINE n == Head(todo[s])
             d == val[s][n].appenders[placed[s] + 1]
             a == [type |-> d.type, level |-> d.level, formatter |-> formatter[n], file |-> d.file]
             old == m_appender[n]
             new == Append(old, a)
  <2>1. /\ UNCHANGED <<level, pc, todo>> /\ pc[s] = "add" /\ placed[s] < Len(val[s][n].appenders)
        /\ m_appender' = [m_appender EXCEPT ![n] = new] /\ placed' = [placed EXCEPT ![s] = @ + 1]
    BY <1>6, SMTT(30) DEF add_appender
  <2>2. todo[s] # <<>> /\ n \in DOMAIN val[s] /\ n \in LogNames
    BY <1>0, <1>2, <2>1, HeadIsIn DEF AtStage, OneLogger, IsLogs
  <2>3. new \in Seq(Range(new))
    <3>1. old \in Seq(Range(old))
      BY <1>0, <2>2 DEF Typed
    <3> HIDE DEF a, old
    <3>2. old \in Seq(Range(old) \cup {a})
      BY <3>1, SeqMonotonic
    <3>3. new \in Seq(Range(old) \cup {a})
      BY <3>2
    <3> HIDE DEF new
    <3> QED
      BY <3>3, SeqOfRange
  <2> HIDE DEF new, a
  <2>4. Only(s) /\ Typed' /\ pc'[s] = "add" /\ placed'[s] = placed[s] + 1
    BY <1>0, <1>1, <2>1, <2>3 DEF Only, Typed
  <2>5. placed'[s] <= Len(val[s][n].appenders)
    <3>1. Len(val[s][n].appenders) \in Nat /\ placed[s] \in Nat
      BY <1>0, <1>2, <2>2, LenProperties DEF IsLogs, Typed
    <3> QED
      BY <2>1, <2>4, <3>1
  <2>6. AtStage(s)'
    BY <1>0, <1>1, <1>2, <2>1, <2>2, <2>4, <2>5
    DEF AtStage, Key, LogStages, OneLogger, Removing, IsLogs
  <2> QED
    BY <1>0, <1>1, <2>4, <2>6, StageStep, SMTT(30)
<1>7. CASE LoggerDone(s)
  <2>1. /\ UNCHANGED <<level, m_appender>> /\ pc[s] = "add" /\ pc' = [pc EXCEPT ![s] = "reload"]
        /\ todo' = [todo EXCEPT ![s] = Tail(todo[s])] /\ placed' = [placed EXCEPT ![s] = 0]
    BY <1>7 DEF LoggerDone, Goto
  <2>2. todo[s] # <<>> /\ Range(todo[s]) \subseteq DOMAIN val[s]
    BY <1>0, <2>1 DEF AtStage, OneLogger
  <2>3. /\ Tail(todo[s]) \in Seq(LogNames) /\ Tail(todo[s]) \in Seq(LogNames \cup Users)
        /\ Range(Tail(todo[s])) \subseteq DOMAIN val[s]
    <3>1. Tail(todo[s]) \in Seq(LogNames) /\ Range(Tail(todo[s])) \subseteq DOMAIN val[s]
      BY <1>2, <2>2, HeadIsIn
    <3> QED
      BY <3>1, SeqMonotonic
  <2>4. Only(s) /\ Typed' /\ pc'[s] = "reload" /\ todo'[s] = Tail(todo[s]) /\ placed'[s] = 0
    BY <1>0, <1>1, <2>1, <2>3 DEF Only, Typed
  <2>5. AtStage(s)'
    BY <1>0, <1>1, <1>2, <2>1, <2>3, <2>4 DEF AtStage, Key, LogStages, OneLogger, Removing, IsLogs
  <2> QED
    BY <1>0, <1>1, <2>4, <2>5, StageStep
<1>8. CASE Reloaded(s)
  <2> DEFINE new == InNameOrder(DOMAIN Old \ DOMAIN val[s])
  <2>1. /\ UNCHANGED <<level, m_appender, placed>> /\ pc[s] = "reload"
        /\ pc' = [pc EXCEPT ![s] = "remove"] /\ todo' = [todo EXCEPT ![s] = new]
    BY <1>8 DEF Reloaded, Goto
  <2>2. /\ new \in Seq(LogNames) /\ new \in Seq(LogNames \cup Users)
        /\ Range(new) = DOMAIN Old \ DOMAIN val[s]
    <3>1. DOMAIN Old \subseteq LogNames
      BY <1>0 DEF IsLogs
    <3>2. new \in Seq(DOMAIN Old \ DOMAIN val[s]) /\ Range(new) = DOMAIN Old \ DOMAIN val[s]
      BY <3>1, InNameOrderLists
    <3> HIDE DEF new
    <3> QED
      BY <3>1, <3>2, SeqMonotonic
  <2> HIDE DEF new
  <2>3. Only(s) /\ Typed' /\ pc'[s] = "remove" /\ todo'[s] = new
    BY <1>0, <1>1, <2>1, <2>2 DEF Only, Typed
  <2>4. AtStage(s)'
    BY <1>0, <1>1, <1>2, <2>1, <2>2, <2>3 DEF AtStage, Key, LogStages, OneLogger, Removing, IsLogs
  <2> QED
    BY <1>0, <1>1, <2>3, <2>4, StageStep
<1>9. CASE RemoveNever(s) \/ Removed(s)
  <2>1. /\ UNCHANGED <<m_appender, todo, placed>> /\ DOMAIN level' = LogNames
        /\ pc[s] = "remove" /\ pc'[s] \in {"clear_removed", "store"}
        /\ \A t \in Setters \ {s} : pc'[t] = pc[t]
        /\ DOMAIN pc' = Setters \cup Writers
        /\ pc'[s] = "clear_removed" => todo[s] # <<>>
    BY <1>0, <1>9 DEF RemoveNever, Removed, Goto, Typed
  <2>2. Only(s) /\ Typed'
    BY <1>0, <1>1, <2>1 DEF Only, Typed
  <2>3. AtStage(s)'
    BY <1>0, <1>1, <1>2, <2>1 DEF AtStage, Key, LogStages, OneLogger, Removing, IsLogs
  <2> QED
    BY <1>0, <1>1, <2>2, <2>3, StageStep
<1>10. CASE RemoveClear(s)
  <2>1. /\ UNCHANGED <<level, placed>> /\ pc[s] = "clear_removed"
        /\ pc' = [pc EXCEPT ![s] = "remove"] /\ todo' = [todo EXCEPT ![s] = Tail(todo[s])]
        /\ m_appender' = [m_appender EXCEPT ![Head(todo[s])] = <<>>]
    BY <1>10 DEF RemoveClear, Goto
  <2>2. todo[s] # <<>> /\ Range(todo[s]) \cap DOMAIN val[s] = {} /\ placed[s] = 0
    BY <1>0, <2>1 DEF AtStage, Removing
  <2>3. /\ Tail(todo[s]) \in Seq(LogNames) /\ Tail(todo[s]) \in Seq(LogNames \cup Users)
        /\ Range(Tail(todo[s])) \cap DOMAIN val[s] = {} /\ <<>> \in Seq(Range(<<>>))
    <3>1. Tail(todo[s]) \in Seq(LogNames) /\ Range(Tail(todo[s])) \cap DOMAIN val[s] = {}
      BY <1>2, <2>2, HeadIsIn
    <3> QED
      BY <3>1, SeqMonotonic
  <2>4. Only(s) /\ Typed' /\ pc'[s] = "remove" /\ todo'[s] = Tail(todo[s])
    BY <1>0, <1>1, <2>1, <2>3 DEF Only, Typed
  <2>5. AtStage(s)'
    BY <1>0, <1>1, <1>2, <2>1, <2>2, <2>3, <2>4
    DEF AtStage, Key, LogStages, OneLogger, Removing, IsLogs
  <2> QED
    BY <1>0, <1>1, <2>4, <2>5, StageStep
<1> QED
  BY <1>3, <1>4, <1>5, <1>6, <1>7, <1>8, <1>9, <1>10 DEF Reloading

(* Every step keeps StageInv.                                              *)
LEMMA StageNext == StageInv /\ [Next]_vars => StageInv'
BY StageAside, StageLoad, StageRead, StageCompare, StageStore, StageReload
DEF Next, SomeSetter, Setter, User, Loading
------------------------------------------------------------------------------
(***************************************************************************)
(* Who is inside set_value                                                 *)
(***************************************************************************)
Inside == Reading \cup {"store"}

(* A step of a setter is a step of no other one.                           *)
LEMMA OnlyOne ==
  ASSUME StageInv, NEW s \in Setters,
         Loading(s) \/ Reloading(s) \/ \E d \in Docs : load_from_yaml(s, d)
  PROVE  Only(s) /\ (disturbed => disturbed')
<1>1. Only(s)
  <2> USE DEF conf, loggers, call, heard, history, StageInv, Typed, NextNode, Goto, Only
  <2>1. CASE Loading(s) \/ \E d \in Docs : load_from_yaml(s, d)
    BY <2>1, SMTT(30) DEF Loading, load_from_yaml, Skip, from_string_of, LoadDone, SetSame,
       SetCompare, Notify, Tell, NotifyThrows, Notified, Store, Assign
  <2>2. CASE Reloading(s)
    BY <2>2 DEF Reloading, ReloadUnchanged, ReloadNext, set_level, set_formatter, clear_appenders,
                add_appender, LoggerDone, Reloaded, RemoveNever, RemoveClear, Removed
  <2> QED
    BY <2>1, <2>2
<1>2. disturbed => disturbed'
  <2> USE DEF heard, history
  <2>1. CASE Loading(s) \/ \E d \in Docs : load_from_yaml(s, d)
    BY <2>1 DEF Loading, load_from_yaml, Skip, from_string_of, LoadDone, SetSame,
       SetCompare, Notify, Tell, NotifyThrows, Notified, Store, Assign
  <2>2. CASE Reloading(s)
    <3>1. UNCHANGED history
      BY <2>2, Zenon DEF Reloading, ReloadUnchanged, ReloadNext, set_level, set_formatter,
         clear_appenders, add_appender, LoggerDone, Reloaded, RemoveNever, RemoveClear, Removed
    <3> QED
      BY <3>1
  <2> QED
    BY <2>1, <2>2
<1> QED
  BY <1>1, <1>2

(* What a step of a setter does to the set of those inside.                *)
LEMMA SettingStep ==
  ASSUME NEW s \in Setters, Only(s), NEW v
  PROVE  /\ Setting(v)' \subseteq Setting(v) \cup {s} /\ Setting(v) \subseteq Setting(v)' \cup {s}
         /\ s \in Setting(v) <=> pc[s] \in Inside /\ Key(s) = v
         /\ s \in Setting(v)' <=> pc'[s] \in Inside /\ Key(s)' = v
BY DEF Setting, Only, Key, Inside

(* Those outside see nothing of it.                                        *)
LEMMA SettingAside ==
  ASSUME NEW v, \A t \in Setters : pc'[t] = pc[t] /\ doc'[t] = doc[t]
  PROVE  Setting(v)' = Setting(v)
BY DEF Setting, Key

(* What the steps of the other threads leave alone.                        *)
LEMMA SettersStay ==
  ASSUME StageInv,
         \/ \E w \in Writers : Writer(w)
         \/ \E u \in Users : add_listener(u) \/ read_value(u) \/ del_listener(u)
         \/ clear_listener \/ look_up \/ Crashed \/ UNCHANGED vars
  PROVE  /\ \A s \in Setters : pc'[s] = pc[s]
         /\ UNCHANGED <<doc, val, todo, placed, m_val, level, m_appender, configured>>
         /\ (disturbed => disturbed')
<1> USE DEF vars, conf, loggers, call, heard, history
<1> QED
  BY ConfigAssumption
  DEF Writer, LogLevelMacro, log, Printed, add_listener, read_value, del_listener,
         clear_listener, Unregister, look_up, Crashed,
      StageInv, Typed, Goto

(* An overlap is recorded by the step that makes it.                       *)
LEMMA OneNext == StageInv /\ OneAtATime /\ [Next]_vars => OneAtATime'
<1> SUFFICES ASSUME StageInv, OneAtATime, [Next]_vars PROVE OneAtATime'
  OBVIOUS
<1> DEFINE L == "logs"
<1>1. ASSUME (disturbed => disturbed'),
             ~ disturbed' => \/ Setting(L)' \subseteq Setting(L)
                             \/ \E s : Setting(L)' \subseteq Setting(L) \cup {s} /\ Setting(L) = {}
      PROVE  OneAtATime'
  <2> SUFFICES ASSUME ~ disturbed', NEW s \in Setting(L)', NEW t \in Setting(L)'
               PROVE  s = t
    BY DEF OneAtATime
  <2>1. \A a, b \in Setting(L) : a = b
    BY <1>1 DEF OneAtATime
  <2> QED
    BY <1>1, <2>1
<1>2. ASSUME NEW s \in Setters, Loading(s) \/ Reloading(s) \/ \E d \in Docs : load_from_yaml(s, d)
      PROVE  OneAtATime'
  <2>1. Only(s) /\ (disturbed => disturbed')
    BY <1>2, OnlyOne
  <2>2. AtStage(s)
    BY DEF StageInv
  <2>3. CASE SetCompare(s)
    <3>1. /\ pc[s] = "compare" /\ UNCHANGED doc
          /\ Key(s) = L /\ Setting(L) # {} => disturbed'
      BY <2>3 DEF SetCompare, Goto
    <3>2. ~ disturbed' /\ s \in Setting(L)' => Setting(L) = {}
      <4>1. s \in Setting(L)' => Key(s) = L
        BY <3>1 DEF Setting, Key
      <4> QED
        BY <3>1, <4>1
    <3> QED
      BY <1>1, <2>1, <3>2, SettingStep
  <2>4. CASE ~ SetCompare(s)
    <3>1. pc'[s] \in Inside => pc[s] \in Inside /\ doc'[s] = doc[s]
      <4>1. CASE Reloading(s)
        <5>1. UNCHANGED doc /\ pc[s] \in Inside
          BY <4>1 DEF Reloading, ReloadUnchanged, ReloadNext, set_level, set_formatter, clear_appenders,
              add_appender, LoggerDone, Reloaded, RemoveNever, RemoveClear, Removed, call, Goto,
              Inside, Reading
        <5> QED
          BY <5>1, SMTT(30)
      <4>2. CASE Notify(s) \/ Notified(s)
        BY <4>2 DEF Notify, Tell, Notified, Goto, Inside, Reading
      <4>3. CASE (Loading(s) \/ \E d \in Docs : load_from_yaml(s, d)) /\ ~ (Notify(s) \/ Notified(s))
        <5>1. pc'[s] \in {"idle", "next", "compare"}
          <6>1. s \in DOMAIN pc
            BY DEF StageInv, Typed
          <6> QED
            BY <2>4, <4>3, <6>1 DEF Loading, load_from_yaml, Skip, from_string_of, LoadDone, SetSame,
                 NotifyThrows, Store, Assign, Goto
        <5> QED
          BY <5>1 DEF Inside, Reading
      <4> QED
        BY <1>2, <4>1, <4>2, <4>3
    <3>2. \A v : s \in Setting(v)' => s \in Setting(v)
      <4>1. pc'[s] \in Inside => Key(s)' = Key(s)
        BY <3>1 DEF Key
      <4> QED
        BY <2>1, <3>1, <4>1, SettingStep
    <3>3. \A v : Setting(v)' \subseteq Setting(v)
      BY <2>1, <3>2, SettingStep
    <3> QED
      BY <1>1, <2>1, <3>3
  <2> QED
    BY <2>3, <2>4
<1>3. CASE \/ \E w \in Writers : Writer(w)
           \/ \E u \in Users : add_listener(u) \/ read_value(u) \/ del_listener(u)
           \/ clear_listener \/ look_up \/ Crashed \/ UNCHANGED vars
  <2>1. /\ \A s \in Setters : pc'[s] = pc[s] /\ doc'[s] = doc[s]
        /\ (disturbed => disturbed')
    BY <1>3, SettersStay
  <2>2. \A v : Setting(v)' = Setting(v)
    BY <2>1, SettingAside
  <2> QED
    BY <1>1, <2>1, <2>2
<1> QED
  BY <1>2, <1>3 DEF Next, SomeSetter, Setter, User
------------------------------------------------------------------------------
(***************************************************************************)
(* What the listeners know                                                 *)
(***************************************************************************)
LEMMA ListenersInit == Init => ListenersInv /\ OneAtATime
BY DEF Init, ListenersInv, AloneInv, QueuesInv, OneAtATime, Setting, Reading

(* Steps after which the same set_values of "groups" are under way, with   *)
(* the same listeners still to be called.                                  *)
LEMMA ListenersAside ==
  ASSUME ListenersInv, UNCHANGED alone, m_val'["groups"] = m_val["groups"],
         Setting("groups")' = Setting("groups"),
         \A t \in Setting("groups") : /\ val'[t] = val[t] /\ todo'[t] = todo[t]
                                      /\ pc'[t] = pc[t] \/ todo[t] = <<>>,
         \A u \in listening' \ behind' : u \in listening \ behind /\ told'[u] = told[u]
  PROVE  ListenersInv'
<1>1. AloneInv'
  BY DEF ListenersInv, AloneInv
<1>2. QueuesInv'
  BY DEF ListenersInv, QueuesInv
<1>3. ASSUME NEW u \in listening' \ behind' PROVE Knows(u)'
  <2>1. Knows(u) /\ told'[u] = told[u] /\ alone \subseteq Setting("groups")
    BY DEF ListenersInv, AloneInv
  <2>2. CASE \E t \in Setting("groups") : u \notin Range(todo[t])
    BY <2>1, <2>2 DEF Knows
  <2>3. CASE told[u] = m_val["groups"]
    BY <2>1, <2>3 DEF Knows
  <2> QED
    BY <2>1, <2>2, <2>3 DEF Knows
<1> QED
  BY <1>1, <1>2, <1>3 DEF ListenersInv

(* A step of a setter that is not inside set_value of v, before or after.  *)
LEMMA NotThisVariable ==
  ASSUME NEW s \in Setters, Only(s), NEW v, s \notin Setting(v), s \notin Setting(v)'
  PROVE  /\ Setting(v)' = Setting(v)
         /\ \A t \in Setting(v) : /\ pc'[t] = pc[t] /\ val'[t] = val[t] /\ todo'[t] = todo[t]
                                  /\ placed'[t] = placed[t]
<1>1. Setting(v)' = Setting(v)
  BY SettingStep
<1>2. Setting(v) \subseteq Setters \ {s}
  BY DEF Setting
<1> QED
  BY <1>1, <1>2 DEF Only

(* A step of the only setter inside set_value of "logs".                   *)
LEMMA OnlyThisOne ==
  ASSUME OneAtATime, NEW s \in Setters, Only(s), ~ disturbed, s \in Setting("logs")
  PROVE  Setting("logs") = {s} /\ Setting("logs")' \subseteq {s}
<1>1. Setting("logs") = {s}
  BY DEF OneAtATime
<1> QED
  BY <1>1, SettingStep

(* Steps of a setter outside set_value of any variable.                    *)
LEMMA LoadingAside ==
  ASSUME StageInv, NEW s \in Setters,
         \/ Skip(s) \/ from_string_of(s) \/ LoadDone(s) \/ SetSame(s)
         \/ \E d \in Docs : load_from_yaml(s, d)
  PROVE  /\ \A v : s \notin Setting(v) /\ s \notin Setting(v)'
         /\ UNCHANGED <<heard, listening, m_val, level, m_appender, configured>>
<1> USE DEF conf, loggers, call, heard, history
<1>1. /\ pc[s] \in {"idle", "next", "compare"} /\ pc'[s] \in {"idle", "next", "compare"}
      /\ UNCHANGED <<told, alone, behind, listening, m_val, level, m_appender, configured>>
  BY DEF StageInv, Typed, Skip, from_string_of, LoadDone, SetSame, load_from_yaml, Goto
<1> QED
  BY <1>1 DEF Setting, Reading

(* What is left of a queue without repetitions.                            *)
LEMMA TailInjective ==
  ASSUME NEW S, NEW queue \in Seq(S), queue # <<>>, IsInjective(queue)
  PROVE  IsInjective(Tail(queue)) /\ Head(queue) \notin Range(Tail(queue))
<1>1. /\ DOMAIN queue = 1 .. Len(queue) /\ Len(queue) \in Nat \ {0} /\ Head(queue) = queue[1]
      /\ DOMAIN Tail(queue) = 1 .. Len(queue) - 1
      /\ \A i \in 1 .. Len(queue) - 1 : Tail(queue)[i] = queue[i + 1]
  OBVIOUS
<1>2. \A i, k \in 1 .. Len(queue) : queue[i] = queue[k] => i = k
  BY <1>1 DEF IsInjective
<1>3. IsInjective(Tail(queue))
  BY <1>1, <1>2 DEF IsInjective
<1>4. Head(queue) \notin Range(Tail(queue))
  BY <1>1, <1>2 DEF Range
<1> QED
  BY <1>3, <1>4

(* A listener is called: it knows the new value, the others what they knew.*)
LEMMA ListenersNotify ==
  ASSUME StageInv, ListenersInv, NEW s \in Setters, Notify(s)
  PROVE  ListenersInv'
<1> DEFINE G == "groups"
<1>0. PICK h : h = Head(todo[s])
  OBVIOUS
<1>1. /\ pc[s] = "notify" /\ UNCHANGED <<pc, doc, val, listening, m_val, alone>> /\ todo[s] # <<>>
      /\ told' = [told EXCEPT ![h] = val[s]]
      /\ todo' = [todo EXCEPT ![s] = Tail(todo[s])]
      /\ behind' = IF s \in alone THEN behind \ {h} ELSE behind
  BY <1>0 DEF Notify, Tell, conf
<1>2. Key(s) = G /\ s \in Setting(G) /\ todo[s] \in Seq(Users)
  BY <1>1 DEF StageInv, AtStage, Setting, Reading
<1>3. DOMAIN told = Users /\ DOMAIN todo = Setters /\ Setting(G) \subseteq Setters
  BY DEF StageInv, Typed, Setting
<1>4. Setting(G)' = Setting(G)
  BY <1>1 DEF Setting, Key
<1>5. /\ IsInjective(Tail(todo[s])) /\ h \notin Range(Tail(todo[s])) /\ h \in Users
      /\ Range(todo[s]) = Range(Tail(todo[s])) \cup {h}
  BY <1>0, <1>1, <1>2, TailInjective, RangeTail DEF ListenersInv, QueuesInv
<1>6. todo'[s] = Tail(todo[s]) /\ \A t \in Setters \ {s} : todo'[t] = todo[t]
  BY <1>1, <1>3
<1>7. told'[h] = val[s] /\ \A u \in Users \ {h} : told'[u] = told[u]
  BY <1>1, <1>3, <1>5
<1>8. AloneInv'
  BY <1>1, <1>4 DEF ListenersInv, AloneInv
<1>9. QueuesInv'
  BY <1>1, <1>3, <1>4, <1>5, <1>6 DEF ListenersInv, QueuesInv
<1>10. Knows(h)'
  <2>1. \E t \in Setting(G)' : h \notin Range(todo'[t])
    BY <1>2, <1>4, <1>5, <1>6
  <2>2. ASSUME NEW t \in alone PROVE told'[h] = val[t]
    <3>1. t = s
      BY <1>2 DEF ListenersInv, AloneInv
    <3> QED
      BY <1>7, <3>1
  <2> QED
    BY <1>1, <2>1, <2>2 DEF Knows
<1>11. ASSUME NEW u \in listening' \ behind', u # h PROVE Knows(u)'
  <2>1. u \in listening \ behind /\ u \in Users
    BY <1>1, <1>11 DEF StageInv, Typed
  <2>2. Knows(u) /\ told'[u] = told[u]
    BY <1>7, <1>11, <2>1 DEF ListenersInv
  <2>3. \A t \in Setters : u \notin Range(todo'[t]) <=> u \notin Range(todo[t])
    BY <1>5, <1>6, <1>11
  <2>4. told'[u] = m_val'[G] \/ \E t \in Setting(G)' : u \notin Range(todo'[t])
    BY <1>1, <1>3, <1>4, <2>2, <2>3 DEF Knows
  <2>5. \A t \in alone' : u \notin Range(todo'[t]) => told'[u] = val'[t]
    BY <1>1, <1>3, <2>2, <2>3 DEF Knows, ListenersInv, AloneInv
  <2> QED
    BY <2>4, <2>5 DEF Knows
<1> QED
  BY <1>8, <1>9, <1>10, <1>11 DEF ListenersInv

(* A listener throws: those it has called before are behind.               *)
LEMMA ListenersThrow ==
  ASSUME StageInv, ListenersInv, NEW s \in Setters, Only(s), NotifyThrows(s)
  PROVE  ListenersInv'
<1> DEFINE G == "groups"
<1>1. /\ pc[s] = "notify" /\ pc'[s] = "next" /\ UNCHANGED <<listening, m_val, told>>
      /\ behind' = behind \cup (listening \ Range(todo[s])) /\ alone' = alone \ {s}
  BY DEF NotifyThrows, Goto, conf, StageInv, Typed, ToSet, Range
<1>2. Setting(G)' = Setting(G) \ {s} /\ Setting(G) \subseteq Setters
  <2>1. s \notin Setting(G)'
    BY <1>1 DEF Setting, Reading
  <2> QED
    BY <2>1, SettingStep DEF Setting
<1>3. \A t \in Setting(G)' : pc'[t] = pc[t] /\ val'[t] = val[t] /\ todo'[t] = todo[t]
  BY <1>2 DEF Only
<1>4. AloneInv'
  BY <1>1, <1>2 DEF ListenersInv, AloneInv
<1>5. QueuesInv'
  BY <1>2, <1>3 DEF ListenersInv, QueuesInv
<1>6. ASSUME NEW u \in listening' \ behind' PROVE Knows(u)'
  <2>1. Knows(u) /\ u \in Range(todo[s])
    BY <1>1 DEF ListenersInv
  <2>2. told'[u] = m_val'[G] \/ \E t \in Setting(G)' : u \notin Range(todo'[t])
    BY <1>1, <1>2, <1>3, <2>1 DEF Knows
  <2>3. \A t \in alone' : u \notin Range(todo'[t]) => told'[u] = val'[t]
    BY <1>1, <1>3, <1>4, <2>1 DEF Knows, AloneInv
  <2> QED
    BY <2>2, <2>3 DEF Knows
<1> QED
  BY <1>4, <1>5, <1>6 DEF ListenersInv

(* A set_value begins: it is alone if it finds no other one.               *)
LEMMA ListenersCompare ==
  ASSUME StageInv, ListenersInv, NEW s \in Setters, Only(s), SetCompare(s)
  PROVE  ListenersInv'
<1> DEFINE G == "groups"
<1>1. /\ pc[s] = "compare" /\ UNCHANGED <<doc, val, m_val, listening, told, behind>>
      /\ pc'[s] = IF Key(s) = "logs" THEN "reload" ELSE "notify"
      /\ Key(s) # "logs" => todo'[s] = SetToSeq(listening)
      /\ IF Key(s) = "logs" THEN UNCHANGED alone
                            ELSE alone' = IF Setting(G) = {} THEN {s} ELSE {}
  BY DEF SetCompare, Goto, conf, StageInv, Typed
<1>2. s \notin Setting(G) /\ Key(s)' = Key(s) /\ Key(s) \in Vars
  BY <1>1 DEF Setting, Reading, Key, StageInv, AtStage
<1>3. CASE Key(s) = "logs"
  <2>1. s \notin Setting(G)'
    BY <1>2, <1>3 DEF Setting
  <2> QED
    BY <1>1, <1>2, <1>3, <2>1, NotThisVariable, ListenersAside
<1>4. CASE Key(s) = G
  <2>1. Setting(G)' = Setting(G) \cup {s} /\ Setting(G) \subseteq Setters \ {s}
    <3>1. s \in Setting(G)'
      BY <1>1, <1>2, <1>4, SettingStep DEF Inside, Reading
    <3> QED
      BY <1>2, <3>1, SettingStep DEF Setting
  <2>2. \A t \in Setting(G) : pc'[t] = pc[t] /\ val'[t] = val[t] /\ todo'[t] = todo[t]
    BY <2>1 DEF Only
  <2>3. Range(todo'[s]) = listening /\ IsInjective(todo'[s])
    BY <1>1, <1>4, SetToSeqLists, ConfigAssumption, FS_Subset DEF StageInv, Typed
  <2>4. AloneInv'
    BY <1>1, <1>4, <2>1 DEF AloneInv
  <2>5. QueuesInv'
    BY <1>1, <1>4, <2>1, <2>2, <2>3 DEF ListenersInv, QueuesInv
  <2>6. ASSUME NEW u \in listening' \ behind' PROVE Knows(u)'
    <3>1. Knows(u) /\ u \in Range(todo'[s])
      BY <1>1, <2>3 DEF ListenersInv
    <3>2. told'[u] = m_val'[G] \/ \E t \in Setting(G)' : u \notin Range(todo'[t])
      BY <1>1, <2>1, <2>2, <3>1 DEF Knows
    <3>3. \A t \in alone' : t = s
      BY <1>1, <1>4
    <3> QED
      BY <3>1, <3>2, <3>3 DEF Knows
  <2> QED
    BY <2>4, <2>5, <2>6 DEF ListenersInv
<1> QED
  BY <1>2, <1>3, <1>4 DEF Vars

(* The value is stored: those that heard the value of a set_value that was *)
(* alone know what is stored, the others are behind.                       *)
LEMMA ListenersStore ==
  ASSUME StageInv, ListenersInv, NEW s \in Setters, Only(s), Store(s)
  PROVE  ListenersInv'
<1> DEFINE G == "groups"
<1>1. /\ pc[s] = "store" /\ pc'[s] = "next" /\ UNCHANGED <<listening, told>>
      /\ m_val' = [m_val EXCEPT ![Key(s)] = val[s]] /\ alone' = alone \ {s}
      /\ behind' = IF Key(s) = "logs" \/ s \in alone THEN behind ELSE behind \cup listening
  BY DEF Store, Assign, Goto, StageInv, Typed
<1>2. s \notin Setting(G)' /\ Key(s) \in Vars /\ DOMAIN m_val = Vars /\ G \in Vars
  BY <1>1 DEF Setting, Reading, StageInv, AtStage, Typed, Vars
<1>3. CASE Key(s) = "logs"
  <2>1. s \notin Setting(G) /\ UNCHANGED <<alone, behind>> /\ m_val'[G] = m_val[G]
    <3>1. s \notin Setting(G)
      BY <1>3 DEF Setting
    <3> QED
      BY <1>1, <1>2, <1>3, <3>1 DEF ListenersInv, AloneInv
  <2> QED
    BY <1>1, <1>2, <2>1, NotThisVariable, ListenersAside
<1>4. CASE Key(s) = G
  <2>1. s \in Setting(G) /\ Setting(G)' = Setting(G) \ {s} /\ Setting(G) \subseteq Setters
    <3>1. s \in Setting(G)
      BY <1>1, <1>4 DEF Setting
    <3> QED
      BY <1>2, <3>1, SettingStep DEF Setting
  <2>2. \A t \in Setting(G)' : pc'[t] = pc[t] /\ val'[t] = val[t] /\ todo'[t] = todo[t]
    BY <2>1 DEF Only
  <2>3. AloneInv'
    BY <1>1, <2>1 DEF ListenersInv, AloneInv
  <2>4. QueuesInv'
    BY <2>1, <2>2 DEF ListenersInv, QueuesInv
  <2>5. ASSUME NEW u \in listening' \ behind' PROVE Knows(u)'
    <3>1. s \in alone /\ Knows(u) /\ todo[s] = <<>>
      BY <1>1, <1>4, <2>1 DEF ListenersInv, QueuesInv
    <3>2. u \notin Range(todo[s])
      BY <3>1 DEF Range
    <3>3. told'[u] = val[s] /\ m_val'[G] = val[s]
      BY <1>1, <1>2, <1>4, <3>1, <3>2 DEF Knows
    <3>4. alone' = {}
      BY <1>1, <2>1, <3>1 DEF ListenersInv, AloneInv
    <3> QED
      BY <3>3, <3>4 DEF Knows
  <2> QED
    BY <2>3, <2>4, <2>5 DEF ListenersInv
<1> QED
  BY <1>2, <1>3, <1>4 DEF Vars

(* Every step of a setter keeps what the listeners know.                   *)
LEMMA ListenersSetter ==
  ASSUME StageInv, ListenersInv, NEW s \in Setters,
         Loading(s) \/ Reloading(s) \/ \E d \in Docs : load_from_yaml(s, d)
  PROVE  ListenersInv'
<1> USE DEF conf, loggers, call, heard, history
<1> DEFINE G == "groups"
<1>1. Only(s)
  BY OnlyOne
<1>2. CASE \/ Skip(s) \/ from_string_of(s) \/ LoadDone(s) \/ SetSame(s)
           \/ \E d \in Docs : load_from_yaml(s, d)
  <2>1. /\ s \notin Setting(G) /\ s \notin Setting(G)'
        /\ UNCHANGED <<told, alone, behind, listening, m_val>>
    BY <1>2, LoadingAside
  <2> QED
    BY <1>1, <2>1, NotThisVariable, ListenersAside
<1>3. CASE Reloading(s)
  <2>1. pc[s] \in LogStages /\ UNCHANGED <<doc, told, alone, behind, listening, m_val>>
    BY <1>3 DEF Reloading, ReloadUnchanged, ReloadNext, set_level, set_formatter, clear_appenders,
       add_appender, LoggerDone, Reloaded, RemoveNever, RemoveClear, Removed, Goto, LogStages
  <2>2. Key(s) = "logs" /\ Key(s)' = "logs"
    BY <2>1 DEF StageInv, AtStage, Key
  <2>3. s \notin Setting(G) /\ s \notin Setting(G)'
    BY <2>2 DEF Setting
  <2> QED
    BY <1>1, <2>1, <2>3, NotThisVariable, ListenersAside
<1>4. CASE Notified(s)
  <2>1. /\ UNCHANGED <<doc, val, todo, listening, m_val, told, alone, behind>> /\ todo[s] = <<>>
        /\ pc[s] = "notify" /\ pc'[s] = "store" /\ \A t \in Setters \ {s} : pc'[t] = pc[t]
    BY <1>4 DEF Notified, Goto, StageInv, Typed
  <2>2. Setting(G)' = Setting(G) /\ Setting(G) \subseteq Setters
    BY <2>1 DEF Setting, Key, Reading
  <2> QED
    BY <2>1, <2>2, ListenersAside
<1> QED
  BY <1>1, <1>2, <1>3, <1>4, ListenersNotify, ListenersThrow, ListenersCompare, ListenersStore
  DEF Loading

(* Every step keeps what the listeners know.                               *)
LEMMA ListenersNext == StageInv /\ ListenersInv /\ [Next]_vars => ListenersInv'
<1> SUFFICES ASSUME StageInv, ListenersInv, [Next]_vars PROVE ListenersInv'
  OBVIOUS
<1> USE DEF conf, loggers, call, heard, history
<1> DEFINE G == "groups"
<1>1. CASE \/ \E w \in Writers : Writer(w)
           \/ \E u \in Users : add_listener(u) \/ read_value(u) \/ del_listener(u)
           \/ clear_listener \/ look_up \/ Crashed \/ UNCHANGED vars
  <2>1. /\ \A s \in Setters : pc'[s] = pc[s]
        /\ UNCHANGED <<doc, val, todo, m_val>>
    BY <1>1, SettersStay
  <2>2. Setting(G)' = Setting(G) /\ Setting(G) \subseteq Setters
    BY <2>1, SettingAside DEF Setting
  <2>3. UNCHANGED alone
    BY <1>1 DEF Writer, LogLevelMacro, log, Printed, add_listener, read_value, del_listener,
                clear_listener, Unregister, look_up, Crashed, vars
  <2>4. CASE ~ \E u \in Users : read_value(u)
    <3>1. \A u \in listening' \ behind' : u \in listening \ behind /\ told'[u] = told[u]
      BY <1>1, <2>4 DEF Writer, LogLevelMacro, log, Printed, add_listener, del_listener,
                clear_listener, Unregister, look_up, Crashed, vars, StageInv, Typed
    <3> QED
      BY <2>1, <2>2, <2>3, <3>1, ListenersAside
  <2>5. ASSUME NEW u \in Users, read_value(u) PROVE ListenersInv'
    <3>1. /\ listening' = listening /\ told' = [told EXCEPT ![u] = m_val[G]] /\ u \in DOMAIN told
          /\ behind' = IF Setting(G) = {} THEN behind \ {u} ELSE behind \cup {u}
      BY <2>5 DEF read_value, StageInv, Typed
    <3>2. CASE Setting(G) # {}
      <4>1. \A w \in listening' \ behind' : w \in listening \ behind /\ told'[w] = told[w]
        BY <3>1, <3>2
      <4> QED
        BY <2>1, <2>2, <2>3, <4>1, ListenersAside
    <3>3. CASE Setting(G) = {}
      <4>1. alone = {}
        BY <3>3 DEF ListenersInv, AloneInv
      <4>2. AloneInv' /\ QueuesInv'
        BY <2>2, <2>3, <3>3, <4>1 DEF AloneInv, QueuesInv
      <4>3. ASSUME NEW w \in listening' \ behind' PROVE told'[w] = m_val'[G]
        <5>1. CASE w = u
          BY <2>1, <3>1, <5>1
        <5>2. CASE w # u
          <6>1. Knows(w) /\ told'[w] = told[w]
            BY <3>1, <3>3, <5>2 DEF ListenersInv
          <6> QED
            BY <2>1, <3>3, <6>1 DEF Knows
        <5> QED
          BY <5>1, <5>2
      <4> QED
        BY <2>3, <4>1, <4>2, <4>3 DEF ListenersInv, Knows
    <3> QED
      BY <3>2, <3>3
  <2> QED
    BY <2>4, <2>5
<1>2. ASSUME NEW s \in Setters, Loading(s) \/ Reloading(s) \/ \E d \in Docs : load_from_yaml(s, d)
      PROVE  ListenersInv'
  BY <1>2, ListenersSetter
<1> QED
  BY <1>1, <1>2 DEF Next, SomeSetter, Setter, User
------------------------------------------------------------------------------
(***************************************************************************)
(* What the loggers are                                                    *)
(***************************************************************************)
(* Appenders of a logger, one after the other, against their definitions.  *)
LEMMA TypesNone == \A ds : Types(<<>>) = FirstTypes(ds, 0)
<1>1. DOMAIN <<>> = 1 .. 0
  OBVIOUS
<1> QED
  BY <1>1 DEF Types, FirstTypes

(* What Append leaves and what it adds.                                    *)
LEMMA Appended ==
  ASSUME NEW S, NEW aps \in Seq(S), NEW a \in S
  PROVE  Append(aps, a)[Len(aps) + 1] = a /\ \A i \in 1 .. Len(aps) : Append(aps, a)[i] = aps[i]
BY AppendProperties

(* One more appender, of the next type.                                    *)
LEMMA TypesAppend ==
  ASSUME NEW aps, aps \in Seq(Range(aps)), NEW ds, NEW k \in Nat, NEW a, a.type = ds[k + 1].type,
         Types(aps) = FirstTypes(ds, k)
  PROVE  Types(Append(aps, a)) = FirstTypes(ds, k + 1)
<1> DEFINE new == Append(aps, a)
           S == Range(aps) \cup {a}
<1>1. DOMAIN aps = 1 .. Len(aps) /\ Len(aps) \in Nat
  BY LenProperties
<1>2. DOMAIN aps = 1 .. k
  BY SMTT(30) DEF Types, FirstTypes
<1>3. Len(aps) = k
  <2>1. ASSUME NEW l \in Nat, 1 .. l = 1 .. k PROVE l = k
    <3>1. CASE l < k
      <4>1. k \in 1 .. k /\ k \notin 1 .. l
        BY <3>1
      <4> QED
        BY <2>1, <4>1
    <3>2. CASE k < l
      <4>1. l \in 1 .. l /\ l \notin 1 .. k
        BY <3>2
      <4> QED
        BY <2>1, <4>1
    <3> QED
      BY <3>1, <3>2
  <2> QED
    BY <1>1, <1>2, <2>1
<1>4. /\ DOMAIN new = 1 .. k + 1 /\ new[k + 1] = a
      /\ \A i \in 1 .. k : new[i] = aps[i]
  <2>1. aps \in Seq(S) /\ a \in S
    BY SeqMonotonic
  <2> HIDE DEF S
  <2>2. new \in Seq(S) /\ Len(new) = k + 1
    BY <1>3, <2>1, AppendProperties
  <2>3. new[k + 1] = a /\ \A i \in 1 .. k : new[i] = aps[i]
    <3>1. /\ Append(aps, a)[Len(aps) + 1] = a
          /\ \A i \in 1 .. Len(aps) : Append(aps, a)[i] = aps[i]
      BY <2>1, Appended
    <3> QED
      BY <1>3, <3>1
  <2>4. DOMAIN new = 1 .. k + 1
    BY <2>2, LenProperties
  <2> QED
    BY <2>3, <2>4
<1>5. \A i \in 1 .. k : aps[i].type = ds[i].type
  <2>1. \A i \in 1 .. k : Types(aps)[i] = aps[i].type /\ FirstTypes(ds, k)[i] = ds[i].type
    BY <1>2 DEF Types, FirstTypes
  <2> QED
    BY <2>1
<1> HIDE DEF new
<1>6. ASSUME NEW i \in 1 .. k + 1 PROVE new[i].type = ds[i].type
  <2>1. i \in 1 .. k \/ i = k + 1
    OBVIOUS
  <2> QED
    BY <1>4, <1>5, <2>1
<1>7. Types(new) = FirstTypes(ds, k + 1)
  BY <1>4, <1>6 DEF Types, FirstTypes
<1> QED
  BY <1>7 DEF new

(* All of the types.                                                       *)
LEMMA TypesAll ==
  ASSUME NEW ds, ds \in Seq(Range(ds))
  PROVE  Types(ds) = FirstTypes(ds, Len(ds))
BY LenProperties DEF Types, FirstTypes

(* No logger is configured at first.                                       *)
LEMMA LoggersInit == Init => LoggersInv
BY DEF Init, LoggersInv, Setting, Reading, Old, Vars

(* Steps that are not about "logs".                                        *)
LEMMA LoggersAside ==
  ASSUME LoggersInv, (disturbed => disturbed'), UNCHANGED <<level, m_appender, configured>>,
         m_val'["logs"] = m_val["logs"], Setting("logs")' = Setting("logs"),
         \A t \in Setting("logs") : /\ pc'[t] = pc[t] /\ val'[t] = val[t] /\ todo'[t] = todo[t]
                                    /\ placed'[t] = placed[t]
  PROVE  LoggersInv'
<1>1. ASSUME NEW t \in Setting("logs"), Progress(t) PROVE Progress(t)'
  <2>1. /\ pc'[t] = pc[t] /\ val'[t] = val[t] /\ todo'[t] = todo[t] /\ placed'[t] = placed[t]
        /\ UNCHANGED <<level, m_appender, configured>> /\ Old' = Old
    BY DEF Old
  <2>2. \A n : (Silent(n)' <=> Silent(n)) /\ \A d : Applied(n, d)' <=> Applied(n, d)
    BY <2>1 DEF Applied, Silent, Types
  <2> QED
    BY <1>1, <2>1, <2>2 DEF Progress, Types, FirstTypes
<1> QED
  BY <1>1 DEF LoggersInv, Applied, Silent, Types, Old

(* The listener of "logs": a definition is applied, one logger after the   *)
(* other, and those left over are silenced.                                *)
LEMMA ProgressApplies ==
  ASSUME StageInv, NEW s \in Setters, Progress(s),
         \/ ReloadUnchanged(s) \/ ReloadNext(s) \/ set_level(s) \/ set_formatter(s)
         \/ clear_appenders(s)
  PROVE  Progress(s)'
<1> USE DEF conf, loggers, call, heard, history
<1>0. Typed /\ AtStage(s) /\ configured \subseteq LogNames
  BY DEF StageInv
<1>1. UNCHANGED <<m_val, val, todo, placed, configured>>
  BY DEF ReloadUnchanged, ReloadNext, set_level, set_formatter, clear_appenders
<1>2. CASE ReloadUnchanged(s)
  BY <1>1, <1>2 DEF ReloadUnchanged, Progress, Applied, Silent, Types, Old
<1>3. CASE ReloadNext(s) \/ set_formatter(s)
  <2>1. /\ UNCHANGED <<level, m_appender>>
        /\ \/ pc[s] = "reload" /\ pc'[s] = "level"
           \/ pc[s] = "formatter" /\ pc'[s] = "clear"
    BY <1>0, <1>3 DEF ReloadNext, set_formatter, Goto, Typed
  <2> QED
    BY <1>1, <2>1 DEF Progress, Applied, Silent, Types, FirstTypes, Old, OneLogger, Removing
<1>4. CASE set_level(s) \/ clear_appenders(s)
  <2> DEFINE n == Head(todo[s])
  <2>1. pc[s] \in {"level", "clear"} /\ pc'[s] \in {"formatter", "clear", "add"}
    BY <1>0, <1>4 DEF set_level, clear_appenders, Goto, Typed
  <2>2. /\ n \in Range(todo[s]) /\ n \in DOMAIN val[s] /\ n \in LogNames /\ placed[s] = 0
    <3>1. todo[s] # <<>> /\ todo[s] \in Seq(LogNames) /\ Range(todo[s]) \subseteq DOMAIN val[s]
          /\ placed[s] = 0
      BY <1>0, <2>1 DEF AtStage, LogStages, OneLogger
    <3> QED
      BY <3>1, HeadIsIn
  <2>3. \A m \in LogNames \ {n} : level'[m] = level[m] /\ m_appender'[m] = m_appender[m]
    BY <1>0, <1>4 DEF set_level, clear_appenders, Typed
  <2>4. level'[n] = val[s][n].level
    BY <1>0, <1>4, <2>2 DEF set_level, clear_appenders, Goto, Progress, Typed
  <2>5. pc'[s] = "add" => m_appender'[n] = <<>>
    BY <1>0, <1>4, <2>2 DEF set_level, clear_appenders, Goto, Typed
  <2>6. pc'[s] = "add" => Types(m_appender'[n]) = FirstTypes(val'[s][n].appenders, placed'[s])
    <3>1. Types(<<>>) = FirstTypes(val'[s][n].appenders, 0)
      BY TypesNone
    <3> QED
      BY <1>1, <2>2, <2>5, <3>1
  <2>7. DOMAIN val[s] \subseteq LogNames
    BY <1>0, <2>1 DEF AtStage, LogStages, IsLogs
  <2>8. \A m \in DOMAIN val[s] \ {n} : \/ Applied(m, val[s][m])'
                                       \/ m \in Range(todo[s])
    BY <1>1, <2>1, <2>3, <2>7 DEF Progress, Applied, Types, OneLogger
  <2>9. \A m \in configured \ DOMAIN val[s] : Silent(m)' \/ m \in DOMAIN Old
    BY <1>0, <2>1, <2>2, <2>3 DEF Progress, Silent, Removing
  <2> HIDE DEF n
  <2>10. \A m \in DOMAIN val'[s] : Applied(m, val[s][m])' \/ m \in Range(todo'[s])
    BY <1>1, <2>2, <2>8
  <2>11. pc'[s] \in OneLogger
    BY <2>1 DEF OneLogger
  <2> QED
    BY <1>1, <2>1, <2>4, <2>6, <2>9, <2>10, <2>11 DEF Progress, Applied, Types, Old, n
<1> QED
  BY <1>2, <1>3, <1>4

(* An appender is added, or the logger is done.                            *)
LEMMA ProgressAdds ==
  ASSUME StageInv, NEW s \in Setters, Progress(s), add_appender(s) \/ LoggerDone(s)
  PROVE  Progress(s)'
<1> USE DEF conf, loggers, call, heard, history
<1> DEFINE n == Head(todo[s])
           ds == val[s][n].appenders
<1>0. Typed /\ AtStage(s) /\ configured \subseteq LogNames
  BY SMTT(30) DEF StageInv
<1>1. UNCHANGED <<m_val, val, level, configured>> /\ pc[s] = "add"
  BY DEF add_appender, LoggerDone, Goto
<1>2. /\ n \in Range(todo[s]) /\ n \in DOMAIN val[s] /\ n \in LogNames /\ placed[s] \in Nat
      /\ DOMAIN val[s] \subseteq LogNames /\ ds \in Seq(Range(ds))
      /\ todo[s] \in Seq(LogNames) /\ todo[s] # <<>>
  <2>1. /\ todo[s] # <<>> /\ todo[s] \in Seq(LogNames) /\ Range(todo[s]) \subseteq DOMAIN val[s]
        /\ IsLogs(val[s])
    BY <1>0, <1>1 DEF AtStage, LogStages, OneLogger
  <2>2. n \in Range(todo[s])
    BY <2>1, HeadIsIn
  <2> QED
    BY <1>0, <2>1, <2>2 DEF IsLogs, Typed
<1>3. /\ level[n] = val[s][n].level
      /\ Types(m_appender[n]) = FirstTypes(ds, placed[s])
  BY <1>1, SMTT(30) DEF Progress
<1>4. CASE add_appender(s)
  <2> DEFINE d == ds[placed[s] + 1]
             a == [type |-> d.type, level |-> d.level, formatter |-> formatter[n], file |-> d.file]
  <2>1. /\ UNCHANGED <<pc, todo>> /\ placed'[s] = placed[s] + 1
        /\ m_appender' = [m_appender EXCEPT ![n] = Append(m_appender[n], a)]
    BY <1>0, <1>4 DEF add_appender, Typed
  <2>2. \A m \in LogNames \ {n} : m_appender'[m] = m_appender[m]
    BY <1>0, <2>1 DEF Typed
  <2>3. a.type = ds[placed[s] + 1].type
    OBVIOUS
  <2> HIDE DEF a, ds
  <2>4. Types(m_appender'[n]) = FirstTypes(ds, placed'[s])
    <3>1. m_appender'[n] = Append(m_appender[n], a) /\ m_appender[n] \in Seq(Range(m_appender[n]))
      BY <1>0, <1>2, <2>1 DEF Typed
    <3>2. Types(Append(m_appender[n], a)) = FirstTypes(ds, placed[s] + 1)
      BY <1>2, <1>3, <2>3, <3>1, TypesAppend, SMTT(30)
    <3> QED
      BY <2>1, <3>1, <3>2
  <2>5. \A m \in DOMAIN val[s] \ {n} : Applied(m, val[s][m])' \/ m \in Range(todo[s])
    BY <1>1, <1>2, <2>2 DEF Progress, Applied, Types
  <2>6. \A m \in configured \ DOMAIN val[s] : Silent(m)' \/ m \in DOMAIN Old
    BY <1>0, <1>1, <1>2, <2>2 DEF Progress, Silent, Removing
  <2>7. \A m \in DOMAIN val'[s] : Applied(m, val[s][m])' \/ m \in Range(todo'[s])
    BY <1>1, <1>2, <2>1, <2>5 DEF Applied, Types
  <2>8. \A m \in configured' \ DOMAIN val'[s] : Silent(m)' \/ m \in DOMAIN Old'
    BY <1>1, <2>6 DEF Old
  <2>9. /\ pc'[s] = "add" /\ level'[n] = val'[s][n].level /\ n = Head(todo'[s])
        /\ Types(m_appender'[n]) = FirstTypes(val'[s][n].appenders, placed'[s])
    BY <1>1, <1>3, <2>1, <2>4, SMTT(30) DEF ds
  <2> HIDE DEF n
  <2> QED
    BY <2>7, <2>8, <2>9 DEF Progress, Types, OneLogger
<1>5. CASE LoggerDone(s)
  <2>1. /\ UNCHANGED m_appender /\ pc'[s] = "reload" /\ todo'[s] = Tail(todo[s])
        /\ placed[s] = Len(ds)
    BY <1>0, <1>5 DEF LoggerDone, Goto, Typed
  <2>2. Applied(n, val[s][n])
    BY <1>2, <1>3, <2>1, TypesAll DEF Applied
  <2>3. Range(todo[s]) = Range(todo'[s]) \cup {n}
    BY <1>2, <2>1, RangeTail
  <2>4. \A m \in DOMAIN val[s] : Applied(m, val[s][m])' \/ m \in Range(todo'[s])
    <3>1. \A m \in DOMAIN val[s] : Applied(m, val[s][m]) \/ m \in Range(todo[s])
      BY DEF Progress
    <3> HIDE DEF n
    <3>2. \A m \in DOMAIN val[s] : Applied(m, val[s][m]) \/ m \in Range(todo'[s])
      BY <2>2, <2>3, <3>1
    <3>3. \A m \in DOMAIN val[s] : Applied(m, val[s][m]) => Applied(m, val[s][m])'
      BY <1>1, <2>1 DEF Applied, Types
    <3> QED
      BY <3>2, <3>3
  <2>5. \A m \in configured \ DOMAIN val[s] : Silent(m)' \/ m \in DOMAIN Old
    BY <1>1, <2>1 DEF Progress, Silent, Removing
  <2> QED
    BY <1>1, <2>1, <2>4, <2>5 DEF Progress, Applied, Types, Old, OneLogger
<1> QED
  BY <1>4, <1>5

(* Loggers that are configured no more are silenced.                       *)
LEMMA ProgressRemoves ==
  ASSUME StageInv, NEW s \in Setters, Progress(s),
         Reloaded(s) \/ RemoveNever(s) \/ RemoveClear(s) \/ Removed(s)
  PROVE  Progress(s)'
<1> USE DEF conf, loggers, call, heard, history
<1> DEFINE n == Head(todo[s])
<1>0. Typed /\ AtStage(s) /\ configured \subseteq LogNames /\ IsLogs(Old)
  BY DEF StageInv, Old
<1>1. UNCHANGED <<m_val, val, placed, configured>> /\ pc[s] \in {"reload", "remove", "clear_removed"}
  BY DEF Reloaded, RemoveNever, RemoveClear, Removed, Goto
<1>2. DOMAIN val[s] \subseteq LogNames /\ todo[s] \in Seq(LogNames)
  BY <1>0, <1>1 DEF AtStage, LogStages, IsLogs
<1>3. CASE Reloaded(s)
  <2>1. /\ UNCHANGED <<level, m_appender>> /\ pc[s] = "reload" /\ pc'[s] = "remove"
        /\ todo[s] = <<>> /\ todo'[s] = InNameOrder(DOMAIN Old \ DOMAIN val[s])
    BY <1>0, <1>3 DEF Reloaded, Goto, Typed
  <2>2. Range(todo'[s]) = DOMAIN Old \ DOMAIN val[s]
    BY <1>0, <2>1, InNameOrderLists DEF IsLogs
  <2>3. \A m \in DOMAIN val[s] : Applied(m, val[s][m])
    BY <2>1 DEF Progress, Range
  <2>4. \A m \in configured \ DOMAIN val[s] : Silent(m) \/ m \in Range(todo'[s])
    BY <2>1, <2>2 DEF Progress, Removing
  <2>5. \A m \in DOMAIN val'[s] : Applied(m, val[s][m])'
    BY <1>1, <2>1, <2>3 DEF Applied, Types
  <2>6. \A m \in configured' \ DOMAIN val'[s] : Silent(m)' \/ m \in Range(todo'[s])
    BY <1>1, <2>1, <2>4 DEF Silent
  <2> QED
    BY <2>1, <2>5, <2>6 DEF Progress, Removing
<1>4. CASE RemoveNever(s)
  <2>1. /\ UNCHANGED <<m_appender, todo>> /\ pc[s] = "remove" /\ pc'[s] = "clear_removed"
        /\ todo[s] # <<>> /\ level' = [level EXCEPT ![n] = NEVER]
    BY <1>0, <1>4 DEF RemoveNever, Goto, Typed
  <2>2. n \in Range(todo[s]) /\ n \in LogNames /\ n \notin DOMAIN val[s]
    BY <1>0, <1>2, <2>1, HeadIsIn DEF AtStage, Removing
  <2>3. level'[n] = NEVER /\ \A m \in LogNames \ {n} : level'[m] = level[m]
    BY <1>0, <2>1, <2>2 DEF Typed
  <2>4. \A m \in DOMAIN val[s] : Applied(m, val[s][m])'
    BY <1>1, <1>2, <2>1, <2>2, <2>3 DEF Progress, Applied, Types, OneLogger
  <2>5. \A m \in configured \ DOMAIN val[s] : Silent(m)' \/ m \in Range(todo[s])
    BY <1>0, <1>1, <2>1, <2>2, <2>3 DEF Progress, Silent, OneLogger
  <2> HIDE DEF n
  <2> QED
    BY <1>1, <2>1, <2>3, <2>4, <2>5 DEF Progress, Applied, Types, Old, Removing, n
<1>5. CASE RemoveClear(s)
  <2>1. /\ UNCHANGED level /\ pc[s] = "clear_removed" /\ pc'[s] = "remove"
        /\ todo'[s] = Tail(todo[s]) /\ m_appender' = [m_appender EXCEPT ![n] = <<>>]
    BY <1>0, <1>5 DEF RemoveClear, Goto, Typed
  <2>2. todo[s] # <<>>
    BY <1>0, <2>1 DEF AtStage
  <2>3. n \in LogNames /\ n \notin DOMAIN val[s] /\ Range(todo[s]) = Range(todo'[s]) \cup {n}
    BY <1>0, <1>2, <2>1, <2>2, HeadIsIn, RangeTail DEF AtStage, Removing
  <2>4. m_appender'[n] = <<>> /\ \A m \in LogNames \ {n} : m_appender'[m] = m_appender[m]
    BY <1>0, <2>1, <2>3 DEF Typed
  <2>5. level'[n] = NEVER
    BY <2>1 DEF Progress
  <2>6. \A m \in DOMAIN val[s] : Applied(m, val[s][m])'
    BY <1>1, <1>2, <2>1, <2>3, <2>4 DEF Progress, Applied, Types, OneLogger
  <2>7. \A m \in configured \ DOMAIN val[s] : Silent(m)' \/ m \in Range(todo'[s])
    BY <1>0, <1>1, <2>1, <2>3, <2>4, <2>5 DEF Progress, Silent, OneLogger
  <2> QED
    BY <1>1, <2>1, <2>6, <2>7 DEF Progress, Applied, Types, Old, Removing
<1>6. CASE Removed(s)
  <2>1. /\ UNCHANGED <<level, m_appender, todo>> /\ pc[s] = "remove" /\ pc'[s] = "store"
        /\ todo[s] = <<>>
    BY <1>0, <1>6 DEF Removed, Goto, Typed
  <2>2. \A m \in DOMAIN val[s] : Applied(m, val[s][m])
    BY <2>1 DEF Progress, OneLogger
  <2>3. \A m \in configured \ DOMAIN val[s] : Silent(m)
    BY <2>1 DEF Progress, OneLogger, Range
  <2> QED
    BY <1>1, <2>1, <2>2, <2>3 DEF Progress, Applied, Silent, Types
<1> QED
  BY <1>3, <1>4, <1>5, <1>6

(* Before the listener of "logs" runs, and when the value is stored.       *)
LEMMA ProgressStarts ==
  ASSUME StageInv, LoggersInv, NEW s \in Setters, SetCompare(s), Key(s) = "logs",
         ~ disturbed'
  PROVE  Setting("logs") = {} /\ Progress(s)'
<1> USE DEF conf, loggers, call, heard, history
<1>0. Typed /\ AtStage(s)
  BY DEF StageInv
<1>1. /\ pc[s] = "compare" /\ pc'[s] = "reload" /\ UNCHANGED <<m_val, doc, val, level, m_appender>>
      /\ todo'[s] = InNameOrder(DOMAIN val[s]) /\ configured' = configured \cup DOMAIN val[s]
      /\ disturbed \/ Setting("logs") # {} => disturbed'
  BY <1>0 DEF SetCompare, Goto, Typed
<1>2. Setting("logs") = {} /\ ~ disturbed
  BY <1>1
<1>3. DOMAIN val[s] \subseteq LogNames
  BY <1>0, <1>1 DEF AtStage, IsLogs
<1>4. Range(todo'[s]) = DOMAIN val[s]
  BY <1>1, <1>3, InNameOrderLists
<1>5. \A n \in configured' \ DOMAIN val'[s] : Silent(n)' \/ n \in DOMAIN Old'
  BY <1>1, <1>2 DEF LoggersInv, Silent, Old
<1> QED
  BY <1>1, <1>2, <1>4, <1>5 DEF Progress, OneLogger

(* Every step keeps how far the loggers are.                               *)
LEMMA LoggersNext == StageInv /\ OneAtATime /\ LoggersInv /\ [Next]_vars => LoggersInv'
<1> SUFFICES ASSUME StageInv, OneAtATime, LoggersInv, [Next]_vars PROVE LoggersInv'
  OBVIOUS
<1> USE DEF conf, loggers, call, heard, history
<1> DEFINE L == "logs"
<1>0. L \in Vars
  BY DEF Vars
<1>1. CASE \/ \E w \in Writers : Writer(w)
           \/ \E u \in Users : add_listener(u) \/ read_value(u) \/ del_listener(u)
           \/ clear_listener \/ look_up \/ Crashed \/ UNCHANGED vars
  <2>1. /\ \A s \in Setters : pc'[s] = pc[s]
        /\ UNCHANGED <<doc, val, todo, placed, m_val, level, m_appender, configured>>
        /\ (disturbed => disturbed')
    BY <1>1, SettersStay
  <2>2. Setting(L)' = Setting(L) /\ Setting(L) \subseteq Setters
    BY <2>1, SettingAside DEF Setting
  <2> QED
    BY <2>1, <2>2, LoggersAside
<1>2. ASSUME NEW s \in Setters, Loading(s) \/ Reloading(s) \/ \E d \in Docs : load_from_yaml(s, d)
      PROVE  LoggersInv'
  <2>1. Only(s) /\ (disturbed => disturbed')
    BY <1>2, OnlyOne
  <2>2. Typed /\ AtStage(s)
    BY DEF StageInv
  <2>3. ASSUME s \notin Setting(L), s \notin Setting(L)', UNCHANGED <<level, m_appender, configured>>,
               m_val'["logs"] = m_val["logs"]
        PROVE  LoggersInv'
    BY <2>1, <2>3, NotThisVariable, LoggersAside
  <2>4. CASE \/ Skip(s) \/ from_string_of(s) \/ LoadDone(s) \/ SetSame(s)
             \/ \E d \in Docs : load_from_yaml(s, d)
    BY <2>3, <2>4, LoadingAside
  <2>5. CASE disturbed'
    BY <2>5 DEF LoggersInv
  <2>6. CASE Reloading(s) /\ ~ disturbed'
    <3>1. /\ pc[s] \in LogStages /\ UNCHANGED <<doc, m_val, configured>>
          /\ pc'[s] \in LogStages \cup {"store"}
      BY <2>2, <2>6 DEF Reloading, ReloadUnchanged, ReloadNext, set_level, set_formatter,
         clear_appenders, add_appender, LoggerDone, Reloaded, RemoveNever, RemoveClear, Removed,
         Goto, LogStages, Typed
    <3>2. Key(s) = L /\ Key(s)' = L /\ ~ disturbed
      BY <2>1, <2>2, <2>6, <3>1 DEF AtStage, Key
    <3>3. s \in Setting(L) /\ s \in Setting(L)'
      BY <2>1, <3>1, <3>2, SettingStep DEF Inside, Reading, LogStages
    <3>4. Setting(L)' = {s}
      BY <1>0, <2>1, <3>2, <3>3, OnlyThisOne
    <3>5. Progress(s)
      BY <3>2, <3>3 DEF LoggersInv
    <3>6. Progress(s)'
      BY <2>6, <3>5, ProgressApplies, ProgressAdds, ProgressRemoves DEF Reloading
    <3> QED
      BY <3>4, <3>6, SMTT(30) DEF LoggersInv
  <2>7. CASE SetCompare(s) /\ ~ disturbed'
    <3>1. /\ pc[s] = "compare" /\ UNCHANGED <<doc, m_val, level, m_appender>>
          /\ pc'[s] = IF Key(s) = L THEN "reload" ELSE "notify"
          /\ Key(s) # L => configured' = configured
      BY <2>2, <2>7 DEF SetCompare, Goto, Typed
    <3>2. s \notin Setting(L) /\ Key(s)' = Key(s)
      BY <3>1 DEF Setting, Reading, Key
    <3>3. CASE Key(s) # L
      BY <2>1, <2>3, <3>1, <3>2, <3>3, SettingStep
    <3>4. CASE Key(s) = L
      <4>1. Setting(L) = {} /\ Progress(s)'
        BY <2>7, <3>4, ProgressStarts
      <4>2. Setting(L)' = {s}
        BY <2>1, <3>1, <3>2, <3>4, <4>1, SettingStep DEF Inside, Reading
      <4> QED
        BY <4>1, <4>2 DEF LoggersInv
    <3> QED
      BY <3>3, <3>4
  <2>8. CASE Notify(s) \/ NotifyThrows(s) \/ Notified(s)
    <3>1. /\ pc[s] = "notify" /\ UNCHANGED <<m_val, level, m_appender, configured>>
          /\ pc'[s] = "next" \/ UNCHANGED doc
      BY <2>2, <2>8 DEF Notify, Tell, NotifyThrows, Notified, Goto, Typed
    <3>2. Key(s) # L
      BY <2>2, <3>1 DEF AtStage
    <3>3. s \notin Setting(L) /\ s \notin Setting(L)'
      BY <2>1, <3>1, <3>2, SettingStep DEF Inside, Reading, Key
    <3> QED
      BY <2>3, <3>1, <3>3
  <2>9. CASE Store(s) /\ ~ disturbed'
    <3>1. /\ pc[s] = "store" /\ pc'[s] = "next" /\ UNCHANGED <<level, m_appender, configured>>
          /\ m_val' = [m_val EXCEPT ![Key(s)] = val[s]]
      BY <2>2, <2>9 DEF Store, Assign, Goto, Typed
    <3>2. s \notin Setting(L)' /\ DOMAIN m_val = Vars
      BY <2>2, <3>1 DEF Setting, Reading, Typed
    <3>3. CASE Key(s) # L
      BY <2>1, <2>3, <3>1, <3>2, <3>3, SettingStep
    <3>4. CASE Key(s) = L
      <4>1. s \in Setting(L) /\ ~ disturbed
        BY <2>1, <2>9, <3>1, <3>4 DEF Setting
      <4>2. Progress(s) /\ Setting(L)' = {} /\ m_val'[L] = val[s]
        BY <1>0, <2>1, <3>1, <3>2, <3>4, <4>1, OnlyThisOne DEF LoggersInv
      <4>3. /\ \A n \in DOMAIN val[s] : Applied(n, val[s][n])
            /\ \A n \in configured \ DOMAIN val[s] : Silent(n)
        BY <3>1, <4>2 DEF Progress, OneLogger, Removing
      <4>4. /\ \A n \in DOMAIN Old' : Applied(n, Old[n])'
            /\ \A n \in configured' \ DOMAIN Old' : Silent(n)'
        BY <3>1, <4>2, <4>3 DEF Applied, Silent, Types, Old
      <4> QED
        BY <4>2, <4>4 DEF LoggersInv
    <3> QED
      BY <3>3, <3>4
  <2> QED
    BY <1>2, <2>4, <2>5, <2>6, <2>7, <2>8, <2>9 DEF Loading
<1> QED
  BY <1>1, <1>2 DEF Next, SomeSetter, Setter, User
------------------------------------------------------------------------------
(***************************************************************************)
(* How a pattern is cut                                                    *)
(***************************************************************************)
(* FirstIn finds a position from i on, and a character of S unless it      *)
(* comes to the end.                                                       *)
LEMMA FirstInBounds ==
  ASSUME NEW A, NEW p \in Seq(A), NEW i \in 1 .. Len(p) + 1, NEW S
  PROVE  /\ FirstIn(p, i, S) \in i .. Len(p) + 1
         /\ FirstIn(p, i, S) <= Len(p) => p[FirstIn(p, i, S)] \in S
<1> DEFINE L == Len(p)
           Stop(n) == n > L \/ p[n] \in S
           R(g) == g = [n \in 1 .. L + 2 |-> IF Stop(n) THEN n ELSE g[n + 1]]
<1>1. L \in Nat
  OBVIOUS
<1>2. \E g : R(g)
  <2> DEFINE T(n) == {m \in Nat : m >= n /\ Stop(m)}
             Least(n) == CHOOSE m \in T(n) : \A k \in T(n) : m <= k
             h == [n \in 1 .. L + 2 |-> Least(n)]
  <2>1. ASSUME NEW n \in 1 .. L + 2 PROVE Least(n) \in T(n) /\ \A k \in T(n) : Least(n) <= k
    <3>1. L + 2 \in T(n)
      BY <1>1
    <3>2. \E m \in T(n) : \A k \in T(n) : m <= k
      <4>1. T(n) \subseteq Nat /\ T(n) # {}
        BY <3>1
      <4> HIDE DEF T
      <4> QED
        BY <4>1, LeastExists
    <3> HIDE DEF T
    <3> QED
      BY <3>2
  <2>2. ASSUME NEW n \in 1 .. L + 2, Stop(n) PROVE Least(n) = n
    <3>1. n \in T(n) /\ \A k \in T(n) : k >= n /\ k \in Nat
      BY <1>1, <2>2
    <3> HIDE DEF T, Least
    <3> QED
      BY <1>1, <2>1, <3>1
  <2>3. ASSUME NEW n \in 1 .. L + 2, ~ Stop(n) PROVE n + 1 \in 1 .. L + 2 /\ Least(n) = Least(n + 1)
    <3>1. n + 1 \in 1 .. L + 2
      BY <1>1, <2>3
    <3>2. T(n) = T(n + 1)
      <4>1. \A m \in Nat : m >= n /\ Stop(m) <=> m >= n + 1 /\ Stop(m)
        <5>1. \A m \in Nat : m >= n <=> m = n \/ m >= n + 1
          BY <1>1
        <5>2. \A m \in Nat : m >= n + 1 => m >= n
          BY <1>1
        <5> HIDE DEF Stop
        <5> QED
          BY <2>3, <5>1, <5>2
      <4> HIDE DEF Stop
      <4> QED
        BY <4>1
    <3> HIDE DEF T
    <3> QED
      BY <3>1, <3>2
  <2>4. ASSUME NEW n \in 1 .. L + 2 PROVE h[n] = IF Stop(n) THEN n ELSE h[n + 1]
    <3> HIDE DEF Least, Stop
    <3> QED
      BY <2>2, <2>3
  <2>5. R(h)
    <3>1. h = [n \in 1 .. L + 2 |-> h[n]]
      OBVIOUS
    <3> HIDE DEF h, Stop
    <3> QED
      BY <2>4, <3>1
  <2> QED
    BY <2>5
<1> DEFINE f == CHOOSE g : R(g)
<1>3. R(f)
  BY <1>2
<1>4. FirstIn(p, i, S) = f[i]
  BY DEF FirstIn
<1> HIDE DEF f
<1>5. \A n \in 1 .. L + 2 : f[n] = IF Stop(n) THEN n ELSE f[n + 1]
  BY <1>3
<1> HIDE DEF R
<1> DEFINE Good(n) == f[n] \in n .. L + 1 /\ (f[n] <= L => p[f[n]] \in S)
           Q == {d \in Nat : d <= L => Good(L + 1 - d)}
<1>6. 0 \in Q
  <2>1. Stop(L + 1) /\ L + 1 \in 1 .. L + 2
    BY <1>1
  <2>2. f[L + 1] = L + 1
    BY <1>5, <2>1
  <2> QED
    BY <1>1, <2>2
<1>7. ASSUME NEW d \in Nat, d \in Q PROVE d + 1 \in Q
  <2> SUFFICES ASSUME d + 1 <= L PROVE Good(L + 1 - (d + 1))
    OBVIOUS
  <2>1. PICK n \in 1 .. L : n = L + 1 - (d + 1) /\ n + 1 = L + 1 - d
    <3>1. L - d \in 1 .. L
      BY <1>1
    <3> QED
      BY <1>1, <3>1
  <2>2. Good(n + 1)
    BY <1>1, <1>7, <2>1
  <2>3. n \in 1 .. L + 2 /\ n \in Nat
    BY <1>1, <2>1
  <2>4. CASE Stop(n)
    <3>1. f[n] = n
      BY <1>5, <2>3, <2>4
    <3> QED
      BY <1>1, <2>1, <2>4, <3>1
  <2>5. CASE ~ Stop(n)
    <3>1. f[n] = f[n + 1]
      BY <1>5, <2>3, <2>5
    <3> QED
      BY <1>1, <2>1, <2>2, <2>3, <3>1
  <2> QED
    BY <2>1, <2>4, <2>5
<1>8. Good(i)
  <2> HIDE DEF Q
  <2>1. Nat \subseteq Q
    BY <1>6, <1>7, CountingUp
  <2>2. L + 1 - i \in Nat /\ L + 1 - i <= L /\ L + 1 - (L + 1 - i) = i
    BY <1>1
  <2> QED
    BY <2>1, <2>2 DEF Q
<1> QED
  BY <1>4, <1>8

(* Characters of a pattern's text, and items of them.                      *)
CharsOf(p) == Range(p) \cup {Percent, Open, Close}
ItemsOver(C) == [kind : {"text", "item", "error"}, text : Seq(C), fmt : Seq(Seq(C))]

(* An item stands for characters of the pattern.                           *)
LEMMA SourceTyped ==
  ASSUME NEW C, Percent \in C, Open \in C, Close \in C, NEW item \in ItemsOver(C)
  PROVE  Source(item) \in Seq(C)
<1>1. item.text \in Seq(C) /\ item.fmt \in Seq(Seq(C))
  BY DEF ItemsOver
<1>2. <<Percent>> \in Seq(C) /\ <<Open>> \in Seq(C) /\ <<Close>> \in Seq(C)
  OBVIOUS
<1> DEFINE t == item.text
           braces == IF item.fmt = <<>> THEN <<>> ELSE <<Open>> \o item.fmt[1] \o <<Close>>
<1>3. braces \in Seq(C)
  <2>1. ASSUME item.fmt # <<>> PROVE item.fmt[1] \in Seq(C)
    BY <1>1, <2>1
  <2> QED
    BY <1>2, <2>1, ConcatProperties
<1>4. Source(item) = CASE item.kind = "text" -> t
                       [] item.kind = "item" -> <<Percent>> \o t \o braces
                       [] OTHER -> <<>>
  BY DEF Source
<1>5. t \in Seq(C)
  BY <1>1
<1> HIDE DEF t, braces
<1> QED
  BY <1>2, <1>3, <1>4, <1>5, ConcatProperties

(* What the scan does at i: the item it finds, and where it goes on.       *)
CutAt(p, i) ==
  IF p[i] # Percent THEN [item |-> Literal(p[i]), next |-> i + 1]
  ELSE IF i < Len(p) /\ p[i + 1] = Percent THEN [item |-> Literal(Percent), next |-> i + 1]
  ELSE ItemAt(p, i)

CutIsGood(p, i, C) ==
  LET cut == CutAt(p, i) IN
  /\ cut.item \in ItemsOver(C) /\ cut.next \in i + 1 .. Len(p) + 1
  /\ cut.item.kind # "error" => Source(cut.item) = SubSeq(p, i, cut.next - 1)

(* A literal character stands for itself.                                  *)
LEMMA LiteralIsGood ==
  ASSUME NEW C, NEW c \in C
  PROVE  Literal(c) \in ItemsOver(C) /\ Source(Literal(c)) = <<c>> /\ Literal(c).kind = "text"
<1>1. Literal(c) = [kind |-> "text", text |-> <<c>>, fmt |-> <<>>]
  BY DEF Literal
<1>2. <<c>> \in Seq(C) /\ <<>> \in Seq(Seq(C))
  OBVIOUS
<1> QED
  BY <1>1, <1>2 DEF ItemsOver, Source

(* A known item stands for its %, its name and its braces.                 *)
LEMMA FormatIsGood ==
  ASSUME NEW C, NEW name \in Seq(C), NEW fmt \in Seq(Seq(C))
  PROVE  /\ Format(name, fmt) \in ItemsOver(C)
         /\ Format(name, fmt).kind # "error" =>
              Source(Format(name, fmt)) =
                <<Percent>> \o name \o (IF fmt = <<>> THEN <<>> ELSE <<Open>> \o fmt[1] \o <<Close>>)
<1>1. Format(name, fmt) = [kind |-> IF name \in Known THEN "item" ELSE "error", text |-> name, fmt |-> fmt]
  BY DEF Format
<1>2. Format(name, fmt) \in ItemsOver(C)
  BY <1>1 DEF ItemsOver
<1>3. CASE name \in Known
  <2> DEFINE x == Format(name, fmt)
  <2>1. x.kind = "item" /\ x.text = name /\ x.fmt = fmt
    BY <1>1, <1>3
  <2>2. Source(x) = <<Percent>> \o x.text \o (IF x.fmt = <<>> THEN <<>> ELSE <<Open>> \o x.fmt[1] \o <<Close>>)
    <3>1. x.kind # "text"
      BY <2>1
    <3> HIDE DEF x
    <3> QED
      BY <2>1, <3>1 DEF Source
  <2> HIDE DEF x
  <2>3. Source(x) = <<Percent>> \o name \o (IF fmt = <<>> THEN <<>> ELSE <<Open>> \o fmt[1] \o <<Close>>)
    BY <2>1, <2>2
  <2> QED
    BY <1>2, <2>3 DEF x
<1>4. CASE name \notin Known
  BY <1>1, <1>2, <1>4
<1> QED
  BY <1>3, <1>4

(* A piece of one element.                                                 *)
LEMMA OneElement ==
  ASSUME NEW A, NEW p, NEW i \in Int, p[i] \in A
  PROVE  SubSeq(p, i, i) \in Seq(A) /\ Len(SubSeq(p, i, i)) = 1 /\ SubSeq(p, i, i)[1] = p[i]
BY SubSeqProperties

(* A character is such a piece of its pattern.                             *)
LEMMA OneCharacter ==
  ASSUME NEW A, NEW p \in Seq(A), NEW i \in 1 .. Len(p)
  PROVE  SubSeq(p, i, i) = <<p[i]>>
<1> DEFINE s == SubSeq(p, i, i)
<1>1. p[i] \in A /\ i \in Int
  OBVIOUS
<1>2. s \in Seq(A) /\ Len(s) = 1 /\ s[1] = p[i]
  BY <1>1, OneElement
<1> HIDE DEF s
<1>3. s = <<p[i]>>
  BY <1>1, <1>2
<1> QED
  BY <1>3 DEF s

(* Two adjacent pieces of a pattern are one piece.                         *)
LEMMA PiecesJoin ==
  ASSUME NEW A, NEW p \in Seq(A), NEW a \in 1 .. Len(p) + 1, NEW b \in a - 1 .. Len(p), NEW c \in b .. Len(p)
  PROVE  /\ SubSeq(p, a, b) \in Seq(A)
         /\ SubSeq(p, a, b) \o SubSeq(p, b + 1, c) = SubSeq(p, a, c)
<1>1. a \in Int /\ b \in Int /\ Len(p) \in Nat /\ \A k \in a .. b : p[k] \in A
  OBVIOUS
<1> QED
  BY <1>1, SubSeqProperties, ConcatAdjacentSubSeq

(* Wherever the scan is, it cuts off what its item stands for.             *)
LEMMA CutGood ==
  ASSUME NEW C, Percent \in C, Open \in C, Close \in C, NEW p \in Seq(C), NEW i \in 1 .. Len(p)
  PROVE  CutIsGood(p, i, C)
<1>1. Len(p) \in Nat /\ DOMAIN p = 1 .. Len(p) /\ \A k \in 1 .. Len(p) : p[k] \in C
  OBVIOUS
<1>2. /\ i \in Nat /\ i + 1 \in i + 1 .. Len(p) + 1 /\ (i + 1) - 1 = i
  BY <1>1
<1>3. CASE p[i] # Percent
  <2>1. CutAt(p, i) = [item |-> Literal(p[i]), next |-> i + 1]
    BY <1>3 DEF CutAt
  <2>2. CutAt(p, i).item = Literal(p[i]) /\ CutAt(p, i).next = i + 1
    BY <2>1
  <2>3. Literal(p[i]) \in ItemsOver(C) /\ Source(Literal(p[i])) = <<p[i]>>
    BY <1>1, LiteralIsGood
  <2> QED
    BY <1>2, <2>2, <2>3, OneCharacter DEF CutIsGood
<1>4. CASE p[i] = Percent /\ i < Len(p) /\ p[i + 1] = Percent
  <2>1. CutAt(p, i) = [item |-> Literal(Percent), next |-> i + 1]
    BY <1>4 DEF CutAt
  <2>2. CutAt(p, i).item = Literal(Percent) /\ CutAt(p, i).next = i + 1
    BY <2>1
  <2>3. Literal(Percent) \in ItemsOver(C) /\ Source(Literal(Percent)) = <<p[i]>>
    BY <1>4, LiteralIsGood
  <2> QED
    BY <1>2, <2>2, <2>3, OneCharacter DEF CutIsGood
<1>5. CASE p[i] = Percent /\ ~ (i < Len(p) /\ p[i + 1] = Percent)
  <2> DEFINE n == EndOfName(p, i + 1)
             name == SubSeq(p, i + 1, n - 1)
             close == FirstIn(p, n + 1, {Close})
  <2>1. CutAt(p, i) = ItemAt(p, i)
    BY <1>5 DEF CutAt
  <2>2. n \in i + 1 .. Len(p) + 1
    BY <1>1, <1>2, FirstInBounds DEF EndOfName
  <2>3. ItemAt(p, i) =
          IF n > Len(p) \/ p[n] # Open THEN [item |-> Format(name, <<>>), next |-> n]
          ELSE IF close <= Len(p)
               THEN [item |-> Format(name, <<SubSeq(p, n + 1, close - 1)>>), next |-> close + 1]
               ELSE [item |-> PatternError, next |-> i + 1]
    BY DEF ItemAt
  <2> HIDE DEF n
  <2>4. n \in Nat /\ n - 1 \in i .. Len(p) /\ i <= n - 1
    BY <1>1, <1>2, <2>2
  <2>5. name \in Seq(C) /\ <<Percent>> \o name = SubSeq(p, i, n - 1)
    <3>1. i + 1 \in 1 .. Len(p) + 1 /\ n - 1 \in (i + 1) - 1 .. Len(p) /\ i \in 1 .. Len(p) + 1 /\ i \in i - 1 .. Len(p)
      BY <1>1, <1>2, <2>4
    <3>2. SubSeq(p, i, i) \o SubSeq(p, i + 1, n - 1) = SubSeq(p, i, n - 1)
      BY <2>4, <3>1, PiecesJoin
    <3>3. name \in Seq(C)
      <4>1. n - 1 \in n - 1 .. Len(p)
        BY <2>4
      <4> QED
        BY <3>1, <4>1, PiecesJoin
    <3> QED
      BY <1>5, <3>2, <3>3, OneCharacter
  <2>6. SubSeq(p, i, n - 1) \in Seq(C)
    <3>1. <<Percent>> \in Seq(C)
      OBVIOUS
    <3> HIDE DEF name
    <3>2. <<Percent>> \o name \in Seq(C)
      BY <2>5, <3>1, ConcatProperties
    <3> QED
      BY <2>5, <3>2
  <2>7. CASE n > Len(p) \/ p[n] # Open
    <3>1. CutAt(p, i).item = Format(name, <<>>) /\ CutAt(p, i).next = n
      BY <2>1, <2>3, <2>7
    <3> DEFINE x == Format(name, <<>>)
    <3>2. x \in ItemsOver(C) /\ (x.kind # "error" => Source(x) = <<Percent>> \o name \o <<>>)
      <4>1. <<>> \in Seq(Seq(C))
        OBVIOUS
      <4> HIDE DEF name
      <4> QED
        BY <2>5, <4>1, FormatIsGood
    <3>3. <<Percent>> \o name \o <<>> = SubSeq(p, i, n - 1)
      BY <2>5, <2>6, ConcatEmptySeq
    <3> HIDE DEF x, name
    <3> QED
      BY <2>2, <3>1, <3>2, <3>3 DEF CutIsGood, x
  <2>8. CASE ~ (n > Len(p) \/ p[n] # Open)
    <3>1. n \in 1 .. Len(p) /\ p[n] = Open /\ n + 1 \in 1 .. Len(p) + 1 /\ n \in n .. Len(p)
      BY <1>1, <2>2, <2>4, <2>8
    <3>2. close \in n + 1 .. Len(p) + 1 /\ (close <= Len(p) => p[close] = Close)
      BY <3>1, FirstInBounds
    <3> HIDE DEF close
    <3>3. CASE close <= Len(p)
      <4> DEFINE inside == SubSeq(p, n + 1, close - 1)
                 x == Format(name, <<inside>>)
      <4>1. CutAt(p, i).item = x /\ CutAt(p, i).next = close + 1
        BY <2>1, <2>3, <2>8, <3>3
      <4>2. /\ close \in Nat /\ close + 1 \in i + 1 .. Len(p) + 1 /\ (close + 1) - 1 = close /\ close \in 1 .. Len(p)
            /\ close - 1 \in (n + 1) - 1 .. Len(p) /\ close - 1 \in n .. Len(p) /\ close \in close - 1 .. Len(p)
            /\ (close - 1) + 1 = close /\ close - 1 \in close - 1 .. Len(p) /\ (n - 1) + 1 = n
        BY <1>1, <1>2, <2>4, <3>1, <3>2, <3>3
      <4>3. inside \in Seq(C) /\ SubSeq(p, n, n) \o inside = SubSeq(p, n, close - 1)
        <5>1. inside \in Seq(C)
          BY <3>1, <4>2, PiecesJoin
        <5>2. n \in 1 .. Len(p) + 1 /\ n \in n - 1 .. Len(p)
          BY <1>1, <3>1
        <5> QED
          BY <4>2, <5>1, <5>2, PiecesJoin
      <4>4. SubSeq(p, n, close - 1) \o SubSeq(p, close, close) = SubSeq(p, n, close)
        <5>1. n \in 1 .. Len(p) + 1 /\ close - 1 \in n - 1 .. Len(p)
          BY <1>1, <3>1, <4>2
        <5>2. SubSeq(p, n, close - 1) \o SubSeq(p, (close - 1) + 1, close) = SubSeq(p, n, close)
          BY <4>2, <5>1, PiecesJoin
        <5> QED
          BY <4>2, <5>2
      <4>5. SubSeq(p, i, n - 1) \o SubSeq(p, n, close) = SubSeq(p, i, close)
        <5>1. i \in 1 .. Len(p) + 1 /\ n - 1 \in i - 1 .. Len(p) /\ close \in n - 1 .. Len(p)
          BY <1>1, <1>2, <2>4, <3>1, <3>2, <4>2
        <5>2. SubSeq(p, i, n - 1) \o SubSeq(p, (n - 1) + 1, close) = SubSeq(p, i, close)
          BY <5>1, PiecesJoin
        <5> QED
          BY <4>2, <5>2
      <4>6. <<Open>> \o inside \o <<Close>> = SubSeq(p, n, close)
        <5>1. SubSeq(p, n, n) = <<Open>> /\ SubSeq(p, close, close) = <<Close>>
          BY <3>1, <3>2, <3>3, <4>2, OneCharacter
        <5> HIDE DEF inside
        <5> QED
          BY <4>3, <4>4, <5>1
      <4>7. <<inside>> \in Seq(Seq(C)) /\ <<inside>> # <<>> /\ <<inside>>[1] = inside
        <5> HIDE DEF inside
        <5> QED
          BY <4>3
      <4> HIDE DEF inside, name
      <4>8. x \in ItemsOver(C) /\ (x.kind # "error" => Source(x) = <<Percent>> \o name \o (<<Open>> \o inside \o <<Close>>))
        BY <2>5, <4>7, FormatIsGood
      <4>9. <<Percent>> \o name \o (<<Open>> \o inside \o <<Close>>) = SubSeq(p, i, close)
        BY <2>5, <4>5, <4>6
      <4> HIDE DEF x
      <4> QED
        BY <4>1, <4>2, <4>8, <4>9 DEF CutIsGood
    <3>4. CASE ~ (close <= Len(p))
      <4>1. CutAt(p, i).item = PatternError /\ CutAt(p, i).next = i + 1
        BY <2>1, <2>3, <2>8, <3>4
      <4>2. PatternError \in ItemsOver(C) /\ PatternError.kind = "error"
        BY DEF PatternError, ItemsOver
      <4> QED
        BY <1>2, <4>1, <4>2 DEF CutIsGood
    <3> QED
      BY <3>3, <3>4
  <2> QED
    BY <2>7, <2>8
<1> QED
  BY <1>3, <1>4, <1>5

(* A way of cutting that always goes on further right comes to an end: the *)
(* items from each position are a function, by induction from the end.     *)
HasCuts(I, n, it, nx) ==
  \E g \in [1 .. n + 2 -> Seq(I)] :
    \A i \in 1 .. n + 2 : g[i] = IF i > n THEN <<>> ELSE <<it[i]>> \o g[nx[i]]

(* Such a function exists.                                                 *)
LEMMA CutsExist ==
  ASSUME NEW I, NEW n \in Nat, NEW it \in [1 .. n -> I], NEW nx \in [1 .. n -> Nat],
         \A i \in 1 .. n : nx[i] \in i + 1 .. n + 1
  PROVE  HasCuts(I, n, it, nx)
<1> DEFINE Is(g, d) == \A i \in 1 .. n + 2 : i >= n + 1 - d =>
                          g[i] = IF i > n THEN <<>> ELSE <<it[i]>> \o g[nx[i]]
           Q == {d \in Nat : d <= n => \E g \in [1 .. n + 2 -> Seq(I)] : Is(g, d)}
<1>1. 0 \in Q
  <2> DEFINE g == [i \in 1 .. n + 2 |-> <<>>]
  <2>1. g \in [1 .. n + 2 -> Seq(I)]
    OBVIOUS
  <2>2. Is(g, 0)
    OBVIOUS
  <2> QED
    BY <2>1, <2>2
<1>2. ASSUME NEW d \in Nat, d \in Q PROVE d + 1 \in Q
  <2> HIDE DEF Is
  <2> SUFFICES ASSUME d + 1 <= n PROVE \E g \in [1 .. n + 2 -> Seq(I)] : Is(g, d + 1)
    OBVIOUS
  <2>1. PICK g \in [1 .. n + 2 -> Seq(I)] : Is(g, d)
    <3>1. d <= n
      OBVIOUS
    <3> QED
      BY <1>2, <3>1
  <2>2. PICK k \in 1 .. n : k = n - d
    BY n - d \in 1 .. n
  <2> DEFINE new == <<it[k]>> \o g[nx[k]]
             h == [g EXCEPT ![k] = new]
  <2>3. k \in 1 .. n + 2 /\ it[k] \in I /\ nx[k] \in 1 .. n + 2 /\ nx[k] # k
    <3>1. nx[k] \in k + 1 .. n + 1
      OBVIOUS
    <3>2. \A m \in k + 1 .. n + 1 : m \in 1 .. n + 2 /\ m # k
      OBVIOUS
    <3>3. k \in 1 .. n + 2 /\ it[k] \in I
      OBVIOUS
    <3> HIDE DEF new, h
    <3> QED
      BY <3>1, <3>2, <3>3
  <2>4. new \in Seq(I)
    <3>1. g[nx[k]] \in Seq(I) /\ <<it[k]>> \in Seq(I)
      BY <2>1, <2>3
    <3> QED
      BY <3>1, ConcatProperties
  <2> HIDE DEF new
  <2>5. h \in [1 .. n + 2 -> Seq(I)] /\ h[k] = new /\ \A i \in 1 .. n + 2 : i # k => h[i] = g[i]
    BY <2>1, <2>3, <2>4
  <2> HIDE DEF h
  <2>6. ASSUME NEW i \in 1 .. n + 2, i >= n + 1 - (d + 1)
        PROVE  h[i] = IF i > n THEN <<>> ELSE <<it[i]>> \o h[nx[i]]
    <3>1. CASE i = k
      <4>1. ~ (i > n) /\ h[nx[i]] = g[nx[i]]
        BY <2>2, <2>3, <2>5, <3>1
      <4> QED
        BY <2>5, <3>1, <4>1 DEF new
    <3>2. CASE i # k
      <4>1. i >= n + 1 - d /\ i > k /\ h[i] = g[i]
        BY <2>2, <2>5, <2>6, <3>2
      <4>2. g[i] = IF i > n THEN <<>> ELSE <<it[i]>> \o g[nx[i]]
        BY <2>1, <4>1 DEF Is
      <4>3. CASE i > n
        BY <4>1, <4>2, <4>3
      <4>4. CASE ~ (i > n)
        <5>1. i \in 1 .. n
          BY <4>4
        <5>2. nx[i] \in i + 1 .. n + 1
          BY <5>1
        <5>3. nx[i] \in 1 .. n + 2 /\ nx[i] # k
          <6>1. \A m \in i + 1 .. n + 1 : m \in 1 .. n + 2 /\ m # k
            BY <2>2, <4>1, <5>1
          <6> QED
            BY <5>2, <6>1
        <5>4. h[nx[i]] = g[nx[i]]
          BY <2>5, <5>3
        <5> QED
          BY <4>1, <4>2, <4>4, <5>4
      <4> QED
        BY <4>3, <4>4
    <3> QED
      BY <3>1, <3>2
  <2>7. Is(h, d + 1)
    BY <2>6 DEF Is
  <2> QED
    BY <2>5, <2>7
<1>3. n \in Q
  <2> HIDE DEF Q
  <2> QED
    BY <1>1, <1>2, CountingUp
<1>4. PICK g \in [1 .. n + 2 -> Seq(I)] : Is(g, n)
  <2> HIDE DEF Is
  <2> QED
    BY <1>3
<1>5. ASSUME NEW i \in 1 .. n + 2
      PROVE  g[i] = IF i > n THEN <<>> ELSE <<it[i]>> \o g[nx[i]]
  <2>1. i >= n + 1 - n
    OBVIOUS
  <2> QED
    BY <1>4, <2>1
<1> QED
  BY <1>5 DEF HasCuts

(* The characters the items of a sequence stand for.                       *)
TextOf(items) == FlattenSeq([k \in DOMAIN items |-> Source(items[k])])

(* A sequence with one element put in front of it.                         *)
LEMMA PutInFront ==
  ASSUME NEW A, NEW x \in A, NEW s \in Seq(A)
  PROVE  /\ <<x>> \o s \in Seq(A) /\ Len(<<x>> \o s) = Len(s) + 1 /\ (<<x>> \o s)[1] = x
         /\ \A k \in 1 .. Len(s) : (<<x>> \o s)[k + 1] = s[k]
<1> DEFINE t == <<x>> \o s
<1>1. <<x>> \in Seq(A) /\ Len(<<x>>) = 1 /\ <<x>>[1] = x /\ Len(s) \in Nat
  OBVIOUS
<1>2. t \in Seq(A) /\ Len(t) = 1 + Len(s)
  BY <1>1
<1>3. \A k \in 1 .. 1 + Len(s) : t[k] = IF k <= 1 THEN <<x>>[k] ELSE s[k - 1]
  BY <1>1
<1> HIDE DEF t
<1>4. t[1] = x
  BY <1>1, <1>3
<1>5. ASSUME NEW k \in 1 .. Len(s) PROVE t[k + 1] = s[k]
  <2>1. k + 1 \in 1 .. 1 + Len(s) /\ ~ (k + 1 <= 1) /\ (k + 1) - 1 = k
    BY <1>1
  <2> QED
    BY <1>3, <2>1
<1> QED
  BY <1>1, <1>2, <1>4, <1>5 DEF t

(* The text of items, one by one.                                          *)
LEMMA TextOfCons ==
  ASSUME NEW C, Percent \in C, Open \in C, Close \in C,
         NEW x \in ItemsOver(C), NEW s \in Seq(ItemsOver(C))
  PROVE  /\ <<x>> \o s \in Seq(ItemsOver(C))
         /\ TextOf(<<x>> \o s) = Source(x) \o TextOf(s)
         /\ Erroneous(<<x>> \o s) <=> x.kind = "error" \/ Erroneous(s)
<1> DEFINE t == <<x>> \o s
           S == [k \in DOMAIN s |-> Source(s[k])]
           T == [k \in DOMAIN t |-> Source(t[k])]
<1>1. Len(s) \in Nat /\ DOMAIN s = 1 .. Len(s) /\ \A k \in 1 .. Len(s) : s[k] \in ItemsOver(C)
  OBVIOUS
<1>2. /\ t \in Seq(ItemsOver(C)) /\ Len(t) = Len(s) + 1 /\ t[1] = x /\ \A k \in 1 .. Len(s) : t[k + 1] = s[k]
  BY PutInFront
<1>3. \A k \in 1 .. Len(s) : Source(s[k]) \in Seq(C)
  BY <1>1, SourceTyped
<1>4. S \in Seq(Seq(C)) /\ Len(S) = Len(s) /\ \A k \in 1 .. Len(s) : S[k] = Source(s[k])
  <2>1. S \in [1 .. Len(s) -> Seq(C)] /\ \A k \in 1 .. Len(s) : S[k] = Source(s[k])
    BY <1>1, <1>3
  <2> HIDE DEF S
  <2> QED
    BY <1>1, <2>1, FunctionIsSeq
<1>5. Source(x) \in Seq(C)
  BY SourceTyped
<1> DEFINE U == <<Source(x)>> \o S
<1>6. /\ U \in Seq(Seq(C)) /\ Len(U) = Len(s) + 1 /\ U[1] = Source(x)
      /\ \A k \in 1 .. Len(s) : U[k + 1] = Source(s[k])
  <2> HIDE DEF S
  <2>1. /\ U \in Seq(Seq(C)) /\ Len(U) = Len(S) + 1 /\ U[1] = Source(x)
        /\ \A k \in 1 .. Len(S) : U[k + 1] = S[k]
    BY <1>4, <1>5, PutInFront
  <2> QED
    BY <1>4, <2>1
<1>7. T = U
  <2>1. DOMAIN t = 1 .. Len(s) + 1 /\ DOMAIN U = 1 .. Len(s) + 1 /\ U = [k \in 1 .. Len(s) + 1 |-> U[k]]
    <3> HIDE DEF t, U
    <3> QED
      BY <1>1, <1>2, <1>6
  <2>2. ASSUME NEW k \in 1 .. Len(s) + 1 PROVE Source(t[k]) = U[k]
    <3> HIDE DEF t, U
    <3>1. k = 1 \/ (k - 1 \in 1 .. Len(s) /\ (k - 1) + 1 = k)
      BY <1>1
    <3>2. CASE k = 1
      BY <1>2, <1>6, <3>2
    <3>3. CASE k # 1
      <4>1. PICK j \in 1 .. Len(s) : j + 1 = k
        BY <3>1, <3>3
      <4>2. t[j + 1] = s[j] /\ U[j + 1] = Source(s[j])
        BY <1>2, <1>6
      <4> QED
        BY <4>1, <4>2
    <3> QED
      BY <3>2, <3>3
  <2> HIDE DEF t, U
  <2> QED
    BY <2>1, <2>2
<1>8. TextOf(t) = Source(x) \o TextOf(s)
  <2>1. TextOf(t) = FlattenSeq(T) /\ TextOf(s) = FlattenSeq(S)
    BY DEF TextOf
  <2>2. FlattenSeq(U) = Source(x) \o FlattenSeq(S)
    <3> HIDE DEF S
    <3> QED
      BY <1>4, <1>5, FlattenCons
  <2> HIDE DEF T, S, t, U
  <2> QED
    BY <1>7, <2>1, <2>2
<1>9. Erroneous(t) <=> x.kind = "error" \/ Erroneous(s)
  <2> HIDE DEF t
  <2>1. ASSUME Erroneous(t) PROVE x.kind = "error" \/ Erroneous(s)
    <3>1. PICK k \in 1 .. Len(s) + 1 : t[k].kind = "error"
      BY <1>1, <1>2, <2>1 DEF Erroneous
    <3>2. CASE k = 1
      BY <1>2, <3>1, <3>2
    <3>3. CASE k # 1
      <4>1. PICK j \in 1 .. Len(s) : j + 1 = k
        <5>1. k - 1 \in 1 .. Len(s) /\ (k - 1) + 1 = k
          BY <1>1, <3>3
        <5> QED
          BY <5>1
      <4>2. s[j].kind = "error"
        BY <1>2, <3>1, <4>1
      <4> QED
        BY <1>1, <4>2 DEF Erroneous
    <3> QED
      BY <3>2, <3>3
  <2>2. ASSUME x.kind = "error" PROVE Erroneous(t)
    BY <1>1, <1>2, <2>2 DEF Erroneous
  <2>3. ASSUME Erroneous(s) PROVE Erroneous(t)
    <3>1. PICK k \in 1 .. Len(s) : s[k].kind = "error"
      BY <1>1, <2>3 DEF Erroneous
    <3>2. k + 1 \in DOMAIN t /\ t[k + 1].kind = "error"
      BY <1>1, <1>2, <3>1
    <3> QED
      BY <3>2 DEF Erroneous
  <2> QED
    BY <2>1, <2>2, <2>3
<1> QED
  BY <1>2, <1>8, <1>9

(* An accepted pattern is its items, whatever the pattern is.              *)
LEMMA AcceptedIsSound ==
  ASSUME NEW p, Listed(p), ~ is_error(p)
  PROVE  Sound(p)
<1> DEFINE C == CharsOf(p)
           I == ItemsOver(C)
           L == Len(p)
           it == [i \in 1 .. L |-> CutAt(p, i).item]
           nx == [i \in 1 .. L |-> CutAt(p, i).next]
           Body(g, i) == IF i > L THEN <<>>
                         ELSE IF p[i] # Percent THEN <<Literal(p[i])>> \o g[i + 1]
                         ELSE IF i < L /\ p[i + 1] = Percent THEN <<Literal(Percent)>> \o g[i + 1]
                         ELSE LET at == ItemAt(p, i) IN <<at.item>> \o g[at.next]
           R(g) == g = [i \in 1 .. L + 2 |-> Body(g, i)]
<1>1. Percent \in C /\ Open \in C /\ Close \in C /\ p \in Seq(C) /\ L \in Nat
  <2>1. p \in Seq(Range(p)) /\ Range(p) \subseteq C
    BY DEF Listed, CharsOf
  <2>2. p \in Seq(C) /\ L \in Nat
    <3> HIDE DEF C
    <3> QED
      BY <2>1, SeqMonotonic
  <2> QED
    BY <2>2 DEF CharsOf
<1>2. \A i \in 1 .. L : CutIsGood(p, i, C)
  <2> HIDE DEF C
  <2> QED
    BY <1>1, CutGood
<1> HIDE DEF C
<1>3. /\ it \in [1 .. L -> I] /\ nx \in [1 .. L -> Nat]
      /\ \A i \in 1 .. L : /\ nx[i] \in i + 1 .. L + 1
                           /\ it[i].kind # "error" => Source(it[i]) = SubSeq(p, i, nx[i] - 1)
  <2>1. ASSUME NEW i \in 1 .. L
        PROVE  /\ it[i] \in I /\ nx[i] \in Nat /\ nx[i] \in i + 1 .. L + 1
               /\ it[i].kind # "error" => Source(it[i]) = SubSeq(p, i, nx[i] - 1)
    <3>1. it[i] = CutAt(p, i).item /\ nx[i] = CutAt(p, i).next
      OBVIOUS
    <3>2. /\ it[i] \in I /\ nx[i] \in i + 1 .. L + 1
          /\ it[i].kind # "error" => Source(it[i]) = SubSeq(p, i, nx[i] - 1)
      <4> HIDE DEF it, nx
      <4> QED
        BY <1>2, <3>1 DEF CutIsGood
    <3> HIDE DEF it, nx, I
    <3>3. nx[i] \in Nat
      BY <1>1, <3>2
    <3> QED
      BY <3>2, <3>3
  <2>2. it \in [1 .. L -> I]
    <3> HIDE DEF I
    <3> QED
      BY <2>1
  <2>3. nx \in [1 .. L -> Nat]
    <3> HIDE DEF I
    <3> QED
      BY <2>1
  <2> HIDE DEF it, nx, I
  <2> QED
    BY <2>1, <2>2, <2>3
<1>4. ASSUME NEW g, NEW i \in 1 .. L PROVE Body(g, i) = <<it[i]>> \o g[nx[i]]
  <2>1. ~ (i > L)
    BY <1>1
  <2>2. it[i] = CutAt(p, i).item /\ nx[i] = CutAt(p, i).next
    OBVIOUS
  <2> HIDE DEF it, nx
  <2>3. CASE p[i] # Percent
    <3>1. CutAt(p, i) = [item |-> Literal(p[i]), next |-> i + 1]
      BY <2>3 DEF CutAt
    <3>2. it[i] = Literal(p[i]) /\ nx[i] = i + 1
      BY <2>2, <3>1
    <3> QED
      BY <2>1, <2>3, <3>2
  <2>4. CASE p[i] = Percent /\ i < L /\ p[i + 1] = Percent
    <3>1. CutAt(p, i) = [item |-> Literal(Percent), next |-> i + 1]
      BY <2>4 DEF CutAt
    <3>2. it[i] = Literal(Percent) /\ nx[i] = i + 1
      BY <2>2, <3>1
    <3> QED
      BY <2>1, <2>4, <3>2
  <2>5. CASE p[i] = Percent /\ ~ (i < L /\ p[i + 1] = Percent)
    <3>1. CutAt(p, i) = ItemAt(p, i)
      BY <2>5 DEF CutAt
    <3> QED
      BY <2>1, <2>2, <2>5, <3>1
  <2> QED
    BY <2>3, <2>4, <2>5
<1>5. ASSUME NEW g, NEW i \in 1 .. L + 2, ~ (i \in 1 .. L) PROVE Body(g, i) = <<>>
  <2>1. i > L
    BY <1>1, <1>5
  <2> QED
    BY <2>1
<1> HIDE DEF it, nx, I
<1>6. PICK g \in [1 .. L + 2 -> Seq(I)] :
            \A i \in 1 .. L + 2 : g[i] = IF i > L THEN <<>> ELSE <<it[i]>> \o g[nx[i]]
  <2>1. /\ it \in [1 .. L -> I] /\ nx \in [1 .. L -> Nat]
        /\ \A i \in 1 .. L : nx[i] \in i + 1 .. L + 1
    BY <1>3
  <2>2. L \in Nat
    BY <1>1
  <2> HIDE DEF L
  <2> QED
    <3>1. HasCuts(I, L, it, nx)
      BY <2>1, <2>2, CutsExist
    <3> QED
      BY <3>1 DEF HasCuts
<1>7. R(g)
  <2>1. ASSUME NEW i \in 1 .. L + 2 PROVE g[i] = Body(g, i)
    <3>1. CASE i \in 1 .. L
      <4>1. ~ (i > L)
        BY <1>1, <3>1
      <4>2. g[i] = <<it[i]>> \o g[nx[i]]
        BY <1>6, <4>1
      <4> HIDE DEF Body
      <4> QED
        BY <1>4, <3>1, <4>2
    <3>2. CASE ~ (i \in 1 .. L)
      <4>1. i > L
        BY <1>1, <3>2
      <4>2. g[i] = <<>>
        BY <1>6, <4>1
      <4> HIDE DEF Body
      <4> QED
        BY <1>5, <3>2, <4>2
    <3> QED
      BY <3>1, <3>2
  <2> HIDE DEF Body
  <2>2. g = [i \in 1 .. L + 2 |-> g[i]]
    BY <1>6
  <2> QED
    BY <2>1, <2>2
<1> DEFINE f == CHOOSE h : R(h)
<1>8. R(f)
  <2> HIDE DEF R
  <2> QED
    BY <1>7
<1>9. Items(p) = f[1]
  BY DEF Items
<1> HIDE DEF f
<1>10. /\ \A i \in 1 .. L : f[i] = <<it[i]>> \o f[nx[i]]
       /\ f[L + 1] = <<>>
  <2>1. \A i \in 1 .. L + 2 : f[i] = Body(f, i)
    <3> HIDE DEF Body
    <3> QED
      BY <1>8
  <2> HIDE DEF Body, R
  <2>2. ASSUME NEW i \in 1 .. L PROVE f[i] = <<it[i]>> \o f[nx[i]]
    <3>1. i \in 1 .. L + 2
      BY <1>1
    <3> QED
      BY <1>4, <2>1, <3>1
  <2>3. f[L + 1] = <<>>
    <3>1. L + 1 \in 1 .. L + 2 /\ ~ (L + 1 \in 1 .. L)
      BY <1>1
    <3> QED
      BY <1>5, <2>1, <3>1
  <2> QED
    BY <2>2, <2>3
<1> HIDE DEF R, Body
<1> DEFINE Good(i) == /\ f[i] \in Seq(I)
                      /\ ~ Erroneous(f[i]) => TextOf(f[i]) = SubSeq(p, i, L)
           Q == {d \in Nat : d <= L => \A i \in L + 1 - d .. L + 1 : Good(i)}
<1>11. Good(L + 1)
  <2>1. TextOf(<<>>) = <<>>
    <3>1. [k \in DOMAIN <<>> |-> Source(<<>>[k])] = <<>>
      OBVIOUS
    <3>2. FlattenSeq(<<>>) = <<>>
      BY DEF FlattenSeq
    <3> QED
      BY <3>1, <3>2 DEF TextOf
  <2>2. SubSeq(p, L + 1, L) = <<>>
    BY <1>1, SubSeqEmpty
  <2>3. <<>> \in Seq(I)
    OBVIOUS
  <2> HIDE DEF L
  <2> QED
    BY <1>10, <2>1, <2>2, <2>3
<1>12. ASSUME NEW i \in 1 .. L, \A j \in i + 1 .. L + 1 : Good(j) PROVE Good(i)
  <2> DEFINE m == nx[i]
  <2>1. /\ m \in i + 1 .. L + 1 /\ it[i] \in I
        /\ it[i].kind # "error" => Source(it[i]) = SubSeq(p, i, m - 1)
    BY <1>3
  <2>2. f[i] = <<it[i]>> \o f[m]
    BY <1>10
  <2> HIDE DEF m, Good
  <2>3. Good(m)
    BY <1>12, <2>1
  <2>4. f[m] \in Seq(I)
    BY <2>3 DEF Good
  <2>5. /\ f[i] \in Seq(I) /\ TextOf(f[i]) = Source(it[i]) \o TextOf(f[m])
        /\ Erroneous(f[i]) <=> it[i].kind = "error" \/ Erroneous(f[m])
    <3> DEFINE x == it[i]
               s == f[m]
    <3>1. x \in ItemsOver(C) /\ s \in Seq(ItemsOver(C)) /\ f[i] = <<x>> \o s
      BY <2>1, <2>2, <2>4 DEF I
    <3>2. Percent \in C /\ Open \in C /\ Close \in C
      BY <1>1
    <3> HIDE DEF x, s
    <3>3. /\ <<x>> \o s \in Seq(ItemsOver(C))
          /\ TextOf(<<x>> \o s) = Source(x) \o TextOf(s)
          /\ Erroneous(<<x>> \o s) <=> x.kind = "error" \/ Erroneous(s)
      BY <3>1, <3>2, TextOfCons
    <3>4. /\ f[i] \in Seq(ItemsOver(C)) /\ TextOf(f[i]) = Source(x) \o TextOf(s)
          /\ Erroneous(f[i]) <=> x.kind = "error" \/ Erroneous(s)
      BY <3>1, <3>3
    <3> QED
      BY <3>4 DEF x, s, I
  <2>6. ASSUME ~ Erroneous(f[i]) PROVE TextOf(f[i]) = SubSeq(p, i, L)
    <3>1. TextOf(f[i]) = SubSeq(p, i, m - 1) \o SubSeq(p, m, L)
      BY <2>1, <2>3, <2>5, <2>6 DEF Good
    <3>2. i \in 1 .. L + 1 /\ m - 1 \in i - 1 .. L /\ L \in m - 1 .. L /\ (m - 1) + 1 = m
      BY <1>1, <2>1
    <3>3. SubSeq(p, i, m - 1) \o SubSeq(p, (m - 1) + 1, L) = SubSeq(p, i, L)
      BY <1>1, <3>2, PiecesJoin
    <3> QED
      BY <3>1, <3>2, <3>3
  <2> QED
    BY <2>5, <2>6 DEF Good
<1>13. Good(1)
  <2> HIDE DEF Good
  <2>1. 0 \in Q
    <3>1. \A i \in L + 1 - 0 .. L + 1 : i = L + 1
      BY <1>1
    <3> QED
      BY <1>11, <3>1
  <2>2. ASSUME NEW d \in Nat, d \in Q PROVE d + 1 \in Q
    <3> SUFFICES ASSUME d + 1 <= L, NEW i \in L + 1 - (d + 1) .. L + 1 PROVE Good(i)
      OBVIOUS
    <3>1. \A j \in L + 1 - d .. L + 1 : Good(j)
      <4>1. d <= L
        BY <1>1
      <4> QED
        BY <2>2, <4>1
    <3>2. CASE i \in L + 1 - d .. L + 1
      BY <3>1, <3>2
    <3>3. CASE ~ (i \in L + 1 - d .. L + 1)
      <4>1. i \in 1 .. L /\ \A j \in i + 1 .. L + 1 : j \in L + 1 - d .. L + 1
        BY <1>1, <3>3
      <4> QED
        BY <1>12, <3>1, <4>1
    <3> QED
      BY <3>2, <3>3
  <2> HIDE DEF Q
  <2>3. L \in Q
    BY <1>1, <2>1, <2>2, CountingUp
  <2>4. 1 \in L + 1 - L .. L + 1
    BY <1>1
  <2> QED
    BY <1>1, <2>3, <2>4 DEF Q
<1>14. TextOf(f[1]) = p /\ ~ Erroneous(f[1])
  <2>1. ~ Erroneous(f[1])
    BY <1>9 DEF is_error
  <2>2. SubSeq(p, 1, L) = p
    BY <1>1, SubSeqFull
  <2> QED
    BY <1>13, <2>1, <2>2
<1> HIDE DEF Good
<1> QED
  BY <1>9, <1>14 DEF Sound, TextOf

------------------------------------------------------------------------------
(***************************************************************************)
(* What is printed is read back                                            *)
(***************************************************************************)
(* SelectInSeq finds an element where there is one.                        *)
LEMMA SelectKey ==
  ASSUME NEW A, NEW s \in Seq(A), NEW k, \E i \in 1 .. Len(s) : s[i].key = k
  PROVE  \E j \in 1 .. Len(s) : SelectInSeq(s, LAMBDA q : q.key = k) = j /\ s[j].key = k
<1> DEFINE T == {i \in 1 .. Len(s) : s[i].key = k}
<1>1. T \subseteq Nat /\ T # {}
  OBVIOUS
<1>2. SelectInSeq(s, LAMBDA q : q.key = k) = Min(T)
  BY <1>1 DEF SelectInSeq
<1>3. Min(T) \in T
  <2> HIDE DEF T
  <2> QED
    BY <1>1, LeastExists DEF Min
<1> QED
  BY <1>2, <1>3

(* The domain and the length of a sequence.                                *)
LEMMA ListedShape ==
  ASSUME NEW s, Listed(s)
  PROVE  s \in Seq(Range(s)) /\ Len(s) \in Nat /\ DOMAIN s = 1 .. Len(s)
<1>1. s \in Seq(Range(s))
  BY DEF Listed
<1> QED
  BY <1>1

FirstNamed(s, n) == SelectInSeq(s, LAMBDA d : d.name = n)

(* The same for a name.                                                    *)
LEMMA SelectName ==
  ASSUME NEW s, Listed(s), NEW n, \E i \in DOMAIN s : s[i].name = n
  PROVE  FirstNamed(s, n) \in DOMAIN s /\ s[FirstNamed(s, n)].name = n
<1> DEFINE T == {i \in 1 .. Len(s) : s[i].name = n}
<1>1. Len(s) \in Nat /\ DOMAIN s = 1 .. Len(s)
  BY ListedShape
<1>2. T \subseteq Nat /\ T # {}
  BY <1>1
<1>3. FirstNamed(s, n) = Min(T)
  BY <1>2 DEF FirstNamed, SelectInSeq
<1>4. Min(T) \in T
  <2> HIDE DEF T
  <2> QED
    BY <1>2, LeastExists DEF Min
<1> QED
  BY <1>1, <1>3, <1>4

(* A list with something in it, or null.                                   *)
LEMMA ListOrNullElements ==
  ASSUME NEW ns, Listed(ns)
  PROVE  Elements(ListOrNull(ns)) = ns
<1>1. CASE ns = <<>>
  <2>1. ListOrNull(ns).kind = "null"
    BY <1>1 DEF ListOrNull, Null
  <2> QED
    BY <1>1, <2>1 DEF Elements
<1>2. CASE ns # <<>>
  <2>1. ListOrNull(ns).kind = "list" /\ ListOrNull(ns).of = ns
    BY <1>2 DEF ListOrNull, List
  <2> QED
    BY <2>1 DEF Elements
<1> QED
  BY <1>1, <1>2

(* What a sequence holds is finite.                                        *)
LEMMA RangeFinite ==
  ASSUME NEW s, Listed(s)
  PROVE  IsFiniteSet(Range(s))
<1>1. s \in Surjection(1 .. Len(s), Range(s)) /\ IsFiniteSet(1 .. Len(s))
  <2>1. s \in Seq(Range(s))
    BY DEF Listed
  <2>2. Len(s) \in Nat /\ DOMAIN s = 1 .. Len(s) /\ s \in [1 .. Len(s) -> Range(s)]
    BY <2>1
  <2> QED
    BY <2>2, FS_Interval DEF Surjection, Range
<1> QED
  BY <1>1, FS_Surjection

(* The empty sequence is one.                                              *)
LEMMA EmptyListed == Listed(<<>>)
BY DEF Listed

(* A function over a sequence's domain is a sequence.                      *)
LEMMA FunctionListed ==
  ASSUME NEW s, Listed(s), NEW f, f = [i \in DOMAIN s |-> f[i]]
  PROVE  Listed(f) /\ DOMAIN f = DOMAIN s /\ Len(f) = Len(s)
<1>1. Len(s) \in Nat /\ DOMAIN s = 1 .. Len(s)
  BY DEF Listed
<1>2. f \in [1 .. Len(s) -> Range(f)]
  BY <1>1 DEF Range
<1> QED
  BY <1>1, <1>2, FunctionIsSeq DEF Listed

(* A vector of numbers is what its text is read as.                        *)
LEMMA VectorPrinted ==
  ASSUME NEW v, Listed(v)
  PROVE  VectorOf(PrintVector(v)) = v /\ ~ VectorThrows(PrintVector(v))
<1> DEFINE ns == [i \in DOMAIN v |-> Number(v[i])]
           n == PrintVector(v)
<1>1. Listed(ns) /\ DOMAIN ns = DOMAIN v /\ \A i \in DOMAIN v : ns[i] = Number(v[i])
  <2>1. ns = [i \in DOMAIN v |-> ns[i]]
    OBVIOUS
  <2> QED
    BY <2>1, FunctionListed
<1>2. Elements(n) = ns
  <2>1. n = ListOrNull(ns)
    BY DEF PrintVector
  <2> HIDE DEF ns, n
  <2> QED
    BY <1>1, <2>1, ListOrNullElements
<1> HIDE DEF ns, n
<1>3. \A i \in DOMAIN v : Elements(n)[i].kind = "number" /\ Elements(n)[i].of[1] = v[i]
  BY <1>1, <1>2 DEF Number
<1>4. DOMAIN Elements(n) = DOMAIN v /\ v = [i \in DOMAIN v |-> v[i]]
  BY <1>1, <1>2 DEF Listed
<1>5. VectorOf(n) = v
  BY <1>3, <1>4 DEF VectorOf, lexical_cast
<1>6. ~ VectorThrows(n)
  BY <1>3, <1>4 DEF VectorThrows, NoNumber
<1> QED
  BY <1>5, <1>6 DEF n

(* A set of vectors is what its text is read as.                           *)
LEMMA SetPrinted ==
  ASSUME NEW S, IsFiniteSet(S), \A v \in S : Listed(v)
  PROVE  SetOf(PrintSet(S)) = S /\ ~ SetThrows(PrintSet(S))
<1> DEFINE vs == SetToSeq(S)
           ns == [i \in DOMAIN vs |-> PrintVector(vs[i])]
           n == PrintSet(S)
<1>1. Listed(vs) /\ Range(vs) = S
  BY SetToSeqLists DEF Listed
<1>2. n = ListOrNull(ns)
  BY DEF PrintSet
<1> HIDE DEF vs, n
<1>3. Listed(ns) /\ DOMAIN ns = DOMAIN vs /\ \A i \in DOMAIN vs : ns[i] = PrintVector(vs[i])
  <2>1. ns = [i \in DOMAIN vs |-> ns[i]]
    OBVIOUS
  <2> QED
    BY <1>1, <2>1, FunctionListed
<1> HIDE DEF ns
<1>4. Elements(n) = ns
  BY <1>2, <1>3, ListOrNullElements
<1>5. \A i \in DOMAIN vs : VectorOf(ns[i]) = vs[i] /\ ~ VectorThrows(ns[i])
  <2>1. ASSUME NEW i \in DOMAIN vs PROVE Listed(vs[i])
    BY <1>1 DEF Range
  <2> QED
    BY <1>3, <2>1, VectorPrinted
<1>6. SetOf(n) = {VectorOf(ns[i]) : i \in DOMAIN ns}
  BY <1>4 DEF SetOf
<1>7. SetOf(n) = S
  BY <1>1, <1>3, <1>5, <1>6 DEF Range
<1>8. ~ SetThrows(n)
  BY <1>3, <1>4, <1>5 DEF SetThrows
<1> QED
  BY <1>7, <1>8 DEF n

(* A map of sets of vectors is what its text is read as.                   *)
LEMMA MapPrinted ==
  ASSUME NEW f, IsGroups(f)
  PROVE  MapOf(PrintMap(f)) = f /\ ~ MapThrows(PrintMap(f))
<1> DEFINE keys == SetToSeq(DOMAIN f)
           ps == [i \in DOMAIN keys |-> Pair(keys[i], PrintSet(f[keys[i]]))]
           n == PrintMap(f)
<1>1. Listed(keys) /\ Range(keys) = DOMAIN f
  BY SetToSeqLists DEF Listed, IsGroups
<1>2. n = IF keys = <<>> THEN Null ELSE Map(ps)
  BY DEF PrintMap
<1> HIDE DEF keys, n
<1>3. Listed(ps) /\ DOMAIN ps = DOMAIN keys /\ \A i \in DOMAIN keys : ps[i] = Pair(keys[i], PrintSet(f[keys[i]]))
  <2>1. ps = [i \in DOMAIN keys |-> ps[i]]
    OBVIOUS
  <2> QED
    BY <1>1, <2>1, FunctionListed
<1>4. \A i \in DOMAIN ps : ps[i].key = keys[i] /\ ps[i].node = PrintSet(f[keys[i]]) /\ keys[i] \in DOMAIN f
  BY <1>1, <1>3 DEF Pair, Range
<1> HIDE DEF ps
<1>5. Pairs(n) = ps /\ n.kind # "list"
  <2>1. CASE keys = <<>>
    <3>1. ps = <<>>
      BY <1>3, <2>1 DEF Listed
    <3> QED
      BY <1>2, <2>1, <3>1 DEF Pairs, Null
  <2>2. CASE keys # <<>>
    <3>1. n.kind = "map" /\ n.of = ps
      BY <1>2, <2>2 DEF Map
    <3> QED
      BY <3>1 DEF Pairs
  <2> QED
    BY <2>1, <2>2
<1>6. {ps[i].key : i \in DOMAIN ps} = DOMAIN f
  BY <1>1, <1>3, <1>4 DEF Range
<1>7. ASSUME NEW k \in DOMAIN f
      PROVE  SetOf(ps[SelectInSeq(ps, LAMBDA q : q.key = k)].node) = f[k]
  <2>1. ps \in Seq(Range(ps)) /\ DOMAIN ps = 1 .. Len(ps)
    BY <1>3 DEF Listed
  <2>2. \E i \in 1 .. Len(ps) : ps[i].key = k
    BY <1>6, <2>1
  <2>3. PICK j \in 1 .. Len(ps) : SelectInSeq(ps, LAMBDA q : q.key = k) = j /\ ps[j].key = k
    BY <2>1, <2>2, SelectKey
  <2>4. ps[j].node = PrintSet(f[k])
    BY <1>4, <2>1, <2>3
  <2>5. SetOf(PrintSet(f[k])) = f[k]
    BY SetPrinted DEF IsGroups
  <2> QED
    BY <2>3, <2>4, <2>5
<1>8. MapOf(n) = f
  <2>1. MapOf(n) = [k \in {ps[i].key : i \in DOMAIN ps} |->
                      SetOf(ps[SelectInSeq(ps, LAMBDA q : q.key = k)].node)]
    BY <1>5 DEF MapOf
  <2>2. f = [k \in DOMAIN f |-> f[k]]
    BY DEF IsGroups
  <2> QED
    BY <1>6, <1>7, <2>1, <2>2
<1>9. ~ MapThrows(n)
  <2>1. ASSUME NEW i \in DOMAIN ps PROVE ~ SetThrows(ps[i].node)
    <3>1. IsFiniteSet(f[keys[i]]) /\ \A v \in f[keys[i]] : Listed(v)
      BY <1>4 DEF IsGroups
    <3> QED
      BY <1>4, <3>1, SetPrinted
  <2> QED
    BY <1>5, <2>1 DEF MapThrows
<1> QED
  BY <1>8, <1>9 DEF n

(* What a document's map is read as.                                       *)
LEMMA MapRead ==
  ASSUME NEW n, MapNode(n)
  PROVE  IsGroups(MapOf(n))
<1> DEFINE f == MapOf(n)
           keys == {Pairs(n)[i].key : i \in DOMAIN Pairs(n)}
<1>1. Listed(Pairs(n))
  BY EmptyListed DEF MapNode, Pairs
<1>2. IsFiniteSet(keys)
  <2> DEFINE ks == [i \in DOMAIN Pairs(n) |-> Pairs(n)[i].key]
  <2>1. ks = [i \in DOMAIN Pairs(n) |-> ks[i]] /\ keys = Range(ks)
    BY DEF Range
  <2> HIDE DEF ks, keys
  <2> QED
    BY <1>1, <2>1, FunctionListed, RangeFinite
<1>3. f = [k \in keys |-> SetOf(Pairs(n)[SelectInSeq(Pairs(n), LAMBDA q : q.key = k)].node)]
  BY DEF MapOf
<1>4. ASSUME NEW i \in DOMAIN Pairs(n)
      PROVE  /\ IsFiniteSet(SetOf(Pairs(n)[i].node))
             /\ \A v \in SetOf(Pairs(n)[i].node) : Listed(v)
  <2> DEFINE m == Pairs(n)[i].node
  <2>1. SetNode(m)
    BY DEF MapNode, Pairs
  <2> HIDE DEF m
  <2>2. Listed(Elements(m))
    <3>1. CASE m.kind = "list"
      BY <2>1, <3>1 DEF SetNode, Elements
    <3>2. CASE m.kind = "map"
      <4>1. Elements(m) = [k \in DOMAIN m.of |-> Null]
        BY <3>2 DEF Elements
      <4>2. Listed(m.of) /\ Elements(m) = [k \in DOMAIN m.of |-> Elements(m)[k]]
        BY <2>1, <4>1 DEF SetNode
      <4> QED
        BY <4>2, FunctionListed
    <3>3. CASE m.kind # "list" /\ m.kind # "map"
      BY <3>3, EmptyListed DEF Elements
    <3> QED
      BY <3>1, <3>2, <3>3
  <2>3. IsFiniteSet(SetOf(m))
    <3> DEFINE vs == [k \in DOMAIN Elements(m) |-> VectorOf(Elements(m)[k])]
    <3>1. vs = [k \in DOMAIN Elements(m) |-> vs[k]] /\ SetOf(m) = Range(vs)
      BY DEF SetOf, Range
    <3> HIDE DEF vs
    <3> QED
      BY <2>2, <3>1, FunctionListed, RangeFinite
  <2>4. ASSUME NEW v \in SetOf(m) PROVE Listed(v)
    <3>1. PICK k \in DOMAIN Elements(m) : v = VectorOf(Elements(m)[k])
      BY DEF SetOf
    <3> DEFINE e == Elements(m)[k]
    <3>2. Listed(e.of) \/ e.kind = "null"
      <4>1. CASE m.kind = "list"
        BY <2>1, <4>1 DEF SetNode, Elements
      <4>2. CASE m.kind = "map"
        BY <4>2 DEF Elements, Null
      <4>3. CASE m.kind # "list" /\ m.kind # "map"
        BY <4>3 DEF Elements
      <4> QED
        BY <4>1, <4>2, <4>3
    <3> HIDE DEF e
    <3>3. Listed(Elements(e))
      <4>1. CASE e.kind = "list"
        BY <3>2, <4>1 DEF Elements
      <4>2. CASE e.kind = "map"
        <5>1. Elements(e) = [j \in DOMAIN e.of |-> Null]
          BY <4>2 DEF Elements
        <5>2. Listed(e.of) /\ Elements(e) = [j \in DOMAIN e.of |-> Elements(e)[j]]
          BY <3>2, <4>2, <5>1
        <5> QED
          BY <5>2, FunctionListed
      <4>3. CASE e.kind # "list" /\ e.kind # "map"
        BY <4>3, EmptyListed DEF Elements
      <4> QED
        BY <4>1, <4>2, <4>3
    <3>4. VectorOf(e) = [j \in DOMAIN Elements(e) |-> VectorOf(e)[j]]
      BY DEF VectorOf
    <3> QED
      BY <3>1, <3>3, <3>4, FunctionListed DEF e
  <2> QED
    BY <2>3, <2>4 DEF m
<1>5. ASSUME NEW k \in keys
      PROVE  IsFiniteSet(f[k]) /\ \A v \in f[k] : Listed(v)
  <2>1. Pairs(n) \in Seq(Range(Pairs(n))) /\ DOMAIN Pairs(n) = 1 .. Len(Pairs(n))
    BY <1>1 DEF Listed
  <2>2. \E i \in 1 .. Len(Pairs(n)) : Pairs(n)[i].key = k
    BY <2>1
  <2>3. PICK j \in 1 .. Len(Pairs(n)) : SelectInSeq(Pairs(n), LAMBDA q : q.key = k) = j /\ Pairs(n)[j].key = k
    <3> HIDE DEF keys
    <3> QED
      BY <2>1, <2>2, SelectKey
  <2>4. f[k] = SetOf(Pairs(n)[j].node)
    BY <1>3, <2>3
  <2> HIDE DEF f
  <2> QED
    BY <1>4, <2>1, <2>4
<1>6. DOMAIN f = keys /\ f = [k \in DOMAIN f |-> f[k]]
  BY <1>3
<1> HIDE DEF f, keys
<1> QED
  BY <1>2, <1>5, <1>6 DEF IsGroups, f

(* An appender of a definition: a file has a name, the console has none.   *)
FileFits(a) == \/ a.type = 1 /\ a.file # NoText
               \/ a.type = 2 /\ a.file = NoText
Plain(a) == [type |-> a.type, level |-> UNKNOW, formatter |-> a.formatter, file |-> a.file]

IsDefinition(d) ==
  /\ d = [level |-> d.level, formatter |-> d.formatter, appenders |-> d.appenders]
  /\ d.level \in 0 .. 5 /\ Listed(d.formatter) /\ Listed(d.appenders)
  /\ \A i \in DOMAIN d.appenders : d.appenders[i] = Plain(d.appenders[i]) /\ FileFits(d.appenders[i])

IsConfig(f) ==
  /\ f = [n \in DOMAIN f |-> f[n]] /\ DOMAIN f \subseteq LogNames
  /\ \A n \in DOMAIN f : IsDefinition(f[n])

(* Levels and their names.                                                 *)
LEMMA LevelRead ==
  /\ \A str : from_string(str) \in 0 .. 5
  /\ \A l \in 0 .. 5 : from_string(IF l = UNKNOW THEN NoText ELSE to_string(l)) = l
<1>1. /\ DOMAIN LevelNames = 1 .. 5 /\ LevelNames[1] = "DEBUG" /\ LevelNames[2] = "INFO"
      /\ LevelNames[3] = "WARN" /\ LevelNames[4] = "ERROR" /\ LevelNames[5] = "FATAL"
  BY DEF LevelNames
<1>2. ASSUME NEW str PROVE from_string(str) \in 0 .. 5
  <2>1. CASE \E l \in DOMAIN LevelNames : LevelNames[l] = str
    <3>1. from_string(str) \in DOMAIN LevelNames
      BY <2>1 DEF from_string
    <3> QED
      BY <1>1, <3>1
  <2>2. CASE ~ \E l \in DOMAIN LevelNames : LevelNames[l] = str
    BY <2>2 DEF from_string, UNKNOW
  <2> QED
    BY <2>1, <2>2
<1>3. NoText \notin {"DEBUG", "INFO", "WARN", "ERROR", "FATAL"}
  BY Zenon DEF NoText
<1>4. \A i, k \in 1 .. 5 : LevelNames[i] = LevelNames[k] => i = k
  BY <1>1
<1>5. \A i \in 1 .. 5 : LevelNames[i] \in {"DEBUG", "INFO", "WARN", "ERROR", "FATAL"}
  BY <1>1
<1>6. from_string(NoText) = 0
  <2>1. ~ \E l \in DOMAIN LevelNames : LevelNames[l] = NoText
    BY <1>1, <1>3, <1>5
  <2> QED
    BY <2>1 DEF from_string, UNKNOW
<1>7. ASSUME NEW l \in 1 .. 5 PROVE from_string(to_string(l)) = l
  <2>1. to_string(l) = LevelNames[l]
    BY <1>1 DEF to_string
  <2> DEFINE m == CHOOSE k \in DOMAIN LevelNames : LevelNames[k] = LevelNames[l]
  <2>2. l \in DOMAIN LevelNames
    BY <1>1
  <2>3. m \in DOMAIN LevelNames /\ LevelNames[m] = LevelNames[l]
    BY <2>2
  <2>4. from_string(LevelNames[l]) = m
    BY <2>2 DEF from_string
  <2> HIDE DEF m
  <2> QED
    BY <1>1, <1>4, <2>1, <2>3, <2>4
<1>8. ASSUME NEW l \in 0 .. 5
      PROVE  from_string(IF l = UNKNOW THEN NoText ELSE to_string(l)) = l
  <2>1. CASE l = 0
    BY <1>6, <2>1 DEF UNKNOW
  <2>2. CASE l # 0
    <3>1. l \in 1 .. 5
      BY <2>2
    <3> QED
      BY <1>7, <2>2, <3>1 DEF UNKNOW
  <2> QED
    BY <2>1, <2>2
<1> QED
  BY <1>2, <1>8

(* An appender's entry gives nothing, or one appender as it should be.     *)
LEMMA AppenderRead ==
  ASSUME NEW a
  PROVE  \/ ParseAppender(a) = <<>>
         \/ \E x : ParseAppender(a) = <<x>> /\ x = Plain(x) /\ FileFits(x)
<1>1. CASE a.type = "FileLogAppender" /\ a.file # NoText
  <2> DEFINE x == [type |-> 1, level |-> UNKNOW, formatter |-> a.formatter, file |-> a.file]
  <2>1. ParseAppender(a) = <<x>>
    BY <1>1 DEF ParseAppender
  <2>2. x = Plain(x) /\ FileFits(x)
    BY <1>1 DEF Plain, FileFits
  <2> QED
    BY <2>1, <2>2
<1>2. CASE ~ (a.type = "FileLogAppender" /\ a.file # NoText) /\ a.type = "StdoutLogAppender"
  <2> DEFINE x == [type |-> 2, level |-> UNKNOW, formatter |-> a.formatter, file |-> NoText]
  <2>1. ParseAppender(a) = <<x>>
    BY <1>2 DEF ParseAppender
  <2>2. x = Plain(x) /\ FileFits(x)
    BY DEF Plain, FileFits
  <2> QED
    BY <2>1, <2>2
<1>3. CASE ~ (a.type = "FileLogAppender" /\ a.file # NoText) /\ a.type # "StdoutLogAppender"
  BY <1>3 DEF ParseAppender
<1> QED
  BY <1>1, <1>2, <1>3

(* A definition's appenders are as they should be.                         *)
LEMMA AppendersRead ==
  ASSUME NEW aps, Listed(aps)
  PROVE  /\ Listed(ParseAppenders(aps))
         /\ \A i \in DOMAIN ParseAppenders(aps) :
              ParseAppenders(aps)[i] = Plain(ParseAppenders(aps)[i]) /\ FileFits(ParseAppenders(aps)[i])
<1> DEFINE A == {x \in UNION {Range(ParseAppender(aps[i])) : i \in DOMAIN aps} : x = Plain(x) /\ FileFits(x)}
           s == [i \in DOMAIN aps |-> ParseAppender(aps[i])]
           ps == ParseAppenders(aps)
<1>1. Len(aps) \in Nat /\ DOMAIN aps = 1 .. Len(aps)
  BY ListedShape
<1>2. ASSUME NEW i \in DOMAIN aps PROVE ParseAppender(aps[i]) \in Seq(A)
  <2>1. CASE ParseAppender(aps[i]) = <<>>
    BY <2>1
  <2>2. CASE ParseAppender(aps[i]) # <<>>
    <3>1. PICK x : ParseAppender(aps[i]) = <<x>> /\ x = Plain(x) /\ FileFits(x)
      BY <2>2, AppenderRead
    <3>2. x \in Range(ParseAppender(aps[i]))
      BY <3>1 DEF Range
    <3>3. x \in A
      BY <3>1, <3>2
    <3> HIDE DEF A
    <3> QED
      BY <3>1, <3>3
  <2> QED
    BY <2>1, <2>2
<1>3. s \in [1 .. Len(aps) -> Seq(A)]
  <2> HIDE DEF A
  <2> QED
    BY <1>1, <1>2
<1>4. ps = FlattenSeq(s)
  BY DEF ParseAppenders
<1> HIDE DEF s, ps
<1>5. ps \in Seq(A)
  <2> HIDE DEF A
  <2>1. s \in Seq(Seq(A))
    BY <1>1, <1>3, FunctionIsSeq
  <2> QED
    BY <1>4, <2>1, FlattenTyped
<1>6. \A i \in DOMAIN ps : ps[i] \in A
  <2> HIDE DEF A
  <2> QED
    BY <1>5
<1>7. Listed(ps)
  <2> HIDE DEF A
  <2> QED
    BY <1>5, SeqOfRange DEF Listed
<1> QED
  BY <1>6, <1>7 DEF ps

(* Appenders that fit are read back, but for their level.                  *)
LEMMA AppendersPrinted ==
  ASSUME NEW aps, Listed(aps), \A i \in DOMAIN aps : FileFits(aps[i])
  PROVE  ParseAppenders([k \in DOMAIN aps |-> PrintAppender(aps[k])]) = [k \in DOMAIN aps |-> Plain(aps[k])]
<1> DEFINE text == [k \in DOMAIN aps |-> PrintAppender(aps[k])]
           read == [k \in DOMAIN aps |-> Plain(aps[k])]
<1>1. Len(aps) \in Nat /\ DOMAIN aps = 1 .. Len(aps)
  BY ListedShape
<1>2. ASSUME NEW k \in DOMAIN aps PROVE ParseAppender(PrintAppender(aps[k])) = <<Plain(aps[k])>>
  <2> DEFINE a == aps[k]
             b == PrintAppender(a)
  <2>1. /\ b.type = (IF a.type = 1 THEN "FileLogAppender" ELSE "StdoutLogAppender")
        /\ b.file = a.file /\ b.formatter = a.formatter
    BY DEF PrintAppender
  <2>2. FileFits(a)
    OBVIOUS
  <2> HIDE DEF a, b
  <2>3. CASE a.type = 1 /\ a.file # NoText
    <3>1. b.type = "FileLogAppender" /\ b.file # NoText
      BY <2>1, <2>3
    <3> QED
      BY <2>1, <2>3, <3>1 DEF ParseAppender, Plain, a, b
  <2>4. CASE a.type = 2 /\ a.file = NoText
    <3>1. b.type = "StdoutLogAppender" /\ b.file = NoText
      BY <2>1, <2>4
    <3> QED
      BY <2>1, <2>4, <3>1 DEF ParseAppender, Plain, a, b
  <2> QED
    BY <2>2, <2>3, <2>4 DEF FileFits
<1>3. Listed(read) /\ DOMAIN read = DOMAIN aps /\ Len(read) = Len(aps)
  <2>1. read = [k \in DOMAIN aps |-> read[k]]
    OBVIOUS
  <2> QED
    BY <2>1, FunctionListed
<1>5. DOMAIN text = DOMAIN aps /\ \A k \in DOMAIN aps : text[k] = PrintAppender(aps[k]) /\ read[k] = Plain(aps[k])
  OBVIOUS
<1> HIDE DEF text, read
<1>6. [k \in DOMAIN text |-> ParseAppender(text[k])] = [k \in 1 .. Len(read) |-> <<read[k]>>]
  BY <1>1, <1>2, <1>3, <1>5
<1>7. FlattenSeq([k \in 1 .. Len(read) |-> <<read[k]>>]) = read
  BY <1>3, FlattenSingles DEF Listed
<1>8. ParseAppenders(text) = read
  BY <1>6, <1>7 DEF ParseAppenders
<1> QED
  BY <1>8 DEF text, read

(* A list of entries, one for each name of a set, in their order.          *)
LEMMA EntriesRead ==
  ASSUME NEW S, S \subseteq LogNames, NEW e, \A n \in S : e[n].name = n,
         NEW T, T = [i \in DOMAIN InNameOrder(S) |-> e[InNameOrder(S)[i]]]
  PROVE  /\ Parses(T) /\ DOMAIN ParseLogs(T) = S
         /\ ParseLogs(T) = [n \in S |-> ParseDefine(e[n])]
<1> DEFINE names == InNameOrder(S)
<1>1. Listed(names) /\ Range(names) = S
  BY InNameOrderLists DEF Listed
<1>2. T = [i \in DOMAIN names |-> e[names[i]]]
  OBVIOUS
<1> HIDE DEF names
<1>3. Listed(T) /\ DOMAIN T = DOMAIN names /\ \A i \in DOMAIN names : names[i] \in S /\ T[i] = e[names[i]] /\ T[i].name = names[i]
  <2>1. T = [i \in DOMAIN names |-> T[i]]
    BY <1>2
  <2>2. \A i \in DOMAIN names : names[i] \in S /\ T[i] = e[names[i]]
    BY <1>1, <1>2 DEF Range
  <2> QED
    BY <1>1, <2>1, <2>2, FunctionListed
<1>4. {T[i].name : i \in DOMAIN T} = S
  BY <1>1, <1>3 DEF Range
<1>5. ASSUME NEW n \in S
      PROVE  T[FirstNamed(T, n)] = e[n]
  <2>1. \E i \in DOMAIN T : T[i].name = n
    BY <1>4
  <2>2. FirstNamed(T, n) \in DOMAIN T /\ T[FirstNamed(T, n)].name = n
    BY <1>3, <2>1, SelectName
  <2> QED
    BY <1>3, <2>2
<1>6. Parses(T)
  <2>1. NoText \notin LogNames
    BY ConfigAssumption
  <2> QED
    BY <1>3, <2>1 DEF Parses
<1>7. ParseLogs(T) = [n \in {T[i].name : i \in DOMAIN T} |->
                        ParseDefine(T[FirstNamed(T, n)])]
  BY DEF ParseLogs, FirstNamed
<1>8. ParseLogs(T) = [n \in S |-> ParseDefine(e[n])]
  BY <1>4, <1>5, <1>7
<1> QED
  BY <1>6, <1>8

(* The value of a variable, and what the loggers hold.                     *)
Holding == LogStages \cup {"compare", "notify", "store"}

IsValue(v, x) == IF v = "logs" THEN IsConfig(x) ELSE IsGroups(x)
Accepted(p)   == Listed(p) /\ ~ is_error(p)
Fits(a)       == FileFits(a) /\ Accepted(a.formatter)

IsLogger(n) ==
  /\ level[n] \in 0 .. 5 \cup {NEVER} /\ Accepted(formatter[n])
  /\ \A i \in DOMAIN m_appender[n] : Fits(m_appender[n][i])

ValuesInv ==
  /\ m_loggers \subseteq LogNames /\ DOMAIN formatter = LogNames
  /\ \A v \in Vars : IsValue(v, m_val[v])
  /\ \A s \in Setters : pc[s] \in Holding => IsValue(Key(s), val[s])
  /\ \A n \in LogNames : IsLogger(n)

(* A sequence is the function of its elements.                             *)
LEMMA ListedFunction ==
  ASSUME NEW s, Listed(s)
  PROVE  s = [i \in DOMAIN s |-> s[i]]
<1>1. s \in Seq(Range(s)) /\ DOMAIN s = 1 .. Len(s)
  BY ListedShape
<1>2. s \in [1 .. Len(s) -> Range(s)]
  BY <1>1
<1> QED
  BY <1>1, <1>2

(* A definition is read back from its entry.                               *)
LEMMA DefinitionPrinted ==
  ASSUME NEW d, IsDefinition(d), NEW e,
         e.level = IF d.level = UNKNOW THEN NoText ELSE to_string(d.level),
         e.formatter = d.formatter,
         e.appenders = [k \in DOMAIN d.appenders |-> PrintAppender(d.appenders[k])]
  PROVE  ParseDefine(e) = d
<1>1. from_string(e.level) = d.level
  BY LevelRead DEF IsDefinition
<1>2. ParseAppenders(e.appenders) = d.appenders
  <2> DEFINE aps == d.appenders
  <2>1. Listed(aps) /\ \A i \in DOMAIN aps : FileFits(aps[i]) /\ aps[i] = Plain(aps[i])
    BY DEF IsDefinition
  <2>2. e.appenders = [k \in DOMAIN aps |-> PrintAppender(aps[k])]
    OBVIOUS
  <2> HIDE DEF aps
  <2>3. ParseAppenders(e.appenders) = [k \in DOMAIN aps |-> Plain(aps[k])]
    BY <2>1, <2>2, AppendersPrinted
  <2>4. aps = [k \in DOMAIN aps |-> aps[k]]
    BY <2>1, ListedFunction
  <2> QED
    BY <2>1, <2>3, <2>4 DEF aps
<1> QED
  BY <1>1, <1>2 DEF ParseDefine, IsDefinition

(* A value of "logs" is read back from its text.                           *)
LEMMA ConfigPrinted ==
  ASSUME NEW f, IsConfig(f)
  PROVE  Parses(PrintLogs(f)) /\ ParseLogs(PrintLogs(f)) = f
<1> DEFINE S == DOMAIN f
           names == InNameOrder(S)
           e == [n \in S |->
                  [name |-> n, level |-> IF f[n].level = UNKNOW THEN NoText ELSE to_string(f[n].level),
                   formatter |-> f[n].formatter,
                   appenders |-> [k \in DOMAIN f[n].appenders |-> PrintAppender(f[n].appenders[k])]]]
           T == PrintLogs(f)
<1>1. S \subseteq LogNames
  BY DEF IsConfig
<1>2. T = [i \in DOMAIN names |-> e[names[i]]]
  <2>1. Range(names) = S
    BY <1>1, InNameOrderLists
  <2>2. \A i \in DOMAIN names : names[i] \in S
    BY <2>1 DEF Range
  <2> HIDE DEF names, S
  <2> QED
    BY <2>2 DEF PrintLogs, names, S
<1>3. \A n \in S : e[n].name = n
  OBVIOUS
<1>4. ASSUME NEW n \in S PROVE ParseDefine(e[n]) = f[n]
  <2>1. /\ e[n].level = IF f[n].level = UNKNOW THEN NoText ELSE to_string(f[n].level)
        /\ e[n].formatter = f[n].formatter
        /\ e[n].appenders = [k \in DOMAIN f[n].appenders |-> PrintAppender(f[n].appenders[k])]
    OBVIOUS
  <2>2. IsDefinition(f[n])
    BY DEF IsConfig
  <2> HIDE DEF e
  <2> QED
    BY <2>1, <2>2, DefinitionPrinted
<1> HIDE DEF e, T
<1>5. Parses(T) /\ ParseLogs(T) = [n \in S |-> ParseDefine(e[n])]
  BY <1>1, <1>2, <1>3, EntriesRead
<1>6. f = [n \in S |-> f[n]]
  BY DEF IsConfig
<1>7. ParseLogs(T) = f
  BY <1>4, <1>5, <1>6
<1> QED
  BY <1>5, <1>7 DEF T

(* What the text of "logs" in a document is read as.                       *)
LEMMA ConfigRead ==
  ASSUME NEW node \in Nodes, node.key = "logs", ~ Throws("logs", node.value)
  PROVE  IsConfig(FromStr("logs", node.value))
<1> DEFINE es == node.value
           names == {es[i].name : i \in DOMAIN es}
           f == ParseLogs(es)
<1>1. LogsNode(node)
  <2>1. PICK d \in Docs : node \in Range(d)
    BY DEF Nodes
  <2>2. PICK i \in DOMAIN d : node = d[i]
    BY <2>1 DEF Range
  <2> QED
    BY <2>2, ConfigAssumption
<1>2. /\ Listed(es)
      /\ \A i \in DOMAIN es : /\ es[i].name \in LogNames /\ Listed(es[i].formatter)
                              /\ Listed(es[i].appenders)
  BY <1>1 DEF LogsNode, Throws, Parses
<1>3. f = [n \in names |-> ParseDefine(es[FirstNamed(es, n)])]
  BY DEF ParseLogs, FirstNamed
<1> HIDE DEF es, f
<1>4. ASSUME NEW n \in names PROVE IsDefinition(ParseDefine(es[FirstNamed(es, n)]))
  <2>1. \E i \in DOMAIN es : es[i].name = n
    OBVIOUS
  <2>2. FirstNamed(es, n) \in DOMAIN es
    BY <1>2, <2>1, SelectName
  <2>3. PICK j \in DOMAIN es : FirstNamed(es, n) = j
    BY <2>2
  <2> DEFINE e == es[j]
             d == ParseDefine(e)
             aps == ParseAppenders(e.appenders)
  <2>4. Listed(e.formatter) /\ Listed(e.appenders)
    BY <1>2, <2>1
  <2>5. d = [level |-> from_string(e.level), formatter |-> e.formatter, appenders |-> aps]
    BY DEF ParseDefine
  <2> HIDE DEF e, d
  <2>6. Listed(aps) /\ \A i \in DOMAIN aps : aps[i] = Plain(aps[i]) /\ FileFits(aps[i])
    BY <2>4, AppendersRead
  <2> HIDE DEF aps
  <2>7. from_string(e.level) \in 0 .. 5
    BY LevelRead
  <2>8. IsDefinition(d)
    BY <2>4, <2>5, <2>6, <2>7 DEF IsDefinition
  <2> QED
    BY <2>3, <2>8 DEF d, e
<1>5. names \subseteq LogNames
  BY <1>2
<1> HIDE DEF names
<1>6. IsConfig(f)
  BY <1>3, <1>4, <1>5 DEF IsConfig
<1> QED
  BY <1>6 DEF FromStr, f, es

(* What the text of the LoggerManager is read as.                          *)
LEMMA LoggersPrinted ==
  ASSUME ValuesInv, Typed, NEW n \in m_loggers
  PROVE  LET read == ParseLogs(ManagerText)[n] IN
         /\ level[n] # NEVER => read.level = level[n]
         /\ read.formatter = formatter[n]
         /\ TypeAndFile(read.appenders) = TypeAndFile(m_appender[n])
<1> DEFINE S == m_loggers
           names == InNameOrder(S)
           e == [m \in S |-> LoggerText(m)]
           aps == m_appender[n]
           T == ManagerText
<1>1. S \subseteq LogNames /\ n \in LogNames
  BY DEF ValuesInv
<1>2. T = [i \in DOMAIN names |-> e[names[i]]]
  <2>1. Range(names) = S
    BY <1>1, InNameOrderLists
  <2>2. \A i \in DOMAIN names : names[i] \in S
    BY <2>1 DEF Range
  <2> HIDE DEF names
  <2> QED
    BY <2>2 DEF ManagerText, names
<1>3. \A m \in S : e[m].name = m
  BY DEF LoggerText
<1>4. /\ e[n].level = IF level[n] = UNKNOW THEN NoText ELSE to_string(level[n])
      /\ e[n].formatter = formatter[n]
      /\ e[n].appenders = [k \in DOMAIN aps |-> PrintAppender(aps[k])]
  BY DEF LoggerText, AppenderText
<1> HIDE DEF e, T
<1>5. ParseLogs(T) = [m \in S |-> ParseDefine(e[m])]
  BY <1>1, <1>2, <1>3, EntriesRead
<1>6. ParseLogs(T)[n] = ParseDefine(e[n])
  BY <1>5
<1>7. level[n] # NEVER => from_string(e[n].level) = level[n]
  <2>1. level[n] # NEVER => level[n] \in 0 .. 5
    BY <1>1 DEF ValuesInv, IsLogger
  <2> QED
    BY <1>4, <2>1, LevelRead
<1>8. Listed(aps) /\ \A i \in DOMAIN aps : FileFits(aps[i])
  <2>1. Listed(aps)
    BY <1>1 DEF Typed, Listed
  <2> QED
    BY <1>1, <2>1 DEF ValuesInv, IsLogger, Fits
<1> HIDE DEF aps
<1>9. ParseAppenders(e[n].appenders) = [k \in DOMAIN aps |-> Plain(aps[k])]
  BY <1>4, <1>8, AppendersPrinted
<1>10. TypeAndFile(ParseAppenders(e[n].appenders)) = TypeAndFile(aps)
  BY <1>9 DEF TypeAndFile, Plain
<1> QED
  BY <1>4, <1>6, <1>7, <1>10 DEF ParseDefine, T, aps

------------------------------------------------------------------------------
(***************************************************************************)
(* What values and loggers hold                                            *)
(***************************************************************************)
(* The default values and the root logger are as they should be.           *)
LEMMA ValuesInit == Init => ValuesInv
<1> SUFFICES ASSUME Init PROVE ValuesInv
  OBVIOUS
<1>1. IsConfig(<<>>)
  <2>1. <<>> = [n \in DOMAIN <<>> |-> <<>>[n]] /\ DOMAIN <<>> = {}
    OBVIOUS
  <2> QED
    BY <2>1 DEF IsConfig
<1>2. \A v \in Vars : IsValue(v, m_val[v])
  BY <1>1, ConfigAssumption DEF Init, IsValue
<1>3. ASSUME NEW n \in LogNames PROVE IsLogger(n)
  <2> DEFINE a == [type |-> 2, level |-> DEBUG, formatter |-> Default, file |-> NoText]
  <2>1. Accepted(Default)
    BY ConfigAssumption DEF Accepted
  <2>2. Fits(a)
    BY <2>1 DEF Fits, FileFits
  <2> HIDE DEF a
  <2>3. m_appender[n] = <<>> \/ m_appender[n] = <<a>>
    BY DEF Init, a
  <2>4. \A i \in DOMAIN m_appender[n] : Fits(m_appender[n][i])
    BY <2>2, <2>3
  <2>5. level[n] = 1 /\ formatter[n] = Default
    BY DEF Init, DEBUG
  <2> QED
    BY <2>1, <2>4, <2>5 DEF IsLogger
<1>4. m_loggers \subseteq LogNames /\ DOMAIN formatter = LogNames
  BY ConfigAssumption DEF Init
<1>5. \A s \in Setters : pc[s] \notin Holding
  BY DEF Init, Holding, LogStages
<1> QED
  BY <1>2, <1>3, <1>4, <1>5 DEF ValuesInv

(* A step of a setter needs to be looked at only for that setter.          *)
LEMMA ValuesStep ==
  ASSUME ValuesInv, NEW s \in Setters, Only(s),
         m_loggers' \subseteq LogNames, DOMAIN formatter' = LogNames,
         \A v \in Vars : IsValue(v, m_val'[v]),
         pc'[s] \in Holding => IsValue(Key(s)', val'[s]),
         \A n \in LogNames : IsLogger(n)'
  PROVE  ValuesInv'
<1>1. ASSUME NEW t \in Setters, pc'[t] \in Holding PROVE IsValue(Key(t)', val'[t])
  <2>1. CASE t = s
    BY <1>1, <2>1
  <2>2. CASE t # s
    <3>1. pc'[t] = pc[t] /\ Key(t)' = Key(t) /\ val'[t] = val[t]
      BY <2>2 DEF Only, Key
    <3> QED
      BY <1>1, <3>1 DEF ValuesInv
  <2> QED
    BY <2>1, <2>2
<1> QED
  BY <1>1 DEF ValuesInv

(* Steps outside set_value.                                                *)
LEMMA ValuesAside ==
  ASSUME StageInv, ValuesInv,
         \/ \E w \in Writers : Writer(w)
         \/ \E u \in Users : add_listener(u) \/ read_value(u) \/ del_listener(u)
         \/ clear_listener \/ look_up \/ Crashed \/ UNCHANGED vars
  PROVE  ValuesInv'
<1>1. /\ \A s \in Setters : pc'[s] = pc[s]
      /\ UNCHANGED <<doc, val, m_val, level, m_appender>>
  BY SettersStay
<1>2. UNCHANGED formatter /\ m_loggers' \subseteq m_loggers \cup LogNames
  BY DEF Writer, LogLevelMacro, log, Printed, add_listener, read_value, del_listener,
         clear_listener, Unregister, look_up, Crashed,
         get_logger, vars, loggers
<1>3. \A n \in LogNames : IsLogger(n)'
  BY <1>1, <1>2 DEF IsLogger, ValuesInv
<1>4. \A s \in Setters : Key(s)' = Key(s)
  BY <1>1 DEF Key
<1> QED
  BY <1>1, <1>2, <1>3, <1>4 DEF ValuesInv

(* The value a node is read as is one of its variable.                     *)
LEMMA ValueRead ==
  ASSUME NEW node \in Nodes, ~ Throws(node.key, node.value)
  PROVE  IsValue(node.key, FromStr(node.key, node.value))
<1>1. CASE node.key = "logs"
  BY <1>1, ConfigRead DEF IsValue
<1>2. CASE node.key # "logs"
  <2>1. PICK d \in Docs : node \in Range(d)
    BY DEF Nodes
  <2>2. PICK i \in DOMAIN d : node = d[i]
    BY <2>1 DEF Range
  <2>3. MapNode(node.value)
    BY <1>2, <2>2, ConfigAssumption
  <2> QED
    BY <1>2, <2>3, MapRead DEF IsValue, FromStr
<1> QED
  BY <1>1, <1>2

(* Loading, and set_value without the listener of "logs".                  *)
LEMMA ValuesLoading ==
  ASSUME StageInv, ValuesInv, NEW s \in Setters,
         Loading(s) \/ \E d \in Docs : load_from_yaml(s, d)
  PROVE  ValuesInv'
<1> USE DEF conf, loggers, call, heard, history
<1>0. Only(s) /\ Typed /\ AtStage(s)
  BY OnlyOne DEF StageInv
<1>1. UNCHANGED <<m_loggers, level, formatter, m_appender>>
  BY DEF Loading, load_from_yaml, Skip, from_string_of, LoadDone, SetSame, SetCompare, Notify,
         Tell, NotifyThrows, Notified, Store, Assign
<1>2. /\ m_loggers' \subseteq LogNames /\ DOMAIN formatter' = LogNames
      /\ \A n \in LogNames : IsLogger(n)'
  BY <1>1 DEF ValuesInv, IsLogger
<1>3. CASE Skip(s) \/ LoadDone(s) \/ SetSame(s) \/ NotifyThrows(s) \/ \E d \in Docs : load_from_yaml(s, d)
  <2>1. pc'[s] \in {"idle", "next"} /\ UNCHANGED m_val
    BY <1>0, <1>3 DEF Typed, load_from_yaml, Skip, LoadDone, SetSame, NotifyThrows, Goto
  <2>2. pc'[s] \notin Holding
    BY <2>1 DEF Holding, LogStages
  <2> QED
    BY <1>0, <1>2, <2>1, <2>2, ValuesStep DEF ValuesInv
<1>4. CASE from_string_of(s)
  <2>1. /\ doc[s] # <<>> /\ ~ Throws(Key(s), Head(doc[s]).value) /\ UNCHANGED <<doc, m_val>>
        /\ val'[s] = FromStr(Key(s), Head(doc[s]).value)
    BY <1>0, <1>4 DEF Typed, from_string_of
  <2>2. Head(doc[s]) \in Nodes
    BY <1>0, <2>1 DEF Typed
  <2>3. IsValue(Key(s), val'[s]) /\ Key(s)' = Key(s)
    BY <2>1, <2>2, ValueRead DEF Key
  <2> QED
    BY <1>0, <1>2, <2>1, <2>3, ValuesStep DEF ValuesInv
<1>5. CASE SetCompare(s) \/ Notify(s) \/ Notified(s)
  <2>1. pc[s] \in {"compare", "notify"} /\ UNCHANGED <<doc, val, m_val>>
    BY <1>5 DEF SetCompare, Notify, Tell, Notified, Goto
  <2>2. pc[s] \in Holding /\ Key(s)' = Key(s)
    BY <2>1 DEF Holding, Key
  <2> QED
    BY <1>0, <1>2, <2>1, <2>2, ValuesStep DEF ValuesInv
<1>6. CASE Store(s)
  <2>1. /\ pc[s] = "store" /\ pc' = [pc EXCEPT ![s] = "next"]
        /\ m_val' = [m_val EXCEPT ![Key(s)] = val[s]]
    BY <1>6 DEF Store, Assign, Goto
  <2>2. pc[s] \in Holding /\ pc'[s] \notin Holding
    BY <1>0, <2>1 DEF Typed, Holding, LogStages
  <2>3. ASSUME NEW v \in Vars PROVE IsValue(v, m_val'[v])
    <3>1. m_val'[v] = IF v = Key(s) THEN val[s] ELSE m_val[v]
      BY <1>0, <2>1 DEF Typed
    <3> QED
      BY <2>2, <3>1 DEF ValuesInv
  <2> QED
    BY <1>0, <1>2, <2>2, <2>3, ValuesStep
<1> QED
  BY <1>3, <1>4, <1>5, <1>6 DEF Loading

(* The listener of "logs".                                                 *)
LEMMA ValuesReloading ==
  ASSUME StageInv, ValuesInv, NEW s \in Setters, Reloading(s)
  PROVE  ValuesInv'
<1> USE DEF conf, loggers, call, heard, history
<1>0. Only(s) /\ Typed /\ AtStage(s)
  BY OnlyOne, SMTT(30) DEF StageInv
<1>1. pc[s] \in LogStages /\ UNCHANGED <<m_val, doc, val>>
  BY DEF Reloading, ReloadUnchanged, ReloadNext, set_level, set_formatter, clear_appenders,
         add_appender, LoggerDone, Reloaded, RemoveNever, RemoveClear, Removed, Goto, LogStages
<1>2. Key(s) = "logs" /\ todo[s] \in Seq(LogNames) /\ Key(s)' = "logs" /\ IsConfig(val[s])
  <2>1. Key(s) = "logs" /\ todo[s] \in Seq(LogNames) /\ Key(s)' = Key(s)
    BY <1>0, <1>1 DEF AtStage, Key
  <2>2. pc[s] \in Holding
    BY <1>1 DEF Holding
  <2> QED
    BY <2>1, <2>2 DEF ValuesInv, IsValue
<1>3. /\ \A v \in Vars : IsValue(v, m_val'[v])
      /\ pc'[s] \in Holding => IsValue(Key(s)', val'[s])
  BY <1>1, <1>2 DEF ValuesInv, IsValue
<1> DEFINE n == Head(todo[s])
<1>4. ASSUME m_loggers' \subseteq LogNames, DOMAIN formatter' = LogNames,
             \A k \in LogNames : IsLogger(k)'
      PROVE  ValuesInv'
  BY <1>0, <1>3, <1>4, ValuesStep
<1>5. CASE ReloadUnchanged(s) \/ LoggerDone(s) \/ Reloaded(s) \/ Removed(s)
  <2>1. UNCHANGED <<m_loggers, level, formatter, m_appender>>
    BY <1>5 DEF ReloadUnchanged, LoggerDone, Reloaded, Removed
  <2> QED
    BY <1>4, <2>1 DEF ValuesInv, IsLogger
<1>6. todo[s] # <<>> => n \in LogNames /\ n \in Range(todo[s])
  BY <1>2, HeadIsIn
<1>7. pc[s] \in OneLogger => n \in LogNames /\ n \in DOMAIN val[s]
  <2>1. pc[s] \in OneLogger => todo[s] # <<>> /\ Range(todo[s]) \subseteq DOMAIN val[s]
    BY <1>0 DEF AtStage
  <2> QED
    BY <1>6, <2>1
<1>8. CASE ReloadNext(s)
  <2>1. todo[s] # <<>> /\ m_loggers' = m_loggers \cup {n} /\ UNCHANGED <<level, formatter, m_appender>>
    BY <1>8 DEF ReloadNext, get_logger
  <2> QED
    BY <1>4, <1>6, <2>1 DEF ValuesInv, IsLogger
<1>9. CASE set_level(s)
  <2>1. /\ pc[s] = "level" /\ UNCHANGED <<m_loggers, formatter, m_appender>>
        /\ level' = [level EXCEPT ![n] = val[s][n].level]
    BY <1>9 DEF set_level, Goto
  <2>2. n \in DOMAIN val[s]
    BY <1>7, <2>1 DEF OneLogger
  <2>3. val[s][n].level \in 0 .. 5
    BY <1>2, <2>2 DEF IsConfig, IsDefinition
  <2> HIDE DEF n
  <2>4. \A k \in LogNames : level'[k] = level[k] \/ level'[k] \in 0 .. 5
    BY <1>0, <2>1, <2>3 DEF Typed
  <2> QED
    BY <1>4, <2>1, <2>4 DEF ValuesInv, IsLogger
<1>10. CASE set_formatter(s)
  <2>1. /\ pc[s] = "formatter" /\ UNCHANGED <<m_loggers, level, m_appender>>
        /\ formatter' = [formatter EXCEPT ![n] =
             IF is_error(val[s][n].formatter) THEN @ ELSE val[s][n].formatter]
    BY <1>10 DEF set_formatter, Goto
  <2>2. n \in DOMAIN val[s]
    BY <1>7, <2>1 DEF OneLogger
  <2>3. Listed(val[s][n].formatter)
    BY <1>2, <2>2 DEF IsConfig, IsDefinition
  <2> HIDE DEF n
  <2>4. DOMAIN formatter' = LogNames
        /\ \A k \in LogNames : formatter'[k] = formatter[k] \/ Accepted(formatter'[k])
    BY <2>1, <2>3 DEF ValuesInv, Accepted
  <2> QED
    BY <1>4, <2>1, <2>4 DEF ValuesInv, IsLogger
<1>11. CASE clear_appenders(s) \/ RemoveClear(s)
  <2>1. /\ UNCHANGED <<m_loggers, level, formatter>>
        /\ m_appender' = [m_appender EXCEPT ![n] = <<>>]
    BY <1>11 DEF clear_appenders, RemoveClear
  <2> HIDE DEF n
  <2>2. \A k \in LogNames : m_appender'[k] = m_appender[k] \/ m_appender'[k] = <<>>
    BY <1>0, <2>1 DEF Typed
  <2>3. \A k \in LogNames : IsLogger(k)'
    <3> SUFFICES ASSUME NEW k \in LogNames PROVE IsLogger(k)'
      OBVIOUS
    <3>1. \A i \in DOMAIN m_appender'[k] : Fits(m_appender'[k][i])
      BY <2>2 DEF ValuesInv, IsLogger
    <3> QED
      BY <2>1, <3>1 DEF ValuesInv, IsLogger
  <2> QED
    BY <1>4, <2>1, <2>3 DEF ValuesInv
<1>12. CASE add_appender(s)
  <2> DEFINE d == val[s][n].appenders[placed[s] + 1]
             a == [type |-> d.type, level |-> d.level, formatter |-> formatter[n], file |-> d.file]
  <2>1. /\ pc[s] = "add" /\ placed[s] < Len(val[s][n].appenders)
        /\ UNCHANGED <<m_loggers, level, formatter>>
        /\ m_appender' = [m_appender EXCEPT ![n] = Append(m_appender[n], a)]
    BY <1>12 DEF add_appender
  <2>2. n \in LogNames /\ n \in DOMAIN val[s]
    BY <1>7, <2>1 DEF OneLogger
  <2>3. IsDefinition(val[s][n])
    BY <1>2, <2>2, SMTT(30) DEF IsConfig
  <2>4. Listed(val[s][n].appenders) /\ \A i \in DOMAIN val[s][n].appenders : FileFits(val[s][n].appenders[i])
    BY <2>3 DEF IsDefinition
  <2>5. placed[s] + 1 \in DOMAIN val[s][n].appenders
    <3>1. /\ Len(val[s][n].appenders) \in Nat
          /\ DOMAIN val[s][n].appenders = 1 .. Len(val[s][n].appenders)
      BY <2>4, ListedShape
    <3>2. placed[s] \in Nat
      BY <1>0 DEF Typed
    <3> DEFINE l == Len(val[s][n].appenders)
    <3>3. placed[s] + 1 \in 1 .. l
      <4>1. placed[s] < l /\ l \in Nat
        BY <2>1, <3>1
      <4> HIDE DEF l
      <4> QED
        BY <3>2, <4>1
    <3> QED
      BY <3>1, <3>3
  <2>6. FileFits(d)
    BY <2>4, <2>5
  <2> HIDE DEF d
  <2>7. Fits(a)
    <3>1. Accepted(formatter[n])
      BY <2>2 DEF ValuesInv, IsLogger
    <3> QED
      BY <2>6, <3>1 DEF Fits, FileFits
  <2> HIDE DEF a, n
  <2>8. m_appender[n] \in Seq(Range(m_appender[n]))
    BY <1>0, <2>2 DEF Typed
  <2>9. \A i \in DOMAIN Append(m_appender[n], a) :
           Append(m_appender[n], a)[i] = a \/ (i \in DOMAIN m_appender[n]
                                               /\ Append(m_appender[n], a)[i] = m_appender[n][i])
    BY <2>8
  <2>10. \A k \in LogNames : m_appender'[k] = IF k = n THEN Append(m_appender[n], a) ELSE m_appender[k]
    BY <1>0, <2>1 DEF Typed
  <2>11. ASSUME NEW k \in LogNames PROVE IsLogger(k)'
    <3>1. \A i \in DOMAIN m_appender[k] : Fits(m_appender[k][i])
      BY DEF ValuesInv, IsLogger
    <3>2. \A i \in DOMAIN m_appender'[k] : Fits(m_appender'[k][i])
      <4>1. CASE k = n
        BY <2>7, <2>9, <2>10, <3>1, <4>1
      <4>2. CASE k # n
        BY <2>10, <3>1, <4>2
      <4> QED
        BY <4>1, <4>2
    <3> QED
      BY <2>1, <3>2 DEF ValuesInv, IsLogger
  <2> QED
    BY <1>4, <2>1, <2>11 DEF ValuesInv
<1>13. CASE RemoveNever(s)
  <2>1. /\ UNCHANGED <<m_loggers, formatter, m_appender>>
        /\ level' = [level EXCEPT ![n] = NEVER]
    BY <1>13 DEF RemoveNever
  <2> HIDE DEF n
  <2>2. \A k \in LogNames : level'[k] = level[k] \/ level'[k] = NEVER
    BY <1>0, <2>1 DEF Typed
  <2> QED
    BY <1>4, <2>1, <2>2 DEF ValuesInv, IsLogger
<1> QED
  BY <1>5, <1>8, <1>9, <1>10, <1>11, <1>12, <1>13 DEF Reloading

(* Every step keeps what values and loggers hold.                          *)
LEMMA ValuesNext == StageInv /\ ValuesInv /\ [Next]_vars => ValuesInv'
BY ValuesAside, ValuesLoading, ValuesReloading DEF Next, SomeSetter, Setter, User
------------------------------------------------------------------------------
(***************************************************************************)
(* The theorems                                                            *)
(***************************************************************************)
ConfigInv == StageInv /\ OneAtATime /\ ListenersInv /\ LoggersInv /\ ValuesInv

(* Every setter is where its document, its value and what is left to be    *)
(* notified allow, calls of set_value that overlap are recorded, the       *)
(* listeners and the loggers are as far as the call under way has come,    *)
(* and values, loggers and patterns are such as have a text.               *)
THEOREM ConfigInvariant == Spec => []ConfigInv
<1>1. Init => ConfigInv
  BY StageInit, ListenersInit, LoggersInit, ValuesInit DEF ConfigInv
<1>2. ConfigInv /\ [Next]_vars => ConfigInv'
  BY StageNext, OneNext, ListenersNext, LoggersNext, ValuesNext DEF ConfigInv
<1> QED
  BY <1>1, <1>2, PTL DEF Spec

(* When no set_value of "groups" is under way, each listener knows the     *)
(* stored value, unless add_listener, the reading of the value, an overlap *)
(* of two calls or a listener that threw has left it behind: a call that   *)
(* is alone tells the value it then stores, each listener that is not      *)
(* behind has been told by some call or will be, and one that has been     *)
(* told by a call that does not store is put behind by its end.            *)
THEOREM ListenersKnow == Spec => []ListenersKnowValue
<1>1. ConfigInv => ListenersKnowValue
  BY DEF ConfigInv, ListenersInv, AloneInv, Knows, ListenersKnowValue
<1> QED
  BY <1>1, ConfigInvariant, PTL

(* When no set_value of "logs" is under way, and none overlapped another,  *)
(* LogIniter's listener has given each configured logger the level and, in *)
(* order, the appenders of its definition, and one that is configured no   *)
(* more is at NEVER.                                                       *)
THEOREM LoggersMatch == Spec => []LoggersMatchConfig
<1>1. ConfigInv => LoggersMatchConfig
  BY DEF ConfigInv, LoggersInv, LoggersMatchConfig, AtRest, Applied, Silent, Types
<1> QED
  BY <1>1, ConfigInvariant, PTL

(* A record of a removed logger that had passed Logger::log's test of the  *)
(* level before the removal reaches no appender after it.                  *)
THEOREM RemovedAreSilent == Spec => []RemovedStaysSilent
<1>1. ConfigInv => RemovedStaysSilent
  BY DEF ConfigInv, LoggersInv, RemovedStaysSilent, AtRest, Silent, Gone, Writing
<1> QED
  BY <1>1, ConfigInvariant, PTL

(* What ConfigVar::to_string and the LoggerManager write is read back as   *)
(* the same variable value and, but for a removed logger's level, as the   *)
(* same loggers, in every reachable state: FromStr gives only values that  *)
(* have a text.                                                            *)
THEOREM SavedIsReadBack == Spec => []SavedConfigReloads
<1>1. ConfigInv => SavedConfigReloads
  <2> SUFFICES ASSUME ConfigInv PROVE SavedConfigReloads
    OBVIOUS
  <2>1. Typed /\ ValuesInv
    BY DEF ConfigInv, StageInv
  <2>2. ASSUME NEW v \in Vars
        PROVE  ~ Throws(v, ToStr(v, m_val[v])) /\ FromStr(v, ToStr(v, m_val[v])) = m_val[v]
    <3>1. CASE v = "logs"
      <4>1. IsConfig(m_val[v])
        BY <2>1, <3>1 DEF ValuesInv, IsValue
      <4> QED
        BY <3>1, <4>1, ConfigPrinted DEF Throws, FromStr, ToStr
    <3>2. CASE v # "logs"
      <4>1. IsGroups(m_val[v])
        BY <2>1, <3>2 DEF ValuesInv, IsValue
      <4> QED
        BY <3>2, <4>1, MapPrinted DEF Throws, FromStr, ToStr
    <3> QED
      BY <3>1, <3>2
  <2>3. \A n \in m_loggers : LET read == ParseLogs(ManagerText)[n] IN
          /\ level[n] # NEVER => read.level = level[n]
          /\ read.formatter = formatter[n]
          /\ TypeAndFile(read.appenders) = TypeAndFile(m_appender[n])
    BY <2>1, LoggersPrinted
  <2> QED
    BY <2>2, <2>3 DEF SavedConfigReloads
<1> QED
  BY <1>1, ConfigInvariant, PTL

(* A logger and its appenders only ever use a pattern LogFormatter::init   *)
(* accepts, and what it accepts it cuts into items that lose no character  *)
(* of the pattern and have none twice.                                     *)
THEOREM PatternsAreSound == Spec => []FormattersAreSound
<1>1. ConfigInv => FormattersAreSound
  <2>1. ASSUME ConfigInv, NEW n \in LogNames,
               NEW p \in {formatter[n]} \cup {m_appender[n][i].formatter : i \in DOMAIN m_appender[n]}
        PROVE  Accepted(p)
    BY <2>1 DEF ConfigInv, ValuesInv, IsLogger, Fits
  <2> QED
    BY <2>1, AcceptedIsSound DEF FormattersAreSound, Accepted
<1> QED
  BY <1>1, ConfigInvariant, PTL
==============================================================================
