---------------------------- MODULE MC_ConfigLog ----------------------------
(* An instance of ConfigLog: documents that add, change and remove loggers, *)
(* with the mistakes LexicalCast and LogFormatter look for.                *)
EXTENDS ConfigLog

App(type, file) == [type |-> type, file |-> file, formatter |-> <<>>]
Stdout == App("StdoutLogAppender", "")
File   == App("FileLogAppender", "f")
NoFile == App("FileLogAppender", "")
NoType == App("", "")

Entry(name, lv, fmt, as) == [name |-> name, level |-> lv, formatter |-> fmt, appenders |-> as]
Node(key, value) == [key |-> key, value |-> value]

NamesDef   == <<"root", "system">>
DefaultDef == <<"%", "p", "%", "m", "%", "n">>
DateFmt    == <<"[", "%", "d", "{", "%", "}", "%", "d", "{", "}">>
OpenFmt    == <<"%", "d", "{", "H">>
BadItem    == <<"%", "x">>

\* Two loggers; a second of the same name is dropped, and so is an appender
\* without a file or a type.
Both == Node("logs", << Entry("system", "INFO", DateFmt, <<File, NoFile, Stdout>>),
                        Entry("root", "WARN", OpenFmt, <<Stdout, NoType>>),
                        Entry("root", "ERROR", <<>>, <<>>) >>)
\* `system' is removed, `root' changed; the level is unknown.
RootOnly == Node("logs", << Entry("root", "LOUD", BadItem, <<Stdout>>) >>)
\* `root' unchanged from RootOnly, `system' is new.
SameRoot == Node("logs", << Entry("root", "LOUD", BadItem, <<Stdout>>),
                             Entry("system", "INFO", <<>>, <<Stdout>>) >>)
NoName == Node("logs", << Entry("", "INFO", <<>>, <<Stdout>>) >>)

\* A key twice, a vector twice, a number for a vector, an empty set; then a
\* word where a number should be.
Groups == Map(<<Pair("a", List(<<List(<<Number(1), Number(2)>>), List(<<Number(1), Number(2)>>), Number(3)>>)),
                Pair("a", Null), Pair("b", Null)>>)
Others == Map(<<Pair("b", List(<<List(<<Number(2)>>)>>)), Pair("c", Map(<<Pair("d", Null)>>))>>)
NoNumbers == Map(<<Pair("a", List(<<List(<<Number(1)>>), List(<<Word>>)>>))>>)
InitialDef == [k \in {} |-> {}]

DocsDef == { <<Node("groups", Groups), Both>>, <<RootOnly, Node("groups", NoNumbers)>>,
             <<SameRoot>>, <<NoName, Node("groups", Others), Node("groups", Groups)>> }
EventLevelsDef == {4}
==============================================================================
