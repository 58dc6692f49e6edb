----------------------------- MODULE LexicalCast -----------------------------
(***************************************************************************)
(* LexicalCast (config.h): how values are read from YAML and written to    *)
(* it.  A YAML text is the node it loads as; a map may have a key twice.   *)
(* The containers are nested here as a map of sets of vectors.             *)
(***************************************************************************)
EXTENDS Integers, Sequences, FiniteSets, SequencesExt

Null      == [kind |-> "null", of |-> <<>>]
Word      == [kind |-> "word", of |-> <<>>]  \* a scalar that is no number
Number(k) == [kind |-> "number", of |-> <<k>>]
List(ns)  == [kind |-> "list", of |-> ns]
Map(ps)   == [kind |-> "map", of |-> ps]     \* pairs of a key and a node
Pair(k, n) == [key |-> k, node |-> n]

(* boost::lexical_cast to a number throws for anything else.               *)
lexical_cast(n) == n.of[1]
NoNumber(n) == n.kind # "number"

(* What node[0] .. node[node.size() - 1] are.  A scalar has no size, and a *)
(* map whose keys are names finds nothing at a number.                     *)
Elements(n) == CASE n.kind = "list" -> n.of
                 [] n.kind = "map"  -> [i \in DOMAIN n.of |-> Null]
                 [] OTHER           -> <<>>
Pairs(n) == IF n.kind = "map" THEN n.of ELSE <<>>

(* vector and list (of numbers); set and unordered_set (of these); map and *)
(* unordered_map (to these), whose insert keeps the first pair of a key.   *)
VectorOf(n) == [i \in DOMAIN Elements(n) |-> lexical_cast(Elements(n)[i])]
SetOf(n) == {VectorOf(Elements(n)[i]) : i \in DOMAIN Elements(n)}
MapOf(n) ==
  [k \in {Pairs(n)[i].key : i \in DOMAIN Pairs(n)} |->
     SetOf(Pairs(n)[SelectInSeq(Pairs(n), LAMBDA p : p.key = k)].node)]

(* An element's cast throws; an element of a list has no key.              *)
VectorThrows(n) == \E i \in DOMAIN Elements(n) : NoNumber(Elements(n)[i])
SetThrows(n) == \E i \in DOMAIN Elements(n) : VectorThrows(Elements(n)[i])
MapThrows(n) ==
  \/ n.kind = "list" /\ n.of # <<>>
  \/ \E i \in DOMAIN Pairs(n) : SetThrows(Pairs(n)[i].node)

(* A YAML document is a finite tree: what the casts look into has an order *)
(* and an end.                                                             *)
Listed(s) == s \in Seq(Range(s))
SetNode(n) == Listed(n.of) /\ (n.kind = "list" => \A i \in DOMAIN n.of : Listed(n.of[i].of))
MapNode(n) == Listed(n.of) /\ (n.kind = "map" => \A i \in DOMAIN n.of : SetNode(n.of[i].node))

(* A value the casts can give: a map of sets of vectors.                   *)
IsGroups(f) ==
  /\ f = [k \in DOMAIN f |-> f[k]] /\ IsFiniteSet(DOMAIN f)
  /\ \A k \in DOMAIN f : IsFiniteSet(f[k]) /\ \A v \in f[k] : Listed(v)

(* A node nothing is added to is null.  The order sets and maps are        *)
(* written in does not matter to any reader.                               *)
ListOrNull(ns) == IF ns = <<>> THEN Null ELSE List(ns)
PrintVector(v) == ListOrNull([i \in DOMAIN v |-> Number(v[i])])
PrintSet(S) == LET vs == SetToSeq(S) IN ListOrNull([i \in DOMAIN vs |-> PrintVector(vs[i])])
PrintMap(f) ==
  LET keys == SetToSeq(DOMAIN f) IN
  IF keys = <<>> THEN Null ELSE Map([i \in DOMAIN keys |-> Pair(keys[i], PrintSet(f[keys[i]]))])
==============================================================================
