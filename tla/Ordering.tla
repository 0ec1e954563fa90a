------------------------------- MODULE Ordering -------------------------------
(***************************************************************************)
(* Sorting and filtering of lists, without recursion: the elements of the  *)
(* new list are those of the old one at the first place, the second, ...   *)
(***************************************************************************)
EXTENDS Integers, Sequences, FiniteSets

\* The n-th of some positions, of which "before" says what comes before each.
AtPlace(before, n) == CHOOSE i \in DOMAIN before : Cardinality(before[i]) = n - 1

\* The elements at some positions, in their order.
Picked(s, I) ==
  LET before == [i \in I |-> {j \in I : j < i}]
  IN  [n \in 1 .. Cardinality(I) |-> s[AtPlace(before, n)]]

\* Python's sorted, which is stable, by keys that are pairs of numbers.
Less(k, l) == k[1] < l[1] \/ (k[1] = l[1] /\ k[2] < l[2])
SortedBy(s, keys) ==
  LET before == [i \in DOMAIN s |-> {j \in DOMAIN s : \/ Less(keys[j], keys[i])
                                                      \/ ~Less(keys[i], keys[j]) /\ j < i}]
  IN  [n \in DOMAIN s |-> s[AtPlace(before, n)]]
=============================================================================
