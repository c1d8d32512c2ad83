------------------------------ MODULE SortedSet ------------------------------
(***************************************************************************)
(* What zset.lua promises: a set of keys, each with a value, ordered by    *)
(* falling value and, among equal values, by the time of the last add.     *)
(***************************************************************************)
EXTENDS Integers

CONSTANTS
  Key,
  Value

VARIABLES
  value,     \* the value of each member
  above      \* the pairs of members of which the first ranks above the second

vars == <<value, above>>

Member == DOMAIN value

TypeOK ==
  /\ Member \subseteq Key
  /\ value \in [Member -> Value]
  /\ above \subseteq Member \X Member

\* the order among the members other than k
Without(k) == {p \in above : p[1] # k /\ p[2] # k}

Init ==
  /\ value = [k \in {} |-> 0]
  /\ above = {}

\* A new member, or a member with a new value, ranks below all of its value.
add(k, v) ==
  /\ value' = [j \in Member \cup {k} |-> IF j = k THEN v ELSE value[j]]
  /\ above' = Without(k) \cup {<<j, k>> : j \in {j \in Member \ {k} : value[j] >= v}}
                         \cup {<<k, j>> : j \in {j \in Member \ {k} : value[j] < v}}

rem(k) ==
  /\ k \in Member
  /\ value' = [j \in Member \ {k} |-> value[j]]
  /\ above' = Without(k)

Next == \E k \in Key : rem(k) \/ \E v \in Value : add(k, v)

Spec == Init /\ [][Next]_vars

-----------------------------------------------------------------------------
\* The order is strict and total on the members, and no member ranks above
\* one of a greater value.
Ordered ==
  /\ \A j, k \in Member : j # k => (<<j, k>> \in above \/ <<k, j>> \in above)
  /\ \A j, k \in Member : ~(<<j, k>> \in above /\ <<k, j>> \in above)
  /\ \A i, j, k \in Member :
       <<i, j>> \in above /\ <<j, k>> \in above => <<i, k>> \in above
  /\ \A j, k \in Member : <<j, k>> \in above => value[j] >= value[k]
=============================================================================
