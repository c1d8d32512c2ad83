--------------------------- MODULE SortedSetProofs ---------------------------
(***************************************************************************)
(* Proofs about SortedSet, for all keys and all sets of values: what zset  *)
(* is meant to implement is a ranking.                                     *)
(***************************************************************************)
EXTENDS SortedSet, TLAPS

IInv == TypeOK /\ Ordered

LEMMA AddKeeps ==
  ASSUME Value \subseteq Int, IInv, NEW k \in Key, NEW v \in Value, add(k, v)
  PROVE  IInv'
<1>1. /\ value \in [Member -> Value] /\ above \subseteq Member \X Member
      /\ value' = [j \in Member \cup {k} |-> IF j = k THEN v ELSE value[j]]
      /\ Member' = Member \cup {k}
  BY DEF IInv, TypeOK, add, Member
<1>2. TypeOK'
  <2>1. above' \subseteq Member' \X Member'
    BY <1>1 DEF add, Without
  <2> QED
    BY <1>1, <2>1 DEF IInv, TypeOK
<1> DEFINE O == Member \ {k}
           A(x, y) == <<x, y>> \in above
           B(x, y) == <<x, y>> \in above'
<1>3. \A i, j \in O : B(i, j) <=> A(i, j)
  BY <1>1 DEF add, Without
<1>4. \A j \in O : (B(j, k) <=> value[j] >= v) /\ (B(k, j) <=> value[j] < v)
  BY <1>1 DEF add, Without
<1>5. ~B(k, k)
  BY <1>1 DEF add, Without
<1>6. /\ \A j \in O : value[j] \in Int /\ value'[j] = value[j]
      /\ value'[k] = v /\ v \in Int
      /\ \A j \in Member' : j = k \/ j \in O
  BY <1>1
<1>7. /\ \A i, j \in O : i # j => A(i, j) \/ A(j, i)
      /\ \A i, j \in O : ~(A(i, j) /\ A(j, i))
      /\ \A h, i, j \in O : A(h, i) /\ A(i, j) => A(h, j)
      /\ \A i, j \in O : A(i, j) => value[i] >= value[j]
  BY DEF IInv, Ordered
<1> HIDE DEF O, A, B
<1>8. \A j \in O : (B(j, k) \/ B(k, j)) /\ ~(B(j, k) /\ B(k, j))
  BY <1>4, <1>6
<1>9. \A j, i \in Member' : j # i => B(j, i) \/ B(i, j)
  BY <1>3, <1>6, <1>7, <1>8
<1>10. \A j, i \in Member' : ~(B(j, i) /\ B(i, j))
  BY <1>3, <1>5, <1>6, <1>7, <1>8
<1>11. \A j, i \in Member' : B(j, i) => value'[j] >= value'[i]
  <2> SUFFICES ASSUME NEW j \in Member', NEW i \in Member', B(j, i)
               PROVE  value'[j] >= value'[i]
    OBVIOUS
  <2>1. CASE j \in O /\ i \in O
    BY <1>3, <1>6, <1>7, <2>1
  <2>2. CASE j \in O /\ i = k
    BY <1>4, <1>6, <2>2
  <2>3. CASE j = k /\ i \in O
    BY <1>4, <1>6, <2>3
  <2> QED
    BY <1>5, <1>6, <2>1, <2>2, <2>3
<1>12. ASSUME NEW h \in Member', NEW i \in Member', NEW j \in Member', B(h, i), B(i, j)
       PROVE  B(h, j)
  <2>1. CASE h \in O /\ i \in O /\ j \in O
    BY <1>3, <1>7, <1>12, <2>1
  <2>2. CASE h = k /\ i \in O /\ j \in O
    <3>1. value[i] < v /\ value[i] >= value[j]
      BY <1>3, <1>4, <1>7, <1>12, <2>2
    <3> QED
      BY <1>4, <1>6, <2>2, <3>1
  <2>3. CASE h \in O /\ i = k /\ j \in O
    <3>1. value[h] >= v /\ value[j] < v
      BY <1>4, <1>12, <2>3
    <3>2. h # j /\ ~A(j, h)
      BY <1>6, <1>7, <2>3, <3>1
    <3> QED
      BY <1>3, <1>7, <2>3, <3>2
  <2>4. CASE h \in O /\ i \in O /\ j = k
    <3>1. value[i] >= v /\ value[h] >= value[i]
      BY <1>3, <1>4, <1>7, <1>12, <2>4
    <3> QED
      BY <1>4, <1>6, <2>4, <3>1
  <2>5. ~(h = k /\ j = k) \/ i = k
    BY <1>6, <1>8, <1>12
  <2> QED
    BY <1>5, <1>6, <1>12, <2>1, <2>2, <2>3, <2>4, <2>5
<1>13. Ordered'
  BY <1>9, <1>10, <1>11, <1>12 DEF Ordered, B
<1> QED
  BY <1>2, <1>13 DEF IInv

LEMMA RemKeeps ==
  ASSUME IInv, NEW k \in Key, rem(k)
  PROVE  IInv'
<1>1. /\ value \in [Member -> Value] /\ above \subseteq Member \X Member
      /\ value' = [j \in Member \ {k} |-> value[j]]
      /\ Member' = Member \ {k}
  BY DEF IInv, TypeOK, rem, Member
<1>2. TypeOK'
  BY <1>1 DEF IInv, TypeOK, rem, Without
<1>3. \A i, j \in Member' : <<i, j>> \in above' <=> <<i, j>> \in above
  BY <1>1 DEF rem, Without
<1>4. \A j \in Member' : value'[j] = value[j] /\ j \in Member
  BY <1>1
<1> QED
  BY <1>2, <1>3, <1>4 DEF IInv, Ordered

LEMMA InvAlways ==
  ASSUME Value \subseteq Int
  PROVE  Spec => []IInv
<1>1. Init => IInv
  BY DEF Init, IInv, TypeOK, Ordered, Member
<1>2. IInv /\ [Next]_vars => IInv'
  <2>1. IInv /\ UNCHANGED vars => IInv'
    BY DEF vars, IInv, TypeOK, Ordered, Member
  <2> QED
    BY <2>1, AddKeeps, RemKeeps DEF Next
<1> QED
  BY <1>1, <1>2, PTL DEF Spec

\* The members of a zset and their values have their types after every add and rem.
THEOREM SetTypeCorrect ==
  ASSUME Value \subseteq Int
  PROVE  Spec => []TypeOK
<1>1. IInv => TypeOK
  BY DEF IInv
<1> QED
  BY <1>1, InvAlways, PTL

\* The ranking is a strict total order along which values never rise: what add
\* puts below its equals, and what rem takes out, leaves it one.
THEOREM RankingIsTotal ==
  ASSUME Value \subseteq Int
  PROVE  Spec => []Ordered
<1>1. IInv => Ordered
  BY DEF IInv
<1> QED
  BY <1>1, InvAlways, PTL
=============================================================================
