----------------------------- MODULE ZsetProofs -----------------------------
(***************************************************************************)
(* Proofs about Zset, for all keys, values, heights and sizes of a list.   *)
(* The skip list is arranged: some numbering of its nodes is the order of  *)
(* every level and the measure of every link, falls in value, and is what  *)
(* backward and tail walk down. insert and delete keep a list arranged,    *)
(* whatever the heights; what the other theorems say is read off an        *)
(* arrangement.                                                            *)
(***************************************************************************)
EXTENDS Zset, FiniteSetTheorems, SequenceTheorems, WellFoundedInduction, TLAPS

-----------------------------------------------------------------------------
(* Induction in the form of sets and functions: a definition by recursion  *)
(* on data is what the next lemmas say it is.                              *)

Less == OpToRel(<, Nat)

\* The order of the numbers has no infinite descent.
LEMMA LessIsWellFounded == IsWellFoundedOn(Less, Nat)
BY NatLessThanWellFounded, Zenon DEF Less

LEMMA LessPair == ASSUME NEW m \in Nat, NEW n \in Nat, m < n PROVE <<m, n>> \in Less
BY Zenon DEF Less, OpToRel

\* Every set of numbers that has an element has a least one.
LEMMA Least ==
  ASSUME NEW T \in SUBSET Nat, T # {}
  PROVE  \E n \in T : \A m \in T : n <= m
<1>1. PICK n \in T : \A m \in T : ~(<<m, n>> \in Less)
  BY LessIsWellFounded, WFMin
<1>2. \A m \in T : ~(m < n)
  BY <1>1, LessPair
<1> QED
  BY <1>2

\* A set of numbers that holds 0 and with each number the next holds all.
LEMMA Induction ==
  ASSUME NEW T, 0 \in T, \A n \in Nat : n \in T => n + 1 \in T
  PROVE  Nat \subseteq T
<1> SUFFICES ASSUME NEW k \in Nat, k \notin T PROVE FALSE
  OBVIOUS
<1> DEFINE U == {n \in Nat : n \notin T}
<1>1. U \in SUBSET Nat /\ U # {}
  OBVIOUS
<1>2. PICK n \in U : \A m \in U : n <= m
  BY <1>1, Least
<1>3. n # 0 /\ n \in Nat /\ n - 1 \in Nat
  BY <1>2
<1>4. n - 1 \in T
  BY <1>2, <1>3
<1>5. n - 1 + 1 = n
  BY <1>3
<1> QED
  BY <1>2, <1>3, <1>4, <1>5

\* A recursion on the elements of S with results in V: it goes from each x to
\* next[x], of a smaller measure m, and stops on the set Stop.
Descent(S, V, N, m, Stop, next, base, op) ==
  /\ N \in Nat /\ m \in [S -> 0..N]
  /\ \A x \in S \ Stop : next[x] \in S /\ m[next[x]] < m[x]
  /\ \A x \in S \cap Stop : base[x] \in V
  /\ \A x \in S \ Stop, v \in V : op[<<x, v>>] \in V

\* Such a recursion has a solution.
LEMMA Recursion ==
  ASSUME NEW S, NEW V, NEW N, NEW m, NEW Stop, NEW next, NEW base, NEW op,
         Descent(S, V, N, m, Stop, next, base, op)
  PROVE  \E f \in [S -> V] : \A x \in S :
           f[x] = IF x \in Stop THEN base[x] ELSE op[<<x, f[next[x]]>>]
<1> USE DEF Descent
<1> DEFINE D(n) == {x \in S : m[x] < n}
           T == {n \in Nat : \E g \in [D(n) -> V] :
                   \A x \in D(n) :
                     g[x] = IF x \in Stop THEN base[x] ELSE op[<<x, g[next[x]]>>]}
<1>1. 0 \in T
  <2>1. D(0) = {}
    OBVIOUS
  <2>2. [x \in {} |-> x] \in [D(0) -> V]
    BY <2>1
  <2> QED
    BY <2>1, <2>2
<1>2. ASSUME NEW n \in Nat, n \in T PROVE n + 1 \in T
  <2>1. PICK g \in [D(n) -> V] :
          \A x \in D(n) : g[x] = IF x \in Stop THEN base[x] ELSE op[<<x, g[next[x]]>>]
    BY <1>2
  <2> DEFINE h == [x \in D(n + 1) |-> IF x \in Stop THEN base[x] ELSE op[<<x, g[next[x]]>>]]
  <2>2. \A x \in D(n + 1) : x \notin Stop => next[x] \in D(n)
    OBVIOUS
  <2>3. D(n) \subseteq D(n + 1)
    OBVIOUS
  <2>4. \A x \in D(n) : h[x] = g[x]
    BY <2>1, <2>3
  <2>5. h \in [D(n + 1) -> V]
    BY <2>1, <2>2
  <2>6. \A x \in D(n + 1) : x \notin Stop => g[next[x]] = h[next[x]]
    BY <2>2, <2>4
  <2>7. \A x \in D(n + 1) : h[x] = IF x \in Stop THEN base[x] ELSE op[<<x, h[next[x]]>>]
    <3> HIDE DEF D
    <3> QED BY <2>6
  <2> QED
    <3> HIDE DEF D, h
    <3> QED BY <2>5, <2>7
<1>3. N + 1 \in T
  <2> HIDE DEF T
  <2> QED BY <1>1, <1>2, Induction
<1>4. D(N + 1) = S
  OBVIOUS
<1> QED
  <2> HIDE DEF D
  <2> QED BY <1>3, <1>4

-----------------------------------------------------------------------------
(* The shape of a skip list, and its nodes arranged by the number place of *)
(* the members before them, the node itself counted.                       *)

Member(h) == [key : Key, value : Value, level : [1..h -> Link], backward : Node \cup {Nil}]

Empty == [level : [{} -> Link]]

NodesShaped(node) ==
  /\ node = [x \in Node \cup {Header} |-> node[x]]
  /\ node[Header] \in [level : [Level -> Link]]
  /\ \A n \in Node : node[n] \in Empty \/ \E h \in Level : node[n] \in Member(h)

Shaped(s) ==
  /\ s = [node |-> s.node, tail |-> s.tail, length |-> s.length, level |-> s.level]
  /\ s.length \in Nat /\ s.level \in Level /\ s.tail \in Node \cup {Nil}
  /\ NodesShaped(s.node)

Placed(s, place) ==
  /\ place \in [On(s, 1) -> 0..s.length]
  /\ place[Header] = 0
  /\ \A x, y \in On(s, 1) : place[x] = place[y] => x = y
  /\ \A p \in 0..s.length : \E x \in On(s, 1) : place[x] = p

\* The node before which the link of x on level i leads, as a place: a place
\* behind the end if there is none.
Ahead(s, place, x, i) ==
  IF forward(s, x, i) = Nil THEN s.length + 1 ELSE place[forward(s, x, i)]

\* The link of x on level i leads to the next node on that level and measures
\* the way.
LinkedAt(s, place, x, i) ==
  /\ forward(s, x, i) \in (On(s, i) \ {Header}) \cup {Nil}
  /\ place[x] < Ahead(s, place, x, i)
  /\ \A y \in On(s, i) : place[y] <= place[x] \/ Ahead(s, place, x, i) <= place[y]
  /\ span(s, x, i) = (IF forward(s, x, i) = Nil THEN s.length
                      ELSE place[forward(s, x, i)]) - place[x]

Linked(s, place) ==
  /\ \A i \in 1..s.level : \A x \in On(s, i) : LinkedAt(s, place, x, i)
  /\ \A i \in Level : i > s.level => On(s, i) = {Header} /\ forward(s, Header, i) = Nil

Falling(s, place) ==
  \A x, y \in Nodes(s) : place[x] < place[y] => s.node[x].value >= s.node[y].value

Backward(s, place) ==
  /\ \A n \in Nodes(s) :
       LET b == s.node[n].backward
       IN  IF b = Nil THEN place[n] = 1 ELSE b \in Nodes(s) /\ place[b] = place[n] - 1
  /\ IF s.tail = Nil THEN s.length = 0 ELSE s.tail \in Nodes(s) /\ place[s.tail] = s.length

Arranged(s, place) ==
  Shaped(s) /\ Placed(s, place) /\ Linked(s, place) /\ Falling(s, place) /\ Backward(s, place)

\* A node is on all levels up to its height, and its links have a shape.
LEMMA Heights ==
  ASSUME NEW s, Shaped(s)
  PROVE  /\ \A i \in Level : \A j \in 1..i : On(s, i) \subseteq On(s, j)
         /\ \A i \in Level : Header \in On(s, i)
         /\ \A i : On(s, i) # {} => i \in Level
         /\ \A i : \A x \in On(s, i) :
              /\ s.node[x].level[i] \in Link
              /\ forward(s, x, i) \in Node \cup {Nil} /\ span(s, x, i) \in Nat
         /\ \A n \in Nodes(s) : n \in Node /\ s.node[n].key \in Key /\ s.node[n].value \in Value
              /\ s.node[n].backward \in Node \cup {Nil}
              /\ \E h \in Level : s.node[n] \in Member(h) /\ DOMAIN s.node[n].level = 1..h
<1>1. Level \subseteq Nat /\ Header \notin Node /\ Nil \notin Node \cup {Header}
      /\ 1 \in Level
  BY ZsetAssumption DEF Level, Header, Node, Nil
<1>2. \A n \in Node : n \in Nodes(s) => \E h \in Level : s.node[n] \in Member(h)
  BY DEF Shaped, NodesShaped, Nodes, On, Empty
<1>3. \A i : \A n \in Node : n \in On(s, i) => n \in Nodes(s)
  <2> SUFFICES ASSUME NEW n \in Node, NEW i, n \in On(s, i) PROVE 1 \in DOMAIN s.node[n].level
    BY <1>1 DEF Nodes, On
  <2>1. PICK h \in Level : s.node[n] \in Member(h)
    BY DEF Shaped, NodesShaped, On, Empty
  <2> QED
    BY <2>1, <1>1 DEF Member, Level
<1>4. \A n \in Node, h \in Level : s.node[n] \in Member(h) => DOMAIN s.node[n].level = 1..h
  BY DEF Member
<1>5. DOMAIN s.node[Header].level = Level
  BY DEF Shaped, NodesShaped
<1>6. ASSUME NEW i, NEW x \in On(s, i)
      PROVE  /\ i \in Level /\ s.node[x].level[i] \in Link
             /\ \A j \in 1..i : x \in On(s, j)
  <2>1. CASE x = Header
    <3>1. s.node[Header].level \in [Level -> Link]
      BY DEF Shaped, NodesShaped
    <3>2. i \in Level
      BY <2>1, <1>5 DEF On
    <3>3. \A j \in 1..i : j \in Level
      BY <3>2, ZsetAssumption DEF Level
    <3> QED
      BY <2>1, <3>1, <3>2, <3>3, <1>5 DEF On
  <2>2. CASE x \in Node
    <3>1. PICK h \in Level : s.node[x] \in Member(h)
      BY <1>2, <1>3, <2>2
    <3>2. s.node[x].level \in [1..h -> Link] /\ i \in 1..h
      BY <3>1, <1>4, <2>2 DEF On, Member
    <3>3. i \in Level /\ \A j \in 1..i : j \in 1..h
      BY <3>2, ZsetAssumption DEF Level
    <3> QED
      BY <3>2, <3>3, <2>2 DEF On
  <2> QED
    BY <2>1, <2>2 DEF On
<1> QED
  <2>1. \A i : \A x \in On(s, i) : forward(s, x, i) \in Node \cup {Nil} /\ span(s, x, i) \in Nat
    BY <1>6 DEF Link, forward, span
  <2>2. \A n \in Nodes(s) : n \in Node /\ s.node[n].key \in Key /\ s.node[n].value \in Value
              /\ s.node[n].backward \in Node \cup {Nil}
    BY <1>2 DEF Nodes, On, Member
  <2>3. \A n \in Nodes(s) : n \in Node
    BY DEF Nodes, On
  <2>4. \A i \in Level : Header \in On(s, i)
    BY <1>5 DEF On
  <2> QED
    BY <1>2, <1>4, <1>6, <2>1, <2>2, <2>3, <2>4

\* Of some elements with numbers, one has the least.
LEMMA LeastOf ==
  ASSUME NEW S, NEW m, \A x \in S : m[x] \in Nat, NEW B \in SUBSET S, B # {}
  PROVE  \E x \in B : \A y \in B : m[x] <= m[y]
<1> DEFINE T == {m[x] : x \in B}
<1>1. T \in SUBSET Nat /\ T # {}
  OBVIOUS
<1>2. PICK n \in T : \A k \in T : n <= k
  BY <1>1, Least
<1> QED
  BY <1>2

-----------------------------------------------------------------------------
(* Searches, and where they turn down.                                     *)

\* What the lemmas about searches use of an arrangement.
LEMMA Basics ==
  ASSUME NEW s, NEW place, Shaped(s), Placed(s, place), Linked(s, place)
  PROVE  /\ s.level \in Level /\ s.level \in Nat /\ s.length \in Nat /\ 1 \in 1..s.level
         /\ \A i \in 1..s.level : i \in Level /\ Header \in On(s, i) /\ On(s, i) \subseteq On(s, 1)
         /\ \A x \in On(s, 1) : place[x] \in 0..s.length
         /\ place[Header] = 0
         /\ \A i \in 1..s.level : \A x \in On(s, i) :
              LET f == forward(s, x, i)
              IN  /\ f = Nil \/ (f \in On(s, i) /\ f # Header /\ f # Nil /\ f \in Nodes(s)
                                /\ place[x] < place[f] /\ span(s, x, i) = place[f] - place[x])
                  /\ span(s, x, i) \in Nat
<1>1. /\ s.level \in Level /\ s.level \in Nat /\ s.length \in Nat /\ 1 \in 1..s.level
      /\ \A i \in 1..s.level : i \in Level
  BY ZsetAssumption DEF Shaped, Level
<1>2. \A i \in 1..s.level : Header \in On(s, i) /\ On(s, i) \subseteq On(s, 1)
  BY <1>1, Heights
<1>3. \A i \in Level : \A x \in On(s, i) : x # Nil
  BY DEF On, Node, Header, Nil
<1>4. ASSUME NEW i \in 1..s.level, NEW x \in On(s, i), forward(s, x, i) # Nil
      PROVE  LET f == forward(s, x, i)
             IN  f \in On(s, i) /\ f # Header /\ f \in Nodes(s)
                 /\ place[x] < place[f] /\ span(s, x, i) = place[f] - place[x]
  BY <1>2, <1>4 DEF Linked, LinkedAt, Ahead, Nodes
<1>5. \A i \in 1..s.level : \A x \in On(s, i) : span(s, x, i) \in Nat
  BY Heights
<1>6. (\A x \in On(s, 1) : place[x] \in 0..s.length) /\ place[Header] = 0
  BY DEF Placed
<1>7. ASSUME NEW i \in 1..s.level, NEW x \in On(s, i)
      PROVE  LET f == forward(s, x, i)
             IN  /\ f = Nil \/ (f \in On(s, i) /\ f # Header /\ f # Nil /\ f \in Nodes(s)
                               /\ place[x] < place[f] /\ span(s, x, i) = place[f] - place[x])
                 /\ span(s, x, i) \in Nat
  <2>1. CASE forward(s, x, i) = Nil
    BY <2>1, <1>5
  <2>2. CASE forward(s, x, i) # Nil
    BY <2>2, <1>4, <1>5
  <2> QED
    BY <2>1, <2>2
<1> QED
  BY <1>1, <1>2, <1>6, <1>7

\* A walk on level i passes the nodes of P ahead of where it started and no
\* other, and counts the members that it passes.
LEMMA WalkEnds ==
  ASSUME NEW s, NEW place, Shaped(s), Placed(s, place), Linked(s, place),
         NEW P \in SUBSET Nodes(s), NEW i \in 1..s.level, NEW x \in On(s, i)
  PROVE  LET w == Walk(s, P, i)[x]
         IN  /\ w \in [at : On(s, i), rank : Nat]
             /\ place[w.at] = place[x] + w.rank
             /\ forward(s, w.at, i) \notin P
             /\ w.at = x \/ w.at \in P
             /\ \A y \in On(s, i) : place[x] < place[y] /\ place[y] <= place[w.at] => y \in P
<1> DEFINE S == On(s, i)
           V == [at : S, rank : Nat]
           N == s.length
           Stop == {y \in S : forward(s, y, i) \notin P}
           m == [y \in S |-> N - place[y]]
           next == [y \in S |-> forward(s, y, i)]
           base == [y \in S |-> [at |-> y, rank |-> 0]]
           op == [a \in S \X V |-> [a[2] EXCEPT !.rank = @ + span(s, a[1], i)]]
           Eq(w) == [y \in S |-> IF forward(s, y, i) \notin P THEN [at |-> y, rank |-> 0]
                                 ELSE [w[forward(s, y, i)] EXCEPT !.rank = @ + span(s, y, i)]]
<1>1. N \in Nat /\ S \subseteq On(s, 1) /\ (\A y \in S : place[y] \in 0..N) /\ Nil \notin P
  BY Basics DEF Nodes, On, Node, Nil, Header
<1>2. \A y \in S : span(s, y, i) \in Nat
  BY Basics
<1>3. \A y \in S \ Stop : forward(s, y, i) \in S /\ place[y] < place[forward(s, y, i)]
                          /\ span(s, y, i) = place[forward(s, y, i)] - place[y]
  BY Basics, <1>1
<1>4. m \in [S -> 0..N]
  BY <1>1
<1>5. \A y \in S \ Stop : next[y] \in S /\ m[next[y]] < m[y]
  BY <1>1, <1>3
<1>6. \A y \in S \cap Stop : base[y] \in V
  OBVIOUS
<1>7. \A y \in S, v \in V : op[<<y, v>>] = [at |-> v.at, rank |-> v.rank + span(s, y, i)]
  OBVIOUS
<1>8. \A y \in S \ Stop, v \in V : op[<<y, v>>] \in V
  <2> SUFFICES ASSUME NEW y \in S \ Stop, NEW v \in V PROVE op[<<y, v>>] \in V
    OBVIOUS
  <2>1. v.at \in S /\ v.rank \in Nat /\ v.rank + span(s, y, i) \in Nat
    BY <1>2
  <2> QED
    BY <2>1, <1>7
<1>9. Descent(S, V, N, m, Stop, next, base, op)
  <2> HIDE DEF S, V, N, Stop, m, next, base, op
  <2> QED BY <1>1, <1>4, <1>5, <1>6, <1>8 DEF Descent
<1>10. PICK g \in [S -> V] : \A y \in S :
        g[y] = IF y \in Stop THEN base[y] ELSE op[<<y, g[next[y]]>>]
  <2> HIDE DEF S, V, N, Stop, m, next, base, op
  <2> QED BY <1>9, Recursion
<1>11. g = Eq(g)
  <2>1. \A y \in S : g[y] = Eq(g)[y]
    BY <1>3, <1>10
  <2> QED
    BY <1>10, <2>1
<1> DEFINE W == Walk(s, P, i)
<1>12. W = CHOOSE w : w = Eq(w)
  BY DEF Walk
<1>13. W = Eq(W)
  BY <1>11, <1>12
<1>14. \A y \in S : /\ y \in Stop => W[y] = [at |-> y, rank |-> 0]
                    /\ y \notin Stop => W[y] = [W[forward(s, y, i)] EXCEPT !.rank = @ + span(s, y, i)]
  BY <1>13
<1> HIDE DEF W
<1> DEFINE Good(y) ==
             /\ W[y] \in [at : S, rank : Nat]
             /\ place[W[y].at] = place[y] + W[y].rank
             /\ forward(s, W[y].at, i) \notin P
             /\ W[y].at = y \/ W[y].at \in P
             /\ \A z \in S : place[y] < place[z] /\ place[z] <= place[W[y].at] => z \in P
           Bad == {y \in S : ~Good(y)}
<1>15. ASSUME NEW y \in S, \A z \in S : m[z] < m[y] => Good(z)
       PROVE  Good(y)
  <2>1. CASE y \in Stop
    <3>0. W[y] = [at |-> y, rank |-> 0]
      <4> HIDE DEF Stop, S
      <4> QED BY <2>1, <1>14
    <3>1. W[y] = [at |-> y, rank |-> 0] /\ W[y].at = y /\ W[y].rank = 0
      BY <3>0
    <3>2. \A z \in S : ~(place[y] < place[z] /\ place[z] <= place[y])
      BY <1>1
    <3> QED
      BY <3>1, <3>2, <2>1, <1>1
  <2>2. CASE y \notin Stop
    <3> DEFINE f == forward(s, y, i)
    <3>1. /\ f \in S /\ f \in P /\ place[y] < place[f]
          /\ span(s, y, i) = place[f] - place[y] /\ span(s, y, i) \in Nat
          /\ m[f] < m[y]
      BY <2>2, <1>1, <1>2, <1>3
    <3>2. Good(f)
      BY <1>15, <3>1
    <3>3. W[y] = [W[f] EXCEPT !.rank = @ + span(s, y, i)]
      BY <2>2, <1>14
    <3>4. W[y].at = W[f].at /\ W[y].rank = W[f].rank + span(s, y, i)
          /\ W[y] \in [at : S, rank : Nat]
      BY <3>1, <3>2, <3>3
    <3>5. LinkedAt(s, place, y, i)
      BY DEF Linked
    <3>6. \A z \in S : place[z] <= place[y] \/ place[f] <= place[z]
      BY <3>5, <3>1, <1>1 DEF LinkedAt, Ahead
    <3>7. ASSUME NEW z \in S, place[y] < place[z], place[z] <= place[W[y].at] PROVE z \in P
      <4>1. place[f] <= place[z]
        BY <3>6, <3>7, <1>1
      <4>2. CASE place[f] = place[z]
        BY <4>2, <3>1, <1>1 DEF Placed
      <4>3. CASE place[f] < place[z]
        BY <4>3, <3>2, <3>4, <3>7
      <4> QED
        BY <4>1, <4>2, <4>3, <3>1, <1>1
    <3>8. place[W[y].at] = place[y] + W[y].rank
      BY <3>1, <3>2, <3>4, <1>1
    <3> QED
      BY <3>1, <3>2, <3>4, <3>7, <3>8
  <2> QED
    BY <2>1, <2>2
<1>16. Bad = {}
  <2> SUFFICES ASSUME Bad # {} PROVE FALSE
    OBVIOUS
  <2>1. \A y \in S : m[y] \in Nat
    BY <1>1
  <2>2. PICK y \in Bad : \A z \in Bad : m[y] <= m[z]
    <3> HIDE DEF m, Good
    <3>1. Bad \in SUBSET S
      OBVIOUS
    <3> QED BY <2>1, <3>1, LeastOf
  <2>3. \A z \in S : m[z] < m[y] => Good(z)
    <3> HIDE DEF m, Good
    <3> QED BY <2>1, <2>2
  <2> QED
    <3> HIDE DEF m, Good
    <3> QED BY <1>15, <2>2, <2>3
<1> QED
  BY <1>16 DEF W

\* What holds on the top level, and on each level if on the one above it,
\* holds on all levels.
LEMMA Downward ==
  ASSUME NEW L \in Nat, NEW G, \A i \in 1..L : i = L \/ i + 1 \in G => i \in G
  PROVE  1..L \subseteq G
<1> DEFINE B == {i \in 1..L : i \notin G}
           m == [i \in 1..L |-> L - i]
<1> SUFFICES ASSUME B # {} PROVE FALSE
  OBVIOUS
<1>1. (\A i \in 1..L : m[i] \in Nat) /\ B \in SUBSET (1..L)
  OBVIOUS
<1>2. PICK i \in B : \A j \in B : m[i] <= m[j]
  <2> HIDE DEF m, B
  <2> QED BY <1>1, LeastOf
<1>3. i # L
  BY <1>2
<1>4. i + 1 \in 1..L /\ i + 1 \notin B
  BY <1>2, <1>3
<1> QED
  BY <1>2, <1>4

From(s, t, i) == IF i = s.level THEN [at |-> Header, rank |-> 0] ELSE t[i + 1]
Turning(s, P, t) ==
  \A i \in 1..s.level :
    t[i] = [Walk(s, P, i)[From(s, t, i).at] EXCEPT !.rank = @ + From(s, t, i).rank]

\* Where a search turns on level i: it never passed a node outside P that is
\* linked there or above.
TurnsAt(s, place, P, t, i) ==
  /\ t[i] \in [at : On(s, i), rank : Nat]
  /\ t[i].rank = place[t[i].at]
  /\ forward(s, t[i].at, i) \notin P
  /\ t[i].at = Header \/ t[i].at \in P
  /\ \A j \in i..s.level :
       /\ t[j].rank \in 0..t[i].rank
       /\ \A y \in On(s, j) \ P : t[j].rank < place[y] => t[i].rank < place[y]
  /\ \A y \in On(s, i) \ P : From(s, t, i).rank < place[y] => t[i].rank < place[y]

\* A function that turns as the search does turns where TurnsAt says.
LEMMA TurningTurns ==
  ASSUME NEW s, NEW place, Shaped(s), Placed(s, place), Linked(s, place),
         NEW P \in SUBSET Nodes(s), NEW t, Turning(s, P, t)
  PROVE  \A i \in 1..s.level : TurnsAt(s, place, P, t, i)
<1> DEFINE G == {i \in 1..s.level : TurnsAt(s, place, P, t, i)}
<1>1. ASSUME NEW i \in 1..s.level, i = s.level \/ i + 1 \in G
      PROVE  TurnsAt(s, place, P, t, i)
  <2> DEFINE from == From(s, t, i)
             w == Walk(s, P, i)[from.at]
  <2>1. s.level \in Nat /\ (i # s.level => i + 1 \in 1..s.level)
    BY Basics
  <2>2. /\ from \in [at : On(s, i), rank : Nat] /\ from.rank = place[from.at]
        /\ from.at = Header \/ from.at \in P
    <3>1. CASE i = s.level
      BY <3>1, Basics DEF From
    <3>2. CASE i # s.level
      <4>1. from = t[i + 1] /\ TurnsAt(s, place, P, t, i + 1)
        BY <3>2, <1>1 DEF From
      <4>2. On(s, i + 1) \subseteq On(s, i)
        BY <2>1, <3>2, Basics, Heights
      <4> QED
        BY <4>1, <4>2 DEF TurnsAt
    <3> QED
      BY <3>1, <3>2
  <2>3. /\ w \in [at : On(s, i), rank : Nat]
        /\ place[w.at] = place[from.at] + w.rank
        /\ forward(s, w.at, i) \notin P
        /\ w.at = from.at \/ w.at \in P
        /\ \A y \in On(s, i) : place[from.at] < place[y] /\ place[y] <= place[w.at] => y \in P
    <3> HIDE DEF from
    <3> QED BY <2>2, WalkEnds
  <2>4. t[i] = [w EXCEPT !.rank = @ + from.rank]
    BY DEF Turning
  <2> HIDE DEF from, w
  <2>5. /\ t[i] \in [at : On(s, i), rank : Nat] /\ t[i].at = w.at /\ t[i].rank = w.rank + from.rank
        /\ t[i].rank = place[t[i].at]
    BY <2>2, <2>3, <2>4
  <2>6. /\ forward(s, t[i].at, i) \notin P
        /\ t[i].at = Header \/ t[i].at \in P
    BY <2>2, <2>3, <2>5
  <2>7. from.rank <= t[i].rank
    BY <2>2, <2>3, <2>5
  <2>8. \A y \in On(s, i) \ P : from.rank < place[y] => t[i].rank < place[y]
    <3>1. \A y \in On(s, i) : place[y] \in Int
      BY Basics
    <3> QED
      BY <3>1, <2>2, <2>3, <2>5
  <2>10. \A y \in On(s, i) \ P : From(s, t, i).rank < place[y] => t[i].rank < place[y]
    BY <2>8 DEF from
  <2>9. ASSUME NEW j \in i..s.level, i # j
        PROVE  /\ t[j].rank \in 0..t[i].rank
               /\ \A y \in On(s, j) \ P : t[j].rank < place[y] => t[i].rank < place[y]
    <3>1. i # s.level /\ i + 1 \in 1..s.level /\ j \in (i + 1)..s.level /\ j \in 1..s.level
      BY <2>1, <2>9
    <3>2. TurnsAt(s, place, P, t, i + 1) /\ from = t[i + 1]
      BY <3>1, <1>1 DEF From, from
    <3>3. On(s, j) \subseteq On(s, i)
      <4>1. i \in 1..j /\ j \in Level
        BY <3>1, <2>1, Basics
      <4> QED
        BY <4>1, Heights
    <3>4. t[j].rank \in 0..from.rank
          /\ \A y \in On(s, j) \ P : t[j].rank < place[y] => from.rank < place[y]
      BY <3>1, <3>2 DEF TurnsAt
    <3>5. \A y \in On(s, i) : place[y] \in Int
      BY Basics
    <3> QED
      BY <3>3, <3>4, <3>5, <2>2, <2>5, <2>7, <2>8
  <2> QED
    BY <2>5, <2>6, <2>9, <2>10 DEF TurnsAt
<1> QED
  <2>1. s.level \in Nat
    BY Basics
  <2> QED
    <3>1. \A i \in 1..s.level : i = s.level \/ i + 1 \in G => i \in G
      BY <1>1
    <3>2. 1..s.level \subseteq G
      <4> HIDE DEF G
      <4> QED BY <2>1, <3>1, Downward
    <3> QED
      BY <3>2

\* The empty sequence in front changes nothing.
LEMMA EmptyFirst ==
  ASSUME NEW V, NEW t \in Seq(V)
  PROVE  <<>> \o t = t
BY ConcatEmptySeq

\* A search turns down on each level.
LEMMA TurnsEnd ==
  ASSUME NEW s, NEW place, Shaped(s), Placed(s, place), Linked(s, place),
         NEW P \in SUBSET Nodes(s)
  PROVE  /\ Turns(s, P) \in [1..s.level -> [at : On(s, 1), rank : Nat]]
         /\ \A i \in 1..s.level : TurnsAt(s, place, P, Turns(s, P), i)
<1> DEFINE L == s.level
           S == 1..L
           V == [at : On(s, 1), rank : Nat]
           start == [at |-> Header, rank |-> 0]
           m == [i \in S |-> L - i]
           Stop == {L}
           next == [i \in S |-> i + 1]
           base == [i \in S |-> [Walk(s, P, i)[start.at] EXCEPT !.rank = @ + start.rank]]
           op == [a \in S \X V |->
                    IF a[2].at \in On(s, a[1])
                    THEN [Walk(s, P, a[1])[a[2].at] EXCEPT !.rank = @ + a[2].rank] ELSE a[2]]
           Eq(t) == [i \in S |->
                       LET from == IF i = s.level THEN [at |-> Header, rank |-> 0] ELSE t[i + 1]
                       IN  [Walk(s, P, i)[from.at] EXCEPT !.rank = @ + from.rank]]
<1>1. L \in Nat /\ L \in S /\ \A i \in S : i \in Level /\ Header \in On(s, i) /\ On(s, i) \subseteq On(s, 1)
  BY Basics
<1>2. ASSUME NEW i \in S, NEW v \in V, v.at \in On(s, i)
      PROVE  [Walk(s, P, i)[v.at] EXCEPT !.rank = @ + v.rank] \in [at : On(s, i), rank : Nat]
  <2>1. Walk(s, P, i)[v.at] \in [at : On(s, i), rank : Nat]
    BY <1>2, WalkEnds
  <2> QED
    BY <2>1
<1>3. m \in [S -> 0..L]
  BY <1>1
<1>4. \A i \in S \ Stop : next[i] \in S /\ m[next[i]] < m[i]
  BY <1>1
<1>5. start \in V
  BY <1>1
<1>6. \A i \in S : base[i] \in [at : On(s, i), rank : Nat]
  <2> HIDE DEF start
  <2>1. start.at = Header
    BY DEF start
  <2>2. \A i \in S : base[i] = [Walk(s, P, i)[start.at] EXCEPT !.rank = @ + start.rank]
    OBVIOUS
  <2> QED
    BY <1>1, <1>2, <1>5, <2>1, <2>2
<1>7. \A i \in S, v \in V : op[<<i, v>>] = IF v.at \in On(s, i)
         THEN [Walk(s, P, i)[v.at] EXCEPT !.rank = @ + v.rank] ELSE v
  OBVIOUS
<1>8. \A i \in S, v \in V : /\ op[<<i, v>>] \in V
                            /\ v.at \in On(s, i) => op[<<i, v>>] \in [at : On(s, i), rank : Nat]
  <2> SUFFICES ASSUME NEW i \in S, NEW v \in V
               PROVE /\ op[<<i, v>>] \in V
                     /\ v.at \in On(s, i) => op[<<i, v>>] \in [at : On(s, i), rank : Nat]
    OBVIOUS
  <2>1. CASE v.at \in On(s, i)
    <3>1. op[<<i, v>>] \in [at : On(s, i), rank : Nat]
      <4>1. [Walk(s, P, i)[v.at] EXCEPT !.rank = @ + v.rank] \in [at : On(s, i), rank : Nat]
        BY <2>1, <1>2
      <4>2. op[<<i, v>>] = [Walk(s, P, i)[v.at] EXCEPT !.rank = @ + v.rank]
        BY <2>1, <1>7
      <4> HIDE DEF op, V, S
      <4> QED BY <4>1, <4>2
    <3> QED
      BY <3>1, <1>1
  <2>2. CASE v.at \notin On(s, i)
    BY <2>2, <1>7
  <2> QED
    BY <2>1, <2>2
<1>9. Descent(S, V, L, m, Stop, next, base, op)
  <2>1. \A i \in S : base[i] \in V
    BY <1>1, <1>6
  <2> HIDE DEF S, V, L, Stop, m, next, base, op
  <2> QED BY <1>1, <1>3, <1>4, <1>8, <2>1 DEF Descent
<1>10. PICK g \in [S -> V] : \A i \in S :
        g[i] = IF i \in Stop THEN base[i] ELSE op[<<i, g[next[i]]>>]
  <2> HIDE DEF S, V, L, Stop, m, next, base, op
  <2> QED BY <1>9, Recursion
<1>11. \A i \in S : g[i] \in [at : On(s, i), rank : Nat]
  <2> DEFINE G == {i \in S : g[i] \in [at : On(s, i), rank : Nat]}
  <2>1. ASSUME NEW i \in S, i = L \/ i + 1 \in G PROVE i \in G
    <3>1. CASE i = L
      <4>1. g[i] = base[i]
        BY <3>1, <1>10
      <4> QED
        BY <4>1, <1>6
    <3>2. CASE i # L
      <4>1. g[i] = op[<<i, g[i + 1]>>] /\ i + 1 \in S /\ i + 1 \in G
        BY <3>2, <2>1, <1>1, <1>10
      <4>2. g[i + 1].at \in On(s, i + 1) /\ On(s, i + 1) \subseteq On(s, i)
        <5>1. i \in 1..(i + 1) /\ i + 1 \in Level
          BY <4>1, <1>1
        <5> QED
          BY <4>1, <5>1, Heights
      <4>3. g[i + 1] \in V
        <5> HIDE DEF V, S, base, op, next
        <5> QED BY <4>1, <1>10
      <4> QED
        <5> HIDE DEF op, V, S
        <5> QED BY <4>1, <4>2, <4>3, <1>8
    <3> QED
      BY <3>1, <3>2
  <2>2. S \subseteq G
    <3> HIDE DEF G
    <3> QED BY <1>1, <2>1, Downward
  <2> QED
    BY <2>2
<1>12. g = Eq(g)
  <2>1. ASSUME NEW i \in S PROVE g[i] = Eq(g)[i]
    <3>1. CASE i = L
      BY <3>1, <1>10
    <3>2. CASE i # L
      <4>1. g[i] = op[<<i, g[i + 1]>>] /\ i + 1 \in S
        <5>1. i \notin Stop /\ next[i] = i + 1 /\ i + 1 \in S
          BY <3>2, <1>1
        <5> HIDE DEF V, base, op, next, S, Stop
        <5> QED BY <5>1, <1>10
      <4>2. g[i + 1].at \in On(s, i + 1) /\ On(s, i + 1) \subseteq On(s, i) /\ g[i + 1] \in V
        <5>1. i \in 1..(i + 1) /\ i + 1 \in Level
          BY <4>1, <1>1
        <5>2. g[i + 1].at \in On(s, i + 1) /\ g[i + 1] \in V
          <6>1. g[i + 1] \in V
            <7> HIDE DEF V, S, base, op, next
            <7> QED BY <4>1, <1>10
          <6>2. g[i + 1] \in [at : On(s, i + 1), rank : Nat]
            <7> HIDE DEF V, S
            <7> QED BY <4>1, <1>11
          <6> QED
            BY <6>1, <6>2
        <5> QED
          BY <5>1, <5>2, Heights
      <4>3. g[i] = [Walk(s, P, i)[g[i + 1].at] EXCEPT !.rank = @ + g[i + 1].rank]
        <5> HIDE DEF op, V, S
        <5> QED BY <4>1, <4>2, <1>7
      <4> QED
        BY <3>2, <4>3
    <3> QED
      BY <3>1, <3>2
  <2> QED
    <3>1. g = [i \in S |-> g[i]]
      <4> HIDE DEF V, S, base, op, next
      <4> QED BY <1>10
    <3> DEFINE e == Eq(g)
    <3>2. e = [i \in S |-> e[i]]
      OBVIOUS
    <3>3. \A i \in S : g[i] = e[i]
      BY <2>1
    <3>4. g = e
      <4> HIDE DEF e, S
      <4> QED BY <3>1, <3>2, <3>3
    <3> QED
      BY <3>4
<1> DEFINE T == CHOOSE t : t = Eq(t)
<1>13. T = Eq(T)
  BY <1>12
<1>14. Turns(s, P) = <<>> \o T
  BY DEF Turns
<1> HIDE DEF T
<1>15. DOMAIN T = S /\ Turning(s, P, T)
  <2>1. \A i \in S : T[i] = Eq(T)[i]
    BY <1>13
  <2>2. DOMAIN T = S
    BY <1>13
  <2> QED
    BY <2>1, <2>2 DEF Turning, From
<1>16. \A i \in S : TurnsAt(s, place, P, T, i)
  BY <1>15, TurningTurns
<1>17. T \in [S -> V]
  <2>1. T = [i \in S |-> T[i]]
    BY <1>13
  <2>2. \A i \in S : T[i] \in V
    BY <1>16, <1>1 DEF TurnsAt
  <2> QED
    BY <2>1, <2>2
<1>18. <<>> \o T = T
  <2>1. T \in Seq(V)
    <3> HIDE DEF V
    <3> QED BY <1>1, <1>17
  <2> HIDE DEF V
  <2> QED
    BY <2>1, EmptyFirst
<1> QED
  BY <1>14, <1>16, <1>17, <1>18

-----------------------------------------------------------------------------
(* The gap between two places that a search by value ends at.              *)

\* The link of x on level i leads across the gap behind place r.
Crosses(s, place, x, i, r) == place[x] <= r /\ r < Ahead(s, place, x, i)

\* The places at the ends of a link in use.
LEMMA AheadType ==
  ASSUME NEW s, NEW place, Shaped(s), Placed(s, place), Linked(s, place),
         NEW i \in 1..s.level, NEW x \in On(s, i)
  PROVE  /\ place[x] \in Nat /\ Ahead(s, place, x, i) \in Nat
         /\ place[x] < Ahead(s, place, x, i)
         /\ \A y \in On(s, i) : place[y] <= place[x] \/ Ahead(s, place, x, i) <= place[y]
         /\ Ahead(s, place, x, i) <= s.length + 1
<1>1. s.length \in Nat /\ \A y \in On(s, i) : place[y] \in 0..s.length
  BY Basics
<1>2. LinkedAt(s, place, x, i)
  BY DEF Linked
<1>3. forward(s, x, i) = Nil \/ forward(s, x, i) \in On(s, i)
  BY Basics
<1> QED
  BY <1>1, <1>2, <1>3 DEF LinkedAt, Ahead

\* The links at which a search turned are those that lead across the gap
\* behind the place where it ended.
LEMMA Gap ==
  ASSUME NEW s, NEW place, Shaped(s), Placed(s, place), Linked(s, place),
         NEW P \in SUBSET Nodes(s)
  PROVE  LET t == Turns(s, P)
             r == t[1].rank
         IN  /\ r \in 0..s.length
             /\ \A i \in 1..s.level :
                  /\ t[i].at \in On(s, i) /\ t[i].rank = place[t[i].at]
                  /\ \A x \in On(s, i) : x = t[i].at <=> Crosses(s, place, x, i, r)
             /\ t[1].at = Header \/ t[1].at \in P
             /\ forward(s, t[1].at, 1) \notin P
             /\ Ahead(s, place, t[1].at, 1) = r + 1
<1> DEFINE t == Turns(s, P)
           r == t[1].rank
<1>1. \A i \in 1..s.level : TurnsAt(s, place, P, t, i)
  BY TurnsEnd
<1> HIDE DEF t
<1>2. 1 \in 1..s.level /\ s.level \in Nat /\ s.length \in Nat
      /\ \A i \in 1..s.level : \A x \in On(s, i) : x \in On(s, 1) /\ place[x] \in 0..s.length
  BY Basics
<1>3. r \in 0..s.length /\ r = place[t[1].at] /\ t[1].at \in On(s, 1)
  BY <1>1, <1>2 DEF TurnsAt
<1>4. ASSUME NEW i \in 1..s.level
      PROVE  /\ t[i].at \in On(s, i) /\ t[i].rank = place[t[i].at]
             /\ Crosses(s, place, t[i].at, i, r)
  <2>1. TurnsAt(s, place, P, t, i) /\ TurnsAt(s, place, P, t, 1)
    BY <1>1, <1>2
  <2>2. t[i].at \in On(s, i) /\ t[i].rank = place[t[i].at]
    BY <2>1 DEF TurnsAt
  <2>3. t[i].rank <= r /\ t[i].rank \in Nat /\ i \in 1..s.level
        /\ \A y \in On(s, i) \ P : t[i].rank < place[y] => r < place[y]
    BY <2>1, <1>2 DEF TurnsAt
  <2> DEFINE f == forward(s, t[i].at, i)
  <2>4. f \notin P /\ (f = Nil \/ (f \in On(s, i) /\ place[t[i].at] < place[f]))
    BY <2>1, <2>2, Basics DEF TurnsAt
  <2>5. r < Ahead(s, place, t[i].at, i)
    <3>1. CASE f = Nil
      BY <3>1, <1>2, <1>3 DEF Ahead
    <3>2. CASE f # Nil
      BY <3>2, <2>2, <2>3, <2>4 DEF Ahead
    <3> QED
      BY <3>1, <3>2
  <2> QED
    BY <2>2, <2>3, <2>5 DEF Crosses
<1>5. ASSUME NEW i \in 1..s.level, NEW x \in On(s, i), Crosses(s, place, x, i, r)
      PROVE  x = t[i].at
  <2> DEFINE y == t[i].at
  <2>1. y \in On(s, i) /\ Crosses(s, place, y, i, r)
    BY <1>4
  <2> HIDE DEF y
  <2>2. place[y] <= place[x] \/ Ahead(s, place, x, i) <= place[y]
    BY AheadType, <2>1
  <2>3. place[x] <= place[y] \/ Ahead(s, place, y, i) <= place[x]
    BY AheadType, <2>1
  <2>4. place[x] \in Nat /\ place[y] \in Nat /\ Ahead(s, place, x, i) \in Nat
        /\ Ahead(s, place, y, i) \in Nat
    BY AheadType, <2>1
  <2>5. place[x] = place[y]
    BY <2>1, <2>2, <2>3, <2>4, <1>5, <1>3 DEF Crosses
  <2>6. x = y
    BY <2>1, <2>5, <1>2 DEF Placed
  <2> QED
    BY <2>6 DEF y
<1>6. /\ t[1].at = Header \/ t[1].at \in P
      /\ forward(s, t[1].at, 1) \notin P
  BY <1>1, <1>2 DEF TurnsAt
<1>7. Ahead(s, place, t[1].at, 1) = r + 1
  <2> DEFINE a == Ahead(s, place, t[1].at, 1)
  <2>1. a \in Nat /\ r < a /\ a <= s.length + 1
        /\ \A y \in On(s, 1) : place[y] <= r \/ a <= place[y]
    BY <1>2, <1>3, AheadType
  <2>2. CASE r = s.length
    BY <2>1, <2>2, <1>2
  <2>3. CASE r < s.length
    <3>1. PICK y \in On(s, 1) : place[y] = r + 1
      BY <2>3, <1>2, <1>3 DEF Placed
    <3> QED
      BY <3>1, <2>1, <1>3
  <2> QED
    BY <2>2, <2>3, <1>2, <1>3
<1> QED
  BY <1>3, <1>4, <1>5, <1>6, <1>7 DEF t

-----------------------------------------------------------------------------
(* insert, node by node, and what it arranges.                             *)

\* Relinking replaces links of nodes that are linked there, and nothing else.
LEMMA Relinked ==
  ASSUME NEW node, NodesShaped(node), NEW turn, NEW new,
         \A i \in DOMAIN turn : new[i] \in Link
  PROVE  LET new2 == Relink(node, turn, new)
         IN  /\ NodesShaped(new2)
             /\ \A x \in Node \cup {Header} :
                  /\ DOMAIN new2[x].level = DOMAIN node[x].level
                  /\ \A i \in DOMAIN node[x].level :
                       new2[x].level[i] = IF i \in DOMAIN turn /\ turn[i].at = x THEN new[i]
                                          ELSE node[x].level[i]
             /\ \A n \in Node, h \in Level : node[n] \in Member(h) =>
                  /\ new2[n] \in Member(h) /\ new2[n].key = node[n].key
                  /\ new2[n].value = node[n].value /\ new2[n].backward = node[n].backward
<1> DEFINE new2 == Relink(node, turn, new)
           links(l, x) == [i \in DOMAIN l |-> IF i \in DOMAIN turn /\ turn[i].at = x THEN new[i] ELSE l[i]]
<1>1. Header \notin Node
  BY DEF Header, Node
<1>2. DOMAIN node = Node \cup {Header}
  BY DEF NodesShaped
<1>3. new2 = [x \in Node \cup {Header} |-> [node[x] EXCEPT !.level = links(node[x].level, x)]]
  BY <1>2 DEF Relink
<1>4. \A l, x, I : l \in [I -> Link] => links(l, x) \in [I -> Link]
  OBVIOUS
<1>5. ASSUME NEW x \in Node \cup {Header}, "level" \in DOMAIN node[x]
      PROVE  /\ new2[x].level = links(node[x].level, x)
             /\ DOMAIN new2[x].level = DOMAIN node[x].level
             /\ \A i \in DOMAIN node[x].level :
                       new2[x].level[i] = IF i \in DOMAIN turn /\ turn[i].at = x THEN new[i]
                                          ELSE node[x].level[i]
  BY <1>3, <1>5
<1> HIDE DEF links, new2
<1>6. new2[Header] \in [level : [Level -> Link]] /\ "level" \in DOMAIN node[Header]
  BY <1>3, <1>4 DEF NodesShaped
<1>7. ASSUME NEW n \in Node, node[n] \in Empty
      PROVE  new2[n] \in Empty /\ "level" \in DOMAIN node[n]
  BY <1>3, <1>4, <1>7 DEF Empty
<1>8. ASSUME NEW n \in Node, NEW h \in Level, node[n] \in Member(h)
      PROVE  /\ "level" \in DOMAIN node[n]
             /\ new2[n] \in Member(h) /\ new2[n].key = node[n].key
             /\ new2[n].value = node[n].value /\ new2[n].backward = node[n].backward
  BY <1>3, <1>4, <1>8 DEF Member
<1>9. NodesShaped(new2)
  <2>1. new2 = [x \in Node \cup {Header} |-> new2[x]]
    BY <1>3
  <2> QED
    BY <1>6, <1>7, <1>8, <2>1 DEF NodesShaped
<1>10. \A x \in Node \cup {Header} : "level" \in DOMAIN node[x]
  BY <1>6, <1>7, <1>8 DEF NodesShaped
<1> QED
  BY <1>5, <1>8, <1>9, <1>10 DEF new2

\* Looking back changes one backward link.
LEMMA LookedBack ==
  ASSUME NEW node, NodesShaped(node), NEW x \in Node \cup {Nil}, NEW b \in Node \cup {Nil},
         x # Nil => \E h \in Level : node[x] \in Member(h),
         NEW new2, new2 = LookBack(node, x, b)
  PROVE  /\ NodesShaped(new2)
         /\ \A y \in Node \cup {Header} : new2[y].level = node[y].level
         /\ \A n \in Node, h \in Level : node[n] \in Member(h) =>
              /\ new2[n] \in Member(h) /\ new2[n].key = node[n].key
              /\ new2[n].value = node[n].value
              /\ new2[n].backward = IF n = x THEN b ELSE node[n].backward
<1>1. Header \notin Node /\ Nil \notin Node
  BY DEF Header, Node, Nil
<1>2. CASE x = Nil
  BY <1>1, <1>2 DEF LookBack
<1>3. CASE x # Nil
  <2>1. x \in Node /\ DOMAIN node = Node \cup {Header}
    BY <1>3 DEF NodesShaped
  <2>2. new2 = [y \in Node \cup {Header} |-> IF y = x THEN [node[x] EXCEPT !.backward = b] ELSE node[y]]
    BY <1>3, <2>1 DEF LookBack, NodesShaped
  <2>3. PICK h \in Level : node[x] \in Member(h)
    BY <1>3
  <2>4. ASSUME NEW g \in Level, node[x] \in Member(g)
        PROVE  /\ new2[x] \in Member(g) /\ new2[x].level = node[x].level
               /\ new2[x].key = node[x].key /\ new2[x].value = node[x].value
               /\ new2[x].backward = b
    BY <2>1, <2>2, <2>4 DEF Member
  <2>5. \A y \in Node \cup {Header} : y # x => new2[y] = node[y]
    BY <2>2
  <2>6. NodesShaped(new2)
    <3>1. new2 = [y \in Node \cup {Header} |-> new2[y]]
      BY <2>2
    <3> QED
      BY <3>1, <2>1, <2>3, <2>4, <2>5, <1>1 DEF NodesShaped
  <2> QED
    BY <2>1, <2>3, <2>4, <2>5, <2>6
<1> QED
  BY <1>2, <1>3

\* A link is its two fields.
LEMMA LinkFields ==
  ASSUME NEW l \in Link, NEW f \in Node \cup {Nil}, NEW d \in Nat
  PROVE  /\ l = [forward |-> l.forward, span |-> l.span]
         /\ [forward |-> f, span |-> d] \in Link
         /\ [l EXCEPT !.span = d] = [forward |-> l.forward, span |-> d]
         /\ [l EXCEPT !.span = d] \in Link
BY DEF Link

\* The greater of two numbers, as level and range use it.
LEMMA MaxOfTwo ==
  ASSUME NEW a \in Int, NEW b \in Int
  PROVE  Max({a, b}) = IF a >= b THEN a ELSE b
<1>1. \E x \in {a, b} : \A y \in {a, b} : x >= y
  OBVIOUS
<1>2. Max({a, b}) \in {a, b} /\ \A y \in {a, b} : Max({a, b}) >= y
  BY <1>1 DEF Max
<1> QED
  BY <1>2

\* Where insert turns on each level, the new ones included.
StopAt(s, t, i) == IF i > s.level THEN [at |-> Header, rank |-> 0] ELSE t[i]

\* What insert leaves of the nodes it finds, level by level.
LEMMA InsertedNodes ==
  ASSUME NEW s, NEW place, Shaped(s), Placed(s, place), Linked(s, place),
         NEW k \in Key, NEW v \in Value, NEW h \in Level, NEW n \in Node \ Nodes(s)
  PROVE  LET t  == Turns(s, AtLeast(s, v))
             r  == t[1].rank
             s2 == insert(s, k, v, h, n)
             at(i) == StopAt(s, t, i).at
             skipped(i) == r - StopAt(s, t, i).rank
             f  == forward(s, t[1].at, 1)
         IN  /\ Shaped(s2)
             /\ s2.length = s.length + 1
             /\ s2.level = IF h >= s.level THEN h ELSE s.level
             /\ s2.tail = IF f = Nil THEN n ELSE s.tail
             /\ \A i : On(s2, i) = On(s, i) \cup (IF i \in 1..h THEN {n} ELSE {})
             /\ \A i \in Level : \A x \in On(s, i) :
                  s2.node[x].level[i] =
                    IF ~(i <= s2.level /\ x = at(i)) THEN s.node[x].level[i]
                    ELSE IF i <= h THEN [forward |-> n, span |-> skipped(i) + 1]
                    ELSE [forward |-> forward(s, x, i), span |-> span(s, x, i) + 1]
             /\ \A i \in 1..h :
                  s2.node[n].level[i] =
                    [forward |-> forward(s, at(i), i),
                     span |-> (IF i > s.level THEN s.length ELSE span(s, at(i), i)) - skipped(i)]
             /\ \A m \in Nodes(s) :
                  /\ s2.node[m].key = s.node[m].key /\ s2.node[m].value = s.node[m].value
                  /\ s2.node[m].backward = IF m = f THEN n ELSE s.node[m].backward
             /\ s2.node[n].key = k /\ s2.node[n].value = v
             /\ s2.node[n].backward = IF t[1].at = Header THEN Nil ELSE t[1].at
<1> DEFINE P == AtLeast(s, v)
           t == Turns(s, P)
           r == t[1].rank
           f == forward(s, t[1].at, 1)
           s2 == insert(s, k, v, h, n)
           top == Max({h, s.level})
           turn == [i \in 1..top |-> IF i > s.level THEN [at |-> Header, rank |-> 0] ELSE t[i]]
           old == [i \in 1..top |-> LET l == s.node[turn[i].at].level[i]
                                    IN  IF i > s.level THEN [l EXCEPT !.span = s.length] ELSE l]
           skipped(i) == turn[1].rank - turn[i].rank
           links == [i \in 1..h |-> [old[i] EXCEPT !.span = @ - skipped(i)]]
           new == [i \in 1..top |-> IF i <= h THEN [forward |-> n, span |-> skipped(i) + 1]
                                    ELSE [old[i] EXCEPT !.span = @ + 1]]
           x == [key |-> k, value |-> v, level |-> links,
                 backward |-> IF turn[1].at = Header THEN Nil ELSE turn[1].at]
           next == links[1].forward
           node1 == Relink(s.node, turn, new)
           node2 == [node1 EXCEPT ![n] = x]
           node3 == LookBack(node2, next, n)
<1>1. s2 = [node |-> node3, tail |-> IF next = Nil THEN n ELSE s.tail,
            length |-> s.length + 1, level |-> top]
  BY DEF insert
<1>2. /\ s.level \in Nat /\ s.level \in Level /\ s.length \in Nat /\ 1 \in 1..s.level /\ h \in Nat
      /\ Level = 1..MaxLevel /\ MaxLevel \in Nat
  BY Basics, ZsetAssumption DEF Level
<1>3. top = (IF h >= s.level THEN h ELSE s.level) /\ top \in Level /\ top >= h /\ top >= s.level /\ top \in Nat
  BY <1>2, MaxOfTwo
<1>4. P \in SUBSET Nodes(s)
  BY DEF AtLeast
<1>5. /\ r \in 0..s.length
      /\ \A i \in 1..s.level :
           /\ t[i].at \in On(s, i) /\ t[i].rank = place[t[i].at]
           /\ \A y \in On(s, i) : y = t[i].at <=> Crosses(s, place, y, i, r)
      /\ t[1].at = Header \/ t[1].at \in P
      /\ Ahead(s, place, t[1].at, 1) = r + 1
  BY <1>4, Gap
<1> HIDE DEF top, t
<1>6. \A i \in 1..top :
        /\ turn[i] = StopAt(s, t, i)
        /\ old[i] = IF i > s.level THEN [s.node[turn[i].at].level[i] EXCEPT !.span = s.length]
                    ELSE s.node[turn[i].at].level[i]
  BY DEF StopAt
<1> HIDE DEF turn, old
<1>7. turn[1] = t[1] /\ 1 \in 1..top
  <2>1. 1 \in 1..top
    BY <1>2, <1>3
  <2>2. turn[1] = StopAt(s, t, 1)
    BY <2>1, <1>6
  <2>3. StopAt(s, t, 1) = t[1]
    BY <1>2 DEF StopAt
  <2> QED
    BY <2>1, <2>2, <2>3
<1>8. ASSUME NEW i \in 1..top
      PROVE  /\ i \in Level /\ turn[i].at \in On(s, i) /\ turn[i].rank \in 0..r
             /\ i > s.level => turn[i].at = Header
             /\ i <= s.level => turn[i] = t[i]
  <2>1. i \in Level
    BY <1>2, <1>3
  <2>2. CASE i > s.level
    <3>0. turn[i] = StopAt(s, t, i)
      BY <1>6
    <3>1. turn[i].at = Header /\ turn[i].rank = 0
      BY <2>2, <3>0 DEF StopAt
    <3>2. Header \in On(s, i)
      BY <2>1, Heights
    <3> QED
      BY <2>1, <2>2, <3>1, <3>2, <1>2, <1>5
  <2>3. CASE i <= s.level
    <3>0. turn[i] = StopAt(s, t, i)
      BY <1>6
    <3>1. turn[i] = t[i] /\ i \in 1..s.level
      BY <2>3, <1>2, <1>3, <3>0 DEF StopAt
    <3>2. t[i].at \in On(s, i) /\ t[i].rank = place[t[i].at] /\ Crosses(s, place, t[i].at, i, r)
      BY <3>1, <1>5
    <3>3. t[i].rank \in Nat /\ t[i].rank <= r
      BY <3>1, <3>2, AheadType DEF Crosses
    <3> QED
      BY <2>1, <2>3, <3>1, <3>2, <3>3, <1>2, <1>5
  <2> QED
    BY <2>2, <2>3, <1>2, <1>3
<1>9. ASSUME NEW i \in 1..top
      PROVE  /\ forward(s, turn[i].at, i) \in Node \cup {Nil} /\ span(s, turn[i].at, i) \in Nat
             /\ old[i] = [forward |-> forward(s, turn[i].at, i),
                          span |-> IF i > s.level THEN s.length ELSE span(s, turn[i].at, i)]
             /\ old[i] \in Link /\ old[i].forward = forward(s, turn[i].at, i)
             /\ old[i].span = IF i > s.level THEN s.length ELSE span(s, turn[i].at, i)
  <2> DEFINE l == s.node[turn[i].at].level[i]
  <2>1. turn[i].at \in On(s, i)
    BY <1>8
  <2>2. l \in Link /\ forward(s, turn[i].at, i) \in Node \cup {Nil} /\ span(s, turn[i].at, i) \in Nat
    BY <2>1, Heights
  <2>3. l.forward = forward(s, turn[i].at, i) /\ l.span = span(s, turn[i].at, i)
    BY DEF forward, span
  <2>4. old[i] = IF i > s.level THEN [l EXCEPT !.span = s.length] ELSE l
    BY <1>6
  <2> HIDE DEF l
  <2>5. CASE i > s.level
    BY <2>2, <2>3, <2>4, <2>5, <1>2 DEF Link
  <2>6. CASE ~(i > s.level)
    <3>1. old[i] = l
      BY <2>4, <2>6
    <3> QED
      BY <2>2, <2>3, <2>6, <3>1, <1>2 DEF Link
  <2> QED
    BY <2>5, <2>6
<1>10. ASSUME NEW i \in 1..top
       PROVE  /\ skipped(i) = r - StopAt(s, t, i).rank /\ skipped(i) \in Nat
              /\ old[i] \in Link /\ old[i].span - skipped(i) \in Nat
  <2>1. skipped(i) = r - StopAt(s, t, i).rank
    BY <1>6, <1>7
  <2>2. skipped(i) = r - turn[i].rank /\ skipped(i) \in Nat
    BY <1>7, <1>8, <1>5
  <2>3. old[i] \in Link /\ old[i].span = IF i > s.level THEN s.length ELSE span(s, turn[i].at, i)
    BY <1>9
  <2>4. CASE i > s.level
    BY <2>1, <2>2, <2>3, <2>4, <1>2, <1>5, <1>8
  <2>5. CASE i <= s.level
    <3> DEFINE y == t[i].at
    <3>1. i \in 1..s.level /\ turn[i] = t[i] /\ y \in On(s, i) /\ turn[i].rank = place[y]
          /\ Crosses(s, place, y, i, r)
      BY <2>5, <1>2, <1>3, <1>5, <1>8
    <3>2. LinkedAt(s, place, y, i) /\ r < Ahead(s, place, y, i) /\ place[y] \in Nat
      BY <3>1, AheadType DEF Linked, Crosses
    <3>3. span(s, y, i) = (IF forward(s, y, i) = Nil THEN s.length ELSE place[forward(s, y, i)]) - place[y]
      BY <3>2 DEF LinkedAt
    <3>4. forward(s, y, i) # Nil => place[forward(s, y, i)] \in Nat /\ place[forward(s, y, i)] > r
      BY <3>1, <3>2, Basics DEF Ahead
    <3>5. old[i].span = span(s, y, i) /\ skipped(i) = r - place[y]
      BY <2>2, <2>3, <2>5, <3>1, <1>2, <1>3
    <3>6. r \in Nat /\ s.length \in Nat /\ r <= s.length
      BY <1>2, <1>5
    <3>7. old[i].span - skipped(i) \in Nat
      <4> HIDE DEF y, skipped, r
      <4> QED BY <3>2, <3>3, <3>4, <3>5, <3>6
    <3> HIDE DEF y, skipped
    <3> QED
      BY <2>1, <2>2, <2>3, <3>7
  <2> QED
    BY <2>4, <2>5, <1>2, <1>3
<1>11. \A i \in 1..h : /\ i \in 1..top
                       /\ links[i] = [forward |-> forward(s, turn[i].at, i),
                                     span |-> old[i].span - skipped(i)]
                       /\ links[i] \in Link
  <2> SUFFICES ASSUME NEW i \in 1..h
               PROVE  /\ i \in 1..top
                      /\ links[i] = [forward |-> forward(s, turn[i].at, i),
                                    span |-> old[i].span - skipped(i)]
                      /\ links[i] \in Link
    OBVIOUS
  <2>1. i \in 1..top
    BY <1>2, <1>3
  <2>2. links[i] = [old[i] EXCEPT !.span = @ - skipped(i)]
    OBVIOUS
  <2> HIDE DEF links, skipped
  <2> QED
    <3>1. /\ old[i] \in Link /\ old[i].forward = forward(s, turn[i].at, i)
          /\ old[i].span - skipped(i) \in Nat
      BY <2>1, <1>9, <1>10
    <3> QED
      <4>1. skipped(i) \in Nat /\ old[i].span \in Nat
        BY <2>1, <1>9, <1>10 DEF Link
      <4>2. [old[i] EXCEPT !.span = @ - skipped(i)]
              = [forward |-> old[i].forward, span |-> old[i].span - skipped(i)]
        BY <3>1, <4>1 DEF Link
      <4> QED
        <5>1. links[i] = [forward |-> forward(s, turn[i].at, i), span |-> old[i].span - skipped(i)]
          BY <2>2, <3>1, <4>2
        <5>2. forward(s, turn[i].at, i) \in Node \cup {Nil}
          BY <2>1, <1>9
        <5> QED
          BY <2>1, <3>1, <5>1, <5>2 DEF Link
<1>12. \A i \in 1..top :
         /\ new[i] = IF i <= h THEN [forward |-> n, span |-> skipped(i) + 1]
                     ELSE [forward |-> forward(s, turn[i].at, i), span |-> span(s, turn[i].at, i) + 1]
         /\ new[i] \in Link
  <2> SUFFICES ASSUME NEW i \in 1..top
               PROVE  /\ new[i] = IF i <= h THEN [forward |-> n, span |-> skipped(i) + 1]
                           ELSE [forward |-> forward(s, turn[i].at, i), span |-> span(s, turn[i].at, i) + 1]
                      /\ new[i] \in Link
    OBVIOUS
  <2>1. new[i] = IF i <= h THEN [forward |-> n, span |-> skipped(i) + 1]
                 ELSE [old[i] EXCEPT !.span = @ + 1]
    OBVIOUS
  <2>2. CASE i <= h
    <3> HIDE DEF new, skipped
    <3> QED BY <2>1, <2>2, <1>10 DEF Link
  <2>3. CASE ~(i <= h)
    <3>1. i <= s.level
      BY <2>3, <1>2, <1>3
    <3>2. old[i] = [forward |-> forward(s, turn[i].at, i), span |-> span(s, turn[i].at, i)]
      BY <3>1, <1>2, <1>9
    <3> HIDE DEF new, skipped
    <3>3. old[i] \in Link /\ old[i].forward = forward(s, turn[i].at, i)
          /\ old[i].span = span(s, turn[i].at, i) /\ old[i].span \in Nat
      <4>1. /\ old[i] \in Link /\ old[i].forward = forward(s, turn[i].at, i)
            /\ old[i].span = IF i > s.level THEN s.length ELSE span(s, turn[i].at, i)
        BY <1>9
      <4>2. ~(i > s.level)
        BY <3>1, <1>2
      <4> QED
        BY <4>1, <4>2 DEF Link
    <3>4. [old[i] EXCEPT !.span = @ + 1] = [forward |-> old[i].forward, span |-> old[i].span + 1]
      BY <3>3 DEF Link
    <3> QED BY <2>1, <2>3, <3>3, <3>4 DEF Link
  <2> QED
    BY <2>2, <2>3
<1>13. links \in [1..h -> Link] /\ DOMAIN turn = 1..top
  <2>1. DOMAIN turn = 1..top
    BY DEF turn
  <2> QED
    BY <1>11, <2>1
<1>14. next = f /\ f \in Node \cup {Nil} /\ turn[1].at = t[1].at
  <2>1. 1 \in 1..h /\ 1 \in 1..top
    BY <1>2, <1>7
  <2>2. links[1] = [forward |-> forward(s, turn[1].at, 1), span |-> old[1].span - skipped(1)]
    BY <2>1, <1>11
  <2>3. next = forward(s, turn[1].at, 1)
    <3> HIDE DEF links, skipped
    <3> QED BY <2>2
  <2> HIDE DEF next
  <2> QED
    BY <2>1, <2>3, <1>7, <1>9
<1>15. f # Nil => f \in Nodes(s)
  BY <1>2, <1>5, Basics
<1>16. x \in Member(h) /\ x.key = k /\ x.value = v /\ x.level = links
       /\ x.backward = IF t[1].at = Header THEN Nil ELSE t[1].at
  <2>1. t[1].at = Header \/ t[1].at \in Node
    BY <1>4, <1>5 DEF Nodes, On
  <2> HIDE DEF links
  <2> QED
    BY <1>13, <1>14, <2>1 DEF Member
<1> HIDE DEF skipped, links, new, x, next
<1>17. NodesShaped(s.node) /\ Header \notin Node
  BY DEF Shaped, Header, Node
<1>18. /\ NodesShaped(node1)
       /\ \A y \in Node \cup {Header} :
            /\ DOMAIN node1[y].level = DOMAIN s.node[y].level
            /\ \A i \in DOMAIN s.node[y].level :
                 node1[y].level[i] = IF i \in 1..top /\ turn[i].at = y THEN new[i]
                                     ELSE s.node[y].level[i]
       /\ \A m \in Node, g \in Level : s.node[m] \in Member(g) =>
            /\ node1[m] \in Member(g) /\ node1[m].key = s.node[m].key
            /\ node1[m].value = s.node[m].value /\ node1[m].backward = s.node[m].backward
  <2>1. \A i \in DOMAIN turn : new[i] \in Link
    BY <1>12, <1>13
  <2> QED
    <3>1. /\ NodesShaped(node1)
          /\ \A y \in Node \cup {Header} :
               /\ DOMAIN node1[y].level = DOMAIN s.node[y].level
               /\ \A i \in DOMAIN s.node[y].level :
                    node1[y].level[i] = IF i \in DOMAIN turn /\ turn[i].at = y THEN new[i]
                                        ELSE s.node[y].level[i]
          /\ \A m \in Node, g \in Level : s.node[m] \in Member(g) =>
               /\ node1[m] \in Member(g) /\ node1[m].key = s.node[m].key
               /\ node1[m].value = s.node[m].value /\ node1[m].backward = s.node[m].backward
      BY <2>1, <1>17, Relinked
    <3> HIDE DEF node1
    <3> QED
      BY <3>1, <1>13
<1> HIDE DEF node1
<1>19. node2 = [y \in Node \cup {Header} |-> IF y = n THEN x ELSE node1[y]]
  BY <1>18 DEF NodesShaped
<1> HIDE DEF node2
<1>20. NodesShaped(node2)
  <2>1. node2 = [y \in Node \cup {Header} |-> node2[y]]
    BY <1>19
  <2> QED
    BY <2>1, <1>16, <1>17, <1>18, <1>19 DEF NodesShaped
<1>21. f # Nil => f # n /\ \E g \in Level : node2[f] \in Member(g)
  BY <1>14, <1>15, <1>18, <1>19, Heights
<1>22. /\ NodesShaped(node3)
       /\ \A y \in Node \cup {Header} : node3[y].level = node2[y].level
       /\ \A m \in Node, g \in Level : node2[m] \in Member(g) =>
            /\ node3[m] \in Member(g) /\ node3[m].key = node2[m].key
            /\ node3[m].value = node2[m].value
            /\ node3[m].backward = IF m = f THEN n ELSE node2[m].backward
  <2>1. /\ next \in Node \cup {Nil} /\ n \in Node \cup {Nil}
        /\ next # Nil => \E g \in Level : node2[next] \in Member(g)
    BY <1>14, <1>21
  <2>2. /\ NodesShaped(node3)
        /\ \A y \in Node \cup {Header} : node3[y].level = node2[y].level
        /\ \A m \in Node, g \in Level : node2[m] \in Member(g) =>
             /\ node3[m] \in Member(g) /\ node3[m].key = node2[m].key
             /\ node3[m].value = node2[m].value
             /\ node3[m].backward = IF m = next THEN n ELSE node2[m].backward
    <3>1. node3 = LookBack(node2, next, n)
      OBVIOUS
    <3> HIDE DEF node3
    <3> QED BY <2>1, <3>1, <1>20, LookedBack
  <2> QED
    BY <2>2, <1>14
<1> HIDE DEF node3
<1>23. /\ s2.node = node3 /\ s2.tail = (IF f = Nil THEN n ELSE s.tail)
       /\ s2.length = s.length + 1 /\ s2.level = top
       /\ s2 = [node |-> s2.node, tail |-> s2.tail, length |-> s2.length, level |-> s2.level]
  BY <1>1, <1>14
<1> HIDE DEF s2
<1>24. Shaped(s2)
  BY <1>2, <1>3, <1>22, <1>23 DEF Shaped
<1>25. \A y \in Node \cup {Header} : y # n => s2.node[y].level = node1[y].level
  BY <1>19, <1>22, <1>23
<1>26. s2.node[n].level = links /\ DOMAIN links = 1..h
  BY <1>13, <1>16, <1>19, <1>22, <1>23
<1>27. \A i : n \notin On(s, i)
  <2> SUFFICES ASSUME NEW i, n \in On(s, i) PROVE FALSE
    OBVIOUS
  <2>1. i \in Level /\ 1 \in 1..i
    BY <1>2, Heights
  <2>2. n \in On(s, 1)
    BY <2>1, Heights
  <2> QED
    BY <2>2, <1>17 DEF Nodes
<1>28. \A i : On(s2, i) = On(s, i) \cup (IF i \in 1..h THEN {n} ELSE {})
  <2> SUFFICES ASSUME NEW i, NEW y \in Node \cup {Header}
               PROVE  y \in On(s2, i) <=> y \in On(s, i) \/ (i \in 1..h /\ y = n)
    BY DEF On
  <2>1. CASE y = n
    BY <2>1, <1>26, <1>27 DEF On
  <2>2. CASE y # n
    BY <2>2, <1>18, <1>25 DEF On
  <2> QED
    BY <2>1, <2>2
<1>29. \A i \in Level : \A y \in On(s, i) :
         s2.node[y].level[i] =
           IF ~(i <= s2.level /\ y = StopAt(s, t, i).at) THEN s.node[y].level[i]
           ELSE IF i <= h THEN [forward |-> n, span |-> r - StopAt(s, t, i).rank + 1]
           ELSE [forward |-> forward(s, y, i), span |-> span(s, y, i) + 1]
  <2> SUFFICES ASSUME NEW i \in Level, NEW y \in On(s, i)
      PROVE  s2.node[y].level[i] =
               IF ~(i <= s2.level /\ y = StopAt(s, t, i).at) THEN s.node[y].level[i]
               ELSE IF i <= h THEN [forward |-> n, span |-> r - StopAt(s, t, i).rank + 1]
               ELSE [forward |-> forward(s, y, i), span |-> span(s, y, i) + 1]
    OBVIOUS
  <2>1. y \in Node \cup {Header} /\ y # n /\ i \in DOMAIN s.node[y].level
    BY <1>27 DEF On
  <2>2. s2.node[y].level[i] = IF i \in 1..top /\ turn[i].at = y THEN new[i] ELSE s.node[y].level[i]
    BY <2>1, <1>18, <1>25
  <2>3. i \in 1..top <=> i <= s2.level
    BY <1>2, <1>3, <1>23
  <2> QED
    BY <2>2, <2>3, <1>6, <1>10, <1>12
<1>30. \A i \in 1..h :
         s2.node[n].level[i] =
           [forward |-> forward(s, StopAt(s, t, i).at, i),
            span |-> (IF i > s.level THEN s.length ELSE span(s, StopAt(s, t, i).at, i))
                       - (r - StopAt(s, t, i).rank)]
  <2> SUFFICES ASSUME NEW i \in 1..h
      PROVE  s2.node[n].level[i] =
               [forward |-> forward(s, StopAt(s, t, i).at, i),
                span |-> (IF i > s.level THEN s.length ELSE span(s, StopAt(s, t, i).at, i))
                           - (r - StopAt(s, t, i).rank)]
    OBVIOUS
  <2>1. i \in 1..top /\ links[i] = [forward |-> forward(s, turn[i].at, i),
                                    span |-> old[i].span - skipped(i)]
    BY <1>11
  <2>2. old[i].span = IF i > s.level THEN s.length ELSE span(s, turn[i].at, i)
    BY <2>1, <1>9
  <2> QED
    BY <2>1, <2>2, <1>6, <1>10, <1>26
<1>31. \A m \in Nodes(s) :
         /\ s2.node[m].key = s.node[m].key /\ s2.node[m].value = s.node[m].value
         /\ s2.node[m].backward = IF m = f THEN n ELSE s.node[m].backward
  <2> SUFFICES ASSUME NEW m \in Nodes(s)
      PROVE  /\ s2.node[m].key = s.node[m].key /\ s2.node[m].value = s.node[m].value
             /\ s2.node[m].backward = IF m = f THEN n ELSE s.node[m].backward
    OBVIOUS
  <2>1. PICK g \in Level : m \in Node /\ m # n /\ s.node[m] \in Member(g)
    BY Heights
  <2>2. node2[m] = node1[m]
    BY <2>1, <1>19
  <2> QED
    BY <2>1, <2>2, <1>18, <1>22, <1>23
<1>32. /\ s2.node[n].key = k /\ s2.node[n].value = v
       /\ s2.node[n].backward = IF t[1].at = Header THEN Nil ELSE t[1].at
  <2>1. node2[n] = x /\ n # f
    BY <1>19, <1>21, <1>14, <1>17 DEF Nil, Node
  <2> QED
    BY <2>1, <1>16, <1>22, <1>23
<1> QED
  BY <1>3, <1>23, <1>24, <1>28, <1>29, <1>30, <1>31, <1>32 DEF s2, t

\* insert arranges its node behind the nodes of at least its value.
LEMMA Inserted ==
  ASSUME NEW s, NEW place, Arranged(s, place),
         NEW k \in Key, NEW v \in Value, NEW h \in Level, NEW n \in Node \ Nodes(s)
  PROVE  LET r  == Turns(s, AtLeast(s, v))[1].rank
             s2 == insert(s, k, v, h, n)
             place2 == [x \in On(s, 1) \cup {n} |->
                          IF x = n THEN r + 1 ELSE IF place[x] <= r THEN place[x] ELSE place[x] + 1]
         IN  /\ Arranged(s2, place2)
             /\ Nodes(s2) = Nodes(s) \cup {n}
             /\ \A m \in Nodes(s) : /\ place[m] <= r <=> s.node[m].value >= v
                                    /\ s2.node[m].key = s.node[m].key
                                    /\ s2.node[m].value = s.node[m].value
             /\ s2.node[n].key = k /\ s2.node[n].value = v
<1> USE DEF Arranged
<1> DEFINE P == AtLeast(s, v)
           t == Turns(s, P)
           r == t[1].rank
           f == forward(s, t[1].at, 1)
           s2 == insert(s, k, v, h, n)
           place2 == [x \in On(s, 1) \cup {n} |->
                        IF x = n THEN r + 1 ELSE IF place[x] <= r THEN place[x] ELSE place[x] + 1]
           shifted(p) == IF p <= r THEN p ELSE p + 1
<1>1. /\ s.level \in Nat /\ s.level \in Level /\ s.length \in Nat /\ 1 \in 1..s.level /\ h \in Nat
      /\ Level = 1..MaxLevel /\ MaxLevel \in Nat /\ h >= 1
      /\ \A x \in On(s, 1) : place[x] \in 0..s.length
      /\ place[Header] = 0 /\ Header \in On(s, 1) /\ Header \notin Node /\ Nil \notin Node \cup {Header}
  BY Basics, ZsetAssumption DEF Level, Header, Node, Nil
<1>2. P \in SUBSET Nodes(s) /\ \A m \in Nodes(s) : m \in P <=> s.node[m].value >= v
  BY DEF AtLeast
<1>3. /\ r \in 0..s.length
      /\ \A i \in 1..s.level :
           /\ t[i].at \in On(s, i) /\ t[i].rank = place[t[i].at]
           /\ \A x \in On(s, i) : x = t[i].at <=> Crosses(s, place, x, i, r)
      /\ t[1].at = Header \/ t[1].at \in P
      /\ f \notin P
      /\ Ahead(s, place, t[1].at, 1) = r + 1
  BY <1>2, Gap
<1>4. /\ Shaped(s2)
      /\ s2.length = s.length + 1
      /\ s2.level = IF h >= s.level THEN h ELSE s.level
      /\ s2.tail = IF f = Nil THEN n ELSE s.tail
      /\ \A i : On(s2, i) = On(s, i) \cup (IF i \in 1..h THEN {n} ELSE {})
      /\ \A i \in Level : \A x \in On(s, i) :
           s2.node[x].level[i] =
             IF ~(i <= s2.level /\ x = StopAt(s, t, i).at) THEN s.node[x].level[i]
             ELSE IF i <= h THEN [forward |-> n, span |-> r - StopAt(s, t, i).rank + 1]
             ELSE [forward |-> forward(s, x, i), span |-> span(s, x, i) + 1]
      /\ \A i \in 1..h :
           s2.node[n].level[i] =
             [forward |-> forward(s, StopAt(s, t, i).at, i),
              span |-> (IF i > s.level THEN s.length ELSE span(s, StopAt(s, t, i).at, i))
                         - (r - StopAt(s, t, i).rank)]
      /\ \A m \in Nodes(s) :
           /\ s2.node[m].key = s.node[m].key /\ s2.node[m].value = s.node[m].value
           /\ s2.node[m].backward = IF m = f THEN n ELSE s.node[m].backward
      /\ s2.node[n].key = k /\ s2.node[n].value = v
      /\ s2.node[n].backward = IF t[1].at = Header THEN Nil ELSE t[1].at
  BY InsertedNodes
<1> HIDE DEF t, s2
<1>5. /\ On(s2, 1) = On(s, 1) \cup {n} /\ n \notin On(s, 1) /\ n # Header /\ n # Nil
      /\ Nodes(s2) = Nodes(s) \cup {n} /\ Nodes(s) = On(s, 1) \ {Header}
  BY <1>1, <1>4 DEF Nodes
<1>6. /\ place2[n] = r + 1
      /\ \A x \in On(s, 1) : x # n /\ place2[x] = shifted(place[x]) /\ place2[x] \in 0..s2.length
      /\ r \in Nat /\ r <= s.length /\ \A x \in On(s, 1) : place[x] \in Nat
      /\ place2 \in [On(s2, 1) -> 0..s2.length]
  <2>1. r \in Nat /\ r <= s.length /\ \A x \in On(s, 1) : place[x] \in Nat /\ place[x] <= s.length
    BY <1>1, <1>3
  <2>2. place2[n] = r + 1 /\ s2.length = s.length + 1 /\ s.length \in Nat
    BY <1>1, <1>4
  <2>3. \A x \in On(s, 1) : x # n /\ place2[x] = shifted(place[x])
    BY <1>5
  <2> HIDE DEF r
  <2>4. \A x \in On(s, 1) : place2[x] \in 0..s2.length
    BY <2>1, <2>2, <2>3
  <2>5. place2 = [x \in On(s2, 1) |-> place2[x]]
    BY <1>5
  <2>6. \A x \in On(s2, 1) : place2[x] \in 0..s2.length
    BY <2>1, <2>2, <2>4, <1>5
  <2> HIDE DEF place2
  <2> QED
    BY <2>1, <2>2, <2>3, <2>4, <2>5, <2>6
<1> HIDE DEF place2
<1>7. Placed(s2, place2)
  <2>1. place2[Header] = 0
    BY <1>1, <1>6
  <2>2. ASSUME NEW x \in On(s2, 1), NEW y \in On(s2, 1), place2[x] = place2[y] PROVE x = y
    <3>1. CASE x = n \/ y = n
      BY <2>2, <3>1, <1>5, <1>6
    <3>2. CASE x # n /\ y # n
      <4>1. x \in On(s, 1) /\ y \in On(s, 1) /\ place[x] = place[y]
        BY <2>2, <3>2, <1>5, <1>6
      <4> QED
        BY <4>1 DEF Placed
    <3> QED
      BY <3>1, <3>2
  <2>3. ASSUME NEW p \in 0..s2.length PROVE \E x \in On(s2, 1) : place2[x] = p
    <3>1. CASE p = r + 1
      BY <3>1, <1>5, <1>6
    <3>2. CASE p # r + 1
      <4> DEFINE q == IF p <= r THEN p ELSE p - 1
      <4>1. q \in 0..s.length /\ shifted(q) = p
        BY <3>2, <1>1, <1>3, <1>4
      <4>2. PICK x \in On(s, 1) : place[x] = q
        BY <4>1 DEF Placed
      <4> QED
        BY <4>1, <4>2, <1>5, <1>6
    <3> QED
      BY <3>1, <3>2
  <2> QED
    BY <2>1, <2>2, <2>3, <1>6 DEF Placed
<1>8. ASSUME NEW i \in Level
      PROVE  /\ StopAt(s, t, i).at \in On(s, i) /\ StopAt(s, t, i).rank = place[StopAt(s, t, i).at]
             /\ place[StopAt(s, t, i).at] <= r
             /\ On(s, i) \subseteq On(s, 1)
             /\ i <= s.level => StopAt(s, t, i) = t[i]
             /\ i > s.level => StopAt(s, t, i).at = Header
  <2>1. On(s, i) \subseteq On(s, 1) /\ Header \in On(s, i)
    BY <1>1, Heights
  <2>2. CASE i > s.level
    BY <2>1, <2>2, <1>1, <1>6 DEF StopAt
  <2>3. CASE i <= s.level
    <3>1. i \in 1..s.level /\ StopAt(s, t, i) = t[i]
      BY <2>3, <1>1 DEF StopAt
    <3> QED
      BY <3>1, <2>1, <2>3, <1>1, <1>3 DEF Crosses
  <2> QED
    BY <2>2, <2>3, <1>1
\* the links that are not changed, or only lengthened
<1>9. ASSUME NEW i \in 1..s.level, NEW x \in On(s, i)
      PROVE  LET g == forward(s, x, i)
             IN  /\ g \in (On(s, i) \ {Header}) \cup {Nil} /\ g # n
                 /\ place[x] \in Nat /\ Ahead(s, place, x, i) \in Nat
                 /\ place[x] < Ahead(s, place, x, i)
                 /\ \A y \in On(s, i) : place[y] \in Nat /\ (place[y] <= place[x] \/ Ahead(s, place, x, i) <= place[y])
                 /\ g = Nil => Ahead(s, place, x, i) = s.length + 1 /\ span(s, x, i) = s.length - place[x]
                 /\ g # Nil => Ahead(s, place, x, i) = place[g] /\ span(s, x, i) = place[g] - place[x]
                               /\ place2[g] = shifted(place[g])
  <2> DEFINE g == forward(s, x, i)
  <2>1. g \in (On(s, i) \ {Header}) \cup {Nil} /\ LinkedAt(s, place, x, i) /\ On(s, i) \subseteq On(s, 1)
    BY <1>1, Basics DEF Linked, LinkedAt
  <2>2. /\ place[x] \in Nat /\ Ahead(s, place, x, i) \in Nat
        /\ place[x] < Ahead(s, place, x, i)
        /\ \A y \in On(s, i) : place[y] <= place[x] \/ Ahead(s, place, x, i) <= place[y]
    BY AheadType
  <2> QED
    BY <2>1, <2>2, <1>5, <1>6 DEF LinkedAt, Ahead
<1>10. ASSUME NEW i \in 1..s2.level
       PROVE  i \in Level /\ (i <= h \/ i <= s.level) /\ (i <= s.level => i \in 1..s.level)
              /\ (i > s.level => i <= h /\ On(s, i) = {Header} /\ forward(s, Header, i) = Nil)
              /\ (i <= h => i \in 1..h)
  BY <1>1, <1>4 DEF Linked
<1> DEFINE Sizes == /\ s2.length = s.length + 1 /\ s.length \in Nat
                    /\ place2[n] = r + 1 /\ r \in Nat /\ r <= s.length
<1>11. Sizes
  BY <1>1, <1>4, <1>6
\* the new node
<1>12. ASSUME NEW i \in 1..s2.level, i <= h
       PROVE  LinkedAt(s2, place2, n, i)
  <2> DEFINE a == StopAt(s, t, i).at
             g == forward(s, a, i)
  <2>1. /\ i \in 1..h /\ i \in Level /\ On(s2, i) = On(s, i) \cup {n} /\ On(s, i) \subseteq On(s, 1)
        /\ a \in On(s, i) /\ place[a] <= r /\ StopAt(s, t, i).rank = place[a]
    BY <1>4, <1>8, <1>10, <1>12
  <2>2. s2.node[n].level[i] = [forward |-> g,
          span |-> (IF i > s.level THEN s.length ELSE span(s, a, i)) - (r - place[a])]
    BY <1>4, <2>1
  <2>3. forward(s2, n, i) = g
        /\ span(s2, n, i) = (IF i > s.level THEN s.length ELSE span(s, a, i)) - (r - place[a])
    BY <2>2 DEF forward, span
  <2> HIDE DEF a
  <2>4. CASE i > s.level
    <3>1. a = Header /\ g = Nil /\ On(s, i) = {Header} /\ place[a] = 0
      BY <2>1, <2>4, <1>1, <1>10
    <3>2. Ahead(s2, place2, n, i) = s.length + 2
      BY <2>3, <3>1, <1>1, <1>4 DEF Ahead
    <3>3. \A y \in On(s2, i) : place2[y] <= place2[n]
      BY <2>1, <3>1, <1>1, <1>6
    <3>4. span(s2, n, i) = s2.length - place2[n]
      BY <2>3, <2>4, <3>1, <1>11
    <3> QED
      BY <2>3, <3>1, <3>2, <3>3, <3>4, <1>1, <1>6 DEF LinkedAt
  <2>5. CASE i <= s.level
    <3>1. i \in 1..s.level /\ Crosses(s, place, a, i, r)
      BY <2>1, <2>5, <1>3, <1>8, <1>10 DEF a
    <3>2. r < Ahead(s, place, a, i) /\ span(s2, n, i) = span(s, a, i) - (r - place[a])
      BY <2>3, <2>5, <3>1, <1>1, <1>10 DEF Crosses
    <3>3. Ahead(s2, place2, n, i) = Ahead(s, place, a, i) + 1
      <4>1. CASE g = Nil
        BY <2>1, <2>3, <3>1, <4>1, <1>9, <1>11 DEF Ahead
      <4>2. CASE g # Nil
        BY <2>1, <2>3, <3>1, <3>2, <4>2, <1>9, <1>11 DEF Ahead
      <4> QED
        BY <4>1, <4>2
    <3>4. \A y \in On(s, i) : place2[y] <= place2[n] \/ Ahead(s, place, a, i) + 1 <= place2[y]
      BY <2>1, <3>1, <3>2, <1>6, <1>9
    <3>5. span(s2, n, i) = (IF g = Nil THEN s2.length ELSE place2[g]) - place2[n]
      <4>1. place[a] \in Nat /\ Ahead(s, place, a, i) \in Nat
        BY <2>1, <3>1, <1>9
      <4>2. CASE g = Nil
        <5>1. span(s, a, i) = s.length - place[a]
          BY <2>1, <3>1, <4>2, <1>9
        <5> QED
          BY <3>2, <4>1, <4>2, <5>1, <1>11
      <4>3. CASE g # Nil
        <5>1. span(s, a, i) = place[g] - place[a] /\ Ahead(s, place, a, i) = place[g]
              /\ place2[g] = shifted(place[g])
          BY <2>1, <3>1, <4>3, <1>9
        <5> QED
          BY <3>2, <4>1, <4>3, <5>1, <1>11
      <4> QED
        BY <4>2, <4>3
    <3> QED
      BY <2>1, <2>3, <3>1, <3>2, <3>3, <3>4, <3>5, <1>6, <1>9 DEF LinkedAt
  <2> QED
    BY <2>4, <2>5, <1>1, <1>10
\* a link that now leads to it
<1>13. ASSUME NEW i \in 1..s2.level, i <= h
       PROVE  LinkedAt(s2, place2, StopAt(s, t, i).at, i)
  <2> DEFINE a == StopAt(s, t, i).at
  <2>1. /\ i \in 1..h /\ i \in Level /\ On(s2, i) = On(s, i) \cup {n} /\ On(s, i) \subseteq On(s, 1)
        /\ a \in On(s, i) /\ place[a] <= r /\ StopAt(s, t, i).rank = place[a] /\ i <= s2.level
    BY <1>1, <1>4, <1>8, <1>10, <1>13
  <2>2. s2.node[a].level[i] = [forward |-> n, span |-> r - place[a] + 1]
    BY <1>4, <1>13, <2>1
  <2>3. forward(s2, a, i) = n /\ span(s2, a, i) = r - place[a] + 1
    BY <2>2 DEF forward, span
  <2> HIDE DEF a
  <2>4. place2[a] = place[a] /\ place[a] \in Nat /\ Ahead(s2, place2, a, i) = r + 1
    BY <2>1, <2>3, <1>5, <1>6 DEF Ahead
  <2>5. \A y \in On(s, i) : place2[y] <= place2[a] \/ r + 1 <= place2[y]
    <3>1. CASE i > s.level
      BY <2>1, <2>4, <3>1, <1>1, <1>6, <1>8, <1>10 DEF a
    <3>2. CASE i <= s.level
      <4>1. i \in 1..s.level /\ Crosses(s, place, a, i, r)
        BY <2>1, <3>2, <1>3, <1>8, <1>10 DEF a
      <4> QED
        BY <2>1, <2>4, <4>1, <1>6, <1>9 DEF Crosses
    <3> QED
      BY <3>1, <3>2, <1>1, <1>10
  <2> QED
    BY <2>1, <2>3, <2>4, <2>5, <1>5, <1>6 DEF LinkedAt, a
\* a link that leads over it, and the others
<1>14. ASSUME NEW i \in 1..s2.level, NEW x \in On(s, i), ~(i <= h /\ x = StopAt(s, t, i).at)
       PROVE  LinkedAt(s2, place2, x, i)
  <2> DEFINE g == forward(s, x, i)
  <2>1. i \in 1..s.level /\ i \in Level /\ i <= s2.level /\ On(s, i) \subseteq On(s, 1)
    <3>1. CASE i > s.level
      BY <3>1, <1>8, <1>10, <1>14
    <3>2. CASE i <= s.level
      BY <3>2, <1>1, <1>4, <1>8, <1>10
    <3> QED
      BY <3>1, <3>2, <1>1, <1>10
  <2>2. forward(s2, x, i) = g
        /\ span(s2, x, i) = IF x = t[i].at THEN span(s, x, i) + 1 ELSE span(s, x, i)
    <3>1. StopAt(s, t, i).at = t[i].at
      BY <2>1, <1>8
    <3>2. s2.node[x].level[i] = IF x = t[i].at THEN [forward |-> g, span |-> span(s, x, i) + 1]
                                ELSE s.node[x].level[i]
      BY <2>1, <3>1, <1>4, <1>14
    <3> QED
      BY <3>2 DEF forward, span
  <2>3. x = t[i].at <=> Crosses(s, place, x, i, r)
    BY <2>1, <1>3
  <2>4. Ahead(s2, place2, x, i) = shifted(Ahead(s, place, x, i))
    BY <2>1, <2>2, <1>1, <1>4, <1>6, <1>9 DEF Ahead
  <2>5. place2[x] = shifted(place[x]) /\ place2[x] \in Nat /\ place[x] < Ahead(s, place, x, i)
        /\ place[x] \in Nat /\ Ahead(s, place, x, i) \in Nat
    BY <2>1, <1>6, <1>9
  <2>6. span(s2, x, i) = (IF g = Nil THEN s2.length ELSE place2[g]) - place2[x]
    <3>1. CASE g = Nil
      <4>1. span(s, x, i) = s.length - place[x] /\ Ahead(s, place, x, i) = s.length + 1
        BY <2>1, <3>1, <1>9
      <4> QED
        BY <2>2, <2>3, <2>5, <3>1, <4>1, <1>11 DEF Crosses
    <3>2. CASE g # Nil
      <4>1. span(s, x, i) = place[g] - place[x] /\ Ahead(s, place, x, i) = place[g]
            /\ place2[g] = shifted(place[g])
        BY <2>1, <3>2, <1>9
      <4> QED
        BY <2>2, <2>3, <2>5, <3>2, <4>1, <1>11 DEF Crosses
    <3> QED
      BY <3>1, <3>2
  <2>7. \A y \in On(s, i) : place2[y] <= place2[x] \/ shifted(Ahead(s, place, x, i)) <= place2[y]
    BY <2>1, <2>5, <1>6, <1>9
  <2>8. n \in On(s2, i) => place2[n] <= place2[x] \/ shifted(Ahead(s, place, x, i)) <= place2[n]
    <3>1. n \in On(s2, i) => i <= h
      BY <1>1, <1>4, <1>5, <2>1
    <3>2. i <= h => ~Crosses(s, place, x, i, r)
      BY <2>1, <2>3, <1>8, <1>14
    <3> QED
      BY <3>1, <3>2, <2>5, <1>6 DEF Crosses
  <2>9. \A y \in On(s2, i) : y = n \/ y \in On(s, i)
    BY <1>4, <2>1
  <2>10. g \in (On(s2, i) \ {Header}) \cup {Nil}
    BY <1>4, <1>9, <2>1
  <2> QED
    BY <2>2, <2>4, <2>5, <2>6, <2>7, <2>8, <2>9, <2>10, <1>6 DEF LinkedAt
<1>15. Linked(s2, place2)
  <2>1. ASSUME NEW i \in 1..s2.level, NEW x \in On(s2, i) PROVE LinkedAt(s2, place2, x, i)
    <3>1. x \in On(s, i) \/ (x = n /\ i <= h)
      BY <1>1, <1>4, <1>10
    <3> QED
      BY <3>1, <1>12, <1>13, <1>14
  <2>2. ASSUME NEW i \in Level, i > s2.level
        PROVE  On(s2, i) = {Header} /\ forward(s2, Header, i) = Nil
    <3>1. ~(i <= h) /\ i > s.level /\ ~(i <= s2.level)
      BY <2>2, <1>1, <1>4
    <3>2. On(s, i) = {Header} /\ forward(s, Header, i) = Nil
      BY <3>1 DEF Linked
    <3>3. On(s2, i) = {Header}
      <4>1. On(s2, i) = On(s, i) \cup (IF i \in 1..h THEN {n} ELSE {})
        BY <1>4
      <4>2. i \notin 1..h
        BY <3>1, <1>1
      <4> QED
        BY <4>1, <4>2, <3>2
    <3>4. s2.node[Header].level[i] = s.node[Header].level[i]
      BY <3>1, <3>2, <1>4
    <3> QED
      BY <3>2, <3>3, <3>4 DEF forward
  <2> QED
    BY <2>1, <2>2 DEF Linked
<1>16. \A m \in Nodes(s) : place[m] <= r <=> s.node[m].value >= v
  <2> SUFFICES ASSUME NEW m \in Nodes(s)
               PROVE  place[m] <= r <=> s.node[m].value >= v
    OBVIOUS
  <2>1. /\ t[1].at \in On(s, 1) /\ Crosses(s, place, t[1].at, 1, r) /\ t[1].rank = place[t[1].at]
        /\ m \in On(s, 1) /\ m # Header
    BY <1>1, <1>3, <1>5
  <2>2. \A x \in Nodes(s) : s.node[x].value \in Int /\ place[x] \in Nat
    BY <1>5, <1>6, Heights, ZsetAssumption
  <2>3. v \in Int
    BY ZsetAssumption
  <2>4. CASE place[m] <= r
    <3>1. t[1].at # Header
      BY <2>1, <2>2, <2>4, <1>1, <1>11 DEF Placed
    <3>2. t[1].at \in Nodes(s) /\ s.node[t[1].at].value >= v
      BY <3>1, <1>2, <1>3
    <3>3. s.node[m].value >= s.node[t[1].at].value
      <4>1. CASE place[m] = r
        BY <4>1, <2>1, <2>2 DEF Placed
      <4>2. CASE place[m] < r
        BY <4>2, <2>1, <3>2 DEF Falling
      <4> QED
        BY <4>1, <4>2, <2>2, <2>4, <1>11
    <3> QED
      BY <2>2, <2>3, <2>4, <3>2, <3>3
  <2>5. CASE ~(place[m] <= r)
    <3>1. f # Nil
      BY <2>1, <2>5, <1>1, <1>3, <1>11 DEF Ahead
    <3>2. f \in Nodes(s) /\ place[f] = r + 1 /\ ~(s.node[f].value >= v)
      BY <3>1, <1>1, <1>2, <1>3, <1>5, <1>9, <2>1
    <3>3. s.node[f].value >= s.node[m].value
      <4>1. CASE place[m] = r + 1
        BY <4>1, <3>2, <2>1, <2>2, <1>5 DEF Placed
      <4>2. CASE place[m] > r + 1
        BY <4>2, <3>2 DEF Falling
      <4> QED
        BY <4>1, <4>2, <2>2, <2>5, <1>11
    <3> QED
      BY <2>2, <2>3, <2>5, <3>2, <3>3
  <2> QED
    BY <2>4, <2>5
<1>17. Falling(s2, place2)
  <2> SUFFICES ASSUME NEW x \in Nodes(s2), NEW y \in Nodes(s2), place2[x] < place2[y]
               PROVE  s2.node[x].value >= s2.node[y].value
    BY DEF Falling
  <2>1. /\ \A m \in Nodes(s) : s2.node[m].value = s.node[m].value /\ s.node[m].value \in Int
        /\ s2.node[n].value = v /\ v \in Int
    BY <1>4, Heights, ZsetAssumption
  <2>2. \A m \in Nodes(s) : place[m] \in Nat /\ place2[m] = shifted(place[m])
    BY <1>5, <1>6
  <2>3. CASE x = n /\ y = n
    BY <2>3, <1>11
  <2>4. CASE x = n /\ y \in Nodes(s)
    BY <2>1, <2>2, <2>4, <1>11, <1>16
  <2>5. CASE x \in Nodes(s) /\ y = n
    BY <2>1, <2>2, <2>5, <1>11, <1>16
  <2>6. CASE x \in Nodes(s) /\ y \in Nodes(s)
    <3>1. place[x] < place[y]
      BY <2>2, <2>6, <1>11
    <3> QED
      BY <2>1, <2>6, <3>1 DEF Falling
  <2> QED
    BY <2>3, <2>4, <2>5, <2>6, <1>5
<1>18. Backward(s2, place2)
  <2>1. /\ t[1].at \in On(s, 1) /\ t[1].rank = place[t[1].at]
    BY <1>1, <1>3
  <2>2. f # Nil => f \in Nodes(s) /\ place[f] = r + 1
    BY <2>1, <1>1, <1>3, <1>5, <1>9
  <2>3. \A m \in Nodes(s) : m # n /\ m \in On(s, 1) /\ place[m] \in Nat /\ place2[m] = shifted(place[m])
    BY <1>5, <1>6
  <2>4. ASSUME NEW m \in Nodes(s)
        PROVE  LET b == s2.node[m].backward
               IN  IF b = Nil THEN place2[m] = 1 ELSE b \in Nodes(s2) /\ place2[b] = place2[m] - 1
    <3>1. s2.node[m].backward = IF m = f THEN n ELSE s.node[m].backward
      BY <1>4
    <3>2. CASE m = f
      <4>1. s2.node[m].backward = n /\ place[m] = r + 1 /\ n # Nil
        <5>1. m # Nil
          BY <1>1, <1>5 DEF On
        <5> QED
          BY <2>2, <3>1, <3>2, <5>1, <1>5
      <4> QED
        BY <2>3, <4>1, <1>5, <1>11
    <3>3. CASE m # f
      <4> DEFINE b == s.node[m].backward
      <4>1. s2.node[m].backward = b
            /\ IF b = Nil THEN place[m] = 1 ELSE b \in Nodes(s) /\ place[b] = place[m] - 1
        BY <3>1, <3>3 DEF Backward
      <4>2. place[m] # r + 1
        <5>1. CASE f = Nil
          BY <5>1, <2>1, <2>3, <1>1, <1>3, <1>11 DEF Ahead
        <5>2. CASE f # Nil
          BY <5>2, <2>2, <2>3, <3>3, <1>5 DEF Placed
        <5> QED
          BY <5>1, <5>2
      <4> HIDE DEF b
      <4>3. CASE b = Nil
        BY <2>3, <4>1, <4>2, <4>3, <1>11
      <4>4. CASE b # Nil
        BY <2>3, <4>1, <4>2, <4>4, <1>5, <1>11
      <4> QED
        BY <4>3, <4>4
    <3> QED
      BY <3>2, <3>3
  <2>5. LET b == s2.node[n].backward
        IN  IF b = Nil THEN place2[n] = 1 ELSE b \in Nodes(s2) /\ place2[b] = place2[n] - 1
    <3>1. s2.node[n].backward = IF t[1].at = Header THEN Nil ELSE t[1].at
      BY <1>4
    <3>2. CASE t[1].at = Header
      BY <2>1, <3>1, <3>2, <1>1, <1>11
    <3>3. CASE t[1].at # Header
      <4>1. t[1].at \in Nodes(s) /\ t[1].at # Nil
        BY <2>1, <3>3, <1>1, <1>5 DEF On
      <4> QED
        BY <2>1, <2>3, <3>1, <3>3, <4>1, <1>5, <1>11
    <3> QED
      BY <3>2, <3>3
  <2>6. IF s2.tail = Nil THEN s2.length = 0 ELSE s2.tail \in Nodes(s2) /\ place2[s2.tail] = s2.length
    <3>1. CASE f = Nil
      <4>1. s2.tail = n /\ r = s.length
        BY <2>1, <3>1, <1>3, <1>4, <1>11 DEF Ahead
      <4> QED
        BY <4>1, <1>5, <1>11
    <3>2. CASE f # Nil
      <4>1. s2.tail = s.tail /\ f \in Nodes(s) /\ place[f] = r + 1
        BY <2>2, <3>2, <1>4
      <4>2. r + 1 <= s.length
        BY <4>1, <1>1, <1>5
      <4>3. s.tail # Nil /\ s.tail \in Nodes(s) /\ place[s.tail] = s.length
        BY <4>2, <1>11 DEF Backward
      <4> QED
        BY <4>1, <4>2, <4>3, <2>3, <1>5, <1>11
    <3> QED
      BY <3>1, <3>2
  <2> QED
    BY <2>4, <2>5, <2>6, <1>5 DEF Backward
<1> QED
  BY <1>4, <1>5, <1>7, <1>15, <1>16, <1>17, <1>18 DEF s2, t, place2

-----------------------------------------------------------------------------
(* deleteNode, node by node, and what it arranges.                         *)

\* A set of numbers below a bound that has an element has a greatest one.
LEMMA MaxIsThere ==
  ASSUME NEW N \in Nat, NEW S \in SUBSET (1..N), S # {}
  PROVE  Max(S) \in S /\ \A x \in S : Max(S) >= x
<1> DEFINE m == [x \in S |-> N - x]
<1>1. \A x \in S : m[x] \in Nat
  OBVIOUS
<1>2. PICK x \in S : \A y \in S : m[x] <= m[y]
  <2> HIDE DEF m
  <2>1. S \in SUBSET S
    OBVIOUS
  <2> QED
    BY <1>1, <2>1, LeastOf
<1>3. \A y \in S : x >= y
  BY <1>2
<1> QED
  BY <1>3 DEF Max

\* On the lowest level each link leads to the next place.
LEMMA NextPlace ==
  ASSUME NEW s, NEW place, Shaped(s), Placed(s, place), Linked(s, place), NEW x \in On(s, 1)
  PROVE  Ahead(s, place, x, 1) = place[x] + 1
<1> DEFINE a == Ahead(s, place, x, 1)
<1>1. /\ 1 \in 1..s.level /\ s.length \in Nat
      /\ \A y \in On(s, 1) : place[y] \in Nat /\ place[y] <= s.length
  BY Basics
<1>2. a \in Nat /\ place[x] < a /\ a <= s.length + 1
      /\ \A y \in On(s, 1) : place[y] <= place[x] \/ a <= place[y]
  BY <1>1, AheadType
<1> HIDE DEF a
<1>3. CASE place[x] = s.length
  BY <1>1, <1>2, <1>3 DEF a
<1>4. CASE place[x] # s.length
  <2>1. place[x] + 1 \in 0..s.length
    BY <1>1, <1>4
  <2>2. PICK y \in On(s, 1) : place[y] = place[x] + 1
    BY <2>1 DEF Placed
  <2> QED
    BY <2>2, <1>1, <1>2 DEF a
<1> QED
  BY <1>3, <1>4 DEF a

\* What deleteNode leaves of the other nodes, level by level.
LEMMA DeletedNodes ==
  ASSUME NEW s, NEW place, Shaped(s), Placed(s, place), Linked(s, place),
         NEW P \in SUBSET Nodes(s), forward(s, Turns(s, P)[1].at, 1) # Nil
  PROVE  LET t  == Turns(s, P)
             n  == forward(s, t[1].at, 1)
             s2 == deleteNode(s, n, t)
             f  == forward(s, n, 1)
         IN  /\ Shaped(s2)
             /\ s2.length = s.length - 1
             /\ s2.level = Max({l \in 1..s.level : l <= 2 \/ forward(s2, Header, l - 1) # Nil})
             /\ s2.tail = IF f = Nil THEN s.node[n].backward ELSE s.tail
             /\ \A i : On(s2, i) = On(s, i) \ {n}
             /\ \A i \in Level : \A x \in On(s, i) \ {n} :
                  s2.node[x].level[i] =
                    IF ~(i <= s.level /\ x = t[i].at) THEN s.node[x].level[i]
                    ELSE IF forward(s, x, i) = n
                    THEN [forward |-> forward(s, n, i), span |-> span(s, x, i) + span(s, n, i) - 1]
                    ELSE [forward |-> forward(s, x, i), span |-> span(s, x, i) - 1]
             /\ \A m \in Nodes(s) \ {n} :
                  /\ s2.node[m].key = s.node[m].key /\ s2.node[m].value = s.node[m].value
                  /\ s2.node[m].backward = IF m = f THEN s.node[n].backward ELSE s.node[m].backward
<1> DEFINE t == Turns(s, P)
           r == t[1].rank
           n == forward(s, t[1].at, 1)
           s2 == deleteNode(s, n, t)
           f == forward(s, n, 1)
           gone == s.node[n]
           new == [i \in 1..s.level |-> Unlinked(s.node[t[i].at].level[i], i, n, gone.level)]
           node1 == Relink(s.node, t, new)
           node2 == [node1 EXCEPT ![n] = Free]
           node3 == LookBack(node2, f, gone.backward)
           rest == [s EXCEPT !.node = node3,
                             !.tail = IF f = Nil THEN gone.backward ELSE @,
                             !.length = @ - 1]
<1>1. s2 = [rest EXCEPT !.level = ShrunkLevel(rest)]
  BY DEF deleteNode
<1>2. /\ s.level \in Nat /\ s.level \in Level /\ s.length \in Nat /\ 1 \in 1..s.level
      /\ Level = 1..MaxLevel /\ MaxLevel \in Nat
      /\ \A x \in On(s, 1) : place[x] \in Nat /\ place[x] <= s.length
      /\ Header \notin Node /\ Nil \notin Node \cup {Header}
      /\ NodesShaped(s.node)
  BY Basics, ZsetAssumption DEF Level, Header, Node, Nil, Shaped
<1>3. /\ r \in 0..s.length
      /\ \A i \in 1..s.level :
           /\ t[i].at \in On(s, i) /\ t[i].rank = place[t[i].at]
           /\ \A x \in On(s, i) : x = t[i].at <=> Crosses(s, place, x, i, r)
      /\ Ahead(s, place, t[1].at, 1) = r + 1
  BY Gap
<1>4. DOMAIN t = 1..s.level
  BY TurnsEnd
<1>5. n \in Nodes(s) /\ n \in Node /\ n \in On(s, 1) /\ n # Nil /\ place[n] = r + 1 /\ r + 1 <= s.length
  <2>1. n # Nil /\ t[1].at \in On(s, 1)
    BY <1>2, <1>3
  <2>2. n \in Nodes(s) /\ n \in On(s, 1) /\ place[n] = r + 1
    BY <2>1, <1>2, <1>3, Basics DEF Ahead
  <2> QED
    BY <2>1, <2>2, <1>2, Heights
<1> HIDE DEF t, n
<1>6. ASSUME NEW i \in 1..s.level
      PROVE  LET x == t[i].at
             IN  /\ i \in Level /\ x \in On(s, i)
                 /\ s.node[x].level[i] \in Link
                 /\ forward(s, x, i) \in Node \cup {Nil} /\ span(s, x, i) \in Nat /\ span(s, x, i) >= 1
                 /\ forward(s, x, i) = n => /\ n \in On(s, i) /\ gone.level[i] \in Link
                                            /\ forward(s, n, i) \in Node \cup {Nil} /\ span(s, n, i) \in Nat
  <2> DEFINE x == t[i].at
             g == forward(s, x, i)
  <2>1. i \in Level /\ x \in On(s, i) /\ Crosses(s, place, x, i, r)
    BY <1>2, <1>3
  <2> HIDE DEF x
  <2>2. s.node[x].level[i] \in Link /\ g \in Node \cup {Nil} /\ span(s, x, i) \in Nat
    BY <2>1, Heights
  <2>3. g = n => n \in On(s, i)
    BY <2>1, <1>5, Basics
  <2>4. g = n => gone.level[i] \in Link /\ forward(s, n, i) \in Node \cup {Nil} /\ span(s, n, i) \in Nat
    BY <2>3, Heights
  <2>5. LinkedAt(s, place, x, i)
    BY <2>1 DEF Linked
  <2>6. span(s, x, i) >= 1
    <3>1. place[x] \in Nat /\ place[x] <= r /\ r < Ahead(s, place, x, i)
      BY <2>1, AheadType DEF Crosses
    <3>2. CASE g = Nil
      BY <2>5, <3>1, <3>2, <1>2, <1>3, <1>5 DEF LinkedAt
    <3>3. CASE g # Nil
      <4>1. place[g] \in Nat
        BY <2>1, <3>3, <1>2, Basics
      <4> QED
        BY <2>5, <3>1, <3>3, <4>1, <1>2, <1>3 DEF LinkedAt, Ahead
    <3> QED
      BY <3>2, <3>3
  <2> QED
    BY <2>1, <2>2, <2>3, <2>4, <2>6 DEF x
<1>7. ASSUME NEW i \in 1..s.level
      PROVE  LET x == t[i].at
             IN  /\ new[i] = IF forward(s, x, i) = n
                     THEN [forward |-> forward(s, n, i), span |-> span(s, x, i) + span(s, n, i) - 1]
                     ELSE [forward |-> forward(s, x, i), span |-> span(s, x, i) - 1]
                 /\ new[i] \in Link
  <2> DEFINE x == t[i].at
             l == s.node[x].level[i]
             d == gone.level[i]
  <2>1. new[i] = IF l.forward = n THEN [forward |-> d.forward, span |-> l.span + d.span - 1]
                 ELSE [l EXCEPT !.span = @ - 1]
    BY DEF Unlinked
  <2>2. l.forward = forward(s, x, i) /\ l.span = span(s, x, i)
        /\ d.forward = forward(s, n, i) /\ d.span = span(s, n, i)
    BY DEF forward, span
  <2>3. /\ l \in Link /\ l.span \in Nat /\ l.span >= 1 /\ l.forward \in Node \cup {Nil}
        /\ l.forward = n => d \in Link /\ d.span \in Nat /\ d.forward \in Node \cup {Nil}
    BY <2>2, <1>6
  <2> HIDE DEF l, d, new
  <2>4. CASE l.forward = n
    <3>1. new[i] = [forward |-> d.forward, span |-> l.span + d.span - 1]
          /\ l.span + d.span - 1 \in Nat
      BY <2>1, <2>3, <2>4
    <3> QED
      BY <2>2, <2>3, <2>4, <3>1 DEF Link
  <2>5. CASE l.forward # n
    <3>1. new[i] = [forward |-> l.forward, span |-> l.span - 1] /\ l.span - 1 \in Nat
      BY <2>1, <2>3, <2>5 DEF Link
    <3> QED
      BY <2>2, <2>3, <2>5, <3>1 DEF Link
  <2> QED
    BY <2>4, <2>5
<1> HIDE DEF new
<1>8. /\ NodesShaped(node1)
      /\ \A y \in Node \cup {Header} :
           /\ DOMAIN node1[y].level = DOMAIN s.node[y].level
           /\ \A i \in DOMAIN s.node[y].level :
                node1[y].level[i] = IF i \in 1..s.level /\ t[i].at = y THEN new[i]
                                    ELSE s.node[y].level[i]
      /\ \A m \in Node, g \in Level : s.node[m] \in Member(g) =>
           /\ node1[m] \in Member(g) /\ node1[m].key = s.node[m].key
           /\ node1[m].value = s.node[m].value /\ node1[m].backward = s.node[m].backward
  <2>1. \A i \in DOMAIN t : new[i] \in Link
    BY <1>4, <1>7
  <2>2. /\ NodesShaped(node1)
        /\ \A y \in Node \cup {Header} :
             /\ DOMAIN node1[y].level = DOMAIN s.node[y].level
             /\ \A i \in DOMAIN s.node[y].level :
                  node1[y].level[i] = IF i \in DOMAIN t /\ t[i].at = y THEN new[i]
                                      ELSE s.node[y].level[i]
        /\ \A m \in Node, g \in Level : s.node[m] \in Member(g) =>
             /\ node1[m] \in Member(g) /\ node1[m].key = s.node[m].key
             /\ node1[m].value = s.node[m].value /\ node1[m].backward = s.node[m].backward
    BY <2>1, <1>2, Relinked
  <2> HIDE DEF node1
  <2> QED
    BY <2>2, <1>4
<1> HIDE DEF node1
<1>9. /\ node2 = [y \in Node \cup {Header} |-> IF y = n THEN Free ELSE node1[y]]
      /\ Free \in Empty /\ DOMAIN Free.level = {}
  <2>1. <<>> \in [{} -> Link]
    OBVIOUS
  <2> QED
    BY <2>1, <1>5, <1>8 DEF NodesShaped, Free, Empty
<1> HIDE DEF node2
<1>10. NodesShaped(node2)
  <2>1. node2 = [y \in Node \cup {Header} |-> node2[y]]
    BY <1>9
  <2> QED
    BY <2>1, <1>2, <1>5, <1>8, <1>9 DEF NodesShaped
<1>11. /\ f \in Node \cup {Nil} /\ gone.backward \in Node \cup {Nil} /\ f # n
       /\ f # Nil => f \in Nodes(s) /\ \E g \in Level : node2[f] \in Member(g)
  <2>1. f = Nil \/ (f \in Nodes(s) /\ place[n] < place[f] /\ place[f] \in Nat)
    BY <1>2, <1>5, Basics
  <2>2. f # n
    BY <2>1, <1>2, <1>3, <1>5
  <2>3. f \in Node \cup {Nil} /\ gone.backward \in Node \cup {Nil}
    BY <1>5, Heights
  <2>4. ASSUME f # Nil PROVE f \in Nodes(s) /\ \E g \in Level : node2[f] \in Member(g)
    <3>1. PICK g \in Level : f \in Nodes(s) /\ f \in Node /\ s.node[f] \in Member(g)
      BY <2>1, <2>4, Heights
    <3>2. node2[f] = node1[f]
      BY <2>2, <3>1, <1>9
    <3> QED
      BY <3>1, <3>2, <1>8
  <2> QED
    BY <2>2, <2>3, <2>4
<1>12. /\ NodesShaped(node3)
       /\ \A y \in Node \cup {Header} : node3[y].level = node2[y].level
       /\ \A m \in Node, g \in Level : node2[m] \in Member(g) =>
            /\ node3[m] \in Member(g) /\ node3[m].key = node2[m].key
            /\ node3[m].value = node2[m].value
            /\ node3[m].backward = IF m = f THEN gone.backward ELSE node2[m].backward
  <2>1. node3 = LookBack(node2, f, gone.backward)
    OBVIOUS
  <2> HIDE DEF node3, gone
  <2> QED
    BY <2>1, <1>10, <1>11, LookedBack
<1> HIDE DEF node3
<1>13. /\ rest = [node |-> node3, tail |-> IF f = Nil THEN gone.backward ELSE s.tail,
                  length |-> s.length - 1, level |-> s.level]
  <2>1. s = [node |-> s.node, tail |-> s.tail, length |-> s.length, level |-> s.level]
    BY DEF Shaped
  <2> DEFINE tail == IF f = Nil THEN gone.backward ELSE s.tail
             length == s.length - 1
  <2>2. rest = [s EXCEPT !.node = node3, !.tail = tail, !.length = length]
    OBVIOUS
  <2>3. [s EXCEPT !.node = node3, !.tail = tail, !.length = length]
          = [node |-> node3, tail |-> tail, length |-> length, level |-> s.level]
    <3> HIDE DEF node3, tail, length
    <3> DEFINE a == [s EXCEPT !.node = node3]
               b == [a EXCEPT !.tail = tail]
               c == [b EXCEPT !.length = length]
    <3>1. a = [node |-> node3, tail |-> s.tail, length |-> s.length, level |-> s.level]
      BY <2>1
    <3>2. b = [node |-> node3, tail |-> tail, length |-> s.length, level |-> s.level]
      <4> HIDE DEF a
      <4> QED BY <3>1
    <3>3. c = [node |-> node3, tail |-> tail, length |-> length, level |-> s.level]
      <4> HIDE DEF b
      <4> QED BY <3>2
    <3>4. [s EXCEPT !.node = node3, !.tail = tail, !.length = length] = c
      OBVIOUS
    <3> QED
      BY <3>3, <3>4
  <2> QED
    BY <2>2, <2>3
<1>14. /\ rest.node = node3 /\ rest.level = s.level
       /\ rest.tail = (IF f = Nil THEN gone.backward ELSE s.tail) /\ rest.length = s.length - 1
       /\ s2 = [node |-> node3, tail |-> rest.tail, length |-> rest.length,
                level |-> ShrunkLevel(rest)]
  <2> HIDE DEF rest
  <2> QED
    BY <1>1, <1>13
<1> HIDE DEF rest
<1>15. /\ s2.node = node3 /\ s2.level = ShrunkLevel(rest)
       /\ s2.tail = (IF f = Nil THEN gone.backward ELSE s.tail) /\ s2.length = s.length - 1
       /\ s2 = [node |-> s2.node, tail |-> s2.tail, length |-> s2.length, level |-> s2.level]
  BY <1>14
<1> HIDE DEF s2
<1>16. \A l : forward(rest, Header, l) = forward(s2, Header, l)
  BY <1>14, <1>15 DEF forward
<1>17. s2.level = Max({l \in 1..s.level : l <= 2 \/ forward(s2, Header, l - 1) # Nil})
  BY <1>14, <1>15, <1>16 DEF ShrunkLevel
<1>18. s2.level \in 1..s.level
  <2> DEFINE S == {l \in 1..s.level : l <= 2 \/ forward(s2, Header, l - 1) # Nil}
  <2>1. S \in SUBSET (1..s.level) /\ 1 \in S
    BY <1>2
  <2> HIDE DEF S
  <2>2. Max(S) \in S
    BY <2>1, <1>2, MaxIsThere
  <2> QED
    BY <2>1, <2>2, <1>17 DEF S
<1>19. Shaped(s2)
  <2>1. s2.level \in Level /\ s2.length \in Nat
    BY <1>2, <1>5, <1>15, <1>18, <1>3
  <2>2. s2.tail \in Node \cup {Nil}
    BY <1>11, <1>15 DEF Shaped
  <2> QED
    BY <2>1, <2>2, <1>12, <1>15 DEF Shaped
<1>20. \A y \in Node \cup {Header} : y # n => s2.node[y].level = node1[y].level
  BY <1>9, <1>12, <1>15
<1>21. DOMAIN s2.node[n].level = {}
  BY <1>5, <1>9, <1>12, <1>15
<1>22. \A i : On(s2, i) = On(s, i) \ {n}
  <2> SUFFICES ASSUME NEW i, NEW y \in Node \cup {Header}
               PROVE  y \in On(s2, i) <=> y \in On(s, i) /\ y # n
    BY DEF On
  <2>1. CASE y = n
    BY <2>1, <1>21 DEF On
  <2>2. CASE y # n
    BY <2>2, <1>8, <1>20 DEF On
  <2> QED
    BY <2>1, <2>2
<1>23. \A i \in Level : \A x \in On(s, i) \ {n} :
         s2.node[x].level[i] =
           IF ~(i <= s.level /\ x = t[i].at) THEN s.node[x].level[i]
           ELSE IF forward(s, x, i) = n
           THEN [forward |-> forward(s, n, i), span |-> span(s, x, i) + span(s, n, i) - 1]
           ELSE [forward |-> forward(s, x, i), span |-> span(s, x, i) - 1]
  <2> SUFFICES ASSUME NEW i \in Level, NEW x \in On(s, i) \ {n}
      PROVE  s2.node[x].level[i] =
               IF ~(i <= s.level /\ x = t[i].at) THEN s.node[x].level[i]
               ELSE IF forward(s, x, i) = n
               THEN [forward |-> forward(s, n, i), span |-> span(s, x, i) + span(s, n, i) - 1]
               ELSE [forward |-> forward(s, x, i), span |-> span(s, x, i) - 1]
    OBVIOUS
  <2>1. x \in Node \cup {Header} /\ x # n /\ i \in DOMAIN s.node[x].level
    BY DEF On
  <2>2. s2.node[x].level[i] = IF i \in 1..s.level /\ t[i].at = x THEN new[i] ELSE s.node[x].level[i]
    BY <2>1, <1>8, <1>20
  <2>3. i \in 1..s.level <=> i <= s.level
    BY <1>2
  <2> QED
    BY <2>2, <2>3, <1>7
<1>24. \A m \in Nodes(s) \ {n} :
         /\ s2.node[m].key = s.node[m].key /\ s2.node[m].value = s.node[m].value
         /\ s2.node[m].backward = IF m = f THEN gone.backward ELSE s.node[m].backward
  <2> SUFFICES ASSUME NEW m \in Nodes(s) \ {n}
      PROVE  /\ s2.node[m].key = s.node[m].key /\ s2.node[m].value = s.node[m].value
             /\ s2.node[m].backward = IF m = f THEN gone.backward ELSE s.node[m].backward
    OBVIOUS
  <2>1. PICK g \in Level : m \in Node /\ m # n /\ s.node[m] \in Member(g)
    BY Heights
  <2>2. node2[m] = node1[m]
    BY <2>1, <1>9
  <2> QED
    BY <2>1, <2>2, <1>8, <1>12, <1>15
<1> QED
  BY <1>15, <1>17, <1>19, <1>22, <1>23, <1>24 DEF s2, n, t

\* deleteNode takes its node out of the arrangement.
LEMMA Deleted ==
  ASSUME NEW s, NEW place, Arranged(s, place),
         NEW P \in SUBSET Nodes(s), forward(s, Turns(s, P)[1].at, 1) # Nil
  PROVE  LET t  == Turns(s, P)
             n  == forward(s, t[1].at, 1)
             s2 == deleteNode(s, n, t)
             place2 == [x \in On(s, 1) \ {n} |->
                          IF place[x] < place[n] THEN place[x] ELSE place[x] - 1]
         IN  /\ Arranged(s2, place2)
             /\ n \in Nodes(s) /\ Nodes(s2) = Nodes(s) \ {n}
             /\ \A m \in Nodes(s) \ {n} : /\ s2.node[m].key = s.node[m].key
                                          /\ s2.node[m].value = s.node[m].value
<1> USE DEF Arranged
<1> DEFINE t == Turns(s, P)
           r == t[1].rank
           n == forward(s, t[1].at, 1)
           s2 == deleteNode(s, n, t)
           f == forward(s, n, 1)
           place2 == [x \in On(s, 1) \ {n} |-> IF place[x] < place[n] THEN place[x] ELSE place[x] - 1]
           shifted(p) == IF p <= r THEN p ELSE p - 1
<1>1. /\ s.level \in Nat /\ s.level \in Level /\ s.length \in Nat /\ 1 \in 1..s.level
      /\ Level = 1..MaxLevel /\ MaxLevel \in Nat
      /\ \A x \in On(s, 1) : place[x] \in Nat /\ place[x] <= s.length
      /\ place[Header] = 0 /\ Header \in On(s, 1) /\ Header \notin Node /\ Nil \notin Node \cup {Header}
  BY Basics, ZsetAssumption DEF Level, Header, Node, Nil
<1>2. /\ r \in 0..s.length
      /\ \A i \in 1..s.level :
           /\ t[i].at \in On(s, i) /\ t[i].rank = place[t[i].at]
           /\ \A x \in On(s, i) : x = t[i].at <=> Crosses(s, place, x, i, r)
      /\ Ahead(s, place, t[1].at, 1) = r + 1
  BY Gap
<1>3. /\ Shaped(s2)
      /\ s2.length = s.length - 1
      /\ s2.level = Max({l \in 1..s.level : l <= 2 \/ forward(s2, Header, l - 1) # Nil})
      /\ s2.tail = IF f = Nil THEN s.node[n].backward ELSE s.tail
      /\ \A i : On(s2, i) = On(s, i) \ {n}
      /\ \A i \in Level : \A x \in On(s, i) \ {n} :
           s2.node[x].level[i] =
             IF ~(i <= s.level /\ x = t[i].at) THEN s.node[x].level[i]
             ELSE IF forward(s, x, i) = n
             THEN [forward |-> forward(s, n, i), span |-> span(s, x, i) + span(s, n, i) - 1]
             ELSE [forward |-> forward(s, x, i), span |-> span(s, x, i) - 1]
      /\ \A m \in Nodes(s) \ {n} :
           /\ s2.node[m].key = s.node[m].key /\ s2.node[m].value = s.node[m].value
           /\ s2.node[m].backward = IF m = f THEN s.node[n].backward ELSE s.node[m].backward
  BY DeletedNodes
<1>4. n \in Nodes(s) /\ n \in On(s, 1) /\ n # Header /\ n # Nil /\ place[n] = r + 1
  <2>1. n # Nil /\ t[1].at \in On(s, 1)
    BY <1>1, <1>2
  <2> QED
    BY <2>1, <1>1, <1>2, Basics DEF Ahead
<1> HIDE DEF t, n, s2
<1> DEFINE Sizes == /\ s2.length = s.length - 1 /\ s.length \in Nat
                    /\ place[n] = r + 1 /\ r \in Nat /\ r + 1 <= s.length
<1>5. Sizes
  BY <1>1, <1>2, <1>3, <1>4
<1>6. /\ On(s2, 1) = On(s, 1) \ {n}
      /\ Nodes(s2) = Nodes(s) \ {n} /\ Nodes(s) = On(s, 1) \ {Header}
  BY <1>3 DEF Nodes
<1>7. /\ \A x \in On(s, 1) \ {n} : place[x] # r + 1
      /\ \A x \in On(s, 1) \ {n} : place2[x] = shifted(place[x]) /\ place2[x] \in 0..s2.length
      /\ place2 \in [On(s2, 1) -> 0..s2.length]
  <2>1. \A x \in On(s, 1) \ {n} : place[x] # r + 1
    BY <1>4, <1>5 DEF Placed
  <2>2. \A x \in On(s, 1) \ {n} : place2[x] = shifted(place[x])
    BY <2>1, <1>1, <1>5
  <2>3. \A x \in On(s, 1) \ {n} : place2[x] \in 0..s2.length
    BY <2>1, <2>2, <1>1, <1>5
  <2>4. place2 = [x \in On(s2, 1) |-> place2[x]]
    BY <1>6
  <2> HIDE DEF place2
  <2> QED
    BY <2>1, <2>2, <2>3, <2>4, <1>6
<1> HIDE DEF place2
<1>8. Placed(s2, place2)
  <2>1. place2[Header] = 0
    BY <1>1, <1>4, <1>5, <1>7
  <2>2. ASSUME NEW x \in On(s2, 1), NEW y \in On(s2, 1), place2[x] = place2[y] PROVE x = y
    <3>1. x \in On(s, 1) /\ y \in On(s, 1) /\ place[x] = place[y]
      BY <2>2, <1>1, <1>5, <1>6, <1>7
    <3> QED
      BY <3>1 DEF Placed
  <2>3. ASSUME NEW p \in 0..s2.length PROVE \E x \in On(s2, 1) : place2[x] = p
    <3> DEFINE q == IF p <= r THEN p ELSE p + 1
    <3>1. q \in 0..s.length /\ shifted(q) = p /\ q # r + 1
      BY <1>5
    <3>2. PICK x \in On(s, 1) : place[x] = q
      BY <3>1 DEF Placed
    <3> QED
      BY <3>1, <3>2, <1>5, <1>6, <1>7
  <2> QED
    BY <2>1, <2>2, <2>3, <1>7 DEF Placed
<1>9. ASSUME NEW i \in 1..s.level, NEW x \in On(s, i)
      PROVE  LET g == forward(s, x, i)
             IN  /\ g \in (On(s, i) \ {Header}) \cup {Nil}
                 /\ place[x] \in Nat /\ Ahead(s, place, x, i) \in Nat
                 /\ place[x] < Ahead(s, place, x, i)
                 /\ \A y \in On(s, i) : y \in On(s, 1) /\ place[y] \in Nat
                      /\ (place[y] <= place[x] \/ Ahead(s, place, x, i) <= place[y])
                 /\ g = Nil => Ahead(s, place, x, i) = s.length + 1 /\ span(s, x, i) = s.length - place[x]
                 /\ g # Nil => Ahead(s, place, x, i) = place[g] /\ span(s, x, i) = place[g] - place[x]
                               /\ g \in On(s, i)
  <2> DEFINE g == forward(s, x, i)
  <2>1. g \in (On(s, i) \ {Header}) \cup {Nil} /\ LinkedAt(s, place, x, i) /\ On(s, i) \subseteq On(s, 1)
    BY <1>1, Basics DEF Linked, LinkedAt
  <2>2. /\ place[x] \in Nat /\ Ahead(s, place, x, i) \in Nat
        /\ place[x] < Ahead(s, place, x, i)
        /\ \A y \in On(s, i) : place[y] <= place[x] \/ Ahead(s, place, x, i) <= place[y]
    BY AheadType
  <2> QED
    BY <2>1, <2>2, <1>1 DEF LinkedAt, Ahead
\* a link that led to the node
<1>10. ASSUME NEW i \in 1..s.level, NEW x \in On(s, i) \ {n}, x = t[i].at, forward(s, x, i) = n
       PROVE  LinkedAt(s2, place2, x, i)
  <2> DEFINE g == forward(s, n, i)
  <2>1. i \in Level /\ i <= s.level /\ x \in On(s, 1)
    BY <1>1, Basics
  <2>2. s2.node[x].level[i] = [forward |-> g, span |-> span(s, x, i) + span(s, n, i) - 1]
    BY <2>1, <1>3, <1>10
  <2>3. forward(s2, x, i) = g /\ span(s2, x, i) = span(s, x, i) + span(s, n, i) - 1
    BY <2>2 DEF forward, span
  <2>4. n \in On(s, i) /\ Ahead(s, place, x, i) = r + 1 /\ span(s, x, i) = r + 1 - place[x]
        /\ place[x] \in Nat /\ place[x] <= r
    BY <1>4, <1>5, <1>9, <1>10
  <2>5. /\ g \in (On(s, i) \ {Header}) \cup {Nil}
        /\ Ahead(s, place, n, i) \in Nat /\ r + 1 < Ahead(s, place, n, i)
        /\ g = Nil => Ahead(s, place, n, i) = s.length + 1 /\ span(s, n, i) = s.length - (r + 1)
        /\ g # Nil => Ahead(s, place, n, i) = place[g] /\ span(s, n, i) = place[g] - (r + 1)
                      /\ g \in On(s, i)
    BY <2>4, <1>5, <1>9
  <2>6. g # n
    BY <2>5, <1>4, <1>5
  <2>7. Ahead(s2, place2, x, i) = Ahead(s, place, n, i) - 1
        /\ span(s2, x, i) = (IF g = Nil THEN s2.length ELSE place2[g]) - place2[x]
    <3>1. place2[x] = place[x]
      BY <2>1, <2>4, <1>5, <1>7
    <3>2. CASE g = Nil
      BY <2>3, <2>4, <2>5, <3>1, <3>2, <1>5 DEF Ahead
    <3>3. CASE g # Nil
      <4>1. g \in On(s, 1) \ {n} /\ place2[g] = place[g] - 1 /\ place[g] \in Nat
        BY <2>4, <2>5, <2>6, <3>3, <1>5, <1>7, <1>9
      <4> QED
        BY <2>3, <2>4, <2>5, <3>1, <3>3, <4>1, <1>5 DEF Ahead
    <3> QED
      BY <3>2, <3>3
  <2>8. \A y \in On(s, i) \ {n} : place2[y] <= place2[x] \/ Ahead(s, place, n, i) - 1 <= place2[y]
    <3> SUFFICES ASSUME NEW y \in On(s, i) \ {n}
                 PROVE  place2[y] <= place2[x] \/ Ahead(s, place, n, i) - 1 <= place2[y]
      OBVIOUS
    <3>1. /\ y \in On(s, 1) /\ place[y] \in Nat /\ place[y] # r + 1
          /\ place2[y] = shifted(place[y]) /\ place2[x] = shifted(place[x])
      BY <2>1, <1>7, <1>9
    <3>2. place[y] <= place[x] \/ r + 1 <= place[y]
      BY <2>4, <1>9
    <3>3. place[y] <= r + 1 \/ Ahead(s, place, n, i) <= place[y]
      BY <2>4, <1>5, <1>9
    <3> QED
      BY <2>4, <2>5, <3>1, <3>2, <3>3, <1>5
  <2>9. place2[x] < Ahead(s, place, n, i) - 1
    BY <2>1, <2>4, <2>5, <1>5, <1>7
  <2> QED
    BY <2>3, <2>5, <2>6, <2>7, <2>8, <2>9, <1>3 DEF LinkedAt
\* a link that led over it, and the others
<1>11. ASSUME NEW i \in 1..s.level, NEW x \in On(s, i) \ {n}, ~(x = t[i].at /\ forward(s, x, i) = n)
       PROVE  LinkedAt(s2, place2, x, i)
  <2> DEFINE g == forward(s, x, i)
  <2>1. i \in Level /\ i <= s.level /\ x \in On(s, 1) \ {n}
    BY <1>1, Basics
  <2>2. forward(s2, x, i) = g
        /\ span(s2, x, i) = IF x = t[i].at THEN span(s, x, i) - 1 ELSE span(s, x, i)
    <3>1. s2.node[x].level[i] = IF x = t[i].at THEN [forward |-> g, span |-> span(s, x, i) - 1]
                                ELSE s.node[x].level[i]
      BY <2>1, <1>3, <1>11
    <3> QED
      BY <3>1 DEF forward, span
  <2>3. x = t[i].at <=> Crosses(s, place, x, i, r)
    BY <1>2
  <2>4. place[x] \in Nat /\ place[x] # r + 1 /\ place2[x] = shifted(place[x])
        /\ Ahead(s, place, x, i) \in Nat /\ place[x] < Ahead(s, place, x, i)
    BY <2>1, <1>7, <1>9
  <2>5. g # n
    <3> SUFFICES ASSUME g = n PROVE FALSE
      OBVIOUS
    <3>1. Ahead(s, place, x, i) = r + 1 /\ ~Crosses(s, place, x, i, r)
      BY <2>3, <1>4, <1>5, <1>9, <1>11
    <3> QED
      BY <2>4, <3>1, <1>5 DEF Crosses
  <2>6. Ahead(s, place, x, i) # r + 1 /\ Ahead(s2, place2, x, i) = shifted(Ahead(s, place, x, i))
        /\ span(s2, x, i) = (IF g = Nil THEN s2.length ELSE place2[g]) - place2[x]
    <3>1. CASE g = Nil
      <4>1. span(s, x, i) = s.length - place[x] /\ Ahead(s, place, x, i) = s.length + 1
        BY <3>1, <1>9
      <4> QED
        BY <2>2, <2>3, <2>4, <3>1, <4>1, <1>5 DEF Crosses, Ahead
    <3>2. CASE g # Nil
      <4>1. span(s, x, i) = place[g] - place[x] /\ Ahead(s, place, x, i) = place[g]
            /\ g \in On(s, 1) \ {n}
        BY <2>5, <3>2, <1>9
      <4>2. place2[g] = shifted(place[g]) /\ place[g] # r + 1
        BY <4>1, <1>7
      <4> QED
        BY <2>2, <2>3, <2>4, <3>2, <4>1, <4>2, <1>5 DEF Crosses, Ahead
    <3> QED
      BY <3>1, <3>2
  <2>7. \A y \in On(s, i) \ {n} : place2[y] <= place2[x] \/ shifted(Ahead(s, place, x, i)) <= place2[y]
    <3> SUFFICES ASSUME NEW y \in On(s, i) \ {n}
                 PROVE  place2[y] <= place2[x] \/ shifted(Ahead(s, place, x, i)) <= place2[y]
      OBVIOUS
    <3>1. /\ place[y] \in Nat /\ place[y] # r + 1 /\ place2[y] = shifted(place[y])
          /\ place[y] <= place[x] \/ Ahead(s, place, x, i) <= place[y]
      BY <1>7, <1>9
    <3> QED
      BY <2>4, <2>6, <3>1, <1>5
  <2>8. place2[x] < shifted(Ahead(s, place, x, i))
    BY <2>4, <2>6, <1>5
  <2>9. g \in (On(s, i) \ {Header}) \cup {Nil}
    BY <1>9
  <2> QED
    BY <2>2, <2>5, <2>6, <2>7, <2>8, <2>9, <1>3 DEF LinkedAt
<1>12. \A i \in 1..s.level : \A x \in On(s2, i) : LinkedAt(s2, place2, x, i)
  BY <1>3, <1>10, <1>11
<1> DEFINE S == {l \in 1..s.level : l <= 2 \/ forward(s2, Header, l - 1) # Nil}
<1>13. s2.level \in S /\ \A l \in S : s2.level >= l
  <2>1. S \in SUBSET (1..s.level) /\ 1 \in S
    BY <1>1
  <2>2. s2.level = Max(S)
    BY <1>3
  <2> HIDE DEF S
  <2> QED
    BY <2>1, <2>2, <1>1, MaxIsThere
\* a level that is given up is empty
<1>14. ASSUME NEW i \in 1..s.level, i > s2.level
       PROVE  On(s2, i) = {Header} /\ forward(s2, Header, i) = Nil
  <2>1. i \notin S
    BY <1>1, <1>13, <1>14
  <2>2. i - 1 \in 1..s.level /\ forward(s2, Header, i - 1) = Nil
    BY <2>1, <1>1
  <2>3. i \in Level /\ i - 1 \in 1..i /\ i - 1 \in Level
    BY <2>2, <1>1, Basics
  <2>4. Header \in On(s2, i) /\ On(s2, i) \subseteq On(s2, i - 1) /\ On(s2, i - 1) \subseteq On(s2, 1)
        /\ Header \in On(s2, i - 1)
    <3>1. 1 \in 1..(i - 1)
      BY <2>2
    <3> QED
      BY <2>3, <3>1, <1>3, Heights
  <2>5. \A y \in On(s2, i - 1) : y = Header
    <3>1. LinkedAt(s2, place2, Header, i - 1)
      BY <2>2, <2>4, <1>12
    <3>2. Ahead(s2, place2, Header, i - 1) = s2.length + 1
      BY <2>2 DEF Ahead
    <3>3. \A y \in On(s2, i - 1) : place2[y] \in 0..s2.length
      BY <2>4, <1>8 DEF Placed
    <3>4. \A y \in On(s2, i - 1) : place2[y] <= 0
      BY <3>1, <3>2, <3>3, <1>5, <1>8 DEF LinkedAt, Placed
    <3> QED
      BY <2>4, <3>3, <3>4, <1>8 DEF Placed
  <2>6. On(s2, i) = {Header}
    BY <2>4, <2>5
  <2>7. LinkedAt(s2, place2, Header, i)
    BY <2>4, <1>12
  <2> QED
    BY <2>6, <2>7 DEF LinkedAt
<1>15. Linked(s2, place2)
  <2>1. \A i \in 1..s2.level : i \in 1..s.level
    BY <1>1, <1>13
  <2>2. ASSUME NEW i \in Level, i > s2.level, ~(i \in 1..s.level)
        PROVE  On(s2, i) = {Header} /\ forward(s2, Header, i) = Nil
    <3>1. i > s.level
      BY <2>2, <1>1
    <3>2. On(s, i) = {Header} /\ forward(s, Header, i) = Nil
      BY <3>1 DEF Linked
    <3>3. On(s2, i) = {Header}
      BY <3>2, <1>3, <1>4
    <3>4. s2.node[Header].level[i] = s.node[Header].level[i]
      <4>1. Header \in On(s, i) \ {n} /\ ~(i <= s.level)
        BY <3>1, <3>2, <1>1, <1>4
      <4> QED
        BY <4>1, <1>3
    <3> QED
      BY <3>2, <3>3, <3>4 DEF forward
  <2> QED
    BY <2>1, <2>2, <1>12, <1>14 DEF Linked
<1>16. Falling(s2, place2)
  <2> SUFFICES ASSUME NEW x \in Nodes(s2), NEW y \in Nodes(s2), place2[x] < place2[y]
               PROVE  s2.node[x].value >= s2.node[y].value
    BY DEF Falling
  <2>1. x \in Nodes(s) \ {n} /\ y \in Nodes(s) \ {n}
    BY <1>6
  <2>2. place[x] < place[y]
    BY <2>1, <1>1, <1>5, <1>6, <1>7
  <2> QED
    BY <2>1, <2>2, <1>3 DEF Falling
<1>17. Ahead(s, place, n, 1) = r + 2 /\ (f = Nil => s.length = r + 1)
       /\ (f # Nil => f \in Nodes(s) \ {n} /\ place[f] = r + 2)
  <2>1. Ahead(s, place, n, 1) = r + 2
    BY <1>4, <1>5, NextPlace
  <2>2. f # Nil => f \in Nodes(s)
    BY <1>1, <1>4, Basics
  <2> QED
    BY <2>1, <2>2, <1>4, <1>5 DEF Ahead
<1>18. LET b == s.node[n].backward
       IN  IF b = Nil THEN r = 0 ELSE b \in Nodes(s) \ {n} /\ place[b] = r
  <2> DEFINE b == s.node[n].backward
  <2>1. IF b = Nil THEN place[n] = 1 ELSE b \in Nodes(s) /\ place[b] = place[n] - 1
    BY <1>4 DEF Backward
  <2> HIDE DEF b
  <2>2. IF b = Nil THEN r = 0 ELSE b \in Nodes(s) \ {n} /\ place[b] = r
    BY <2>1, <1>5
  <2> QED
    BY <2>2 DEF b
<1>19. Backward(s2, place2)
  <2>1. \A m \in Nodes(s) \ {n} : m \in On(s, 1) \ {n} /\ place[m] \in Nat /\ place[m] # r + 1
           /\ place2[m] = shifted(place[m]) /\ m # Nil
    BY <1>1, <1>6, <1>7 DEF On
  <2>2. ASSUME NEW m \in Nodes(s2)
        PROVE  LET b == s2.node[m].backward
               IN  IF b = Nil THEN place2[m] = 1 ELSE b \in Nodes(s2) /\ place2[b] = place2[m] - 1
    <3>1. m \in Nodes(s) \ {n} /\ s2.node[m].backward = IF m = f THEN s.node[n].backward ELSE s.node[m].backward
      BY <1>3, <1>6
    <3>2. CASE m = f
      <4>1. place[m] = r + 2 /\ place2[m] = r + 1
        BY <2>1, <3>1, <3>2, <1>5, <1>17
      <4> QED
        BY <2>1, <3>1, <3>2, <4>1, <1>5, <1>6, <1>18
    <3>3. CASE m # f
      <4> DEFINE b == s.node[m].backward
      <4>1. s2.node[m].backward = b
            /\ IF b = Nil THEN place[m] = 1 ELSE b \in Nodes(s) /\ place[b] = place[m] - 1
        BY <3>1, <3>3 DEF Backward
      <4>2. place[m] # r + 2
        <5>1. CASE f = Nil
          BY <5>1, <2>1, <3>1, <1>1, <1>5, <1>17
        <5>2. CASE f # Nil
          BY <5>2, <2>1, <3>1, <3>3, <1>6, <1>17 DEF Placed
        <5> QED
          BY <5>1, <5>2
      <4> HIDE DEF b
      <4>3. CASE b = Nil
        BY <2>1, <3>1, <4>1, <4>2, <4>3, <1>5
      <4>4. CASE b # Nil
        <5>1. b \in Nodes(s) \ {n}
          BY <2>1, <3>1, <4>1, <4>2, <4>4, <1>5
        <5> QED
          BY <2>1, <3>1, <4>1, <4>2, <4>4, <5>1, <1>5, <1>6
      <4> QED
        BY <4>3, <4>4
    <3> QED
      BY <3>2, <3>3
  <2>3. IF s2.tail = Nil THEN s2.length = 0 ELSE s2.tail \in Nodes(s2) /\ place2[s2.tail] = s2.length
    <3>1. CASE f = Nil
      <4>1. s2.tail = s.node[n].backward /\ s.length = r + 1
        BY <3>1, <1>3, <1>17
      <4> QED
        BY <2>1, <4>1, <1>5, <1>6, <1>18
    <3>2. CASE f # Nil
      <4>1. s2.tail = s.tail /\ place[f] = r + 2 /\ r + 2 <= s.length
        BY <3>2, <1>1, <1>3, <1>6, <1>17
      <4>2. s.tail # Nil /\ s.tail \in Nodes(s) \ {n} /\ place[s.tail] = s.length
        BY <4>1, <1>5 DEF Backward
      <4> QED
        BY <2>1, <4>1, <4>2, <1>5, <1>6
    <3> QED
      BY <3>1, <3>2
  <2> QED
    BY <2>2, <2>3 DEF Backward
<1> QED
  BY <1>3, <1>4, <1>6, <1>8, <1>15, <1>16, <1>19 DEF s2, n, t, place2

-----------------------------------------------------------------------------
(* Lists stay arranged.                                                    *)

\* What delete leaves when it finds the node n: the others, in their order.
Lacks(s, place, n, s2, place2) ==
  /\ Arranged(s2, place2)
  /\ n \in Nodes(s) /\ Nodes(s2) = Nodes(s) \ {n}
  /\ \A m \in Nodes(s2) : s2.node[m].key = s.node[m].key /\ s2.node[m].value = s.node[m].value
  /\ \A x, y \in Nodes(s2) : place2[x] < place2[y] <=> place[x] < place[y]

\* delete takes the node of key k and value v out, if it finds it,
LEMMA DeleteFinds ==
  ASSUME NEW s, NEW place, Arranged(s, place), NEW k, NEW v, Found(s, k, v) # Nil
  PROVE  /\ IsNode(s, Found(s, k, v), k, v)
         /\ \E place2 : Lacks(s, place, Found(s, k, v), delete(s, k, v), place2)
<1> DEFINE P == Before(s, k, v)
           t == Turns(s, P)
           n == forward(s, t[1].at, 1)
           s2 == deleteNode(s, n, t)
           place2 == [x \in On(s, 1) \ {n} |->
                        IF place[x] < place[n] THEN place[x] ELSE place[x] - 1]
<1>1. P \in SUBSET Nodes(s)
  BY DEF Before
<1>2. Found(s, k, v) = n /\ IsNode(s, n, k, v)
  BY DEF Found
<1>3. n # Nil /\ s.node[n].key = k /\ s.node[n].value = v
  BY <1>2 DEF IsNode
<1>4. delete(s, k, v) = s2
  BY <1>2, <1>3 DEF delete
<1>5. /\ Arranged(s2, place2)
      /\ n \in Nodes(s) /\ Nodes(s2) = Nodes(s) \ {n}
      /\ \A m \in Nodes(s) \ {n} : /\ s2.node[m].key = s.node[m].key
                                   /\ s2.node[m].value = s.node[m].value
  <2> HIDE DEF P
  <2> QED BY <1>1, <1>3, Deleted
<1> HIDE DEF n, t, s2
<1>6. ASSUME NEW x \in Nodes(s) \ {n}, NEW y \in Nodes(s) \ {n}
      PROVE  place2[x] < place2[y] <=> place[x] < place[y]
  <2>1. /\ x \in On(s, 1) /\ y \in On(s, 1) /\ n \in On(s, 1)
        /\ place[x] \in Nat /\ place[y] \in Nat /\ place[n] \in Nat
        /\ place[x] # place[n] /\ place[y] # place[n]
    BY <1>5, Basics DEF Arranged, Placed, Nodes
  <2>2. /\ place2[x] = IF place[x] < place[n] THEN place[x] ELSE place[x] - 1
        /\ place2[y] = IF place[y] < place[n] THEN place[y] ELSE place[y] - 1
    BY <2>1
  <2> HIDE DEF place2
  <2> QED
    BY <2>1, <2>2
<1>7. Lacks(s, place, n, s2, place2)
  <2> HIDE DEF place2
  <2> QED BY <1>5, <1>6 DEF Lacks
<1> QED
  BY <1>2, <1>4, <1>7

\* and changes nothing if it does not.
LEMMA DeleteMisses ==
  ASSUME NEW s, NEW k, NEW v, Found(s, k, v) = Nil
  PROVE  delete(s, k, v) = s
BY DEF delete

Listed(s) == \E place \in [On(s, 1) -> 0..s.length] : Arranged(s, place)

\* Either way the list stays arranged,
LEMMA DeleteKeepsListed ==
  ASSUME NEW s, Listed(s), NEW k, NEW v
  PROVE  Listed(delete(s, k, v))
<1>1. CASE Found(s, k, v) = Nil
  BY <1>1, DeleteMisses
<1>2. CASE Found(s, k, v) # Nil
  <2>1. PICK place \in [On(s, 1) -> 0..s.length] : Arranged(s, place)
    BY DEF Listed
  <2>2. PICK place2 : Arranged(delete(s, k, v), place2)
    BY <1>2, <2>1, DeleteFinds DEF Lacks
  <2> QED
    BY <2>2 DEF Listed, Arranged, Placed
<1> QED
  BY <1>1, <1>2

\* as it does when insert puts a node in.
LEMMA InsertKeepsListed ==
  ASSUME NEW s, Listed(s), NEW k \in Key, NEW v \in Value, NEW h \in Level, NEW n \in Node \ Nodes(s)
  PROVE  Listed(insert(s, k, v, h, n))
<1>1. PICK place \in [On(s, 1) -> 0..s.length] : Arranged(s, place)
  BY DEF Listed
<1> DEFINE r == Turns(s, AtLeast(s, v))[1].rank
           next == [x \in On(s, 1) \cup {n} |->
                      IF x = n THEN r + 1 ELSE IF place[x] <= r THEN place[x] ELSE place[x] + 1]
<1>2. PICK place2 : Arranged(insert(s, k, v, h, n), place2)
  <2>1. Arranged(insert(s, k, v, h, n), next)
    BY <1>1, Inserted
  <2> QED
    BY <2>1
<1> QED
  BY <1>2 DEF Listed, Arranged, Placed

\* There is memory for a node unless all is used.
LEMMA FreeNode ==
  ASSUME NEW s, Nodes(s) # Node
  PROVE  Min(Node \ Nodes(s)) \in Node \ Nodes(s)
<1> DEFINE S == Node \ Nodes(s)
<1>1. Nodes(s) \subseteq Node
  BY DEF Nodes, On
<1>2. S \in SUBSET Nat /\ S # {}
  <2>1. Node \subseteq Nat
    BY ZsetAssumption DEF Node
  <2> QED
    BY <1>1, <2>1
<1> HIDE DEF S
<1>3. \E x \in S : \A y \in S : x <= y
  BY <1>2, Least
<1>4. Min(S) \in S
  BY <1>3 DEF Min
<1> QED
  BY <1>4 DEF S

\* The list that createSkipList returns is arranged.
LEMMA EmptyListed == Listed(createSkipList)
<1> DEFINE s == createSkipList
           place == [x \in {Header} |-> 0]
           link == [forward |-> Nil, span |-> 0]
           head == [level |-> [i \in Level |-> link]]
<1>1. /\ s = [node |-> s.node, tail |-> s.tail, length |-> s.length, level |-> s.level]
      /\ s.node = [x \in Node \cup {Header} |-> IF x \in Node THEN Free ELSE head]
      /\ s.tail = Nil /\ s.length = 0 /\ s.level = 1
  BY DEF createSkipList
<1> HIDE DEF s
<1>2. Header \notin Node /\ Nil \notin Node \cup {Header} /\ Level = 1..MaxLevel /\ 1 \in Level
  BY ZsetAssumption DEF Header, Node, Nil, Level
<1>3. link \in Link
  BY DEF Link
<1>4. s.node[Header] = head /\ head \in [level : [Level -> Link]] /\ head.level = [i \in Level |-> link]
  BY <1>1, <1>2, <1>3
<1>5. \A n \in Node : s.node[n] = Free
  BY <1>1
<1>6. Free \in Empty /\ DOMAIN Free.level = {}
  <2>1. <<>> \in [{} -> Link]
    OBVIOUS
  <2> QED
    BY <2>1 DEF Free, Empty
<1>7. NodesShaped(s.node)
  <2>1. s.node = [x \in Node \cup {Header} |-> s.node[x]]
    BY <1>1
  <2> QED
    BY <2>1, <1>4, <1>5, <1>6 DEF NodesShaped
<1>8. Shaped(s)
  BY <1>1, <1>2, <1>7 DEF Shaped
<1>9. \A i \in Level : On(s, i) = {Header} /\ s.node[Header].level[i] = link
  BY <1>2, <1>4, <1>5, <1>6 DEF On
<1>10. \A i \in Level : forward(s, Header, i) = Nil /\ span(s, Header, i) = 0
  BY <1>9 DEF forward, span
<1>11. Placed(s, place)
  BY <1>1, <1>2, <1>9 DEF Placed
<1>12. LinkedAt(s, place, Header, 1)
  BY <1>1, <1>2, <1>9, <1>10 DEF LinkedAt, Ahead
<1>13. Linked(s, place)
  BY <1>1, <1>2, <1>9, <1>10, <1>12 DEF Linked
<1>14. Nodes(s) = {}
  BY <1>2, <1>9 DEF Nodes
<1>15. Falling(s, place) /\ Backward(s, place)
  BY <1>1, <1>14 DEF Falling, Backward
<1> QED
  BY <1>8, <1>11, <1>13, <1>15 DEF Listed, Arranged, Placed, s

-----------------------------------------------------------------------------
\* The inductive invariant: the skip list is arranged.
Inv ==
  /\ Listed(sl)
  /\ objs \in [DOMAIN objs -> Value] /\ DOMAIN objs \subseteq Key
  /\ missed \in BOOLEAN

LEMMA RemovedListed ==
  ASSUME Listed(sl), NEW k
  PROVE  Listed(Removed(k))
BY DeleteKeepsListed DEF Removed

\* Whatever is added and removed, with whatever heights, insert and deleteNode
\* leave a skip list whose nodes can be numbered so that every level links its
\* nodes in this order, every link measures its way, values do not rise, and
\* backward and tail lead back.
THEOREM StaysArranged == Spec => []Inv
<1>1. Init => Inv
  BY EmptyListed DEF Init, Inv
<1>2. Inv /\ [Next]_vars => Inv'
  <2> SUFFICES ASSUME Inv, [Next]_vars PROVE Inv'
    OBVIOUS
  <2>1. ASSUME NEW k \in Key, rem(k) PROVE Inv'
    <3>1. Listed(sl')
      BY <2>1, RemovedListed DEF rem, Inv
    <3> QED
      BY <2>1, <3>1 DEF rem, Inv, Misses, Listed
  <2>2. ASSUME NEW k \in Key, NEW v \in Value, NEW h \in Level, add(k, v, h) PROVE Inv'
    <3> DEFINE s == Removed(k)
    <3>1. /\ Nodes(s) # Node
          /\ sl' = insert(s, k, v, h, Min(Node \ Nodes(s)))
          /\ objs' = [j \in DOMAIN objs \cup {k} |-> IF j = k THEN v ELSE objs[j]]
          /\ missed' = (missed \/ Misses(k))
      BY <2>2 DEF add
    <3>2. Listed(s)
      BY RemovedListed DEF Inv
    <3> HIDE DEF s
    <3>3. Listed(sl')
      BY <3>1, <3>2, FreeNode, InsertKeepsListed
    <3>4. objs' \in [DOMAIN objs' -> Value] /\ DOMAIN objs' \subseteq Key
      BY <3>1 DEF Inv
    <3>5. missed' \in BOOLEAN
      BY <3>1 DEF Inv, Misses
    <3> QED
      BY <3>3, <3>4, <3>5 DEF Inv, Listed
  <2>3. CASE UNCHANGED vars
    BY <2>3 DEF vars, Inv, Listed
  <2> QED
    BY <2>1, <2>2, <2>3 DEF Next
<1> QED
  BY <1>1, <1>2, PTL DEF Spec

-----------------------------------------------------------------------------
(* What is read off an arrangement: the chains of the levels.              *)

\* The link of a node of any level leads to the next node on the level.
LEMMA NextOn ==
  ASSUME NEW s, NEW place, Shaped(s), Placed(s, place), Linked(s, place),
         NEW i \in Level, NEW x \in On(s, i)
  PROVE  LET f == forward(s, x, i)
         IN  /\ On(s, i) \subseteq On(s, 1) /\ place[x] \in 0..s.length /\ s.length \in Nat
             /\ f = Nil => \A y \in On(s, i) : place[y] <= place[x]
             /\ f # Nil => /\ f \in On(s, i) \ {Header} /\ place[x] < place[f]
                           /\ \A y \in On(s, i) : place[y] <= place[x] \/ place[f] <= place[y]
<1> DEFINE f == forward(s, x, i)
<1>1. s.length \in Nat /\ s.level \in Nat /\ i \in Nat /\ i >= 1
  BY ZsetAssumption, Basics DEF Level
<1>2. On(s, i) \subseteq On(s, 1)
  BY <1>1, Heights
<1>3. \A y \in On(s, i) : place[y] \in 0..s.length
  BY <1>2, Basics
<1>4. CASE i <= s.level
  <2>1. LinkedAt(s, place, x, i) /\ i \in 1..s.level
    BY <1>1, <1>4 DEF Linked
  <2>2. CASE f = Nil
    BY <2>1, <2>2, <1>1, <1>2, <1>3 DEF LinkedAt, Ahead
  <2>3. CASE f # Nil
    BY <2>1, <2>3, <1>1, <1>2, <1>3 DEF LinkedAt, Ahead
  <2> QED
    BY <2>2, <2>3
<1>5. CASE i > s.level
  <2>1. On(s, i) = {Header} /\ forward(s, Header, i) = Nil
    BY <1>5 DEF Linked
  <2> QED
    BY <2>1, <1>1, <1>2, <1>3
<1> QED
  BY <1>1, <1>4, <1>5

\* The nodes behind x on level i, in the order of their places.
Behind(s, place, x, i, a) ==
  /\ a \in Seq(On(s, i) \ {Header})
  /\ \A y \in On(s, i) : place[x] < place[y] => \E j \in 1..Len(a) : a[j] = y
  /\ \A j \in 1..Len(a) : place[x] < place[a[j]]
  /\ \A j, k \in 1..Len(a) : j < k => place[a[j]] < place[a[k]]

\* After follows the links of a level from a node to its end.
LEMMA AfterLinks ==
  ASSUME NEW s, NEW place, Shaped(s), Placed(s, place), Linked(s, place), NEW i \in Level
  PROVE  \A x \in On(s, i) :
           /\ forward(s, x, i) = Nil => After(s, i)[x] = <<>>
           /\ forward(s, x, i) # Nil =>
                After(s, i)[x] = <<forward(s, x, i)>> \o After(s, i)[forward(s, x, i)]
<1> DEFINE S == On(s, i)
           V == Seq(S)
           N == s.length
           Stop == {y \in S : forward(s, y, i) = Nil}
           m == [y \in S |-> N - place[y]]
           next == [y \in S |-> forward(s, y, i)]
           base == [y \in S |-> <<>>]
           op == [a \in S \X V |-> <<forward(s, a[1], i)>> \o a[2]]
           Eq(w) == [y \in S |-> LET f == forward(s, y, i)
                                 IN  IF f = Nil THEN <<>> ELSE <<f>> \o w[f]]
<1>1. \A y \in S : /\ place[y] \in 0..N /\ N \in Nat
                   /\ forward(s, y, i) # Nil =>
                        forward(s, y, i) \in S /\ place[y] < place[forward(s, y, i)]
  BY NextOn
<1>2. N \in Nat
  BY Basics
<1>3. m \in [S -> 0..N]
  BY <1>1
<1>4. \A y \in S \ Stop : next[y] \in S /\ m[next[y]] < m[y]
  BY <1>1
<1>5. \A y \in S \cap Stop : base[y] \in V
  OBVIOUS
<1>6. \A y \in S \ Stop, v \in V : op[<<y, v>>] \in V
  BY <1>1
<1>7. Descent(S, V, N, m, Stop, next, base, op)
  <2> HIDE DEF S, V, N, Stop, m, next, base, op
  <2> QED BY <1>2, <1>3, <1>4, <1>5, <1>6 DEF Descent
<1>8. PICK g \in [S -> V] : \A y \in S :
        g[y] = IF y \in Stop THEN base[y] ELSE op[<<y, g[next[y]]>>]
  <2> HIDE DEF S, V, N, Stop, m, next, base, op
  <2> QED BY <1>7, Recursion
<1>9. g = Eq(g)
  <2>1. \A y \in S : g[y] = Eq(g)[y]
    BY <1>1, <1>8
  <2> QED
    BY <1>8, <2>1
<1> DEFINE W == After(s, i)
<1>10. W = CHOOSE w : w = Eq(w)
  BY DEF After
<1>11. W = Eq(W)
  BY <1>9, <1>10
<1> HIDE DEF W
<1>12. \A x \in S : /\ forward(s, x, i) = Nil => W[x] = <<>>
                    /\ forward(s, x, i) # Nil =>
                         W[x] = <<forward(s, x, i)>> \o W[forward(s, x, i)]
  BY <1>11
<1> QED
  BY <1>12 DEF W

\* It lists the nodes behind x.
LEMMA AfterEnds ==
  ASSUME NEW s, NEW place, Shaped(s), Placed(s, place), Linked(s, place),
         NEW i \in Level, NEW x \in On(s, i)
  PROVE  Behind(s, place, x, i, After(s, i)[x])
<1> DEFINE S == On(s, i)
           N == s.length
           W == After(s, i)
           m == [y \in S |-> N - place[y]]
           Good(y) == Behind(s, place, y, i, W[y])
           Bad == {y \in S : ~Good(y)}
<1>1. \A y \in S : /\ place[y] \in 0..N
                   /\ N \in Nat
                   /\ forward(s, y, i) = Nil => W[y] = <<>> /\ \A z \in S : place[z] <= place[y]
                   /\ forward(s, y, i) # Nil =>
                        /\ forward(s, y, i) \in S \ {Header} /\ place[y] < place[forward(s, y, i)]
                        /\ \A z \in S : place[z] <= place[y] \/ place[forward(s, y, i)] <= place[z]
                        /\ W[y] = <<forward(s, y, i)>> \o W[forward(s, y, i)]
  <2> HIDE DEF W
  <2>1. \A y \in S : /\ forward(s, y, i) = Nil => W[y] = <<>>
                     /\ forward(s, y, i) # Nil => W[y] = <<forward(s, y, i)>> \o W[forward(s, y, i)]
    BY AfterLinks DEF W
  <2> QED BY <2>1, NextOn
<1>2. N \in Nat /\ S \subseteq On(s, 1)
  BY Basics, NextOn
<1> HIDE DEF W, S
<1>0. \A y \in S : place[y] \in 0..N /\ place[y] \in Int
  <2>1. \A y \in On(s, 1) : place[y] \in 0..s.length
    BY Basics
  <2> QED
    BY <2>1, <1>2
<1>3. ASSUME NEW y \in S, \A z \in S : m[z] < m[y] => Good(z)
      PROVE  Good(y)
  <2>1. CASE forward(s, y, i) = Nil
    <3>0. W[y] = <<>> /\ \A z \in S : place[z] <= place[y]
      BY <2>1, <1>1
    <3>1. W[y] = <<>> /\ \A z \in S : ~(place[y] < place[z])
      BY <3>0, <1>0
    <3>2. W[y] \in Seq(On(s, i) \ {Header}) /\ Len(W[y]) = 0
      BY <3>1
    <3> QED
      BY <3>1, <3>2 DEF Behind, S
  <2>2. CASE forward(s, y, i) # Nil
    <3> DEFINE f == forward(s, y, i)
               b == W[f]
               a == W[y]
               T == S \ {Header}
    <3>1. /\ f \in T /\ f \in S /\ place[y] < place[f] /\ place[f] \in 0..N /\ place[y] \in 0..N
          /\ \A z \in S : place[z] <= place[y] \/ place[f] <= place[z]
          /\ a = <<f>> \o b
      BY <2>2, <1>1
    <3>2. m[f] < m[y]
      BY <3>1, <1>2
    <3>3. Behind(s, place, f, i, b)
      BY <1>3, <3>1, <3>2
    <3>4. /\ b \in Seq(T)
          /\ \A z \in S : place[f] < place[z] => \E j \in 1..Len(b) : b[j] = z
          /\ \A j \in 1..Len(b) : place[f] < place[b[j]]
          /\ \A j, k \in 1..Len(b) : j < k => place[b[j]] < place[b[k]]
      BY <3>3 DEF Behind, S
    <3> HIDE DEF a, b, f, T
    <3>5. /\ a \in Seq(T) /\ Len(a) = Len(b) + 1 /\ Len(b) \in Nat
          /\ a[1] = f /\ \A j \in 1..Len(b) : a[j + 1] = b[j]
      BY <3>1, <3>4
    <3>6. \A j \in 1..Len(a) : j = 1 \/ (j - 1 \in 1..Len(b) /\ a[j] = b[j - 1])
      BY <3>5
    <3>7. \A j \in 1..Len(b) : b[j] \in S /\ place[b[j]] \in 0..N
      <4>1. \A j \in 1..Len(b) : b[j] \in T
        BY <3>4
      <4> QED
        BY <4>1, <1>0 DEF T
    <3>8. ASSUME NEW z \in S, place[y] < place[z] PROVE \E j \in 1..Len(a) : a[j] = z
      <4>1. CASE place[f] < place[z]
        <5>1. PICK j \in 1..Len(b) : b[j] = z
          BY <4>1, <3>4
        <5>2. j + 1 \in 1..Len(a) /\ a[j + 1] = z
          BY <5>1, <3>5
        <5> QED
          BY <5>2
      <4>2. CASE ~(place[f] < place[z])
        <5>1. place[z] = place[f]
          BY <4>2, <3>8, <3>1, <1>0
        <5>2. z = f
          BY <5>1, <1>2, <3>1 DEF Placed
        <5>3. 1 \in 1..Len(a) /\ a[1] = z
          BY <5>2, <3>5
        <5> QED
          BY <5>3
      <4> QED
        BY <4>1, <4>2
    <3>9. \A j \in 1..Len(a) : place[y] < place[a[j]]
      BY <3>1, <3>4, <3>5, <3>6, <3>7
    <3>10. ASSUME NEW j \in 1..Len(a), NEW k \in 1..Len(a), j < k PROVE place[a[j]] < place[a[k]]
      <4>1. k - 1 \in 1..Len(b) /\ a[k] = b[k - 1]
        BY <3>6, <3>10
      <4>2. CASE j = 1
        BY <4>1, <4>2, <3>4, <3>5
      <4>3. CASE j # 1
        BY <4>1, <4>3, <3>4, <3>6, <3>10
      <4> QED
        BY <4>2, <4>3
    <3> QED
      BY <3>5, <3>8, <3>9, <3>10 DEF Behind, S, T, a
  <2> QED
    BY <2>1, <2>2
<1>4. Bad = {}
  <2> SUFFICES ASSUME Bad # {} PROVE FALSE
    OBVIOUS
  <2>1. \A y \in S : m[y] \in Nat
    BY <1>0, <1>2
  <2>2. PICK y \in Bad : \A z \in Bad : m[y] <= m[z]
    <3> HIDE DEF m, Good
    <3>1. Bad \in SUBSET S
      OBVIOUS
    <3> QED BY <2>1, <3>1, LeastOf
  <2>3. \A z \in S : m[z] < m[y] => Good(z)
    <3> HIDE DEF m, Good
    <3> QED BY <2>1, <2>2
  <2> QED
    <3> HIDE DEF m, Good
    <3> QED BY <1>3, <2>2, <2>3
<1> QED
  BY <1>4 DEF W, S

\* On the first level every member behind x follows, one place after another.
LEMMA Counted ==
  ASSUME NEW s, NEW place, Shaped(s), Placed(s, place), Linked(s, place), NEW x \in On(s, 1)
  PROVE  LET a == After(s, 1)[x]
         IN  /\ a \in Seq(Nodes(s)) /\ Len(a) = s.length - place[x]
             /\ \A j \in 1..Len(a) : place[a[j]] = place[x] + j
<1> DEFINE a == After(s, 1)[x]
           p == place[x]
           d == s.length - p
           at(j) == IF j = 0 THEN p ELSE place[a[j]]
           T == {j \in Nat : j > d \/ (j <= Len(a) /\ at(j) = p + j)}
<1>1. s.length \in Nat /\ p \in 0..s.length /\ 1 \in Level
  BY Basics, ZsetAssumption DEF Level
<1>2. /\ a \in Seq(Nodes(s)) /\ Len(a) \in Nat
      /\ \A y \in On(s, 1) : p < place[y] => \E j \in 1..Len(a) : a[j] = y
      /\ \A j \in 1..Len(a) : p < place[a[j]]
      /\ \A j, k \in 1..Len(a) : j < k => place[a[j]] < place[a[k]]
  <2>1. Behind(s, place, x, 1, a)
    BY <1>1, AfterEnds
  <2> HIDE DEF a
  <2> QED
    BY <2>1 DEF Behind, Nodes
<1> HIDE DEF a
<1>3. \A j \in 1..Len(a) : place[a[j]] \in 0..s.length
  <2>1. \A j \in 1..Len(a) : a[j] \in Nodes(s)
    BY <1>2
  <2>2. \A y \in Nodes(s) : place[y] \in 0..s.length
    BY Basics DEF Nodes
  <2> QED
    BY <2>1, <2>2
<1>4. 0 \in T
  BY <1>1, <1>2
<1>5. ASSUME NEW j \in Nat, j \in T PROVE j + 1 \in T
  <2>1. CASE j + 1 > d
    BY <2>1
  <2>2. CASE j + 1 <= d
    <3>1. j <= Len(a) /\ at(j) = p + j
      BY <2>2, <1>1, <1>5
    <3>2. p + (j + 1) \in 0..s.length
      BY <2>2, <1>1
    <3>3. PICK y \in On(s, 1) : place[y] = p + (j + 1)
      BY <3>2 DEF Placed
    <3>4. PICK k \in 1..Len(a) : a[k] = y
      BY <3>3, <1>1, <1>2
    <3>5. k > j
      <4>1. CASE j = 0
        BY <4>1, <3>4
      <4>2. CASE j # 0 /\ k <= j
        <5>1. k = j \/ place[a[k]] < place[a[j]]
          BY <4>2, <3>1, <1>2
        <5> QED
          BY <5>1, <4>2, <3>1, <3>3, <3>4, <1>1
      <4> QED
        BY <4>1, <4>2, <3>4
    <3>6. j + 1 \in 1..Len(a) /\ (k = j + 1 \/ place[a[j + 1]] < place[a[k]])
      BY <3>4, <3>5, <1>2
    <3>7. place[a[j + 1]] > p + j
      <4>1. CASE j = 0
        BY <4>1, <3>6, <1>1, <1>2
      <4>2. CASE j # 0
        <5>1. place[a[j]] < place[a[j + 1]] /\ place[a[j]] = p + j
          BY <4>2, <3>1, <3>6, <1>2
        <5>2. place[a[j + 1]] \in Int
          BY <3>6, <1>3
        <5> QED
          BY <5>1, <5>2, <1>1
      <4> QED
        BY <4>1, <4>2
    <3>8. place[a[j + 1]] \in Int /\ place[a[j + 1]] <= p + (j + 1)
      BY <3>3, <3>4, <3>6, <1>1, <1>3
    <3>9. place[a[j + 1]] = p + (j + 1)
      <4> DEFINE q == place[a[j + 1]]
      <4>1. q \in Int /\ p \in Int /\ q > p + j /\ q <= p + (j + 1)
        BY <3>7, <3>8, <1>1
      <4> HIDE DEF q, p
      <4>2. q = p + (j + 1)
        BY <4>1
      <4> QED BY <4>2 DEF q
    <3> QED
      BY <3>6, <3>9
  <2> QED
    BY <2>1, <2>2, <1>1
<1>6. Nat \subseteq T
  <2> HIDE DEF T
  <2> QED BY <1>4, <1>5, Induction
<1>7. d \in Nat /\ d <= Len(a) /\ \A j \in 1..d : place[a[j]] = p + j
  <2>1. d \in Nat
    BY <1>1
  <2>2. d \in T /\ \A j \in 1..d : j \in T
    <3> HIDE DEF T, d
    <3> QED BY <2>1, <1>6
  <2> QED
    BY <2>1, <2>2
<1>8. ASSUME d < Len(a) PROVE FALSE
  <2>1. d + 1 \in 1..Len(a)
    BY <1>7, <1>8, <1>2
  <2>2. place[a[d + 1]] \in Int /\ place[a[d + 1]] <= s.length
    BY <2>1, <1>1, <1>3
  <2>3. CASE d = 0
    BY <2>1, <2>2, <2>3, <1>1, <1>2
  <2>4. CASE d # 0
    <3>1. place[a[d]] < place[a[d + 1]]
      BY <2>4, <2>1, <1>2, <1>7
    <3>2. place[a[d]] = s.length
      BY <2>4, <1>1, <1>7
    <3> QED
      BY <3>1, <3>2, <2>2, <1>1
  <2> QED
    BY <2>3, <2>4
<1>9. Len(a) = d
  BY <1>7, <1>8, <1>2
<1> QED
  BY <1>2, <1>7, <1>9 DEF a

\* The list of an arranged skip list puts every node at its place.
LEMMA ListIs ==
  ASSUME NEW place, Shaped(sl), Placed(sl, place), Linked(sl, place)
  PROVE  /\ List \in Seq(Nodes(sl)) /\ Len(List) = sl.length /\ sl.length \in Nat
         /\ \A p \in 1..sl.length : List[p] \in Nodes(sl) /\ place[List[p]] = p
         /\ \A n \in Nodes(sl) : place[n] \in 1..sl.length /\ List[place[n]] = n
         /\ Place = place
<1> DEFINE L == List
<1>1. L = After(sl, 1)[Header]
  BY DEF List, Chain
<1>2. sl.length \in Nat /\ Header \in On(sl, 1) /\ place[Header] = 0
      /\ \A x \in On(sl, 1) : place[x] \in 0..sl.length
  BY Basics
<1>3. L \in Seq(Nodes(sl)) /\ Len(L) = sl.length /\ \A p \in 1..sl.length : place[L[p]] = p
  <2>1. /\ L \in Seq(Nodes(sl)) /\ Len(L) = sl.length - place[Header]
        /\ \A j \in 1..Len(L) : place[L[j]] = place[Header] + j
    BY <1>1, <1>2, Counted
  <2> HIDE DEF L
  <2> QED
    BY <2>1, <1>2
<1> HIDE DEF L
<1>4. \A p \in 1..sl.length : L[p] \in Nodes(sl)
  BY <1>3
<1>5. ASSUME NEW n \in Nodes(sl) PROVE place[n] \in 1..sl.length /\ L[place[n]] = n
  <2>1. n \in On(sl, 1) /\ place[n] # place[Header]
    BY <1>2 DEF Placed, Nodes
  <2>2. place[n] \in 1..sl.length
    BY <2>1, <1>2
  <2>3. place[L[place[n]]] = place[n] /\ L[place[n]] \in On(sl, 1)
    BY <2>2, <1>3, <1>4 DEF Nodes
  <2> QED
    BY <2>1, <2>2, <2>3 DEF Placed
<1>6. Place = place
  <2>1. Place = [x \in On(sl, 1) |-> IF x = Header THEN 0 ELSE CHOOSE p \in DOMAIN L : L[p] = x]
    BY DEF Place, L
  <2>2. DOMAIN L = 1..sl.length
    BY <1>3
  <2>3. ASSUME NEW x \in On(sl, 1), x # Header
        PROVE  (CHOOSE p \in DOMAIN L : L[p] = x) = place[x]
    <3>1. x \in Nodes(sl)
      BY <2>3 DEF Nodes
    <3>2. place[x] \in DOMAIN L /\ L[place[x]] = x
      BY <3>1, <2>2, <1>5
    <3>3. \A p \in DOMAIN L : L[p] = x => p = place[x]
      BY <2>2, <1>3
    <3> QED
      BY <3>2, <3>3
  <2>4. place = [x \in On(sl, 1) |-> place[x]]
    BY DEF Placed
  <2>5. \A x \in On(sl, 1) :
          (IF x = Header THEN 0 ELSE CHOOSE p \in DOMAIN L : L[p] = x) = place[x]
    BY <2>3, <1>2
  <2> QED
    BY <2>1, <2>4, <2>5
<1> QED
  BY <1>2, <1>3, <1>4, <1>5, <1>6 DEF L

\* The chain of a level is what is on it, in the order of places.
LEMMA SublistsFollow == ASSUME NEW place, Arranged(sl, place) PROVE LevelsAreSublists
<1> USE DEF Arranged
<1>1. Place = place
  BY ListIs
<1>2. ASSUME NEW i \in Level
      PROVE  /\ {Chain(i)[j] : j \in DOMAIN Chain(i)} = On(sl, i) \ {Header}
             /\ \A j, k \in DOMAIN Chain(i) : j < k => place[Chain(i)[j]] < place[Chain(i)[k]]
             /\ i > sl.level => Chain(i) = <<>>
  <2> DEFINE a == Chain(i)
             S == On(sl, i) \ {Header}
  <2>1. Header \in On(sl, i) /\ On(sl, i) \subseteq On(sl, 1)
    BY Heights, NextOn
  <2>2. Behind(sl, place, Header, i, a)
    BY <2>1, AfterEnds DEF Chain
  <2>3. /\ a \in Seq(S)
        /\ \A y \in On(sl, i) : place[Header] < place[y] => \E j \in 1..Len(a) : a[j] = y
        /\ \A j, k \in 1..Len(a) : j < k => place[a[j]] < place[a[k]]
    BY <2>2 DEF Behind
  <2>4. \A y \in S : place[Header] < place[y]
    <3>1. \A y \in S : place[y] \in 0..sl.length /\ place[y] # place[Header] /\ place[Header] = 0
      BY <2>1, Basics DEF Placed
    <3>2. sl.length \in Nat
      BY Basics
    <3> QED
      BY <3>1, <3>2
  <2> HIDE DEF a
  <2>5. DOMAIN a = 1..Len(a) /\ \A j \in 1..Len(a) : a[j] \in S
    <3> HIDE DEF S
    <3> QED BY <2>3
  <2>6. {a[j] : j \in DOMAIN a} = S
    BY <2>3, <2>4, <2>5
  <2>7. ASSUME i > sl.level PROVE a = <<>>
    <3>1. S = {}
      BY <2>7 DEF Linked
    <3>2. Len(a) = 0
      <4>1. Len(a) \in Nat
        BY <2>3
      <4>2. ~(1 \in 1..Len(a))
        BY <3>1, <2>5
      <4> QED
        BY <4>1, <4>2
    <3> HIDE DEF S
    <3> QED
      BY <3>2, <2>3, EmptySeq
  <2> QED
    BY <2>3, <2>5, <2>6, <2>7 DEF a
<1> QED
  BY <1>1, <1>2 DEF LevelsAreSublists

\* Spans are differences of places.
LEMMA SpansFollow == ASSUME NEW place, Arranged(sl, place) PROVE SpansMeasure
<1>1. Place = place /\ \A i \in 1..sl.level : \A x \in On(sl, i) : LinkedAt(sl, place, x, i)
  BY ListIs DEF Arranged, Linked
<1> QED
  BY <1>1 DEF SpansMeasure, LinkedAt

\* backward and tail go down the places.
LEMMA MirrorFollows == ASSUME NEW place, Arranged(sl, place) PROVE Mirrored
<1> DEFINE L == List
           N == sl.length
<1>1. /\ L \in Seq(Nodes(sl)) /\ Len(L) = N /\ N \in Nat
      /\ \A p \in 1..N : L[p] \in Nodes(sl) /\ place[L[p]] = p
      /\ \A n \in Nodes(sl) : place[n] \in 1..N /\ L[place[n]] = n
  BY ListIs DEF Arranged
<1>2. /\ \A n \in Nodes(sl) :
           /\ sl.node[n].backward = Nil => place[n] = 1
           /\ sl.node[n].backward # Nil => /\ sl.node[n].backward \in Nodes(sl)
                                           /\ place[sl.node[n].backward] = place[n] - 1
      /\ sl.tail = Nil => N = 0
      /\ sl.tail # Nil => sl.tail \in Nodes(sl) /\ place[sl.tail] = N
  BY DEF Arranged, Backward
<1>3. \A n \in Nodes(sl) : n # Nil
  BY DEF Nodes, On, Node, Nil
<1> HIDE DEF L
<1>4. sl.tail = (IF L = <<>> THEN Nil ELSE L[Len(L)])
  <2>1. CASE N = 0
    <3>1. L = <<>>
      BY <2>1, <1>1, EmptySeq
    <3>2. sl.tail = Nil
      <4>1. \A n \in Nodes(sl) : FALSE
        BY <2>1, <1>1
      <4> QED
        BY <4>1, <1>2
    <3> QED
      BY <3>1, <3>2
  <2>2. CASE N # 0
    <3>1. L # <<>>
      BY <2>2, <1>1
    <3>2. sl.tail = L[N]
      BY <2>2, <1>1, <1>2
    <3> QED
      BY <3>1, <3>2, <1>1
  <2> QED
    BY <2>1, <2>2
<1>5. ASSUME NEW p \in DOMAIN L
      PROVE  sl.node[L[p]].backward = (IF p = 1 THEN Nil ELSE L[p - 1])
  <2> DEFINE n == L[p]
             b == sl.node[n].backward
  <2>1. p \in 1..N /\ n \in Nodes(sl) /\ place[n] = p
    BY <1>1
  <2>2. CASE b = Nil
    BY <2>1, <2>2, <1>2
  <2>3. CASE b # Nil
    <3>1. b \in Nodes(sl) /\ place[b] = p - 1
      BY <2>1, <2>3, <1>2
    <3>2. place[b] \in 1..N /\ L[place[b]] = b
      BY <3>1, <1>1
    <3>3. p # 1 /\ L[p - 1] = b
      BY <3>1, <3>2, <2>1
    <3> QED
      BY <3>3
  <2> QED
    BY <2>2, <2>3
<1> QED
  BY <1>1, <1>4, <1>5 DEF Mirrored, L

\* Values do not rise along the list.
LEMMA ValuesFollow ==
  ASSUME NEW place, Arranged(sl, place)
  PROVE  \A p \in 1..Len(List) - 1 : sl.node[List[p]].value >= sl.node[List[p + 1]].value
<1>1. /\ Len(List) = sl.length /\ sl.length \in Nat
      /\ \A p \in 1..sl.length : List[p] \in Nodes(sl) /\ place[List[p]] = p
  BY ListIs DEF Arranged
<1>2. ASSUME NEW p \in 1..Len(List) - 1
      PROVE  sl.node[List[p]].value >= sl.node[List[p + 1]].value
  <2>1. p \in 1..sl.length /\ p + 1 \in 1..sl.length
    BY <1>1
  <2>2. /\ List[p] \in Nodes(sl) /\ place[List[p]] = p
        /\ List[p + 1] \in Nodes(sl) /\ place[List[p + 1]] = p + 1
    BY <1>1, <2>1
  <2> QED
    BY <2>1, <2>2 DEF Arranged, Falling
<1> QED
  BY <1>2

\* No operation ever links a node that is not there, leaves a link without a
\* span or a level out of range.
THEOREM TypeCorrect == Spec => []TypeOK
<1>1. Inv => TypeOK
  <2> SUFFICES ASSUME Inv PROVE TypeOK
    OBVIOUS
  <2>1. PICK place : Arranged(sl, place)
    BY DEF Inv, Listed
  <2>2. Shaped(sl)
    BY <2>1 DEF Arranged
  <2>3. \A n \in Nodes(sl) : \E h \in Level : sl.node[n] \in Member(h)
    BY <2>2, Heights
  <2>4. sl.level \in Level /\ sl.length \in Nat /\ sl.tail \in Node \cup {Nil}
        /\ sl.node[Header].level \in [Level -> Link]
    BY <2>2 DEF Shaped, NodesShaped
  <2>5. objs \in [DOMAIN objs -> Value] /\ DOMAIN objs \subseteq Key /\ missed \in BOOLEAN
    BY DEF Inv
  <2> QED
    BY <2>3, <2>4, <2>5 DEF TypeOK, Member
<1> QED
  BY <1>1, StaysArranged, PTL

\* Every way to walk the skip list that insert and deleteNode leave, on each
\* level, backward and by memory, meets the same members in the same order.
THEOREM LinksStayAgreed == Spec => []LinksAgree
<1>1. Inv => LinksAgree
  BY SublistsFollow, MirrorFollows DEF Inv, Listed, LinksAgree
<1> QED
  BY <1>1, StaysArranged, PTL

\* Every link in use says how far it leads: the sums that insert and deleteNode
\* put into the spans, on the levels a node reaches and above, come out right.
THEOREM SpansStayMeasured == Spec => []SpansMeasure
<1>1. Inv => SpansMeasure
  BY SpansFollow DEF Inv, Listed
<1> QED
  BY <1>1, StaysArranged, PTL

-----------------------------------------------------------------------------
(* Searches by rank.                                                       *)

\* A search for rank r leaves a level at the last node of at most that rank.
LEMMA SkipEnds ==
  ASSUME NEW s, NEW place, Shaped(s), Placed(s, place), Linked(s, place),
         NEW r \in 0..s.length, NEW i \in 1..s.level, NEW x \in On(s, i), place[x] <= r
  PROVE  LET w == Skip(s, r, i)[[at |-> x, rank |-> place[x]]]
         IN  /\ w \in [at : On(s, i), rank : 0..s.length]
             /\ w.rank = place[w.at] /\ Crosses(s, place, w.at, i, r)
<1> DEFINE N == s.length
           R == 0..N
           O == On(s, i)
           S == [at : O, rank : R]
           ahead(q) == [at |-> forward(s, q.at, i), rank |-> q.rank + span(s, q.at, i)]
           On2(q) == ahead(q).at # Nil /\ ahead(q).rank <= r
           Stop == {q \in S : ~On2(q)}
           m == [q \in S |-> N - q.rank]
           next == [q \in S |-> ahead(q)]
           base == [q \in S |-> q]
           op == [a \in S \X S |-> a[2]]
           Eq(w) == [q \in S |-> IF On2(q) THEN w[ahead(q)] ELSE q]
<1>1. N \in Nat /\ \A y \in O : place[y] \in R
  BY Basics
<1>2. \A y \in O :
        \/ forward(s, y, i) = Nil
        \/ /\ forward(s, y, i) \in O
           /\ place[y] < place[forward(s, y, i)]
           /\ span(s, y, i) = place[forward(s, y, i)] - place[y]
  BY Basics
<1>3. \A y \in O : span(s, y, i) \in Nat
  BY Basics
<1>4. \A q \in S : q.at \in O /\ q.rank \in R /\ q.rank \in Nat
  OBVIOUS
<1>5. ASSUME NEW q \in S, On2(q)
      PROVE  /\ ahead(q) \in S /\ m[ahead(q)] < m[q]
  <2>1. forward(s, q.at, i) \in O /\ span(s, q.at, i) \in Nat /\ span(s, q.at, i) > 0
    <3>1. forward(s, q.at, i) # Nil
      BY <1>5
    <3>2. forward(s, q.at, i) \in O /\ place[q.at] < place[forward(s, q.at, i)]
          /\ span(s, q.at, i) = place[forward(s, q.at, i)] - place[q.at]
      BY <3>1, <1>2, <1>4
    <3>3. place[q.at] \in R /\ place[forward(s, q.at, i)] \in R
      BY <3>2, <1>1, <1>4
    <3> QED
      BY <3>2, <3>3, <1>1
  <2>2. q.rank + span(s, q.at, i) \in R /\ q.rank + span(s, q.at, i) > q.rank
    <3>1. q.rank + span(s, q.at, i) <= r
      BY <1>5
    <3> QED
      BY <3>1, <2>1, <1>4, <1>1
  <2>3. ahead(q) \in S
    BY <2>1, <2>2
  <2>4. m[ahead(q)] = N - (q.rank + span(s, q.at, i)) /\ m[q] = N - q.rank
    BY <2>3
  <2> QED
    BY <2>2, <2>3, <2>4, <1>1, <1>4
<1>6. m \in [S -> 0..N]
  BY <1>1
<1>7. \A q \in S \ Stop : next[q] \in S /\ m[next[q]] < m[q]
  <2> SUFFICES ASSUME NEW q \in S, On2(q) PROVE next[q] \in S /\ m[next[q]] < m[q]
    BY DEF Stop
  <2>1. next[q] = ahead(q)
    OBVIOUS
  <2> HIDE DEF m, next, ahead, S, On2
  <2> QED BY <1>5, <2>1
<1>8. \A q \in S : base[q] = q
  OBVIOUS
<1>9. \A q \in S, v \in S : op[<<q, v>>] = v
  OBVIOUS
<1>10. \A q \in S : next[q] = ahead(q) /\ (q \in Stop <=> ~On2(q))
  OBVIOUS
<1>11. Descent(S, S, N, m, Stop, next, base, op)
  <2>1. (\A q \in S \cap Stop : base[q] \in S) /\ \A q \in S \ Stop, v \in S : op[<<q, v>>] \in S
    <3> HIDE DEF S, Stop, base, op
    <3> QED BY <1>8, <1>9
  <2> HIDE DEF S, N, Stop, m, next, base, op
  <2> QED BY <1>1, <1>6, <1>7, <2>1 DEF Descent
<1>12. PICK g \in [S -> S] : \A q \in S :
        g[q] = IF q \in Stop THEN base[q] ELSE op[<<q, g[next[q]]>>]
  <2> HIDE DEF S, N, Stop, m, next, base, op
  <2> QED BY <1>11, Recursion
<1>13. g = Eq(g)
  <2>1. ASSUME NEW q \in S PROVE g[q] = IF On2(q) THEN g[ahead(q)] ELSE q
    <3>1. CASE On2(q)
      <4>1. ahead(q) \in S
        BY <3>1, <1>5
      <4> HIDE DEF S, Stop, m, next, base, op, ahead, On2
      <4>2. q \notin Stop /\ next[q] = ahead(q)
        BY <3>1, <1>10
      <4>3. g[q] = op[<<q, g[next[q]]>>]
        BY <4>2, <1>12
      <4>4. g[ahead(q)] \in S
        BY <4>1, <1>12
      <4>5. op[<<q, g[ahead(q)]>>] = g[ahead(q)]
        BY <4>4, <1>9
      <4> QED
        BY <3>1, <4>2, <4>3, <4>5
    <3>2. CASE ~On2(q)
      <4> HIDE DEF S, Stop, m, next, base, op, ahead, On2
      <4> QED BY <3>2, <1>8, <1>10, <1>12
    <3> QED
      BY <3>1, <3>2
  <2> HIDE DEF S, Stop, m, next, base, op, ahead, On2
  <2> QED
    BY <1>12, <2>1
<1> DEFINE W == Skip(s, r, i)
<1>14. W = CHOOSE w : w = Eq(w)
  BY DEF Skip
<1>15. W = Eq(W)
  BY <1>13, <1>14
<1> HIDE DEF W
<1>16. \A q \in S : W[q] = IF On2(q) THEN W[ahead(q)] ELSE q
  <2> HIDE DEF On2, ahead, S
  <2> QED BY <1>15
<1> DEFINE at(y) == [at |-> y, rank |-> place[y]]
           Good(y) == /\ W[at(y)] \in S
                      /\ W[at(y)].rank = place[W[at(y)].at]
                      /\ Crosses(s, place, W[at(y)].at, i, r)
           Bad == {y \in O : place[y] <= r /\ ~Good(y)}
<1>17. ASSUME NEW y \in O, place[y] <= r,
              \A z \in O : place[z] <= r /\ N - place[z] < N - place[y] => Good(z)
       PROVE  Good(y)
  <2> DEFINE f == forward(s, y, i)
  <2>1. at(y) \in S /\ at(y).at = y /\ at(y).rank = place[y] /\ place[y] \in R
    BY <1>1
  <2>2. CASE On2(at(y))
    <3>1. f # Nil /\ place[y] + span(s, y, i) <= r
      BY <2>2
    <3>2. f \in O /\ place[y] < place[f] /\ span(s, y, i) = place[f] - place[y]
      BY <3>1, <1>2
    <3>3. place[y] + span(s, y, i) = place[f] /\ place[f] \in R
      BY <3>2, <2>1, <1>1
    <3>4. ahead(at(y)) = at(f)
      BY <3>3
    <3>5. Good(f)
      <4>1. place[f] <= r /\ N - place[f] < N - place[y]
        BY <3>1, <3>2, <3>3, <2>1, <1>1
      <4> HIDE DEF Good
      <4> QED BY <4>1, <3>2, <1>17
    <3>6. W[at(y)] = W[at(f)]
      <4>1. W[at(y)] = W[ahead(at(y))]
        <5> HIDE DEF On2, ahead, S, at
        <5> QED BY <2>1, <2>2, <1>16
      <4> QED
        BY <4>1, <3>4
    <3> QED
      BY <3>5, <3>6
  <2>3. CASE ~On2(at(y))
    <3>1. W[at(y)] = at(y)
      <4> HIDE DEF On2, ahead, S, at
      <4> QED BY <2>1, <2>3, <1>16
    <3>2. f = Nil \/ ~(place[y] + span(s, y, i) <= r)
      BY <2>3
    <3>3. r < Ahead(s, place, y, i)
      <4>1. CASE f = Nil
        BY <4>1, <1>1 DEF Ahead
      <4>2. CASE f # Nil
        <5>1. f \in O /\ span(s, y, i) = place[f] - place[y]
          BY <4>2, <1>2
        <5>2. place[f] \in R
          BY <5>1, <1>1
        <5> QED
          BY <5>1, <5>2, <4>2, <3>2, <2>1, <1>1 DEF Ahead
      <4> QED
        BY <4>1, <4>2
    <3>4. Crosses(s, place, y, i, r)
      BY <3>3, <1>17 DEF Crosses
    <3> QED
      BY <3>1, <3>4, <2>1
  <2> QED
    BY <2>2, <2>3
<1>18. Bad = {}
  <2> SUFFICES ASSUME Bad # {} PROVE FALSE
    OBVIOUS
  <2> DEFINE d == [y \in O |-> N - place[y]]
  <2>1. \A y \in O : d[y] \in Nat /\ d[y] = N - place[y]
    BY <1>1
  <2>2. PICK y \in Bad : \A z \in Bad : d[y] <= d[z]
    <3> HIDE DEF d, Good
    <3>1. Bad \in SUBSET O
      OBVIOUS
    <3> QED BY <2>1, <3>1, LeastOf
  <2>3. \A z \in O : place[z] <= r /\ N - place[z] < N - place[y] => Good(z)
    <3>1. \A z \in Bad : ~(N - place[z] < N - place[y])
      <4> HIDE DEF Good, d
      <4> QED BY <2>1, <2>2
    <3> HIDE DEF d, Good
    <3> QED BY <3>1
  <2> QED
    <3> HIDE DEF Good
    <3> QED BY <1>17, <2>2, <2>3
<1>19. Good(x)
  <2> HIDE DEF Good
  <2> QED BY <1>18
<1> QED
  BY <1>19 DEF W

\* Where a search for rank r leaves level i: across the gap behind r.
LeavesAt(s, place, r, i, w) ==
  /\ w \in [at : On(s, i), rank : 0..s.length]
  /\ w.rank = place[w.at] /\ Crosses(s, place, w.at, i, r)

\* The same for the record that a search hands from level to level.
LEMMA SkipFrom ==
  ASSUME NEW s, NEW place, Shaped(s), Placed(s, place), Linked(s, place),
         NEW r \in 0..s.length, NEW i \in 1..s.level,
         NEW q \in [at : On(s, i), rank : 0..s.length], q.rank = place[q.at], q.rank <= r
  PROVE  LeavesAt(s, place, r, i, Skip(s, r, i)[q])
<1>1. q.at \in On(s, i) /\ q = [at |-> q.at, rank |-> place[q.at]] /\ place[q.at] <= r
  OBVIOUS
<1> DEFINE w == Skip(s, r, i)[[at |-> q.at, rank |-> place[q.at]]]
<1>2. /\ w \in [at : On(s, i), rank : 0..s.length]
      /\ w.rank = place[w.at] /\ Crosses(s, place, w.at, i, r)
  BY <1>1, SkipEnds
<1>3. w = Skip(s, r, i)[q]
  BY <1>1
<1> QED
  BY <1>2, <1>3 DEF LeavesAt

\* A search for rank r leaves every level across the gap behind r.
LEMMA SkipsEnd ==
  ASSUME NEW s, NEW place, Shaped(s), Placed(s, place), Linked(s, place),
         NEW r \in 0..s.length
  PROVE  \A i \in 1..s.level : LeavesAt(s, place, r, i, Skips(s, r)[i])
<1> DEFINE L == s.level
           S == 1..L
           R == 0..s.length
           V == [at : On(s, 1), rank : R]
           start == [at |-> Header, rank |-> 0]
           m == [i \in S |-> L - i]
           Stop == {L}
           next == [i \in S |-> i + 1]
           base == [i \in S |-> Skip(s, r, i)[start]]
           fits(i, v) == v \in [at : On(s, i), rank : R] /\ v.rank = place[v.at] /\ v.rank <= r
           op == [a \in S \X V |-> IF fits(a[1], a[2]) THEN Skip(s, r, a[1])[a[2]] ELSE a[2]]
           Eq(t) == [i \in S |-> Skip(s, r, i)[IF i = s.level THEN [at |-> Header, rank |-> 0]
                                               ELSE t[i + 1]]]
           Leaves(i, w) == LeavesAt(s, place, r, i, w)
<1>1. /\ L \in Nat /\ L \in S /\ s.length \in Nat /\ place[Header] = 0
      /\ \A i \in S : i \in Level /\ Header \in On(s, i) /\ On(s, i) \subseteq On(s, 1)
      /\ \A x \in On(s, 1) : place[x] \in R
  BY Basics
<1>2. ASSUME NEW i \in S, NEW v, fits(i, v)
      PROVE  Leaves(i, Skip(s, r, i)[v])
  BY <1>2, SkipFrom
<1>3. \A i \in S : fits(i, start)
  BY <1>1
<1>4. ASSUME NEW i \in S, NEW w, Leaves(i, w)
      PROVE  w \in V /\ fits(i, w)
  <2>1. /\ w \in [at : On(s, i), rank : R] /\ w.rank = place[w.at] /\ place[w.at] <= r
    BY <1>4 DEF LeavesAt, Crosses
  <2>2. w \in V
    BY <2>1, <1>1
  <2> QED
    BY <2>1, <2>2
<1>5. ASSUME NEW i \in S, i + 1 \in S, NEW v, fits(i + 1, v) PROVE fits(i, v)
  <2>1. On(s, i + 1) \subseteq On(s, i)
    <3>1. i \in 1..(i + 1) /\ i + 1 \in Level
      BY <1>1, <1>5
    <3> QED
      BY <3>1, Heights
  <2> QED
    BY <2>1, <1>5
<1> HIDE DEF fits
<1>6. m \in [S -> 0..L]
  BY <1>1
<1>7. \A i \in S \ Stop : next[i] \in S /\ m[next[i]] < m[i]
  BY <1>1
<1>8. \A i \in S : base[i] = Skip(s, r, i)[start]
  OBVIOUS
<1>9. \A i \in S, v \in V : op[<<i, v>>] = IF fits(i, v) THEN Skip(s, r, i)[v] ELSE v
  OBVIOUS
<1>10. \A i \in S : i # L => i \notin Stop /\ next[i] = i + 1 /\ i + 1 \in S
  BY <1>1
<1>11. L \in Stop /\ \A i \in Stop : i = L
  OBVIOUS
<1> HIDE DEF V, start, m, Stop, next, base, op, Leaves
<1>12. \A i \in S : base[i] \in V
  BY <1>2, <1>3, <1>4, <1>8
<1>13. \A i \in S, v \in V : op[<<i, v>>] \in V
  <2> SUFFICES ASSUME NEW i \in S, NEW v \in V PROVE op[<<i, v>>] \in V
    OBVIOUS
  <2>1. CASE fits(i, v)
    BY <2>1, <1>2, <1>4, <1>9
  <2>2. CASE ~fits(i, v)
    BY <2>2, <1>9
  <2> QED
    BY <2>1, <2>2
<1>14. Descent(S, V, L, m, Stop, next, base, op)
  <2> HIDE DEF S, L
  <2> QED BY <1>1, <1>6, <1>7, <1>12, <1>13 DEF Descent
<1>15. PICK g \in [S -> V] : \A i \in S :
        g[i] = IF i \in Stop THEN base[i] ELSE op[<<i, g[next[i]]>>]
  <2> HIDE DEF S, L
  <2> QED BY <1>14, Recursion
<1>16. \A i \in S : Leaves(i, g[i]) /\ g[i] = Skip(s, r, i)[IF i = L THEN start ELSE g[i + 1]]
  <2> DEFINE G == {i \in S : Leaves(i, g[i])
                             /\ g[i] = Skip(s, r, i)[IF i = L THEN start ELSE g[i + 1]]}
  <2>1. ASSUME NEW i \in S, i = L \/ i + 1 \in G PROVE i \in G
    <3>1. CASE i = L
      <4>1. g[i] = Skip(s, r, i)[start]
        BY <3>1, <1>8, <1>11, <1>15
      <4> QED
        BY <3>1, <4>1, <1>2, <1>3
    <3>2. CASE i # L
      <4>1. i + 1 \in S /\ i + 1 \in G /\ g[i] = op[<<i, g[i + 1]>>]
        BY <3>2, <2>1, <1>10, <1>15
      <4>2. g[i + 1] \in V /\ fits(i, g[i + 1])
        BY <4>1, <1>4, <1>5
      <4>3. g[i] = Skip(s, r, i)[g[i + 1]]
        BY <4>1, <4>2, <1>9
      <4> QED
        BY <3>2, <4>2, <4>3, <1>2
    <3> QED
      BY <3>1, <3>2
  <2>2. S \subseteq G
    <3> HIDE DEF G
    <3> QED BY <1>1, <2>1, Downward
  <2> QED
    BY <2>2
<1>17. g = Eq(g)
  <2>1. \A i \in S : g[i] = Eq(g)[i]
    BY <1>16 DEF start
  <2>2. g = [i \in S |-> g[i]]
    BY <1>15
  <2> DEFINE e == Eq(g)
  <2>3. e = [i \in S |-> e[i]]
    OBVIOUS
  <2>4. \A i \in S : g[i] = e[i]
    BY <2>1
  <2>5. g = e
    <3> HIDE DEF e, S
    <3> QED BY <2>2, <2>3, <2>4
  <2> QED
    BY <2>5
<1> DEFINE T == CHOOSE t : t = Eq(t)
<1>18. T = Eq(T)
  BY <1>17
<1>19. Skips(s, r) = <<>> \o T
  BY DEF Skips
<1> HIDE DEF T
<1>20. DOMAIN T = S /\ T = [i \in S |-> T[i]]
       /\ \A i \in S : T[i] = Skip(s, r, i)[IF i = L THEN start ELSE T[i + 1]]
  <2>1. \A i \in S : T[i] = Eq(T)[i]
    BY <1>18
  <2>2. DOMAIN T = S /\ T = [i \in S |-> T[i]]
    BY <1>18
  <2> QED
    BY <2>1, <2>2 DEF start
<1>21. \A i \in S : Leaves(i, T[i])
  <2> DEFINE G == {i \in S : Leaves(i, T[i])}
  <2>1. ASSUME NEW i \in S, i = L \/ i + 1 \in G PROVE i \in G
    <3>1. CASE i = L
      BY <3>1, <1>2, <1>3, <1>20
    <3>2. CASE i # L
      <4>1. i + 1 \in S /\ i + 1 \in G
        BY <3>2, <2>1, <1>10
      <4>2. fits(i, T[i + 1])
        BY <4>1, <1>4, <1>5
      <4> QED
        BY <3>2, <4>2, <1>2, <1>20
    <3> QED
      BY <3>1, <3>2
  <2>2. S \subseteq G
    <3> HIDE DEF G
    <3> QED BY <1>1, <2>1, Downward
  <2> QED
    BY <2>2
<1>22. T \in [S -> V]
  <2>1. \A i \in S : T[i] \in V
    BY <1>4, <1>21
  <2> QED
    BY <2>1, <1>20
<1>23. <<>> \o T = T
  <2>1. T \in Seq(V)
    BY <1>1, <1>22
  <2> QED
    BY <2>1, EmptyFirst
<1> QED
  BY <1>19, <1>21, <1>23 DEF Leaves

\* A search for a rank finds the node at that place.
LEMMA NodeByRank ==
  ASSUME NEW s, NEW place, Shaped(s), Placed(s, place), Linked(s, place),
         NEW r \in 1..s.length
  PROVE  getNodeByRank(s, r) \in Nodes(s) /\ place[getNodeByRank(s, r)] = r
<1> DEFINE t == Skips(s, r)
           seen == {i \in 1..s.level : t[i].rank = r}
<1>1. /\ s.level \in Nat /\ s.length \in Nat /\ 1 \in 1..s.level /\ r \in 0..s.length
      /\ \A i \in 1..s.level : On(s, i) \subseteq On(s, 1)
      /\ place[Header] = 0
      /\ \A x \in On(s, 1) : place[x] \in 0..s.length
  BY Basics
<1>2. \A i \in 1..s.level : LeavesAt(s, place, r, i, t[i])
  BY <1>1, SkipsEnd
<1> HIDE DEF t
<1>3. \A i \in 1..s.level : t[i].at \in On(s, 1) /\ t[i].rank = place[t[i].at]
  BY <1>1, <1>2 DEF LeavesAt
<1>4. t[1].rank = r
  <2>1. t[1].at \in On(s, 1) /\ Crosses(s, place, t[1].at, 1, r)
    BY <1>1, <1>2 DEF LeavesAt
  <2>2. Ahead(s, place, t[1].at, 1) = place[t[1].at] + 1
    BY <2>1, NextPlace
  <2>3. place[t[1].at] <= r /\ r < place[t[1].at] + 1 /\ place[t[1].at] \in Nat
    BY <2>1, <2>2, <1>1 DEF Crosses
  <2> QED
    BY <2>3, <1>1, <1>3
<1>5. Max(seen) \in seen
  <2>1. seen \in SUBSET (1..s.level) /\ seen # {}
    BY <1>1, <1>4
  <2> HIDE DEF seen
  <2> QED
    BY <2>1, <1>1, MaxIsThere
<1>6. ~(r <= 0 \/ r > s.length \/ seen = {})
  BY <1>1, <1>5
<1>7. getNodeByRank(s, r) = t[Max(seen)].at
  BY <1>6 DEF getNodeByRank, t
<1> DEFINE x == t[Max(seen)].at
<1>8. x \in On(s, 1) /\ place[x] = r
  BY <1>3, <1>5
<1>9. x # Header
  BY <1>1, <1>8
<1> QED
  BY <1>7, <1>8, <1>9 DEF Nodes

-----------------------------------------------------------------------------
(* Searches by key.                                                        *)

\* The node of key k and value v is the only one of that value.
Alone(s, n, k, v) ==
  /\ n \in Nodes(s) /\ s.node[n].key = k /\ s.node[n].value = v
  /\ \A m \in Nodes(s) : s.node[m].value = v => m = n

\* A search for a node whose value no other has ends before it.
LEMMA AloneIsNext ==
  ASSUME NEW s, NEW place, Arranged(s, place), NEW k, NEW v, NEW n, Alone(s, n, k, v)
  PROVE  LET t == Turns(s, Before(s, k, v))
         IN  /\ forward(s, t[1].at, 1) = n
             /\ \A i \in 1..s.level : /\ t[i].at \in On(s, i) /\ t[i].rank = place[t[i].at]
<1> USE DEF Arranged
<1> DEFINE P == Before(s, k, v)
           t == Turns(s, P)
           r == t[1].rank
           f == forward(s, t[1].at, 1)
<1>1. P \in SUBSET Nodes(s)
  BY DEF Before
<1>2. /\ s.length \in Nat /\ 1 \in 1..s.level /\ place[Header] = 0
      /\ \A x \in On(s, 1) : place[x] \in 0..s.length
  BY Basics
<1>3. /\ r \in 0..s.length
      /\ \A i \in 1..s.level : t[i].at \in On(s, i) /\ t[i].rank = place[t[i].at]
      /\ t[1].at = Header \/ t[1].at \in P
      /\ f \notin P
      /\ Ahead(s, place, t[1].at, 1) = r + 1
  BY <1>1, Gap
<1>4. n \in Nodes(s) /\ n \in On(s, 1) /\ n # Header /\ s.node[n].value = v /\ s.node[n].key = k
      /\ \A m \in Nodes(s) : s.node[m].value = v => m = n
  BY DEF Alone, Nodes
<1>5. \A m \in Nodes(s) : s.node[m].value \in Int
  BY Heights, ZsetAssumption
<1>6. \A m \in P : m \in Nodes(s) /\ m # n /\ s.node[m].value > v
  BY <1>4, <1>5 DEF Before
<1>7. \A m \in Nodes(s) : m # n /\ m \notin P => s.node[m].value < v
  BY <1>4, <1>5 DEF Before
<1> HIDE DEF P, t
<1>8. place[n] > r
  <2>1. place[n] > 0
    <3>1. Header \in On(s, 1) /\ place[n] # place[Header]
      BY <1>2, <1>4, Basics DEF Placed
    <3> QED
      BY <3>1, <1>2, <1>4
  <2>2. CASE t[1].at = Header
    BY <2>1, <2>2, <1>2, <1>3
  <2>3. CASE t[1].at \in P
    <3> DEFINE x == t[1].at
    <3>1. x \in Nodes(s) /\ x # n /\ s.node[x].value > v /\ x \in On(s, 1)
      BY <2>3, <1>6 DEF Nodes
    <3>2. ~(place[n] < place[x])
      <4>1. s.node[x].value \in Int /\ v \in Int
        BY <3>1, <1>4, <1>5
      <4> QED
        BY <3>1, <4>1, <1>4 DEF Falling
    <3>3. place[n] # place[x]
      BY <3>1, <1>4 DEF Placed
    <3> QED
      BY <3>1, <3>2, <3>3, <1>2, <1>3, <1>4
  <2> QED
    BY <2>2, <2>3, <1>3
<1>9. f # Nil /\ place[f] = r + 1 /\ f \in Nodes(s)
  <2>1. place[n] <= s.length
    BY <1>2, <1>4
  <2>2. CASE f = Nil
    BY <2>1, <2>2, <1>2, <1>3, <1>4, <1>8 DEF Ahead
  <2>3. CASE f # Nil
    <3>1. place[f] = r + 1
      BY <2>3, <1>3 DEF Ahead
    <3>2. f \in Nodes(s)
      BY <2>3, <1>2, <1>3, Basics
    <3> QED
      BY <2>3, <3>1, <3>2
  <2> QED
    BY <2>2, <2>3
<1>10. f = n
  <2> SUFFICES ASSUME f # n PROVE FALSE
    OBVIOUS
  <2>1. s.node[f].value < v /\ s.node[f].value \in Int /\ v \in Int /\ f \in On(s, 1)
    BY <1>3, <1>4, <1>5, <1>7, <1>9 DEF Nodes
  <2>2. ~(place[f] < place[n])
    BY <2>1, <1>4, <1>9 DEF Falling
  <2>3. place[f] # place[n]
    BY <2>1, <1>4 DEF Placed
  <2>4. place[n] \in Int /\ place[n] >= r + 1
    BY <1>2, <1>3, <1>4, <1>8
  <2> QED
    BY <2>2, <2>3, <2>4, <1>9, <1>3
<1> QED
  BY <1>3, <1>10 DEF t, P

\* getRank returns the place of such a node.
LEMMA AloneIsRanked ==
  ASSUME NEW s, NEW place, Arranged(s, place), NEW k, NEW v, NEW n, Alone(s, n, k, v)
  PROVE  getRank(s, k, v) = place[n]
<1> USE DEF Arranged
<1> DEFINE t == Turns(s, Before(s, k, v))
           seen == {i \in 1..s.level : IsNode(s, forward(s, t[i].at, i), k, v)}
<1>1. /\ forward(s, t[1].at, 1) = n
      /\ \A i \in 1..s.level : /\ t[i].at \in On(s, i) /\ t[i].rank = place[t[i].at]
  BY AloneIsNext
<1> HIDE DEF t
<1>2. /\ n # Nil /\ s.node[n].key = k /\ s.node[n].value = v /\ n \in On(s, 1)
      /\ \A m \in Nodes(s) : s.node[m].value = v => m = n
  BY DEF Alone, Nodes, On, Node, Nil
<1>3. /\ 1 \in 1..s.level /\ s.level \in Nat /\ s.length \in Nat
      /\ \A i \in 1..s.level : On(s, i) \subseteq On(s, 1)
      /\ \A x \in On(s, 1) : place[x] \in 0..s.length
  BY Basics
<1>4. 1 \in seen
  BY <1>1, <1>2, <1>3 DEF IsNode
<1>5. Max(seen) \in seen
  <2>1. seen \in SUBSET (1..s.level) /\ seen # {}
    BY <1>4
  <2> HIDE DEF seen
  <2> QED
    BY <2>1, <1>3, MaxIsThere
<1> DEFINE i == Max(seen)
<1>6. getRank(s, k, v) = t[i].rank + span(s, t[i].at, i)
  <2>1. seen # {}
    BY <1>4
  <2> QED
    BY <2>1 DEF getRank, t
<1>7. i \in 1..s.level /\ IsNode(s, forward(s, t[i].at, i), k, v)
  BY <1>5
<1> HIDE DEF i, seen
<1>8. forward(s, t[i].at, i) = n /\ span(s, t[i].at, i) = place[n] - place[t[i].at]
  <2>1. forward(s, t[i].at, i) \in Nodes(s) /\ s.node[forward(s, t[i].at, i)].value = v
    BY <1>1, <1>7, Basics DEF IsNode
  <2>2. forward(s, t[i].at, i) = n
    BY <2>1, <1>2
  <2> QED
    BY <2>2, <1>1, <1>2, <1>7, Basics
<1>9. place[t[i].at] \in Int /\ place[n] \in Int /\ t[i].rank = place[t[i].at]
  BY <1>1, <1>2, <1>3, <1>7
<1> QED
  BY <1>6, <1>8, <1>9

\* delete misses a node only if one of another key and the same value stands
\* behind it and reaches a higher level.
LEMMA MissIsOvertaken ==
  ASSUME NEW s, NEW place, Arranged(s, place), NEW n \in Nodes(s), NEW k, NEW v,
         IsNode(s, n, k, v), Found(s, k, v) = Nil
  PROVE  \E m \in Nodes(s), i \in Level :
           /\ s.node[m].value = v /\ s.node[m].key # k
           /\ place[n] < place[m] /\ m \in On(s, i) /\ n \notin On(s, i)
<1> USE DEF Arranged
<1> DEFINE P == Before(s, k, v)
           t == Turns(s, P)
           r == t[1].rank
           f == forward(s, t[1].at, 1)
<1>1. P \in SUBSET Nodes(s)
  BY DEF Before
<1>2. /\ s.length \in Nat /\ s.level \in Nat /\ 1 \in 1..s.level /\ place[Header] = 0
      /\ \A x \in On(s, 1) : place[x] \in 0..s.length
      /\ \A i \in 1..s.level : i \in Level /\ On(s, i) \subseteq On(s, 1)
  BY Basics
<1>3. /\ r \in 0..s.length
      /\ f \notin P
      /\ t[1].at \in On(s, 1)
      /\ Ahead(s, place, t[1].at, 1) = r + 1
  BY <1>1, <1>2, Gap
<1>4. \A i \in 1..s.level : TurnsAt(s, place, P, t, i)
  BY <1>1, TurnsEnd
<1>6. \A m \in Nodes(s) : m \in On(s, 1) /\ s.node[m].value \in Int
  BY Heights, ZsetAssumption DEF Nodes
<1>7. v \in Int
  BY <1>6 DEF IsNode
<1>5. /\ n \in On(s, 1) /\ n # Header /\ s.node[n].value = v /\ s.node[n].key = k
      /\ n \notin P
  BY <1>7 DEF Nodes, IsNode, Before
<1>8. \A m \in P : m \in Nodes(s) /\ (s.node[m].value > v \/ (s.node[m].value = v /\ s.node[m].key # k))
  BY DEF Before
<1>9. \A m \in Nodes(s) : m \notin P => ~(s.node[m].value > v) /\ (s.node[m].value = v => s.node[m].key = k)
  BY DEF Before
<1>10. IsNode(s, f, k, v) => Found(s, k, v) = f
  BY DEF Found
<1> HIDE DEF P, t, f
<1>11. place[n] \in 0..s.length /\ 0 < place[n]
  <2>1. Header \in On(s, 1) /\ place[n] # place[Header]
    BY <1>2, <1>5, Basics DEF Placed
  <2> QED
    BY <2>1, <1>2, <1>5
<1>12. place[n] <= r
  <2> SUFFICES ASSUME r < place[n] PROVE FALSE
    BY <1>3, <1>11
  <2>1. f # Nil /\ f \in Nodes(s) /\ place[f] = r + 1
    <3>1. f # Nil
      BY <1>2, <1>3, <1>11 DEF Ahead, f
    <3> QED
      BY <3>1, <1>2, <1>3, Basics DEF Ahead, f
  <2>2. s.node[f].value >= v
    <3>1. CASE f = n
      BY <3>1, <1>5, <1>7
    <3>2. CASE f # n
      <4>1. place[f] # place[n]
        BY <3>2, <2>1, <1>5, <1>6 DEF Placed
      <4>2. place[f] < place[n]
        BY <4>1, <2>1, <1>3, <1>11
      <4> QED
        BY <4>2, <2>1, <1>5 DEF Falling
    <3> QED
      BY <3>1, <3>2
  <2>3. s.node[f].value = v /\ s.node[f].key = k
    BY <2>1, <2>2, <1>3, <1>6, <1>7, <1>9
  <2> QED
    BY <2>1, <2>3, <1>10 DEF IsNode
<1>13. PICK h \in Level : DOMAIN s.node[n].level = 1..h
  BY Heights
<1>14. h \in 1..s.level /\ n \in On(s, h) /\ n \notin On(s, h + 1)
  <2>1. h \in Nat /\ h \in 1..h /\ h + 1 \notin 1..h
    BY ZsetAssumption DEF Level
  <2>2. n \in On(s, h) /\ n \notin On(s, h + 1)
    BY <2>1, <1>5, <1>13 DEF On
  <2>3. ~(h > s.level)
    BY <2>2, <1>5 DEF Linked
  <2> QED
    BY <2>1, <2>2, <2>3, <1>2
<1>15. \A i \in 1..s.level : t[i].rank \in Nat /\ t[i].rank = place[t[i].at] /\ t[i].at \in On(s, i)
  BY <1>4 DEF TurnsAt
<1>16. ~(t[h].rank < place[n])
  <2>1. TurnsAt(s, place, P, t, 1) /\ h \in 1..s.level
    BY <1>2, <1>4, <1>14
  <2>2. t[h].rank < place[n] => r < place[n]
    BY <2>1, <1>5, <1>14 DEF TurnsAt
  <2> QED
    BY <2>2, <1>3, <1>11, <1>12
<1>17. ~(From(s, t, h).rank < place[n])
  <2>1. TurnsAt(s, place, P, t, h)
    BY <1>4, <1>14
  <2> QED
    BY <2>1, <1>5, <1>14, <1>16 DEF TurnsAt
<1>18. h # s.level
  BY <1>11, <1>17 DEF From
<1> DEFINE i == h + 1
<1>19. i \in 1..s.level /\ ~(t[i].rank < place[n])
  BY <1>2, <1>14, <1>17, <1>18 DEF From
<1> HIDE DEF i
<1> DEFINE m == t[i].at
<1>20. m \in On(s, i) /\ m \in On(s, 1) /\ place[n] <= place[m] /\ place[m] \in 0..s.length
  <2>1. m \in On(s, i) /\ m \in On(s, 1) /\ place[m] = t[i].rank
    BY <1>2, <1>15, <1>19
  <2>2. place[m] \in 0..s.length
    BY <2>1, <1>2
  <2> QED
    BY <2>1, <2>2, <1>11, <1>19
<1>21. m \in P
  <2>1. m # Header
    BY <1>2, <1>11, <1>20
  <2>2. TurnsAt(s, place, P, t, i)
    BY <1>4, <1>19
  <2> QED
    BY <2>1, <2>2 DEF TurnsAt
<1> HIDE DEF m
<1>22. place[n] < place[m]
  <2>1. place[m] # place[n]
    BY <1>5, <1>20, <1>21 DEF Placed
  <2> QED
    BY <2>1, <1>11, <1>20
<1>23. s.node[m].value = v /\ s.node[m].key # k /\ m \in Nodes(s)
  <2>1. v >= s.node[m].value /\ m \in Nodes(s)
    BY <1>5, <1>8, <1>21, <1>22 DEF Falling
  <2> QED
    BY <2>1, <1>6, <1>7, <1>8, <1>21
<1>24. i \in Level /\ n \notin On(s, i)
  BY <1>2, <1>14, <1>19 DEF i
<1> QED
  BY <1>20, <1>22, <1>23, <1>24

\* getRank finds no node only where delete would miss it.
LEMMA RanklessIsMiss ==
  ASSUME NEW s, NEW place, Arranged(s, place), NEW k, NEW v, getRank(s, k, v) = 0
  PROVE  Found(s, k, v) = Nil
<1> SUFFICES ASSUME Found(s, k, v) # Nil PROVE FALSE
  OBVIOUS
<1> USE DEF Arranged
<1> DEFINE P == Before(s, k, v)
           t == Turns(s, P)
           seen == {i \in 1..s.level : IsNode(s, forward(s, t[i].at, i), k, v)}
<1>1. /\ 1 \in 1..s.level /\ s.level \in Nat
      /\ \A i \in 1..s.level : On(s, i) \subseteq On(s, 1)
      /\ s.length \in Nat /\ \A x \in On(s, 1) : place[x] \in 0..s.length
  BY Basics
<1>2. 1 \in seen
  BY <1>1 DEF Found
<1>3. getRank(s, k, v) = IF seen = {} THEN 0 ELSE t[Max(seen)].rank + span(s, t[Max(seen)].at, Max(seen))
  BY DEF getRank
<1>4. P \in SUBSET Nodes(s)
  BY DEF Before
<1>5. \A i \in 1..s.level : t[i].at \in On(s, i) /\ t[i].rank = place[t[i].at]
  BY <1>4, Gap
<1> HIDE DEF t, P
<1>6. Max(seen) \in seen
  <2>1. seen \in SUBSET (1..s.level) /\ seen # {}
    BY <1>2
  <2> HIDE DEF seen
  <2> QED
    BY <2>1, <1>1, MaxIsThere
<1> DEFINE i == Max(seen)
           x == t[i].at
           f == forward(s, x, i)
<1>7. i \in 1..s.level /\ IsNode(s, f, k, v)
  BY <1>6
<1>8. getRank(s, k, v) = t[i].rank + span(s, x, i)
  BY <1>2, <1>3
<1> HIDE DEF i, seen
<1>9. x \in On(s, i) /\ x \in On(s, 1) /\ t[i].rank = place[x]
  BY <1>1, <1>5, <1>7
<1> HIDE DEF x
<1>10. f # Nil /\ f \in On(s, i) /\ place[x] < place[f] /\ span(s, x, i) = place[f] - place[x]
  BY <1>7, <1>9, Basics DEF IsNode
<1>11. place[x] \in Nat /\ place[f] \in Nat
  BY <1>1, <1>7, <1>9, <1>10
<1> QED
  BY <1>8, <1>9, <1>10, <1>11

-----------------------------------------------------------------------------
(* Reading ranks and pages.                                                *)

\* The smaller of two numbers, as Range uses it.
LEMMA MinOfTwo ==
  ASSUME NEW a \in Int, NEW b \in Int
  PROVE  Min({a, b}) = IF a <= b THEN a ELSE b
<1>1. \E x \in {a, b} : \A y \in {a, b} : x <= y
  OBVIOUS
<1>2. Min({a, b}) \in {a, b} /\ \A y \in {a, b} : Min({a, b}) <= y
  BY <1>1 DEF Min
<1> QED
  BY <1>2

\* getNodeByRank returns the node that the list has at a rank.
LEMMA RanksFollow == ASSUME NEW place, Arranged(sl, place) PROVE RanksAreFound
<1>1. \A p \in 1..Len(List) - 1 : sl.node[List[p]].value >= sl.node[List[p + 1]].value
  BY ValuesFollow
<1>2. /\ List \in Seq(Nodes(sl)) /\ Len(List) = sl.length
      /\ \A n \in Nodes(sl) : List[place[n]] = n
  BY ListIs DEF Arranged
<1>3. \A p \in DOMAIN List : getNodeByRank(sl, p) = List[p]
  <2> SUFFICES ASSUME NEW p \in DOMAIN List PROVE getNodeByRank(sl, p) = List[p]
    OBVIOUS
  <2>1. p \in 1..sl.length
    BY <1>2
  <2>2. getNodeByRank(sl, p) \in Nodes(sl) /\ place[getNodeByRank(sl, p)] = p
    BY <2>1, NodeByRank DEF Arranged
  <2> QED
    BY <2>2, <1>2
<1> QED
  BY <1>1, <1>3 DEF RanksAreFound

\* getRank returns the place of a key without tie.
LEMMA RankFollows == ASSUME NEW place, Arranged(sl, place) PROVE UntiedIsRanked
<1>1. /\ List \in Seq(Nodes(sl)) /\ Len(List) = sl.length
      /\ \A p \in 1..sl.length : List[p] \in Nodes(sl) /\ place[List[p]] = p
      /\ \A n \in Nodes(sl) : place[n] \in 1..sl.length /\ List[place[n]] = n
  BY ListIs DEF Arranged
<1>2. ASSUME NEW p \in DOMAIN List,
             \A q \in DOMAIN List \ {p} : sl.node[List[q]].value # sl.node[List[p]].value
      PROVE  getRank(sl, sl.node[List[p]].key, sl.node[List[p]].value) = p
  <2> DEFINE n == List[p]
  <2>1. DOMAIN List = 1..sl.length
    BY <1>1
  <2>2. n \in Nodes(sl) /\ place[n] = p
    BY <2>1, <1>1
  <2>3. ASSUME NEW m \in Nodes(sl), sl.node[m].value = sl.node[n].value PROVE m = n
    <3>1. place[m] \in DOMAIN List /\ List[place[m]] = m
      BY <2>1, <1>1
    <3>2. place[m] = p
      BY <3>1, <2>3, <1>2
    <3> QED
      BY <3>1, <3>2
  <2>4. Alone(sl, n, sl.node[n].key, sl.node[n].value)
    BY <2>2, <2>3 DEF Alone
  <2> QED
    BY <2>2, <2>4, AloneIsRanked
<1> QED
  BY <1>2 DEF UntiedIsRanked

\* A page that begins in the list is that part of it,
LEMMA PageIs ==
  ASSUME NEW place, Arranged(sl, place),
         NEW first \in 1..sl.length, NEW last \in Nat, first <= last
  PROVE  ListRange(sl, first, last) =
           [j \in 1..(IF last <= sl.length THEN last ELSE sl.length) - first + 1 |->
              sl.node[List[first + j - 1]].key]
<1> DEFINE N == sl.length
           n == getNodeByRank(sl, first)
           a == After(sl, 1)[n]
           rest == <<n>> \o a
           d == (IF last <= N THEN last ELSE N) - first + 1
<1>1. /\ List \in Seq(Nodes(sl)) /\ N \in Nat
      /\ \A m \in Nodes(sl) : place[m] \in 1..N /\ List[place[m]] = m
  BY ListIs DEF Arranged
<1>2. n \in Nodes(sl) /\ place[n] = first /\ n \in On(sl, 1) /\ n # Nil
  BY NodeByRank DEF Arranged, Nodes, On, Node, Nil
<1> HIDE DEF n
<1>3. /\ a \in Seq(Nodes(sl)) /\ Len(a) = N - first
      /\ \A j \in 1..Len(a) : place[a[j]] = first + j
  BY <1>2, Counted DEF Arranged
<1> HIDE DEF a
<1>4. /\ rest \in Seq(Nodes(sl)) /\ Len(rest) = N - first + 1
      /\ rest[1] = n /\ \A j \in 1..Len(a) : rest[j + 1] = a[j]
  BY <1>1, <1>2, <1>3
<1> HIDE DEF rest
<1>5. ASSUME NEW j \in 1..d PROVE rest[j] = List[first + j - 1]
  <2>1. j \in 1..Len(rest) /\ rest[j] \in Nodes(sl)
    BY <1>1, <1>4
  <2>2. place[rest[j]] = first + j - 1
    <3>1. CASE j = 1
      BY <3>1, <1>2, <1>4
    <3>2. CASE j # 1
      <4>1. j - 1 \in 1..Len(a) /\ rest[j - 1 + 1] = a[j - 1] /\ j - 1 + 1 = j
        <5>1. j - 1 \in 1..Len(a) /\ j - 1 + 1 = j
          BY <3>2, <2>1, <1>1, <1>3, <1>4
        <5> DEFINE i == j - 1
        <5>2. i \in 1..Len(a) /\ rest[i + 1] = a[i]
          BY <5>1, <1>4
        <5> QED
          BY <5>1, <5>2
      <4>2. place[a[j - 1]] = first + (j - 1)
        BY <4>1, <1>3
      <4> QED
        BY <4>1, <4>2
    <3> QED
      BY <3>1, <3>2
  <2> QED
    BY <2>1, <2>2, <1>1
<1>6. Min({Len(rest), last - first + 1}) = d
  <2>1. Len(rest) = N - first + 1 /\ Len(rest) \in Int /\ last - first + 1 \in Int
    BY <1>1, <1>4
  <2>2. Min({Len(rest), last - first + 1}) =
          IF Len(rest) <= last - first + 1 THEN Len(rest) ELSE last - first + 1
    BY <2>1, MinOfTwo
  <2> QED
    BY <2>1, <2>2, <1>1
<1>7. ListRange(sl, first, last) = [j \in 1..d |-> sl.node[rest[j]].key]
  BY <1>2, <1>6 DEF ListRange, n, rest, a
<1> QED
  BY <1>5, <1>7

\* and one that begins behind it is empty.
LEMMA PageBeyond ==
  ASSUME sl.length \in Nat, NEW first \in Nat, first > sl.length, NEW last \in Nat, first <= last
  PROVE  ListRange(sl, first, last) = <<>>
<1> DEFINE n == getNodeByRank(sl, first)
           rest == IF n = Nil THEN <<>> ELSE <<n>> \o After(sl, 1)[n]
<1>1. n = Nil
  BY DEF getNodeByRank
<1>2. rest = <<>> /\ Len(rest) = 0
  BY <1>1
<1>3. Min({Len(rest), last - first + 1}) = 0
  <2>1. Len(rest) \in Int /\ last - first + 1 \in Int /\ 0 <= last - first + 1
    BY <1>2
  <2> QED
    BY <2>1, <1>2, MinOfTwo
<1>4. ListRange(sl, first, last) =
        [j \in 1..Min({Len(rest), last - first + 1}) |-> sl.node[rest[j]].key]
  BY DEF ListRange
<1> HIDE DEF rest
<1>5. ListRange(sl, first, last) = [j \in 1..0 |-> sl.node[rest[j]].key]
  BY <1>3, <1>4
<1> QED
  BY <1>5

\* An argument of range is between two places as its own name of them is.
LEMMA Clamped ==
  ASSUME sl.length \in Nat, NEW a \in Int
  PROVE  /\ ClampedPlace(a) \in Nat \ {0}
         /\ \A p \in 1..sl.length :
              LET name == IF a < 0 THEN p - sl.length - 1 ELSE p
              IN  /\ ClampedPlace(a) <= p <=> a <= name
                  /\ p <= ClampedPlace(a) <=> p = 1 \/ name <= a
<1> DEFINE b == IF a < 0 THEN sl.length + a + 1 ELSE a
<1>1. b \in Int /\ ClampedPlace(a) = Max({1, b})
  BY DEF ClampedPlace
<1>2. Max({1, b}) = IF 1 >= b THEN 1 ELSE b
  <2> HIDE DEF b
  <2> QED BY <1>1, MaxOfTwo
<1>3. ClampedPlace(a) = IF 1 >= b THEN 1 ELSE b
  BY <1>1, <1>2
<1> QED
  BY <1>3

\* What is wanted are the places from the first to the last.
LEMMA WantedIs ==
  ASSUME sl.length \in Nat, NEW start \in Int, NEW stop \in {<<>>} \cup {<<a>> : a \in Int}
  PROVE  LET first == ClampedPlace(start)
             last  == ClampedPlace(IF stop = <<>> THEN sl.length ELSE stop[1])
         IN  /\ first \in Nat \ {0} /\ last \in Nat \ {0}
             /\ Wanted(start, stop) = {p \in 1..sl.length : first <= p /\ p <= last}
<1> DEFINE N == sl.length
           end == IF stop = <<>> THEN N ELSE stop[1]
           first == ClampedPlace(start)
           last == ClampedPlace(end)
           name(a, p) == IF a < 0 THEN p - N - 1 ELSE p
<1>1. end \in Int
  OBVIOUS
<1>2. first \in Nat \ {0} /\ \A p \in 1..N : first <= p <=> start <= name(start, p)
  BY Clamped
<1>3. last \in Nat \ {0} /\ \A p \in 1..N : p <= last <=> p = 1 \/ name(end, p) <= end
  <2> HIDE DEF end
  <2> QED BY <1>1, Clamped
<1>4. \A p \in 1..N : p <= last <=> stop = <<>> \/ p = 1 \/ name(stop[1], p) <= stop[1]
  <2>1. CASE stop = <<>>
    <3>1. \A p \in 1..N : name(end, p) <= end
      BY <2>1
    <3> HIDE DEF end, last
    <3> QED BY <2>1, <3>1, <1>3
  <2>2. CASE stop # <<>>
    <3>1. end = stop[1]
      BY <2>2
    <3> HIDE DEF end, last
    <3> QED BY <2>2, <3>1, <1>3
  <2> QED
    BY <2>1, <2>2
<1> DEFINE W == Wanted(start, stop)
<1>5. /\ W \subseteq 1..N
      /\ \A p \in 1..N :
           p \in W <=>
             start <= name(start, p) /\ (stop = <<>> \/ p = 1 \/ name(stop[1], p) <= stop[1])
  BY DEF Wanted
<1> HIDE DEF first, last, end, name, W
<1>6. \A p \in 1..N : p \in W <=> first <= p /\ p <= last
  BY <1>2, <1>4, <1>5
<1>7. W = {p \in 1..N : first <= p /\ p <= last}
  BY <1>5, <1>6
<1> QED
  BY <1>2, <1>3, <1>7 DEF first, last, end, W

-----------------------------------------------------------------------------
(* Keys.                                                                   *)

\* The pairs of keys of which the first has the node at the smaller place.
Pairs(s, place) ==
  {pair \in Key \X Key : \E x, y \in Nodes(s) :
      place[x] < place[y] /\ pair = <<s.node[x].key, s.node[y].key>>}

\* Of keys whose nodes are in the list, those that stand before others there.
Ranked(s) ==
  LET list == After(s, 1)[Header]
  IN  {<<s.node[list[pair[1]]].key, s.node[list[pair[2]]].key>> :
         pair \in {q \in (DOMAIN list) \X (DOMAIN list) : q[1] < q[2]}}

\* The order of the keys in the list is that of the places.
LEMMA RankedIs ==
  ASSUME NEW s, NEW place, Arranged(s, place)
  PROVE  Ranked(s) = Pairs(s, place)
<1> USE DEF Arranged
<1> DEFINE L == After(s, 1)[Header]
           D == DOMAIN L
           Q == {q \in D \X D : q[1] < q[2]}
           A == {<<s.node[L[pair[1]]].key, s.node[L[pair[2]]].key>> : pair \in Q}
<1>1. /\ s.length \in Nat /\ Header \in On(s, 1) /\ place[Header] = 0
      /\ \A x \in On(s, 1) : place[x] \in 0..s.length
  BY Basics
<1>2. /\ L \in Seq(Nodes(s)) /\ Len(L) = s.length - place[Header]
      /\ \A j \in 1..Len(L) : place[L[j]] = place[Header] + j
  BY <1>1, Counted
<1> HIDE DEF L
<1>3. /\ D = 1..s.length
      /\ \A p \in D : L[p] \in Nodes(s) /\ place[L[p]] = p
  <2>1. Len(L) = s.length /\ DOMAIN L = 1..Len(L)
    BY <1>1, <1>2
  <2>2. \A p \in 1..Len(L) : L[p] \in Nodes(s)
    BY <1>2
  <2> QED
    BY <2>1, <2>2, <1>1, <1>2
<1>4. ASSUME NEW x \in Nodes(s) PROVE place[x] \in D /\ L[place[x]] = x
  <2>1. x \in On(s, 1) /\ place[x] # place[Header]
    BY <1>1 DEF Placed, Nodes
  <2>2. place[x] \in D
    BY <2>1, <1>1, <1>3
  <2>3. L[place[x]] \in On(s, 1) /\ place[L[place[x]]] = place[x]
    BY <2>2, <1>3 DEF Nodes
  <2> QED
    BY <2>1, <2>2, <2>3 DEF Placed
<1>5. \A x \in Nodes(s) : s.node[x].key \in Key
  BY Heights
<1>6. ASSUME NEW c \in A PROVE c \in Pairs(s, place)
  <2>1. PICK q \in Q : c = <<s.node[L[q[1]]].key, s.node[L[q[2]]].key>>
    OBVIOUS
  <2> DEFINE x == L[q[1]]
             y == L[q[2]]
  <2>2. q[1] \in D /\ q[2] \in D /\ q[1] < q[2]
    OBVIOUS
  <2>3. x \in Nodes(s) /\ y \in Nodes(s) /\ place[x] < place[y]
    BY <2>2, <1>3
  <2> HIDE DEF x, y
  <2>4. c = <<s.node[x].key, s.node[y].key>>
    BY <2>1 DEF x, y
  <2> QED
    BY <2>3, <2>4, <1>5 DEF Pairs
<1>7. ASSUME NEW c \in Pairs(s, place) PROVE c \in A
  <2>1. PICK x \in Nodes(s), y \in Nodes(s) :
          place[x] < place[y] /\ c = <<s.node[x].key, s.node[y].key>>
    BY DEF Pairs
  <2>2. place[x] \in D /\ place[y] \in D /\ L[place[x]] = x /\ L[place[y]] = y
    BY <1>4
  <2> DEFINE q == <<place[x], place[y]>>
  <2>3. q \in Q /\ q[1] = place[x] /\ q[2] = place[y]
    BY <2>1, <2>2
  <2> HIDE DEF q
  <2>4. c = <<s.node[L[q[1]]].key, s.node[L[q[2]]].key>>
    BY <2>1, <2>2, <2>3
  <2> HIDE DEF Q
  <2> QED
    BY <2>3, <2>4
<1>8. A = Pairs(s, place)
  <2> HIDE DEF A
  <2> QED BY <1>6, <1>7
<1> QED
  BY <1>8 DEF Ranked, L

-----------------------------------------------------------------------------
\* Each key of the table has its node, with its value, and no other key has.
KeysHeld(s, o) ==
  /\ \A k \in DOMAIN o : \E n \in Nodes(s) : s.node[n].key = k /\ s.node[n].value = o[k]
  /\ \A n \in Nodes(s) : s.node[n].key \in DOMAIN o
  /\ \A m, n \in Nodes(s) : s.node[m].key = s.node[n].key => m = n

\* The value in a node is that of its key.
LEMMA ValueOfKey ==
  ASSUME NEW s, NEW o, KeysHeld(s, o), NEW n \in Nodes(s)
  PROVE  s.node[n].key \in DOMAIN o /\ s.node[n].value = o[s.node[n].key]
<1>1. s.node[n].key \in DOMAIN o
  BY DEF KeysHeld
<1>2. PICK m \in Nodes(s) : s.node[m].key = s.node[n].key /\ s.node[m].value = o[s.node[n].key]
  BY <1>1 DEF KeysHeld
<1>3. m = n
  BY <1>2 DEF KeysHeld
<1> QED
  BY <1>1, <1>2, <1>3

\* The nodes of s2 are those of s without that of the key k, in their order.
Without(s, place, k, s2, place2) ==
  /\ Arranged(s2, place2)
  /\ Nodes(s2) = {n \in Nodes(s) : s.node[n].key # k}
  /\ \A n \in Nodes(s2) : s2.node[n].key = s.node[n].key /\ s2.node[n].value = s.node[n].value
  /\ \A x, y \in Nodes(s2) : place2[x] < place2[y] <=> place[x] < place[y]

\* A delete that finds its node takes the key out,
LEMMA DeleteTakesKey ==
  ASSUME NEW s, NEW place, Arranged(s, place), NEW o, KeysHeld(s, o), NEW k, NEW v,
         Found(s, k, v) # Nil
  PROVE  \E place2 : Without(s, place, k, delete(s, k, v), place2)
<1> DEFINE n == Found(s, k, v)
           s2 == delete(s, k, v)
<1>1. PICK place2 : IsNode(s, n, k, v) /\ Lacks(s, place, n, s2, place2)
  BY DeleteFinds
<1> HIDE DEF n, s2
<1>2. n \in Nodes(s) /\ s.node[n].key = k /\ Nodes(s2) = Nodes(s) \ {n}
  BY <1>1 DEF Lacks, IsNode
<1>3. Nodes(s2) = {m \in Nodes(s) : s.node[m].key # k}
  BY <1>2 DEF KeysHeld
<1>4. Without(s, place, k, s2, place2)
  BY <1>1, <1>3 DEF Without, Lacks
<1> QED
  BY <1>4 DEF s2

\* and so does what add and rem do first when they miss no node.
LEMMA RemovedTakesKey ==
  ASSUME NEW place, Arranged(sl, place), KeysHeld(sl, objs), NEW k, ~Misses(k)
  PROVE  \E place2 : Without(sl, place, k, Removed(k), place2)
<1>1. CASE k \in DOMAIN objs
  <2>1. Found(sl, k, objs[k]) # Nil /\ Removed(k) = delete(sl, k, objs[k])
    BY <1>1 DEF Misses, Removed
  <2> QED
    BY <2>1, DeleteTakesKey
<1>2. CASE k \notin DOMAIN objs
  <2>1. Removed(k) = sl /\ \A n \in Nodes(sl) : sl.node[n].key # k
    BY <1>2 DEF Removed, KeysHeld
  <2>2. Without(sl, place, k, sl, place)
    BY <2>1 DEF Without
  <2> QED
    BY <2>1, <2>2
<1> QED
  BY <1>1, <1>2

\* What is left holds the other keys.
LEMMA WithoutHolds ==
  ASSUME NEW s, NEW place, NEW o, KeysHeld(s, o), NEW k, NEW s2, NEW place2,
         Without(s, place, k, s2, place2), NEW o2, o2 = [j \in DOMAIN o \ {k} |-> o[j]]
  PROVE  KeysHeld(s2, o2)
<1>1. DOMAIN o2 = DOMAIN o \ {k} /\ \A j \in DOMAIN o2 : o2[j] = o[j]
  OBVIOUS
<1>2. /\ Nodes(s2) = {n \in Nodes(s) : s.node[n].key # k}
      /\ \A n \in Nodes(s2) : s2.node[n].key = s.node[n].key /\ s2.node[n].value = s.node[n].value
  BY DEF Without
<1>3. ASSUME NEW j \in DOMAIN o2
      PROVE  \E n \in Nodes(s2) : s2.node[n].key = j /\ s2.node[n].value = o2[j]
  <2>1. PICK n \in Nodes(s) : s.node[n].key = j /\ s.node[n].value = o[j]
    BY <1>1 DEF KeysHeld
  <2>2. n \in Nodes(s2)
    BY <2>1, <1>1, <1>2
  <2> QED
    BY <2>1, <2>2, <1>1, <1>2
<1>4. \A n \in Nodes(s2) : s2.node[n].key \in DOMAIN o2
  BY <1>1, <1>2 DEF KeysHeld
<1>5. \A m, n \in Nodes(s2) : s2.node[m].key = s2.node[n].key => m = n
  BY <1>2 DEF KeysHeld
<1> QED
  BY <1>3, <1>4, <1>5 DEF KeysHeld

\* The nodes of s2 are those of s, in their order, and n, of key k and value
\* v, behind those of at least its value.
With(s, place, k, v, n, s2, place2) ==
  /\ Arranged(s2, place2)
  /\ n \notin Nodes(s) /\ Nodes(s2) = Nodes(s) \cup {n}
  /\ \A m \in Nodes(s) : s2.node[m].key = s.node[m].key /\ s2.node[m].value = s.node[m].value
  /\ s2.node[n].key = k /\ s2.node[n].value = v
  /\ \A x, y \in Nodes(s) : place2[x] < place2[y] <=> place[x] < place[y]
  /\ \A x \in Nodes(s) : /\ place2[x] < place2[n] <=> s.node[x].value >= v
                         /\ place2[n] < place2[x] <=> ~(s.node[x].value >= v)

\* insert puts the key behind those of at least its value.
LEMMA InsertPutsKey ==
  ASSUME NEW s, NEW place, Arranged(s, place), NEW k \in Key, NEW v \in Value, NEW h \in Level,
         NEW n \in Node \ Nodes(s)
  PROVE  \E place2 : With(s, place, k, v, n, insert(s, k, v, h, n), place2)
<1> DEFINE t == Turns(s, AtLeast(s, v))
           r == t[1].rank
           s2 == insert(s, k, v, h, n)
           place2 == [x \in On(s, 1) \cup {n} |->
                        IF x = n THEN r + 1 ELSE IF place[x] <= r THEN place[x] ELSE place[x] + 1]
<1>1. /\ Arranged(s2, place2)
      /\ Nodes(s2) = Nodes(s) \cup {n}
      /\ \A m \in Nodes(s) : /\ place[m] <= r <=> s.node[m].value >= v
                             /\ s2.node[m].key = s.node[m].key
                             /\ s2.node[m].value = s.node[m].value
      /\ s2.node[n].key = k /\ s2.node[n].value = v
  BY Inserted
<1>2. r \in Nat
  <2>1. AtLeast(s, v) \in SUBSET Nodes(s)
    BY DEF AtLeast
  <2>2. t[1].rank \in 0..s.length /\ s.length \in Nat
    BY <2>1, Gap, Basics DEF Arranged
  <2> QED
    BY <2>2
<1> HIDE DEF t, s2
<1>3. \A x \in Nodes(s) : x \in On(s, 1) /\ x # n /\ place[x] \in Nat
  BY Basics DEF Arranged, Nodes
<1>4. /\ \A x \in Nodes(s) : place2[x] = IF place[x] <= r THEN place[x] ELSE place[x] + 1
      /\ place2[n] = r + 1
  BY <1>3
<1> HIDE DEF place2, r
<1>5. \A x, y \in Nodes(s) : place2[x] < place2[y] <=> place[x] < place[y]
  <2> SUFFICES ASSUME NEW x \in Nodes(s), NEW y \in Nodes(s)
               PROVE  place2[x] < place2[y] <=> place[x] < place[y]
    OBVIOUS
  <2>1. place[x] \in Nat /\ place[y] \in Nat /\ r \in Nat
        /\ place2[x] = (IF place[x] <= r THEN place[x] ELSE place[x] + 1)
        /\ place2[y] = (IF place[y] <= r THEN place[y] ELSE place[y] + 1)
    BY <1>2, <1>3, <1>4
  <2> QED
    BY <2>1
<1>6. \A x \in Nodes(s) : /\ place2[x] < place2[n] <=> s.node[x].value >= v
                          /\ place2[n] < place2[x] <=> ~(s.node[x].value >= v)
  <2> SUFFICES ASSUME NEW x \in Nodes(s)
               PROVE  /\ place2[x] < place2[n] <=> place[x] <= r
                      /\ place2[n] < place2[x] <=> ~(place[x] <= r)
    BY <1>1
  <2>1. place[x] \in Nat /\ r \in Nat /\ place2[n] = r + 1
        /\ place2[x] = (IF place[x] <= r THEN place[x] ELSE place[x] + 1)
    BY <1>2, <1>3, <1>4
  <2> QED
    BY <2>1
<1>7. With(s, place, k, v, n, s2, place2)
  BY <1>1, <1>5, <1>6 DEF With
<1> QED
  BY <1>7 DEF s2

Put(o, k, v) == [j \in DOMAIN o \cup {k} |-> IF j = k THEN v ELSE o[j]]

\* What is added holds its key too.
LEMMA WithHolds ==
  ASSUME NEW s, NEW place, NEW o, KeysHeld(s, o), NEW k, k \notin DOMAIN o, NEW v, NEW n,
         NEW s2, NEW place2, With(s, place, k, v, n, s2, place2)
  PROVE  KeysHeld(s2, Put(o, k, v))
<1> DEFINE o2 == Put(o, k, v)
<1>1. DOMAIN o2 = DOMAIN o \cup {k} /\ o2[k] = v /\ \A j \in DOMAIN o : o2[j] = o[j]
  BY DEF Put
<1> HIDE DEF o2
<1>2. /\ Nodes(s2) = Nodes(s) \cup {n}
      /\ \A m \in Nodes(s) : s2.node[m].key = s.node[m].key /\ s2.node[m].value = s.node[m].value
      /\ s2.node[n].key = k /\ s2.node[n].value = v
  BY DEF With
<1>3. ASSUME NEW j \in DOMAIN o2
      PROVE  \E m \in Nodes(s2) : s2.node[m].key = j /\ s2.node[m].value = o2[j]
  <2>1. CASE j = k
    BY <2>1, <1>1, <1>2
  <2>2. CASE j \in DOMAIN o
    <3>1. PICK m \in Nodes(s) : s.node[m].key = j /\ s.node[m].value = o[j]
      BY <2>2 DEF KeysHeld
    <3> QED
      BY <3>1, <2>2, <1>1, <1>2
  <2> QED
    BY <2>1, <2>2, <1>1
<1>4. \A m \in Nodes(s2) : s2.node[m].key \in DOMAIN o2
  BY <1>1, <1>2 DEF KeysHeld
<1>5. \A l, m \in Nodes(s2) : s2.node[l].key = s2.node[m].key => l = m
  BY <1>2 DEF KeysHeld
<1> QED
  BY <1>3, <1>4, <1>5 DEF KeysHeld, o2

\* Until a delete misses a node, table and skip list hold the same.
KeysInv == Inv /\ (~missed => KeysHeld(sl, objs))

\* What a step that misses no node makes of table and skip list.
LEMMA RemHolds ==
  ASSUME NEW place, Arranged(sl, place), KeysHeld(sl, objs), NEW k \in Key, rem(k), ~Misses(k)
  PROVE  /\ \E place2 : Without(sl, place, k, sl', place2)
         /\ KeysHeld(sl', objs')
<1>1. sl' = Removed(k) /\ objs' = [j \in DOMAIN objs \ {k} |-> objs[j]]
  BY DEF rem
<1>2. PICK place2 : Without(sl, place, k, sl', place2)
  BY <1>1, RemovedTakesKey
<1> QED
  BY <1>1, <1>2, WithoutHolds

\* add takes the key out and puts it in.
LEMMA AddHolds ==
  ASSUME NEW place, Arranged(sl, place), KeysHeld(sl, objs),
         NEW k \in Key, NEW v \in Value, NEW h \in Level, add(k, v, h), ~Misses(k)
  PROVE  /\ \E s, n, place1, place2 : /\ Without(sl, place, k, s, place1)
                                      /\ With(s, place1, k, v, n, sl', place2)
         /\ KeysHeld(sl', objs')
<1> DEFINE s == Removed(k)
           n == Min(Node \ Nodes(s))
           o == [j \in DOMAIN objs \ {k} |-> objs[j]]
<1>1. /\ Nodes(s) # Node /\ sl' = insert(s, k, v, h, n)
      /\ objs' = [j \in DOMAIN objs \cup {k} |-> IF j = k THEN v ELSE objs[j]]
  BY DEF add
<1>2. PICK place1 : Without(sl, place, k, s, place1)
  BY RemovedTakesKey
<1> HIDE DEF s
<1>3. n \in Node \ Nodes(s)
  BY <1>1, FreeNode
<1> HIDE DEF n
<1>4. PICK place2 : With(s, place1, k, v, n, sl', place2)
  <2>1. Arranged(s, place1)
    BY <1>2 DEF Without
  <2>2. \E place2 : With(s, place1, k, v, n, insert(s, k, v, h, n), place2)
    BY <2>1, <1>3, InsertPutsKey
  <2> QED
    BY <2>2, <1>1
<1>5. KeysHeld(s, o)
  BY <1>2, WithoutHolds
<1>6. /\ k \notin DOMAIN o
      /\ objs' = Put(o, k, v)
  BY <1>1 DEF Put
<1> HIDE DEF o
<1>7. KeysHeld(sl', Put(o, k, v))
  BY <1>4, <1>5, <1>6, WithHolds
<1> QED
  BY <1>2, <1>4, <1>6, <1>7

\* Until delete misses a node, the table and the skip list hold the same keys
\* with the same values, each once.
THEOREM KeysStayHeld == Spec => []KeysInv
<1>1. Init => KeysInv
  <2> SUFFICES ASSUME Init PROVE KeysInv
    OBVIOUS
  <2>1. Inv
    BY EmptyListed DEF Init, Inv
  <2>2. DOMAIN objs = {} /\ Nodes(sl) = {}
    <3>1. PICK place : Arranged(sl, place)
      BY <2>1 DEF Inv, Listed
    <3>2. sl.length = 0
      BY DEF Init, createSkipList
    <3>3. \A n \in Nodes(sl) : place[n] \in 1..sl.length
      BY <3>1, ListIs DEF Arranged
    <3>4. DOMAIN objs = {}
      BY DEF Init
    <3> QED
      BY <3>2, <3>3, <3>4
  <2> QED
    BY <2>1, <2>2 DEF KeysInv, KeysHeld
<1>2. KeysInv /\ Inv' /\ [Next]_vars => KeysInv'
  <2> SUFFICES ASSUME KeysInv, Inv', [Next]_vars, ~missed' PROVE KeysHeld(sl', objs')
    BY DEF KeysInv, KeysHeld
  <2>1. CASE UNCHANGED vars
    BY <2>1 DEF vars, KeysInv, KeysHeld
  <2>2. PICK place : Arranged(sl, place)
    BY DEF KeysInv, Inv, Listed
  <2>3. ASSUME NEW k \in Key, rem(k) PROVE KeysHeld(sl', objs')
    <3>1. ~missed /\ ~Misses(k)
      BY <2>3 DEF rem
    <3> QED
      BY <2>2, <2>3, <3>1, RemHolds DEF KeysInv
  <2>4. ASSUME NEW k \in Key, NEW v \in Value, NEW h \in Level, add(k, v, h)
        PROVE  KeysHeld(sl', objs')
    <3>1. ~missed /\ ~Misses(k)
      BY <2>4 DEF add
    <3> QED
      BY <2>2, <2>4, <3>1, AddHolds DEF KeysInv
  <2> QED
    BY <2>1, <2>3, <2>4 DEF Next
<1> QED
  BY <1>1, <1>2, StaysArranged, PTL DEF Spec

-----------------------------------------------------------------------------
\* The slices that range returns, and what it adds from the table.
LEMMA SlicesFollow ==
  ASSUME NEW place, Arranged(sl, place), ~missed => KeysHeld(sl, objs)
  PROVE  SlicesAgree
<1> DEFINE N == sl.length
           list == List
           Argument == -(N + 1)..N + 1
           Right(start, stop) ==
             LET res == range(start, stop, FALSE)
             IN  \E f \in 1..N + 1 :
                   /\ Wanted(start, stop) = f..f + Len(res) - 1
                   /\ \A j \in DOMAIN res : res[j] = sl.node[list[f + j - 1]].key
                   /\ ~missed =>
                        /\ RangeAsserts(res)
                        /\ range(start, stop, TRUE) =
                             [j \in DOMAIN res |-> [key   |-> res[j],
                                                    value |-> sl.node[list[f + j - 1]].value]]
<1>1. N \in Nat /\ \A p \in 1..N : list[p] \in Nodes(sl)
  BY ListIs DEF Arranged
<1> HIDE DEF list
<1>2. ASSUME NEW start \in Int, NEW stop \in {<<>>} \cup {<<a>> : a \in Int}
      PROVE  Right(start, stop)
  <2> DEFINE first == ClampedPlace(start)
             last == ClampedPlace(IF stop = <<>> THEN N ELSE stop[1])
             part == IF first > last THEN <<>> ELSE ListRange(sl, first, last)
             res == range(start, stop, FALSE)
             full == range(start, stop, TRUE)
  <2>1. /\ first \in Nat \ {0} /\ last \in Nat \ {0}
        /\ Wanted(start, stop) = {p \in 1..N : first <= p /\ p <= last}
    BY <1>1, WantedIs
  <2>2. /\ res = part
        /\ full = [j \in DOMAIN part |-> [key |-> part[j], value |-> objs[part[j]]]]
    BY DEF range
  <2> HIDE DEF first, last, res, full
  <2> DEFINE W == Wanted(start, stop)
  <2>3. CASE first > last \/ first > N
    <3>1. part = <<>>
      <4>1. CASE first > last
        BY <4>1
      <4>2. CASE first > N /\ ~(first > last)
        BY <4>2, <2>1, <1>1, PageBeyond
      <4> QED
        BY <2>3, <4>1, <4>2
    <3> HIDE DEF part
    <3>2. res = <<>> /\ Len(res) = 0 /\ DOMAIN res = {} /\ full = [j \in {} |-> 0]
      BY <2>2, <3>1
    <3>3. W = {}
      BY <2>1, <2>3, <1>1
    <3>4. W = 1..1 + Len(res) - 1
      BY <3>2, <3>3
    <3>5. RangeAsserts(res) /\ \A g : [j \in DOMAIN res |-> g[j]] = full
      BY <3>2 DEF RangeAsserts
    <3>6. full = [j \in DOMAIN res |-> [key |-> res[j], value |-> sl.node[list[1 + j - 1]].value]]
      BY <3>2
    <3>7. 1 \in 1..N + 1 /\ \A j \in DOMAIN res : res[j] = sl.node[list[1 + j - 1]].key
      BY <3>2, <1>1
    <3> HIDE DEF W
    <3> QED
      BY <3>4, <3>5, <3>6, <3>7 DEF W, res, full
  <2>4. CASE ~(first > last) /\ ~(first > N)
    <3> DEFINE d == (IF last <= N THEN last ELSE N) - first + 1
    <3>1. first \in 1..N /\ first <= last /\ last \in Nat
      BY <2>1, <2>4, <1>1
    <3>2. part = [j \in 1..d |-> sl.node[list[first + j - 1]].key]
      <4>1. ListRange(sl, first, last) = [j \in 1..d |-> sl.node[list[first + j - 1]].key]
        BY <3>1, PageIs DEF list
      <4> QED
        BY <2>4, <4>1
    <3> HIDE DEF part
    <3>3. d \in Nat /\ \A j \in 1..d : first + j - 1 \in 1..N
      BY <3>1, <1>1
    <3>4. W = first..first + d - 1
      BY <2>1, <3>1, <1>1
    <3> HIDE DEF d
    <3>5. /\ DOMAIN res = 1..d /\ Len(res) = d
          /\ \A j \in 1..d : res[j] = sl.node[list[first + j - 1]].key
          /\ full = [j \in 1..d |-> [key |-> res[j], value |-> objs[res[j]]]]
      BY <2>2, <3>2, <3>3
    <3>6. ASSUME ~missed, NEW j \in 1..d
          PROVE  res[j] \in DOMAIN objs /\ objs[res[j]] = sl.node[list[first + j - 1]].value
      <4> DEFINE p == first + j - 1
      <4>1. p \in 1..N
        BY <3>3
      <4> HIDE DEF p
      <4>2. list[p] \in Nodes(sl)
        BY <4>1, <1>1
      <4>3. /\ sl.node[list[p]].key \in DOMAIN objs
            /\ sl.node[list[p]].value = objs[sl.node[list[p]].key]
        BY <3>6, <4>2, ValueOfKey
      <4>4. res[j] = sl.node[list[p]].key
        BY <3>5 DEF p
      <4> QED
        BY <4>3, <4>4 DEF p
    <3>7. ~missed =>
            /\ RangeAsserts(res)
            /\ full = [j \in DOMAIN res |-> [key |-> res[j], value |-> sl.node[list[first + j - 1]].value]]
      BY <3>5, <3>6 DEF RangeAsserts
    <3>8. first \in 1..N + 1
      BY <3>1, <1>1
    <3>9. W = first..first + Len(res) - 1
      BY <3>4, <3>5
    <3>10. \A j \in DOMAIN res : res[j] = sl.node[list[first + j - 1]].key
      BY <3>5
    <3> HIDE DEF W
    <3> QED
      BY <3>7, <3>8, <3>9, <3>10 DEF W, res, full
  <2> QED
    BY <2>3, <2>4
<1>3. Argument \subseteq Int /\ {<<a>> : a \in Argument} \subseteq {<<a>> : a \in Int}
  BY <1>1
<1> HIDE DEF Argument, Right
<1>4. \A start \in Argument, stop \in {<<>>} \cup {<<a>> : a \in Argument} : Right(start, stop)
  BY <1>2, <1>3
<1> QED
  BY <1>4 DEF SlicesAgree, list, Argument, Right

\* getNodeByRank and getRank, which jump by spans, and range, whatever places
\* it is asked for, all return what walking the list would.
THEOREM ReadsStayAgreed == Spec => []ReadsAgree
<1>1. KeysInv => ReadsAgree
  <2> SUFFICES ASSUME KeysInv PROVE ReadsAgree
    OBVIOUS
  <2>1. PICK place : Arranged(sl, place)
    BY DEF KeysInv, Inv, Listed
  <2>2. SlicesAgree
    BY <2>1, SlicesFollow DEF KeysInv
  <2> QED
    BY <2>1, <2>2, RanksFollow, RankFollows DEF ReadsAgree
<1> QED
  BY <1>1, KeysStayHeld, PTL

-----------------------------------------------------------------------------
(* Misses.                                                                 *)

\* Each key of the table has a node with its value, whatever was missed.
HasNodes(s, o) ==
  \A k \in DOMAIN o : \E n \in Nodes(s) : s.node[n].key = k /\ s.node[n].value = o[k]

\* What add and rem do first leaves the other keys their nodes,
LEMMA RemovedHasNodes ==
  ASSUME NEW place, Arranged(sl, place), HasNodes(sl, objs), NEW k
  PROVE  HasNodes(Removed(k), [j \in DOMAIN objs \ {k} |-> objs[j]])
<1> DEFINE s == Removed(k)
           o == [j \in DOMAIN objs \ {k} |-> objs[j]]
           n == Found(sl, k, objs[k])
<1>1. DOMAIN o = DOMAIN objs \ {k} /\ \A j \in DOMAIN o : o[j] = objs[j]
  OBVIOUS
<1> HIDE DEF o
<1>2. CASE k \notin DOMAIN objs \/ n = Nil
  <2>1. s = sl
    BY <1>2, DeleteMisses DEF Removed
  <2> QED
    BY <2>1, <1>1 DEF HasNodes, s, o
<1>3. CASE k \in DOMAIN objs /\ n # Nil
  <2>1. s = delete(sl, k, objs[k])
    BY <1>3 DEF Removed
  <2>2. PICK place2 : IsNode(sl, n, k, objs[k]) /\ Lacks(sl, place, n, s, place2)
    BY <1>3, <2>1, DeleteFinds
  <2> HIDE DEF n, s
  <2>3. /\ sl.node[n].key = k /\ Nodes(s) = Nodes(sl) \ {n}
        /\ \A m \in Nodes(s) : s.node[m].key = sl.node[m].key /\ s.node[m].value = sl.node[m].value
    BY <2>2 DEF IsNode, Lacks
  <2>4. ASSUME NEW j \in DOMAIN o
        PROVE  \E m \in Nodes(s) : s.node[m].key = j /\ s.node[m].value = o[j]
    <3>1. PICK m \in Nodes(sl) : sl.node[m].key = j /\ sl.node[m].value = objs[j]
      BY <1>1 DEF HasNodes
    <3>2. m \in Nodes(s)
      BY <3>1, <2>3, <1>1
    <3> QED
      BY <3>1, <3>2, <2>3, <1>1
  <2> QED
    BY <2>4 DEF HasNodes, s, o
<1> QED
  BY <1>2, <1>3

\* and insert gives the key one.
LEMMA InsertHasNodes ==
  ASSUME NEW s, NEW place, Arranged(s, place), NEW k \in Key, NEW v \in Value, NEW h \in Level,
         NEW n \in Node \ Nodes(s), NEW o, HasNodes(s, [j \in DOMAIN o \ {k} |-> o[j]])
  PROVE  HasNodes(insert(s, k, v, h, n), [j \in DOMAIN o \cup {k} |-> IF j = k THEN v ELSE o[j]])
<1> DEFINE s2 == insert(s, k, v, h, n)
           o1 == [j \in DOMAIN o \ {k} |-> o[j]]
           o2 == [j \in DOMAIN o \cup {k} |-> IF j = k THEN v ELSE o[j]]
<1>1. /\ DOMAIN o2 = DOMAIN o \cup {k} /\ o2[k] = v
      /\ \A j \in DOMAIN o2 : j # k => j \in DOMAIN o1 /\ o1[j] = o2[j]
  OBVIOUS
<1>2. PICK place2 : With(s, place, k, v, n, s2, place2)
  BY InsertPutsKey
<1> HIDE DEF s2
<1>3. /\ Nodes(s2) = Nodes(s) \cup {n}
      /\ \A m \in Nodes(s) : s2.node[m].key = s.node[m].key /\ s2.node[m].value = s.node[m].value
      /\ s2.node[n].key = k /\ s2.node[n].value = v
  BY <1>2 DEF With
<1>4. \A j \in DOMAIN o1 : \E m \in Nodes(s) : s.node[m].key = j /\ s.node[m].value = o1[j]
  BY DEF HasNodes
<1> HIDE DEF o1, o2
<1>5. ASSUME NEW j \in DOMAIN o2
      PROVE  \E m \in Nodes(s2) : s2.node[m].key = j /\ s2.node[m].value = o2[j]
  <2>1. CASE j = k
    BY <2>1, <1>1, <1>3
  <2>2. CASE j # k
    <3>1. PICK m \in Nodes(s) : s.node[m].key = j /\ s.node[m].value = o1[j]
      BY <2>2, <1>1, <1>4
    <3> QED
      BY <3>1, <2>2, <1>1, <1>3
  <2> QED
    BY <2>1, <2>2
<1> QED
  BY <1>5 DEF HasNodes, s2, o2

LEMMA NodesStay == Spec => [](Inv /\ HasNodes(sl, objs))
<1>1. Init => HasNodes(sl, objs)
  BY DEF Init, HasNodes
<1>2. Inv /\ Inv' /\ HasNodes(sl, objs) /\ [Next]_vars => HasNodes(sl, objs)'
  <2> SUFFICES ASSUME Inv, Inv', HasNodes(sl, objs), [Next]_vars PROVE HasNodes(sl', objs')
    BY DEF HasNodes
  <2>1. PICK place : Arranged(sl, place)
    BY DEF Inv, Listed
  <2>2. ASSUME NEW k \in Key, rem(k) PROVE HasNodes(sl', objs')
    BY <2>1, <2>2, RemovedHasNodes DEF rem
  <2>3. ASSUME NEW k \in Key, NEW v \in Value, NEW h \in Level, add(k, v, h)
        PROVE  HasNodes(sl', objs')
    <3> DEFINE s == Removed(k)
               n == Min(Node \ Nodes(s))
    <3>1. /\ Nodes(s) # Node /\ sl' = insert(s, k, v, h, n)
          /\ objs' = [j \in DOMAIN objs \cup {k} |-> IF j = k THEN v ELSE objs[j]]
      BY <2>3 DEF add
    <3>2. HasNodes(s, [j \in DOMAIN objs \ {k} |-> objs[j]])
      BY <2>1, RemovedHasNodes
    <3>3. PICK place1 : Arranged(s, place1)
      BY RemovedListed DEF Inv, Listed
    <3> HIDE DEF s
    <3>4. n \in Node \ Nodes(s)
      BY <3>1, FreeNode
    <3> HIDE DEF n
    <3>5. HasNodes(insert(s, k, v, h, n), [j \in DOMAIN objs \cup {k} |-> IF j = k THEN v ELSE objs[j]])
      BY <3>2, <3>3, <3>4, InsertHasNodes
    <3> QED
      BY <3>1, <3>5
  <2>4. CASE UNCHANGED vars
    BY <2>4 DEF vars, HasNodes
  <2> QED
    BY <2>2, <2>3, <2>4 DEF Next
<1> QED
  BY <1>1, <1>2, StaysArranged, PTL DEF Spec

\* A key of the table always has its node, and delete misses it, or rank does
\* not find it, only if a node of another key and the same value stands behind
\* it and reaches a higher level: without ties neither ever fails.
THEOREM MissesNeedTies == Spec => []MissNeedsTie
<1>1. Inv /\ HasNodes(sl, objs) => MissNeedsTie
  <2> SUFFICES ASSUME Inv, HasNodes(sl, objs), NEW k \in DOMAIN objs
               PROVE  \E n \in Nodes(sl) :
                        /\ IsNode(sl, n, k, objs[k])
                        /\ Misses(k) \/ getRank(sl, k, objs[k]) = 0 => Overtaken(n)
    BY DEF MissNeedsTie
  <2>1. PICK n \in Nodes(sl) : sl.node[n].key = k /\ sl.node[n].value = objs[k]
    BY DEF HasNodes
  <2>2. n # Nil /\ IsNode(sl, n, k, objs[k])
    BY <2>1 DEF IsNode, Nodes, On, Node, Nil
  <2>3. PICK place : Arranged(sl, place)
    BY DEF Inv, Listed
  <2>4. Place = place
    BY <2>3, ListIs DEF Arranged
  <2>5. ASSUME Misses(k) \/ getRank(sl, k, objs[k]) = 0 PROVE Overtaken(n)
    <3>1. Found(sl, k, objs[k]) = Nil
      BY <2>3, <2>5, RanklessIsMiss DEF Misses
    <3>2. \E m \in Nodes(sl), i \in Level :
            /\ sl.node[m].value = objs[k] /\ sl.node[m].key # k
            /\ place[n] < place[m] /\ m \in On(sl, i) /\ n \notin On(sl, i)
      BY <2>2, <2>3, <3>1, MissIsOvertaken
    <3> QED
      BY <2>1, <2>4, <3>2 DEF Overtaken
  <2> QED
    BY <2>2, <2>5
<1> QED
  BY <1>1, NodesStay, PTL

-----------------------------------------------------------------------------
(* The refinement.                                                         *)

\* The pairs of other keys are those that were there before.
LEMMA PairsWithout ==
  ASSUME NEW s, NEW place, Arranged(s, place), NEW k, NEW s2, NEW place2,
         Without(s, place, k, s2, place2)
  PROVE  Pairs(s2, place2) = {p \in Pairs(s, place) : p[1] # k /\ p[2] # k}
<1>1. /\ Nodes(s2) = {n \in Nodes(s) : s.node[n].key # k}
      /\ \A n \in Nodes(s2) : s2.node[n].key = s.node[n].key
      /\ \A x, y \in Nodes(s2) : place2[x] < place2[y] <=> place[x] < place[y]
  BY DEF Without
<1>2. ASSUME NEW p \in Pairs(s2, place2) PROVE p \in Pairs(s, place) /\ p[1] # k /\ p[2] # k
  <2>1. PICK x \in Nodes(s2), y \in Nodes(s2) :
          place2[x] < place2[y] /\ p = <<s2.node[x].key, s2.node[y].key>>
    BY DEF Pairs
  <2>2. p = <<s.node[x].key, s.node[y].key>> /\ place[x] < place[y] /\ p \in Key \X Key
    BY <2>1, <1>1 DEF Pairs
  <2> QED
    BY <2>2, <1>1 DEF Pairs
<1>3. ASSUME NEW p \in Pairs(s, place), p[1] # k, p[2] # k PROVE p \in Pairs(s2, place2)
  <2>1. PICK x \in Nodes(s), y \in Nodes(s) :
          place[x] < place[y] /\ p = <<s.node[x].key, s.node[y].key>>
    BY DEF Pairs
  <2>2. x \in Nodes(s2) /\ y \in Nodes(s2)
    BY <2>1, <1>1, <1>3
  <2>3. p = <<s2.node[x].key, s2.node[y].key>> /\ place2[x] < place2[y] /\ p \in Key \X Key
    BY <2>1, <2>2, <1>1 DEF Pairs
  <2> QED
    BY <2>2, <2>3 DEF Pairs
<1> QED
  BY <1>2, <1>3

\* A new key of value v ranks behind the keys of at least this value.
LEMMA PairsWith ==
  ASSUME NEW s, NEW place, Arranged(s, place), NEW o, KeysHeld(s, o), NEW k, k \notin DOMAIN o,
         NEW v, NEW n, NEW s2, NEW place2, With(s, place, k, v, n, s2, place2), o \in [DOMAIN o -> Int],
         v \in Int
  PROVE  Pairs(s2, place2) = Pairs(s, place) \cup {<<j, k>> : j \in {j \in DOMAIN o : o[j] >= v}}
                                             \cup {<<k, j>> : j \in {j \in DOMAIN o : o[j] < v}}
<1>1. /\ n \notin Nodes(s) /\ Nodes(s2) = Nodes(s) \cup {n}
      /\ \A m \in Nodes(s) : s2.node[m].key = s.node[m].key
      /\ s2.node[n].key = k
      /\ \A x, y \in Nodes(s) : place2[x] < place2[y] <=> place[x] < place[y]
      /\ \A x \in Nodes(s) : /\ place2[x] < place2[n] <=> s.node[x].value >= v
                             /\ place2[n] < place2[x] <=> ~(s.node[x].value >= v)
  BY DEF With
<1>2. ~(place2[n] < place2[n])
  <2>1. place2[n] \in Nat
    BY <1>1, Basics DEF With, Arranged, Nodes
  <2> QED
    BY <2>1
<1>3. \A m \in Nodes(s2) : s2.node[m].key \in Key
  BY Heights DEF With, Arranged
<1>4. \A m \in Nodes(s) : s.node[m].key \in DOMAIN o /\ s.node[m].value = o[s.node[m].key]
  BY ValueOfKey
<1>5. \A j \in DOMAIN o : \E m \in Nodes(s) : s.node[m].key = j /\ s.node[m].value = o[j]
  BY DEF KeysHeld
<1>6. \A j \in DOMAIN o : ~(o[j] >= v) <=> o[j] < v
  OBVIOUS
<1> DEFINE A == {<<j, k>> : j \in {j \in DOMAIN o : o[j] >= v}}
           B == {<<k, j>> : j \in {j \in DOMAIN o : o[j] < v}}
<1>7. ASSUME NEW p \in Pairs(s2, place2) PROVE p \in Pairs(s, place) \cup A \cup B
  <2>1. PICK x \in Nodes(s2), y \in Nodes(s2) :
          place2[x] < place2[y] /\ p = <<s2.node[x].key, s2.node[y].key>>
    BY DEF Pairs
  <2>2. CASE x \in Nodes(s) /\ y \in Nodes(s)
    <3>1. place[x] < place[y] /\ p = <<s.node[x].key, s.node[y].key>> /\ p \in Key \X Key
      BY <2>1, <2>2, <1>1 DEF Pairs
    <3> QED
      BY <2>2, <3>1 DEF Pairs
  <2>3. CASE x \in Nodes(s) /\ y = n
    <3> DEFINE j == s.node[x].key
    <3>1. p = <<j, k>> /\ s.node[x].value >= v
      BY <2>1, <2>3, <1>1
    <3>2. j \in DOMAIN o /\ o[j] >= v
      BY <2>3, <3>1, <1>4
    <3> QED
      BY <3>1, <3>2
  <2>4. CASE x = n /\ y \in Nodes(s)
    <3> DEFINE j == s.node[y].key
    <3>1. p = <<k, j>> /\ ~(s.node[y].value >= v)
      BY <2>1, <2>4, <1>1
    <3>2. j \in DOMAIN o /\ o[j] < v
      BY <2>4, <3>1, <1>4, <1>6
    <3> QED
      BY <3>1, <3>2
  <2> QED
    BY <2>1, <2>2, <2>3, <2>4, <1>1, <1>2
<1>8. ASSUME NEW p \in Pairs(s, place) PROVE p \in Pairs(s2, place2)
  <2>1. PICK x \in Nodes(s), y \in Nodes(s) :
          place[x] < place[y] /\ p = <<s.node[x].key, s.node[y].key>>
    BY DEF Pairs
  <2>2. /\ x \in Nodes(s2) /\ y \in Nodes(s2) /\ place2[x] < place2[y]
        /\ p = <<s2.node[x].key, s2.node[y].key>> /\ p \in Key \X Key
    BY <2>1, <1>1 DEF Pairs
  <2> QED
    BY <2>2 DEF Pairs
<1>9. ASSUME NEW j \in DOMAIN o, o[j] >= v PROVE <<j, k>> \in Pairs(s2, place2)
  <2>1. PICK x \in Nodes(s) : s.node[x].key = j /\ s.node[x].value = o[j]
    BY <1>5
  <2>2. /\ x \in Nodes(s2) /\ n \in Nodes(s2) /\ place2[x] < place2[n]
        /\ s2.node[x].key = j /\ s2.node[n].key = k /\ <<j, k>> \in Key \X Key
    BY <2>1, <1>1, <1>3, <1>9
  <2> QED
    BY <2>2 DEF Pairs
<1>10. ASSUME NEW j \in DOMAIN o, o[j] < v PROVE <<k, j>> \in Pairs(s2, place2)
  <2>1. PICK x \in Nodes(s) : s.node[x].key = j /\ s.node[x].value = o[j]
    BY <1>5
  <2>2. /\ x \in Nodes(s2) /\ n \in Nodes(s2) /\ place2[n] < place2[x]
        /\ s2.node[x].key = j /\ s2.node[n].key = k /\ <<k, j>> \in Key \X Key
    BY <2>1, <1>1, <1>3, <1>6, <1>10
  <2> QED
    BY <2>2 DEF Pairs
<1> QED
  BY <1>7, <1>8, <1>9, <1>10

-----------------------------------------------------------------------------
\* above is what Ranked says of the skip list.
LEMMA InitIsRanking == Init => Ranking!Init
<1> SUFFICES ASSUME Init PROVE Ranking!Init
  OBVIOUS
<1>1. PICK place : Arranged(sl, place)
  BY EmptyListed DEF Init, Listed
<1>2. Nodes(sl) = {}
  <2>1. sl.length = 0
    BY DEF Init, createSkipList
  <2>2. \A n \in Nodes(sl) : place[n] \in 1..sl.length
    BY <1>1, ListIs DEF Arranged
  <2> QED
    BY <2>1, <2>2
<1>3. Ranked(sl) = {}
  BY <1>1, <1>2, RankedIs DEF Pairs
<1>4. objs = [k \in {} |-> 0]
  BY DEF Init
<1> QED
  BY <1>3, <1>4 DEF Ranking!Init, Ranked, List, Chain

\* rem does what rem of a sorted set does,
LEMMA RemRanks ==
  ASSUME Inv, KeysHeld(sl, objs), NEW k \in Key, rem(k), ~Misses(k)
  PROVE  Ranking!rem(k)
<1>1. PICK place : Arranged(sl, place)
  BY DEF Inv, Listed
<1>2. PICK place2 : Without(sl, place, k, sl', place2)
  BY <1>1, RemHolds
<1>3. Pairs(sl', place2) = {p \in Pairs(sl, place) : p[1] # k /\ p[2] # k}
  BY <1>1, <1>2, PairsWithout
<1>4. Ranked(sl) = Pairs(sl, place) /\ Ranked(sl') = Pairs(sl', place2)
  BY <1>1, <1>2, RankedIs DEF Without
<1>5. Ranked(sl') = {p \in Ranked(sl) : p[1] # k /\ p[2] # k}
  BY <1>3, <1>4
<1>6. k \in DOMAIN objs /\ objs' = [j \in DOMAIN objs \ {k} |-> objs[j]]
  BY DEF rem
<1> QED
  BY <1>5, <1>6 DEF Ranking!rem, Ranking!Without, Ranking!Member, Ranked, List, Chain

\* and add what add does.
LEMMA AddRanks ==
  ASSUME Inv, KeysHeld(sl, objs), NEW k \in Key, NEW v \in Value, NEW h \in Level, add(k, v, h),
         ~Misses(k)
  PROVE  Ranking!add(k, v)
<1> DEFINE o == [j \in DOMAIN objs \ {k} |-> objs[j]]
<1>1. PICK place : Arranged(sl, place)
  BY DEF Inv, Listed
<1>2. PICK s, n, place1, place2 : /\ Without(sl, place, k, s, place1)
                                  /\ With(s, place1, k, v, n, sl', place2)
  BY <1>1, AddHolds
<1>3. Pairs(s, place1) = {p \in Pairs(sl, place) : p[1] # k /\ p[2] # k}
  BY <1>1, <1>2, PairsWithout
<1>4. KeysHeld(s, o)
  BY <1>2, WithoutHolds
<1>5. Arranged(s, place1) /\ Arranged(sl', place2)
  BY <1>2 DEF Without, With
<1>6. DOMAIN o = DOMAIN objs \ {k} /\ o \in [DOMAIN o -> Int] /\ v \in Int
      /\ \A j \in DOMAIN o : o[j] = objs[j]
  BY ZsetAssumption DEF Inv
<1> HIDE DEF o
<1>7. Pairs(sl', place2) = Pairs(s, place1) \cup {<<j, k>> : j \in {j \in DOMAIN o : o[j] >= v}}
                                            \cup {<<k, j>> : j \in {j \in DOMAIN o : o[j] < v}}
  <2>1. k \notin DOMAIN o
    BY <1>6
  <2> QED
    BY <2>1, <1>2, <1>4, <1>5, <1>6, PairsWith
<1>8. Ranked(sl) = Pairs(sl, place) /\ Ranked(sl') = Pairs(sl', place2)
  BY <1>1, <1>5, RankedIs
<1>9. {j \in DOMAIN o : o[j] >= v} = {j \in DOMAIN objs \ {k} : objs[j] >= v}
      /\ {j \in DOMAIN o : o[j] < v} = {j \in DOMAIN objs \ {k} : objs[j] < v}
  BY <1>6
<1>10. Ranked(sl') = {p \in Ranked(sl) : p[1] # k /\ p[2] # k}
                       \cup {<<j, k>> : j \in {j \in DOMAIN objs \ {k} : objs[j] >= v}}
                       \cup {<<k, j>> : j \in {j \in DOMAIN objs \ {k} : objs[j] < v}}
  BY <1>3, <1>7, <1>8, <1>9
<1>11. objs' = [j \in DOMAIN objs \cup {k} |-> IF j = k THEN v ELSE objs[j]]
  BY DEF add
<1> QED
  BY <1>10, <1>11 DEF Ranking!add, Ranking!Without, Ranking!Member, Ranked, List, Chain

\* Until delete misses a node, every add and rem does to the table and the skip
\* list what it does to a sorted set: zset implements SortedSet.
THEOREM ImplementsSortedSet == Spec => SortedUntilMissed
<1>1. KeysInv /\ [Next]_vars => [~missed' => Ranking!Next]_<<objs, sl>>
  <2> SUFFICES ASSUME KeysInv, Next, ~missed' PROVE Ranking!Next
    BY DEF vars
  <2>1. ASSUME NEW k \in Key, rem(k) PROVE Ranking!rem(k)
    <3>1. ~missed /\ ~Misses(k)
      BY <2>1 DEF rem
    <3> QED
      BY <2>1, <3>1, RemRanks DEF KeysInv
  <2>2. ASSUME NEW k \in Key, NEW v \in Value, NEW h \in Level, add(k, v, h) PROVE Ranking!add(k, v)
    <3>1. ~missed /\ ~Misses(k)
      BY <2>2 DEF add
    <3> QED
      BY <2>2, <3>1, AddRanks DEF KeysInv
  <2> QED
    BY <2>1, <2>2 DEF Next, Ranking!Next
<1>2. Init => Ranking!Init
  BY InitIsRanking
<1> QED
  BY <1>1, <1>2, KeysStayHeld, PTL DEF Spec, SortedUntilMissed
=============================================================================
