-------------------------------- MODULE Zset --------------------------------
(***************************************************************************)
(* server/logic/Scripts/common/zset.lua: a table of values by key, and a   *)
(* skip list of nodes whose links on every level carry the number of       *)
(* members they skip. Values are numbers and compareFn is subtraction. One *)
(* call of a Lua function is one step: nothing interrupts it.              *)
(***************************************************************************)
EXTENDS Integers, Sequences, FiniteSets, FiniteSetsExt

CONSTANTS
  Key,
  Value,
  MaxLevel,    \* SKIPLIST_MAXLEVEL
  MaxNodes     \* bound: nodes in the list at one time

ASSUME ZsetAssumption ==
  /\ Value \subseteq Int
  /\ MaxLevel \in Nat \ {0}
  /\ MaxNodes \in Nat

VARIABLES
  sl,      \* the skip list
  objs,    \* the value of each key
  missed   \* history: a delete did not find the node of its key

vars == <<sl, objs, missed>>

Node == 1..MaxNodes
Header == 0
Nil == -1                           \* no node
Level == 1..MaxLevel

Link == [forward : Node \cup {Nil}, span : Nat]
Free == [level |-> <<>>]            \* memory that holds no node

\* What is linked on level i: the header and the nodes that reach the level.
On(s, i) == {x \in Node \cup {Header} : i \in DOMAIN s.node[x].level}
Nodes(s) == On(s, 1) \ {Header}

TypeOK ==
  /\ objs \in [DOMAIN objs -> Value] /\ DOMAIN objs \subseteq Key
  /\ missed \in BOOLEAN
  /\ sl.level \in Level /\ sl.length \in Nat /\ sl.tail \in Node \cup {Nil}
  /\ sl.node[Header].level \in [Level -> Link]
  /\ \A n \in Nodes(sl) : \E h \in Level : sl.node[n] \in
       [key : Key, value : Value, level : [1..h -> Link], backward : Node \cup {Nil}]

-----------------------------------------------------------------------------
(* Searches. s is a skip list.                                             *)

forward(s, x, i) == s.node[x].level[i].forward
span(s, x, i) == s.node[x].level[i].span

\* Mutant: a new member ranks above its equals.
AtLeast_Strict(s, v) == {n \in Nodes(s) : s.node[n].value > v}
\* The nodes that a search for a place behind v, or for key k of value v, passes.
AtLeast(s, v) == {n \in Nodes(s) : s.node[n].value >= v}
\* Mutant: the search of delete passes the node it wants.
Before_OrItself(s, k, v) == {n \in Nodes(s) : s.node[n].value >= v}
Before(s, k, v) ==
  {n \in Nodes(s) : s.node[n].value > v \/ (s.node[n].value = v /\ s.node[n].key # k)}

\* Where the search that passes the nodes of P, started at a node of level i,
\* leaves that level, and the number of members it passes there.
Walk(s, P, i) ==
  LET walk[x \in On(s, i)] ==
        LET f == forward(s, x, i)
        IN  IF f \notin P THEN [at |-> x, rank |-> 0]
            ELSE [walk[f] EXCEPT !.rank = @ + span(s, x, i)]
  IN  walk

\* Where the search for a place behind the nodes of P turns down on each
\* level, and the rank of that node.
Turns(s, P) ==
  LET turn[i \in 1..s.level] ==
        LET from == IF i = s.level THEN [at |-> Header, rank |-> 0] ELSE turn[i + 1]
        IN  [Walk(s, P, i)[from.at] EXCEPT !.rank = @ + from.rank]
  IN  <<>> \o turn

IsNode(s, x, k, v) == x # Nil /\ s.node[x].key = k /\ s.node[x].value = v

\* The search looks for the node on each level where it turns, and is done at
\* the first, the highest, where that is the next node.
getRank(s, k, v) ==
  LET turn == Turns(s, Before(s, k, v))
      seen == {i \in 1..s.level : IsNode(s, forward(s, turn[i].at, i), k, v)}
      i    == Max(seen)
  IN  IF seen = {} THEN 0 ELSE turn[i].rank + span(s, turn[i].at, i)

\* Where the search for rank r leaves level i, started there at a node that
\* so many members are before.
Skip(s, r, i) ==
  LET skip[q \in [at : On(s, i), rank : 0..s.length]] ==
        LET ahead == [at |-> forward(s, q.at, i), rank |-> q.rank + span(s, q.at, i)]
        IN  IF ahead.at # Nil /\ ahead.rank <= r THEN skip[ahead] ELSE q
  IN  skip

\* Where it turns down on each level.
Skips(s, r) ==
  LET turn[i \in 1..s.level] ==
        Skip(s, r, i)[IF i = s.level THEN [at |-> Header, rank |-> 0] ELSE turn[i + 1]]
  IN  <<>> \o turn

\* It is done at the first level, the highest, where it turns at rank r.
getNodeByRank(s, r) ==
  LET turn == Skips(s, r)
      seen == {i \in 1..s.level : turn[i].rank = r}
  IN  IF r <= 0 \/ r > s.length \/ seen = {} THEN Nil ELSE turn[Max(seen)].at

-----------------------------------------------------------------------------
(* Changes of the skip list.                                               *)

createSkipList ==
  [node   |-> [x \in Node \cup {Header} |->
                 IF x \in Node THEN Free
                 ELSE [level |-> [i \in Level |-> [forward |-> Nil, span |-> 0]]]],
   tail   |-> Nil,
   length |-> 0,
   level  |-> 1]

\* The node after the new or the deleted one looks back to b.
LookBack(node, x, b) == IF x = Nil THEN node ELSE [node EXCEPT ![x].backward = b]

\* The links at which a search turned are replaced by those of new.
Relink(node, turn, new) ==
  [x \in DOMAIN node |->
     [node[x] EXCEPT !.level = [i \in DOMAIN @ |->
        IF i \in DOMAIN turn /\ turn[i].at = x THEN new[i] ELSE @[i]]]]

\* Mutant: the spans across a deleted node are kept.
Unlinked_NotCounted(l, i, n, links) ==
  IF l.forward = n THEN [forward |-> links[i].forward, span |-> l.span + links[i].span] ELSE l
\* Mutant: one member too many is taken off a span.
Unlinked_Twice(l, i, n, links) ==
  IF l.forward = n THEN [forward |-> links[i].forward, span |-> l.span + links[i].span - 2]
  ELSE [l EXCEPT !.span = @ - 1]
\* The link l of level i without the node n, whose links are given.
Unlinked(l, i, n, links) ==
  IF l.forward = n THEN [forward |-> links[i].forward, span |-> l.span + links[i].span - 1]
  ELSE [l EXCEPT !.span = @ - 1]

\* Mutant: the level shrinks below the nodes that reach it.
ShrunkLevel_TooLow(s) ==
  Max({l \in 1..s.level : l = 1 \/ (l < s.level /\ forward(s, Header, l + 1) # Nil)})
ShrunkLevel(s) == Max({l \in 1..s.level : l <= 2 \/ forward(s, Header, l - 1) # Nil})

deleteNode(s, n, turn) ==
  LET gone == s.node[n]
      next == forward(s, n, 1)
      new  == [i \in 1..s.level |-> Unlinked(s.node[turn[i].at].level[i], i, n, gone.level)]
      node == [Relink(s.node, turn, new) EXCEPT ![n] = Free]
      rest == [s EXCEPT !.node   = LookBack(node, next, gone.backward),
                        !.tail   = IF next = Nil THEN gone.backward ELSE @,
                        !.length = @ - 1]
  IN  [rest EXCEPT !.level = ShrunkLevel(rest)]

\* The node that delete finds behind the place where its search ends.
Found(s, k, v) ==
  LET f == forward(s, Turns(s, Before(s, k, v))[1].at, 1)
  IN  IF IsNode(s, f, k, v) THEN f ELSE Nil

delete(s, k, v) ==
  LET n    == Found(s, k, v)
      turn == Turns(s, Before(s, k, v))
  IN  IF n = Nil THEN s ELSE deleteNode(s, n, turn)

\* A node of h levels in the memory n.
insert(s, k, v, h, n) ==
  LET top  == Max({h, s.level})
      found == Turns(s, AtLeast(s, v))
      turn == [i \in 1..top |-> IF i > s.level THEN [at |-> Header, rank |-> 0] ELSE found[i]]
      old  == [i \in 1..top |-> LET l == s.node[turn[i].at].level[i]
                                IN  IF i > s.level THEN [l EXCEPT !.span = s.length] ELSE l]
      skipped(i) == turn[1].rank - turn[i].rank
      links == [i \in 1..h |-> [old[i] EXCEPT !.span = @ - skipped(i)]]
      new  == [i \in 1..top |-> IF i <= h THEN [forward |-> n, span |-> skipped(i) + 1]
                                ELSE [old[i] EXCEPT !.span = @ + 1]]
      x    == [key |-> k, value |-> v, level |-> links,
               backward |-> IF turn[1].at = Header THEN Nil ELSE turn[1].at]
      next == links[1].forward
  IN  [node   |-> LookBack([Relink(s.node, turn, new) EXCEPT ![n] = x], next, n),
       tail   |-> IF next = Nil THEN n ELSE s.tail,
       length |-> s.length + 1,
       level  |-> top]

-----------------------------------------------------------------------------
Init ==
  /\ sl = createSkipList
  /\ objs = [k \in {} |-> 0]
  /\ missed = FALSE

\* What delete leaves of the skip list, and whether it misses the node.
Removed(k) == IF k \in DOMAIN objs THEN delete(sl, k, objs[k]) ELSE sl
Misses(k) == k \in DOMAIN objs /\ Found(sl, k, objs[k]) = Nil

\* The random level of the new node is h.
add(k, v, h) ==
  \E s \in {Removed(k)} :
      /\ Nodes(s) # Node
      /\ sl' = insert(s, k, v, h, Min(Node \ Nodes(s)))
      /\ objs' = [j \in DOMAIN objs \cup {k} |-> IF j = k THEN v ELSE objs[j]]
      /\ missed' = (missed \/ Misses(k))

rem(k) ==
  /\ k \in DOMAIN objs
  /\ sl' = Removed(k)
  /\ objs' = [j \in DOMAIN objs \ {k} |-> objs[j]]
  /\ missed' = (missed \/ Misses(k))

Next ==
  \E k \in Key :
    \/ rem(k)
    \/ \E v \in Value, h \in Level : add(k, v, h)

Spec == Init /\ [][Next]_vars

-----------------------------------------------------------------------------
(* Reading the list.                                                       *)

\* The nodes behind each node of level i on that level, in order.
After(s, i) ==
  LET after[x \in On(s, i)] ==
        LET f == forward(s, x, i)
        IN  IF f = Nil THEN <<>> ELSE <<f>> \o after[f]
  IN  after

Chain(i) == After(sl, i)[Header]
List == Chain(1)

\* How many members are before each node, the node itself counted.
Place ==
  LET list == List
  IN  [x \in On(sl, 1) |-> IF x = Header THEN 0 ELSE CHOOSE p \in DOMAIN list : list[p] = x]

\* Mutant: stop is exclusive.
ListRange_Short(s, first, last) ==
  LET n    == getNodeByRank(s, first)
      rest == IF n = Nil THEN <<>> ELSE <<n>> \o After(s, 1)[n]
  IN  [j \in 1..Min({Len(rest), last - first}) |-> s.node[rest[j]].key]
\* The keys of the node of rank first and of those behind it, up to rank last.
ListRange(s, first, last) ==
  LET n    == getNodeByRank(s, first)
      rest == IF n = Nil THEN <<>> ELSE <<n>> \o After(s, 1)[n]
  IN  [j \in 1..Min({Len(rest), last - first + 1}) |-> s.node[rest[j]].key]

\* The place that an argument stands for: a negative one counts from the end,
\* and what would be before the first place is the first.
ClampedPlace(a) == Max({1, IF a < 0 THEN sl.length + a + 1 ELSE a})

\* stop is <<>> when it is left out, and else <<n>>. Elements are keys, or with
\* their values from the table.
range(start, stop, with_value) ==
  LET first == ClampedPlace(start)
      last  == ClampedPlace(IF stop = <<>> THEN sl.length ELSE stop[1])
      res   == IF first > last THEN <<>> ELSE ListRange(sl, first, last)
  IN  IF with_value THEN [j \in DOMAIN res |-> [key |-> res[j], value |-> objs[res[j]]]]
      ELSE res

\* The assertion of line 271.
RangeAsserts(res) == \A j \in DOMAIN res : res[j] \in DOMAIN objs

-----------------------------------------------------------------------------
\* Each level links the nodes that reach it, in the order of the list, and a
\* search starts high enough to use all of them (deleteNode, line 142).
LevelsAreSublists ==
  \A i \in Level :
    LET chain == Chain(i)
        place == Place
    IN  /\ {chain[j] : j \in DOMAIN chain} = On(sl, i) \ {Header}
        /\ \A j, k \in DOMAIN chain : j < k => place[chain[j]] < place[chain[k]]
        /\ i > sl.level => chain = <<>>

\* Every link in use says how many members lie between its ends; the last of
\* a level says how many are behind it.
SpansMeasure ==
  LET place == Place
  IN  \A i \in 1..sl.level : \A x \in On(sl, i) :
        LET f == forward(sl, x, i)
        IN  span(sl, x, i) = (IF f = Nil THEN sl.length ELSE place[f]) - place[x]

\* backward and tail mirror the list, and length counts it.
Mirrored ==
  /\ Len(List) = sl.length
  /\ sl.tail = (IF List = <<>> THEN Nil ELSE List[Len(List)])
  /\ \A p \in DOMAIN List :
       sl.node[List[p]].backward = (IF p = 1 THEN Nil ELSE List[p - 1])

\* Every way to walk the skip list, on each level, backward and by memory,
\* meets the members of one list in its order.
LinksAgree == LevelsAreSublists /\ Mirrored

\* Values never rise along the list, not even after a node was missed, and a
\* search by rank, which jumps by spans, finds the member of that rank.
RanksAreFound ==
  /\ \A p \in 1..Len(List) - 1 : sl.node[List[p]].value >= sl.node[List[p + 1]].value
  /\ \A p \in DOMAIN List : getNodeByRank(sl, p) = List[p]

\* The places that range is asked for. Place p has two names, p and
\* p - sl.length - 1; a stop before the first place means the first.
Wanted(start, stop) ==
  LET NotBefore(a, p) == a <= (IF a < 0 THEN p - sl.length - 1 ELSE p)
      NotAfter(a, p)  == (IF a < 0 THEN p - sl.length - 1 ELSE p) <= a
  IN  {p \in 1..sl.length :
         NotBefore(start, p) /\ (stop = <<>> \/ p = 1 \/ NotAfter(stop[1], p))}

\* Whatever the arguments are, on both sides of the ends of the list, range
\* returns the keys at the places asked for, and until a node is missed its
\* assertion holds and the values are those in the nodes.
SlicesAgree ==
  LET Argument == -(sl.length + 1)..sl.length + 1
      list     == List
  IN  \A start \in Argument, stop \in {<<>>} \cup {<<a>> : a \in Argument} :
        LET res == range(start, stop, FALSE)
        IN  \E f \in 1..sl.length + 1 :
              /\ Wanted(start, stop) = f..f + Len(res) - 1
              /\ \A j \in DOMAIN res : res[j] = sl.node[list[f + j - 1]].key
              /\ ~missed =>
                   /\ RangeAsserts(res)
                   /\ range(start, stop, TRUE) =
                        [j \in DOMAIN res |-> [key   |-> res[j],
                                               value |-> sl.node[list[f + j - 1]].value]]

\* A key is found, and at its place, if no other node has its value.
UntiedIsRanked ==
  \A p \in DOMAIN List :
    LET n == sl.node[List[p]]
    IN  (\A q \in DOMAIN List \ {p} : sl.node[List[q]].value # n.value)
          => getRank(sl, n.key, n.value) = p

\* What the searches by rank and by key and the slices of range return is the
\* list they are meant to be read from.
ReadsAgree == RanksAreFound /\ UntiedIsRanked /\ SlicesAgree

\* Behind the node n stands one of another key and the same value that reaches
\* a level above n: there the search passes n.
Overtaken(n) ==
  \E m \in Nodes(sl), i \in Level :
    /\ sl.node[m].value = sl.node[n].value /\ sl.node[m].key # sl.node[n].key
    /\ Place[n] < Place[m]
    /\ m \in On(sl, i) /\ n \notin On(sl, i)

\* Each key of the table has a node with its value, and delete misses it, or
\* rank does not find it, only if that node is overtaken: in every state, those
\* after earlier misses included.
MissNeedsTie ==
  \A k \in DOMAIN objs :
    \E n \in Nodes(sl) :
      /\ IsNode(sl, n, k, objs[k])
      /\ Misses(k) \/ getRank(sl, k, objs[k]) = 0 => Overtaken(n)

\* rank: the assertion of line 245.
RankIsFound == \A k \in DOMAIN objs : getRank(sl, k, objs[k]) > 0

Ranking == INSTANCE SortedSet WITH
  value <- objs,
  above <- {<<sl.node[List[pair[1]]].key, sl.node[List[pair[2]]].key>> :
              pair \in {q \in (DOMAIN List) \X (DOMAIN List) : q[1] < q[2]}}

\* Until a delete misses a node, the table and the skip list together are the
\* sorted set.
SortedUntilMissed ==
  /\ Ranking!Init
  /\ [][~missed' => Ranking!Next]_<<objs, sl>>
=============================================================================
