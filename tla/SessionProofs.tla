---------------------------- MODULE SessionProofs ----------------------------
(***************************************************************************)
(* Proofs about TcpSessions, for every set of bufferevents, sessions and   *)
(* threads: the invariants of the two maps, of the pending writes, and the *)
(* two action properties.                                                  *)
(*                                                                         *)
(* All of them assume NodeStays, that UnBind reads the session it has just *)
(* erased: without it the maps disagree.                                   *)
(***************************************************************************)
EXTENDS TcpSessions, TLAPS

(***************************************************************************)
(* A connection is made: the entries are new in both maps.                 *)
(***************************************************************************)
LEMMA NewConnectionKeeps ==
  ASSUME IInv, NEW s \in Session, NEW b \in Bev, NEW st \in Status \ {"free"},
         NewConnection(s, b, st),
         UNCHANGED <<evt_base_, evt_listener_, call, misses>>
  PROVE  IInv'
<1> USE SessionsAssumption
<1>1. s \notin DOMAIN map_session_ /\ b \notin DOMAIN map_bufevt_
  BY DEF IInv, TypeOK, BoundIsAllocated, Allocated, NewConnection
<1>2. /\ DOMAIN map_session_' = DOMAIN map_session_ \cup {s}
      /\ map_session_'[s] = b
      /\ \A k \in DOMAIN map_session_ : map_session_'[k] = map_session_[k]
      /\ map_session_' = [k \in DOMAIN map_session_' |-> map_session_'[k]]
  BY <1>1 DEF NewConnection, BindSession, Insert
<1>3. /\ DOMAIN map_bufevt_' = DOMAIN map_bufevt_ \cup {b}
      /\ map_bufevt_'[b] = s
      /\ \A k \in DOMAIN map_bufevt_ : map_bufevt_'[k] = map_bufevt_[k]
      /\ map_bufevt_' = [k \in DOMAIN map_bufevt_' |-> map_bufevt_'[k]]
  BY <1>1 DEF NewConnection, BindSession, Insert
<1>4. /\ status' = [status EXCEPT ![b] = st] /\ owner' = [owner EXCEPT ![b] = s]
      /\ made' = made \cup {s} /\ s \notin made
  BY DEF NewConnection
<1>5. TypeOK'
  <2>1. \A k \in DOMAIN map_session_' : map_session_'[k] \in Bev
    BY <1>2 DEF IInv, TypeOK
  <2>2. \A k \in DOMAIN map_bufevt_' : map_bufevt_'[k] \in Session
    BY <1>3 DEF IInv, TypeOK
  <2>3. map_session_' \in [DOMAIN map_session_' -> Bev]
    BY <1>2, <2>1
  <2>4. map_bufevt_' \in [DOMAIN map_bufevt_' -> Session]
    BY <1>3, <2>2
  <2>5. status' \in [Bev -> Status] /\ owner' \in [Bev -> Session \cup {None}]
    BY <1>4 DEF IInv, TypeOK
  <2>6. DOMAIN map_session_' \subseteq made' /\ DOMAIN map_bufevt_' \subseteq Bev
        /\ made' \subseteq Session
    BY <1>2, <1>3, <1>4 DEF IInv, TypeOK
  <2> QED
    BY <2>3, <2>4, <2>5, <2>6 DEF IInv, TypeOK
<1>6. MapsAgree'
  <2>1. \A k \in DOMAIN map_session_' :
          map_session_'[k] \in DOMAIN map_bufevt_' /\ map_bufevt_'[map_session_'[k]] = k
    BY <1>1, <1>2, <1>3 DEF IInv, MapsAgree, IsBind
  <2>2. \A k \in DOMAIN map_bufevt_' :
          map_bufevt_'[k] \in DOMAIN map_session_' /\ map_session_'[map_bufevt_'[k]] = k
    BY <1>1, <1>2, <1>3 DEF IInv, MapsAgree, IsBindSession
  <2> QED
    BY <2>1, <2>2 DEF MapsAgree, IsBind, IsBindSession
<1>pointwise. /\ status'[b] # "free" /\ owner'[b] = s
      /\ \A c \in Bev \ {b} : status'[c] = status[c] /\ owner'[c] = owner[c]
  BY <1>4 DEF IInv, TypeOK
<1>7. BoundIsAllocated'
  <2>1. DOMAIN map_bufevt_ = {c \in Bev : status[c] # "free"}
    BY DEF IInv, BoundIsAllocated, Allocated
  <2>2. DOMAIN map_bufevt_' = {c \in Bev : status'[c] # "free"}
    BY <1>3, <1>pointwise, <2>1
  <2> QED
    BY <2>2 DEF BoundIsAllocated, Allocated
<1>8. OwnConnection'
  <2>1. \A c \in DOMAIN map_bufevt_ : c \in Bev \ {b} /\ owner[c] = map_bufevt_[c]
    BY <1>1 DEF IInv, TypeOK, OwnConnection
  <2> QED
    BY <1>3, <1>pointwise, <2>1 DEF OwnConnection
<1>9. PendingWriteIsRight'
  BY <1>2, <1>4 DEF IInv, CallsAreOfMade, PendingWriteIsRight, IsBindSession
<1>10. CallsAreOfMade'
  BY <1>4 DEF IInv, CallsAreOfMade
<1> QED
  BY <1>5, <1>6, <1>7, <1>8, <1>9, <1>10 DEF IInv

(***************************************************************************)
(* A connection ends: what UnBind finds it erases from both maps.          *)
(***************************************************************************)
LEMMA UnBindErasesBoth ==
  ASSUME IInv, NodeStays, NEW b \in Bev, IsBind(b), UnBind(b)
  PROVE  /\ map_bufevt_' = Erase(map_bufevt_, b)
         /\ map_session_' = Erase(map_session_, map_bufevt_[b])
         /\ status' = [status EXCEPT ![b] = "free"]
<1>1. map_bufevt_[b] \in Session /\ map_bufevt_[b] # None
  BY SessionsAssumption DEF IInv, TypeOK, IsBind
<1> QED
  BY <1>1 DEF UnBind, ReadErased

LEMMA EventEofKeeps ==
  ASSUME IInv, NodeStays, NEW b \in Bev, EventEof(b)
  PROVE  IInv'
<1> USE SessionsAssumption
<1> DEFINE s == map_bufevt_[b]
<1>1. b \in DOMAIN map_bufevt_ /\ s \in DOMAIN map_session_ /\ map_session_[s] = b
  BY DEF IInv, TypeOK, BoundIsAllocated, Allocated, MapsAgree, IsBindSession, EventEof
<1>2. /\ map_bufevt_' = Erase(map_bufevt_, b)
      /\ map_session_' = Erase(map_session_, s)
      /\ status' = [status EXCEPT ![b] = "free"]
      /\ UNCHANGED <<evt_base_, evt_listener_, made, call, owner, misses>>
  BY <1>1, UnBindErasesBoth DEF EventEof, IsBind
<1>3. /\ DOMAIN map_session_' = DOMAIN map_session_ \ {s}
      /\ \A k \in DOMAIN map_session_' : map_session_'[k] = map_session_[k]
      /\ map_session_' = [k \in DOMAIN map_session_' |-> map_session_'[k]]
  BY <1>2 DEF Erase
<1>4. /\ DOMAIN map_bufevt_' = DOMAIN map_bufevt_ \ {b}
      /\ \A k \in DOMAIN map_bufevt_' : map_bufevt_'[k] = map_bufevt_[k]
      /\ map_bufevt_' = [k \in DOMAIN map_bufevt_' |-> map_bufevt_'[k]]
  BY <1>2 DEF Erase
<1> HIDE DEF s
<1>5. TypeOK'
  <2>1. map_session_' \in [DOMAIN map_session_' -> Bev]
    BY <1>3 DEF IInv, TypeOK
  <2>2. map_bufevt_' \in [DOMAIN map_bufevt_' -> Session]
    BY <1>4 DEF IInv, TypeOK
  <2>3. status' \in [Bev -> Status]
    BY <1>2 DEF IInv, TypeOK, Status
  <2> QED
    BY <1>2, <1>3, <1>4, <2>1, <2>2, <2>3 DEF IInv, TypeOK
<1>6. MapsAgree'
  <2>1. \A k \in DOMAIN map_session_' :
          map_session_'[k] \in DOMAIN map_bufevt_' /\ map_bufevt_'[map_session_'[k]] = k
    BY <1>1, <1>3, <1>4 DEF IInv, MapsAgree, IsBind, s
  <2>2. \A k \in DOMAIN map_bufevt_' :
          map_bufevt_'[k] \in DOMAIN map_session_' /\ map_session_'[map_bufevt_'[k]] = k
    BY <1>1, <1>3, <1>4 DEF IInv, MapsAgree, IsBindSession
  <2> QED
    BY <2>1, <2>2 DEF MapsAgree, IsBind, IsBindSession
<1>7. BoundIsAllocated'
  BY <1>2, <1>4 DEF IInv, TypeOK, BoundIsAllocated, Allocated
<1>8. OwnConnection'
  BY <1>2, <1>4 DEF IInv, OwnConnection
<1>9. PendingWriteIsRight'
  BY <1>2, <1>3 DEF IInv, PendingWriteIsRight, IsBindSession
<1>10. CallsAreOfMade'
  BY <1>2 DEF IInv, CallsAreOfMade
<1> QED
  BY <1>5, <1>6, <1>7, <1>8, <1>9, <1>10 DEF IInv

(***************************************************************************)
(* The steps that only change what is at the address of a bufferevent.     *)
(***************************************************************************)
LEMMA StatusKeeps ==
  ASSUME IInv, NEW b \in Bev, NEW st \in Status \ {"free"}, status[b] # "free",
         status' = [status EXCEPT ![b] = st],
         UNCHANGED <<evt_base_, evt_listener_, map_session_, map_bufevt_, made, call,
                     owner, misses>>
  PROVE  IInv'
<1>1. TypeOK'
  BY DEF IInv, TypeOK
<1>2. MapsAgree' /\ OwnConnection' /\ PendingWriteIsRight' /\ CallsAreOfMade'
  BY DEF IInv, MapsAgree, OwnConnection, PendingWriteIsRight, CallsAreOfMade,
         IsBind, IsBindSession
<1>3. BoundIsAllocated'
  BY DEF IInv, TypeOK, BoundIsAllocated, Allocated
<1> QED
  BY <1>1, <1>2, <1>3 DEF IInv

LEMMA EventConnectedIsBound ==
  ASSUME IInv, NEW b \in Bev, EventConnected(b)
  PROVE  /\ status' = [status EXCEPT ![b] = "open"] /\ status[b] = "connecting"
         /\ UNCHANGED <<evt_base_, evt_listener_, map_session_, map_bufevt_, made, call,
                        owner, misses>>
BY DEF IInv, BoundIsAllocated, Allocated, EventConnected, IsBind

(***************************************************************************)
(* The steps that only change the calls of Send and the history.           *)
(***************************************************************************)
LEMMA CallKeeps ==
  ASSUME IInv,
         UNCHANGED <<map_session_, map_bufevt_, status, made, owner>>,
         evt_base_' \in BOOLEAN, evt_listener_' \in BOOLEAN,
         call' \in [Sender -> Call],
         misses' \subseteq {"answer", "send"},
         PendingWriteIsRight', CallsAreOfMade'
  PROVE  IInv'
<1>1. TypeOK'
  BY DEF IInv, TypeOK
<1>2. MapsAgree' /\ OwnConnection' /\ BoundIsAllocated'
  BY DEF IInv, MapsAgree, OwnConnection, BoundIsAllocated, Allocated, IsBind, IsBindSession
<1> QED
  BY <1>1, <1>2 DEF IInv

LEMMA SendKeeps ==
  ASSUME IInv, NEW t \in Sender,
         \/ \E s \in made : SendFindsSession(t, s)
         \/ GetBufferevent(t)
         \/ SendWrites(t)
  PROVE  IInv'
<1> USE SessionsAssumption
<1>0. call \in [Sender -> Call] /\ made \subseteq Session /\ NoCall \in Call
  BY DEF IInv, TypeOK, NoCall, Call
<1>1. CASE \E s \in made : SendFindsSession(t, s)
  <2>1. PICK s \in made : SendFindsSession(t, s)
    BY <1>1
  <2>2. call[t] = NoCall /\ call' = [call EXCEPT ![t].session = s]
    BY <2>1 DEF SendFindsSession
  <2>3. call'[t].bev = None /\ call'[t].session = s
    BY <1>0, <2>2 DEF NoCall, Call
  <2>4. \A u \in Sender : u # t => call'[u] = call[u]
    BY <1>0, <2>2
  <2>5. call' \in [Sender -> Call]
    BY <1>0, <2>1, <2>2 DEF Call, NoCall
  <2>6. PendingWriteIsRight' /\ CallsAreOfMade'
    BY <2>1, <2>3, <2>4
       DEF IInv, PendingWriteIsRight, CallsAreOfMade, IsBindSession, SendFindsSession
  <2> QED
    BY <2>1, <2>5, <2>6, CallKeeps DEF SendFindsSession, IInv, TypeOK
<1>2. CASE GetBufferevent(t)
  <2>1. PICK found \in {IsBindSession(call[t].session), FALSE} :
          call' = [call EXCEPT ![t] =
                     IF found
                     THEN [session |-> call[t].session, bev |-> map_session_[call[t].session]]
                     ELSE NoCall]
    BY <1>2 DEF GetBufferevent
  <2>2. call[t] \in Call /\ call[t].session \in made
    BY <1>0, <1>2 DEF GetBufferevent, IInv, CallsAreOfMade
  <2>3. \A u \in Sender : u # t => call'[u] = call[u]
    BY <1>0, <2>1
  <2>4. CASE found
    <3>1. call'[t] = [session |-> call[t].session, bev |-> map_session_[call[t].session]]
      BY <1>0, <2>1, <2>4
    <3>2. map_session_[call[t].session] \in Bev
      BY <2>1, <2>4 DEF IsBindSession, IInv, TypeOK
    <3>3. call'[t] \in Call
      BY <1>0, <2>2, <3>1, <3>2 DEF Call
    <3>4. call' \in [Sender -> Call]
      BY <1>0, <2>1, <2>3, <3>3
    <3>5. PendingWriteIsRight' /\ CallsAreOfMade'
      BY <1>2, <2>2, <2>3, <3>1
         DEF IInv, PendingWriteIsRight, CallsAreOfMade, IsBindSession, GetBufferevent
    <3> QED
      BY <1>2, <3>4, <3>5, CallKeeps DEF GetBufferevent, IInv, TypeOK
  <2>5. CASE ~found
    <3>1. call'[t] = NoCall
      BY <1>0, <2>1, <2>5
    <3>2. call' \in [Sender -> Call]
      BY <1>0, <2>1, <2>5
    <3>3. PendingWriteIsRight' /\ CallsAreOfMade'
      BY <1>2, <2>3, <3>1
         DEF IInv, PendingWriteIsRight, CallsAreOfMade, IsBindSession, GetBufferevent, NoCall
    <3> QED
      BY <1>2, <3>2, <3>3, CallKeeps DEF GetBufferevent, IInv, TypeOK
  <2> QED
    BY <2>4, <2>5
<1>3. CASE SendWrites(t)
  <2>1. call' = [call EXCEPT ![t] = NoCall]
    BY <1>3 DEF SendWrites
  <2>2. call'[t] = NoCall /\ \A u \in Sender : u # t => call'[u] = call[u]
    BY <1>0, <2>1
  <2>3. call' \in [Sender -> Call]
    BY <1>0, <2>1
  <2>4. PendingWriteIsRight' /\ CallsAreOfMade'
    BY <1>3, <2>2
       DEF IInv, PendingWriteIsRight, CallsAreOfMade, IsBindSession, SendWrites, NoCall
  <2>5. misses' \subseteq {"answer", "send"}
    BY <1>3 DEF SendWrites, Miss, IInv, TypeOK
  <2> QED
    BY <1>3, <2>3, <2>4, <2>5, CallKeeps DEF SendWrites, IInv, TypeOK
<1> QED
  BY <1>1, <1>2, <1>3

LEMMA LoopKeeps ==
  ASSUME IInv,
         Start \/ Listen \/ (\E b \in Bev : conn_readcb(b)) \/ UNCHANGED vars
  PROVE  IInv'
<1>1. /\ UNCHANGED <<map_session_, map_bufevt_, status, made, owner, call>>
      /\ evt_base_' \in BOOLEAN /\ evt_listener_' \in BOOLEAN
  BY DEF IInv, TypeOK, Start, Listen, conn_readcb, vars
<1>2. misses' \subseteq {"answer", "send"}
  BY DEF IInv, TypeOK, Start, Listen, conn_readcb, vars, Miss
<1>3. PendingWriteIsRight' /\ CallsAreOfMade' /\ call' \in [Sender -> Call]
  BY <1>1 DEF IInv, TypeOK, PendingWriteIsRight, CallsAreOfMade, IsBindSession
<1> QED
  BY <1>1, <1>2, <1>3, CallKeeps

(***************************************************************************)
(* The invariant.                                                          *)
(***************************************************************************)
LEMMA InvInit == Init => IInv
<1> SUFFICES ASSUME Init PROVE IInv
  OBVIOUS
<1>1. DOMAIN map_session_ = {} /\ DOMAIN map_bufevt_ = {}
  BY DEF Init
<1>2. map_session_ \in [DOMAIN map_session_ -> Bev]
      /\ map_bufevt_ \in [DOMAIN map_bufevt_ -> Session]
  BY <1>1 DEF Init
<1>3. TypeOK
  BY <1>1, <1>2 DEF Init, TypeOK, Status, NoCall, Call
<1>4. MapsAgree /\ OwnConnection /\ BoundIsAllocated
  BY <1>1 DEF Init, MapsAgree, OwnConnection, BoundIsAllocated, Allocated
<1>5. PendingWriteIsRight /\ CallsAreOfMade
  BY DEF Init, PendingWriteIsRight, CallsAreOfMade, NoCall
<1> QED
  BY <1>3, <1>4, <1>5 DEF IInv

LEMMA InvNext ==
  ASSUME NodeStays, IInv, [Next]_vars
  PROVE  IInv'
<1>1. CASE Start \/ Listen \/ (\E b \in Bev : conn_readcb(b)) \/ UNCHANGED vars
  BY <1>1, LoopKeeps
<1>2. CASE \E s \in Session, b \in Bev : Connect(s, b)
  <2>1. PICK s \in Session, b \in Bev : Connect(s, b)
    BY <1>2
  <2>2. "connecting" \in Status \ {"free"}
    BY DEF Status
  <2> QED
    BY <2>1, <2>2, NewConnectionKeeps DEF Connect
<1>3. CASE \E s \in Session, b \in Bev : listener_cb(s, b)
  <2>1. PICK s \in Session, b \in Bev : listener_cb(s, b)
    BY <1>3
  <2>2. "open" \in Status \ {"free"}
    BY DEF Status
  <2> QED
    BY <2>1, <2>2, NewConnectionKeeps DEF listener_cb
<1>4. CASE \E b \in Bev : EventConnected(b)
  <2>1. PICK b \in Bev : EventConnected(b)
    BY <1>4
  <2>2. "open" \in Status \ {"free"}
    BY DEF Status
  <2> QED
    BY <2>1, <2>2, EventConnectedIsBound, StatusKeeps
<1>5. CASE \E b \in Bev : PeerCloses(b)
  <2>1. PICK b \in Bev : PeerCloses(b)
    BY <1>5
  <2>2. "closing" \in Status \ {"free"}
    BY DEF Status
  <2> QED
    BY <2>1, <2>2, StatusKeeps DEF PeerCloses
<1>6. CASE \E b \in Bev : EventEof(b)
  BY <1>6, EventEofKeeps
<1>7. CASE \E b \in Bev : EventError(b)
  <2>1. PICK b \in Bev : EventError(b)
    BY <1>7
  <2>2. "failed" \in Status \ {"free"}
    BY DEF Status
  <2> QED
    BY <2>1, <2>2, StatusKeeps DEF EventError
<1>8. CASE \E t \in Sender : \/ \E s \in made : SendFindsSession(t, s)
                             \/ GetBufferevent(t)
                             \/ SendWrites(t)
  BY <1>8, SendKeeps
<1> QED
  BY <1>1, <1>2, <1>3, <1>4, <1>5, <1>6, <1>7, <1>8 DEF Next

LEMMA InvAlways ==
  ASSUME NodeStays
  PROVE  Spec => []IInv
BY InvInit, InvNext, PTL DEF Spec

(***************************************************************************)
(* The theorems.                                                           *)
(***************************************************************************)

\* Every variable of a TcpConnection keeps its type; in particular the map
\* holds only sessions that have been made, and bufferevents that can be.
THEOREM SessionTypeCorrect ==
  ASSUME NodeStays
  PROVE  Spec => []TypeOK
<1>1. IInv => TypeOK
  BY DEF IInv
<1> QED
  BY <1>1, InvAlways, PTL

\* map_session_ and map_bufevt_ stay inverse to each other through every
\* order of connects, accepts, ends and errors.
THEOREM MapsStayInverse ==
  ASSUME NodeStays
  PROVE  Spec => []MapsAgree
<1>1. IInv => MapsAgree
  BY DEF IInv
<1> QED
  BY <1>1, InvAlways, PTL

\* The bufferevents that exist are those that are bound: no address of a freed
\* one is in a map, and none that lives is out of UnBind's reach.
THEOREM NothingLeaksUnbound ==
  ASSUME NodeStays
  PROVE  Spec => []BoundIsAllocated
<1>1. IInv => BoundIsAllocated
  BY DEF IInv
<1> QED
  BY <1>1, InvAlways, PTL

\* A session names the connection it was made for, whatever address its
\* bufferevent was given.
THEOREM SessionsAreNotMixedUp ==
  ASSUME NodeStays
  PROVE  Spec => []OwnConnection
<1>1. IInv => OwnConnection
  BY DEF IInv
<1> QED
  BY <1>1, InvAlways, PTL

\* The address a thread is about to write to is that of its session for as
\* long as the session is bound.
THEOREM OnlyTheEndOutdatesAWrite ==
  ASSUME NodeStays
  PROVE  Spec => []PendingWriteIsRight
<1>1. IInv => PendingWriteIsRight
  BY DEF IInv
<1> QED
  BY <1>1, InvAlways, PTL

\* What the event loop's own thread sends, as the server does in its receive
\* callback, reaches the connection of its session and never freed memory.
THEOREM AnswersAreRight ==
  ASSUME NodeStays
  PROVE  Spec => []AnswersReachTheirSession
<1>1. Init => AnswersReachTheirSession
  BY DEF Init, AnswersReachTheirSession
<1>2. ASSUME IInv, AnswersReachTheirSession, [Next]_vars
      PROVE  AnswersReachTheirSession'
  <2>1. CASE \E b \in Bev : conn_readcb(b)
    <3>1. PICK b \in Bev : conn_readcb(b)
      BY <2>1
    <3>2. map_session_[map_bufevt_[b]] = b /\ owner[b] = map_bufevt_[b] /\ status[b] # "free"
      BY <1>2, <3>1 DEF conn_readcb, IsBind, IInv, MapsAgree, OwnConnection
    <3>3. Miss("answer", map_bufevt_[b], b) = {}
      BY <3>2 DEF Miss
    <3> QED
      BY <1>2, <3>1, <3>2, <3>3 DEF conn_readcb, AnswersReachTheirSession
  <2>2. CASE \E t \in Sender : SendWrites(t)
    BY <1>2, <2>2 DEF SendWrites, Miss, AnswersReachTheirSession
  <2>3. CASE UNCHANGED misses
    BY <1>2, <2>3 DEF AnswersReachTheirSession
  <2> QED
    BY <1>2, <2>1, <2>2, <2>3
       DEF Next, vars, Start, Listen, Connect, listener_cb, EventConnected, PeerCloses,
           EventEof, EventError, SendFindsSession, GetBufferevent
<1>3. IInv /\ AnswersReachTheirSession /\ [Next]_vars => AnswersReachTheirSession'
  BY <1>2
<1> QED
  BY <1>1, <1>3, InvAlways, PTL DEF Spec

\* A session that lost its connection never gets one again: only BindSession
\* adds entries, and it is called with sessions that are new.
THEOREM LostIsLost ==
  ASSUME NodeStays
  PROVE  Spec => UnboundForGood
<1>1. ASSUME IInv, [Next]_vars
      PROVE  [\A s \in made : ~IsBindSession(s) => ~IsBindSession(s)']_vars
  <2> SUFFICES ASSUME NEW s \in made, s \notin DOMAIN map_session_
               PROVE  s \notin DOMAIN map_session_'
    BY DEF IsBindSession
  <2>1. CASE \E r \in Session, b \in Bev, st \in Status : NewConnection(r, b, st)
    <3>1. PICK r \in Session, b \in Bev, st \in Status : NewConnection(r, b, st)
      BY <2>1
    <3> QED
      BY <3>1 DEF NewConnection, BindSession, Insert
  <2>2. CASE \E b \in Bev : EventConnected(b)
    BY <1>1, <2>2, EventConnectedIsBound
  <2>3. CASE \E b \in Bev : EventEof(b)
    <3>1. PICK b \in Bev : UnBind(b)
      BY <2>3 DEF EventEof
    <3>2. DOMAIN map_session_' \subseteq DOMAIN map_session_
      BY <3>1 DEF UnBind, Erase
    <3> QED
      BY <3>2
  <2>4. CASE UNCHANGED map_session_
    BY <2>4
  <2> QED
    <3>1. "connecting" \in Status /\ "open" \in Status
      BY DEF Status
    <3> QED
      BY <1>1, <2>1, <2>2, <2>3, <2>4, <3>1
         DEF Next, vars, Start, Listen, Connect, listener_cb, PeerCloses, EventError,
             conn_readcb, SendFindsSession, GetBufferevent, SendWrites
<1>2. IInv /\ [Next]_vars => [\A s \in made : ~IsBindSession(s) => ~IsBindSession(s)']_vars
  BY <1>1
<1> QED
  BY <1>2, InvAlways, PTL DEF Spec, UnboundForGood

\* A connection that failed keeps its session and its bufferevent for ever:
\* the branch of conn_eventcb for errors only prints.
THEOREM FailedStays ==
  ASSUME NodeStays
  PROVE  Spec => FailedIsKept
<1>1. ASSUME IInv, [Next]_vars
      PROVE  [\A b \in Bev : status[b] = "failed" => status'[b] = "failed" /\ IsBind(b)']_vars
  <2>0. IInv'
    BY <1>1, InvNext
  <2> SUFFICES ASSUME NEW b \in Bev, status[b] = "failed" PROVE status'[b] = "failed"
    BY <2>0 DEF IInv, BoundIsAllocated, Allocated, IsBind
  <2>1. status \in [Bev -> Status]
    BY <1>1 DEF IInv, TypeOK
  <2>2. CASE \E c \in Bev, st \in Status : status[c] # "failed" /\ status' = [status EXCEPT ![c] = st]
    BY <2>1, <2>2
  <2>3. CASE UNCHANGED status
    BY <2>3
  <2>4. CASE \E c \in Bev : EventEof(c)
    <3>1. PICK c \in Bev : status[c] = "closing" /\ UnBind(c)
      BY <2>4 DEF EventEof
    <3>2. \A d \in Bev : d # c => status'[d] = status[d]
      BY <2>1, <3>1 DEF UnBind
    <3> QED
      BY <3>1, <3>2
  <2> QED
    <3>1. {"connecting", "open", "closing", "failed"} \subseteq Status
      BY DEF Status
    <3> QED
      BY <1>1, <2>2, <2>3, <2>4, <3>1
         DEF Next, vars, Start, Listen, Connect, listener_cb, NewConnection, EventConnected,
             PeerCloses, EventError, conn_readcb, SendFindsSession, GetBufferevent, SendWrites
<1>2. IInv /\ [Next]_vars =>
        [\A b \in Bev : status[b] = "failed" => status'[b] = "failed" /\ IsBind(b)']_vars
  BY <1>1
<1> QED
  BY <1>2, InvAlways, PTL DEF Spec, FailedIsKept
=============================================================================
