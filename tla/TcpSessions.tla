----------------------------- MODULE TcpSessions -----------------------------
(***************************************************************************)
(* The connections of one TcpConnection object                             *)
(* (server/engine/network/TcpConnection.cpp): the two maps between         *)
(* sessions and bufferevents, and the life of a bufferevent from Connect   *)
(* or listener_cb to the end of the connection.                            *)
(*                                                                         *)
(* The event loop is one thread: each callback of libevent is one action.  *)
(* The client of test/TestNetPacket calls Send from the thread of a Timer  *)
(* as well: for the threads in Sender, Send is three steps, two lookups    *)
(* and the write, between which the event loop runs.  Bufferevents are     *)
(* known by their address, and a freed address may be allocated again.     *)
(***************************************************************************)
CONSTANTS
  Bev,       \* addresses of bufferevents
  Session,   \* identities of Session objects
  Sender,    \* threads other than the event loop's that call Send
  Connects,  \* TRUE if the program calls Connect
  Listens,   \* TRUE if the program calls Listen
  NodeStays, \* TRUE if a node erased from a map can still be read
  None       \* no session, no bufferevent

ASSUME SessionsAssumption ==
  /\ None \notin Bev /\ None \notin Session
  /\ Connects \in BOOLEAN /\ Listens \in BOOLEAN /\ NodeStays \in BOOLEAN

VARIABLES
  evt_base_,      \* the event base exists
  evt_listener_,  \* the listener exists
  map_session_,   \* session -> bufferevent
  map_bufevt_,    \* bufferevent -> session
  status,         \* what is at the address of a bufferevent
  made,           \* the sessions made so far
  call,           \* thread -> its call of Send in progress
  \* History variables: no action of the code depends on them.
  owner,          \* the session made for the bufferevent last allocated there
  misses          \* the kinds of write that went to another connection, or to none

vars == <<evt_base_, evt_listener_, map_session_, map_bufevt_, status, made, call,
          owner, misses>>

Status == {"free", "connecting", "open", "closing", "failed"}
Call == [session : Session \cup {None}, bev : Bev \cup {None}]
NoCall == [session |-> None, bev |-> None]

Allocated == {b \in Bev : status[b] # "free"}
IsBindSession(s) == s \in DOMAIN map_session_
IsBind(b) == b \in DOMAIN map_bufevt_

\* insert leaves an entry that is already there, and erase one that is not.
Insert(map, key, value) ==
  [k \in DOMAIN map \cup {key} |-> IF k \in DOMAIN map THEN map[k] ELSE value]
Erase(map, key) == [k \in DOMAIN map \ {key} |-> map[k]]
-----------------------------------------------------------------------------
Init ==
  /\ evt_base_ = FALSE
  /\ evt_listener_ = FALSE
  /\ map_session_ = <<>>
  /\ map_bufevt_ = <<>>
  /\ status = [b \in Bev |-> "free"]
  /\ made = {}
  /\ call = [t \in Sender |-> NoCall]
  /\ owner = [b \in Bev |-> None]
  /\ misses = {}

\* Mutant: only the map that Send uses is filled.
BindSession_OneMap(s, b) ==
  /\ map_session_' = Insert(map_session_, s, b)
  /\ UNCHANGED map_bufevt_

BindSession(s, b) ==
  /\ map_session_' = Insert(map_session_, s, b)
  /\ map_bufevt_' = Insert(map_bufevt_, b, s)

\* Mutant: the bufferevent is freed, the maps are left for later.
UnBind_FreesOnly(b) ==
  /\ status' = [status EXCEPT ![b] = "free"]
  /\ UNCHANGED <<map_session_, map_bufevt_>>

\* Mutant: the entry of the bufferevent is set to NULL where it should go.
UnBind_Nulls(b) ==
  IF IsBind(b)
  THEN /\ map_bufevt_' = [map_bufevt_ EXCEPT ![b] = None]
       /\ map_session_' = Erase(map_session_, map_bufevt_[b])
       /\ status' = [status EXCEPT ![b] = "free"]
  ELSE UNCHANGED <<map_session_, map_bufevt_, status>>

\* The session is read from the node that has just been erased (line 365):
\* what it was, or NULL if the allocator has cleared the memory.
ReadErased(session) == IF NodeStays THEN {session} ELSE {session, None}

\* Both entries go, and the bufferevent is freed; without a session, line 371.
UnBind(b) ==
  IF IsBind(b)
  THEN \E session \in ReadErased(map_bufevt_[b]) :
         /\ map_bufevt_' = Erase(map_bufevt_, b)
         /\ map_session_' = Erase(map_session_, session)
         /\ status' = [status EXCEPT ![b] = IF session = None THEN @ ELSE "free"]
  ELSE UNCHANGED <<map_session_, map_bufevt_, status>>

\* Mutant: a session object that is not bound is used again.
NewConnection_ReusesSession(s, b, st) ==
  /\ evt_base_
  /\ status[b] = "free"
  /\ ~IsBindSession(s)
  /\ status' = [status EXCEPT ![b] = st]
  /\ owner' = [owner EXCEPT ![b] = s]
  /\ made' = made \cup {s}
  /\ BindSession(s, b)

\* bufferevent_socket_new, and the session made for the new bufferevent.
NewConnection(s, b, st) ==
  /\ evt_base_
  /\ status[b] = "free"
  /\ s \notin made
  /\ status' = [status EXCEPT ![b] = st]
  /\ owner' = [owner EXCEPT ![b] = s]
  /\ made' = made \cup {s}
  /\ BindSession(s, b)

Start ==
  /\ ~evt_base_
  /\ evt_base_' = TRUE
  /\ UNCHANGED <<evt_listener_, map_session_, map_bufevt_, status, made, call, owner, misses>>

Listen ==
  /\ Listens /\ evt_base_ /\ ~evt_listener_
  /\ evt_listener_' = TRUE
  /\ UNCHANGED <<evt_base_, map_session_, map_bufevt_, status, made, call, owner, misses>>

\* Connect; where libevent refuses, the bufferevent is freed and nothing changes.
Connect(s, b) ==
  /\ Connects
  /\ NewConnection(s, b, "connecting")
  /\ UNCHANGED <<evt_base_, evt_listener_, call, misses>>

listener_cb(s, b) ==
  /\ evt_listener_
  /\ NewConnection(s, b, "open")
  /\ UNCHANGED <<evt_base_, evt_listener_, call, misses>>
-----------------------------------------------------------------------------
(***************************************************************************)
(* conn_eventcb and the events that libevent reports.                      *)
(***************************************************************************)

EventConnected(b) ==
  /\ status[b] = "connecting"
  /\ status' = [status EXCEPT ![b] = "open"]
  /\ IF IsBind(b)
     THEN UNCHANGED <<map_session_, map_bufevt_, made>>
     ELSE \E s \in Session \ made : BindSession(s, b) /\ made' = made \cup {s}
  /\ UNCHANGED <<evt_base_, evt_listener_, call, owner, misses>>

PeerCloses(b) ==
  /\ status[b] = "open"
  /\ status' = [status EXCEPT ![b] = "closing"]
  /\ UNCHANGED <<evt_base_, evt_listener_, map_session_, map_bufevt_, made, call, owner, misses>>

EventEof(b) ==
  /\ status[b] = "closing"
  /\ UnBind(b)
  /\ UNCHANGED <<evt_base_, evt_listener_, made, call, owner, misses>>

\* Connecting or reading fails: libevent reads no more, and conn_eventcb prints.
\* (A failing write prints the same, and reading goes on: nothing here changes.)
EventError(b) ==
  /\ status[b] \in {"connecting", "open", "closing"}
  /\ status' = [status EXCEPT ![b] = "failed"]
  /\ UNCHANGED <<evt_base_, evt_listener_, map_session_, map_bufevt_, made, call, owner, misses>>
-----------------------------------------------------------------------------
(***************************************************************************)
(* Send.                                                                   *)
(***************************************************************************)
Miss(kind, s, b) == IF status[b] = "free" \/ owner[b] # s THEN {kind} ELSE {}

\* conn_readcb: the receive callback answers through the session it is given.
conn_readcb(b) ==
  /\ status[b] \in {"open", "closing"}
  /\ IsBind(b)
  /\ IsBindSession(map_bufevt_[b])
  /\ misses' = misses \cup Miss("answer", map_bufevt_[b], map_session_[map_bufevt_[b]])
  /\ UNCHANGED <<evt_base_, evt_listener_, map_session_, map_bufevt_, status, made, call, owner>>

\* Send on another thread: is the session bound?
SendFindsSession(t, s) ==
  /\ call[t] = NoCall
  /\ IsBindSession(s)
  /\ call' = [call EXCEPT ![t].session = s]
  /\ UNCHANGED <<evt_base_, evt_listener_, map_session_, map_bufevt_, status, made, owner, misses>>

\* Then GetBufferevent looks it up again.  Nothing locks the map: a lookup that
\* races with an insert or an erase may also miss.
GetBufferevent(t) ==
  /\ call[t].session # None /\ call[t].bev = None
  /\ \E found \in {IsBindSession(call[t].session), FALSE} :
       call' = [call EXCEPT ![t] =
                  IF found
                  THEN [session |-> call[t].session, bev |-> map_session_[call[t].session]]
                  ELSE NoCall]
  /\ UNCHANGED <<evt_base_, evt_listener_, map_session_, map_bufevt_, status, made, owner, misses>>

\* bufferevent_write, at the address found.
SendWrites(t) ==
  /\ call[t].bev # None
  /\ misses' = misses \cup Miss("send", call[t].session, call[t].bev)
  /\ call' = [call EXCEPT ![t] = NoCall]
  /\ UNCHANGED <<evt_base_, evt_listener_, map_session_, map_bufevt_, status, made, owner>>

Next ==
  \/ Start \/ Listen
  \/ \E s \in Session, b \in Bev : Connect(s, b)
  \/ \E s \in Session, b \in Bev : listener_cb(s, b)
  \/ \E b \in Bev : EventConnected(b)
  \/ \E b \in Bev : PeerCloses(b)
  \/ \E b \in Bev : EventEof(b)
  \/ \E b \in Bev : EventError(b)
  \/ \E b \in Bev : conn_readcb(b)
  \/ \E t \in Sender : \E s \in made : SendFindsSession(t, s)
  \/ \E t \in Sender : GetBufferevent(t)
  \/ \E t \in Sender : SendWrites(t)

Spec == Init /\ [][Next]_vars
-----------------------------------------------------------------------------
(***************************************************************************)
(* Properties.                                                             *)
(***************************************************************************)

\* Every variable has its type.
TypeOK ==
  /\ evt_base_ \in BOOLEAN /\ evt_listener_ \in BOOLEAN
  /\ DOMAIN map_session_ \subseteq made
  /\ map_session_ \in [DOMAIN map_session_ -> Bev]
  /\ DOMAIN map_bufevt_ \subseteq Bev
  /\ map_bufevt_ \in [DOMAIN map_bufevt_ -> Session]
  /\ status \in [Bev -> Status]
  /\ made \subseteq Session
  /\ call \in [Sender -> Call]
  /\ owner \in [Bev -> Session \cup {None}]
  /\ misses \subseteq {"answer", "send"}

\* The two maps are inverse to each other, so that the sizes UnBind compares
\* (TcpConnection.cpp:380) are equal, whatever connects, closes and fails.
MapsAgree ==
  /\ \A s \in DOMAIN map_session_ :
       IsBind(map_session_[s]) /\ map_bufevt_[map_session_[s]] = s
  /\ \A b \in DOMAIN map_bufevt_ :
       IsBindSession(map_bufevt_[b]) /\ map_session_[map_bufevt_[b]] = b

\* Exactly the bufferevents that exist are bound: none is left over that no
\* session reaches, and no entry is left over that names freed memory.
BoundIsAllocated == DOMAIN map_bufevt_ = Allocated

\* A session names the connection it was made for, also when the address of
\* its bufferevent had been another connection's before.
OwnConnection == \A b \in DOMAIN map_bufevt_ : owner[b] = map_bufevt_[b]

\* A thread about to write has the address of its session's bufferevent as long
\* as the session is bound: only the end of that connection makes it outdated.
PendingWriteIsRight ==
  \A t \in Sender :
    call[t].bev # None /\ IsBindSession(call[t].session) =>
      call[t].bev = map_session_[call[t].session]

\* What makes these inductive: a pending call is about a session made before,
\* so that no later connection's session is mistaken for it.
CallsAreOfMade == \A t \in Sender : call[t].session \in made \cup {None}

IInv ==
  /\ TypeOK /\ MapsAgree /\ BoundIsAllocated /\ OwnConnection
  /\ PendingWriteIsRight /\ CallsAreOfMade

\* A session that has lost its connection never gets one again: who still
\* holds it sends to nobody.
UnboundForGood ==
  [][\A s \in made : ~IsBindSession(s) => ~IsBindSession(s)']_vars

\* An error leaves session and bufferevent bound for good: nothing of a failed
\* connection is ever given back (the branch of line 289 only prints).
FailedIsKept ==
  [][\A b \in Bev : status[b] = "failed" => status'[b] = "failed" /\ IsBind(b)']_vars

\* What the receive callback answers is written to the connection of the session
\* it was given, which exists, whatever other threads are sending.
AnswersReachTheirSession == "answer" \notin misses

\* Send writes to the connection of its session or not at all: when the
\* bufferevent is gone it returns (TcpConnection.cpp:163).
SendReachesItsSession == misses = {}
=============================================================================
