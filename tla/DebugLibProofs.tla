--------------------------- MODULE DebugLibProofs ---------------------------
(***************************************************************************)
(* Proofs about DebugLib, for every number of threads, writers, lines and  *)
(* failures. The inductive invariant is IInv of DebugLib, and LinesInv for *)
(* what is in the files.                                                   *)
(***************************************************************************)
EXTENDS DebugLib, FiniteSetTheorems, SequenceTheorems, TLAPS

LEMMA EventCount ==
  ASSUME NEW S, NEW t
  PROVE  /\ Cardinality(S \cap Events(t)) \in 0..2
         /\ Cardinality(S \cap Events(t)) > 0 => S # {}
<1> DEFINE both == {"received"} \cup {"threaded"}
<1>1. IsFiniteSet({"received"}) /\ Cardinality({"received"}) = 1
  BY FS_Singleton
<1>2. IsFiniteSet(both) /\ Cardinality(both) \in {1, 2}
  BY <1>1, FS_AddElement
<1>3. S \cap Events(t) \in SUBSET both
  BY DEF Events
<1>4. IsFiniteSet(S \cap Events(t)) /\ Cardinality(S \cap Events(t)) <= Cardinality(both)
  BY <1>2, <1>3, FS_Subset
<1>5. Cardinality(S \cap Events(t)) \in Nat
  BY <1>4, FS_CardinalityType
<1>6. S = {} => Cardinality(S \cap Events(t)) = 0
  <2>1. S = {} => S \cap Events(t) = {}
    OBVIOUS
  <2> QED
    BY <2>1, FS_EmptySet
<1> HIDE DEF both
<1> QED
  BY <1>2, <1>4, <1>5, <1>6

\* Before the first call nothing is open, held or buffered.
LEMMA InitIsSound == Init => IInv
<1> SUFFICES ASSUME Init PROVE IInv
  OBVIOUS
<1> USE DebugLibAssumption DEF Init
<1>1. TypeOK
  <2>1. NoStream \in Stream
    BY DEF NoStream, Stream
  <2>2. writer \in [Writer -> Stream]
    BY <2>1
  <2>3. /\ s_writer \in Writer \cup {None} /\ lock \in Thread \cup {None}
        /\ releasing \in BOOLEAN /\ disposed \in BOOLEAN /\ failed \in BOOLEAN
    OBVIOUS
  <2>5. subscribed \subseteq {"received", "threaded"} /\ failures \in 0..MaxFailures
    OBVIOUS
  <2>4. /\ this \in [Thread -> Writer \cup {None}] /\ calls \in [Thread -> 0..2]
        /\ said \in [Thread -> Nat] /\ steady \in [Thread -> BOOLEAN]
    OBVIOUS
  <2> QED
    BY <2>2, <2>3, <2>4, <2>5 DEF TypeOK
<1>2. Called /\ Locked
  <2>1. None \notin Thread
    BY DEF Thread
  <2> QED
    BY <2>1 DEF Called, Locked
<1>3. Undisturbed /\ Flushing
  BY DEF Undisturbed, Flushing
<1> QED
  BY <1>1, <1>2, <1>3 DEF IInv

\* A line that is logged raises its events: the thread waits for the lock.
LEMMA RaiseKeeps ==
  ASSUME IInv, NEW t \in Thread, Raise(t),
         UNCHANGED <<s_writer, subscribed, releasing, failures, disposed>>,
         main' = main \/ main' = "discard"
  PROVE  IInv'
<1> USE DebugLibAssumption
<1>1. /\ pc[t] = "idle"
      /\ calls' = [calls EXCEPT ![t] = Cardinality(subscribed \cap Events(t))]
      /\ calls'[t] \in 0..2 /\ (calls'[t] > 0 => subscribed # {})
      /\ pc' = [pc EXCEPT ![t] = IF calls'[t] > 0 THEN "lock" ELSE "idle"]
      /\ said' = [said EXCEPT ![t] = @ + 1]
      /\ UNCHANGED <<lock, this, failed, writer>>
  BY EventCount DEF Raise, IInv, TypeOK
<1>7. steady' \in [Thread -> BOOLEAN]
  <2>1. steady \in [Thread -> BOOLEAN] /\ (Up /\ calls'[t] > 0) \in BOOLEAN
    BY DEF IInv, TypeOK
  <2> QED
    BY <2>1 DEF Raise
<1>2. TypeOK'
  <2>1. calls' \in [Thread -> 0..2]
    BY <1>1 DEF IInv, TypeOK
  <2>2. /\ pc' \in [Thread -> {"idle", "lock", "write", "append", "measure", "flush", "drain", "reset"}]
        /\ said' \in [Thread -> Nat]
    BY <1>1 DEF IInv, TypeOK
  <2> QED
    BY <1>1, <1>7, <2>1, <2>2 DEF IInv, TypeOK
<1>3. Called'
  BY <1>1 DEF IInv, TypeOK, Called
<1>4. Locked'
  BY <1>1 DEF IInv, TypeOK, Locked
<1>5. Undisturbed'
  BY <1>1 DEF IInv, TypeOK, Undisturbed, Usable
<1>6. Flushing'
  <2> SUFFICES ASSUME ~disposed, s_writer # None, writer[s_writer].buffer # <<>>
               PROVE  Flushing'
    BY <1>1 DEF Flushing
  <2>1. PICK u \in Thread :
          /\ lock = u
          /\ \/ pc[u] \in {"measure", "drain"} /\ this[u] = s_writer
             \/ pc[u] = "flush" /\ writer[s_writer].length = 1
    BY DEF IInv, Flushing
  <2>2. u # t /\ pc'[u] = pc[u]
    BY <1>1, <2>1 DEF IInv, TypeOK
  <2> QED
    BY <1>1, <2>1, <2>2 DEF Flushing
<1> QED
  BY <1>2, <1>3, <1>4, <1>5, <1>6 DEF IInv

\* An exception is possible only after a Dispose has begun.
LEMMA ThrowKeeps ==
  ASSUME IInv, NEW t \in Thread, pc[t] \notin {"idle", "lock"}, Throw(t), disposed,
         UNCHANGED <<said, writer, mainVars, steady>>
  PROVE  IInv'
<1> USE DebugLibAssumption
<1>1. TypeOK'
  BY DEF IInv, TypeOK, Throw, mainVars
<1>2. Called'
  BY DEF IInv, TypeOK, Called, Throw, mainVars
<1>3. Locked'
  <2>1. None \notin Thread
    BY DEF Thread
  <2> QED
    BY <2>1 DEF IInv, TypeOK, Locked, Throw
<1>4. Undisturbed' /\ Flushing'
  BY DEF Undisturbed, Flushing, mainVars
<1> QED
  BY <1>1, <1>2, <1>3, <1>4 DEF IInv

\* The end of the lock statement leaves nothing in the buffer of the log.
LEMMA LeaveKeeps ==
  ASSUME IInv, NEW t \in Thread, pc[t] \notin {"idle", "lock"}, Leave(t),
         writer' \in [Writer -> Stream],
         \A w \in Writer : /\ writer'[w].buffer = writer[w].buffer
                           /\ writer'[w].held = writer[w].held
                           /\ writer'[w].open = writer[w].open,
         ~disposed /\ s_writer # None => writer[s_writer].buffer = <<>>,
         UNCHANGED <<said, mainVars, steady>>
  PROVE  IInv'
<1> USE DebugLibAssumption
<1>1. calls[t] \in 1..2
  BY DEF IInv, TypeOK, Called
<1>2. TypeOK'
  BY <1>1 DEF IInv, TypeOK, Leave, mainVars
<1>3. Called'
  BY <1>1 DEF IInv, TypeOK, Called, Leave, mainVars
<1>4. Locked'
  <2>1. None \notin Thread
    BY DEF Thread
  <2> QED
    BY <2>1 DEF IInv, TypeOK, Locked, Leave
<1>5. Undisturbed'
  <2> SUFFICES ASSUME ~disposed PROVE Undisturbed'
    BY DEF Undisturbed, mainVars
  <2>1. \A u \in Thread : pc'[u] # "idle" => pc[u] # "idle"
    BY DEF IInv, TypeOK, Leave
  <2>2. \A u \in Thread : pc'[u] \in {"append", "drain"} =>
          pc[u] = pc'[u] /\ this'[u] = this[u] /\ this[u] \in Writer
    BY DEF IInv, TypeOK, Called, Leave
  <2>3. \A w \in Writer : Usable(w) => Usable(w)'
    BY DEF Usable
  <2>4. s_writer # None => s_writer \in Writer
    BY DEF IInv, TypeOK
  <2> QED
    BY <2>1, <2>2, <2>3, <2>4 DEF IInv, Undisturbed, mainVars, Leave
<1>6. Flushing'
  BY DEF IInv, TypeOK, Flushing, mainVars
<1> QED
  BY <1>2, <1>3, <1>4, <1>5, <1>6 DEF IInv

\* The thread takes the lock.
LEMMA EnterKeeps ==
  ASSUME IInv, NEW t \in Thread, Enter(t), UNCHANGED <<mainVars, steady>>
  PROVE  IInv'
<1> USE DebugLibAssumption
<1>1. None \notin Thread
  BY DEF Thread
<1>2. TypeOK' /\ Called'
  BY DEF IInv, TypeOK, Called, Enter, mainVars
<1>3. Locked'
  BY <1>1 DEF IInv, TypeOK, Locked, Enter
<1>4. Undisturbed'
  BY DEF IInv, TypeOK, Undisturbed, Usable, Enter, mainVars
<1>5. Flushing'
  BY <1>1 DEF IInv, Flushing, Enter, mainVars
<1> QED
  BY <1>2, <1>3, <1>4, <1>5 DEF IInv

\* The thread goes on behind Enter, in a DebugWriter that is usable unless a
\* Dispose has begun.
LEMMA GotoKeeps ==
  ASSUME IInv, NEW t \in Thread, pc[t] \notin {"idle", "lock"},
         NEW l \in {"append", "measure", "flush", "drain", "reset"}, NEW w \in Writer \cup {None},
         Goto(t, l, w),
         l = "flush" \/ w # None,
         ~disposed /\ l \in {"append", "drain"} => Usable(w),
         writer' \in [Writer -> Stream],
         \A v \in Writer : writer'[v].held = writer[v].held /\ writer'[v].open = writer[v].open,
         UNCHANGED <<said, mainVars, steady>>,
         Flushing'
  PROVE  IInv'
<1> USE DebugLibAssumption
<1>1. l \notin {"idle", "lock"} /\ l \in {"append", "measure", "flush", "drain", "reset"}
  OBVIOUS
<1>2. TypeOK'
  BY <1>1 DEF IInv, TypeOK, Goto, mainVars
<1>3. Called'
  BY <1>1 DEF IInv, TypeOK, Called, Goto, mainVars
<1>4. Locked'
  BY <1>1 DEF IInv, TypeOK, Locked, Goto
<1>5. Undisturbed'
  <2> SUFFICES ASSUME ~disposed PROVE Undisturbed'
    BY DEF Undisturbed, mainVars
  <2>1. \A u \in Thread : pc'[u] # "idle" => pc[u] # "idle"
    BY <1>1 DEF IInv, TypeOK, Goto
  <2>2. \A v \in Writer : Usable(v) => Usable(v)'
    BY DEF Usable
  <2>3. \A u \in Thread : pc'[u] \in {"append", "drain"} => Usable(this'[u])
    BY <1>1 DEF IInv, TypeOK, Undisturbed, Goto
  <2>4. \A u \in Thread : pc'[u] \in {"append", "drain"} => this'[u] \in Writer
    BY <1>3, <1>2 DEF Called, TypeOK
  <2>5. \A u \in Thread : pc'[u] \in {"append", "drain"} => Usable(this[u])'
    BY <2>2, <2>3, <2>4 DEF Usable
  <2>6. s_writer # None => s_writer \in Writer
    BY DEF IInv, TypeOK
  <2> QED
    BY <2>1, <2>2, <2>5, <2>6 DEF IInv, Undisturbed, mainVars, Goto
<1> QED
  BY <1>2, <1>3, <1>4, <1>5 DEF IInv

\* Who holds the lock is the only one who can be flushing.
LEMMA BufferIsEmpty ==
  ASSUME IInv, NEW t \in Thread, pc[t] \notin {"idle", "lock"}, ~disposed, s_writer # None,
         writer[s_writer].buffer # <<>>
  PROVE  \/ pc[t] \in {"measure", "drain"} /\ this[t] = s_writer
         \/ pc[t] = "flush" /\ writer[s_writer].length = 1
<1>1. lock = t
  BY DEF IInv, Locked
<1> QED
  BY <1>1 DEF IInv, Flushing

-----------------------------------------------------------------------------
(* The callback, step by step.                                             *)

LEMMA WriteKeeps ==
  ASSUME IInv, NEW t \in Thread, Write(t), UNCHANGED <<mainVars, steady>>
  PROVE  IInv'
<1>1. pc[t] \notin {"idle", "lock"} /\ pc[t] = "write" /\ writer' = writer /\ said' = said
  BY DEF Write
<1>2. writer' \in [Writer -> Stream]
  BY <1>1 DEF IInv, TypeOK
<1>3. CASE s_writer = None
  <2>1. Throw(t) /\ disposed
    BY <1>1, <1>3 DEF Write, IInv, Undisturbed
  <2> QED
    BY <1>1, <2>1, ThrowKeeps
<1>4. CASE s_writer # None
  <2>1. PICK l \in {"append", "measure"} : Goto(t, l, s_writer)
                                        /\ l = IF writer[s_writer].held THEN "append" ELSE "measure"
    BY <1>4 DEF Write
  <2>2. s_writer \in Writer
    BY <1>4 DEF IInv, TypeOK
  <2>3. ~disposed => Usable(s_writer)
    BY <1>4 DEF IInv, Undisturbed
  <2>4. Flushing'
    <3> SUFFICES ASSUME ~disposed, writer[s_writer].buffer # <<>> PROVE FALSE
      BY <1>1 DEF Flushing, mainVars
    <3> QED
      BY <1>1, <1>4, BufferIsEmpty
  <2> QED
    BY <1>1, <1>2, <1>4, <2>1, <2>2, <2>3, <2>4, GotoKeeps
<1> QED
  BY <1>3, <1>4

LEMMA WriteLineKeeps ==
  ASSUME IInv, NEW t \in Thread, WriteLine(t), UNCHANGED <<mainVars, steady>>
  PROVE  IInv'
<1>1. pc[t] \notin {"idle", "lock"} /\ pc[t] = "append" /\ said' = said
  BY DEF WriteLine
<1>2. this[t] \in Writer
  BY <1>1 DEF IInv, TypeOK, Called
<1>3. CASE ~Usable(this[t])
  <2>1. Throw(t) /\ disposed /\ writer' = writer
    BY <1>1, <1>3 DEF WriteLine, IInv, Undisturbed
  <2> QED
    BY <1>1, <2>1, ThrowKeeps
<1>4. CASE Usable(this[t])
  <2> PICK w \in Writer : w = this[t]
    BY <1>2
  <2> DEFINE line == [thread |-> t, n |-> said[t]]
  <2>1. writer' = [writer EXCEPT ![w].buffer = Append(@, line)] /\ Goto(t, "measure", w)
    BY <1>4 DEF WriteLine
  <2>2. writer \in [Writer -> Stream] /\ line \in Line
    BY DEF IInv, TypeOK, Line
  <2>3. Append(writer[w].buffer, line) \in Seq(Line)
    BY <2>2 DEF Stream
  <2>7. /\ [writer[w] EXCEPT !.buffer = Append(@, line)] \in Stream
        /\ writer' = [writer EXCEPT ![w] = [writer[w] EXCEPT !.buffer = Append(@, line)]]
    BY <2>1, <2>2, <2>3 DEF Stream
  <2>4. /\ writer' \in [Writer -> Stream]
        /\ \A v \in Writer : writer'[v].held = writer[v].held /\ writer'[v].open = writer[v].open
        /\ \A v \in Writer \ {w} : writer'[v] = writer[v]
    BY <2>2, <2>7 DEF Stream
  <2>5. Flushing'
    <3> SUFFICES ASSUME ~disposed, s_writer # None, writer'[s_writer].buffer # <<>>
                 PROVE  lock' = t /\ pc'[t] = "measure" /\ this'[t] = s_writer
      BY DEF Flushing, mainVars
    <3>1. s_writer \in Writer
      BY DEF IInv, TypeOK
    <3>2. writer[s_writer].buffer = <<>>
      BY <1>1, BufferIsEmpty
    <3>3. s_writer = w
      BY <2>4, <3>1, <3>2
    <3> QED
      BY <1>1, <2>1, <3>3 DEF Goto, IInv, TypeOK, Locked
  <2>6. w # None
    BY DebugLibAssumption
  <2> QED
    BY <1>1, <2>1, <2>4, <2>5, <2>6, GotoKeeps
<1> QED
  BY <1>3, <1>4

LEMMA MeasureKeeps ==
  ASSUME IInv, NEW t \in Thread, Measure(t), UNCHANGED <<mainVars, steady>>
  PROVE  IInv'
<1>1. pc[t] \notin {"idle", "lock"} /\ pc[t] = "measure" /\ said' = said
  BY DEF Measure
<1>2. this[t] \in Writer /\ writer \in [Writer -> Stream]
  BY <1>1 DEF IInv, TypeOK, Called
<1>3. writer' = [writer EXCEPT ![this[t]].length = 1] /\ Goto(t, "flush", None)
  BY DEF Measure
<1>4. /\ writer' \in [Writer -> Stream]
      /\ \A v \in Writer : /\ writer'[v].held = writer[v].held /\ writer'[v].open = writer[v].open
                           /\ writer'[v].buffer = writer[v].buffer
      /\ writer'[this[t]].length = 1
  BY <1>2, <1>3 DEF Stream
<1>5. Flushing'
  <2> SUFFICES ASSUME ~disposed, s_writer # None, writer'[s_writer].buffer # <<>>
               PROVE  lock' = t /\ pc'[t] = "flush" /\ writer'[s_writer].length = 1
    BY DEF Flushing, mainVars
  <2>1. writer[s_writer].buffer # <<>>
    BY <1>4 DEF IInv, TypeOK
  <2>2. this[t] = s_writer
    BY <1>1, <2>1, BufferIsEmpty
  <2> QED
    BY <1>1, <1>3, <1>4, <2>2 DEF Goto, IInv, TypeOK, Locked
<1> QED
  BY <1>1, <1>3, <1>4, <1>5, GotoKeeps

LEMMA FlushKeeps ==
  ASSUME IInv, NEW t \in Thread, Flush(t), UNCHANGED <<mainVars, steady>>
  PROVE  IInv'
<1>1. /\ pc[t] \notin {"idle", "lock"} /\ pc[t] = "flush" /\ said' = said /\ writer' = writer
      /\ writer' \in [Writer -> Stream]
  BY DEF Flush, IInv, TypeOK
<1>2. CASE s_writer = None
  <2>1. Throw(t) /\ disposed
    BY <1>1, <1>2 DEF Flush, IInv, Undisturbed
  <2> QED
    BY <1>1, <2>1, ThrowKeeps
<1>3. CASE s_writer # None /\ writer[s_writer].held /\ writer[s_writer].length > 0
  <2>1. Goto(t, "drain", s_writer) /\ s_writer \in Writer
    BY <1>3 DEF Flush, IInv, TypeOK
  <2>2. ~disposed => Usable(s_writer)
    BY <1>3 DEF IInv, Undisturbed
  <2>3. Flushing'
    BY <1>1, <2>1 DEF Flushing, Goto, IInv, TypeOK, Locked, mainVars
  <2> QED
    BY <1>1, <1>3, <2>1, <2>2, <2>3, GotoKeeps
<1>4. CASE s_writer # None /\ ~(writer[s_writer].held /\ writer[s_writer].length > 0)
  <2>1. Leave(t)
    BY <1>4 DEF Flush
  <2>2. ~disposed => writer[s_writer].buffer = <<>>
    <3> SUFFICES ASSUME ~disposed, writer[s_writer].buffer # <<>> PROVE FALSE
      OBVIOUS
    <3>1. writer[s_writer].length = 1
      BY <1>1, <1>4, BufferIsEmpty
    <3>2. writer[s_writer].held
      BY <1>4 DEF IInv, Undisturbed, Usable
    <3> QED
      BY <1>4, <3>1, <3>2
  <2> QED
    BY <1>1, <2>1, <2>2, LeaveKeeps
<1> QED
  BY <1>2, <1>3, <1>4

LEMMA DrainedIsStream ==
  ASSUME IInv, NEW w \in Writer
  PROVE  /\ Drained(w) \in [Writer -> Stream]
         /\ Drained(w)[w].buffer = <<>>
         /\ \A v \in Writer : Drained(w)[v].held = writer[v].held /\ Drained(w)[v].open = writer[v].open
         /\ \A v \in Writer \ {w} : Drained(w)[v] = writer[v]
         /\ Drained(w)[w].length = writer[w].length
<1>1. writer \in [Writer -> Stream]
  BY DEF IInv, TypeOK
<1>2. writer[w].file \o writer[w].buffer \in Seq(Line) /\ <<>> \in Seq(Line)
  BY <1>1 DEF Stream
<1> QED
  BY <1>1, <1>2 DEF Drained, Stream

LEMMA FlushStreamKeeps ==
  ASSUME IInv, NEW t \in Thread, FlushStream(t), UNCHANGED <<mainVars, steady>>
  PROVE  IInv'
<1>1. pc[t] \notin {"idle", "lock"} /\ pc[t] = "drain" /\ said' = said
  BY DEF FlushStream
<1>2. this[t] \in Writer
  BY <1>1 DEF IInv, TypeOK, Called
<1>3. CASE ~Usable(this[t])
  <2>1. Throw(t) /\ disposed /\ writer' = writer
    BY <1>1, <1>3 DEF FlushStream, IInv, Undisturbed
  <2> QED
    BY <1>1, <2>1, ThrowKeeps
<1>4. CASE Usable(this[t])
  <2> PICK w \in Writer : w = this[t]
    BY <1>2
  <2>1. writer' = Drained(w) /\ Goto(t, "reset", w)
    BY <1>4 DEF FlushStream
  <2>2. /\ writer' \in [Writer -> Stream] /\ writer'[w].buffer = <<>>
        /\ \A v \in Writer : writer'[v].held = writer[v].held /\ writer'[v].open = writer[v].open
        /\ \A v \in Writer \ {w} : writer'[v] = writer[v]
    BY <2>1, DrainedIsStream
  <2>3. Flushing'
    <3> SUFFICES ASSUME ~disposed, s_writer # None, writer'[s_writer].buffer # <<>> PROVE FALSE
      BY DEF Flushing, mainVars
    <3>1. s_writer \in Writer \ {w}
      BY <2>2 DEF IInv, TypeOK
    <3> QED
      BY <1>1, <2>2, <3>1, BufferIsEmpty
  <2> QED
    <3>1. w # None
      BY DebugLibAssumption
    <3> QED
      BY <1>1, <2>1, <2>2, <2>3, <3>1, GotoKeeps
<1> QED
  BY <1>3, <1>4

LEMMA ResetLengthKeeps ==
  ASSUME IInv, NEW t \in Thread, ResetLength(t), UNCHANGED <<mainVars, steady>>
  PROVE  IInv'
<1>1. pc[t] \notin {"idle", "lock"} /\ pc[t] = "reset" /\ said' = said /\ Leave(t)
  BY DEF ResetLength
<1>2. this[t] \in Writer /\ writer \in [Writer -> Stream]
  BY <1>1 DEF IInv, TypeOK, Called
<1>3. /\ writer' \in [Writer -> Stream]
      /\ \A w \in Writer : /\ writer'[w].buffer = writer[w].buffer
                           /\ writer'[w].held = writer[w].held /\ writer'[w].open = writer[w].open
  BY <1>2 DEF ResetLength, Stream
<1>4. ~disposed /\ s_writer # None => writer[s_writer].buffer = <<>>
  BY <1>1, BufferIsEmpty
<1> QED
  BY <1>1, <1>3, <1>4, LeaveKeeps

LEMMA LogCallbackKeeps ==
  ASSUME IInv, NEW t \in Thread, LogCallback(t)
  PROVE  IInv'
BY EnterKeeps, WriteKeeps, WriteLineKeeps, MeasureKeeps, FlushKeeps, FlushStreamKeeps,
   ResetLengthKeeps DEF LogCallback

-----------------------------------------------------------------------------
(* Startup, Release and Dispose.                                           *)

\* Steps of the main thread touch no callback, and no buffer but to empty it.
\* What is left to show of each is its type, Called and Undisturbed.
LEMMA MainStepKeeps ==
  ASSUME IInv, UNCHANGED callVars, TypeOK',
         main' \in {"clear", "drain", "close", "drop"} => s_writer' # None,
         Undisturbed',
         ~disposed' => \/ s_writer' # None /\ writer'[s_writer'].buffer = <<>>
                       \/ UNCHANGED <<s_writer, writer>>,
         disposed => disposed'
  PROVE  IInv'
<1>1. Called' /\ Locked'
  BY DEF IInv, Called, Locked, callVars
<1>2. Flushing'
  <2>1. CASE disposed'
    BY <2>1 DEF Flushing
  <2>2. CASE ~disposed' /\ UNCHANGED <<s_writer, writer>>
    BY <2>2 DEF IInv, Flushing, callVars
  <2>3. CASE ~disposed' /\ s_writer' # None /\ writer'[s_writer'].buffer = <<>>
    BY <2>3 DEF Flushing
  <2> QED
    BY <2>1, <2>2, <2>3
<1> QED
  BY <1>1, <1>2 DEF IInv

LEMMA StartupOpensKeeps ==
  ASSUME IInv, StartupOpens
  PROVE  IInv'
<1> USE DebugLibAssumption
<1>1. PICK w \in Writer :
        /\ writer' = [writer EXCEPT ![w].held = TRUE, ![w].open = TRUE]
        /\ writer[w] = NoStream /\ s_writer' = w
  BY DEF StartupOpens
<1>2. /\ main' = "subscribe" /\ UNCHANGED callVars
      /\ UNCHANGED <<subscribed, releasing, failures, disposed, steady>>
  BY DEF StartupOpens, MainStep
<1>3. writer' \in [Writer -> Stream]
  <2>1. writer \in [Writer -> Stream] /\ writer[w] \in Stream
    BY <1>1 DEF IInv, TypeOK
  <2>2. /\ [writer[w] EXCEPT !.held = TRUE, !.open = TRUE] \in Stream
        /\ writer' = [writer EXCEPT ![w] = [writer[w] EXCEPT !.held = TRUE, !.open = TRUE]]
    BY <1>1, <2>1 DEF Stream
  <2> QED
    BY <2>1, <2>2
<1>4. TypeOK'
  BY <1>1, <1>2, <1>3 DEF IInv, TypeOK, callVars
<1>5. /\ writer'[w].held /\ writer'[w].open /\ writer'[w].buffer = <<>>
      /\ \A v \in Writer : writer[v].held /\ writer[v].open => writer'[v].held /\ writer'[v].open
  BY <1>1 DEF IInv, TypeOK, Stream, NoStream
<1>6. Undisturbed'
  <2> SUFFICES ASSUME ~disposed PROVE Undisturbed'
    BY <1>2 DEF Undisturbed
  <2>1. \A t \in Thread : pc[t] \in {"append", "drain"} => this[t] \in Writer /\ Usable(this[t])
    BY DEF IInv, TypeOK, Called, Undisturbed
  <2>2. \A t \in Thread : pc[t] \in {"append", "drain"} => Usable(this[t])'
    BY <1>2, <1>5, <2>1 DEF Usable, callVars
  <2> QED
    BY <1>1, <1>2, <1>5, <2>2 DEF IInv, Undisturbed, Usable, callVars
<1> QED
  BY <1>1, <1>2, <1>4, <1>5, <1>6, MainStepKeeps

LEMMA StartupRestKeeps ==
  ASSUME IInv, Unsubscribe \/ Subscribe \/ StartupFails \/ Discard
  PROVE  IInv'
<1> USE DebugLibAssumption
<1>1. UNCHANGED <<callVars, s_writer, writer, disposed, releasing>>
  BY DEF Unsubscribe, Subscribe, StartupFails, Discard, MainStep
<1>2. TypeOK'
  <2>1. CASE Unsubscribe \/ Subscribe
    <3>1. subscribed' \subseteq {"received", "threaded"}
      BY <2>1 DEF IInv, TypeOK, Unsubscribe, Subscribe
    <3>2. main' \in {"run", "resubscribe"} /\ UNCHANGED <<failures, steady>>
      BY <2>1 DEF Unsubscribe, Subscribe, MainStep
    <3> QED
      BY <1>1, <3>1, <3>2 DEF IInv, TypeOK, callVars
  <2>2. CASE StartupFails
    <3>1. failures' \in 0..MaxFailures /\ main' = "warn" /\ UNCHANGED subscribed
      BY <2>2 DEF IInv, TypeOK, StartupFails, MainStep
    <3>2. UNCHANGED steady
      BY <2>2 DEF StartupFails
    <3> QED
      BY <1>1, <3>1, <3>2 DEF IInv, TypeOK, callVars
  <2>3. CASE Discard
    <3>1. main' \in {"clear", "run"} /\ UNCHANGED <<subscribed, failures, steady>>
      BY <2>3 DEF Discard, MainStep
    <3> QED
      BY <1>1, <3>1 DEF IInv, TypeOK, callVars
  <2> QED
    BY <2>1, <2>2, <2>3
<1>3. main' \in {"clear", "drain", "close", "drop"} => s_writer' # None
  BY <1>1 DEF Unsubscribe, Subscribe, StartupFails, Discard, MainStep
<1>4. Undisturbed'
  BY <1>1 DEF IInv, Undisturbed, Usable, callVars, Unsubscribe, Subscribe, StartupFails, Discard,
              MainStep
<1> QED
  BY <1>1, <1>2, <1>3, <1>4, MainStepKeeps

LEMMA ReleaseKeeps ==
  ASSUME IInv, Release \/ ForgetWriter
  PROVE  IInv'
<1> USE DebugLibAssumption
<1>1. UNCHANGED <<callVars, writer, disposed, subscribed>>
  BY DEF Release, ForgetWriter, MainStep
<1>2. TypeOK'
  BY <1>1 DEF IInv, TypeOK, callVars, Release, ForgetWriter, MainStep
<1>3. main' \in {"clear", "drain", "close", "drop"} => s_writer' # None
  BY <1>1 DEF Release, ForgetWriter, MainStep
<1>4. Undisturbed'
  BY <1>1 DEF IInv, Undisturbed, Usable, callVars, Release, ForgetWriter, MainStep
<1>5. ~disposed' => UNCHANGED <<s_writer, writer>>
  BY <1>1 DEF IInv, Undisturbed, Release, ForgetWriter, MainStep
<1> QED
  BY <1>1, <1>2, <1>3, <1>4, <1>5, MainStepKeeps

LEMMA DisposeKeeps ==
  ASSUME IInv, Dispose
  PROVE  IInv'
<1> USE DebugLibAssumption
<1>1. /\ UNCHANGED <<callVars, s_writer, subscribed, releasing, failures>>
      /\ main \in {"clear", "drain", "close", "drop"}
      /\ main' \in {"drain", "close", "drop", "forget", "run"}
  BY DEF Dispose, ClearLength, CloseDrains, Close, DropStream, MainStep
<1>2. s_writer \in Writer /\ s_writer # None /\ writer \in [Writer -> Stream]
  BY <1>1 DEF IInv, TypeOK, Called
<1>3. disposed'
  BY DEF IInv, Undisturbed, Dispose, ClearLength, CloseDrains, Close, DropStream, MainStep
<1>4. writer' \in [Writer -> Stream]
  <2>1. CASE ClearLength
    <3>1. writer' = [writer EXCEPT ![s_writer].length = 0]
      BY <2>1 DEF ClearLength
    <3> QED
      BY <1>2, <3>1 DEF Stream
  <2>3. CASE Close
    <3>1. writer' = [writer EXCEPT ![s_writer].open = FALSE]
      BY <2>3 DEF Close
    <3> QED
      BY <1>2, <3>1 DEF Stream
  <2>4. CASE DropStream
    <3>1. writer' = [writer EXCEPT ![s_writer].held = FALSE]
      BY <2>4 DEF DropStream
    <3> QED
      BY <1>2, <3>1 DEF Stream
  <2>2. CASE CloseDrains
    BY <1>2, <2>2, DrainedIsStream DEF CloseDrains
  <2> QED
    BY <2>1, <2>2, <2>3, <2>4 DEF Dispose
<1>6. steady' \in [Thread -> BOOLEAN]
  <2>1. /\ steady \in [Thread -> BOOLEAN]
        /\ UNCHANGED steady \/ steady' = [t \in Thread |-> steady[t] /\ pc[t] = "idle"]
    BY DEF IInv, TypeOK, Dispose, ClearLength, CloseDrains, Close, DropStream
  <2> QED
    BY <2>1
<1>5. TypeOK'
  BY <1>1, <1>3, <1>4, <1>6 DEF IInv, TypeOK, callVars
<1> QED
  BY <1>1, <1>2, <1>3, <1>5, MainStepKeeps DEF Undisturbed

LEMMA InvNext == IInv /\ [Next]_vars => IInv'
<1> SUFFICES ASSUME IInv, [Next]_vars PROVE IInv'
  OBVIOUS
<1>1. CASE \E t \in Thread : Log(t)
  BY <1>1, RaiseKeeps DEF Log, mainVars
<1>2. CASE \E t \in Thread : LogCallback(t)
  BY <1>2, LogCallbackKeeps
<1>3. CASE LogWarning
  <2>1. Main \in Thread
    BY DEF Thread
  <2> QED
    BY <1>3, <2>1, RaiseKeeps DEF LogWarning
<1>4. CASE StartupOpens
  BY <1>4, StartupOpensKeeps
<1>5. CASE Unsubscribe \/ Subscribe \/ StartupFails \/ Discard
  BY <1>5, StartupRestKeeps
<1>6. CASE Release \/ ForgetWriter
  BY <1>6, ReleaseKeeps
<1>7. CASE Dispose
  BY <1>7, DisposeKeeps
<1>8. CASE UNCHANGED vars
  BY <1>8 DEF vars, mainVars, callVars, IInv, TypeOK, Called, Locked, Undisturbed, Usable, Flushing
<1> QED
  BY <1>1, <1>2, <1>3, <1>4, <1>5, <1>6, <1>7, <1>8 DEF Next, Startup

LEMMA InvAlways == Spec => []IInv
BY InitIsSound, InvNext, PTL DEF Spec

-----------------------------------------------------------------------------
\* Every variable of the log keeps its type, with any number of threads.
THEOREM LogTypeCorrect == Spec => []TypeOK
<1>1. IInv => TypeOK
  BY DEF IInv
<1> QED
  BY <1>1, InvAlways, PTL

\* LogCallback throws only when Release or a failed Startup has disposed of the
\* writer: before that, s_writer and its stream are there whenever it reads them.
THEOREM CallbackThrowsLate == Spec => []ThrowsOnlyAfterDispose
<1>1. IInv => ThrowsOnlyAfterDispose
  BY DEF IInv, Undisturbed, ThrowsOnlyAfterDispose
<1> QED
  BY <1>1, InvAlways, PTL

\* The lock statement of LogCallback lets one thread in, however callbacks end.
THEOREM LockExcludes ==
  Spec => [](\A t, u \in Thread :
               pc[t] \notin {"idle", "lock"} /\ pc[u] \notin {"idle", "lock"} => t = u)
<1>1. IInv => \A t, u \in Thread :
                pc[t] \notin {"idle", "lock"} /\ pc[u] \notin {"idle", "lock"} => t = u
  BY DEF IInv, Locked
<1> QED
  BY <1>1, InvAlways, PTL

\* Outside the lock statement DebugWriter has no line in its buffer that it has
\* not flushed, as long as nothing was disposed of.
THEOREM EveryLineIsFlushed == Spec => []NothingBuffered
<1>1. IInv => NothingBuffered
  <2>1. None \notin Thread
    BY DebugLibAssumption DEF Thread
  <2> QED
    BY <2>1 DEF IInv, Flushing, NothingBuffered
<1> QED
  BY <1>1, InvAlways, PTL

-----------------------------------------------------------------------------
(* The lines of the log. Counting the occurrences of a line.               *)

LEMMA OccursIsNat ==
  ASSUME NEW S, NEW s \in Seq(S), NEW x
  PROVE  IsFiniteSet({i \in DOMAIN s : s[i] = x}) /\ Occurs(s, x) \in Nat
<1>1. Len(s) \in Nat /\ DOMAIN s = 1..Len(s)
  OBVIOUS
<1>2. IsFiniteSet(1..Len(s))
  BY <1>1, FS_Interval
<1>3. {i \in DOMAIN s : s[i] = x} \in SUBSET (1..Len(s))
  BY <1>1
<1> QED
  BY <1>2, <1>3, FS_Subset, FS_CardinalityType DEF Occurs

LEMMA OccursAppend ==
  ASSUME NEW S, NEW s \in Seq(S), NEW y \in S, NEW x
  PROVE  Occurs(Append(s, y), x) = Occurs(s, x) + (IF y = x THEN 1 ELSE 0)
<1> DEFINE at == {i \in DOMAIN s : s[i] = x}
           new == {i \in DOMAIN Append(s, y) : Append(s, y)[i] = x}
<1>1. IsFiniteSet(at) /\ Cardinality(at) \in Nat
  BY OccursIsNat DEF Occurs
<1>2. /\ Len(s) \in Nat /\ DOMAIN s = 1..Len(s) /\ DOMAIN Append(s, y) = 1..(Len(s) + 1)
      /\ \A i \in 1..Len(s) : Append(s, y)[i] = s[i]
      /\ Append(s, y)[Len(s) + 1] = y
  OBVIOUS
<1>3. y # x => new = at
  BY <1>2
<1>4. y = x => new = at \cup {Len(s) + 1}
  BY <1>2
<1>5. Len(s) + 1 \notin at
  BY <1>2
<1>6. y = x => Cardinality(new) = Cardinality(at) + 1
  BY <1>1, <1>4, <1>5, FS_AddElement
<1>7. Occurs(Append(s, y), x) = Cardinality(new) /\ Occurs(s, x) = Cardinality(at)
  BY DEF Occurs
<1> HIDE DEF at, new
<1> QED
  BY <1>1, <1>3, <1>6, <1>7

LEMMA OccursNowhere ==
  ASSUME NEW s, NEW x, \A i \in DOMAIN s : s[i] # x
  PROVE  Occurs(s, x) = 0
<1>1. {i \in DOMAIN s : s[i] = x} = {}
  OBVIOUS
<1> QED
  BY <1>1, FS_EmptySet DEF Occurs

LEMMA AppendToBuffer ==
  ASSUME NEW S, NEW a \in Seq(S), NEW b \in Seq(S), NEW y \in S
  PROVE  a \o Append(b, y) = Append(a \o b, y)
OBVIOUS

\* What a thread may write: a line for each of its events.
LEMMA EventsOfThread ==
  ASSUME NEW t
  PROVE  /\ Cardinality(Events(t)) \in 1..2
         /\ \A S : Cardinality(S \cap Events(t)) \in 0..Cardinality(Events(t))
         /\ {"received", "threaded"} \cap Events(t) = Events(t)
<1>1. {"received", "threaded"} \cap Events(t) = Events(t) /\ "threaded" \in Events(t)
  BY DEF Events
<1>2. Cardinality(Events(t)) \in 0..2
  BY <1>1, EventCount
<1>3. IsFiniteSet(Events(t))
  <2>1. IsFiniteSet({"threaded"}) /\ IsFiniteSet({"threaded"} \cup {"received"})
    BY FS_Singleton, FS_AddElement
  <2>2. Events(t) \in SUBSET ({"threaded"} \cup {"received"})
    BY DEF Events
  <2> QED
    BY <2>1, <2>2, FS_Subset
<1>4. Cardinality(Events(t)) # 0
  BY <1>1, <1>3, FS_EmptySet
<1>5. \A S : /\ IsFiniteSet(S \cap Events(t))
             /\ Cardinality(S \cap Events(t)) <= Cardinality(Events(t))
  <2> TAKE S
  <2>1. S \cap Events(t) \in SUBSET Events(t)
    OBVIOUS
  <2> QED
    BY <1>3, <2>1, FS_Subset
<1>6. \A S : Cardinality(S \cap Events(t)) \in Nat
  BY <1>5, FS_CardinalityType
<1> QED
  BY <1>1, <1>2, <1>4, <1>5, <1>6

LEMMA LineTypes ==
  ASSUME TypeOK
  PROVE  /\ \A t \in Thread : LineOf(t) \in Line /\ LineOf(t).thread = t /\ LineOf(t).n = said[t]
         /\ \A t, u \in Thread : t # u => LineOf(t) # LineOf(u)
         /\ \A w \in Writer : /\ writer[w].file \in Seq(Line) /\ writer[w].buffer \in Seq(Line)
                              /\ Written(w) \in Seq(Line)
         /\ \A t \in Thread, w \in Writer : Occurs(Written(w), LineOf(t)) \in Nat
<1>1. /\ \A t \in Thread : LineOf(t) \in Line /\ LineOf(t).thread = t /\ LineOf(t).n = said[t]
      /\ \A t, u \in Thread : t # u => LineOf(t) # LineOf(u)
  BY DEF TypeOK, LineOf, Line
<1>2. \A w \in Writer : writer[w].file \in Seq(Line) /\ writer[w].buffer \in Seq(Line)
  BY DEF TypeOK, Stream
<1>3. \A w \in Writer : Written(w) \in Seq(Line)
  BY <1>2 DEF Written
<1> QED
  BY <1>1, <1>2, <1>3, OccursIsNat

LEMMA LeftIsInt ==
  ASSUME TypeOK, Called, NEW t \in Thread
  PROVE  Left(t) \in Nat /\ calls[t] \in 0..2 /\ (pc[t] # "idle" => calls[t] \in 1..2)
BY DEF TypeOK, Called, Left

\* A step that writes nothing and lets no thread write more keeps the order.
LEMMA UnwrittenKeeps ==
  ASSUME IInv, IInv', InOrder, Recent, said' = said,
         \A w \in Writer : Written(w)' = Written(w),
         \A t \in Thread : Left(t)' <= Left(t)
  PROVE  InOrder' /\ Recent'
<1>1. InOrder'
  BY DEF InOrder, Occurs
<1>2. ASSUME NEW w \in Writer, NEW t \in Thread
      PROVE  Occurs(Written(w), LineOf(t))' + Left(t)' <= Cardinality(Events(t))
  <2>1. Occurs(Written(w), LineOf(t))' = Occurs(Written(w), LineOf(t))
    BY DEF Occurs, LineOf
  <2>2. Occurs(Written(w), LineOf(t)) + Left(t) <= Cardinality(Events(t))
    BY DEF Recent
  <2>3. /\ Occurs(Written(w), LineOf(t)) \in Nat /\ Left(t) \in Nat /\ Left(t)' \in Nat
        /\ Cardinality(Events(t)) \in 1..2
    <3>1. TypeOK /\ Called /\ TypeOK' /\ Called'
      BY DEF IInv
    <3>2. Left(t) \in Nat
      BY <3>1, LeftIsInt
    <3>3. Left(t)' \in Nat
      BY <3>1 DEF TypeOK, Called, Left
    <3> QED
      BY <3>1, <3>2, <3>3, LineTypes, EventsOfThread
  <2> QED
    BY <2>1, <2>2, <2>3
<1>3. \A w \in Writer : \A i \in DOMAIN Written(w)' : Written(w)'[i].n <= said'[Written(w)'[i].thread]
  BY DEF Recent
<1> QED
  BY <1>1, <1>2, <1>3 DEF Recent

\* The thread writes its line, once more of the times that it may.
LEMMA WrittenKeeps ==
  ASSUME IInv, IInv', InOrder, Recent, said' = said,
         NEW v \in Writer, NEW t \in Thread, Left(t) >= 1,
         Written(v)' = Append(Written(v), LineOf(t)),
         \A w \in Writer \ {v} : Written(w)' = Written(w),
         Left(t)' = Left(t) - 1,
         \A u \in Thread \ {t} : Left(u)' = Left(u)
  PROVE  InOrder' /\ Recent'
<1> DEFINE s == Written(v)
           x == LineOf(t)
           r == Append(s, x)
<1>1. TypeOK /\ Called
  BY DEF IInv
<1>2. s \in Seq(Line) /\ x \in Line /\ x.thread = t /\ x.n = said[t]
  BY <1>1, LineTypes
<1>3. \A u \in Thread : Left(u) \in Nat /\ Cardinality(Events(u)) \in 1..2
  BY <1>1, LeftIsInt, EventsOfThread
<1>4. \A y : Occurs(s, y) \in Nat /\ Occurs(r, y) = Occurs(s, y) + (IF x = y THEN 1 ELSE 0)
  <2> HIDE DEF s, x
  <2> TAKE y
  <2>1. Occurs(r, y) = Occurs(s, y) + (IF x = y THEN 1 ELSE 0)
    BY <1>2, OccursAppend
  <2>2. Occurs(s, y) \in Nat
    BY <1>2, OccursIsNat
  <2> QED
    BY <2>1, <2>2
<1>5. /\ Len(s) \in Nat /\ DOMAIN s = 1..Len(s) /\ DOMAIN r = 1..(Len(s) + 1)
      /\ \A i \in 1..Len(s) : r[i] = s[i] /\ s[i] \in Line
      /\ r[Len(s) + 1] = x
  BY <1>2
<1>6. /\ \A i \in DOMAIN s : s[i].n <= said[s[i].thread]
      /\ \A u \in Thread : Occurs(s, LineOf(u)) + Left(u) <= Cardinality(Events(u))
      /\ \A i, j \in DOMAIN s : i < j /\ s[i].thread = s[j].thread => s[i].n <= s[j].n
      /\ \A i \in DOMAIN s : Occurs(s, s[i]) <= Cardinality(Events(s[i].thread))
  BY DEF Recent, InOrder
<1>7. Occurs(r, x) <= Cardinality(Events(t))
  <2>1. Occurs(s, x) + Left(t) <= Cardinality(Events(t))
    BY <1>6
  <2>2. Occurs(r, x) = Occurs(s, x) + 1 /\ Occurs(s, x) \in Nat
    BY <1>4
  <2> QED
    BY <1>3, <2>1, <2>2
<1>8. \A u \in Thread : LineOf(u)' = LineOf(u)
  BY DEF LineOf
<1>9. \A u \in Thread : u # t => LineOf(u) # x
  BY <1>1, LineTypes
<1> HIDE DEF s, x, r
<1>10. InOrder'
  <2>1. ASSUME NEW w \in Writer \ {v}
        PROVE  /\ \A i, j \in DOMAIN Written(w)' :
                    i < j /\ Written(w)'[i].thread = Written(w)'[j].thread =>
                      Written(w)'[i].n <= Written(w)'[j].n
               /\ \A i \in DOMAIN Written(w)' :
                    Occurs(Written(w)', Written(w)'[i]) <= Cardinality(Events(Written(w)'[i].thread))
    BY DEF InOrder
  <2>2. \A i, j \in DOMAIN r : i < j /\ r[i].thread = r[j].thread => r[i].n <= r[j].n
    <3> TAKE i \in DOMAIN r, j \in DOMAIN r
    <3> HAVE i < j /\ r[i].thread = r[j].thread
    <3>1. i \in 1..Len(s)
      BY <1>5
    <3>2. CASE j \in 1..Len(s)
      BY <1>5, <1>6, <3>1, <3>2
    <3>3. CASE j = Len(s) + 1
      <4>1. r[i] = s[i] /\ r[j] = x /\ s[i].thread = t
        BY <1>2, <1>5, <3>1, <3>3
      <4>2. s[i].n <= said[t]
        BY <1>5, <1>6, <3>1, <4>1
      <4> QED
        BY <1>2, <4>1, <4>2
    <3> QED
      BY <1>5, <3>2, <3>3
  <2>3. \A i \in DOMAIN r : Occurs(r, r[i]) <= Cardinality(Events(r[i].thread))
    <3> TAKE i \in DOMAIN r
    <3>1. CASE r[i] = x
      BY <1>2, <1>7, <3>1
    <3>2. CASE r[i] # x
      <4>1. i \in DOMAIN s /\ r[i] = s[i]
        BY <1>5, <3>2
      <4>2. Occurs(r, r[i]) = Occurs(s, s[i])
        BY <1>4, <3>2, <4>1
      <4> QED
        BY <1>6, <4>1, <4>2
    <3> QED
      BY <3>1, <3>2
  <2>4. Written(v)' = r
    BY DEF r, s, x
  <2>5. ASSUME NEW w \in Writer
        PROVE  /\ \A i, j \in DOMAIN Written(w)' :
                    i < j /\ Written(w)'[i].thread = Written(w)'[j].thread =>
                      Written(w)'[i].n <= Written(w)'[j].n
               /\ \A i \in DOMAIN Written(w)' :
                    Occurs(Written(w)', Written(w)'[i]) <= Cardinality(Events(Written(w)'[i].thread))
    <3>1. CASE w = v
      BY <2>2, <2>3, <2>4, <3>1
    <3> QED
      BY <2>1, <3>1
  <2> QED
    BY <2>5 DEF InOrder, Occurs
<1>11. Recent'
  <2>1. Written(v)' = r
    BY DEF r, s, x
  <2>2. ASSUME NEW w \in Writer, NEW i \in DOMAIN Written(w)'
        PROVE  Written(w)'[i].n <= said'[Written(w)'[i].thread]
    <3>1. CASE w # v
      BY <3>1 DEF Recent
    <3>2. CASE w = v /\ i \in DOMAIN s
      BY <1>5, <1>6, <2>1, <3>2
    <3>3. CASE w = v /\ i \notin DOMAIN s
      <4>1. Written(w)'[i] = x
        BY <1>5, <2>1, <3>3
      <4>2. x.n <= said[x.thread]
        <5>1. said[t] \in Nat
          BY <1>1 DEF TypeOK
        <5> QED
          BY <1>2, <5>1
      <4> QED
        BY <4>1, <4>2
    <3> QED
      BY <3>1, <3>2, <3>3
  <2>3. ASSUME NEW w \in Writer, NEW u \in Thread
        PROVE  Occurs(Written(w)', LineOf(u)) + Left(u)' <= Cardinality(Events(u))
    <3>1. CASE w # v
      <4>1. Occurs(Written(w), LineOf(u)) + Left(u) <= Cardinality(Events(u))
        BY DEF Recent
      <4>2. Left(u)' <= Left(u) /\ Left(u)' \in Int /\ Left(u) \in Int
        BY <1>3
      <4>3. Occurs(Written(w), LineOf(u)) \in Nat
        BY <1>1, LineTypes
      <4>4. Written(w)' = Written(w)
        BY <3>1
      <4> HIDE DEF Written
      <4> QED
        BY <1>3, <4>1, <4>2, <4>3, <4>4
    <3>2. CASE w = v /\ u # t
      <4>1. Occurs(r, LineOf(u)) = Occurs(s, LineOf(u))
        BY <1>4, <1>9, <3>2
      <4> QED
        BY <1>6, <2>1, <3>2, <4>1
    <3>3. CASE w = v /\ u = t
      <4>1. Occurs(r, x) = Occurs(s, x) + 1 /\ Occurs(s, x) \in Nat /\ LineOf(u) = x
        BY <1>4, <3>3 DEF x
      <4>2. Occurs(s, x) + Left(t) <= Cardinality(Events(t))
        BY <1>6 DEF x
      <4> QED
        BY <1>3, <2>1, <3>3, <4>1, <4>2
    <3> QED
      BY <3>1, <3>2, <3>3
  <2>4. ASSUME NEW w \in Writer, NEW u \in Thread
        PROVE  Occurs(Written(w), LineOf(u))' = Occurs(Written(w)', LineOf(u))
    BY <1>8 DEF Occurs
  <2> QED
    BY <2>2, <2>3, <2>4 DEF Recent
<1> QED
  BY <1>10, <1>11

-----------------------------------------------------------------------------
(* What a step of a callback does to the lines.                            *)

\* A step of a thread in LogCallback: nobody else is behind Enter, and no stream
\* is opened, closed or let go of.
LEMMA CallbackIsAlone ==
  ASSUME IInv, NEW t \in Thread, LogCallback(t)
  PROVE  /\ said' = said /\ UNCHANGED <<mainVars, steady>>
         /\ \A u \in Thread \ {t} : /\ pc'[u] = pc[u] /\ this'[u] = this[u] /\ calls'[u] = calls[u]
                                    /\ pc[u] \in {"idle", "lock"}
         /\ \A w \in Writer : writer'[w].held = writer[w].held /\ writer'[w].open = writer[w].open
<1> USE DebugLibAssumption
<1>1. said' = said /\ UNCHANGED <<mainVars, steady>>
  BY DEF LogCallback, Enter, Write, WriteLine, Measure, Flush, FlushStream, ResetLength
<1>2. \A u \in Thread \ {t} : pc'[u] = pc[u] /\ this'[u] = this[u] /\ calls'[u] = calls[u]
  BY DEF LogCallback, Enter, Write, WriteLine, Measure, Flush, FlushStream, ResetLength,
         Throw, Leave, Goto, IInv, TypeOK
<1>3. lock = None \/ lock = t
  BY DEF LogCallback, Enter, Write, WriteLine, Measure, Flush, FlushStream, ResetLength, IInv, Locked
<1>4. \A u \in Thread \ {t} : pc[u] \in {"idle", "lock"}
  <2>1. None \notin Thread
    BY DEF Thread
  <2> QED
    BY <1>3, <2>1 DEF IInv, Locked
<1>5. \A w \in Writer : writer'[w].held = writer[w].held /\ writer'[w].open = writer[w].open
  <2>1. writer \in [Writer -> Stream]
    BY DEF IInv, TypeOK
  <2>2. CASE FlushStream(t)
    <3>1. pc[t] = "drain" /\ this[t] \in Writer
      BY <2>2 DEF FlushStream, IInv, TypeOK, Called
    <3> QED
      BY <2>2, <3>1, DrainedIsStream DEF FlushStream
  <2>3. CASE WriteLine(t) \/ Measure(t) \/ ResetLength(t)
    <3>1. this[t] \in Writer
      BY <2>3 DEF WriteLine, Measure, ResetLength, IInv, TypeOK, Called
    <3>2. PICK v \in Writer : v = this[t]
      BY <3>1
    <3>3. CASE WriteLine(t)
      <4>1. writer' = writer \/ writer' = [writer EXCEPT ![v].buffer = Append(@, LineOf(t))]
        BY <3>2, <3>3 DEF WriteLine, LineOf
      <4>2. CASE writer' = [writer EXCEPT ![v].buffer = Append(@, LineOf(t))]
        BY <2>1, <4>2 DEF Stream
      <4> QED
        BY <4>1, <4>2
    <3>4. CASE Measure(t) \/ ResetLength(t)
      <4>1. PICK k \in {0, 1} : writer' = [writer EXCEPT ![v].length = k]
        BY <3>2, <3>4 DEF Measure, ResetLength
      <4> QED
        BY <2>1, <4>1 DEF Stream
    <3> QED
      BY <2>3, <3>3, <3>4
  <2> QED
    BY <2>2, <2>3 DEF LogCallback, Enter, Write, Flush
<1> QED
  BY <1>1, <1>2, <1>4, <1>5

\* What a flush moves to the file is still written.
LEMMA DrainedIsWritten ==
  ASSUME IInv, NEW w \in Writer, writer' = Drained(w)
  PROVE  \A v \in Writer : Written(v)' = Written(v)
<1>1. writer \in [Writer -> Stream]
  BY DEF IInv, TypeOK
<1>2. ASSUME NEW v \in Writer \ {w} PROVE Written(v)' = Written(v)
  BY <1>1, DrainedIsStream DEF Written
<1>3. writer'[w].file = Written(w) /\ writer'[w].buffer = <<>>
  BY <1>1 DEF Drained, Stream, Written
<1>4. Written(w) \in Seq(Line)
  BY LineTypes DEF IInv
<1>5. Written(w)' = Written(w)
  <2>1. Written(w)' = writer'[w].file \o writer'[w].buffer
    BY DEF Written
  <2> HIDE DEF Written
  <2> QED
    BY <1>3, <1>4, <2>1
<1> QED
  BY <1>2, <1>5

\* All steps but WriteLine leave what is written, and fill no buffer.
LEMMA CallbackWritesElsewhere ==
  ASSUME IInv, NEW t \in Thread, LogCallback(t), ~(WriteLine(t) /\ Usable(this[t]))
  PROVE  /\ \A w \in Writer : Written(w)' = Written(w)
         /\ \A w \in Writer : writer'[w].buffer = writer[w].buffer \/ writer'[w].buffer = <<>>
         /\ Left(t)' <= Left(t)
<1>1. /\ writer \in [Writer -> Stream] /\ calls \in [Thread -> 0..2]
      /\ pc \in [Thread -> {"idle", "lock", "write", "append", "measure", "flush", "drain", "reset"}]
  BY DEF IInv, TypeOK
<1>2. pc[t] # "idle" /\ calls[t] \in 1..2
  <2>1. pc[t] # "idle"
    BY DEF LogCallback, Enter, Write, WriteLine, Measure, Flush, FlushStream, ResetLength
  <2> QED
    BY <2>1, LeftIsInt DEF IInv
<1>3. CASE Enter(t) \/ Write(t) \/ Flush(t) \/ WriteLine(t)
  <2>1. UNCHANGED writer
    BY <1>3 DEF Enter, Write, Flush, WriteLine
  <2>2. Left(t)' <= Left(t)
    <3>1. CASE Enter(t)
      BY <1>1, <1>2, <3>1 DEF Enter, Left
    <3>2. CASE Write(t)
      BY <1>1, <1>2, <3>2 DEF Write, Left, Throw, Goto
    <3>3. CASE Flush(t)
      BY <1>1, <1>2, <3>3 DEF Flush, Left, Throw, Goto, Leave
    <3>4. CASE WriteLine(t)
      BY <1>1, <1>2, <3>4 DEF WriteLine, Left, Throw
    <3> QED
      BY <1>3, <3>1, <3>2, <3>3, <3>4
  <2> QED
    BY <2>1, <2>2 DEF Written
<1>4. CASE Measure(t) \/ ResetLength(t)
  <2>1. PICK w \in Writer, k \in {0, 1} : writer' = [writer EXCEPT ![w].length = k]
    BY <1>4 DEF Measure, ResetLength, IInv, TypeOK, Called
  <2>2. \A v \in Writer : writer'[v].file = writer[v].file /\ writer'[v].buffer = writer[v].buffer
    BY <1>1, <2>1 DEF Stream
  <2>3. Left(t)' <= Left(t)
    BY <1>1, <1>2, <1>4 DEF Measure, ResetLength, Goto, Leave, Left
  <2> QED
    BY <2>2, <2>3 DEF Written
<1>5. CASE FlushStream(t)
  <2>1. pc[t] = "drain" /\ this[t] \in Writer
    BY <1>5 DEF FlushStream, IInv, TypeOK, Called
  <2>2. Left(t)' <= Left(t)
    BY <1>1, <1>2, <1>5 DEF FlushStream, Goto, Throw, Left
  <2>3. CASE Usable(this[t])
    <3>1. PICK w \in Writer : w = this[t]
      BY <2>1
    <3>2. writer' = Drained(w)
      BY <1>5, <2>3, <3>1 DEF FlushStream
    <3> QED
      BY <2>2, <3>2, DrainedIsStream, DrainedIsWritten
  <2>4. CASE ~Usable(this[t])
    BY <1>5, <2>2, <2>4 DEF FlushStream, Written
  <2> QED
    BY <2>3, <2>4
<1> QED
  BY <1>3, <1>4, <1>5 DEF LogCallback

\* WriteLine puts the line of the thread in the buffer of its writer.
LEMMA CallbackWrites ==
  ASSUME IInv, NEW t \in Thread, WriteLine(t), NEW v \in Writer, v = this[t], Usable(v)
  PROVE  /\ Goto(t, "measure", v)
         /\ writer'[v].buffer = Append(writer[v].buffer, LineOf(t))
         /\ Written(v)' = Append(Written(v), LineOf(t))
         /\ \A w \in Writer \ {v} : writer'[w] = writer[w] /\ Written(w)' = Written(w)
         /\ Left(t) >= 1 /\ Left(t)' = Left(t) - 1
<1>1. /\ writer \in [Writer -> Stream] /\ calls \in [Thread -> 0..2]
      /\ pc \in [Thread -> {"idle", "lock", "write", "append", "measure", "flush", "drain", "reset"}]
  BY DEF IInv, TypeOK
<1>2. /\ Goto(t, "measure", v) /\ pc[t] = "append"
      /\ writer' = [writer EXCEPT ![v].buffer = Append(@, LineOf(t))]
  BY DEF WriteLine, LineOf
<1>3. Left(t) >= 1 /\ Left(t)' = Left(t) - 1
  <2>1. calls[t] \in 1..2
    BY <1>2, LeftIsInt DEF IInv
  <2> QED
    BY <1>1, <1>2, <2>1 DEF Left, Goto
<1>4. /\ writer'[v].buffer = Append(writer[v].buffer, LineOf(t))
      /\ writer'[v].file = writer[v].file
      /\ \A w \in Writer \ {v} : writer'[w] = writer[w]
  BY <1>1, <1>2 DEF Stream
<1>5. writer[v].buffer \in Seq(Line) /\ writer[v].file \in Seq(Line) /\ LineOf(t) \in Line
  BY LineTypes DEF IInv
<1>6. Written(v)' = Append(Written(v), LineOf(t))
  <2>1. /\ Written(v)' = writer'[v].file \o writer'[v].buffer
        /\ Written(v) = writer[v].file \o writer[v].buffer
    BY DEF Written
  <2>2. writer[v].file \o Append(writer[v].buffer, LineOf(t)) =
          Append(writer[v].file \o writer[v].buffer, LineOf(t))
    <3> DEFINE a == writer[v].file
               b == writer[v].buffer
               y == LineOf(t)
    <3>1. a \in Seq(Line) /\ b \in Seq(Line) /\ y \in Line
      BY <1>5
    <3> HIDE DEF a, b, y
    <3>2. a \o Append(b, y) = Append(a \o b, y)
      BY <3>1, AppendToBuffer
    <3> QED
      BY <3>2 DEF a, b, y
  <2> HIDE DEF Written
  <2> QED
    BY <1>4, <2>1, <2>2
<1>7. \A w \in Writer \ {v} : Written(w)' = Written(w)
  BY <1>4 DEF Written
<1> QED
  BY <1>2, <1>3, <1>4, <1>6, <1>7

\* No line leaves the files and buffers: what leaves the buffer is in the file.
Flows(w) ==
  \A x : /\ Holds(writer[w].file, x) => Holds(writer'[w].file, x)
         /\ Holds(writer[w].buffer, x) => Holds(writer'[w].buffer, x) \/ Holds(writer'[w].file, x)

LEMMA HoldsInLonger ==
  ASSUME NEW S, NEW a \in Seq(S), NEW b \in Seq(S), NEW y \in S
  PROVE  /\ \A x : Holds(a, x) => Holds(Append(a, y), x)
         /\ Holds(Append(a, y), y)
         /\ \A x : Holds(a, x) \/ Holds(b, x) => Holds(a \o b, x)
<1>1. /\ Len(a) \in Nat /\ Len(b) \in Nat /\ DOMAIN a = 1..Len(a) /\ DOMAIN b = 1..Len(b)
      /\ DOMAIN Append(a, y) = 1..(Len(a) + 1) /\ Append(a, y)[Len(a) + 1] = y
      /\ \A i \in 1..Len(a) : Append(a, y)[i] = a[i]
      /\ DOMAIN (a \o b) = 1..(Len(a) + Len(b))
      /\ \A i \in 1..Len(a) : (a \o b)[i] = a[i]
      /\ \A i \in 1..Len(b) : (a \o b)[Len(a) + i] = b[i]
  OBVIOUS
<1>2. ASSUME NEW x, NEW i \in 1..Len(a), a[i] = x PROVE Holds(Append(a, y), x) /\ Holds(a \o b, x)
  BY <1>1, <1>2 DEF Holds
<1>3. ASSUME NEW x, NEW i \in 1..Len(b), b[i] = x PROVE Holds(a \o b, x)
  <2>1. Len(a) + i \in DOMAIN (a \o b) /\ (a \o b)[Len(a) + i] = x
    BY <1>1, <1>3
  <2> QED
    BY <2>1 DEF Holds
<1>4. Holds(Append(a, y), y)
  BY <1>1 DEF Holds
<1>5. \A x : Holds(a, x) => \E i \in 1..Len(a) : a[i] = x
  BY <1>1 DEF Holds
<1>6. \A x : Holds(b, x) => \E i \in 1..Len(b) : b[i] = x
  BY <1>1 DEF Holds
<1> QED
  BY <1>2, <1>3, <1>4, <1>5, <1>6

LEMMA DrainedFlows ==
  ASSUME IInv, NEW w \in Writer, writer' = Drained(w)
  PROVE  /\ \A v \in Writer : Flows(v)
         /\ \A x : Holds(writer[w].buffer, x) => Holds(writer'[w].file, x)
<1> DEFINE a == writer[w].file
           b == writer[w].buffer
<1>1. a \in Seq(Line) /\ b \in Seq(Line)
  BY LineTypes DEF IInv
<1>2. writer'[w].file = a \o b
  BY DEF IInv, TypeOK, Drained, Stream
<1> HIDE DEF a, b
<1>3. \A x : Holds(a, x) \/ Holds(b, x) => Holds(a \o b, x)
  <2> TAKE x
  <2>1. CASE Line = {}
    <3>1. a = <<>> /\ b = <<>>
      BY <1>1, <2>1
    <3> QED
      BY <3>1 DEF Holds
  <2>2. CASE \E y : y \in Line
    BY <1>1, <2>2, HoldsInLonger
  <2> QED
    BY <2>1, <2>2
<1>4. Flows(w) /\ \A x : Holds(b, x) => Holds(writer'[w].file, x)
  BY <1>2, <1>3 DEF Flows, a, b
<1>5. \A v \in Writer \ {w} : Flows(v)
  BY DrainedIsStream DEF Flows
<1> QED
  BY <1>4, <1>5 DEF b

LEMMA CallbackFlows ==
  ASSUME IInv, NEW t \in Thread, LogCallback(t)
  PROVE  \A w \in Writer : Flows(w)
<1>1. writer \in [Writer -> Stream]
  BY DEF IInv, TypeOK
<1>2. CASE Enter(t) \/ Write(t) \/ Flush(t)
  BY <1>2 DEF Enter, Write, Flush, Flows
<1>3. CASE Measure(t) \/ ResetLength(t)
  <2>1. PICK w \in Writer, k \in {0, 1} : writer' = [writer EXCEPT ![w].length = k]
    BY <1>3 DEF Measure, ResetLength, IInv, TypeOK, Called
  <2>2. \A v \in Writer : writer'[v].file = writer[v].file /\ writer'[v].buffer = writer[v].buffer
    BY <1>1, <2>1 DEF Stream
  <2> QED
    BY <2>2 DEF Flows
<1>4. CASE WriteLine(t)
  <2>1. CASE Usable(this[t])
    <3>1. PICK v \in Writer : v = this[t]
      BY <1>4 DEF WriteLine, IInv, TypeOK, Called
    <3>2. /\ writer'[v].buffer = Append(writer[v].buffer, LineOf(t))
          /\ \A w \in Writer \ {v} : writer'[w] = writer[w]
      BY <1>4, <2>1, <3>1, CallbackWrites
    <3>3. writer'[v].file = writer[v].file
      BY <1>1, <1>4, <2>1, <3>1 DEF WriteLine, Stream
    <3> DEFINE b == writer[v].buffer
               y == LineOf(t)
    <3>4. b \in Seq(Line) /\ y \in Line
      BY LineTypes DEF IInv
    <3> HIDE DEF b, y
    <3>5. \A x : Holds(b, x) => Holds(Append(b, y), x)
      BY <3>4, HoldsInLonger
    <3>6. Flows(v)
      BY <3>2, <3>3, <3>5 DEF Flows, b, y
    <3>7. \A w \in Writer \ {v} : Flows(w)
      BY <3>2 DEF Flows
    <3> QED
      BY <3>6, <3>7
  <2>2. CASE ~Usable(this[t])
    BY <1>4, <2>2 DEF WriteLine, Flows
  <2> QED
    BY <2>1, <2>2
<1>5. CASE FlushStream(t)
  <2>1. PICK v \in Writer : v = this[t]
    BY <1>5 DEF FlushStream, IInv, TypeOK, Called
  <2>2. CASE Usable(this[t])
    BY <1>5, <2>1, <2>2, DrainedFlows DEF FlushStream
  <2>3. CASE ~Usable(this[t])
    BY <1>5, <2>3 DEF FlushStream, Flows
  <2> QED
    BY <2>2, <2>3
<1> QED
  BY <1>2, <1>3, <1>4, <1>5 DEF LogCallback

\* A kept line stays kept, if no stream that was replaced is closed and none is
\* put back in its place.
LEMMA KeptStays ==
  ASSUME NEW t \in Thread, NEW w \in Writer, Kept(t, w), Flows(w), LineOf(t)' = LineOf(t),
         w # s_writer /\ writer[w].open /\ Holds(writer[w].buffer, LineOf(t)) =>
           w # s_writer' /\ writer'[w].open
  PROVE  Kept(t, w)'
<1>1. Kept(t, w)' <=> \/ Holds(writer'[w].file, LineOf(t))
                      \/ w # s_writer' /\ writer'[w].open /\ Holds(writer'[w].buffer, LineOf(t))
  BY DEF Kept, Holds
<1>2. CASE Holds(writer[w].file, LineOf(t))
  BY <1>1, <1>2 DEF Flows
<1>3. CASE w # s_writer /\ writer[w].open /\ Holds(writer[w].buffer, LineOf(t))
  BY <1>1, <1>3 DEF Flows
<1> QED
  BY <1>2, <1>3 DEF Kept

\* A line whose callback is not in this step: the lock keeps its thread waiting.
LEMMA OthersAreKept ==
  ASSUME IInv, NEW t \in Thread, LogCallback(t), NEW u \in Thread \ {t}, KeptSoFar(u)
  PROVE  KeptSoFar(u)'
<1>1. /\ said' = said /\ UNCHANGED mainVars
      /\ pc'[u] = pc[u] /\ pc[u] \in {"idle", "lock"}
      /\ \A w \in Writer : writer'[w].held = writer[w].held /\ writer'[w].open = writer[w].open
  BY CallbackIsAlone
<1>2. LineOf(u)' = LineOf(u) /\ s_writer' = s_writer
  BY <1>1 DEF LineOf, mainVars
<1>3. CASE pc[u] = "idle"
  <2>1. PICK w \in Writer : Kept(u, w)
    BY <1>3 DEF KeptSoFar
  <2>2. Kept(u, w)'
    BY <1>1, <1>2, <2>1, CallbackFlows, KeptStays
  <2> QED
    BY <1>1, <1>3, <2>2 DEF KeptSoFar
<1>4. CASE pc[u] = "lock"
  <2>1. Up'
    BY <1>1, <1>4 DEF KeptSoFar, Up, mainVars, IInv, TypeOK
  <2> QED
    BY <1>1, <1>4, <2>1 DEF KeptSoFar
<1> QED
  BY <1>1, <1>3, <1>4

\* The callback of the line itself: the log is open, so it does not throw, and
\* the flush finds the length that Measure has counted, or the line is in the
\* buffer of a writer that is not the log any more.
LEMMA OwnIsKept ==
  ASSUME IInv, IInv', Closing, NEW t \in Thread, LogCallback(t), KeptSoFar(t)
  PROVE  KeptSoFar(t)'
<1> USE DebugLibAssumption
<1>1. /\ said' = said /\ UNCHANGED mainVars
      /\ \A w \in Writer : writer'[w].held = writer[w].held /\ writer'[w].open = writer[w].open
  BY CallbackIsAlone
<1>2. /\ LineOf(t)' = LineOf(t) /\ s_writer' = s_writer
  BY <1>1 DEF LineOf, mainVars
<1>3. /\ writer \in [Writer -> Stream]
      /\ pc \in [Thread -> {"idle", "lock", "write", "append", "measure", "flush", "drain", "reset"}]
      /\ this \in [Thread -> Writer \cup {None}]
  BY DEF IInv, TypeOK
<1>4. pc[t] # "idle"
  BY DEF LogCallback, Enter, Write, WriteLine, Measure, Flush, FlushStream, ResetLength
<1>5. Up /\ s_writer \in Writer /\ s_writer # None /\ Usable(s_writer)
  BY <1>4 DEF KeptSoFar, Up, Closing, Usable, IInv, TypeOK
<1>6. Up'
  BY <1>1, <1>5 DEF Up, mainVars
<1>7. ASSUME NEW w \in Writer, Kept(t, w) PROVE Kept(t, w)'
  BY <1>1, <1>2, <1>7, CallbackFlows, KeptStays
<1>8. \A w \in Writer : Usable(w) => Usable(w)'
  BY <1>1 DEF Usable
<1>9. ASSUME pc[t] \in {"append", "measure", "drain", "reset"}
      PROVE  this[t] \in Writer /\ Usable(this[t])
  BY <1>9 DEF KeptSoFar, IInv, TypeOK, Called
<1>10. CASE Enter(t)
  <2>1. pc'[t] = "write"
    BY <1>3, <1>10 DEF Enter
  <2> QED
    BY <1>6, <2>1 DEF KeptSoFar
<1>11. CASE Write(t)
  <2>1. pc'[t] = "append" /\ this'[t] = s_writer
    BY <1>3, <1>5, <1>11 DEF Write, Goto, Usable
  <2> QED
    BY <1>5, <1>6, <1>8, <2>1 DEF KeptSoFar
<1>12. CASE WriteLine(t)
  <2>1. PICK v \in Writer : v = this[t] /\ Usable(v)
    BY <1>9, <1>12 DEF WriteLine
  <2>2. Goto(t, "measure", v) /\ writer'[v].buffer = Append(writer[v].buffer, LineOf(t))
    BY <1>12, <2>1, CallbackWrites
  <2>3. pc'[t] = "measure" /\ this'[t] = v
    BY <1>3, <2>2 DEF Goto
  <2>4. Holds(writer'[v].buffer, LineOf(t))
    <3> DEFINE b == writer[v].buffer
               y == LineOf(t)
    <3>1. b \in Seq(Line) /\ y \in Line
      BY LineTypes DEF IInv
    <3> HIDE DEF b, y
    <3>2. Holds(Append(b, y), y)
      BY <3>1, HoldsInLonger
    <3> QED
      BY <2>2, <3>2 DEF b, y
  <2>5. Holds(writer'[this'[t]].buffer, LineOf(t)') /\ Usable(v)'
    BY <1>2, <1>8, <2>1, <2>3, <2>4
  <2> QED
    BY <1>6, <2>3, <2>5 DEF KeptSoFar, Holds, Usable
<1>13. CASE Measure(t)
  <2>1. PICK v \in Writer : v = this[t] /\ Usable(v)
    BY <1>9, <1>13 DEF Measure
  <2>2. writer' = [writer EXCEPT ![v].length = 1] /\ pc'[t] = "flush"
    BY <1>3, <1>13, <2>1 DEF Measure, Goto
  <2>3. writer'[v].length = 1 /\ writer'[v].buffer = writer[v].buffer /\ writer'[v].open
    BY <1>1, <1>3, <2>1, <2>2 DEF Stream, Usable
  <2>4. Holds(writer[v].buffer, LineOf(t))
    BY <1>13, <2>1 DEF KeptSoFar, Measure
  <2>5. Holds(writer'[v].buffer, LineOf(t)')
    BY <1>2, <2>3, <2>4
  <2> QED
    BY <1>6, <2>2, <2>3, <2>5 DEF KeptSoFar, Holds
<1>14. CASE Flush(t)
  <2>1. pc[t] = "flush" /\ writer' = writer
    BY <1>14 DEF Flush
  <2>2. PICK w \in Writer :
          Kept(t, w) \/ (writer[w].open /\ writer[w].length = 1 /\ Holds(writer[w].buffer, LineOf(t)))
    BY <2>1 DEF KeptSoFar
  <2>3. CASE writer[s_writer].length > 0
    <3>1. pc'[t] = "drain" /\ this'[t] = s_writer
      BY <1>3, <1>5, <1>14, <2>3 DEF Flush, Goto, Usable
    <3>2. Kept(t, w)' \/ (w = this'[t] /\ Holds(writer'[w].buffer, LineOf(t)'))
      <4>1. CASE Kept(t, w)
        BY <1>7, <4>1
      <4>2. CASE w = s_writer /\ Holds(writer[w].buffer, LineOf(t))
        BY <1>2, <2>1, <3>1, <4>2
      <4>3. CASE w # s_writer /\ writer[w].open /\ Holds(writer[w].buffer, LineOf(t))
        BY <1>7, <4>3 DEF Kept
      <4> QED
        BY <2>2, <4>1, <4>2, <4>3
    <3> QED
      BY <1>5, <1>6, <1>8, <3>1, <3>2 DEF KeptSoFar, Holds
  <2>4. CASE ~(writer[s_writer].length > 0)
    <3>1. pc'[t] \in {"idle", "lock"}
      BY <1>3, <1>5, <1>14, <2>4 DEF Flush, Leave, Usable
    <3>2. Kept(t, w)
      BY <2>2, <2>4 DEF Kept
    <3>3. Kept(t, w)'
      BY <1>7, <3>2
    <3> QED
      BY <1>6, <3>1, <3>3 DEF KeptSoFar
  <2> QED
    BY <2>3, <2>4
<1>15. CASE FlushStream(t)
  <2>1. PICK v \in Writer : v = this[t] /\ Usable(v)
    BY <1>9, <1>15 DEF FlushStream
  <2>2. writer' = Drained(v) /\ Goto(t, "reset", v) /\ pc[t] = "drain"
    BY <1>15, <2>1 DEF FlushStream
  <2>3. pc'[t] = "reset" /\ this'[t] = v
    BY <1>3, <2>2 DEF Goto
  <2>4. PICK w \in Writer : Kept(t, w) \/ (w = v /\ Holds(writer[w].buffer, LineOf(t)))
    BY <2>1, <2>2 DEF KeptSoFar
  <2>5. Kept(t, w)'
    <3>1. CASE Kept(t, w)
      BY <1>7, <3>1
    <3>2. CASE w = v /\ Holds(writer[w].buffer, LineOf(t))
      <4>1. Holds(writer'[w].file, LineOf(t)')
        BY <1>2, <2>2, <3>2, DrainedFlows
      <4> QED
        BY <4>1 DEF Kept, Holds
    <3> QED
      BY <2>4, <3>1, <3>2
  <2> QED
    BY <1>6, <1>8, <2>1, <2>3, <2>5 DEF KeptSoFar
<1>16. CASE ResetLength(t)
  <2>1. pc[t] = "reset" /\ pc'[t] \in {"idle", "lock"}
    BY <1>3, <1>16 DEF ResetLength, Leave
  <2>2. PICK w \in Writer : Kept(t, w)
    BY <2>1 DEF KeptSoFar
  <2>3. Kept(t, w)'
    BY <1>7, <2>2
  <2> QED
    BY <1>6, <2>1, <2>3 DEF KeptSoFar
<1> QED
  BY <1>10, <1>11, <1>12, <1>13, <1>14, <1>15, <1>16 DEF LogCallback

LEMMA CallbackKeepsLines ==
  ASSUME IInv, IInv', LinesInv, NEW t \in Thread, LogCallback(t)
  PROVE  LinesInv'
<1>1. InOrder' /\ Recent'
  <2>1. CASE WriteLine(t) /\ Usable(this[t])
    <3>1. PICK v \in Writer : v = this[t]
      BY <2>1 DEF WriteLine, IInv, TypeOK, Called
    <3>2. /\ Written(v)' = Append(Written(v), LineOf(t))
          /\ \A w \in Writer \ {v} : Written(w)' = Written(w)
          /\ Left(t) >= 1 /\ Left(t)' = Left(t) - 1
      BY <2>1, <3>1, CallbackWrites
    <3>3. said' = said /\ \A u \in Thread \ {t} : Left(u)' = Left(u)
      BY CallbackIsAlone DEF Left
    <3> QED
      BY <3>2, <3>3, WrittenKeeps DEF LinesInv
  <2>2. CASE ~(WriteLine(t) /\ Usable(this[t]))
    <3>1. (\A w \in Writer : Written(w)' = Written(w)) /\ Left(t)' <= Left(t)
      BY <2>2, CallbackWritesElsewhere
    <3>2. said' = said /\ \A u \in Thread \ {t} : Left(u)' = Left(u) /\ Left(u) \in Nat
      BY CallbackIsAlone, LeftIsInt DEF Left, IInv
    <3>3. \A u \in Thread : Left(u)' <= Left(u)
      BY <3>1, <3>2
    <3> QED
      BY <3>1, <3>2, <3>3, UnwrittenKeeps DEF LinesInv
  <2> QED
    BY <2>1, <2>2
<1>2. Closing'
  BY CallbackIsAlone DEF LinesInv, Closing, mainVars
<1>3. \A u \in Thread : steady'[u] => KeptSoFar(u)'
  <2> SUFFICES ASSUME NEW u \in Thread, steady'[u] PROVE KeptSoFar(u)'
    OBVIOUS
  <2>1. KeptSoFar(u) /\ Closing
    BY CallbackIsAlone DEF LinesInv
  <2> QED
    BY <2>1, OthersAreKept, OwnIsKept
<1> QED
  BY <1>1, <1>2, <1>3 DEF LinesInv

\* A line that is logged is one that is nowhere yet.
LEMMA RaiseKeepsLines ==
  ASSUME IInv, IInv', LinesInv, NEW t \in Thread, Raise(t), s_writer' = s_writer,
         main' = main \/ {main, main'} \cap {"drain", "close", "drop", "forget"} = {}
  PROVE  LinesInv'
<1>1. /\ calls' = [calls EXCEPT ![t] = Cardinality(subscribed \cap Events(t))]
      /\ pc' = [pc EXCEPT ![t] = IF calls'[t] > 0 THEN "lock" ELSE "idle"]
      /\ said' = [said EXCEPT ![t] = @ + 1] /\ pc[t] = "idle"
      /\ steady' = [steady EXCEPT ![t] = Up /\ calls'[t] > 0]
      /\ UNCHANGED <<lock, this, failed, writer>>
  BY DEF Raise
<1>2. /\ said \in [Thread -> Nat] /\ calls \in [Thread -> 0..2] /\ steady \in [Thread -> BOOLEAN]
      /\ pc \in [Thread -> {"idle", "lock", "write", "append", "measure", "flush", "drain", "reset"}]
  BY DEF IInv, TypeOK
<1>3. \A w \in Writer : Written(w)' = Written(w) /\ Written(w) \in Seq(Line)
  BY <1>1, LineTypes DEF Written, IInv
<1>4. \A u \in Thread \ {t} : /\ LineOf(u)' = LineOf(u) /\ Left(u)' = Left(u)
                              /\ pc'[u] = pc[u] /\ steady'[u] = steady[u] /\ this'[u] = this[u]
  BY <1>1, <1>2 DEF LineOf, Left
<1>5. /\ Cardinality(Events(t)) \in 1..2
      /\ Left(t)' = calls'[t] /\ calls'[t] = Cardinality(subscribed \cap Events(t))
      /\ Left(t)' \in 0..Cardinality(Events(t))
  <2>1. calls'[t] = Cardinality(subscribed \cap Events(t))
    BY <1>1, <1>2
  <2>2. Cardinality(subscribed \cap Events(t)) \in 0..Cardinality(Events(t))
    BY EventsOfThread
  <2>3. Cardinality(Events(t)) \in 1..2
    BY EventsOfThread
  <2>4. Left(t)' = calls'[t]
    BY <1>1, <1>2, <2>1, <2>2, <2>3 DEF Left
  <2> QED
    BY <2>1, <2>2, <2>3, <2>4
<1>6. LineOf(t)'.n = said[t] + 1 /\ LineOf(t)'.thread = t
  BY <1>1, <1>2 DEF LineOf
<1>7. ASSUME NEW w \in Writer
      PROVE  /\ \A i \in DOMAIN Written(w) : Written(w)[i] # LineOf(t)'
             /\ Occurs(Written(w), LineOf(t)') = 0
  <2>1. ASSUME NEW i \in DOMAIN Written(w), Written(w)[i] = LineOf(t)' PROVE FALSE
    <3>1. Written(w)[i].n <= said[Written(w)[i].thread]
      BY DEF LinesInv, Recent
    <3>2. said[t] + 1 <= said[t] /\ said[t] \in Nat
      BY <1>2, <1>6, <2>1, <3>1
    <3> QED
      BY <3>2
  <2> QED
    BY <2>1, OccursNowhere
<1>8. InOrder'
  BY <1>3 DEF LinesInv, InOrder, Occurs
<1>9. Recent'
  <2>1. ASSUME NEW w \in Writer, NEW i \in DOMAIN Written(w)'
        PROVE  Written(w)'[i].n <= said'[Written(w)'[i].thread]
    <3>1. Written(w)' = Written(w) /\ i \in DOMAIN Written(w)
      BY <1>3
    <3>2. Written(w)[i].n <= said[Written(w)[i].thread] /\ Written(w)[i] \in Line
      BY <1>3, <3>1 DEF LinesInv, Recent
    <3>3. \A u \in Thread : said[u] <= said'[u] /\ said[u] \in Nat /\ said'[u] \in Nat
      BY <1>1, <1>2
    <3> QED
      BY <3>1, <3>2, <3>3 DEF Line
  <2>2. ASSUME NEW w \in Writer, NEW u \in Thread
        PROVE  Occurs(Written(w), LineOf(u))' + Left(u)' <= Cardinality(Events(u))
    <3>1. Occurs(Written(w), LineOf(u))' = Occurs(Written(w), LineOf(u)')
      BY <1>3 DEF Occurs
    <3>2. CASE u # t
      <4>1. Occurs(Written(w), LineOf(u)) + Left(u) <= Cardinality(Events(u))
        BY DEF LinesInv, Recent
      <4> QED
        BY <1>4, <3>1, <3>2, <4>1
    <3>3. CASE u = t
      BY <1>5, <1>7, <3>1, <3>3
    <3> QED
      BY <3>2, <3>3
  <2> QED
    BY <2>1, <2>2 DEF Recent
<1>10. Closing'
  BY <1>1 DEF LinesInv, Closing
<1>12. Up' <=> Up
  BY <1>1 DEF Up
<1>11. ASSUME NEW u \in Thread, steady'[u] PROVE KeptSoFar(u)'
  <2>1. CASE u # t
    <3>1. KeptSoFar(u)
      BY <1>4, <1>11, <2>1 DEF LinesInv
    <3>2. LineOf(u)' = LineOf(u) /\ pc'[u] = pc[u] /\ this'[u] = this[u] /\ writer' = writer
      BY <1>1, <1>4, <2>1
    <3>3. \A w \in Writer : Kept(u, w) => Kept(u, w)'
      BY <3>2 DEF Kept, Holds
    <3> QED
      BY <1>12, <3>1, <3>2, <3>3 DEF KeptSoFar, Holds, Usable
  <2>2. CASE u = t
    <3>1. steady'[t] = (Up /\ calls'[t] > 0)
      BY <1>1, <1>2
    <3>2. pc'[t] = "lock" /\ Up
      BY <1>1, <1>2, <1>11, <2>2, <3>1
    <3> QED
      BY <1>12, <2>2, <3>2 DEF KeptSoFar
  <2> QED
    BY <2>1, <2>2
<1> QED
  BY <1>8, <1>9, <1>10, <1>11 DEF LinesInv

\* What Startup, Release and Dispose do on the main thread.
MainStarts == StartupOpens \/ Unsubscribe \/ Subscribe \/ StartupFails \/ Discard
MainEnds == Release \/ Dispose \/ ForgetWriter

\* Startup, Release and Dispose write nothing but what was in a buffer.
LEMMA MainFlows ==
  ASSUME IInv, MainStarts \/ MainEnds
  PROVE  /\ UNCHANGED callVars
         /\ \A w \in Writer : Flows(w)
         /\ \A w \in Writer : writer'[w].open = writer[w].open \/ w = s_writer \/ writer[w] = NoStream
<1>1. UNCHANGED callVars
  BY DEF MainStarts, MainEnds, StartupOpens, Unsubscribe, Subscribe, StartupFails, Discard, Release,
         Dispose, ClearLength, CloseDrains, Close, DropStream, ForgetWriter, MainStep
<1>2. writer \in [Writer -> Stream] /\ (Dispose => s_writer \in Writer)
  BY DEF IInv, TypeOK, Called, Dispose, ClearLength, CloseDrains, Close, DropStream, MainStep
<1>3. CASE UNCHANGED writer
  BY <1>1, <1>3 DEF Flows
<1>4. CASE StartupOpens
  <2>1. PICK w \in Writer : /\ writer' = [writer EXCEPT ![w].held = TRUE, ![w].open = TRUE]
                            /\ writer[w] = NoStream
    BY <1>4 DEF StartupOpens
  <2>2. /\ \A v \in Writer : writer'[v].file = writer[v].file /\ writer'[v].buffer = writer[v].buffer
        /\ \A v \in Writer \ {w} : writer'[v] = writer[v]
    BY <1>2, <2>1 DEF Stream
  <2> QED
    BY <1>1, <2>1, <2>2 DEF Flows
<1>5. CASE CloseDrains
  <2>1. s_writer \in Writer /\ writer' = Drained(s_writer)
    BY <1>2, <1>5 DEF CloseDrains, Dispose
  <2> QED
    BY <1>1, <2>1, DrainedFlows, DrainedIsStream
<1>6. CASE ClearLength \/ Close \/ DropStream
  <2> PICK l \in Writer : l = s_writer
    BY <1>2, <1>6 DEF Dispose
  <2>1. \/ writer' = [writer EXCEPT ![l].length = 0]
        \/ writer' = [writer EXCEPT ![l].open = FALSE]
        \/ writer' = [writer EXCEPT ![l].held = FALSE]
    BY <1>6 DEF ClearLength, Close, DropStream
  <2> DEFINE Untold ==
        /\ \A v \in Writer : writer'[v].file = writer[v].file /\ writer'[v].buffer = writer[v].buffer
        /\ \A v \in Writer \ {l} : writer'[v] = writer[v]
  <2>2. writer' = [writer EXCEPT ![l].length = 0] => Untold
    BY <1>2 DEF Stream
  <2>3. writer' = [writer EXCEPT ![l].open = FALSE] => Untold
    BY <1>2 DEF Stream
  <2>4. writer' = [writer EXCEPT ![l].held = FALSE] => Untold
    BY <1>2 DEF Stream
  <2>5. Untold
    BY <2>1, <2>2, <2>3, <2>4
  <2> QED
    BY <1>1, <2>5 DEF Flows
<1> QED
  BY <1>3, <1>4, <1>5, <1>6 DEF MainStarts, MainEnds, Unsubscribe, Subscribe, StartupFails, Discard,
     Release, Dispose, ForgetWriter

\* A line that was kept stays so: what is replaced is never closed.
LEMMA MainKeepsKept ==
  ASSUME IInv, MainStarts \/ MainEnds, NEW u \in Thread, NEW w \in Writer, Kept(u, w)
  PROVE  Kept(u, w)'
<1>1. /\ UNCHANGED callVars /\ Flows(w)
      /\ writer'[w].open = writer[w].open \/ w = s_writer \/ writer[w] = NoStream
  BY MainFlows
<1>2. LineOf(u)' = LineOf(u)
  BY <1>1 DEF callVars, LineOf
<1>3. writer[w] = NoStream => ~Holds(writer[w].buffer, LineOf(u))
  BY DEF NoStream, Holds
<1>4. s_writer' \in {s_writer, None} \/ (s_writer' \in Writer /\ writer[s_writer'] = NoStream)
  BY DEF MainStarts, MainEnds, StartupOpens, Unsubscribe, Subscribe, StartupFails, Discard, Release,
         Dispose, ClearLength, CloseDrains, Close, DropStream, ForgetWriter
<1>5. w # s_writer /\ writer[w].open /\ Holds(writer[w].buffer, LineOf(u)) =>
        w # s_writer' /\ writer'[w].open
  BY <1>1, <1>3, <1>4, DebugLibAssumption
<1> QED
  BY <1>1, <1>2, <1>5, KeptStays

\* A Startup does not harm a line that is being logged; a Dispose is met by it.
LEMMA MainKeepsSteady ==
  ASSUME IInv, MainStarts \/ MainEnds, NEW u \in Thread, steady'[u], steady[u] => KeptSoFar(u)
  PROVE  KeptSoFar(u)'
<1> USE DebugLibAssumption
<1>1. UNCHANGED callVars
  BY MainFlows
<1>2. pc'[u] = pc[u] /\ this'[u] = this[u] /\ LineOf(u)' = LineOf(u)
  BY <1>1 DEF callVars, LineOf
<1>3. steady[u] /\ (ClearLength => pc[u] = "idle")
  <2>1. CASE ClearLength
    <3>1. steady'[u] = (steady[u] /\ pc[u] = "idle")
      BY <2>1 DEF ClearLength
    <3> QED
      BY <3>1
  <2>2. CASE ~ClearLength
    <3>1. UNCHANGED steady
      BY <2>2 DEF MainStarts, MainEnds, StartupOpens, Unsubscribe, Subscribe, StartupFails, Discard,
         Release, Dispose, CloseDrains, Close, DropStream, ForgetWriter
    <3> QED
      BY <2>2, <3>1
  <2> QED
    BY <2>1, <2>2
<1>4. KeptSoFar(u)
  BY <1>3
<1>5. CASE pc[u] = "idle"
  <2>1. PICK w \in Writer : Kept(u, w)
    BY <1>4, <1>5 DEF KeptSoFar
  <2>2. Kept(u, w)'
    BY <2>1, MainKeepsKept
  <2> QED
    BY <1>2, <1>5, <2>2 DEF KeptSoFar
<1>6. CASE pc[u] # "idle"
  <2>1. Up
    BY <1>4, <1>6 DEF KeptSoFar
  <2>2. ~ClearLength /\ ~CloseDrains /\ ~Close /\ ~DropStream /\ ~ForgetWriter
    BY <1>3, <1>6, <2>1 DEF Up, CloseDrains, Close, DropStream, ForgetWriter, MainStep
  <2>3. MainStarts \/ Release
    BY <2>2 DEF MainEnds, Dispose
  <2>4. /\ writer \in [Writer -> Stream]
        /\ pc[u] \in {"append", "measure", "drain", "reset"} => this[u] \in Writer
    BY DEF IInv, TypeOK, Called
  <2>5. /\ Up'
        /\ \A w \in Writer : /\ Usable(w) => Usable(w)'
                             /\ writer[w].open => writer'[w].open
                             /\ writer'[w].length = writer[w].length
                             /\ writer'[w].buffer = writer[w].buffer
    <3>1. CASE StartupOpens
      <4>1. PICK w \in Writer : /\ writer' = [writer EXCEPT ![w].held = TRUE, ![w].open = TRUE]
                                /\ s_writer' = w /\ main' = "subscribe"
        BY <3>1 DEF StartupOpens, MainStep
      <4>2. /\ writer'[w].held /\ writer'[w].open
            /\ \A v \in Writer : /\ writer'[v].length = writer[v].length
                                 /\ writer'[v].buffer = writer[v].buffer
            /\ \A v \in Writer \ {w} : writer'[v] = writer[v]
        BY <2>4, <4>1 DEF Stream
      <4> QED
        BY <4>1, <4>2 DEF Up, Usable
    <3>2. CASE Unsubscribe \/ Subscribe \/ StartupFails \/ Discard \/ Release
      <4>1. UNCHANGED <<s_writer, writer>> /\ main' \notin {"drain", "close", "drop", "forget"}
        BY <2>1, <3>2 DEF Up, Unsubscribe, Subscribe, StartupFails, Discard, Release, MainStep
      <4> QED
        BY <2>1, <4>1 DEF Up, Usable
    <3> QED
      BY <2>3, <3>1, <3>2 DEF MainStarts
  <2>6. \A w \in Writer : Kept(u, w) => Kept(u, w)'
    BY MainKeepsKept
  <2>7. \A w \in Writer : Holds(writer[w].buffer, LineOf(u)) => Holds(writer'[w].buffer, LineOf(u)')
    BY <1>2, <2>5
  <2>8. pc[u] \in {"append", "measure", "drain", "reset"} => Usable(this[u])'
    BY <1>2, <1>4, <2>4, <2>5 DEF KeptSoFar, Usable
  <2>9. pc[u] = "measure" => Holds(writer'[this'[u]].buffer, LineOf(u)')
    BY <1>2, <1>4, <2>4, <2>7 DEF KeptSoFar
  <2>10. pc[u] = "flush" =>
           \E w \in Writer : Kept(u, w)' \/ (writer'[w].open /\ writer'[w].length = 1
                                             /\ Holds(writer'[w].buffer, LineOf(u)'))
    BY <1>4, <2>5, <2>6, <2>7 DEF KeptSoFar
  <2>11. pc[u] = "drain" =>
           \E w \in Writer : Kept(u, w)' \/ (w = this'[u] /\ Holds(writer'[w].buffer, LineOf(u)'))
    BY <1>2, <1>4, <2>6, <2>7 DEF KeptSoFar
  <2>12. pc[u] = "reset" => \E w \in Writer : Kept(u, w)'
    BY <1>4, <2>6 DEF KeptSoFar
  <2> QED
    BY <1>2, <1>6, <2>5, <2>8, <2>9, <2>10, <2>11, <2>12 DEF KeptSoFar, Holds
<1> QED
  BY <1>5, <1>6

LEMMA MainKeepsLines ==
  ASSUME IInv, IInv', LinesInv, MainStarts \/ MainEnds
  PROVE  LinesInv'
<1> USE DebugLibAssumption DEF MainStarts, MainEnds
<1>1. UNCHANGED callVars
  BY MainFlows
<1>2. writer \in [Writer -> Stream] /\ (Dispose => s_writer \in Writer)
  BY DEF IInv, TypeOK, Called, Dispose, ClearLength, CloseDrains, Close, DropStream, MainStep
<1>3. \A u \in Thread : steady'[u] => KeptSoFar(u)'
  BY MainKeepsSteady DEF LinesInv
<1>4. /\ \A w \in Writer : Written(w)' = Written(w)
      /\ Closing'
  <2>1. CASE Unsubscribe \/ Subscribe \/ StartupFails \/ Discard \/ Release \/ ForgetWriter
    <3>1. UNCHANGED writer /\ main # "drop"
      BY <2>1 DEF Unsubscribe, Subscribe, StartupFails, Discard, Release, ForgetWriter, MainStep
    <3> QED
      BY <3>1 DEF Written, LinesInv, Closing
  <2>2. CASE StartupOpens
    <3>1. PICK w \in Writer : writer' = [writer EXCEPT ![w].held = TRUE, ![w].open = TRUE]
      BY <2>2 DEF StartupOpens
    <3>2. /\ \A v \in Writer : writer'[v].file = writer[v].file /\ writer'[v].buffer = writer[v].buffer
          /\ writer'[w].open /\ \A v \in Writer \ {w} : writer'[v] = writer[v]
      BY <1>2, <3>1 DEF Stream
    <3>3. main # "drop"
      BY <2>2 DEF StartupOpens, MainStep
    <3> QED
      BY <3>2, <3>3 DEF Written, LinesInv, Closing
  <2>3. CASE Dispose
    <3> PICK l \in Writer : l = s_writer
      BY <1>2, <2>3
    <3>1. UNCHANGED s_writer
      BY <2>3 DEF Dispose, ClearLength, CloseDrains, Close, DropStream
    <3>2. CASE ClearLength
      <4>1. writer' = [writer EXCEPT ![l].length = 0] /\ main # "drop"
        BY <3>2 DEF ClearLength, MainStep
      <4>2. \A v \in Writer : /\ writer'[v].file = writer[v].file /\ writer'[v].buffer = writer[v].buffer
                              /\ writer'[v].held = writer[v].held /\ writer'[v].open = writer[v].open
        BY <1>2, <4>1 DEF Stream
      <4> QED
        BY <4>1, <4>2 DEF Written, LinesInv, Closing
    <3>3. CASE CloseDrains
      <4>1. writer' = Drained(l) /\ main # "drop"
        BY <3>3 DEF CloseDrains, MainStep
      <4> QED
        BY <4>1, DrainedIsStream, DrainedIsWritten DEF LinesInv, Closing
    <3>4. CASE Close
      <4>1. writer' = [writer EXCEPT ![l].open = FALSE] /\ main # "drop" /\ main' = "drop"
        BY <3>4 DEF Close, MainStep
      <4>2. /\ \A v \in Writer : writer'[v].file = writer[v].file /\ writer'[v].buffer = writer[v].buffer
            /\ \A v \in Writer \ {l} : writer'[v] = writer[v]
        BY <1>2, <4>1 DEF Stream
      <4> QED
        BY <3>1, <4>1, <4>2 DEF Written, LinesInv, Closing
    <3>5. CASE DropStream
      <4>1. writer' = [writer EXCEPT ![l].held = FALSE] /\ main = "drop"
        BY <3>5 DEF DropStream, MainStep
      <4>2. /\ \A v \in Writer : writer'[v].file = writer[v].file /\ writer'[v].buffer = writer[v].buffer
            /\ ~writer'[l].held
            /\ \A v \in Writer \ {l} : writer'[v] = writer[v]
        BY <1>2, <4>1 DEF Stream
      <4> QED
        BY <4>1, <4>2 DEF Written, LinesInv, Closing
    <3> QED
      BY <2>3, <3>2, <3>3, <3>4, <3>5 DEF Dispose
  <2> QED
    BY <2>1, <2>2, <2>3
<1>5. said' = said /\ \A u \in Thread : Left(u)' = Left(u) /\ Left(u) \in Nat
  BY <1>1, LeftIsInt DEF callVars, Left, IInv
<1>6. InOrder' /\ Recent'
  BY <1>4, <1>5, UnwrittenKeeps DEF LinesInv
<1> QED
  BY <1>3, <1>4, <1>6 DEF LinesInv

LEMMA LinesInit == Init => LinesInv
<1> SUFFICES ASSUME Init PROVE LinesInv
  OBVIOUS
<1>1. \A w \in Writer : Written(w) = <<>> /\ writer[w] = NoStream
  BY DEF Init, NoStream, Written
<1>2. ASSUME NEW w \in Writer, NEW t \in Thread
      PROVE  Occurs(Written(w), LineOf(t)) + Left(t) <= Cardinality(Events(t))
  <2>1. Left(t) = 0 /\ Cardinality(Events(t)) \in 1..2
    BY EventsOfThread DEF Init, Left
  <2>2. Occurs(Written(w), LineOf(t)) = 0
    BY <1>1, OccursNowhere
  <2> QED
    BY <2>1, <2>2
<1>3. InOrder /\ Recent
  BY <1>1, <1>2 DEF InOrder, Recent
<1>4. Closing
  BY <1>1 DEF Closing, NoStream
<1> QED
  BY <1>3, <1>4 DEF LinesInv, Init

LEMMA LinesNext == IInv /\ IInv' /\ LinesInv /\ [Next]_vars => LinesInv'
<1> SUFFICES ASSUME IInv, IInv', LinesInv, [Next]_vars PROVE LinesInv'
  OBVIOUS
<1>1. CASE \E t \in Thread : Log(t)
  <2> PICK t \in Thread : Log(t)
    BY <1>1
  <2>1. Raise(t) /\ UNCHANGED mainVars
    BY DEF Log
  <2>2. s_writer' = s_writer /\ main' = main
    BY <2>1 DEF mainVars
  <2> QED
    BY <2>1, <2>2, RaiseKeepsLines
<1>2. CASE \E t \in Thread : LogCallback(t)
  BY <1>2, CallbackKeepsLines
<1>3. CASE LogWarning
  <2>1. Main \in Thread
    BY DEF Thread
  <2>2. Raise(Main) /\ main = "warn" /\ main' = "discard" /\ s_writer' = s_writer
    BY <1>3 DEF LogWarning
  <2> QED
    BY <2>1, <2>2, RaiseKeepsLines
<1>4. CASE MainStarts \/ MainEnds
  BY <1>4, MainKeepsLines
<1>5. CASE UNCHANGED vars
  <2>1. UNCHANGED <<mainVars, callVars, writer, steady>>
    BY <1>5 DEF vars
  <2>2. UNCHANGED <<s_writer, writer, main, subscribed, pc, this, calls, said, steady>>
    BY <2>1 DEF mainVars, callVars
  <2>3. InOrder' /\ Recent'
    <3>1. \A w \in Writer : Written(w)' = Written(w)
      BY <2>2 DEF Written
    <3>2. \A u \in Thread : Left(u)' = Left(u) /\ Left(u) \in Nat
      BY <2>2, LeftIsInt DEF Left, IInv
    <3> QED
      BY <2>2, <3>1, <3>2, UnwrittenKeeps DEF LinesInv
  <2>5. Closing'
    BY <2>2 DEF LinesInv, Closing
  <2>4. ASSUME NEW u \in Thread, steady'[u] PROVE KeptSoFar(u)'
    <3>1. KeptSoFar(u)
      BY <2>2, <2>4 DEF LinesInv
    <3>2. LineOf(u)' = LineOf(u) /\ (Up' <=> Up)
      BY <2>2 DEF LineOf, Up
    <3>3. \A w \in Writer : Kept(u, w) => Kept(u, w)'
      BY <2>2, <3>2 DEF Kept, Holds
    <3> QED
      BY <2>2, <3>1, <3>2, <3>3 DEF KeptSoFar, Holds, Usable
  <2> QED
    BY <2>3, <2>4, <2>5 DEF LinesInv
<1> QED
  BY <1>1, <1>2, <1>3, <1>4, <1>5 DEF Next, Startup, MainStarts, MainEnds

LEMMA LinesAlways == Spec => [](IInv /\ LinesInv)
<1>1. Init => LinesInv
  BY LinesInit
<1>2. IInv /\ IInv' /\ LinesInv /\ [Next]_vars => LinesInv'
  BY LinesNext
<1> QED
  BY <1>1, <1>2, InvAlways, PTL DEF Spec

\* When LogCallback has returned for a line before a Dispose began, the line is
\* in a file for good, or in the buffer of a writer that a second Startup has
\* replaced meanwhile; the lines of a thread are in a file in their order, none
\* too often; and until a Dispose begins none waits in the buffer of the log
\* outside the lock statement: with any number of threads, lines and log files.
THEOREM LogStaysKept == Spec => []LogIsKept
<1>1. IInv /\ LinesInv => LineIsOnDisk
  BY DEF LinesInv, KeptSoFar, LineIsOnDisk
<1>2. IInv /\ LinesInv => InOrder
  BY DEF LinesInv
<1>3. Spec => []NothingBuffered
  BY EveryLineIsFlushed
<1>4. LineIsOnDisk /\ InOrder /\ NothingBuffered => LogIsKept
  BY DEF LogIsKept
<1> QED
  BY <1>1, <1>2, <1>3, <1>4, LinesAlways, PTL
=============================================================================
