------------------------------ MODULE DebugLib ------------------------------
(***************************************************************************)
(* client/Assets/Scripts/Common/DebugLib: DebugUtils subscribes LogCallback *)
(* to both of Unity's log events and writes every line to a file, under a  *)
(* lock. Startup and Release run on the main thread and take no lock.      *)
(* Threads log at any time. A step is what one thread does between two     *)
(* accesses to what the threads share.                                     *)
(***************************************************************************)
EXTENDS Integers, Sequences, FiniteSets

CONSTANTS
  Main,          \* Unity's main thread
  Other,         \* the other threads
  Writer,        \* the DebugWriters that can be made: a bound on Startup
  MaxLines,      \* bound: lines that each thread logs
  MaxFailures,   \* bound: times that Startup cannot open its file
  None

ASSUME DebugLibAssumption ==
  /\ Main \notin Other /\ None \notin Writer \cup Other \cup {Main}
  /\ MaxLines \in Nat /\ MaxFailures \in Nat

Thread == Other \cup {Main}

\* The events that a line of the thread raises: logMessageReceived is raised
\* for the main thread only.
Events(t) == IF t = Main THEN {"received", "threaded"} ELSE {"threaded"}

VARIABLES
  s_writer,     \* DebugUtils.s_writer
  writer,       \* each DebugWriter and the stream it holds
  subscribed,   \* the events that LogCallback is subscribed to
  lock,         \* who holds s_lockFlag
  main,         \* where the main thread is in Startup or Release
  releasing,    \* whether Dispose is called by Release
  failures,     \* how often Startup failed
  pc,           \* where each thread is in LogCallback
  this,         \* the DebugWriter that the thread has called
  calls,        \* the calls of LogCallback still to come for the line
  said,         \* how many lines each thread has logged
  steady,       \* history: the log was open for the line that each thread
                \* logged last, and no Dispose met its callback
  disposed,     \* history: a Dispose has begun
  failed        \* history: a callback ended with an exception

mainVars == <<s_writer, subscribed, main, releasing, failures, disposed>>
callVars == <<lock, pc, this, calls, said, failed>>
vars == <<mainVars, callVars, writer, steady>>

Line == [thread : Thread, n : Nat]
Stream == [held : BOOLEAN, open : BOOLEAN, length : {0, 1}, buffer : Seq(Line), file : Seq(Line)]
NoStream == [held |-> FALSE, open |-> FALSE, length |-> 0, buffer |-> <<>>, file |-> <<>>]

TypeOK ==
  /\ s_writer \in Writer \cup {None}
  /\ writer \in [Writer -> Stream]
  /\ subscribed \subseteq {"received", "threaded"}
  /\ lock \in Thread \cup {None}
  /\ main \in {"run", "subscribe", "resubscribe", "warn", "discard",
               "clear", "drain", "close", "drop", "forget"}
  /\ releasing \in BOOLEAN /\ failures \in 0..MaxFailures
  /\ pc \in [Thread -> {"idle", "lock", "write", "append", "measure", "flush", "drain", "reset"}]
  /\ this \in [Thread -> Writer \cup {None}]
  /\ calls \in [Thread -> 0..2] /\ said \in [Thread -> Nat]
  /\ steady \in [Thread -> BOOLEAN] /\ disposed \in BOOLEAN /\ failed \in BOOLEAN

Init ==
  /\ s_writer = None /\ subscribed = {} /\ main = "run"
  /\ writer = [w \in Writer |-> NoStream]
  /\ releasing = FALSE /\ failures = 0
  /\ lock = None
  /\ pc = [t \in Thread |-> "idle"] /\ this = [t \in Thread |-> None]
  /\ calls = [t \in Thread |-> 0] /\ said = [t \in Thread |-> 0]
  /\ steady = [t \in Thread |-> FALSE] /\ disposed = FALSE /\ failed = FALSE

\* There is a log, and Dispose has not begun with it.
Up ==
  /\ s_writer # None /\ writer[s_writer].held
  /\ main \notin {"drain", "close", "drop", "forget"}

-----------------------------------------------------------------------------
(* LogCallback, called by Unity for every line and every event.            *)

Raise(t) ==
  /\ pc[t] = "idle"
  /\ said' = [said EXCEPT ![t] = @ + 1]
  /\ calls' = [calls EXCEPT ![t] = Cardinality(subscribed \cap Events(t))]
  /\ pc' = [pc EXCEPT ![t] = IF calls'[t] > 0 THEN "lock" ELSE "idle"]
  /\ steady' = [steady EXCEPT ![t] = Up /\ calls'[t] > 0]
  /\ UNCHANGED <<lock, this, failed, writer>>

Log(t) ==
  /\ said[t] < MaxLines
  /\ t = Main => main = "run"
  /\ Raise(t)
  /\ UNCHANGED mainVars

\* Mutant: LogCallback without its lock statement.
Enter_Unlocked(t) ==
  /\ pc[t] = "lock"
  /\ lock' = t
  /\ pc' = [pc EXCEPT ![t] = "write"]
  /\ UNCHANGED <<this, calls, said, failed, writer>>

Enter(t) ==
  /\ pc[t] = "lock" /\ lock = None
  /\ lock' = t
  /\ pc' = [pc EXCEPT ![t] = "write"]
  /\ UNCHANGED <<this, calls, said, failed, writer>>

\* Mutant: the callback is called once too often.
Leave_Again(t) ==
  /\ lock' = None
  /\ calls' = [calls EXCEPT ![t] = @ - 1]
  /\ pc' = [pc EXCEPT ![t] = IF calls[t] >= 1 THEN "lock" ELSE "idle"]
  /\ this' = [this EXCEPT ![t] = None]
  /\ UNCHANGED failed

\* The end of the lock statement: the next event, if there is one.
Leave(t) ==
  /\ lock' = None
  /\ calls' = [calls EXCEPT ![t] = @ - 1]
  /\ pc' = [pc EXCEPT ![t] = IF calls[t] > 1 THEN "lock" ELSE "idle"]
  /\ this' = [this EXCEPT ![t] = None]
  /\ UNCHANGED failed

\* Mutant: an exception leaves the lock held, as Enter and Exit without finally would.
Throw_Locked(t) ==
  /\ calls' = [calls EXCEPT ![t] = 0]
  /\ pc' = [pc EXCEPT ![t] = "idle"]
  /\ this' = [this EXCEPT ![t] = None]
  /\ failed' = TRUE
  /\ UNCHANGED lock

\* A null reference or a closed stream: the exception leaves the lock
\* statement and the callback, and the line raises no further event.
Throw(t) ==
  /\ lock' = None
  /\ calls' = [calls EXCEPT ![t] = 0]
  /\ pc' = [pc EXCEPT ![t] = "idle"]
  /\ this' = [this EXCEPT ![t] = None]
  /\ failed' = TRUE

\* The callback goes on at l, in a method of the DebugWriter w.
Goto(t, l, w) ==
  /\ pc' = [pc EXCEPT ![t] = l]
  /\ this' = [this EXCEPT ![t] = w]
  /\ UNCHANGED <<lock, calls, failed>>

Usable(w) == writer[w].held /\ writer[w].open

\* DebugWriter.Write as far as its test of this.writer.
Write(t) ==
  /\ pc[t] = "write"
  /\ IF s_writer = None THEN Throw(t)
     ELSE Goto(t, IF writer[s_writer].held THEN "append" ELSE "measure", s_writer)
  /\ UNCHANGED <<said, writer>>

WriteLine(t) ==
  /\ pc[t] = "append"
  /\ IF Usable(this[t])
       THEN /\ writer' = [writer EXCEPT ![this[t]].buffer =
                            Append(@, [thread |-> t, n |-> said[t]])]
            /\ Goto(t, "measure", this[t])
       ELSE Throw(t) /\ UNCHANGED writer
  /\ UNCHANGED said

Measure(t) ==
  /\ pc[t] = "measure"
  /\ writer' = [writer EXCEPT ![this[t]].length = 1]
  /\ Goto(t, "flush", None)
  /\ UNCHANGED said

\* DebugWriter.Flush as far as its test.
Flush(t) ==
  /\ pc[t] = "flush"
  /\ IF s_writer = None THEN Throw(t)
     ELSE IF writer[s_writer].held /\ writer[s_writer].length > 0
       THEN Goto(t, "drain", s_writer)
       ELSE Leave(t)
  /\ UNCHANGED <<said, writer>>

Drained(w) == [writer EXCEPT ![w].file = @ \o writer[w].buffer, ![w].buffer = <<>>]

FlushStream(t) ==
  /\ pc[t] = "drain"
  /\ IF Usable(this[t])
       THEN writer' = Drained(this[t]) /\ Goto(t, "reset", this[t])
       ELSE Throw(t) /\ UNCHANGED writer
  /\ UNCHANGED said

ResetLength(t) ==
  /\ pc[t] = "reset"
  /\ writer' = [writer EXCEPT ![this[t]].length = 0]
  /\ Leave(t)
  /\ UNCHANGED said

LogCallback(t) ==
  /\ \/ Enter(t) \/ Write(t) \/ WriteLine(t) \/ Measure(t)
     \/ Flush(t) \/ FlushStream(t) \/ ResetLength(t)
  /\ UNCHANGED <<mainVars, steady>>

-----------------------------------------------------------------------------
(* Startup and Release, on the main thread.                                *)

\* The main thread goes on when its own callbacks have returned.
MainStep(from, to) ==
  /\ main = from /\ pc[Main] = "idle"
  /\ main' = to
  /\ UNCHANGED callVars

StartupOpens ==
  /\ MainStep("run", "subscribe")
  /\ \E w \in Writer :
       /\ writer[w] = NoStream
       /\ writer' = [writer EXCEPT ![w].held = TRUE, ![w].open = TRUE]
       /\ s_writer' = w
  /\ UNCHANGED <<subscribed, releasing, failures, disposed, steady>>

\* logMessageReceived is only raised on this thread; the other event is
\* given up before it is subscribed to again.
Unsubscribe ==
  /\ MainStep("subscribe", "resubscribe")
  /\ subscribed' = (subscribed \ {"threaded"}) \cup {"received"}
  /\ UNCHANGED <<s_writer, releasing, failures, disposed, writer, steady>>

Subscribe ==
  /\ MainStep("resubscribe", "run")
  /\ subscribed' = subscribed \cup {"threaded"}
  /\ UNCHANGED <<s_writer, releasing, failures, disposed, writer, steady>>

\* The new DebugWriter throws: s_writer is still the old one.
StartupFails ==
  /\ failures < MaxFailures
  /\ MainStep("run", "warn")
  /\ failures' = failures + 1
  /\ UNCHANGED <<s_writer, subscribed, releasing, disposed, writer, steady>>

LogWarning ==
  /\ main = "warn"
  /\ Raise(Main)
  /\ main' = "discard"
  /\ UNCHANGED <<s_writer, subscribed, releasing, failures, disposed>>

\* The call of Dispose, if there is a writer: a second Dispose does nothing.
Discard ==
  /\ MainStep("discard", IF s_writer # None /\ writer[s_writer].held THEN "clear" ELSE "run")
  /\ UNCHANGED <<s_writer, subscribed, releasing, failures, disposed, writer, steady>>

\* Mutant: Release lets go of the writer without Dispose.
Release_NoDispose ==
  /\ s_writer # None
  /\ MainStep("run", "forget")
  /\ releasing' = TRUE
  /\ UNCHANGED <<s_writer, subscribed, failures, disposed, writer, steady>>

Release ==
  /\ s_writer # None
  /\ MainStep("run", IF writer[s_writer].held THEN "clear" ELSE "forget")
  /\ releasing' = TRUE
  /\ UNCHANGED <<s_writer, subscribed, failures, disposed, writer, steady>>

\* Dispose resets Length, closes the stream, which first writes what is
\* buffered, and lets go of it.
ClearLength ==
  /\ MainStep("clear", "drain")
  /\ writer' = [writer EXCEPT ![s_writer].length = 0]
  /\ disposed' = TRUE
  /\ steady' = [t \in Thread |-> steady[t] /\ pc[t] = "idle"]
  /\ UNCHANGED <<s_writer, subscribed, releasing, failures>>

CloseDrains ==
  /\ MainStep("drain", "close")
  /\ writer' = Drained(s_writer)
  /\ UNCHANGED <<s_writer, subscribed, releasing, failures, disposed, steady>>

Close ==
  /\ MainStep("close", "drop")
  /\ writer' = [writer EXCEPT ![s_writer].open = FALSE]
  /\ UNCHANGED <<s_writer, subscribed, releasing, failures, disposed, steady>>

DropStream ==
  /\ MainStep("drop", IF releasing THEN "forget" ELSE "run")
  /\ writer' = [writer EXCEPT ![s_writer].held = FALSE]
  /\ UNCHANGED <<s_writer, subscribed, releasing, failures, disposed, steady>>

ForgetWriter ==
  /\ MainStep("forget", "run")
  /\ s_writer' = None
  /\ releasing' = FALSE
  /\ UNCHANGED <<subscribed, failures, disposed, writer, steady>>

Startup == StartupOpens \/ Unsubscribe \/ Subscribe \/ StartupFails \/ LogWarning \/ Discard
Dispose == ClearLength \/ CloseDrains \/ Close \/ DropStream

Next ==
  \/ \E t \in Thread : Log(t) \/ LogCallback(t)
  \/ Startup \/ Release \/ Dispose \/ ForgetWriter

Spec == Init /\ [][Next]_vars

\* Threads that have entered LogCallback are scheduled; nobody has to log,
\* to start or to release.
FairSpec == Spec /\ \A t \in Thread : WF_vars(LogCallback(t))

-----------------------------------------------------------------------------
Occurs(s, x) == Cardinality({i \in DOMAIN s : s[i] = x})
LineOf(t) == [thread |-> t, n |-> said[t]]
Written(w) == writer[w].file \o writer[w].buffer

Holds(lines, x) == \E i \in DOMAIN lines : lines[i] = x

\* The line that the thread logged last is in the file of a log. The one way
\* out is a second Startup during its callback: the line may be left in the
\* buffer of the writer that was replaced, which nothing flushes or closes.
Kept(t, w) ==
  \/ Holds(writer[w].file, LineOf(t))
  \/ w # s_writer /\ writer[w].open /\ Holds(writer[w].buffer, LineOf(t))

\* A line whose callback has returned before a Dispose began is kept, and stays
\* so whatever Startup and Release do then.
LineIsOnDisk == \A t \in Thread : pc[t] = "idle" /\ steady[t] => \E w \in Writer : Kept(t, w)

\* The lines of a thread are in a file in the order it logged them, and none
\* more often than it raises events: those of the main thread at most twice.
InOrder ==
  \A w \in Writer :
    /\ \A i, j \in DOMAIN Written(w) :
         i < j /\ Written(w)[i].thread = Written(w)[j].thread =>
           Written(w)[i].n <= Written(w)[j].n
    /\ \A i \in DOMAIN Written(w) :
         Occurs(Written(w), Written(w)[i]) <= Cardinality(Events(Written(w)[i].thread))

\* LogCallback throws only after a Dispose has begun.
ThrowsOnlyAfterDispose == failed => disposed

\* Outside the lock statement no line waits in the buffer of the log, unless
\* a Dispose or another Startup met its callback.
NothingBuffered ==
  lock = None /\ ~disposed /\ s_writer # None => writer[s_writer].buffer = <<>>

\* The log file is the log: a line is in it when its callback returns and does
\* not wait in a buffer, in order and not too often. What a Dispose meets or
\* comes before may be lost. That each line is written to the disk at once is
\* what the code does (DebugUtils.cs:85-86); the comments of its two constants
\* (DebugUtils.cs:13-16), which nothing uses, say otherwise.
LogIsKept == LineIsOnDisk /\ InOrder /\ NothingBuffered

\* A thread that logs is not held up for ever by other threads that each log a
\* bounded number of lines, by a Startup or a Release, or by a callback that
\* ends with an exception.
CallbackReturns == \A t \in Thread : pc[t] # "idle" ~> pc[t] = "idle"

-----------------------------------------------------------------------------
\* What makes the invariants about exceptions and the buffer inductive.

\* A callback has an event to handle and a DebugWriter it is in; Dispose has
\* one to dispose of.
Called ==
  /\ \A t \in Thread :
       /\ pc[t] # "idle" => calls[t] >= 1
       /\ pc[t] \in {"append", "measure", "drain", "reset"} => this[t] # None
  /\ main \in {"clear", "drain", "close", "drop"} => s_writer # None

\* The lock statement: one thread at a time is behind Enter.
Locked == \A t \in Thread : lock = t <=> pc[t] \notin {"idle", "lock"}

\* Until the first Dispose a callback finds the log and its stream usable.
Undisturbed ==
  ~disposed =>
    /\ ~failed
    /\ main \notin {"drain", "close", "drop", "forget"}
    /\ main \in {"subscribe", "resubscribe"} \/ subscribed # {} => s_writer # None
    /\ s_writer # None => Usable(s_writer)
    /\ \A t \in Thread :
         /\ pc[t] # "idle" => s_writer # None
         /\ pc[t] \in {"append", "drain"} => Usable(this[t])

\* A line in the buffer of the log is about to be flushed.
Flushing ==
  ~disposed /\ s_writer # None /\ writer[s_writer].buffer # <<>> =>
    \E t \in Thread :
      /\ lock = t
      /\ \/ pc[t] \in {"measure", "drain"} /\ this[t] = s_writer
         \/ pc[t] = "flush" /\ writer[s_writer].length = 1

IInv == TypeOK /\ Called /\ Locked /\ Undisturbed /\ Flushing

-----------------------------------------------------------------------------
\* What makes the invariants about the lines of the log inductive.

\* How often the thread may still write its line.
Left(t) ==
  IF pc[t] = "idle" THEN 0
  ELSE IF pc[t] \in {"lock", "write", "append"} THEN calls[t] ELSE calls[t] - 1

\* No line is from the future, and what a thread may still write of its line
\* does not exceed what it should.
Recent ==
  \A w \in Writer :
    /\ \A i \in DOMAIN Written(w) : Written(w)[i].n <= said[Written(w)[i].thread]
    /\ \A t \in Thread : Occurs(Written(w), LineOf(t)) + Left(t) <= Cardinality(Events(t))

\* A stream is let go of as soon as it is closed.
Closing ==
  \A w \in Writer : writer[w].held => writer[w].open \/ (main = "drop" /\ w = s_writer)

\* A steady line: its callback finds the log and its own writer usable, and
\* has the line where the flush will take it to the file.
KeptSoFar(t) ==
  /\ pc[t] # "idle" => Up
  /\ pc[t] \in {"append", "measure", "drain", "reset"} => Usable(this[t])
  /\ pc[t] = "measure" => Holds(writer[this[t]].buffer, LineOf(t))
  /\ pc[t] = "flush" =>
       \E w \in Writer :
         Kept(t, w) \/ (writer[w].open /\ writer[w].length = 1 /\ Holds(writer[w].buffer, LineOf(t)))
  /\ pc[t] = "drain" =>
       \E w \in Writer : Kept(t, w) \/ (w = this[t] /\ Holds(writer[w].buffer, LineOf(t)))
  /\ pc[t] \in {"idle", "reset"} => \E w \in Writer : Kept(t, w)

LinesInv ==
  /\ InOrder /\ Recent /\ Closing
  /\ \A t \in Thread : steady[t] => KeptSoFar(t)
=============================================================================
