---------------------------- MODULE AsyncRunner ----------------------------
(***************************************************************************)
(* BackgroundAsyncRunner (app/runtime/async_runner.py): threads run        *)
(* coroutines on the event loop of one background thread, and close stops  *)
(* the loop.                                                               *)
(*                                                                         *)
(* The event loop is asyncio's (external): a queue of handles, run in      *)
(* batches.  A batch holds the handles queued when it begins; loop.stop is *)
(* a handle too and ends the loop after the batch it is in.  A coroutine   *)
(* that has ended tells its caller by a handle of the next batch.  A       *)
(* coroutine awaits once here, or not at all.                              *)
(***************************************************************************)
EXTENDS Integers, Sequences, FiniteSets, Functions

CONSTANTS
  Caller,    \* threads that call run
  NoCaller   \* the caller of a handle that belongs to none

ASSUME NoCallerAssumption == NoCaller \notin Caller
ASSUME CallerAssumption == IsFiniteSet(Caller)

VARIABLES
  call,      \* per caller, where its call of run and its coroutine stand
  outcome,   \* per caller, what its last call of run returns or raises
  closed,    \* _closed
  closer,    \* where close stands
  loop,      \* run_forever, run_until_complete of the gathered tasks, or closed
  stopping,  \* loop.stop has run in this batch
  ready,     \* handles queued for the next batch
  batch,     \* handles of the present batch still to run
  gathered   \* calls whose cancelled tasks _run_loop waits for

loopVars == <<loop, stopping, ready, batch, gathered>>
runnerVars == <<call, outcome, closed, closer, loopVars>>

CallState == {"out",        \* not in run
              "checked",    \* _closed was not set
              "queued",     \* submitted, waiting in future.result() from here on
              "ready",      \* a task, its first step is queued
              "suspended",  \* a task that awaits
              "woken",      \* a task, its last step is queued
              "ended"}      \* the telling of the caller is queued

Outcome == {"none", "result", "error", "cancelled", "refused"}

Handle(kind, c) == [kind |-> kind, caller |-> c]
Handles == [kind : {"submit", "step", "tell"}, caller : Caller]
           \cup {Handle("stop", NoCaller)}

\* The variables keep their types.
RunnerTypeOK ==
  /\ call \in [Caller -> CallState]
  /\ outcome \in [Caller -> Outcome]
  /\ closed \in BOOLEAN
  /\ closer \in {"open", "flagged", "joining", "closed"}
  /\ loop \in {"running", "draining", "closed"}
  /\ stopping \in BOOLEAN
  /\ ready \in Seq(Handles)
  /\ batch \in Seq(Handles)
  /\ gathered \subseteq Caller

\* What close has done so far, as the flag and the loop show it.
CloseOrder ==
  /\ closed <=> closer # "open"
  /\ stopping \/ loop # "running" => closer \in {"joining", "closed"}
  /\ closer = "closed" => loop = "closed"

RunnerInit ==
  /\ call = [c \in Caller |-> "out"]
  /\ outcome = [c \in Caller |-> "none"]
  /\ closed = FALSE
  /\ closer = "open"
  /\ loop = "running"
  /\ stopping = FALSE
  /\ ready = <<>>
  /\ batch = <<>>
  /\ gathered = {}

-----------------------------------------------------------------------------
(* run, on the caller's thread *)

Moves(c, s) == call' = [call EXCEPT ![c] = s]
Outcomes(c, o) == outcome' = [outcome EXCEPT ![c] = o]

\* run begins: it raises when _closed is set.
Check(c) ==
  /\ call[c] = "out"
  /\ \/ ~closed /\ Moves(c, "checked") /\ Outcomes(c, "none")
     \/ closed /\ Outcomes(c, "refused") /\ UNCHANGED call
  /\ UNCHANGED <<closed, closer, loopVars>>

\* run_coroutine_threadsafe queues the coroutine; it raises on a closed loop.
Submit(c) ==
  /\ call[c] = "checked"
  /\ \/ /\ loop # "closed"
        /\ ready' = Append(ready, Handle("submit", c))
        /\ Moves(c, "queued") /\ UNCHANGED outcome
     \/ /\ loop = "closed"
        /\ Moves(c, "out") /\ Outcomes(c, "refused") /\ UNCHANGED ready
  /\ UNCHANGED <<closed, closer, loop, stopping, batch, gathered>>

-----------------------------------------------------------------------------
(* The loop's thread *)

BeginBatch ==
  /\ loop # "closed"
  /\ batch = <<>> /\ ~stopping /\ ready # <<>>
  /\ batch' = ready
  /\ ready' = <<>>
  /\ UNCHANGED <<call, outcome, closed, closer, loop, stopping, gathered>>

TurnOf(kind) == loop # "closed" /\ batch # <<>> /\ Head(batch).kind = kind
Current == Head(batch).caller

\* The coroutine becomes a task.
RunSubmit ==
  /\ TurnOf("submit")
  /\ Moves(Current, "ready")
  /\ ready' = Append(ready, Handle("step", Current))
  /\ batch' = Tail(batch)
  /\ UNCHANGED <<outcome, closed, closer, loop, stopping, gathered>>

Await ==
  /\ TurnOf("step")
  /\ call[Current] = "ready" /\ Current \notin gathered
  /\ Moves(Current, "suspended")
  /\ batch' = Tail(batch)
  /\ UNCHANGED <<outcome, closed, closer, loop, stopping, ready, gathered>>

\* The coroutine ends, by its own doing or because it was cancelled.
EndTask ==
  /\ TurnOf("step")
  /\ \E o \in IF Current \in gathered THEN {"cancelled"} ELSE {"result", "error"} :
       Outcomes(Current, o)
  /\ Moves(Current, "ended")
  /\ ready' = Append(ready, Handle("tell", Current))
  /\ batch' = Tail(batch)
  /\ UNCHANGED <<closed, closer, loop, stopping, gathered>>

\* The future of the caller is set and run returns or raises.  With the last
\* of the gathered tasks the loop is to stop again.
Tell ==
  /\ TurnOf("tell")
  /\ Moves(Current, "out")
  /\ gathered' = gathered \ {Current}
  /\ ready' = IF gathered = {Current} THEN Append(ready, Handle("stop", NoCaller))
              ELSE ready
  /\ batch' = Tail(batch)
  /\ UNCHANGED <<outcome, closed, closer, loop, stopping>>

RunStop ==
  /\ TurnOf("stop")
  /\ stopping' = TRUE
  /\ batch' = Tail(batch)
  /\ UNCHANGED <<call, outcome, closed, closer, loop, ready, gathered>>

\* What a task awaits happens, on the loop's thread or on another one.
Wake(c) ==
  /\ call[c] = "suspended"
  /\ loop # "closed"
  /\ Moves(c, "woken")
  /\ ready' = Append(ready, Handle("step", c))
  /\ UNCHANGED <<outcome, closed, closer, loop, stopping, batch, gathered>>

Pending == {c \in Caller : call[c] \in {"ready", "suspended", "woken"}}

\* all_tasks is a set: its tasks are cancelled in some order.
Orders(S) == Bijection(1 .. Cardinality(S), S)

StopsHere == loop = "running" /\ stopping /\ batch = <<>>

CloseLoop == loop' = "closed" /\ ready' = <<>> /\ UNCHANGED <<call, stopping, gathered>>

\* Mutant: the loop is closed over its pending tasks.
LeaveAbruptly ==
  /\ StopsHere
  /\ CloseLoop
  /\ UNCHANGED <<outcome, closed, closer, batch>>

\* Mutant: the handles queued for the next batch are dropped.
LeaveDroppingQueue ==
  /\ StopsHere
  /\ \/ Pending = {} /\ CloseLoop
     \/ /\ Pending # {}
        /\ \E s \in Orders({c \in Pending : call[c] = "suspended"}) :
             ready' = [i \in 1 .. Len(s) |-> Handle("step", s[i])]
        /\ call' = [c \in Caller |-> IF call[c] = "suspended" THEN "woken" ELSE call[c]]
        /\ gathered' = Pending
        /\ loop' = "draining"
        /\ stopping' = FALSE
  /\ UNCHANGED <<outcome, closed, closer, batch>>

\* run_forever returns.  The pending tasks are cancelled, and the loop goes on
\* until all of them have ended; without any it is closed, and what is queued lost.
LeaveForever ==
  /\ StopsHere
  /\ \/ Pending = {} /\ CloseLoop
     \/ /\ Pending # {}
        /\ \E s \in Orders({c \in Pending : call[c] = "suspended"}) :
             ready' = ready \o [i \in 1 .. Len(s) |-> Handle("step", s[i])]
        /\ call' = [c \in Caller |-> IF call[c] = "suspended" THEN "woken" ELSE call[c]]
        /\ gathered' = Pending
        /\ loop' = "draining"
        /\ stopping' = FALSE
  /\ UNCHANGED <<outcome, closed, closer, batch>>

\* run_until_complete returns and the loop is closed.
LeaveDrained ==
  /\ loop = "draining" /\ stopping /\ batch = <<>>
  /\ CloseLoop
  /\ UNCHANGED <<outcome, closed, closer, batch>>

LoopStep ==
  \/ BeginBatch \/ RunSubmit \/ Await \/ EndTask \/ Tell \/ RunStop
  \/ LeaveForever \/ LeaveDrained

-----------------------------------------------------------------------------
(* close, on the one thread that calls it *)

\* Mutant: the loop is stopped and run is not told.
CloseUnflagged ==
  /\ closer = "open"
  /\ closer' = "flagged"
  /\ UNCHANGED <<call, outcome, closed, loopVars>>

CloseFlag ==
  /\ closer = "open"
  /\ closed' = TRUE
  /\ closer' = "flagged"
  /\ UNCHANGED <<call, outcome, loopVars>>

\* Mutant: the loop is joined without being told to stop.
CloseUnstopped ==
  /\ closer = "flagged"
  /\ closer' = "joining"
  /\ UNCHANGED <<call, outcome, closed, loopVars>>

CloseStop ==
  /\ closer = "flagged"
  /\ ready' = Append(ready, Handle("stop", NoCaller))
  /\ closer' = "joining"
  /\ UNCHANGED <<call, outcome, closed, loop, stopping, batch, gathered>>

CloseJoin ==
  /\ closer = "joining"
  /\ loop = "closed"
  /\ closer' = "closed"
  /\ UNCHANGED <<call, outcome, closed, loopVars>>

CloseStep == CloseStop \/ CloseJoin

RunnerNext ==
  \/ \E c \in Caller : Check(c) \/ Submit(c) \/ Wake(c)
  \/ LoopStep
  \/ CloseFlag \/ CloseStep

\* The loop's thread runs, a caller goes on, an await ends, and so does close.
RunnerSpec ==
  /\ RunnerInit /\ [][RunnerNext]_runnerVars
  /\ WF_runnerVars(LoopStep) /\ WF_runnerVars(CloseStep)
  /\ \A c \in Caller : WF_runnerVars(Submit(c)) /\ WF_runnerVars(Wake(c))

-----------------------------------------------------------------------------
Waiting(c) == call[c] \in {"queued", "ready", "suspended", "woken", "ended"}

\* The kind of handle that takes a waiting call on.
Due(c) == CASE call[c] = "queued" -> "submit"
            [] call[c] \in {"ready", "woken"} -> "step"
            [] call[c] = "ended" -> "tell"

\* What is left of the present batch, and the next one.
Queue == batch \o ready
HandlesOf(c) == {i \in DOMAIN Queue : Queue[i].caller = c}

\* Until the loop is closed, through the stop, the cancellation and the draining, a
\* call that waits has exactly one handle that takes it on, unless it awaits.
WakeupsAreKept ==
  loop # "closed" =>
    \A c \in Caller :
      IF Waiting(c) /\ call[c] # "suspended"
      THEN \E i \in HandlesOf(c) : /\ HandlesOf(c) = {i}
                                   /\ Queue[i].kind = Due(c)
      ELSE HandlesOf(c) = {}

\* Only close stops the loop; the draining is part of it.
StopOrder ==
  gathered # {} \/ (\E i \in DOMAIN Queue : Queue[i].kind = "stop") =>
    closer \in {"joining", "closed"}

\* What holds between any two steps of the threads, the loop and close.
RunnerInv == RunnerTypeOK /\ CloseOrder /\ StopOrder /\ WakeupsAreKept

\* A coroutine submitted before loop.stop is queued runs to its end or is cancelled;
\* close abandons none, although it may lose the telling of the caller.
EarlyCoroutinesEnd ==
  \A c \in Caller :
    Waiting(c) /\ closer \in {"open", "flagged"} ~> call[c] \in {"out", "ended"}

\* run: "Synchronously execute *coro* on the managed event loop."  A call that has
\* submitted its coroutine returns or raises.
EveryRunReturns == \A c \in Caller : Waiting(c) ~> call[c] = "out"

=============================================================================
