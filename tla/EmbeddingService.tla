-------------------------- MODULE EmbeddingService --------------------------
(***************************************************************************)
(* EmbeddingService (app/cache/embedding.py): the model is loaded on first *)
(* use, under an asyncio.Lock, by the first coroutine that needs it; the   *)
(* others wait, or find it loaded.  Loading and encoding run in threads    *)
(* and may fail.                                                           *)
(*                                                                         *)
(* A step is what a coroutine does between two awaits.  The lock is FIFO:  *)
(* a released lock is for the first waiter, and whoever comes meanwhile    *)
(* queues behind it.                                                       *)
(***************************************************************************)
EXTENDS Integers, Sequences, FiniteSets

CONSTANTS
  Caller,   \* those who embed, one call at a time each
  Nobody    \* nobody holds the lock

ASSUME NobodyAssumption == Nobody \notin Caller

VARIABLES
  model,    \* has _model been set
  holder,   \* who holds _lock
  waiters,  \* who waits for it, in order
  embed     \* where each caller's embed stands

embedVars == <<model, holder, waiters, embed>>

EmbedState == {"out", "queued", "load", "encode", "bare", "done", "failed"}

EmbedTypeOK ==
  /\ model \in BOOLEAN
  /\ holder \in Caller \cup {Nobody}
  /\ waiters \in Seq(Caller)
  /\ embed \in [Caller -> EmbedState]

EmbedInit ==
  /\ model = FALSE
  /\ holder = Nobody
  /\ waiters = <<>>
  /\ embed = [c \in Caller |-> "out"]

Moves(c, from, to) == embed[c] = from /\ embed' = [embed EXCEPT ![c] = to]

-----------------------------------------------------------------------------
\* Mutant: the lock is not asked for.
CallUnlocked(c) ==
  /\ Moves(c, "out", IF model THEN "encode" ELSE "load")
  /\ UNCHANGED <<model, holder, waiters>>

\* embed and _ensure_model: with the model there, on to the encoding; with the lock
\* free and nobody in line for it, on to the loading; else wait.
Call(c) ==
  \/ model /\ Moves(c, "out", "encode") /\ UNCHANGED <<model, holder, waiters>>
  \/ /\ ~model /\ holder = Nobody /\ waiters = <<>>
     /\ Moves(c, "out", "load")
     /\ holder' = c
     /\ UNCHANGED <<model, waiters>>
  \/ /\ ~model /\ ~(holder = Nobody /\ waiters = <<>>)
     /\ Moves(c, "out", "queued")
     /\ waiters' = Append(waiters, c)
     /\ UNCHANGED <<model, holder>>

\* Mutant: a waiter that gets the lock does not look whether the model is there by now.
WokenUnchecked(c) ==
  /\ waiters # <<>> /\ Head(waiters) = c /\ holder = Nobody
  /\ waiters' = Tail(waiters)
  /\ Moves(c, "queued", "load")
  /\ holder' = c
  /\ UNCHANGED model

\* The first in line gets the free lock.  If the model has come meanwhile the lock is
\* released at once; if the load before has failed, this caller loads.
Woken(c) ==
  /\ waiters # <<>> /\ Head(waiters) = c /\ holder = Nobody
  /\ waiters' = Tail(waiters)
  /\ \/ model /\ Moves(c, "queued", "encode") /\ UNCHANGED holder
     \/ ~model /\ Moves(c, "queued", "load") /\ holder' = c
  /\ UNCHANGED model

Loaded(c) ==
  /\ Moves(c, "load", "encode")
  /\ model' = TRUE
  /\ holder' = Nobody
  /\ UNCHANGED waiters

\* Mutant: the lock is released on success only.
LoadFailsHolding(c) ==
  /\ Moves(c, "load", "failed")
  /\ UNCHANGED <<model, holder, waiters>>

\* The exception leaves the lock's block, which releases it, and embed.
LoadFails(c) ==
  /\ Moves(c, "load", "failed")
  /\ holder' = Nobody
  /\ UNCHANGED <<model, waiters>>

\* _encode_texts: a TypeError, or a ValueError about the prompt's name, leads to a
\* second call without it; any other error, an error of the second call, or an output
\* shorter than the dimension, leaves embed.
Encode(c) ==
  /\ \/ Moves(c, "encode", "done") \/ Moves(c, "bare", "done")
     \/ Moves(c, "encode", "bare")
     \/ Moves(c, "encode", "failed") \/ Moves(c, "bare", "failed")
  /\ UNCHANGED <<model, holder, waiters>>

EmbedStep(c) == Call(c) \/ Woken(c) \/ Loaded(c) \/ LoadFails(c) \/ Encode(c)

\* The caller has taken the result or the exception.
Leave(c) ==
  /\ embed' = [embed EXCEPT ![c] = "out"]
  /\ UNCHANGED <<model, holder, waiters>>

-----------------------------------------------------------------------------
Loading == {c \in Caller : embed[c] = "load"}

\* However calls, failures and wake-ups interleave, the model is never loaded by two
\* callers at a time: a load takes gigabytes.
OneLoadAtATime == \A c, d \in Loading : c = d

\* Once a load has succeeded none begins, not even by those who were waiting for the
\* lock when it did.
LoadedOnce == [][model => model' /\ \A c \in Caller : embed'[c] = "load" => c \in Loading]_embedVars

\* The lock is held by whoever loads and by nobody else, and those who wait stand in
\* line once each.
LockInv ==
  /\ \A c \in Caller : c \in Loading <=> holder = c
  /\ \A c \in Caller : embed[c] = "queued" <=> \E i \in DOMAIN waiters : waiters[i] = c
  /\ \A i, j \in DOMAIN waiters : waiters[i] = waiters[j] => i = j
  /\ model => holder = Nobody

=============================================================================
