----------------------------- MODULE RefreshPath -----------------------------
(***************************************************************************)
(* The refresh path: RefreshWorker.run_once (app/tasks/worker.py) over a   *)
(* batch of entries, and SemanticCacheService.log_refresh_outcome          *)
(* (app/cache/service.py), which moves an entry to the next or the         *)
(* previous TTL bucket, logs the outcome and its reward, and trains the    *)
(* policy.                                                                 *)
(*                                                                         *)
(* A worker's pc names the statement it is about to send.  The pipeline    *)
(* that judges an entry is an interface (app/tasks/pipeline.py): it may    *)
(* return any outcome, none at all, or raise.  Nothing starts run_once in  *)
(* the repository; cycles may start at any time, and overlap.              *)
(***************************************************************************)
EXTENDS CacheStorage

CONSTANTS
  Worker,         \* concurrent refresh cycles
  BatchLimit,     \* run_once's limit
  Lookback,       \* run_once's lookback, in clock ticks
  NoEntry,        \* no entry is being refreshed
  PolicyEnabled,  \* SemanticCacheSettings.policy_enabled
  RefreshFaults,  \* may a call of a cycle raise, or the cycle be killed
  MaxCycles       \* bound on the cycles started (of the model only)

ASSUME NoEntryAssumption == NoEntry \notin Fp
ASSUME RefreshSwitchesAssumption == PolicyEnabled \in BOOLEAN /\ RefreshFaults \in BOOLEAN
ASSUME RefreshBoundsAssumption == BatchLimit \in Nat /\ Lookback \in Nat /\ MaxCycles \in Nat

VARIABLES
  worker,      \* per worker, where its cycle stands
  cycles,      \* cycles started so far
  refreshed,   \* feedback_event: refresh outcomes logged with a decision, per entry
  rewards,     \* policy_reward: rewards attributed to the decision, per entry
  trained      \* updates of the policy with the decision of an entry, per action

learningVars == <<refreshed, rewards, trained>>
refreshVars == <<worker, cycles, learningVars>>

\* What an outcome tells log_refresh_outcome: fresh, fresh with bonus_applicable,
\* stale, or stale before a quarter of the TTL had passed.
Verdict == {"fresh", "bonus", "stale", "early"}

WorkerState ==
  [pc : {"idle", "list", "evaluate", "read", "adjust", "feedback", "reward",
         "fetch", "train"},
   todo : SUBSET Fp,                    \* candidates not yet evaluated
   entry : Fp \cup {NoEntry},           \* outcome.cache_entry_id
   verdict : Verdict \cup {"none"},
   decided : BOOLEAN,                   \* outcome.ttl_decision_id is not None
   bucket : Int,                        \* the new bucket, or the decision's
   expires : Int]                       \* the new expires_at

Asleep == [pc |-> "idle", todo |-> {}, entry |-> NoEntry, verdict |-> "none",
           decided |-> FALSE, bucket |-> NoBucket, expires |-> NoTime]

\* The variables keep their types.
RefreshTypeOK ==
  /\ worker \in [Worker -> WorkerState]
  /\ cycles \in Nat
  /\ refreshed \in [Fp -> Nat]
  /\ rewards \in [Fp -> Nat]
  /\ trained \in [Fp -> [Buckets -> Nat]]

RefreshInit ==
  /\ worker = [w \in Worker |-> Asleep]
  /\ cycles = 0
  /\ refreshed = [f \in Fp |-> 0]
  /\ rewards = [f \in Fp |-> 0]
  /\ trained = [f \in Fp |-> [b \in Buckets |-> 0]]

-----------------------------------------------------------------------------
Doing(w, call) == worker[w].pc = call

Continue(w, s) == worker' = [worker EXCEPT ![w] = s] /\ UNCHANGED cycles

Proceed(w, call) == Continue(w, [worker[w] EXCEPT !.pc = call])

\* Mutant: at its end the cycle lists candidates again.
LoopAndList(todo) ==
  [Asleep EXCEPT !.pc = IF todo = {} THEN "list" ELSE "evaluate", !.todo = todo]

\* The loop of run_once: the next candidate, or the end of the cycle.
Loop(todo) ==
  [Asleep EXCEPT !.pc = IF todo = {} THEN "idle" ELSE "evaluate", !.todo = todo]

\* What comes after outcome v of an entry: an adjustment, or its log.
AfterVerdict(v) == IF v \in {"bonus", "early"} THEN "read" ELSE "feedback"

\* run_once is called.
StartCycle(w) ==
  /\ Doing(w, "idle")
  /\ cycles < MaxCycles
  /\ cycles' = cycles + 1
  /\ worker' = [worker EXCEPT ![w].pc = "list"]
  /\ UNCHANGED <<clock, storageVars, learningVars>>

\* Candidates are created within the lookback and not expired; a batch holds
\* BatchLimit of them at most and leaves none that is newer.
Candidates == {f \in Fp : /\ HasRow(f)
                          /\ rows[f].created >= clock - Lookback
                          /\ rows[f].expires >= clock}

Batches ==
  {S \in SUBSET Candidates :
     /\ Cardinality(S) <= BatchLimit
     /\ Cardinality(S) < BatchLimit => S = Candidates
     /\ \A f \in S, g \in Candidates \ S : rows[g].created <= rows[f].created}

ListCandidates(w) ==
  /\ Doing(w, "list")
  /\ \E S \in Batches : Continue(w, Loop(S))
  /\ UNCHANGED <<clock, storageVars, learningVars>>

\* Candidates are evaluated newest first.
Newest(S) == {f \in S : \A g \in S : rows[g].created <= rows[f].created}

\* The pipeline returns no outcome.
Skip(w) ==
  /\ Doing(w, "evaluate")
  /\ \E f \in Newest(worker[w].todo) : Continue(w, Loop(worker[w].todo \ {f}))
  /\ UNCHANGED <<clock, storageVars, learningVars>>

\* The pipeline returns an outcome, with the entry's decision or without one.
Evaluate(w) ==
  /\ Doing(w, "evaluate")
  /\ \E f \in Newest(worker[w].todo), v \in Verdict, d \in BOOLEAN :
       /\ d => HasDecision(f)
       /\ Continue(w, [worker[w] EXCEPT !.pc = AfterVerdict(v), !.todo = @ \ {f},
                         !.entry = f, !.verdict = v, !.decided = d])
  /\ UNCHANGED <<clock, storageVars, learningVars>>

-----------------------------------------------------------------------------
(* _maybe_extend_ttl and _apply_guardrails: the entry is read, and its next  *)
(* or previous bucket written with a lifetime that starts at the read.       *)

\* The entry would leave the buckets: it stays where it is.
AtTheEnd(w, b) ==
  \/ worker[w].verdict = "bonus" /\ b >= LastBucket
  \/ worker[w].verdict = "early" /\ b <= 0

NextBucket(w, b) == IF worker[w].verdict = "bonus" THEN b + 1 ELSE b - 1

\* Mutant: the new lifetime is added to what is left of the old one.
ReadEntryExtending(w) ==
  /\ Doing(w, "read")
  /\ LET f == worker[w].entry
         b == NextBucket(w, rows[f].bucket)
     IN  IF ~HasRow(f) \/ AtTheEnd(w, rows[f].bucket) THEN Proceed(w, "feedback")
         ELSE Continue(w, [worker[w] EXCEPT !.pc = "adjust", !.bucket = b,
                                            !.expires = rows[f].expires + TTL[b]])
  /\ UNCHANGED <<clock, storageVars, learningVars>>

\* Mutant: no floor for guardrails; an index of -1 is the last of the TTLs.
ReadEntryWrapping(w) ==
  /\ Doing(w, "read")
  /\ LET f == worker[w].entry
         b == NextBucket(w, rows[f].bucket)
     IN  IF ~HasRow(f) \/ b > LastBucket THEN Proceed(w, "feedback")
         ELSE Continue(w, [worker[w] EXCEPT !.pc = "adjust", !.bucket = b,
                !.expires = clock + TTL[IF b < 0 THEN LastBucket ELSE b]])
  /\ UNCHANGED <<clock, storageVars, learningVars>>

\* The entry is read; unless it is at the end of the buckets it is to be moved.
ReadEntry(w) ==
  /\ Doing(w, "read")
  /\ LET f == worker[w].entry
         b == NextBucket(w, rows[f].bucket)
     IN  IF ~HasRow(f) \/ AtTheEnd(w, rows[f].bucket) THEN Proceed(w, "feedback")
         ELSE Continue(w, [worker[w] EXCEPT !.pc = "adjust", !.bucket = b,
                                            !.expires = clock + TTL[b]])
  /\ UNCHANGED <<clock, storageVars, learningVars>>

\* UPDATE cache_entry SET ttl_bucket, ttl_seconds, expires_at; no point is touched.
UpdateEntryTTL(f, bucket, expires) ==
  rows' = [rows EXCEPT ![f].bucket = bucket, ![f].expires = expires]

AdjustNow(w) == UpdateEntryTTL(worker[w].entry, worker[w].bucket, worker[w].expires)

Adjust(w) ==
  /\ Doing(w, "adjust")
  /\ AdjustNow(w)
  /\ Proceed(w, "feedback")
  /\ UNCHANGED <<clock, points, decisions, feedback, learningVars>>

-----------------------------------------------------------------------------
(* The outcome is logged; one that names a decision is rewarded, and the     *)
(* policy is trained with the action and the reward of that decision.        *)

LogOutcomeNow(w) ==
  refreshed' = IF worker[w].decided
               THEN [refreshed EXCEPT ![worker[w].entry] = @ + 1] ELSE refreshed

LogOutcome(w) ==
  /\ Doing(w, "feedback")
  /\ LogOutcomeNow(w)
  /\ Continue(w, IF worker[w].decided THEN [worker[w] EXCEPT !.pc = "reward"]
                 ELSE Loop(worker[w].todo))
  /\ UNCHANGED <<clock, storageVars, rewards, trained>>

RewardNow(w) == rewards' = [rewards EXCEPT ![worker[w].entry] = @ + 1]

Reward(w) ==
  /\ Doing(w, "reward")
  /\ RewardNow(w)
  /\ Continue(w, IF PolicyEnabled THEN [worker[w] EXCEPT !.pc = "fetch"]
                 ELSE Loop(worker[w].todo))
  /\ UNCHANGED <<clock, storageVars, refreshed, trained>>

\* Mutant: the action trained is the bucket the entry has moved to.
FetchEntryBucket(w) ==
  /\ Doing(w, "fetch")
  /\ Continue(w, [worker[w] EXCEPT !.pc = "train", !.bucket = rows[worker[w].entry].bucket])
  /\ UNCHANGED <<clock, storageVars, learningVars>>

FetchDecision(w) ==
  /\ Doing(w, "fetch")
  /\ LET f == worker[w].entry
     IN  Continue(w, IF HasDecision(f)
                     THEN [worker[w] EXCEPT !.pc = "train", !.bucket = decisions[f].bucket]
                     ELSE Loop(worker[w].todo))
  /\ UNCHANGED <<clock, storageVars, learningVars>>

TrainNow(w) == trained' = [trained EXCEPT ![worker[w].entry][worker[w].bucket] = @ + 1]

Train(w) ==
  /\ Doing(w, "train")
  /\ TrainNow(w)
  /\ Continue(w, Loop(worker[w].todo))
  /\ UNCHANGED <<clock, storageVars, refreshed, rewards>>

\* A statement of the cycle takes effect though its acknowledgement is lost.
RefreshEffect(w) ==
  \/ /\ Doing(w, "adjust") /\ AdjustNow(w)
     /\ UNCHANGED <<points, decisions, feedback, learningVars>>
  \/ /\ Doing(w, "feedback") /\ LogOutcomeNow(w)
     /\ UNCHANGED <<storageVars, rewards, trained>>
  \/ /\ Doing(w, "reward") /\ RewardNow(w)
     /\ UNCHANGED <<storageVars, refreshed, trained>>
  \/ /\ Doing(w, "train") /\ TrainNow(w)
     /\ UNCHANGED <<storageVars, refreshed, rewards>>

\* Mutant: when the outcome cannot be logged, it is rewarded all the same.
AbortOrReward(w) ==
  /\ RefreshFaults
  /\ ~Doing(w, "idle")
  /\ UNCHANGED <<storageVars, learningVars>>
  /\ IF Doing(w, "feedback") /\ worker[w].decided THEN Proceed(w, "reward")
     ELSE Continue(w, Asleep)
  /\ UNCHANGED clock

\* Whatever a cycle's call raises leaves run_once; the rest of the batch, and of
\* this outcome's log, is dropped.  A killed cycle leaves the same state.
Abort(w) ==
  /\ RefreshFaults
  /\ ~Doing(w, "idle")
  /\ RefreshEffect(w) \/ UNCHANGED <<storageVars, learningVars>>
  /\ Continue(w, Asleep)
  /\ UNCHANGED clock

WorkerStep(w) ==
  \/ ListCandidates(w) \/ Skip(w) \/ Evaluate(w) \/ ReadEntry(w) \/ Adjust(w)
  \/ LogOutcome(w) \/ Reward(w) \/ FetchDecision(w) \/ Train(w)

=============================================================================
