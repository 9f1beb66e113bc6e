----------------------------- MODULE CacheSystem -----------------------------
(***************************************************************************)
(* The request path and the refresh path over the same two stores: the     *)
(* proxy's worker threads look up, store and log entries while refresh     *)
(* cycles move the same entries between TTL buckets.                       *)
(***************************************************************************)
EXTENDS RequestPath, RefreshPath

systemVars == <<clock, storageVars, requestVars, refreshVars>>

SystemInit == RPInit /\ RefreshInit

RequestStep(h) == (Receive(h) \/ HandlerStep(h) \/ Fail(h)) /\ UNCHANGED refreshVars
RefreshStep(w) == (StartCycle(w) \/ WorkerStep(w) \/ Abort(w)) /\ UNCHANGED requestVars

SystemNext ==
  \/ Tick /\ UNCHANGED <<requestVars, refreshVars>>
  \/ \E h \in Handler : RequestStep(h)
  \/ \E w \in Worker : RefreshStep(w)
  \/ Crash /\ UNCHANGED refreshVars

\* A thread with a request and a cycle that has started keep running.
SystemSpec ==
  /\ SystemInit /\ [][SystemNext]_systemVars
  /\ \A h \in Handler : WF_systemVars(HandlerStep(h) /\ UNCHANGED refreshVars)
  /\ \A w \in Worker : WF_systemVars(WorkerStep(w) /\ UNCHANGED requestVars)

-----------------------------------------------------------------------------
\* The variables keep their types; a move by a guardrail or an extension never takes an
\* entry to a bucket that does not exist.
SystemTypeOK == RPTypeOK /\ RefreshTypeOK

\* store and the decision log keep their order whatever refresh does in between: a
\* point has its row, a decision has its point.
RowThenPointThenDecision ==
  \A f \in Fp : /\ HasPoint(f) => HasRow(f)
                /\ HasDecision(f) => HasPoint(f)

\* However store, extensions and guardrails interleave, overlap or fail, an entry
\* never lives longer from now than the TTL of the bucket its row names.
EntryLivesWithinItsBucket ==
  \A f \in Fp : HasRow(f) => rows[f].expires <= clock + TTL[rows[f].bucket]

\* The policy learns about the action the decision logged, not about the bucket the
\* entry was moved to meanwhile, and of no entry that has no decision.
TrainedAsDecided ==
  \A f \in Fp, b \in Buckets :
    trained[f][b] > 0 => HasDecision(f) /\ b = decisions[f].bucket

\* The outcome is on record before its reward and the reward before the training,
\* though a cycle may stop anywhere.
LearnedInOrder ==
  \A f \in Fp : /\ rewards[f] <= refreshed[f]
                /\ \A b \in Buckets : trained[f][b] <= rewards[f]

\* DESIGN 3: the lookup filters "expires_at > now()".  An entry that is indexed and
\* whose row has not expired is found by the search of its own request.
LiveEntriesAreFound ==
  \A f \in Fp : HasPoint(f) /\ ~Expired(rows[f]) => f \in Findable(f)

MovableEntries == INSTANCE EntryLifecycle WITH
                    now <- clock,
                    stage <- [f \in Fp |-> StageOf(f)],
                    lease <- [f \in Fp |-> LeaseOf(rows[f])],
                    found <- points,
                    hits <- [f \in Fp |-> rows[f].hits],
                    served <- [f \in Fp |-> feedback[f].hit],
                    Movable <- TRUE

\* With refresh cycles moving entries between the steps of a store, and over each
\* other's moves, the stores still go through the steps of EntryLifecycle alone.
ImplementsMovableEntries == MovableEntries!Spec

\* Every cycle comes to its end, whatever the pipeline returns or raises.
EveryCycleEnds == \A w \in Worker : ~Doing(w, "idle") ~> Doing(w, "idle")

=============================================================================
