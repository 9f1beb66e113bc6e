------------------------ MODULE CacheLifecycleProofs ------------------------
(***************************************************************************)
(* CacheSystem implements EntryLifecycle with Movable = TRUE, for any      *)
(* number of requests and refresh cycles over any set of entries; and      *)
(* hits are counted before they are served, with refresh moving the        *)
(* entries meanwhile.                                                      *)
(*                                                                         *)
(* The argument: a step of the system sends at most one statement, of a    *)
(* request or of a cycle, and each statement is one step of one abstract   *)
(* entry, or none.  What the step relies on is SystemInv and three facts   *)
(* more: a candidate that has been chosen is indexed, though its row may   *)
(* have moved or expired since; a move that is due has a lifetime that     *)
(* began at some time of the past; and each request that has counted a hit *)
(* and not yet served it has its own unit of the counter, which no move    *)
(* takes away.                                                             *)
(***************************************************************************)
EXTENDS CacheSystemProofs

\* The requests that have counted a hit of f and have not served it yet.
Owing(s, f) == s.pc \in {"reread", "logHit"} /\ s.entry = f
Pending(f) == {h \in Handler : Owing(handler[h], f)}

Counted(f) ==
  /\ IsFiniteSet(Pending(f))
  /\ feedback[f].hit + Cardinality(Pending(f)) <= rows[f].hits

\* A request in state s that has chosen its entry can count and serve it.
Chosen(s) == s.pc \in {"mark", "reread", "logHit"}
ChosenOK(s) == Chosen(s) => s.entry \in Fp /\ HasPoint(s.entry)

\* A cycle in state s that is to move its entry computed the lifetime in the past.
DueOK(s) == s.pc = "adjust" => TTL[s.bucket] <= s.expires

\* What the refinement rests on.
MovableInv ==
  /\ SystemInv
  /\ \A f \in Fp : Counted(f)
  /\ \A h \in Handler : ChosenOK(handler[h])
  /\ \A w \in Worker : DueOK(worker[w])

-----------------------------------------------------------------------------
(* What a step does to the stores.                                           *)

\* A refresh cycle moves its entry.
Moves(w) ==
  /\ Doing(w, "adjust") /\ AdjustNow(w)
  /\ UNCHANGED <<clock, points, decisions, feedback>>

\* A step sends one statement of one request or moves one entry, lets time pass, or leaves
\* the stores alone.
LEMMA OneStatement ==
  ASSUME [SystemNext]_systemVars
  PROVE  \/ UNCHANGED <<clock, storageVars>>
         \/ Tick
         \/ UNCHANGED clock /\ \E h \in Handler : Effect(h)
         \/ \E w \in Worker : Moves(w)
<1> DEFINE Goal == \/ UNCHANGED <<clock, storageVars>>
                   \/ Tick
                   \/ UNCHANGED clock /\ \E h \in Handler : Effect(h)
                   \/ \E w \in Worker : Moves(w)
<1>1. ASSUME NEW h \in Handler, Fail(h) PROVE Goal
  BY <1>1 DEF Fail, storageVars
<1>2. ASSUME NEW h \in Handler, RecordHit(h) \/ ServeHit(h) \/ LogStaleHit(h) PROVE Goal
  BY <1>2 DEF RecordHit, ServeHit, LogStaleHit, Effect, At
<1>3. ASSUME NEW h \in Handler, Upsert(h) \/ LogDecision(h) PROVE Goal
  BY <1>3 DEF Upsert, LogDecision, Effect, At
<1>4. ASSUME NEW h \in Handler, Insert(h) PROVE Goal
  BY <1>4 DEF Insert, Effect, At, storageVars
<1>5. ASSUME NEW h \in Handler,
             \/ Receive(h) \/ VectorSearch(h) \/ Discard(h) \/ ChooseLive(h) \/ Reread(h)
             \/ NoLiveCandidate(h) \/ SelectBucket(h) \/ BackendAnswers(h) \/ Stamp(h)
             \/ Reload(h) \/ Respond(h)
      PROVE  Goal
  BY <1>5 DEF Receive, VectorSearch, Discard, ChooseLive, Reread, NoLiveCandidate,
     SelectBucket, BackendAnswers, Stamp, Reload, Respond, storageVars
<1>6. ASSUME NEW h \in Handler, RequestStep(h) PROVE Goal
  BY <1>1, <1>2, <1>3, <1>4, <1>5, <1>6 DEF RequestStep, HandlerStep
<1>7. ASSUME NEW w \in Worker, Adjust(w) PROVE Goal
  BY <1>7 DEF Adjust, Moves
<1>8. ASSUME NEW w \in Worker, Abort(w) PROVE Goal
  BY <1>8 DEF Abort, RefreshEffect, Moves, storageVars
<1>9. ASSUME NEW w \in Worker,
             \/ StartCycle(w) \/ ListCandidates(w) \/ Skip(w) \/ Evaluate(w) \/ ReadEntry(w)
             \/ LogOutcome(w) \/ Reward(w) \/ FetchDecision(w) \/ Train(w)
      PROVE  Goal
  BY <1>9 DEF StartCycle, ListCandidates, Skip, Evaluate, ReadEntry, LogOutcome, Reward,
     FetchDecision, Train, storageVars
<1>10. ASSUME NEW w \in Worker, RefreshStep(w) PROVE Goal
  BY <1>7, <1>8, <1>9, <1>10 DEF RefreshStep, WorkerStep
<1>11. CASE Tick \/ Crash \/ UNCHANGED systemVars
  BY <1>11 DEF Crash, systemVars, storageVars
<1> QED
  BY <1>6, <1>10, <1>11 DEF SystemNext

\* What is in the stores stays there.
LEMMA StepGrows == ASSUME SystemInv, [SystemNext]_systemVars PROVE Grows
<1>1. CASE UNCHANGED <<clock, storageVars>>
  BY <1>1, NoWrite, Facts DEF storageVars
<1>2. CASE Tick
  <2>1. clock' \in Nat /\ clock <= clock' /\ UNCHANGED <<rows, points, decisions, feedback>>
    BY <1>2, Facts DEF Tick, storageVars
  <2> QED
    BY <2>1, NoWrite, Facts
<1>3. CASE UNCHANGED clock /\ \E h \in Handler : Effect(h)
  BY <1>3, StatementOK
<1>4. CASE \E w \in Worker : Moves(w)
  BY <1>4, MoveOK DEF Moves
<1> QED
  BY <1>1, <1>2, <1>3, <1>4, OneStatement

\* A move writes the bucket and the expiry of a row that is there, and nothing else of it.
LEMMA MoveWrites ==
  ASSUME SystemInv, NEW w \in Worker, Moves(w)
  PROVE  LET f == worker[w].entry
         IN  /\ f \in Fp /\ HasRow(f) /\ rows'[f] # NoRow
             /\ worker[w].bucket \in Buckets /\ worker[w].expires \in Nat
             /\ worker[w].expires <= clock + TTL[worker[w].bucket]
             /\ rows'[f].bucket = worker[w].bucket /\ rows'[f].expires = worker[w].expires
             /\ rows'[f].created = rows[f].created /\ rows'[f].hits = rows[f].hits
             /\ \A g \in Fp \ {f} : rows'[g] = rows[g]
<1> DEFINE f == worker[w].entry
           r == [rows[f] EXCEPT !.bucket = worker[w].bucket, !.expires = worker[w].expires]
<1>1. /\ f \in Fp /\ HasRow(f) /\ worker[w].bucket \in Buckets /\ worker[w].expires \in Nat
      /\ worker[w].expires <= clock + TTL[worker[w].bucket]
  BY DEF SystemInv, CycleOK, Doing, Moves
<1>2. rows' = [rows EXCEPT ![f] = r]
  BY DEF Moves, AdjustNow, UpdateEntryTTL
<1>3. /\ r.bucket = worker[w].bucket /\ r.expires = worker[w].expires
      /\ r.created = rows[f].created /\ r.hits = rows[f].hits
  BY <1>1, RowTyped DEF Row
<1> HIDE DEF r
<1>4. r # NoRow
  BY <1>1, <1>3, BucketAssumption DEF NoRow, NoBucket, Buckets
<1>5. rows'[f] = r /\ \A g \in Fp \ {f} : rows'[g] = rows[g]
  BY <1>1, <1>2, Facts
<1> QED
  BY <1>1, <1>3, <1>4, <1>5

-----------------------------------------------------------------------------
(* What has been chosen, and what is due.                                    *)

\* A request chooses one of its candidates, and keeps to its choice.
LEMMA Chooses ==
  ASSUME SystemInv, NEW h \in Handler, Receive(h) \/ HandlerStep(h) \/ Fail(h),
         Chosen(handler'[h])
  PROVE  \/ handler'[h].entry \in handler[h].cands
         \/ Chosen(handler[h]) /\ handler'[h].entry = handler[h].entry
<1> DEFINE Goal == \/ handler'[h].entry \in handler[h].cands
                   \/ Chosen(handler[h]) /\ handler'[h].entry = handler[h].entry
<1>0. handler[h] \in HandlerState /\ handler \in [Handler -> HandlerState]
  BY Facts
<1>1. ASSUME NEW s, Become(h, s) PROVE handler'[h] = s
  BY <1>0, <1>1 DEF Become
<1>9. ASSUME NEW s, Become(h, s), s.pc \notin {"mark", "reread", "logHit"} PROVE FALSE
  BY <1>1, <1>9 DEF Chosen
<1>2. CASE Receive(h) \/ VectorSearch(h) \/ SelectBucket(h)
  BY <1>0, <1>2, <1>9 DEF Receive, VectorSearch, SelectBucket, HandlerState
<1>3. CASE Discard(h)
  BY <1>0, <1>3, <1>9 DEF Discard, At, HandlerState
<1>4. CASE ChooseLive(h)
  <2>1. PICK g \in handler[h].cands :
          Become(h, [handler[h] EXCEPT !.pc = "mark", !.cands = @ \ {g}, !.entry = g])
    BY <1>4 DEF ChooseLive, Best
  <2> DEFINE s == [handler[h] EXCEPT !.pc = "mark", !.cands = @ \ {g}, !.entry = g]
  <2>2. s.entry = g
    BY <1>0 DEF HandlerState
  <2> QED
    BY <1>1, <2>1, <2>2
<1>5. CASE RecordHit(h)
  <2> DEFINE s == [handler[h] EXCEPT !.pc = "reread"]
  <2>1. At(h, "mark") /\ Become(h, s) /\ s.entry = handler[h].entry
    BY <1>0, <1>5 DEF RecordHit, Goto, HandlerState
  <2> QED
    BY <1>1, <2>1 DEF Chosen, At
<1>6. CASE Reread(h)
  <2>1. ASSUME NEW s, Become(h, s), s.entry = handler[h].entry, At(h, "reread") PROVE Goal
    BY <1>1, <2>1 DEF Chosen, At
  <2> QED
    BY <1>0, <1>6, <2>1 DEF Reread, Goto, HandlerState
<1>7. CASE NoLiveCandidate(h) \/ BackendAnswers(h) \/ Stamp(h)
  BY <1>0, <1>7, <1>9 DEF NoLiveCandidate, BackendAnswers, Stamp, Goto, Answer, HandlerState
<1>8. CASE ServeHit(h) \/ LogStaleHit(h) \/ Insert(h) \/ Upsert(h)
  BY <1>0, <1>8, <1>9 DEF ServeHit, LogStaleHit, Insert, Upsert, Goto, Answer, HandlerState
<1>10. CASE Reload(h) \/ LogDecision(h) \/ Respond(h) \/ Fail(h)
  BY <1>0, <1>10, <1>9 DEF Reload, LogDecision, Respond, Fail, Answer, Idle, HandlerState
<1> QED
  BY <1>2, <1>3, <1>4, <1>5, <1>6, <1>7, <1>8, <1>10 DEF HandlerStep

\* A step of one request leaves the others alone.
LEMMA OthersStay ==
  ASSUME SystemInv, NEW h \in Handler, Receive(h) \/ HandlerStep(h) \/ Fail(h),
         NEW k \in Handler \ {h}
  PROVE  handler'[k] = handler[k]
<1>0. handler \in [Handler -> HandlerState]
  BY Facts
<1>1. ASSUME NEW s, Become(h, s) PROVE handler'[k] = handler[k]
  BY <1>0, <1>1 DEF Become
<1>2. CASE \/ Receive(h) \/ VectorSearch(h) \/ Discard(h) \/ ChooseLive(h) \/ RecordHit(h)
           \/ Reread(h) \/ NoLiveCandidate(h) \/ ServeHit(h) \/ LogStaleHit(h)
  BY <1>1, <1>2 DEF Receive, VectorSearch, Discard, ChooseLive, RecordHit, Reread,
     NoLiveCandidate, ServeHit, LogStaleHit, Goto
<1>3. CASE \/ SelectBucket(h) \/ BackendAnswers(h) \/ Stamp(h) \/ Insert(h) \/ Upsert(h)
           \/ Reload(h) \/ LogDecision(h) \/ Respond(h) \/ Fail(h)
  BY <1>1, <1>3 DEF SelectBucket, BackendAnswers, Stamp, Insert, Upsert, Reload, LogDecision,
     Respond, Fail, Goto, Answer
<1> QED
  BY <1>2, <1>3 DEF HandlerStep

\* The entry a request has chosen stays indexed, however late it is counted and served.
LEMMA ChosenStays ==
  ASSUME MovableInv, [SystemNext]_systemVars, NEW k \in Handler
  PROVE  ChosenOK(handler[k])'
<1> SUFFICES ASSUME Chosen(handler'[k])
             PROVE  handler'[k].entry \in Fp /\ points'[handler'[k].entry] # NoTime
  BY DEF ChosenOK, Chosen, HasPoint
<1>0. /\ Grows /\ SystemInv /\ handler[k] \in HandlerState
      /\ \A g \in handler[k].cands : g \in Fp /\ HasPoint(g)
  BY StepGrows, Facts DEF MovableInv, SystemInv, RequestOK, HandlerState
<1>1. ASSUME NEW g \in Fp, HasPoint(g) PROVE points'[g] # NoTime
  BY <1>0, <1>1 DEF Grows, HasPoint
<1>2. CASE handler'[k] = handler[k]
  BY <1>1, <1>2 DEF MovableInv, ChosenOK
<1>3. CASE \E h \in Handler : RequestStep(h)
  <2>1. PICK h \in Handler : Receive(h) \/ HandlerStep(h) \/ Fail(h)
    BY <1>3 DEF RequestStep
  <2>2. CASE h = k
    <3>1. \/ handler'[k].entry \in handler[k].cands
          \/ Chosen(handler[k]) /\ handler'[k].entry = handler[k].entry
      BY <1>0, <2>1, <2>2, Chooses
    <3> QED
      BY <1>0, <1>1, <3>1 DEF MovableInv, ChosenOK
  <2>3. CASE h # k
    BY <1>0, <1>2, <2>1, <2>3, OthersStay
  <2> QED
    BY <2>2, <2>3
<1>4. CASE Crash
  BY <1>4 DEF Crash, Idle, Chosen
<1>5. CASE UNCHANGED handler
  BY <1>2, <1>5
<1> QED
  BY <1>3, <1>4, <1>5 DEF SystemNext, RefreshStep, requestVars, systemVars

\* A cycle in its adjustment has a lifetime computed at its read.
LEMMA DueStays ==
  ASSUME MovableInv, [SystemNext]_systemVars, NEW v \in Worker
  PROVE  DueOK(worker[v])'
<1> SUFFICES ASSUME worker'[v].pc = "adjust"
             PROVE  TTL[worker'[v].bucket] <= worker'[v].expires
  BY DEF DueOK
<1>0. /\ SystemInv /\ worker \in [Worker -> WorkerState]
      /\ \A w \in Worker : worker[w] \in WorkerState /\ CycleOK(worker[w])
  BY Facts DEF MovableInv, SystemInv
<1>1. CASE worker'[v] = worker[v]
  BY <1>1 DEF MovableInv, DueOK
<1>2. ASSUME NEW w \in Worker, NEW s, worker' = [worker EXCEPT ![w] = s], s.pc # "adjust"
      PROVE  worker'[v] = worker[v]
  BY <1>0, <1>2
<1>3. ASSUME NEW w \in Worker, ReadEntry(w)
      PROVE  worker'[v] = worker[v] \/ TTL[worker'[v].bucket] <= worker'[v].expires
  <2> DEFINE b == NextBucket(w, rows[worker[w].entry].bucket)
             s == [worker[w] EXCEPT !.pc = "adjust", !.bucket = b, !.expires = clock + TTL[b]]
             t == [worker[w] EXCEPT !.pc = "feedback"]
  <2>1. \/ worker' = [worker EXCEPT ![w] = t]
        \/ worker' = [worker EXCEPT ![w] = s] /\ ~AtTheEnd(w, rows[worker[w].entry].bucket)
    BY <1>3 DEF ReadEntry, Proceed, Continue
  <2>2. CASE worker' = [worker EXCEPT ![w] = t]
    <3>1. t.pc = "feedback"
      BY <1>0 DEF WorkerState
    <3> QED
      BY <1>2, <2>2, <3>1
  <2>3. CASE worker' = [worker EXCEPT ![w] = s] /\ ~AtTheEnd(w, rows[worker[w].entry].bucket)
    <3>1. rows[worker[w].entry].bucket \in Buckets /\ worker[w].verdict \in {"bonus", "early"}
      BY <1>0, <1>3, RowTyped DEF ReadEntry, Doing, CycleOK
    <3>2. b \in Buckets
      BY <2>3, <3>1, BucketAssumption DEF AtTheEnd, NextBucket, Buckets
    <3>3. TTL[b] \in Nat /\ clock \in Nat
      BY <1>0, <3>2, Lifetime, Facts
    <3>4. s.bucket = b /\ s.expires = clock + TTL[b]
      BY <1>0 DEF WorkerState
    <3>5. worker'[v] = worker[v] \/ worker'[v] = s
      BY <1>0, <2>3
    <3> HIDE DEF s, b
    <3> QED
      BY <3>3, <3>4, <3>5
  <2> QED
    BY <2>1, <2>2, <2>3
<1>4. ASSUME NEW w \in Worker, \/ StartCycle(w) \/ ListCandidates(w) \/ Skip(w) \/ Evaluate(w)
      PROVE  worker'[v] = worker[v]
  <2>1. CASE StartCycle(w)
    <3>1. PICK s : s = [worker[w] EXCEPT !.pc = "list"]
      OBVIOUS
    <3>2. worker' = [worker EXCEPT ![w] = s] /\ s.pc = "list"
      BY <1>0, <2>1, <3>1 DEF StartCycle, WorkerState
    <3> QED
      BY <1>2, <3>2
  <2>2. CASE ListCandidates(w) \/ Skip(w)
    BY <1>0, <1>2, <2>2 DEF ListCandidates, Skip, Continue, Loop, Asleep
  <2>3. CASE Evaluate(w)
    BY <1>0, <1>2, <2>3 DEF Evaluate, Continue, AfterVerdict, WorkerState
  <2> QED
    BY <1>4, <2>1, <2>2, <2>3
<1>5. ASSUME NEW w \in Worker,
             \/ Adjust(w) \/ LogOutcome(w) \/ Reward(w) \/ FetchDecision(w) \/ Train(w) \/ Abort(w)
      PROVE  worker'[v] = worker[v]
  <2>1. CASE Adjust(w) \/ Abort(w)
    BY <1>0, <1>2, <2>1 DEF Adjust, Abort, Proceed, Continue, Asleep, WorkerState
  <2> DEFINE l == Loop(worker[w].todo)
             u(call) == [worker[w] EXCEPT !.pc = call]
             t == [worker[w] EXCEPT !.pc = "train",
                                    !.bucket = decisions[worker[w].entry].bucket]
  <2>2. /\ l.pc # "adjust" /\ t.pc = "train"
        /\ u("reward").pc = "reward" /\ u("fetch").pc = "fetch"
    BY <1>0 DEF Loop, Asleep, WorkerState
  <2>3. CASE LogOutcome(w) \/ Reward(w)
    <3>1. \E s \in {l, u("reward"), u("fetch")} : worker' = [worker EXCEPT ![w] = s]
      BY <2>3 DEF LogOutcome, Reward, Continue
    <3> HIDE DEF l, u
    <3> QED
      BY <1>2, <2>2, <3>1
  <2>4. CASE FetchDecision(w) \/ Train(w)
    <3>1. \E s \in {l, t} : worker' = [worker EXCEPT ![w] = s]
      BY <2>4 DEF FetchDecision, Train, Continue
    <3> HIDE DEF l, t
    <3> QED
      BY <1>2, <2>2, <3>1
  <2> QED
    BY <1>5, <2>1, <2>3, <2>4
<1>6. CASE \E w \in Worker : RefreshStep(w)
  BY <1>1, <1>3, <1>4, <1>5, <1>6 DEF RefreshStep, WorkerStep
<1>7. CASE UNCHANGED worker
  BY <1>1, <1>7
<1> QED
  BY <1>6, <1>7 DEF SystemNext, RequestStep, refreshVars, systemVars

-----------------------------------------------------------------------------
(* Hits that have been counted.                                              *)

\* The types the account needs.
LEMMA CountsAreNumbers ==
  ASSUME SystemInv, NEW f \in Fp
  PROVE  /\ rows[f].hits \in Nat /\ feedback[f].hit \in Nat
         /\ ~HasRow(f) => rows[f].hits = 0
<1>1. rows[f] \in Row \cup {NoRow} /\ feedback[f] \in [hit : Nat, stale : Nat]
  BY Facts
<1> QED
  BY <1>1 DEF Row, NoRow, HasRow

\* No step takes a count from a row: an insert finds none there, and a move rewrites the
\* bucket and the expiry alone.
LEMMA HitsGrow ==
  ASSUME SystemInv, [SystemNext]_systemVars, NEW f \in Fp
  PROVE  rows'[f].hits \in Nat /\ feedback'[f].hit \in Nat /\ rows'[f].hits >= rows[f].hits
<1>1. SystemInv'
  BY Keeps
<1>2. rows'[f].hits \in Nat /\ feedback'[f].hit \in Nat
  <2>1. rows'[f] \in Row \cup {NoRow} /\ feedback'[f] \in [hit : Nat, stale : Nat]
    BY <1>1 DEF SystemInv, SystemTypeOK, RPTypeOK, StorageTypeOK
  <2> QED
    BY <2>1 DEF Row, NoRow
<1>3. rows[f].hits \in Nat /\ (~HasRow(f) => rows[f].hits = 0) /\ rows \in [Fp -> Row \cup {NoRow}]
  BY CountsAreNumbers, Facts
<1>4. ASSUME NEW h \in Handler, Effect(h) PROVE rows'[f].hits >= rows[f].hits
  <2>1. CASE At(h, "mark")
    <3>1. MarkHit(handler[h].entry) /\ handler[h].entry \in Fp /\ HasRow(handler[h].entry)
      BY <1>4, <2>1 DEF Effect, At, SystemInv, RequestOK
    <3>2. rows[handler[h].entry] \in Row
      BY <3>1, RowTyped
    <3> QED
      BY <1>3, <3>1, <3>2 DEF MarkHit, Row
  <2>2. CASE At(h, "insert")
    <3>1. /\ ~HasRow(handler[h].fp)
          /\ \E r : rows' = [rows EXCEPT ![handler[h].fp] = r]
      BY <1>4, <2>2 DEF Effect, At, InsertNow, InsertEntry, CanInsert
    <3>2. CASE HasRow(f)
      BY <1>3, <3>1, <3>2
    <3>3. CASE ~HasRow(f)
      BY <1>2, <1>3, <3>3
    <3> QED
      BY <3>2, <3>3
  <2>3. CASE UNCHANGED rows
    BY <1>3, <2>3
  <2> QED
    BY <1>4, <2>1, <2>2, <2>3 DEF Effect
<1>5. ASSUME NEW w \in Worker, Moves(w) PROVE rows'[f].hits = rows[f].hits
  BY <1>5, MoveWrites
<1>6. ASSUME UNCHANGED rows PROVE rows'[f].hits >= rows[f].hits
  BY <1>3, <1>6
<1>7. rows'[f].hits >= rows[f].hits
  BY <1>3, <1>4, <1>5, <1>6, OneStatement DEF Tick, storageVars
<1> QED
  BY <1>2, <1>7

\* Who owes a hit after a step of h.
LEMMA PendingAfter ==
  ASSUME SystemInv, NEW h \in Handler, NEW s, Become(h, s), NEW f
  PROVE  Pending(f)' = IF Owing(s, f) THEN Pending(f) \cup {h} ELSE Pending(f) \ {h}
<1>1. handler \in [Handler -> HandlerState]
  BY Facts
<1>2. handler'[h] = s /\ \A k \in Handler \ {h} : handler'[k] = handler[k]
  BY <1>1 DEF Become
<1> QED
  BY <1>2 DEF Pending, Owing

\* A request that owes nothing after its step leaves the account balanced.
LEMMA NothingOwed ==
  ASSUME MovableInv, NEW f \in Fp, NEW h \in Handler, NEW s, Become(h, s), ~Owing(s, f),
         rows'[f].hits \in Nat, feedback'[f].hit \in Nat,
         \/ rows'[f].hits >= rows[f].hits /\ feedback'[f].hit = feedback[f].hit
         \/ /\ Owing(handler[h], f) /\ rows'[f].hits = rows[f].hits
            /\ feedback'[f].hit = feedback[f].hit + 1
  PROVE  Counted(f)'
<1>1. /\ IsFiniteSet(Pending(f))
      /\ feedback[f].hit + Cardinality(Pending(f)) <= rows[f].hits
  BY DEF MovableInv, Counted
<1>2. Pending(f)' = Pending(f) \ {h}
  BY PendingAfter DEF MovableInv
<1>3. feedback[f].hit \in Nat /\ rows[f].hits \in Nat
  BY CountsAreNumbers DEF MovableInv
<1>4. Cardinality(Pending(f)) \in Nat
  BY <1>1, FS_CardinalityType
<1>5. h \in Pending(f) <=> Owing(handler[h], f)
  BY DEF Pending
<1>6. /\ IsFiniteSet(Pending(f)')
      /\ Cardinality(Pending(f)') =
           IF Owing(handler[h], f) THEN Cardinality(Pending(f)) - 1
           ELSE Cardinality(Pending(f))
  BY <1>1, <1>2, <1>5, FS_RemoveElement
<1>7. feedback'[f].hit + Cardinality(Pending(f)') <= rows'[f].hits
  BY <1>1, <1>3, <1>4, <1>6
<1> QED
  BY <1>6, <1>7 DEF Counted

\* A request that goes on to anything but the second read and the serving of a hit.
LEMMA NoDebtor ==
  ASSUME MovableInv, [SystemNext]_systemVars, NEW f \in Fp, NEW h \in Handler, NEW s,
         Become(h, s), s.pc \notin {"reread", "logHit"},
         UNCHANGED feedback \/ InsertStaleHit(handler[h].entry)
  PROVE  Counted(f)'
<1>1. feedback \in [Fp -> [hit : Nat, stale : Nat]]
  BY Facts DEF MovableInv
<1>2. feedback'[f].hit = feedback[f].hit
  BY <1>1 DEF InsertStaleHit
<1>3. ~Owing(s, f)
  BY DEF Owing
<1>4. rows'[f].hits \in Nat /\ feedback'[f].hit \in Nat /\ rows'[f].hits >= rows[f].hits
  BY HitsGrow DEF MovableInv
<1> QED
  BY <1>2, <1>3, <1>4, NothingOwed

\* A hit is counted by the request that owes it from then on.
LEMMA CountedByRecordHit ==
  ASSUME MovableInv, [SystemNext]_systemVars, NEW f \in Fp, NEW h \in Handler, RecordHit(h)
  PROVE  Counted(f)'
<1> DEFINE s == [handler[h] EXCEPT !.pc = "reread"]
<1>0. SystemInv /\ handler[h] \in HandlerState /\ rows \in [Fp -> Row \cup {NoRow}]
  BY Facts DEF MovableInv
<1>1. At(h, "mark") /\ MarkHit(handler[h].entry) /\ Become(h, s) /\ UNCHANGED feedback
  BY DEF RecordHit, Goto
<1>2. /\ s.pc = "reread" /\ s.entry = handler[h].entry
      /\ handler[h].entry \in Fp /\ HasRow(handler[h].entry)
  BY <1>0, <1>1 DEF SystemInv, RequestOK, At, HandlerState
<1> HIDE DEF s
<1>3. CASE f # handler[h].entry
  <2>1. ~Owing(s, f)
    BY <1>2, <1>3 DEF Owing
  <2>2. rows'[f].hits \in Nat /\ feedback'[f].hit \in Nat /\ rows'[f].hits >= rows[f].hits
    BY <1>0, HitsGrow
  <2> QED
    BY <1>1, <2>1, <2>2, NothingOwed
<1>4. CASE f = handler[h].entry
  <2>1. Pending(f)' = Pending(f) \cup {h} /\ h \notin Pending(f)
    BY <1>0, <1>1, <1>2, <1>4, PendingAfter DEF Pending, Owing, At
  <2>2. rows'[f].hits = rows[f].hits + 1
    <3>1. rows[f] \in Row
      BY <1>0, <1>2, <1>4, RowTyped
    <3> QED
      BY <1>0, <1>1, <1>4, <3>1 DEF MarkHit, Row
  <2>3. /\ IsFiniteSet(Pending(f))
        /\ feedback[f].hit + Cardinality(Pending(f)) <= rows[f].hits
    BY DEF MovableInv, Counted
  <2>4. /\ IsFiniteSet(Pending(f)')
        /\ Cardinality(Pending(f)') = Cardinality(Pending(f)) + 1
        /\ Cardinality(Pending(f)) \in Nat
    BY <2>1, <2>3, FS_AddElement, FS_CardinalityType
  <2>5. rows[f].hits \in Nat /\ feedback[f].hit \in Nat
    BY <1>0, CountsAreNumbers
  <2>6. feedback'[f].hit + Cardinality(Pending(f)') <= rows'[f].hits
    BY <1>1, <2>2, <2>3, <2>4, <2>5
  <2> QED
    BY <2>4, <2>6 DEF Counted
<1> QED
  BY <1>3, <1>4

\* A hit is served by a request that owes it.
LEMMA ServedByDebtor ==
  ASSUME MovableInv, [SystemNext]_systemVars, NEW f \in Fp, NEW h \in Handler, At(h, "logHit"),
         InsertHitServed(handler[h].entry), UNCHANGED rows,
         NEW s, Become(h, s), s.pc = "reply"
  PROVE  Counted(f)'
<1>1. /\ feedback \in [Fp -> [hit : Nat, stale : Nat]]
      /\ rows'[f].hits \in Nat /\ feedback'[f].hit \in Nat /\ rows'[f].hits >= rows[f].hits
  BY Facts, HitsGrow DEF MovableInv
<1>2. ~Owing(s, f)
  BY DEF Owing
<1>3. CASE f = handler[h].entry
  <2>1. Owing(handler[h], f)
    BY <1>3 DEF Owing, At
  <2>2. feedback'[f].hit = feedback[f].hit + 1
    BY <1>1, <1>3 DEF InsertHitServed
  <2> QED
    BY <1>1, <1>2, <2>1, <2>2, NothingOwed
<1>4. CASE f # handler[h].entry
  <2>1. feedback'[f].hit = feedback[f].hit
    BY <1>1, <1>4 DEF InsertHitServed
  <2> QED
    BY <1>1, <1>2, <2>1, NothingOwed
<1> QED
  BY <1>3, <1>4

\* A step of a request keeps the account.
LEMMA CountedByRequest ==
  ASSUME MovableInv, [SystemNext]_systemVars, NEW f \in Fp, NEW h \in Handler,
         Receive(h) \/ HandlerStep(h) \/ Fail(h)
  PROVE  Counted(f)'
<1>0. SystemInv /\ handler[h] \in HandlerState
  BY Facts DEF MovableInv
<1>1. CASE Receive(h) \/ VectorSearch(h) \/ ChooseLive(h) \/ SelectBucket(h)
  BY <1>0, <1>1, NoDebtor DEF Receive, VectorSearch, ChooseLive, SelectBucket, HandlerState,
     storageVars
<1>2. CASE Discard(h)
  BY <1>0, <1>2, NoDebtor DEF Discard, At, HandlerState, storageVars
<1>3. CASE NoLiveCandidate(h) \/ BackendAnswers(h)
  BY <1>0, <1>3, NoDebtor DEF NoLiveCandidate, BackendAnswers, Goto, Answer, HandlerState,
     storageVars
<1>4. CASE Stamp(h) \/ Reload(h)
  BY <1>0, <1>4, NoDebtor DEF Stamp, Reload, Answer, HandlerState, storageVars
<1>5. CASE Insert(h)
  BY <1>0, <1>5, NoDebtor DEF Insert, Goto, Answer, HandlerState
<1>6. CASE Upsert(h) \/ LogDecision(h) \/ LogStaleHit(h)
  BY <1>0, <1>6, NoDebtor DEF Upsert, LogDecision, LogStaleHit, Goto, HandlerState
<1>7. CASE Respond(h)
  BY <1>7, NoDebtor DEF Respond, Idle, storageVars
<1>8. CASE RecordHit(h)
  BY <1>8, CountedByRecordHit
<1>9. CASE ServeHit(h)
  BY <1>0, <1>9, ServedByDebtor DEF ServeHit, HandlerState
<1>10. CASE Reread(h)
  <2> DEFINE g == handler[h].entry
             s == [handler[h] EXCEPT !.pc = "logHit", !.status = "HIT",
                     !.bucket = rows[g].bucket, !.expires = rows[g].expires]
  <2>1. At(h, "reread") /\ HasRow(g) /\ Become(h, s) /\ UNCHANGED <<rows, feedback>>
    BY <1>0, <1>10 DEF Reread, SystemInv, RequestOK, At, storageVars
  <2>2. s.pc = "logHit" /\ s.entry = g
    BY <1>0 DEF HandlerState
  <2> HIDE DEF s
  <2>3. Pending(f)' = Pending(f)
    BY <1>0, <2>1, <2>2, PendingAfter DEF Pending, Owing, At
  <2> QED
    BY <2>1, <2>3 DEF Counted, MovableInv
<1>11. CASE Fail(h)
  <2> DEFINE s == [handler[h] EXCEPT !.pc = "reply",
                     !.reply = IF handler[h].pc \in StoreCalls THEN "forwarded" ELSE "error"]
  <2>1. Become(h, s) /\ s.pc = "reply" /\ (Effect(h) \/ UNCHANGED storageVars)
    BY <1>0, <1>11 DEF Fail, Answer, HandlerState
  <2> HIDE DEF s
  <2>2. CASE At(h, "logHit") /\ Effect(h)
    BY <2>1, <2>2, ServedByDebtor DEF Effect, At
  <2>3. CASE At(h, "logStale") /\ Effect(h)
    BY <2>1, <2>3, NoDebtor DEF Effect, At
  <2>4. CASE UNCHANGED feedback
    BY <2>1, <2>4, NoDebtor
  <2> QED
    BY <2>1, <2>2, <2>3, <2>4 DEF Effect, storageVars
<1> QED
  BY <1>1, <1>2, <1>3, <1>4, <1>5, <1>6, <1>7, <1>8, <1>9, <1>10, <1>11 DEF HandlerStep

\* A counted hit has been counted on its row, whatever became of its request and wherever
\* the entry was moved.
LEMMA CountedStays ==
  ASSUME MovableInv, [SystemNext]_systemVars, NEW f \in Fp PROVE Counted(f)'
<1>0. SystemInv /\ Counted(f)
  BY DEF MovableInv
<1>1. CASE \E h \in Handler : RequestStep(h)
  BY <1>1, CountedByRequest DEF RequestStep
<1>2. CASE Crash
  <2>1. Pending(f)' = {} /\ UNCHANGED <<rows, feedback>>
    BY <1>2 DEF Crash, Pending, Owing, Idle, storageVars
  <2>2. /\ IsFiniteSet(Pending(f)) /\ feedback[f].hit + Cardinality(Pending(f)) <= rows[f].hits
    BY <1>0 DEF Counted
  <2>3. rows[f].hits \in Nat /\ feedback[f].hit \in Nat /\ Cardinality(Pending(f)) \in Nat
    BY <1>0, <2>2, CountsAreNumbers, FS_CardinalityType
  <2>4. IsFiniteSet(Pending(f)') /\ Cardinality(Pending(f)') = 0
    BY <2>1, FS_EmptySet
  <2>5. feedback'[f].hit + Cardinality(Pending(f)') <= rows'[f].hits
    BY <2>1, <2>2, <2>3, <2>4
  <2> QED
    BY <2>4, <2>5 DEF Counted
<1>3. ASSUME UNCHANGED <<handler, feedback>>, rows'[f].hits = rows[f].hits PROVE Counted(f)'
  BY <1>0, <1>3 DEF Counted, Pending, Owing
<1>4. ASSUME NEW w \in Worker, RefreshStep(w) PROVE Counted(f)'
  <2>1. UNCHANGED handler
    BY <1>4 DEF RefreshStep, requestVars
  <2>2. UNCHANGED <<rows, feedback>> \/ Moves(w)
    <3>1. CASE Adjust(w) \/ Abort(w)
      BY <3>1 DEF Adjust, Abort, RefreshEffect, Moves, storageVars
    <3>2. CASE ~Adjust(w) /\ ~Abort(w)
      BY <1>4, <3>2 DEF RefreshStep, WorkerStep, StartCycle, ListCandidates, Skip, Evaluate,
         ReadEntry, LogOutcome, Reward, FetchDecision, Train, storageVars
    <3> QED
      BY <3>1, <3>2
  <2>3. Moves(w) => rows'[f].hits = rows[f].hits /\ UNCHANGED feedback
    BY <1>0, MoveWrites DEF Moves
  <2> QED
    BY <1>3, <2>1, <2>2, <2>3
<1>5. CASE UNCHANGED <<handler, rows, feedback>>
  BY <1>3, <1>5
<1> QED
  BY <1>1, <1>2, <1>4, <1>5 DEF SystemNext, Tick, requestVars, systemVars, storageVars

-----------------------------------------------------------------------------
\* In the beginning nothing is stored, owed, chosen or due.
LEMMA MovableStart == SystemInit => MovableInv
<1> SUFFICES ASSUME SystemInit PROVE MovableInv
  OBVIOUS
<1>1. /\ \A h \in Handler : handler[h] = Idle
      /\ \A w \in Worker : worker[w] = Asleep
      /\ \A f \in Fp : rows[f] = NoRow /\ feedback[f].hit = 0
  BY DEF SystemInit, RPInit, StorageInit, RefreshInit
<1>2. ASSUME NEW f \in Fp PROVE Counted(f)
  <2>1. Pending(f) = {}
    BY <1>1 DEF Idle, Pending, Owing
  <2>2. IsFiniteSet(Pending(f)) /\ Cardinality(Pending(f)) = 0
    BY <2>1, FS_EmptySet
  <2>3. rows[f].hits = 0 /\ feedback[f].hit = 0
    BY <1>1 DEF NoRow
  <2>4. feedback[f].hit + Cardinality(Pending(f)) <= rows[f].hits
    BY <2>2, <2>3
  <2> QED
    BY <2>2, <2>4 DEF Counted
<1>3. ASSUME NEW h \in Handler PROVE ChosenOK(handler[h])
  BY <1>1 DEF ChosenOK, Chosen, Idle
<1>4. ASSUME NEW w \in Worker PROVE DueOK(worker[w])
  BY <1>1 DEF DueOK, Asleep
<1> QED
  BY <1>2, <1>3, <1>4, Starts DEF MovableInv

\* The strengthened invariant is inductive.
LEMMA MovableStep == MovableInv /\ [SystemNext]_systemVars => MovableInv'
<1> SUFFICES ASSUME MovableInv, [SystemNext]_systemVars PROVE MovableInv'
  OBVIOUS
<1>1. SystemInv'
  BY Keeps DEF MovableInv
<1>2. \A f \in Fp : Counted(f)'
  BY CountedStays
<1>3. \A h \in Handler : ChosenOK(handler[h])'
  BY ChosenStays
<1>4. \A w \in Worker : DueOK(worker[w])'
  BY DueStays
<1> QED
  BY <1>1, <1>2, <1>3, <1>4 DEF MovableInv

\* Every behaviour keeps the strengthened invariant.
THEOREM MovableInvariant == SystemSpec => []MovableInv
BY MovableStart, MovableStep, PTL DEF SystemSpec

\* No hit is reported served that its row has not counted, though refresh cycles rewrite the
\* row between the count and the serving.
THEOREM SystemHitsCounted == SystemSpec => []ServedHitsAreCounted
<1>1. ASSUME MovableInv PROVE ServedHitsAreCounted
  <2> SUFFICES ASSUME NEW f \in Fp PROVE feedback[f].hit <= rows[f].hits
    BY DEF ServedHitsAreCounted
  <2>1. /\ IsFiniteSet(Pending(f))
        /\ feedback[f].hit + Cardinality(Pending(f)) <= rows[f].hits
    BY <1>1 DEF MovableInv, Counted
  <2>2. Cardinality(Pending(f)) \in Nat /\ rows[f].hits \in Nat /\ feedback[f].hit \in Nat
    BY <1>1, <2>1, FS_CardinalityType, CountsAreNumbers DEF MovableInv
  <2> QED
    BY <2>1, <2>2
<1>2. MovableInv => ServedHitsAreCounted
  BY <1>1
<1> QED
  BY <1>2, MovableInvariant, PTL

-----------------------------------------------------------------------------
(* The refinement: each statement is a step of the abstract entry.           *)

\* A step adds no record to an entry and takes none away.
SameRecords(g) ==
  /\ HasRow(g)' <=> HasRow(g)
  /\ HasPoint(g)' <=> HasPoint(g)
  /\ HasDecision(g)' <=> HasDecision(g)

\* What a step that changes the records of one entry alone does to its stage.
LEMMA StageMoves ==
  ASSUME NEW f \in Fp, NEW from, NEW to, StageOf(f) = from, StageOf(f)' = to,
         \A g \in Fp \ {f} : SameRecords(g)
  PROVE  [g \in Fp |-> StageOf(g)]' = [[g \in Fp |-> StageOf(g)] EXCEPT ![f] = to]
<1>1. ASSUME NEW g \in Fp \ {f} PROVE StageOf(g)' = StageOf(g)
  BY DEF SameRecords, StageOf
<1> QED
  BY <1>1

\* The stages stay where no record appears.
LEMMA StagesStay ==
  ASSUME \A g \in Fp : SameRecords(g)
  PROVE  [g \in Fp |-> StageOf(g)]' = [g \in Fp |-> StageOf(g)]
BY DEF SameRecords, StageOf

\* The insert stores the entry.
LEMMA InsertStores ==
  ASSUME MovableInv, NEW f \in Fp, NEW b \in Buckets, NEW c \in Nat, c <= clock,
         CanInsert(f), InsertEntry(f, b, c, c + TTL[b]),
         UNCHANGED <<clock, points, decisions, feedback>>
  PROVE  MovableEntries!Store(f)
<1> DEFINE r == [bucket |-> b, created |-> c, expires |-> c + TTL[b], hits |-> 0]
<1>0. SystemInv /\ rows \in [Fp -> Row \cup {NoRow}] /\ clock \in Nat
  BY Facts DEF MovableInv
<1>1. rows[f] = NoRow /\ rows' = [rows EXCEPT ![f] = r] /\ r # NoRow
  BY <1>0, BucketAssumption DEF CanInsert, HasRow, InsertEntry, NoRow, NoBucket, Buckets
<1>2. ~HasRow(f) /\ ~HasPoint(f) /\ ~HasDecision(f)
  BY <1>0, <1>1 DEF SystemInv, RowThenPointThenDecision, HasRow
<1>3. HasRow(f)' /\ ~HasPoint(f)' /\ ~HasDecision(f)'
  BY <1>0, <1>1, <1>2 DEF HasRow, HasPoint, HasDecision
<1>4. \A g \in Fp \ {f} : SameRecords(g)
  <2> TAKE g \in Fp \ {f}
  <2>1. rows'[g] = rows[g] /\ points'[g] = points[g] /\ decisions'[g] = decisions[g]
    BY <1>0, <1>1
  <2> QED
    BY <2>1 DEF SameRecords, HasRow, HasPoint, HasDecision
<1>5. StageOf(f) = "absent" /\ StageOf(f)' = "stored"
  BY <1>2, <1>3 DEF StageOf
<1>6. [g \in Fp |-> StageOf(g)]' = [[g \in Fp |-> StageOf(g)] EXCEPT ![f] = "stored"]
  BY <1>4, <1>5, StageMoves
<1>7. [g \in Fp |-> LeaseOf(rows[g])]' =
        [[g \in Fp |-> LeaseOf(rows[g])] EXCEPT ![f] =
           [bucket |-> b, created |-> c, expires |-> c + TTL[b]]]
  <2>1. LeaseOf(rows'[f]) = [bucket |-> b, created |-> c, expires |-> c + TTL[b]]
    BY <1>0, <1>1 DEF LeaseOf
  <2>2. \A g \in Fp \ {f} : rows'[g] = rows[g]
    BY <1>0, <1>1
  <2> QED
    BY <2>1, <2>2
<1>8. [g \in Fp |-> rows[g].hits]' = [g \in Fp |-> rows[g].hits]
  BY <1>0, <1>1 DEF NoRow
<1>9. b \in DOMAIN TTL /\ c \in 0 .. clock
  BY <1>0, TTLAssumption
<1> QED
  BY <1>5, <1>6, <1>7, <1>8, <1>9 DEF MovableEntries!Store, MovableEntries!Bucket

\* The upsert indexes an entry that is stored, with the lifetime it was stored with,
\* wherever its row has been moved since.
LEMMA UpsertIndexes ==
  ASSUME MovableInv, NEW f \in Fp, HasRow(f), ~HasPoint(f), NEW b \in Buckets,
         UpsertPoint(f, rows[f].created + TTL[b]), UNCHANGED <<clock, rows, decisions, feedback>>
  PROVE  MovableEntries!Index(f)
<1> DEFINE e == rows[f].created + TTL[b]
<1>0. SystemInv /\ points \in [Fp -> Nat \cup {NoTime}] /\ rows[f].created \in Nat /\ TTL[b] \in Nat
  BY Facts, RowTyped, Lifetime DEF MovableInv
<1>1. points' = [points EXCEPT ![f] = e] /\ e \in Nat
  BY <1>0 DEF UpsertPoint
<1>2. ~HasDecision(f)
  BY <1>0 DEF SystemInv, RowThenPointThenDecision
<1>3. HasRow(f)' /\ HasPoint(f)' /\ ~HasDecision(f)'
  BY <1>0, <1>1, <1>2 DEF HasRow, HasPoint, HasDecision, NoTime
<1>4. \A g \in Fp \ {f} : SameRecords(g)
  <2> TAKE g \in Fp \ {f}
  <2>1. rows'[g] = rows[g] /\ points'[g] = points[g] /\ decisions'[g] = decisions[g]
    BY <1>0, <1>1
  <2> QED
    BY <2>1 DEF SameRecords, HasRow, HasPoint, HasDecision
<1>5. StageOf(f) = "stored" /\ StageOf(f)' = "indexed"
  BY <1>2, <1>3 DEF StageOf
<1>6. [g \in Fp |-> StageOf(g)]' = [[g \in Fp |-> StageOf(g)] EXCEPT ![f] = "indexed"]
  BY <1>4, <1>5, StageMoves
<1>7. b \in DOMAIN TTL
  BY TTLAssumption
<1>8. points' = [points EXCEPT ![f] = [g \in Fp |-> LeaseOf(rows[g])][f].created + TTL[b]]
  BY <1>1 DEF LeaseOf
<1> QED
  BY <1>5, <1>6, <1>7, <1>8 DEF MovableEntries!Index, MovableEntries!Bucket

\* The decision of an indexed entry is logged, its first and only one.
LEMMA DecisionDecides ==
  ASSUME MovableInv, NEW f \in Fp, HasRow(f), HasPoint(f), ~HasDecision(f),
         NEW b \in Buckets, NEW c, InsertDecision(f, b, c),
         UNCHANGED <<clock, rows, points, feedback>>
  PROVE  MovableEntries!Decide(f)
<1>1. /\ decisions \in [Fp -> Decision \cup {NoDecision}]
      /\ decisions' = [decisions EXCEPT ![f] = [bucket |-> b, chosen |-> c]]
  BY Facts DEF MovableInv, InsertDecision
<1>2. HasDecision(f)'
  BY <1>1, BucketAssumption DEF HasDecision, NoDecision, NoBucket, Buckets
<1>3. \A g \in Fp \ {f} : SameRecords(g)
  <2> TAKE g \in Fp \ {f}
  <2>1. rows'[g] = rows[g] /\ points'[g] = points[g] /\ decisions'[g] = decisions[g]
    BY <1>1
  <2> QED
    BY <2>1 DEF SameRecords, HasRow, HasPoint, HasDecision
<1>4. StageOf(f) = "indexed" /\ StageOf(f)' = "decided"
  BY <1>2 DEF StageOf
<1>5. [g \in Fp |-> StageOf(g)]' = [[g \in Fp |-> StageOf(g)] EXCEPT ![f] = "decided"]
  BY <1>3, <1>4, StageMoves
<1> QED
  BY <1>4, <1>5 DEF MovableEntries!Decide

\* The counter of an indexed entry moves.
LEMMA HitCounts ==
  ASSUME MovableInv, NEW f \in Fp, HasRow(f), HasPoint(f), MarkHit(f),
         UNCHANGED <<clock, points, decisions, feedback>>
  PROVE  MovableEntries!Count(f)
<1>1. /\ rows \in [Fp -> Row \cup {NoRow}] /\ rows[f] \in Row
      /\ rows' = [rows EXCEPT ![f] = [rows[f] EXCEPT !.hits = rows[f].hits + 1]]
  BY Facts, RowTyped DEF MovableInv, MarkHit
<1>2. /\ rows'[f].hits = rows[f].hits + 1 /\ rows'[f].bucket = rows[f].bucket
      /\ rows'[f].created = rows[f].created /\ rows'[f].expires = rows[f].expires
      /\ \A g \in Fp \ {f} : rows'[g] = rows[g]
  BY <1>1 DEF Row
<1>3. HasRow(f)'
  BY <1>1, <1>2, BucketAssumption DEF HasRow, Row, NoRow, NoBucket, Buckets
<1>4. \A g \in Fp : SameRecords(g)
  BY <1>2, <1>3 DEF SameRecords, HasRow, HasPoint, HasDecision
<1>5. [g \in Fp |-> StageOf(g)]' = [g \in Fp |-> StageOf(g)]
  BY <1>4, StagesStay
<1>6. [g \in Fp |-> LeaseOf(rows[g])]' = [g \in Fp |-> LeaseOf(rows[g])]
  BY <1>2 DEF LeaseOf
<1>7. [g \in Fp |-> rows[g].hits]' =
        [[g \in Fp |-> rows[g].hits] EXCEPT ![f] = rows[f].hits + 1]
  BY <1>2
<1>8. [g \in Fp |-> StageOf(g)][f] \in {"indexed", "decided"}
  BY DEF StageOf
<1> QED
  BY <1>5, <1>6, <1>7, <1>8 DEF MovableEntries!Count

\* A hit is served by a request that still owes it, so that the counter is ahead.
LEMMA OwedHitServes ==
  ASSUME MovableInv, NEW f \in Fp, NEW h \in Handler, Owing(handler[h], f), InsertHitServed(f),
         UNCHANGED <<clock, rows, points, decisions>>
  PROVE  MovableEntries!Serve(f)
<1>0. SystemInv /\ feedback \in [Fp -> [hit : Nat, stale : Nat]]
  BY Facts DEF MovableInv
<1>1. /\ IsFiniteSet(Pending(f)) /\ h \in Pending(f)
      /\ feedback[f].hit + Cardinality(Pending(f)) <= rows[f].hits
  BY DEF MovableInv, Counted, Pending
<1>2. Cardinality(Pending(f)) \in Nat /\ Cardinality(Pending(f)) # 0
  BY <1>1, FS_CardinalityType, FS_EmptySet
<1>3. feedback[f].hit < rows[f].hits
  BY <1>0, <1>1, <1>2, CountsAreNumbers
<1>4. [g \in Fp |-> feedback[g].hit]' =
        [[g \in Fp |-> feedback[g].hit] EXCEPT ![f] = feedback[f].hit + 1]
  BY <1>0 DEF InsertHitServed
<1>5. [g \in Fp |-> StageOf(g)]' = [g \in Fp |-> StageOf(g)]
  BY StagesStay DEF SameRecords, HasRow, HasPoint, HasDecision
<1> QED
  BY <1>3, <1>4, <1>5 DEF MovableEntries!Serve

\* An adjustment moves a stored entry to a lifetime that began at some time of the past; it
\* touches no point, no counter and no other entry.
LEMMA AdjustMoves ==
  ASSUME MovableInv, NEW w \in Worker, Moves(w), NEW f, f = worker[w].entry
  PROVE  f \in Fp /\ MovableEntries!Move(f)
<1>0. SystemInv /\ clock \in Nat
  BY Facts DEF MovableInv
<1>1. PICK b \in Buckets, e \in Nat :
        /\ b = worker[w].bucket /\ e = worker[w].expires
        /\ f \in Fp /\ HasRow(f) /\ rows'[f] # NoRow /\ e <= clock + TTL[b]
        /\ rows'[f].bucket = b /\ rows'[f].expires = e
        /\ rows'[f].created = rows[f].created /\ rows'[f].hits = rows[f].hits
        /\ \A g \in Fp \ {f} : rows'[g] = rows[g]
  BY <1>0, MoveWrites
<1>2. TTL[b] <= e /\ TTL[b] \in Nat /\ b \in DOMAIN TTL
  BY <1>1, Lifetime, TTLAssumption DEF MovableInv, DueOK, Moves, Doing
<1>3. PICK at \in 0 .. clock : at + TTL[b] = e
  <2>1. e - TTL[b] \in 0 .. clock /\ (e - TTL[b]) + TTL[b] = e
    BY <1>0, <1>1, <1>2
  <2> QED
    BY <2>1
<1>4. UNCHANGED <<clock, points, decisions, feedback>>
  BY DEF Moves
<1>5. \A g \in Fp : SameRecords(g)
  BY <1>1, <1>4 DEF SameRecords, HasRow, HasPoint, HasDecision
<1>6. [g \in Fp |-> StageOf(g)]' = [g \in Fp |-> StageOf(g)]
  BY <1>5, StagesStay
<1>7. [g \in Fp |-> rows[g].hits]' = [g \in Fp |-> rows[g].hits]
  BY <1>1
<1>8. [g \in Fp |-> LeaseOf(rows[g])]' =
        [[g \in Fp |-> LeaseOf(rows[g])] EXCEPT ![f].bucket = b, ![f].expires = at + TTL[b]]
  <2>1. LeaseOf(rows'[f]) = [bucket |-> b, created |-> rows[f].created, expires |-> e]
    BY <1>1 DEF LeaseOf
  <2>2. [LeaseOf(rows[f]) EXCEPT !.bucket = b, !.expires = e] =
          [bucket |-> b, created |-> rows[f].created, expires |-> e]
    <3> DEFINE r == [bucket |-> rows[f].bucket, created |-> rows[f].created,
                     expires |-> rows[f].expires]
             p == [r EXCEPT !.bucket = b, !.expires = e]
             L == [bucket : Int, created : Int, expires : Int]
    <3>1. p \in L /\ p.bucket = b /\ p.created = rows[f].created /\ p.expires = e
      <4>1. /\ rows[f].bucket \in Int /\ rows[f].created \in Int /\ rows[f].expires \in Int
            /\ b \in Int /\ e \in Int
        BY <1>0, <1>1, RowTyped DEF Buckets
      <4>2. r \in L /\ r.created = rows[f].created
        BY <4>1
      <4> HIDE DEF r
      <4> QED
        BY <4>1, <4>2
    <3>3. p = [bucket |-> b, created |-> rows[f].created, expires |-> e]
      <4> HIDE DEF p
      <4> QED
        BY <3>1
    <3>2. LeaseOf(rows[f]) = r
      BY DEF LeaseOf
    <3> QED
      BY <3>2, <3>3
  <2>3. \A g \in Fp \ {f} : LeaseOf(rows'[g]) = LeaseOf(rows[g])
    BY <1>1
  <2> DEFINE old == [g \in Fp |-> LeaseOf(rows[g])]
             new == [g \in Fp |-> LeaseOf(rows'[g])]
  <2>4. new = [old EXCEPT ![f] = [old[f] EXCEPT !.bucket = b, !.expires = e]]
    BY <1>1, <2>1, <2>2, <2>3
  <2>5. [old EXCEPT ![f].bucket = b, ![f].expires = e] =
          [old EXCEPT ![f] = [old[f] EXCEPT !.bucket = b, !.expires = e]]
    BY <1>1
  <2> QED
    BY <1>3, <2>4, <2>5
<1>9. [g \in Fp |-> StageOf(g)][f] # "absent"
  BY <1>1 DEF StageOf
<1>10. MovableEntries!Move(f)
  BY <1>2, <1>3, <1>4, <1>6, <1>7, <1>8, <1>9 DEF MovableEntries!Move, MovableEntries!Bucket
<1> QED
  BY <1>1, <1>10

-----------------------------------------------------------------------------
\* The initial states of the system are initial states of the entries.
LEMMA MovableRefinesInit == SystemInit => MovableEntries!Init
BY DEF SystemInit, RPInit, StorageInit, MovableEntries!Init, MovableEntries!None, StageOf,
   LeaseOf, HasRow, HasPoint, HasDecision, NoRow, NoTime, NoDecision, NoBucket

\* A statement of a request is a step of the abstract entry, or none.
LEMMA MovableRefinesStatement ==
  ASSUME MovableInv, NEW h \in Handler, Effect(h), UNCHANGED clock
  PROVE  MovableEntries!Next \/ UNCHANGED MovableEntries!vars
<1> DEFINE s == handler[h]
<1>0. /\ SystemInv /\ StoresAlone /\ RequestOK(handler[h]) /\ ChosenOK(handler[h])
      /\ handler[h] \in HandlerState
  BY Facts DEF MovableInv, SystemInv
<1>1. CASE At(h, "mark")
  <2>1. /\ MarkHit(s.entry) /\ s.entry \in Fp /\ HasRow(s.entry) /\ HasPoint(s.entry)
        /\ UNCHANGED <<points, decisions, feedback>>
    BY <1>0, <1>1 DEF Effect, At, RequestOK, ChosenOK, Chosen
  <2>2. PICK f \in Fp : f = s.entry
    BY <2>1
  <2>3. MovableEntries!Count(f)
    BY <2>1, <2>2, HitCounts
  <2> QED
    BY <2>3 DEF MovableEntries!Next
<1>2. CASE At(h, "logHit")
  <2>1. /\ InsertHitServed(s.entry) /\ s.entry \in Fp /\ UNCHANGED <<rows, points, decisions>>
    BY <1>0, <1>2 DEF Effect, At, RequestOK
  <2>2. Owing(handler[h], s.entry)
    BY <1>2 DEF Owing, At
  <2>3. PICK f \in Fp : f = s.entry
    BY <2>1
  <2>4. MovableEntries!Serve(f)
    BY <2>1, <2>2, <2>3, OwedHitServes
  <2> QED
    BY <2>4 DEF MovableEntries!Next
<1>3. CASE At(h, "logStale")
  <2>1. InsertStaleHit(s.entry) /\ UNCHANGED <<rows, points, decisions>>
    BY <1>3 DEF Effect, At
  <2>2. feedback \in [Fp -> [hit : Nat, stale : Nat]]
    BY <1>0, Facts
  <2>3. [g \in Fp |-> feedback[g].hit]' = [g \in Fp |-> feedback[g].hit]
    BY <2>1, <2>2 DEF InsertStaleHit
  <2>4. [g \in Fp |-> StageOf(g)]' = [g \in Fp |-> StageOf(g)]
    BY <2>1, StagesStay DEF SameRecords, HasRow, HasPoint, HasDecision
  <2> QED
    BY <2>1, <2>3, <2>4 DEF MovableEntries!vars
<1>4. CASE At(h, "insert")
  <2>1. CanInsert(s.fp) /\ InsertNow(h) /\ UNCHANGED <<points, decisions, feedback>>
    BY <1>4 DEF Effect, At
  <2>2. /\ s.fp \in Fp /\ s.bucket \in Buckets /\ s.created \in Nat /\ s.created <= clock
        /\ s.expires = s.created + TTL[s.bucket]
    BY <1>0, <1>4 DEF RequestOK, At, StoreCalls
  <2>3. MovableEntries!Store(s.fp)
    BY <2>1, <2>2, InsertStores DEF InsertNow
  <2> QED
    BY <2>2, <2>3 DEF MovableEntries!Next
<1>5. CASE At(h, "upsert")
  <2>1. UpsertPoint(s.fp, s.expires) /\ UNCHANGED <<rows, decisions, feedback>>
    BY <1>5 DEF Effect, At
  <2>2. /\ s.fp \in Fp /\ HasRow(s.fp) /\ s.bucket \in Buckets
        /\ s.expires = rows[s.fp].created + TTL[s.bucket]
    BY <1>0, <1>5 DEF RequestOK, At, StoreCalls
  <2>3. ~HasPoint(s.fp)
    BY <1>0, <1>5, <2>2 DEF StoresAlone, Storing, At
  <2>4. MovableEntries!Index(s.fp)
    BY <2>1, <2>2, <2>3, UpsertIndexes
  <2> QED
    BY <2>2, <2>4 DEF MovableEntries!Next
<1>6. CASE At(h, "decide")
  <2>1. /\ InsertDecision(s.fp, s.bucket, s.chosen) /\ UNCHANGED <<rows, points, feedback>>
    BY <1>6 DEF Effect, At, InsertDecisionNow
  <2>2. s.fp \in Fp /\ HasRow(s.fp) /\ HasPoint(s.fp) /\ s.bucket \in Buckets
    BY <1>0, <1>6 DEF RequestOK, At
  <2>3. ~HasDecision(s.fp)
    BY <1>0, <1>6, <2>2 DEF StoresAlone, Storing, At
  <2>4. MovableEntries!Decide(s.fp)
    BY <2>1, <2>2, <2>3, DecisionDecides
  <2> QED
    BY <2>2, <2>4 DEF MovableEntries!Next
<1> QED
  BY <1>1, <1>2, <1>3, <1>4, <1>5, <1>6 DEF Effect

\* Every step of the system is a step of the abstract entries or changes none of them.
LEMMA MovableRefinesStep ==
  MovableInv /\ [SystemNext]_systemVars => [MovableEntries!Next]_MovableEntries!vars
<1> SUFFICES ASSUME MovableInv, [SystemNext]_systemVars
             PROVE  MovableEntries!Next \/ UNCHANGED MovableEntries!vars
  OBVIOUS
<1>1. ASSUME UNCHANGED storageVars
      PROVE  /\ [g \in Fp |-> StageOf(g)]' = [g \in Fp |-> StageOf(g)]
             /\ UNCHANGED <<rows, points, feedback>>
  BY <1>1, StagesStay DEF SameRecords, HasRow, HasPoint, HasDecision, storageVars
<1>2. CASE UNCHANGED <<clock, storageVars>>
  BY <1>1, <1>2 DEF MovableEntries!vars
<1>3. CASE Tick
  BY <1>1, <1>3 DEF Tick, MovableEntries!Pass, MovableEntries!Next
<1>4. CASE UNCHANGED clock /\ \E h \in Handler : Effect(h)
  BY <1>4, MovableRefinesStatement
<1>5. CASE \E w \in Worker : Moves(w)
  <2>1. PICK w \in Worker : Moves(w)
    BY <1>5
  <2>2. PICK f : f = worker[w].entry
    OBVIOUS
  <2>3. f \in Fp /\ MovableEntries!Move(f)
    BY <2>1, <2>2, AdjustMoves
  <2> QED
    BY <2>3 DEF MovableEntries!Next
<1> QED
  BY <1>2, <1>3, <1>4, <1>5, OneStatement

\* The whole system implements the abstract entries: with any number of requests and of
\* refresh cycles that overlap, fail and move entries between the steps of a store, each entry
\* is stored, indexed and decided in this order, once each, served no more often than counted,
\* and moved only to lifetimes of existing buckets that began in the past.
THEOREM RefinesMovableEntries == SystemSpec => ImplementsMovableEntries
BY MovableRefinesInit, MovableRefinesStep, MovableInvariant, PTL
   DEF SystemSpec, ImplementsMovableEntries, MovableEntries!Spec

=============================================================================
