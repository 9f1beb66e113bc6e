-------------------------- MODULE CacheSystemProofs --------------------------
(***************************************************************************)
(* The invariants of CacheSystem, for any number of requests and refresh   *)
(* cycles over any set of entries.                                         *)
(*                                                                         *)
(* The argument: records are added and never taken away, and a decision    *)
(* never changes (Grows), so what a request or a cycle has learnt stays    *)
(* true while the others go on.  Only two facts are not of this kind: the  *)
(* entry a request is storing has no other writer and no decision yet      *)
(* (StoresAlone), which the UNIQUE fingerprint gives, and the counters of  *)
(* the learning are ahead of each other by what the cycles still owe       *)
(* (LearnedOK).                                                            *)
(***************************************************************************)
EXTENDS CacheSystem, TLAPS, FiniteSetTheorems

StoresOK == StorageTypeOK /\ RowThenPointThenDecision /\ EntryLivesWithinItsBucket

\* Rows, points and decisions stay, and so does what they were made with.
Grows ==
  /\ clock' \in Nat /\ clock <= clock'
  /\ \A f \in Fp : /\ HasRow(f) => HasRow(f)' /\ rows'[f].created = rows[f].created
                   /\ HasPoint(f) => HasPoint(f)'
                   /\ HasDecision(f) => decisions'[f] = decisions[f]

\* What the next call of a request in state s relies on.
RequestOK(s) ==
  /\ s.pc \in LookupCalls \cup StoreCalls \cup {"decide"} => s.fp \in Fp
  /\ \A g \in s.cands : HasPoint(g)
  /\ s.stale # NoFp => HasRow(s.stale)
  /\ s.pc \in {"mark", "reread", "logHit", "logStale"} => s.entry \in Fp /\ HasRow(s.entry)
  /\ s.pc \in LookupCalls \cup {"idle"} => s.chosen = NoBucket
  /\ s.pc \in {"backend", "stamp"} => s.chosen \in {s.bucket, NoBucket}
  /\ s.pc \in {"insert", "upsert", "reload", "decide"} =>
       s.bucket \in Buckets /\ s.chosen \in Buckets \cup {NoBucket}
  /\ s.pc \in {"insert", "upsert"} =>
       /\ s.created \in Nat /\ s.created <= clock
       /\ s.expires = s.created + TTL[s.bucket]
  /\ s.pc \in {"upsert", "reload", "decide"} => HasRow(s.fp)
  /\ s.pc = "upsert" => rows[s.fp].created = s.created
  /\ s.pc \in {"reload", "decide"} => HasPoint(s.fp)

\* A request between its insert and its decision.
Storing(h, f) == handler[h].pc \in {"upsert", "reload", "decide"} /\ handler[h].fp = f

StoresAlone ==
  \A h \in Handler, f \in Fp : Storing(h, f) =>
    /\ ~HasDecision(f)
    /\ At(h, "upsert") => ~HasPoint(f)
    /\ \A k \in Handler \ {h} : ~Storing(k, f)

\* What the next call of a cycle in state s relies on.
CycleOK(s) ==
  /\ \A g \in s.todo : HasRow(g)
  /\ s.pc \notin {"idle", "list", "evaluate"} => s.entry \in Fp /\ HasRow(s.entry)
  /\ s.decided => s.entry \in Fp /\ HasDecision(s.entry)
  /\ s.pc \in {"reward", "fetch", "train"} => s.decided
  /\ s.pc = "read" => s.verdict \in {"bonus", "early"}
  /\ s.pc = "adjust" => /\ s.bucket \in Buckets /\ s.expires \in Nat
                        /\ s.expires <= clock + TTL[s.bucket]
  /\ s.pc = "train" => s.bucket = decisions[s.entry].bucket

\* The cycles that have logged an outcome of f and not rewarded it yet, and those that
\* have rewarded it and not trained with it.
OwesReward(f) == {w \in Worker : worker[w].pc = "reward" /\ worker[w].entry = f}
OwesTraining(f) == {w \in Worker : worker[w].pc \in {"fetch", "train"} /\ worker[w].entry = f}

LearnedOK(f) ==
  /\ IsFiniteSet(OwesReward(f)) /\ IsFiniteSet(OwesTraining(f))
  /\ rewards[f] + Cardinality(OwesReward(f)) <= refreshed[f]
  /\ \A b \in Buckets : trained[f][b] + Cardinality(OwesTraining(f)) <= rewards[f]

\* The inductive invariant of the system.
SystemInv ==
  /\ SystemTypeOK
  /\ RowThenPointThenDecision
  /\ EntryLivesWithinItsBucket
  /\ TrainedAsDecided
  /\ \A h \in Handler : RequestOK(handler[h])
  /\ StoresAlone
  /\ \A w \in Worker : CycleOK(worker[w])
  /\ \A f \in Fp : LearnedOK(f)

\* What SystemInv says of types.
LEMMA Facts ==
  ASSUME SystemInv
  PROVE  /\ StoresOK /\ clock \in Nat /\ arrivals \in Nat /\ cycles \in Nat
         /\ handler \in [Handler -> HandlerState] /\ worker \in [Worker -> WorkerState]
         /\ rows \in [Fp -> Row \cup {NoRow}] /\ points \in [Fp -> Nat \cup {NoTime}]
         /\ decisions \in [Fp -> Decision \cup {NoDecision}]
         /\ feedback \in [Fp -> [hit : Nat, stale : Nat]]
         /\ refreshed \in [Fp -> Nat] /\ rewards \in [Fp -> Nat]
         /\ trained \in [Fp -> [Buckets -> Nat]]
BY DEF SystemInv, SystemTypeOK, RPTypeOK, RefreshTypeOK, StorageTypeOK, StoresOK

\* A row that is there is typed.
LEMMA RowTyped ==
  ASSUME SystemInv, NEW f \in Fp, HasRow(f)
  PROVE  rows[f] \in Row /\ rows[f].bucket \in Buckets /\ rows[f].expires \in Nat
         /\ rows[f].created \in Nat /\ rows[f].hits \in Nat
BY Facts DEF HasRow, Row

\* The values of pc that are calls.
LEMMA CallNames ==
  /\ {"search", "check", "mark", "reread", "logHit", "logStale", "select"} \subseteq Calls
  /\ {"stamp", "insert", "upsert", "reload", "backend", "decide"} \subseteq Calls
BY DEF Calls, LookupCalls, StoreCalls

\* A lifetime is a number.
LEMMA Lifetime == \A b \in Buckets : TTL[b] \in Nat
BY TTLAssumption

-----------------------------------------------------------------------------
(* The statements, one by one.                                               *)

\* Time passes, or nothing is written to rows, points and decisions.
LEMMA NoWrite ==
  ASSUME SystemInv, clock' \in Nat, clock <= clock', UNCHANGED <<rows, points, decisions>>,
         feedback' \in [Fp -> [hit : Nat, stale : Nat]]
  PROVE  StoresOK' /\ Grows
<1>1. StorageTypeOK' /\ RowThenPointThenDecision' /\ Grows
  BY Facts DEF StorageTypeOK, StoresOK, RowThenPointThenDecision, Grows, HasRow, HasPoint,
     HasDecision
<1>2. ASSUME NEW f \in Fp, HasRow(f)' PROVE rows'[f].expires <= clock' + TTL[rows'[f].bucket]
  <2>1. HasRow(f) /\ rows'[f] = rows[f]
    BY <1>2 DEF HasRow
  <2>2. rows[f].expires <= clock + TTL[rows[f].bucket]
    BY <2>1 DEF SystemInv, EntryLivesWithinItsBucket
  <2>3. rows[f].expires \in Nat /\ TTL[rows[f].bucket] \in Nat
    BY <2>1, RowTyped, Lifetime
  <2> QED
    BY <2>1, <2>2, <2>3, Facts
<1> QED
  BY <1>1, <1>2 DEF StoresOK, EntryLivesWithinItsBucket

\* One row is written, with the lifetime of its bucket at most.
LEMMA RowWritten ==
  ASSUME SystemInv, NEW f \in Fp, NEW r \in Row, rows' = [rows EXCEPT ![f] = r],
         HasRow(f) => r.created = rows[f].created, r.expires <= clock + TTL[r.bucket],
         UNCHANGED <<clock, points, decisions, feedback>>
  PROVE  StoresOK' /\ Grows /\ HasRow(f)' /\ rows'[f] = r
<1>1. /\ rows' \in [Fp -> Row \cup {NoRow}] /\ rows'[f] = r
      /\ \A g \in Fp \ {f} : rows'[g] = rows[g]
  BY Facts
<1>2. r # NoRow
  BY BucketAssumption DEF Row, NoRow, NoBucket, Buckets
<1>3. \A g \in Fp : HasRow(g) => HasRow(g)' /\ rows'[g].created = rows[g].created
  BY <1>1, <1>2 DEF HasRow
<1>4. Grows
  BY <1>3, Facts DEF Grows, HasPoint, HasDecision
<1>5. StorageTypeOK' /\ RowThenPointThenDecision'
  BY <1>1, <1>3, Facts DEF StorageTypeOK, StoresOK, RowThenPointThenDecision, HasPoint,
     HasDecision
<1>6. EntryLivesWithinItsBucket'
  BY <1>1, Facts DEF StoresOK, EntryLivesWithinItsBucket, HasRow
<1> QED
  BY <1>1, <1>2, <1>4, <1>5, <1>6 DEF StoresOK, HasRow

\* A point is written for a row that is there.
LEMMA PointWritten ==
  ASSUME SystemInv, NEW f \in Fp, NEW e \in Nat, HasRow(f), UpsertPoint(f, e),
         UNCHANGED <<clock, rows, decisions, feedback>>
  PROVE  StoresOK' /\ Grows /\ HasPoint(f)'
<1>1. /\ points' \in [Fp -> Nat \cup {NoTime}] /\ points'[f] = e
      /\ \A g \in Fp \ {f} : points'[g] = points[g]
  BY Facts DEF UpsertPoint
<1>2. HasPoint(f)' /\ \A g \in Fp : HasPoint(g) => HasPoint(g)'
  BY <1>1 DEF HasPoint, NoTime
<1>3. Grows
  BY <1>2, Facts DEF Grows, HasRow
<1>4. StorageTypeOK' /\ RowThenPointThenDecision'
  BY <1>1, <1>2, Facts DEF StorageTypeOK, StoresOK, RowThenPointThenDecision, HasPoint,
     HasDecision, HasRow
<1>5. EntryLivesWithinItsBucket'
  BY Facts DEF StoresOK, EntryLivesWithinItsBucket, HasRow
<1> QED
  BY <1>2, <1>3, <1>4, <1>5 DEF StoresOK

\* The first decision of an indexed entry is written.
LEMMA DecisionWritten ==
  ASSUME SystemInv, NEW f \in Fp, HasPoint(f), ~HasDecision(f),
         NEW b \in Buckets, NEW c \in Buckets \cup {NoBucket}, InsertDecision(f, b, c),
         UNCHANGED <<clock, rows, points, feedback>>
  PROVE  StoresOK' /\ Grows
<1> DEFINE d == [bucket |-> b, chosen |-> c]
<1>1. d \in Decision
  BY DEF Decision
<1>2. /\ decisions' \in [Fp -> Decision \cup {NoDecision}]
      /\ \A g \in Fp \ {f} : decisions'[g] = decisions[g]
  BY <1>1, Facts DEF InsertDecision
<1>3. Grows
  BY <1>2, Facts DEF Grows, HasRow, HasPoint, HasDecision
<1>4. StorageTypeOK'
  BY <1>2, Facts DEF StorageTypeOK, StoresOK
<1>5. RowThenPointThenDecision'
  BY <1>2, Facts DEF StoresOK, RowThenPointThenDecision, HasPoint, HasDecision, HasRow
<1>6. EntryLivesWithinItsBucket'
  BY Facts DEF StoresOK, EntryLivesWithinItsBucket, HasRow
<1> QED
  BY <1>3, <1>4, <1>5, <1>6 DEF StoresOK

-----------------------------------------------------------------------------
(* What stays true while others go on.                                       *)

\* What a request has learnt, with its locals s.
LEMMA RequestStays ==
  ASSUME SystemInv, Grows, NEW s \in HandlerState, RequestOK(s)
  PROVE  RequestOK(s)'
<1>1. \A g \in s.cands : HasPoint(g)'
  BY DEF Grows, RequestOK, HandlerState
<1>2. s.stale # NoFp => HasRow(s.stale)'
  BY DEF Grows, RequestOK, HandlerState
<1>3. s.pc \in {"mark", "reread", "logHit", "logStale"} => s.entry \in Fp /\ HasRow(s.entry)'
  BY DEF Grows, RequestOK
<1>4. s.pc \in {"insert", "upsert"} =>
        /\ s.created \in Nat /\ s.created <= clock'
        /\ s.expires = s.created + TTL[s.bucket]
  BY Facts DEF Grows, RequestOK
<1>5. /\ s.pc \in {"upsert", "reload", "decide"} => HasRow(s.fp)'
      /\ s.pc = "upsert" => rows'[s.fp].created = s.created
      /\ s.pc \in {"reload", "decide"} => HasPoint(s.fp)'
  BY DEF Grows, RequestOK, StoreCalls
<1> QED
  BY <1>1, <1>2, <1>3, <1>4, <1>5 DEF RequestOK

\* What a cycle has learnt, with its locals s.
LEMMA CycleStays ==
  ASSUME SystemInv, Grows, NEW s \in WorkerState, CycleOK(s)
  PROVE  CycleOK(s)'
<1>1. \A g \in s.todo : HasRow(g)'
  BY DEF Grows, CycleOK, WorkerState
<1>2. s.pc \notin {"idle", "list", "evaluate"} => s.entry \in Fp /\ HasRow(s.entry)'
  BY DEF Grows, CycleOK
<1>3. s.decided => s.entry \in Fp /\ decisions'[s.entry] = decisions[s.entry] /\ HasDecision(s.entry)'
  BY DEF Grows, CycleOK, HasDecision
<1>4. s.pc = "adjust" => /\ s.bucket \in Buckets /\ s.expires \in Nat
                         /\ s.expires <= clock' + TTL[s.bucket]
  BY Facts, Lifetime DEF Grows, CycleOK
<1> QED
  BY <1>1, <1>2, <1>3, <1>4 DEF CycleOK

\* What the policy has learnt, while decisions stay.
LEMMA TrainedStays ==
  ASSUME SystemInv, Grows, UNCHANGED trained PROVE TrainedAsDecided'
BY DEF SystemInv, TrainedAsDecided, Grows, HasDecision

\* A step of request h is sound when it leaves the stores consistent and grown, leaves h as
\* its next call expects it, and makes h a writer only of an entry without one.
LEMMA OneRequest ==
  ASSUME SystemInv, StoresOK', Grows, UNCHANGED refreshVars, arrivals' \in Nat,
         NEW h \in Handler, NEW s \in HandlerState, Become(h, s),
         handler'[h] = s => RequestOK(handler[h])', StoresAlone'
  PROVE  SystemInv'
<1>1. /\ handler' \in [Handler -> HandlerState] /\ handler'[h] = s
      /\ \A k \in Handler \ {h} : handler'[k] = handler[k]
  BY Facts DEF Become
<1>2. \A k \in Handler : RequestOK(handler[k])'
  <2> TAKE k \in Handler
  <2>1. CASE k = h
    BY <2>1, <1>1
  <2>2. CASE k # h
    <3>1. handler[k] \in HandlerState /\ RequestOK(handler[k]) /\ handler'[k] = handler[k]
      BY <2>2, <1>1, Facts DEF SystemInv
    <3> QED
      BY <3>1, RequestStays DEF RequestOK
  <2> QED
    BY <2>1, <2>2
<1>3. \A w \in Worker : CycleOK(worker[w])'
  <2> TAKE w \in Worker
  <2>1. worker[w] \in WorkerState /\ CycleOK(worker[w]) /\ worker'[w] = worker[w]
    BY Facts DEF SystemInv, refreshVars
  <2> QED
    BY <2>1, CycleStays DEF CycleOK
<1>4. SystemTypeOK'
  BY <1>1, Facts DEF SystemTypeOK, RPTypeOK, RefreshTypeOK, StoresOK, refreshVars, learningVars
<1>5. TrainedAsDecided'
  BY TrainedStays DEF refreshVars, learningVars
<1>6. \A f \in Fp : LearnedOK(f)'
  BY DEF SystemInv, LearnedOK, OwesReward, OwesTraining, refreshVars, learningVars
<1> QED
  BY <1>2, <1>3, <1>4, <1>5, <1>6 DEF SystemInv, StoresOK

StoringCalls == {"upsert", "reload", "decide"}

\* A step of h keeps one writer to an entry when it writes a point or a decision only as the
\* entry's writer, and becomes a writer only of an entry without a row.
LEMMA AloneStays ==
  ASSUME SystemInv, NEW h \in Handler, NEW s \in HandlerState, Become(h, s),
         \A g \in Fp : HasDecision(g)' => HasDecision(g) \/ (Storing(h, g) /\ s.pc \notin StoringCalls),
         \A g \in Fp : HasPoint(g)' => HasPoint(g) \/ (Storing(h, g) /\ s.pc # "upsert"),
         s.pc \in StoringCalls =>
           \/ Storing(h, s.fp) /\ (s.pc = "upsert" => At(h, "upsert"))
           \/ ~HasRow(s.fp)
  PROVE  StoresAlone'
<1>1. /\ handler'[h] = s /\ \A k \in Handler \ {h} : handler'[k] = handler[k]
      /\ handler[h] \in HandlerState
  BY Facts DEF Become
<1>2. \A k \in Handler, f \in Fp : Storing(k, f) => HasRow(f)
  BY DEF SystemInv, RequestOK, Storing
<1>3. SUFFICES ASSUME NEW k \in Handler, NEW f \in Fp, Storing(k, f)'
               PROVE  /\ ~HasDecision(f)'
                      /\ At(k, "upsert")' => ~HasPoint(f)'
                      /\ \A j \in Handler \ {k} : ~Storing(j, f)'
  BY DEF StoresAlone
<1>4. CASE k # h
  <2>1. Storing(k, f) /\ (At(k, "upsert")' => At(k, "upsert"))
    BY <1>1, <1>3, <1>4 DEF Storing, At
  <2>2. ~HasDecision(f) /\ (At(k, "upsert") => ~HasPoint(f)) /\ ~Storing(h, f) /\ HasRow(f)
        /\ \A j \in Handler \ {k} : ~Storing(j, f)
    BY <1>2, <1>4, <2>1 DEF SystemInv, StoresAlone
  <2>3. ~Storing(h, f)'
    BY <1>1, <2>2 DEF Storing, StoringCalls
  <2>4. \A j \in Handler \ {k} : ~Storing(j, f)'
    BY <1>1, <2>2, <2>3 DEF Storing
  <2> QED
    BY <2>1, <2>2, <2>4
<1>5. CASE k = h
  <2>1. s.pc \in StoringCalls /\ s.fp = f
    BY <1>1, <1>3, <1>5 DEF Storing, StoringCalls
  <2>2. CASE Storing(h, f) /\ (s.pc = "upsert" => At(h, "upsert"))
    <3>1. ~HasDecision(f) /\ (At(h, "upsert") => ~HasPoint(f))
          /\ \A j \in Handler \ {h} : ~Storing(j, f)
      BY <2>2 DEF SystemInv, StoresAlone
    <3>2. ~HasDecision(f)' /\ (s.pc = "upsert" => ~HasPoint(f)')
      BY <2>1, <2>2, <3>1
    <3> QED
      BY <1>1, <1>5, <3>1, <3>2 DEF Storing, At
  <2>3. CASE ~HasRow(f)
    <3>1. ~HasPoint(f) /\ ~HasDecision(f) /\ \A j \in Handler : ~Storing(j, f)
      BY <1>2, <2>3 DEF SystemInv, RowThenPointThenDecision
    <3>2. ~HasDecision(f)' /\ ~HasPoint(f)'
      BY <3>1
    <3> QED
      BY <1>1, <1>5, <3>1, <3>2 DEF Storing
  <2> QED
    BY <2>1, <2>2, <2>3
<1> QED
  BY <1>4, <1>5

\* A step that writes no point and no decision, of a request that writes no entry after it.
LEMMA WritesNothing ==
  ASSUME SystemInv, UNCHANGED refreshVars, arrivals' \in Nat, StoresOK', Grows,
         UNCHANGED <<points, decisions>>,
         NEW h \in Handler, NEW s \in HandlerState, Become(h, s), RequestOK(s),
         s.pc \notin StoringCalls
  PROVE  SystemInv'
<1>1. StoresAlone'
  <2>1. \A g \in Fp : (HasDecision(g)' => HasDecision(g)) /\ (HasPoint(g)' => HasPoint(g))
    BY DEF HasPoint, HasDecision
  <2>2. s.pc \in StoringCalls =>
          \/ Storing(h, s.fp) /\ (s.pc = "upsert" => At(h, "upsert"))
          \/ ~HasRow(s.fp)
    OBVIOUS
  <2>4. \A g \in Fp : HasDecision(g)' => HasDecision(g) \/ (Storing(h, g) /\ s.pc \notin StoringCalls)
    BY <2>1
  <2>5. \A g \in Fp : HasPoint(g)' => HasPoint(g) \/ (Storing(h, g) /\ s.pc # "upsert")
    <3> TAKE g \in Fp
    <3>1. HasPoint(g)' => HasPoint(g)
      BY <2>1
    <3> QED
      BY <3>1, Zenon
  <2> QED
    BY <2>2, <2>4, <2>5, AloneStays
<1>2. ASSUME handler'[h] = s PROVE RequestOK(handler[h])'
  BY <1>2, RequestStays DEF RequestOK
<1> QED
  BY <1>1, <1>2, OneRequest

\* A step that sends no statement.
LEMMA Quiet ==
  ASSUME SystemInv, UNCHANGED <<clock, storageVars, refreshVars>>, arrivals' \in Nat,
         NEW h \in Handler, NEW s \in HandlerState, Become(h, s), RequestOK(s),
         s.pc \notin StoringCalls
  PROVE  SystemInv'
<1>1. UNCHANGED <<clock, rows, points, decisions, feedback, refreshVars>>
  BY DEF storageVars
<1>2. StoresOK' /\ Grows
  BY <1>1, Facts, NoWrite
<1> QED
  BY <1>1, <1>2, WritesNothing

-----------------------------------------------------------------------------
(* The steps of a request.                                                   *)

\* The request is answered, whatever it was about; it relies on nothing any more.
LEMMA AnsweredOK ==
  ASSUME SystemInv, NEW h \in Handler, NEW kind \in {"cached", "forwarded", "error"},
         ~At(h, "idle")
  PROVE  LET s == [handler[h] EXCEPT !.pc = "reply", !.reply = kind]
         IN  s \in HandlerState /\ RequestOK(s) /\ s.pc = "reply"
<1> DEFINE s == [handler[h] EXCEPT !.pc = "reply", !.reply = kind]
<1>0. handler[h] \in HandlerState /\ RequestOK(handler[h])
  BY Facts DEF SystemInv
<1>1. s \in HandlerState
  BY <1>0 DEF HandlerState
<1>2. s.pc = "reply" /\ s.cands = handler[h].cands /\ s.stale = handler[h].stale
  BY <1>0 DEF HandlerState
<1> HIDE DEF s
<1>3. RequestOK(s)
  BY <1>0, <1>2 DEF RequestOK, LookupCalls, StoreCalls
<1> QED
  BY <1>1, <1>2, <1>3 DEF s

\* The steps of the lookup that only read.
LEMMA LookupReads ==
  ASSUME SystemInv, NEW h \in Handler, UNCHANGED refreshVars,
         \/ VectorSearch(h) \/ Discard(h) \/ ChooseLive(h) \/ Reread(h)
         \/ NoLiveCandidate(h) \/ SelectBucket(h)
  PROVE  SystemInv'
<1>0. /\ handler[h] \in HandlerState /\ RequestOK(handler[h]) /\ arrivals \in Nat
      /\ rows \in [Fp -> Row \cup {NoRow}]
  BY Facts DEF SystemInv
<1>1. CASE VectorSearch(h)
  <2>1. PICK S \in SearchResults(handler[h].fp) :
          Become(h, [handler[h] EXCEPT !.pc = "check", !.cands = S])
    BY <1>1 DEF VectorSearch
  <2> DEFINE s == [handler[h] EXCEPT !.pc = "check", !.cands = S]
  <2>2. S \subseteq Fp /\ \A g \in S : HasPoint(g)
    BY DEF SearchResults, Findable
  <2>4. /\ At(h, "search") /\ Become(h, s) /\ UNCHANGED <<clock, storageVars, arrivals>>
    BY <1>1, <2>1 DEF VectorSearch
  <2>3. s \in HandlerState /\ RequestOK(s) /\ s.pc = "check"
    <3>1. s \in HandlerState
      BY <1>0, <2>2, CallNames DEF HandlerState
    <3>2. /\ s.pc = "check" /\ s.cands = S
          /\ s.fp = handler[h].fp /\ s.stale = handler[h].stale /\ s.entry = handler[h].entry /\ s.bucket = handler[h].bucket /\ s.chosen = handler[h].chosen
      BY <1>0 DEF HandlerState
    <3> HIDE DEF s
    <3> QED
      BY <1>0, <2>2, <2>4, <3>1, <3>2 DEF RequestOK, At, LookupCalls, StoreCalls
  <2> HIDE DEF s
  <2> QED
    BY <1>0, <2>3, <2>4, Quiet DEF StoringCalls
<1>2. CASE Discard(h)
  <2>1. PICK g \in Fp :
          /\ At(h, "check") /\ g \in handler[h].cands /\ UNCHANGED <<clock, storageVars, arrivals>>
          /\ \/ HasRow(g) /\ Become(h, [handler[h] EXCEPT !.cands = @ \ {g}, !.stale = g,
                                                          !.bucket = rows[g].bucket])
             \/ Become(h, [handler[h] EXCEPT !.cands = @ \ {g}])
    BY <1>0, <1>2 DEF Discard, Best, HandlerState
  <2>2. CASE HasRow(g) /\ Become(h, [handler[h] EXCEPT !.cands = @ \ {g}, !.stale = g,
                                                          !.bucket = rows[g].bucket])
    <3> DEFINE s == [handler[h] EXCEPT !.cands = @ \ {g}, !.stale = g, !.bucket = rows[g].bucket]
    <3>1. rows[g].bucket \in Int
      BY <2>2, RowTyped DEF Buckets
    <3>2. s \in HandlerState /\ RequestOK(s) /\ s.pc = "check"
      BY <1>0, <2>1, <2>2, <3>1 DEF HandlerState, RequestOK, At, LookupCalls, StoreCalls
    <3> HIDE DEF s
    <3> QED
      BY <1>0, <2>1, <2>2, <3>2, Quiet DEF StoringCalls, s
  <2>3. CASE Become(h, [handler[h] EXCEPT !.cands = @ \ {g}])
    <3> DEFINE s == [handler[h] EXCEPT !.cands = @ \ {g}]
    <3>1. s \in HandlerState /\ RequestOK(s) /\ s.pc = "check"
      BY <1>0, <2>1, <2>3 DEF HandlerState, RequestOK, At, LookupCalls, StoreCalls
    <3> HIDE DEF s
    <3> QED
      BY <1>0, <2>1, <2>3, <3>1, Quiet DEF StoringCalls, s
  <2> QED
    BY <2>1, <2>2, <2>3
<1>3. CASE ChooseLive(h)
  <2>1. PICK g \in Fp :
          /\ At(h, "check") /\ HasRow(g) /\ UNCHANGED <<clock, storageVars, arrivals>>
          /\ Become(h, [handler[h] EXCEPT !.pc = "mark", !.cands = @ \ {g}, !.entry = g])
    BY <1>0, <1>3 DEF ChooseLive, Best, HandlerState, Live
  <2> DEFINE s == [handler[h] EXCEPT !.pc = "mark", !.cands = @ \ {g}, !.entry = g]
  <2>2. s \in HandlerState /\ RequestOK(s) /\ s.pc = "mark"
    <3>1. s \in HandlerState
      BY <1>0, CallNames DEF HandlerState
    <3>2. /\ s.pc = "mark" /\ s.entry = g /\ s.cands = handler[h].cands \ {g}
          /\ s.fp = handler[h].fp /\ s.stale = handler[h].stale /\ s.bucket = handler[h].bucket /\ s.chosen = handler[h].chosen
      BY <1>0 DEF HandlerState
    <3> HIDE DEF s
    <3> QED
      BY <1>0, <2>1, <3>1, <3>2 DEF RequestOK, At, LookupCalls, StoreCalls
  <2> HIDE DEF s
  <2> QED
    BY <1>0, <2>1, <2>2, Quiet DEF StoringCalls, s
<1>4. CASE Reread(h)
  <2> DEFINE g == handler[h].entry
             s == [handler[h] EXCEPT !.pc = "logHit", !.status = "HIT",
                     !.bucket = rows[g].bucket, !.expires = rows[g].expires]
  <2>1. /\ At(h, "reread") /\ g \in Fp /\ HasRow(g) /\ Become(h, s)
        /\ UNCHANGED <<clock, storageVars, arrivals>>
    BY <1>0, <1>4 DEF Reread, RequestOK, At
  <2>2. rows[g].bucket \in Int /\ rows[g].expires \in Nat
    BY <2>1, RowTyped DEF Buckets
  <2>3. s \in HandlerState /\ RequestOK(s) /\ s.pc = "logHit"
    <3>1. s \in HandlerState
      BY <1>0, <2>2, CallNames DEF HandlerState
    <3>2. /\ s.pc = "logHit" /\ s.bucket = rows[g].bucket
          /\ s.fp = handler[h].fp /\ s.cands = handler[h].cands /\ s.stale = handler[h].stale /\ s.entry = handler[h].entry /\ s.chosen = handler[h].chosen
      BY <1>0 DEF HandlerState
    <3> HIDE DEF s
    <3> QED
      BY <1>0, <2>1, <3>1, <3>2 DEF RequestOK, At, LookupCalls, StoreCalls
  <2> HIDE DEF s
  <2> QED
    BY <1>0, <2>1, <2>3, Quiet DEF StoringCalls
<1>5. CASE NoLiveCandidate(h)
  <2> DEFINE s == [handler[h] EXCEPT !.pc = "logStale", !.status = "STALE",
                                     !.entry = handler[h].stale]
             t == [handler[h] EXCEPT !.pc = "select"]
  <2>1. /\ At(h, "check") /\ UNCHANGED <<clock, storageVars, arrivals>>
        /\ \/ handler[h].stale # NoFp /\ Become(h, s)
           \/ Become(h, t)
    BY <1>5 DEF NoLiveCandidate, Goto
  <2>2. handler[h].stale # NoFp => s \in HandlerState /\ RequestOK(s) /\ s.pc = "logStale"
    BY <1>0, <2>1 DEF HandlerState, RequestOK, At, LookupCalls, StoreCalls, Calls
  <2>3. t \in HandlerState /\ RequestOK(t) /\ t.pc = "select"
    BY <1>0, <2>1 DEF HandlerState, RequestOK, At, LookupCalls, StoreCalls, Calls
  <2> HIDE DEF s, t
  <2> QED
    BY <1>0, <2>1, <2>2, <2>3, Quiet DEF StoringCalls
<1>6. CASE SelectBucket(h)
  <2>1. PICK b \in Selectable :
          Become(h, [handler[h] EXCEPT !.pc = "backend", !.bucket = b, !.chosen = b])
    BY <1>6 DEF SelectBucket
  <2> DEFINE s == [handler[h] EXCEPT !.pc = "backend", !.bucket = b, !.chosen = b]
  <2>2. b \in Int
    BY SelectableAssumption
  <2>3. s \in HandlerState /\ RequestOK(s) /\ s.pc = "backend"
    <3>1. s \in HandlerState
      BY <1>0, <2>2, CallNames DEF HandlerState
    <3>2. /\ s.pc = "backend" /\ s.bucket = b /\ s.chosen = b
          /\ s.fp = handler[h].fp /\ s.cands = handler[h].cands /\ s.stale = handler[h].stale /\ s.entry = handler[h].entry
      BY <1>0 DEF HandlerState
    <3> HIDE DEF s
    <3> QED
      BY <1>0, <3>1, <3>2 DEF RequestOK, LookupCalls, StoreCalls
  <2> HIDE DEF s
  <2> QED
    BY <1>0, <1>6, <2>1, <2>3, Quiet DEF SelectBucket, StoringCalls, s
<1> QED
  BY <1>1, <1>2, <1>3, <1>4, <1>5, <1>6

\* The statement of a request keeps the stores consistent; it writes a point or a decision
\* only as the one writer of its entry.
LEMMA StatementOK ==
  ASSUME SystemInv, NEW h \in Handler, Effect(h), UNCHANGED clock
  PROVE  /\ StoresOK' /\ Grows
         /\ \A g \in Fp : HasDecision(g)' => HasDecision(g) \/ (Storing(h, g) /\ At(h, "decide"))
         /\ \A g \in Fp : HasPoint(g)' => HasPoint(g) \/ (Storing(h, g) /\ At(h, "upsert"))
         /\ At(h, "insert") => rows'[handler[h].fp] # NoRow /\ rows'[handler[h].fp].created = handler[h].created
         /\ At(h, "upsert") => points'[handler[h].fp] # NoTime
<1>0. handler[h] \in HandlerState /\ RequestOK(handler[h])
  BY Facts DEF SystemInv
<1>1. CASE At(h, "mark")
  <2>1. /\ MarkHit(handler[h].entry) /\ handler[h].entry \in Fp /\ HasRow(handler[h].entry)
        /\ UNCHANGED <<points, decisions, feedback>>
    BY <1>0, <1>1 DEF Effect, At, RequestOK
  <2> DEFINE r == [rows[handler[h].entry] EXCEPT !.hits = rows[handler[h].entry].hits + 1]
  <2>2. rows' = [rows EXCEPT ![handler[h].entry] = r]
    BY <2>1 DEF MarkHit
  <2>3. /\ r \in Row /\ r.created = rows[handler[h].entry].created
        /\ r.expires = rows[handler[h].entry].expires /\ r.bucket = rows[handler[h].entry].bucket
    BY <2>1, RowTyped DEF Row
  <2>4. r.expires <= clock + TTL[r.bucket]
    BY <2>1, <2>3 DEF SystemInv, EntryLivesWithinItsBucket
  <2> HIDE DEF r
  <2>5. StoresOK' /\ Grows
    BY <2>1, <2>2, <2>3, <2>4, RowWritten
  <2> QED
    BY <1>1, <2>1, <2>5 DEF HasPoint, HasDecision, At
<1>2. CASE At(h, "logHit") \/ At(h, "logStale")
  <2>1. /\ handler[h].entry \in Fp
        /\ InsertHitServed(handler[h].entry) \/ InsertStaleHit(handler[h].entry)
        /\ UNCHANGED <<rows, points, decisions>>
    BY <1>0, <1>2 DEF Effect, At, RequestOK
  <2>2. feedback' \in [Fp -> [hit : Nat, stale : Nat]]
    <3>1. ASSUME NEW f \in Fp, InsertHitServed(f) \/ InsertStaleHit(f)
          PROVE  feedback' \in [Fp -> [hit : Nat, stale : Nat]]
      <4>1. /\ [feedback[f] EXCEPT !.hit = @ + 1] \in [hit : Nat, stale : Nat]
            /\ [feedback[f] EXCEPT !.stale = @ + 1] \in [hit : Nat, stale : Nat]
        BY Facts
      <4> QED
        BY <3>1, <4>1, Facts DEF InsertHitServed, InsertStaleHit
    <3> QED
      BY <2>1, <3>1
  <2> QED
    BY <1>2, <2>1, <2>2, Facts, NoWrite DEF HasPoint, HasDecision, At
<1>3. CASE At(h, "insert")
  <2>1. /\ CanInsert(handler[h].fp) /\ InsertNow(h) /\ UNCHANGED <<points, decisions, feedback>>
    BY <1>3 DEF Effect, At
  <2>2. /\ handler[h].fp \in Fp /\ handler[h].bucket \in Buckets
        /\ handler[h].created \in Nat /\ handler[h].created <= clock
        /\ handler[h].expires = handler[h].created + TTL[handler[h].bucket]
    BY <1>0, <1>3 DEF RequestOK, At, StoreCalls
  <2> DEFINE r == [bucket |-> handler[h].bucket, created |-> handler[h].created,
                   expires |-> handler[h].expires, hits |-> 0]
  <2>3. rows' = [rows EXCEPT ![handler[h].fp] = r]
    BY <2>1 DEF InsertNow, InsertEntry
  <2>4. TTL[handler[h].bucket] \in Nat /\ clock \in Nat
    BY <2>2, Lifetime, Facts
  <2>5. r \in Row
    BY <2>2, <2>4 DEF Row
  <2>6. r.expires <= clock + TTL[r.bucket] /\ r.created = handler[h].created
    BY <2>2, <2>4
  <2> HIDE DEF r
  <2>7. StoresOK' /\ Grows /\ rows'[handler[h].fp] # NoRow /\ rows'[handler[h].fp] = r
    <3> DEFINE f == handler[h].fp
    <3>1. ASSUME NEW k \in Fp, k = f PROVE StoresOK' /\ Grows /\ rows'[k] = r
      BY <2>1, <2>2, <2>3, <2>5, <2>6, <3>1, RowWritten DEF CanInsert
    <3>2. StoresOK' /\ Grows /\ rows'[handler[h].fp] = r
      BY <2>2, <3>1
    <3>3. r # NoRow
      BY <2>5, BucketAssumption DEF Row, NoRow, NoBucket, Buckets
    <3> QED
      BY <3>2, <3>3
  <2> QED
    BY <1>3, <2>1, <2>6, <2>7 DEF HasPoint, HasDecision, At

<1>4. CASE At(h, "upsert")
  <2> DEFINE e == handler[h].expires
  <2>1. /\ UpsertPoint(handler[h].fp, e) /\ UNCHANGED <<rows, decisions, feedback>>
        /\ handler[h].fp \in Fp /\ HasRow(handler[h].fp)
    BY <1>0, <1>4 DEF Effect, At, RequestOK, StoreCalls
  <2>2. e \in Nat
    <3>1. /\ handler[h].bucket \in Buckets /\ handler[h].created \in Nat
          /\ e = handler[h].created + TTL[handler[h].bucket]
      BY <1>0, <1>4 DEF RequestOK, At
    <3> QED
      BY <3>1, Lifetime
  <2> HIDE DEF e
  <2>3. ASSUME NEW f \in Fp, f = handler[h].fp PROVE StoresOK' /\ Grows /\ HasPoint(f)'
    BY <2>1, <2>2, <2>3, PointWritten
  <2>4. /\ StoresOK' /\ Grows /\ points'[handler[h].fp] # NoTime
        /\ \A g \in Fp \ {handler[h].fp} : points'[g] = points[g]
    <3>1. \A g \in Fp \ {handler[h].fp} : points'[g] = points[g]
      BY <2>1, Facts DEF UpsertPoint
    <3> QED
      BY <2>1, <2>3, <3>1 DEF HasPoint
  <2>5. \A g \in Fp : HasPoint(g)' => HasPoint(g) \/ (Storing(h, g) /\ At(h, "upsert"))
    BY <1>4, <2>4 DEF HasPoint, Storing, At
  <2> QED
    BY <1>4, <2>1, <2>4, <2>5 DEF HasPoint, HasDecision, At
<1>5. CASE At(h, "decide")
  <2>1. /\ InsertDecision(handler[h].fp, handler[h].bucket, handler[h].chosen)
        /\ UNCHANGED <<rows, points, feedback>>
        /\ handler[h].fp \in Fp /\ HasPoint(handler[h].fp)
        /\ handler[h].bucket \in Buckets /\ handler[h].chosen \in Buckets \cup {NoBucket}
    BY <1>0, <1>5 DEF Effect, InsertDecisionNow, At, RequestOK
  <2>2. Storing(h, handler[h].fp)
    BY <1>5 DEF Storing, At
  <2>3. ~HasDecision(handler[h].fp)
    BY <2>1, <2>2 DEF SystemInv, StoresAlone
  <2>4. ASSUME NEW f \in Fp, NEW b \in Buckets, NEW c \in Buckets \cup {NoBucket},
               f = handler[h].fp, b = handler[h].bucket, c = handler[h].chosen
        PROVE  StoresOK' /\ Grows
    BY <2>1, <2>3, <2>4, DecisionWritten
  <2>5. StoresOK' /\ Grows
    BY <2>1, <2>4
  <2>6. \A g \in Fp \ {handler[h].fp} : decisions'[g] = decisions[g]
    BY <2>1, Facts DEF InsertDecision
  <2>7. \A g \in Fp : HasDecision(g)' => HasDecision(g) \/ (Storing(h, g) /\ At(h, "decide"))
    BY <1>5, <2>2, <2>6 DEF HasDecision
  <2> QED
    BY <1>5, <2>1, <2>5, <2>7 DEF HasPoint, At
<1> QED
  BY <1>1, <1>2, <1>3, <1>4, <1>5 DEF Effect

\* A request sends its statement and goes on as s, no longer writing what it has written.
LEMMA StatementStep ==
  ASSUME SystemInv, UNCHANGED <<clock, refreshVars, arrivals>>,
         NEW h \in Handler, Effect(h), NEW s \in HandlerState, Become(h, s),
         handler'[h] = s => RequestOK(handler[h])',
         At(h, "decide") => s.pc \notin StoringCalls, At(h, "upsert") => s.pc # "upsert",
         s.pc \in StoringCalls =>
           \/ Storing(h, s.fp) /\ s.pc # "upsert"
           \/ ~HasRow(s.fp)
  PROVE  SystemInv'
<1>1. /\ StoresOK' /\ Grows /\ arrivals' \in Nat
      /\ \A g \in Fp : HasDecision(g)' => HasDecision(g) \/ (Storing(h, g) /\ s.pc \notin StoringCalls)
  BY StatementOK, Facts
<1>2. \A g \in Fp : HasPoint(g)' => HasPoint(g) \/ (Storing(h, g) /\ s.pc # "upsert")
  <2> TAKE g \in Fp
  <2>1. HasPoint(g)' => HasPoint(g) \/ (Storing(h, g) /\ At(h, "upsert"))
    BY StatementOK
  <2> QED
    BY <2>1
<1>3. s.pc \in StoringCalls =>
        \/ Storing(h, s.fp) /\ (s.pc = "upsert" => At(h, "upsert"))
        \/ ~HasRow(s.fp)
  OBVIOUS
<1>4. StoresAlone'
  BY <1>1, <1>2, <1>3, AloneStays
<1> QED
  BY <1>1, <1>4, OneRequest

\* A hit is counted, served or logged as stale.
LEMMA HitStatements ==
  ASSUME SystemInv, NEW h \in Handler, UNCHANGED refreshVars,
         RecordHit(h) \/ ServeHit(h) \/ LogStaleHit(h)
  PROVE  SystemInv'
<1>0. handler[h] \in HandlerState /\ RequestOK(handler[h])
  BY Facts DEF SystemInv
<1>1. PICK t \in {"reread", "backend"} :
        \/ /\ At(h, "mark") /\ t = "reread" /\ Become(h, [handler[h] EXCEPT !.pc = t])
        \/ /\ At(h, "logStale") /\ t = "backend" /\ Become(h, [handler[h] EXCEPT !.pc = t])
        \/ /\ At(h, "logHit")
           /\ Become(h, [handler[h] EXCEPT !.pc = "reply", !.reply = "cached"])
  BY DEF RecordHit, ServeHit, LogStaleHit, Goto
<1>2. Effect(h) /\ UNCHANGED <<clock, arrivals>> /\ ~At(h, "upsert") /\ ~At(h, "decide")
  BY DEF RecordHit, ServeHit, LogStaleHit, Effect, At
<1>3. ASSUME NEW s \in HandlerState, Become(h, s), RequestOK(s), s.pc \notin StoringCalls
      PROVE  SystemInv'
  <2>1. handler'[h] = s => RequestOK(handler[h])'
    BY <1>2, <1>3, StatementOK, RequestStays DEF RequestOK
  <2> QED
    BY <1>2, <1>3, <2>1, StatementStep
<1>4. CASE At(h, "logHit")
  <2> DEFINE s == [handler[h] EXCEPT !.pc = "reply", !.reply = "cached"]
  <2>1. s \in HandlerState /\ RequestOK(s) /\ s.pc = "reply"
    BY <1>4, AnsweredOK DEF At
  <2>2. Become(h, s)
    BY <1>1, <1>4 DEF At
  <2> HIDE DEF s
  <2> QED
    BY <1>3, <2>1, <2>2 DEF StoringCalls
<1>5. CASE ~At(h, "logHit")
  <2> DEFINE s == [handler[h] EXCEPT !.pc = t]
  <2>1. /\ Become(h, s) /\ handler[h].pc \in {"mark", "logStale"}
        /\ handler[h].pc = "mark" <=> t = "reread"
    BY <1>1, <1>5 DEF At
  <2>2. s \in HandlerState
    BY <1>0, CallNames DEF HandlerState
  <2>3. /\ s.pc = t /\ s.fp = handler[h].fp /\ s.cands = handler[h].cands
        /\ s.stale = handler[h].stale /\ s.entry = handler[h].entry
        /\ s.bucket = handler[h].bucket /\ s.chosen = handler[h].chosen
    BY <1>0 DEF HandlerState
  <2> HIDE DEF s
  <2>4. RequestOK(s)
    BY <1>0, <2>1, <2>3 DEF RequestOK, LookupCalls, StoreCalls
  <2> QED
    BY <1>3, <2>1, <2>2, <2>3, <2>4 DEF StoringCalls
<1> QED
  BY <1>4, <1>5

\* The answer of the backend is awaited, stamped, and written through up to its row.
LEMMA StoreReads ==
  ASSUME SystemInv, NEW h \in Handler, UNCHANGED refreshVars,
         BackendAnswers(h) \/ Stamp(h)
  PROVE  SystemInv'
<1>0. /\ handler[h] \in HandlerState /\ RequestOK(handler[h]) /\ arrivals \in Nat
      /\ UNCHANGED <<clock, storageVars, arrivals>> /\ clock \in Nat /\ ~At(h, "idle")
  BY Facts DEF SystemInv, BackendAnswers, Stamp, At
<1>1. CASE Answer(h, "forwarded")
  <2> DEFINE s == [handler[h] EXCEPT !.pc = "reply", !.reply = "forwarded"]
  <2>1. s \in HandlerState /\ RequestOK(s) /\ s.pc = "reply"
    BY <1>0, AnsweredOK
  <2>2. Become(h, s)
    BY <1>1 DEF Answer
  <2> HIDE DEF s
  <2> QED
    BY <1>0, <2>1, <2>2, Quiet DEF StoringCalls
<1>2. CASE At(h, "backend") /\ handler[h].fp # NoFp /\ Goto(h, "stamp")
  <2> DEFINE s == [handler[h] EXCEPT !.pc = "stamp"]
  <2>1. s \in HandlerState
    BY <1>0, CallNames DEF HandlerState
  <2>2. /\ s.pc = "stamp" /\ s.fp = handler[h].fp /\ s.cands = handler[h].cands
        /\ s.stale = handler[h].stale /\ s.entry = handler[h].entry
        /\ s.bucket = handler[h].bucket /\ s.chosen = handler[h].chosen
    BY <1>0 DEF HandlerState
  <2>3. Become(h, s) /\ s.fp \in Fp
    BY <1>0, <1>2, <2>2 DEF Goto, HandlerState
  <2> HIDE DEF s
  <2>4. RequestOK(s)
    BY <1>0, <1>2, <2>2, <2>3 DEF RequestOK, LookupCalls, At
  <2> QED
    BY <1>0, <2>1, <2>2, <2>3, <2>4, Quiet DEF StoringCalls
<1>3. CASE At(h, "stamp") /\ handler[h].bucket \in Buckets
           /\ Become(h, [handler[h] EXCEPT !.pc = "insert", !.created = clock,
                            !.expires = clock + TTL[handler[h].bucket]])
  <2>0. PICK e \in Nat : e = clock + TTL[handler[h].bucket]
    <3>1. TTL[handler[h].bucket] \in Nat
      BY <1>3, Lifetime
    <3> QED
      BY <1>0, <3>1
  <2> DEFINE s == [handler[h] EXCEPT !.pc = "insert", !.created = clock, !.expires = e]
  <2>1. s \in HandlerState
    BY <1>0, <2>0, CallNames DEF HandlerState
  <2>2. /\ s.pc = "insert" /\ s.fp = handler[h].fp /\ s.cands = handler[h].cands
        /\ s.stale = handler[h].stale /\ s.entry = handler[h].entry
        /\ s.bucket = handler[h].bucket /\ s.chosen = handler[h].chosen
        /\ s.created = clock /\ s.expires = clock + TTL[s.bucket]
    BY <1>0, <2>0 DEF HandlerState
  <2>3. Become(h, s)
    BY <1>3, <2>0
  <2> HIDE DEF s
  <2>4. RequestOK(s)
    BY <1>0, <1>3, <2>2 DEF RequestOK, LookupCalls, StoreCalls, At
  <2> QED
    BY <1>0, <2>1, <2>2, <2>3, <2>4, Quiet DEF StoringCalls
<1> QED
  BY <1>1, <1>2, <1>3 DEF BackendAnswers, Stamp

\* The row is inserted, or refused.
LEMMA InsertStep ==
  ASSUME SystemInv, NEW h \in Handler, UNCHANGED refreshVars, Insert(h)
  PROVE  SystemInv'
<1>0. /\ handler[h] \in HandlerState /\ RequestOK(handler[h]) /\ arrivals \in Nat
      /\ UNCHANGED <<clock, points, decisions, feedback, arrivals>> /\ At(h, "insert")
  BY Facts DEF SystemInv, Insert
<1>1. CASE ~CanInsert(handler[h].fp) /\ Answer(h, "forwarded") /\ UNCHANGED rows
  <2> DEFINE s == [handler[h] EXCEPT !.pc = "reply", !.reply = "forwarded"]
  <2>1. s \in HandlerState /\ RequestOK(s) /\ s.pc = "reply"
    BY <1>0, AnsweredOK DEF At
  <2>2. Become(h, s)
    BY <1>1 DEF Answer
  <2>3. UNCHANGED storageVars
    BY <1>0, <1>1 DEF storageVars
  <2> HIDE DEF s
  <2> QED
    BY <1>0, <2>1, <2>2, <2>3, Quiet DEF StoringCalls
<1>2. CASE CanInsert(handler[h].fp) /\ InsertNow(h) /\ Goto(h, "upsert")
  <2> DEFINE s == [handler[h] EXCEPT !.pc = "upsert"]
  <2>1. s \in HandlerState
    BY <1>0, CallNames DEF HandlerState
  <2>2. /\ s.pc = "upsert" /\ s.fp = handler[h].fp /\ s.cands = handler[h].cands
        /\ s.stale = handler[h].stale /\ s.entry = handler[h].entry
        /\ s.bucket = handler[h].bucket /\ s.chosen = handler[h].chosen
        /\ s.created = handler[h].created /\ s.expires = handler[h].expires
    BY <1>0 DEF HandlerState
  <2>3. Become(h, s)
    BY <1>2 DEF Goto
  <2>4. Effect(h)
    BY <1>0, <1>2 DEF Effect, At
  <2> HIDE DEF s
  <2>5. /\ Grows /\ rows'[handler[h].fp] # NoRow
        /\ rows'[handler[h].fp].created = handler[h].created
    BY <1>0, <2>4, StatementOK
  <2>6. /\ handler[h].fp \in Fp /\ \A g \in handler[h].cands : HasPoint(g)
        /\ handler[h].stale # NoFp => HasRow(handler[h].stale)
        /\ handler[h].bucket \in Buckets /\ handler[h].chosen \in Buckets \cup {NoBucket}
        /\ handler[h].created \in Nat /\ handler[h].created <= clock
        /\ handler[h].expires = handler[h].created + TTL[handler[h].bucket]
    BY <1>0 DEF RequestOK, At, StoreCalls
  <2>7. /\ \A g \in handler[h].cands : HasPoint(g)'
        /\ handler[h].stale # NoFp => rows'[handler[h].stale] # NoRow
    BY <1>0, <2>5, <2>6 DEF Grows, HandlerState, HasRow, HasPoint
  <2>8. ASSUME handler'[h] = s PROVE RequestOK(handler[h])'
    BY <1>0, <2>2, <2>5, <2>6, <2>7, <2>8
    DEF RequestOK, LookupCalls, StoreCalls, HasRow, HasPoint
  <2>9. ~HasRow(s.fp)
    BY <1>2, <2>2 DEF CanInsert
  <2> QED
    BY <1>0, <2>1, <2>2, <2>3, <2>4, <2>8, <2>9, StatementStep DEF At
<1> QED
  BY <1>1, <1>2 DEF Insert

\* The point is written, the row read back, the decision logged.
LEMMA IndexAndDecide ==
  ASSUME SystemInv, NEW h \in Handler, UNCHANGED refreshVars,
         Upsert(h) \/ Reload(h) \/ LogDecision(h)
  PROVE  SystemInv'
<1>0. /\ handler[h] \in HandlerState /\ RequestOK(handler[h]) /\ arrivals \in Nat
      /\ UNCHANGED <<clock, arrivals>> /\ handler[h].pc \in {"upsert", "reload", "decide"}
  BY Facts DEF SystemInv, Upsert, Reload, LogDecision, At
<1>1. CASE Upsert(h)
  <2> DEFINE s == [handler[h] EXCEPT !.pc = "reload"]
  <2>1. s \in HandlerState
    BY <1>0, CallNames DEF HandlerState
  <2>2. /\ s.pc = "reload" /\ s.fp = handler[h].fp /\ s.cands = handler[h].cands
        /\ s.stale = handler[h].stale /\ s.entry = handler[h].entry
        /\ s.bucket = handler[h].bucket /\ s.chosen = handler[h].chosen
    BY <1>0 DEF HandlerState
  <2>3. Become(h, s) /\ At(h, "upsert") /\ Effect(h)
    BY <1>1 DEF Upsert, Goto, Effect, At
  <2> HIDE DEF s
  <2>5. Grows /\ points'[handler[h].fp] # NoTime
    BY <1>0, <2>3, StatementOK
  <2>6. /\ handler[h].fp \in Fp /\ HasRow(handler[h].fp)
        /\ \A g \in handler[h].cands : HasPoint(g)
        /\ handler[h].stale # NoFp => HasRow(handler[h].stale)
        /\ handler[h].bucket \in Buckets /\ handler[h].chosen \in Buckets \cup {NoBucket}
    BY <1>0, <2>3 DEF RequestOK, At, StoreCalls
  <2>7. /\ \A g \in handler[h].cands : HasPoint(g)'
        /\ handler[h].stale # NoFp => rows'[handler[h].stale] # NoRow
        /\ rows'[handler[h].fp] # NoRow
    BY <1>0, <2>5, <2>6 DEF Grows, HandlerState, HasRow, HasPoint
  <2>8. ASSUME handler'[h] = s PROVE RequestOK(handler[h])'
    BY <1>0, <2>2, <2>5, <2>6, <2>7, <2>8
    DEF RequestOK, LookupCalls, StoreCalls, HasRow, HasPoint
  <2>9. Storing(h, s.fp)
    BY <2>2, <2>3 DEF Storing, At
  <2> QED
    BY <1>0, <2>1, <2>2, <2>3, <2>8, <2>9, StatementStep DEF At
<1>2. CASE Reload(h)
  <2> DEFINE f == handler[h].fp
             s == [handler[h] EXCEPT !.pc = "decide", !.entry = f, !.bucket = rows[f].bucket]
  <2>1. /\ f \in Fp /\ HasRow(f) /\ HasPoint(f) /\ At(h, "reload") /\ Become(h, s)
        /\ UNCHANGED <<clock, storageVars>>
    BY <1>0, <1>2 DEF Reload, RequestOK, At, StoreCalls
  <2>2. rows[f].bucket \in Buckets /\ rows[f].bucket \in Int
    BY <2>1, RowTyped DEF Buckets
  <2>3. s \in HandlerState
    BY <1>0, <2>1, <2>2, CallNames DEF HandlerState
  <2>4. /\ s.pc = "decide" /\ s.fp = f /\ s.cands = handler[h].cands
        /\ s.stale = handler[h].stale /\ s.entry = f
        /\ s.bucket = rows[f].bucket /\ s.chosen = handler[h].chosen
    BY <1>0 DEF HandlerState
  <2> HIDE DEF s
  <2>5. RequestOK(s)
    BY <1>0, <2>1, <2>2, <2>4 DEF RequestOK, LookupCalls, StoreCalls, At
  <2>6. StoresOK' /\ Grows /\ UNCHANGED <<points, decisions>>
    BY <2>1, Facts, NoWrite DEF storageVars
  <2>7. handler'[h] = s => RequestOK(handler[h])'
    BY <2>3, <2>5, <2>6, RequestStays DEF RequestOK
  <2>8. Storing(h, s.fp)
    BY <2>1, <2>4 DEF Storing, At
  <2>9. StoresAlone'
    <3>1. \A g \in Fp : (HasDecision(g)' => HasDecision(g)) /\ (HasPoint(g)' => HasPoint(g))
      BY <2>6 DEF HasPoint, HasDecision
    <3> QED
      BY <2>1, <2>3, <2>4, <2>8, <3>1, AloneStays
  <2> QED
    BY <1>0, <2>1, <2>3, <2>6, <2>7, <2>9, OneRequest
<1>3. CASE LogDecision(h)
  <2> DEFINE s == [handler[h] EXCEPT !.pc = "reply", !.reply = "forwarded", !.stored = TRUE]
  <2>1. Become(h, s) /\ At(h, "decide") /\ Effect(h)
    BY <1>3 DEF LogDecision, Effect, At
  <2>2. s \in HandlerState
    BY <1>0 DEF HandlerState
  <2>3. s.pc = "reply" /\ s.cands = handler[h].cands /\ s.stale = handler[h].stale
    BY <1>0 DEF HandlerState
  <2> HIDE DEF s
  <2>4. RequestOK(s)
    BY <1>0, <2>3 DEF RequestOK, LookupCalls, StoreCalls
  <2>5. handler'[h] = s => RequestOK(handler[h])'
    BY <1>0, <2>1, <2>2, <2>4, StatementOK, RequestStays DEF RequestOK
  <2> QED
    BY <1>0, <2>1, <2>2, <2>3, <2>5, StatementStep DEF At, StoringCalls
<1> QED
  BY <1>1, <1>2, <1>3

\* A call fails, its statement sent or not.
LEMMA FailStep ==
  ASSUME SystemInv, NEW h \in Handler, UNCHANGED refreshVars, Fail(h)
  PROVE  SystemInv'
<1>0. UNCHANGED <<clock, arrivals>> /\ arrivals \in Nat /\ ~At(h, "idle")
  BY Facts, FaultsAssumption DEF Fail, At, Calls, LookupCalls, StoreCalls
<1>1. PICK kind \in {"cached", "forwarded", "error"} : Answer(h, kind)
  BY DEF Fail
<1> DEFINE s == [handler[h] EXCEPT !.pc = "reply", !.reply = kind]
<1>2. s \in HandlerState /\ RequestOK(s) /\ s.pc = "reply"
  BY <1>0, AnsweredOK
<1>3. Become(h, s)
  BY <1>1 DEF Answer
<1> HIDE DEF s
<1>4. CASE UNCHANGED storageVars
  BY <1>0, <1>2, <1>3, <1>4, Quiet DEF StoringCalls
<1>5. CASE Effect(h)
  <2>1. handler'[h] = s => RequestOK(handler[h])'
    BY <1>0, <1>2, <1>5, StatementOK, RequestStays DEF RequestOK
  <2> QED
    BY <1>0, <1>2, <1>3, <1>5, <2>1, StatementStep DEF StoringCalls
<1> QED
  BY <1>4, <1>5 DEF Fail

\* An idle request relies on nothing.
LEMMA IdleOK == ASSUME SystemInv
                PROVE  /\ Idle \in HandlerState /\ RequestOK(Idle) /\ RequestOK(Idle)'
                       /\ Idle.pc = "idle"
BY NoFpAssumption DEF Idle, HandlerState, RequestOK, LookupCalls, StoreCalls, NoTime, NoBucket

\* A request arrives, or its answer leaves.
LEMMA ComeAndGo ==
  ASSUME SystemInv, NEW h \in Handler, UNCHANGED refreshVars, Receive(h) \/ Respond(h)
  PROVE  SystemInv'
<1>0. /\ handler[h] \in HandlerState /\ RequestOK(handler[h]) /\ arrivals' \in Nat
      /\ UNCHANGED <<clock, storageVars>> /\ clock \in Nat
  <2>1. handler[h] \in HandlerState /\ RequestOK(handler[h]) /\ clock \in Nat /\ arrivals \in Nat
    BY Facts DEF SystemInv
  <2>2. UNCHANGED <<clock, storageVars>> /\ arrivals' \in {arrivals, arrivals + 1}
    BY DEF Receive, Respond
  <2> QED
    BY <2>1, <2>2
<1>1. CASE Respond(h)
  BY <1>0, <1>1, IdleOK, Quiet DEF Respond, StoringCalls
<1>2. CASE Receive(h)
  <2>1. PICK f \in Fp \cup {NoFp}, call \in {"search", "backend"} :
          /\ At(h, "idle") /\ (call = "search" => f \in Fp)
          /\ \/ Become(h, [handler[h] EXCEPT !.pc = call, !.fp = f, !.arrived = clock])
             \/ Become(h, [handler[h] EXCEPT !.pc = call, !.arrived = clock]) /\ call = "backend"
    BY <1>2 DEF Receive
  <2>2. ASSUME NEW s \in HandlerState, Become(h, s), s.pc = call, s.cands = handler[h].cands,
               s.stale = handler[h].stale, s.chosen = handler[h].chosen,
               call = "search" => s.fp \in Fp
        PROVE  SystemInv'
    <3>1. RequestOK(s)
      BY <1>0, <2>1, <2>2 DEF RequestOK, LookupCalls, StoreCalls, At
    <3> QED
      BY <1>0, <2>1, <2>2, <3>1, Quiet DEF StoringCalls
  <2>3. CASE Become(h, [handler[h] EXCEPT !.pc = call, !.fp = f, !.arrived = clock])
    <3> DEFINE s == [handler[h] EXCEPT !.pc = call, !.fp = f, !.arrived = clock]
    <3>1. s \in HandlerState
      BY <1>0, CallNames DEF HandlerState
    <3>2. /\ s.pc = call /\ s.cands = handler[h].cands /\ s.stale = handler[h].stale
          /\ s.chosen = handler[h].chosen /\ s.fp = f
      BY <1>0 DEF HandlerState
    <3> HIDE DEF s
    <3> QED
      BY <2>1, <2>2, <2>3, <3>1, <3>2 DEF s
  <2>4. CASE Become(h, [handler[h] EXCEPT !.pc = call, !.arrived = clock]) /\ call = "backend"
    <3> DEFINE s == [handler[h] EXCEPT !.pc = call, !.arrived = clock]
    <3>1. s \in HandlerState
      BY <1>0, CallNames DEF HandlerState
    <3>2. /\ s.pc = call /\ s.cands = handler[h].cands /\ s.stale = handler[h].stale
          /\ s.chosen = handler[h].chosen
      BY <1>0 DEF HandlerState
    <3> HIDE DEF s
    <3> QED
      BY <2>1, <2>2, <2>4, <3>1, <3>2 DEF s
  <2> QED
    BY <2>1, <2>3, <2>4
<1> QED
  BY <1>1, <1>2

\* Every step of a request keeps the invariant.
LEMMA RequestSteps ==
  ASSUME SystemInv, NEW h \in Handler, RequestStep(h) PROVE SystemInv'
<1>1. CASE Receive(h) \/ Respond(h)
  BY <1>1, ComeAndGo DEF RequestStep
<1>2. CASE \/ VectorSearch(h) \/ Discard(h) \/ ChooseLive(h) \/ Reread(h)
           \/ NoLiveCandidate(h) \/ SelectBucket(h)
  BY <1>2, LookupReads DEF RequestStep
<1>3. CASE RecordHit(h) \/ ServeHit(h) \/ LogStaleHit(h)
  BY <1>3, HitStatements DEF RequestStep
<1>4. CASE BackendAnswers(h) \/ Stamp(h)
  BY <1>4, StoreReads DEF RequestStep
<1>5. CASE Insert(h)
  BY <1>5, InsertStep DEF RequestStep
<1>6. CASE Upsert(h) \/ Reload(h) \/ LogDecision(h)
  BY <1>6, IndexAndDecide DEF RequestStep
<1>7. CASE Fail(h)
  BY <1>7, FailStep DEF RequestStep
<1> QED
  BY <1>1, <1>2, <1>3, <1>4, <1>5, <1>6, <1>7 DEF RequestStep, HandlerStep

\* Time passes, the process starts again, or nothing happens.
LEMMA TimeAndCrash ==
  ASSUME SystemInv, UNCHANGED <<rows, points, decisions, feedback, arrivals, refreshVars>>,
         clock' \in Nat, clock <= clock', handler' \in {handler, [h \in Handler |-> Idle]}
  PROVE  SystemInv'
<1>1. StoresOK' /\ Grows
  BY Facts, NoWrite
<1>2. handler' \in [Handler -> HandlerState]
  BY Facts, IdleOK
<1>3. ASSUME NEW h \in Handler PROVE RequestOK(handler[h])'
  <2>1. handler[h] \in HandlerState /\ RequestOK(handler[h]) /\ handler'[h] \in {handler[h], Idle}
    BY Facts DEF SystemInv
  <2> QED
    BY <1>1, <2>1, RequestStays, IdleOK DEF RequestOK
<1>4. StoresAlone'
  <2>1. \A h \in Handler : handler'[h] \in {handler[h], Idle}
    OBVIOUS
  <2>2. \A h \in Handler, f \in Fp :
          /\ Storing(h, f)' => Storing(h, f)
          /\ Storing(h, f)' /\ At(h, "upsert")' => At(h, "upsert")
    BY <2>1, IdleOK DEF Storing, At
  <2> QED
    BY <2>2 DEF SystemInv, StoresAlone, HasDecision, HasPoint
<1>5. ASSUME NEW w \in Worker PROVE CycleOK(worker[w])'
  <2>1. worker[w] \in WorkerState /\ CycleOK(worker[w]) /\ worker'[w] = worker[w]
    BY Facts DEF SystemInv, refreshVars
  <2> QED
    BY <1>1, <2>1, CycleStays DEF CycleOK
<1>6. SystemTypeOK'
  BY <1>1, <1>2, Facts DEF SystemTypeOK, RPTypeOK, RefreshTypeOK, StoresOK, refreshVars, learningVars
<1>7. TrainedAsDecided'
  BY <1>1, TrainedStays DEF refreshVars, learningVars
<1>8. \A f \in Fp : LearnedOK(f)'
  BY DEF SystemInv, LearnedOK, OwesReward, OwesTraining, refreshVars, learningVars
<1> QED
  BY <1>1, <1>3, <1>4, <1>5, <1>6, <1>7, <1>8 DEF SystemInv, StoresOK

-----------------------------------------------------------------------------
(* The steps of a cycle.                                                     *)

\* Adding or removing one member changes the size of a finite set by one.
LEMMA OneMember ==
  ASSUME NEW S, IsFiniteSet(S), NEW w, NEW T, T \ {w} = S \ {w}
  PROVE  /\ IsFiniteSet(T) /\ Cardinality(S) \in Nat /\ Cardinality(T) \in Nat
         /\ Cardinality(T) = Cardinality(S) - (IF w \in S THEN 1 ELSE 0)
                                            + (IF w \in T THEN 1 ELSE 0)
<1>1. Cardinality(S) \in Nat
  BY FS_CardinalityType
<1>2. CASE w \in S /\ w \notin T
  <2>1. T = S \ {w}
    BY <1>2
  <2>2. IsFiniteSet(T) /\ Cardinality(T) = Cardinality(S) - 1
    BY <1>2, <2>1, FS_RemoveElement
  <2> QED
    BY <1>1, <1>2, <2>2, FS_CardinalityType
<1>3. CASE w \notin S /\ w \in T
  <2>1. T = S \cup {w}
    BY <1>3
  <2>2. IsFiniteSet(T) /\ Cardinality(T) = Cardinality(S) + 1
    BY <1>3, <2>1, FS_AddElement
  <2> QED
    BY <1>1, <1>3, <2>2
<1>4. CASE w \in S <=> w \in T
  <2>1. T = S
    BY <1>4
  <2> QED
    BY <1>1, <1>4, <2>1
<1> QED
  BY <1>2, <1>3, <1>4

\* What a cycle in state s still owes an entry: a reward, or the training.
RewardDue(s, f) == IF s.pc = "reward" /\ s.entry = f THEN 1 ELSE 0
TrainingDue(s, f) == IF s.pc \in {"fetch", "train"} /\ s.entry = f THEN 1 ELSE 0

\* Nothing learnt gets ahead of what it is learnt from, when what cycle w pays and what it
\* goes on to owe balance.
LEMMA Balance ==
  ASSUME SystemInv, NEW w \in Worker, NEW s \in WorkerState,
         worker' = [worker EXCEPT ![w] = s],
         refreshed' \in [Fp -> Nat], rewards' \in [Fp -> Nat], trained' \in [Fp -> [Buckets -> Nat]],
         NEW f \in Fp,
         rewards'[f] + RewardDue(s, f) - rewards[f]
           <= refreshed'[f] + RewardDue(worker[w], f) - refreshed[f],
         \A b \in Buckets : trained'[f][b] + TrainingDue(s, f) - trained[f][b]
           <= rewards'[f] + TrainingDue(worker[w], f) - rewards[f]
  PROVE  LearnedOK(f)'
<1>1. /\ worker'[w] = s /\ \A v \in Worker \ {w} : worker'[v] = worker[v]
      /\ LearnedOK(f)
  BY Facts DEF SystemInv
<1> DEFINE R == Cardinality(OwesReward(f))
           T == Cardinality(OwesTraining(f))
<1>2. /\ IsFiniteSet(OwesReward(f))' /\ R \in Nat /\ R' \in Nat
      /\ R' = R - RewardDue(worker[w], f) + RewardDue(s, f)
  <2>1. OwesReward(f)' \ {w} = OwesReward(f) \ {w}
    BY <1>1 DEF OwesReward
  <2>2. /\ w \in OwesReward(f) <=> worker[w].pc = "reward" /\ worker[w].entry = f
        /\ w \in OwesReward(f)' <=> s.pc = "reward" /\ s.entry = f
    BY <1>1 DEF OwesReward
  <2>3. IsFiniteSet(OwesReward(f))
    BY <1>1 DEF LearnedOK
  <2> QED
    BY <2>1, <2>2, <2>3, OneMember DEF RewardDue
<1>3. /\ IsFiniteSet(OwesTraining(f))' /\ T \in Nat /\ T' \in Nat
      /\ T' = T - TrainingDue(worker[w], f) + TrainingDue(s, f)
  <2>1. OwesTraining(f)' \ {w} = OwesTraining(f) \ {w}
    BY <1>1 DEF OwesTraining
  <2>2. /\ w \in OwesTraining(f) <=> worker[w].pc \in {"fetch", "train"} /\ worker[w].entry = f
        /\ w \in OwesTraining(f)' <=> s.pc \in {"fetch", "train"} /\ s.entry = f
    BY <1>1 DEF OwesTraining
  <2>3. IsFiniteSet(OwesTraining(f))
    BY <1>1 DEF LearnedOK
  <2> QED
    BY <2>1, <2>2, <2>3, OneMember DEF TrainingDue
<1>4. rewards[f] + R <= refreshed[f] /\ \A b \in Buckets : trained[f][b] + T <= rewards[f]
  BY <1>1 DEF LearnedOK
<1>5. /\ RewardDue(s, f) \in Nat /\ RewardDue(worker[w], f) \in Nat
      /\ TrainingDue(s, f) \in Nat /\ TrainingDue(worker[w], f) \in Nat
  BY DEF RewardDue, TrainingDue
<1>6. /\ refreshed[f] \in Nat /\ rewards[f] \in Nat /\ refreshed'[f] \in Nat /\ rewards'[f] \in Nat
      /\ \A b \in Buckets : trained[f][b] \in Nat /\ trained'[f][b] \in Nat
  BY Facts
<1>7. rewards'[f] + R' <= refreshed'[f]
  BY <1>2, <1>4, <1>5, <1>6
<1>8. ASSUME NEW b \in Buckets PROVE trained'[f][b] + T' <= rewards'[f]
  <2>1. /\ trained[f][b] + T <= rewards[f] /\ trained[f][b] \in Nat /\ trained'[f][b] \in Nat
        /\ trained'[f][b] + TrainingDue(s, f) - trained[f][b]
             <= rewards'[f] + TrainingDue(worker[w], f) - rewards[f]
    BY <1>4, <1>6
  <2> QED
    BY <1>3, <1>5, <1>6, <2>1
<1> QED
  BY <1>2, <1>3, <1>7, <1>8 DEF LearnedOK

\* A step of cycle w is sound when it leaves the stores consistent and grown, w as its next
\* call expects it, and what is learnt in its order.
LEMMA OneCycle ==
  ASSUME SystemInv, StoresOK', Grows, UNCHANGED <<requestVars, points, decisions>>, cycles' \in Nat,
         NEW w \in Worker, NEW s \in WorkerState, worker' = [worker EXCEPT ![w] = s],
         CycleOK(s),
         refreshed' \in [Fp -> Nat], rewards' \in [Fp -> Nat], trained' \in [Fp -> [Buckets -> Nat]],
         TrainedAsDecided', \A f \in Fp : LearnedOK(f)'
  PROVE  SystemInv'
<1>1. ASSUME NEW h \in Handler PROVE RequestOK(handler[h])'
  <2>1. handler[h] \in HandlerState /\ RequestOK(handler[h]) /\ handler'[h] = handler[h]
    BY Facts DEF SystemInv, requestVars
  <2> QED
    BY <2>1, RequestStays DEF RequestOK
<1>2. StoresAlone'
  BY DEF SystemInv, StoresAlone, Storing, At, HasDecision, HasPoint, requestVars
<1>3. worker' \in [Worker -> WorkerState] /\ worker'[w] = s
      /\ \A v \in Worker \ {w} : worker'[v] = worker[v]
  BY Facts
<1>4. ASSUME NEW v \in Worker PROVE CycleOK(worker[v])'
  <2>1. CASE v = w
    BY <1>3, <2>1, CycleStays DEF CycleOK
  <2>2. CASE v # w
    <3>1. worker[v] \in WorkerState /\ CycleOK(worker[v]) /\ worker'[v] = worker[v]
      BY <1>3, <2>2, Facts DEF SystemInv
    <3> QED
      BY <3>1, CycleStays DEF CycleOK
  <2> QED
    BY <2>1, <2>2
<1>5. SystemTypeOK'
  BY <1>3, Facts DEF SystemTypeOK, RPTypeOK, RefreshTypeOK, StoresOK, requestVars
<1> QED
  BY <1>1, <1>2, <1>4, <1>5 DEF SystemInv, StoresOK

\* A step that teaches nothing.
LEMMA TeachesNothing ==
  ASSUME SystemInv, StoresOK', Grows, UNCHANGED <<requestVars, points, decisions, learningVars>>,
         cycles' \in Nat, NEW w \in Worker, NEW s \in WorkerState,
         worker' = [worker EXCEPT ![w] = s], CycleOK(s),
         \/ s.pc \notin {"reward", "fetch", "train"}
         \/ s.pc = "train" /\ Doing(w, "fetch") /\ s.entry = worker[w].entry
  PROVE  SystemInv'
<1>1. /\ UNCHANGED <<refreshed, rewards, trained>>
      /\ refreshed' \in [Fp -> Nat] /\ rewards' \in [Fp -> Nat]
      /\ trained' \in [Fp -> [Buckets -> Nat]]
  BY Facts DEF learningVars
<1>2. ASSUME NEW f \in Fp PROVE LearnedOK(f)'
  <2>1. RewardDue(s, f) <= RewardDue(worker[w], f) /\ TrainingDue(s, f) <= TrainingDue(worker[w], f)
    BY DEF RewardDue, TrainingDue, Doing
  <2>2. /\ RewardDue(s, f) \in Nat /\ RewardDue(worker[w], f) \in Nat
        /\ TrainingDue(s, f) \in Nat /\ TrainingDue(worker[w], f) \in Nat
        /\ refreshed[f] \in Nat /\ rewards[f] \in Nat /\ \A b \in Buckets : trained[f][b] \in Nat
    BY Facts DEF RewardDue, TrainingDue
  <2>3. rewards'[f] + RewardDue(s, f) - rewards[f]
          <= refreshed'[f] + RewardDue(worker[w], f) - refreshed[f]
    BY <1>1, <2>1, <2>2
  <2>4. \A b \in Buckets : trained'[f][b] + TrainingDue(s, f) - trained[f][b]
          <= rewards'[f] + TrainingDue(worker[w], f) - rewards[f]
    BY <1>1, <2>1, <2>2
  <2> QED
    BY <1>1, <2>3, <2>4, Balance
<1>3. TrainedAsDecided'
  BY <1>1, TrainedStays
<1> QED
  BY <1>1, <1>2, <1>3, OneCycle

\* A step that sends no statement and teaches nothing.
LEMMA QuietCycle ==
  ASSUME SystemInv, UNCHANGED <<clock, storageVars, requestVars, learningVars>>,
         cycles' \in Nat, NEW w \in Worker, NEW s \in WorkerState,
         worker' = [worker EXCEPT ![w] = s], CycleOK(s),
         \/ s.pc \notin {"reward", "fetch", "train"}
         \/ s.pc = "train" /\ Doing(w, "fetch") /\ s.entry = worker[w].entry
  PROVE  SystemInv'
<1>1. UNCHANGED <<clock, rows, points, decisions, feedback>>
  BY DEF storageVars
<1>2. StoresOK' /\ Grows
  BY <1>1, Facts, NoWrite
<1> QED
  BY <1>1, <1>2, TeachesNothing

\* The loop goes on with entries that have rows, and owes nothing.
LEMMA LoopOK ==
  ASSUME SystemInv, NEW S \in SUBSET Fp, \A g \in S : HasRow(g)
  PROVE  Loop(S) \in WorkerState /\ CycleOK(Loop(S)) /\ Loop(S).pc \in {"idle", "evaluate"}
<1> DEFINE s == Loop(S)
<1>1. s \in WorkerState
  <2>1. Asleep \in WorkerState
    BY DEF Asleep, WorkerState, NoTime, NoBucket
  <2>2. PICK p \in {"idle", "evaluate"} : p = IF S = {} THEN "idle" ELSE "evaluate"
    OBVIOUS
  <2>3. s = [Asleep EXCEPT !.pc = p, !.todo = S]
    BY <2>2 DEF Loop
  <2> QED
    BY <2>1, <2>3 DEF WorkerState
<1>2. s.pc \in {"idle", "evaluate"} /\ s.todo = S /\ s.decided = FALSE
  BY DEF Loop, Asleep
<1> HIDE DEF s
<1>3. CycleOK(s)
  BY <1>2 DEF CycleOK
<1> QED
  BY <1>1, <1>2, <1>3 DEF s

\* A cycle that stops owes nothing.
LEMMA AsleepOK == ASSUME SystemInv
                  PROVE  Asleep \in WorkerState /\ CycleOK(Asleep) /\ Asleep.pc = "idle"
BY DEF Asleep, WorkerState, CycleOK, NoTime, NoBucket

\* A cycle begins, lists its batch and has it judged.
LEMMA BatchSteps ==
  ASSUME SystemInv, NEW w \in Worker, UNCHANGED requestVars,
         StartCycle(w) \/ ListCandidates(w) \/ Skip(w) \/ Evaluate(w)
  PROVE  SystemInv'
<1>0. /\ worker[w] \in WorkerState /\ CycleOK(worker[w])
      /\ UNCHANGED <<clock, storageVars, learningVars>>
  BY Facts DEF SystemInv, StartCycle, ListCandidates, Skip, Evaluate
<1>01. cycles' \in Nat
  <2>1. cycles \in Nat /\ cycles' \in {cycles, cycles + 1}
    BY Facts DEF StartCycle, ListCandidates, Skip, Evaluate, Continue
  <2> QED
    BY <2>1
<1>1. CASE StartCycle(w)
  <2> DEFINE s == [worker[w] EXCEPT !.pc = "list"]
  <2>1. Doing(w, "idle") /\ worker' = [worker EXCEPT ![w] = s]
    BY <1>1 DEF StartCycle
  <2>2. s \in WorkerState /\ CycleOK(s) /\ s.pc = "list"
    BY <1>0, <2>1 DEF WorkerState, CycleOK, Doing
  <2> HIDE DEF s
  <2> QED
    BY <1>0, <1>01, <2>1, <2>2, QuietCycle
<1>2. CASE ListCandidates(w)
  <2>1. PICK S \in Batches : Continue(w, Loop(S))
    BY <1>2 DEF ListCandidates
  <2>2. S \subseteq Fp /\ \A g \in S : HasRow(g)
    BY DEF Batches, Candidates
  <2>3. Loop(S) \in WorkerState /\ CycleOK(Loop(S)) /\ Loop(S).pc \in {"idle", "evaluate"}
    BY <2>2, LoopOK
  <2> QED
    BY <1>0, <1>01, <2>1, <2>3, QuietCycle DEF Continue
<1>3. CASE Skip(w)
  <2>1. PICK f \in Fp : Continue(w, Loop(worker[w].todo \ {f}))
    BY <1>0, <1>3 DEF Skip, Newest, WorkerState
  <2> DEFINE S == worker[w].todo \ {f}
  <2>2. S \in SUBSET Fp /\ \A g \in S : HasRow(g)
    BY <1>0 DEF WorkerState, CycleOK
  <2>3. Loop(S) \in WorkerState /\ CycleOK(Loop(S)) /\ Loop(S).pc \in {"idle", "evaluate"}
    BY <2>2, LoopOK
  <2> QED
    BY <1>0, <1>01, <2>1, <2>3, QuietCycle DEF Continue
<1>4. CASE Evaluate(w)
  <2>1. PICK f \in Fp, v \in Verdict, d \in BOOLEAN :
          /\ f \in worker[w].todo /\ (d => HasDecision(f))
          /\ Continue(w, [worker[w] EXCEPT !.pc = AfterVerdict(v), !.todo = @ \ {f},
                            !.entry = f, !.verdict = v, !.decided = d])
    BY <1>0, <1>4 DEF Evaluate, Newest, WorkerState
  <2> DEFINE s == [worker[w] EXCEPT !.pc = AfterVerdict(v), !.todo = @ \ {f},
                                    !.entry = f, !.verdict = v, !.decided = d]
  <2>2. /\ AfterVerdict(v) \in {"read", "feedback"}
        /\ AfterVerdict(v) = "read" => v \in {"bonus", "early"}
    BY DEF AfterVerdict
  <2>3. s \in WorkerState
    BY <1>0, <2>1, <2>2 DEF WorkerState
  <2>4. /\ s.pc = AfterVerdict(v) /\ s.todo = worker[w].todo \ {f} /\ s.entry = f
        /\ s.verdict = v /\ s.decided = d
    BY <1>0 DEF WorkerState
  <2>5. worker' = [worker EXCEPT ![w] = s]
    BY <2>1 DEF Continue
  <2>6. HasRow(f)
    BY <1>0, <2>1 DEF CycleOK
  <2> HIDE DEF s
  <2>7. CycleOK(s)
    BY <1>0, <2>1, <2>2, <2>4, <2>6 DEF CycleOK
  <2> QED
    BY <1>0, <1>01, <2>2, <2>3, <2>4, <2>5, <2>7, QuietCycle
<1> QED
  BY <1>1, <1>2, <1>3, <1>4

\* The entry is read, to be moved or not.
LEMMA ReadStep ==
  ASSUME SystemInv, NEW w \in Worker, UNCHANGED requestVars, ReadEntry(w) PROVE SystemInv'
<1> DEFINE f == worker[w].entry
           b == NextBucket(w, rows[f].bucket)
<1>0. /\ worker[w] \in WorkerState /\ CycleOK(worker[w]) /\ clock \in Nat /\ cycles \in Nat
      /\ UNCHANGED <<clock, storageVars, learningVars>>
      /\ Doing(w, "read") /\ f \in Fp /\ HasRow(f) /\ worker[w].verdict \in {"bonus", "early"}
  BY Facts DEF SystemInv, ReadEntry, CycleOK, Doing
<1>1. CASE Proceed(w, "feedback")
  <2> DEFINE s == [worker[w] EXCEPT !.pc = "feedback"]
  <2>1. worker' = [worker EXCEPT ![w] = s] /\ cycles' = cycles
    BY <1>1 DEF Proceed, Continue
  <2>2. s \in WorkerState /\ CycleOK(s) /\ s.pc = "feedback"
    BY <1>0 DEF WorkerState, CycleOK, Doing
  <2> HIDE DEF s
  <2> QED
    BY <1>0, <2>1, <2>2, QuietCycle
<1>2. CASE /\ ~AtTheEnd(w, rows[f].bucket)
           /\ Continue(w, [worker[w] EXCEPT !.pc = "adjust", !.bucket = b,
                                            !.expires = clock + TTL[b]])
  <2>1. b \in Buckets /\ b \in Int
    <3>1. rows[f].bucket \in Buckets
      BY <1>0, RowTyped
    <3> QED
      BY <1>0, <1>2, <3>1, BucketAssumption DEF AtTheEnd, NextBucket, Buckets
  <2>2. PICK e \in Nat : e = clock + TTL[b]
    <3>1. TTL[b] \in Nat
      BY <2>1, Lifetime
    <3> QED
      BY <1>0, <3>1
  <2>3. PICK c \in Buckets : c = b /\ c \in Int
    BY <2>1
  <2> DEFINE s == [worker[w] EXCEPT !.pc = "adjust", !.bucket = c, !.expires = e]
  <2>4. worker' = [worker EXCEPT ![w] = s] /\ cycles' = cycles
    BY <1>2, <2>2, <2>3 DEF Continue
  <2>5. s \in WorkerState
    <3>1. worker[w] \in WorkerState /\ c \in Int /\ e \in Int
      BY <1>0, <2>2, <2>3
    <3> QED
      BY <3>1 DEF WorkerState
  <2>6. /\ s.pc = "adjust" /\ s.todo = worker[w].todo /\ s.entry = worker[w].entry
        /\ s.decided = worker[w].decided /\ s.bucket = c /\ s.expires = e
    BY <1>0 DEF WorkerState
  <2>7. e <= clock + TTL[c]
    BY <2>2, <2>3
  <2> HIDE DEF s, f, b
  <2>8. CycleOK(s)
    BY <1>0, <2>6, <2>7 DEF CycleOK, Doing, f
  <2> QED
    BY <1>0, <2>4, <2>5, <2>6, <2>8, QuietCycle
<1> QED
  BY <1>0, <1>1, <1>2 DEF ReadEntry

\* The move of an entry keeps the stores consistent.
LEMMA MoveOK ==
  ASSUME SystemInv, NEW w \in Worker, Doing(w, "adjust"), AdjustNow(w),
         UNCHANGED <<clock, points, decisions, feedback>>
  PROVE  StoresOK' /\ Grows
<1>1. /\ worker[w].entry \in Fp /\ HasRow(worker[w].entry) /\ worker[w].bucket \in Buckets
      /\ worker[w].expires \in Nat /\ worker[w].expires <= clock + TTL[worker[w].bucket]
  BY DEF SystemInv, CycleOK, Doing
<1>2. ASSUME NEW f \in Fp, NEW b \in Buckets, NEW e \in Nat, HasRow(f), e <= clock + TTL[b],
             UpdateEntryTTL(f, b, e)
      PROVE  StoresOK' /\ Grows
  <2> DEFINE r == [rows[f] EXCEPT !.bucket = b, !.expires = e]
  <2>1. rows' = [rows EXCEPT ![f] = r]
    BY <1>2 DEF UpdateEntryTTL
  <2>2. r \in Row /\ r.created = rows[f].created /\ r.expires <= clock + TTL[r.bucket]
    BY <1>2, RowTyped DEF Row
  <2> HIDE DEF r
  <2> QED
    BY <2>1, <2>2, RowWritten
<1> QED
  BY <1>1, <1>2 DEF AdjustNow

\* An outcome is logged, rewarded or trained with, and the cycle goes on as s.
LEMMA Teaches ==
  ASSUME SystemInv, UNCHANGED <<clock, storageVars, requestVars, cycles>>,
         NEW w \in Worker, NEW s \in WorkerState, worker' = [worker EXCEPT ![w] = s], CycleOK(s),
         \/ /\ Doing(w, "feedback") /\ LogOutcomeNow(w) /\ UNCHANGED <<rewards, trained>>
            /\ \/ s.pc = "reward" /\ s.entry = worker[w].entry /\ worker[w].decided
               \/ s.pc \notin {"reward", "fetch", "train"}
         \/ /\ Doing(w, "reward") /\ RewardNow(w) /\ UNCHANGED <<refreshed, trained>>
            /\ \/ s.pc = "fetch" /\ s.entry = worker[w].entry
               \/ s.pc \notin {"reward", "fetch", "train"}
         \/ /\ Doing(w, "train") /\ TrainNow(w) /\ UNCHANGED <<refreshed, rewards>>
            /\ s.pc \notin {"reward", "fetch", "train"}
  PROVE  SystemInv'
<1> DEFINE e == worker[w].entry
           NothingDue(f) == RewardDue(s, f) = 0 /\ TrainingDue(s, f) = 0
<1>0. /\ worker[w] \in WorkerState /\ CycleOK(worker[w]) /\ e \in Fp
      /\ UNCHANGED <<rows, points, decisions, feedback>>
  BY Facts DEF SystemInv, CycleOK, Doing, storageVars
<1>1. StoresOK' /\ Grows /\ cycles' \in Nat
  BY <1>0, Facts, NoWrite
<1>2. CASE Doing(w, "feedback") /\ LogOutcomeNow(w) /\ UNCHANGED <<rewards, trained>>
  <2>1. /\ refreshed' \in [Fp -> Nat] /\ rewards' \in [Fp -> Nat]
        /\ trained' \in [Fp -> [Buckets -> Nat]]
        /\ \A f \in Fp : refreshed'[f] = IF worker[w].decided /\ f = e
                                         THEN refreshed[f] + 1 ELSE refreshed[f]
    BY <1>0, <1>2, Facts DEF LogOutcomeNow
  <2>2. ASSUME NEW f \in Fp PROVE LearnedOK(f)'
    <3>1. /\ RewardDue(worker[w], f) = 0 /\ TrainingDue(worker[w], f) = 0 /\ TrainingDue(s, f) = 0
          /\ RewardDue(s, f) \in Nat
          /\ RewardDue(s, f) <= IF worker[w].decided /\ f = e THEN 1 ELSE 0
      BY <1>2 DEF RewardDue, TrainingDue, Doing
    <3>2. refreshed[f] \in Nat /\ rewards[f] \in Nat /\ \A b \in Buckets : trained[f][b] \in Nat
      BY Facts
    <3>3. rewards'[f] + RewardDue(s, f) - rewards[f]
            <= refreshed'[f] + RewardDue(worker[w], f) - refreshed[f]
      BY <1>2, <2>1, <3>1, <3>2
    <3>4. \A b \in Buckets : trained'[f][b] + TrainingDue(s, f) - trained[f][b]
            <= rewards'[f] + TrainingDue(worker[w], f) - rewards[f]
      BY <1>2, <3>1, <3>2
    <3> QED
      BY <2>1, <3>3, <3>4, Balance
  <2>3. TrainedAsDecided'
    BY <1>1, <1>2, TrainedStays
  <2> QED
    BY <1>0, <1>1, <2>1, <2>2, <2>3, OneCycle
<1>3. CASE Doing(w, "reward") /\ RewardNow(w) /\ UNCHANGED <<refreshed, trained>>
  <2>1. /\ refreshed' \in [Fp -> Nat] /\ rewards' \in [Fp -> Nat]
        /\ trained' \in [Fp -> [Buckets -> Nat]]
        /\ \A f \in Fp : rewards'[f] = IF f = e THEN rewards[f] + 1 ELSE rewards[f]
    BY <1>0, <1>3, Facts DEF RewardNow
  <2>2. ASSUME NEW f \in Fp PROVE LearnedOK(f)'
    <3>1. /\ RewardDue(worker[w], f) = (IF f = e THEN 1 ELSE 0) /\ TrainingDue(worker[w], f) = 0
          /\ RewardDue(s, f) = 0 /\ TrainingDue(s, f) \in Nat
          /\ TrainingDue(s, f) <= IF f = e THEN 1 ELSE 0
      BY <1>3 DEF RewardDue, TrainingDue, Doing
    <3>2. refreshed[f] \in Nat /\ rewards[f] \in Nat /\ \A b \in Buckets : trained[f][b] \in Nat
      BY Facts
    <3>3. rewards'[f] + RewardDue(s, f) - rewards[f]
            <= refreshed'[f] + RewardDue(worker[w], f) - refreshed[f]
      BY <1>3, <2>1, <3>1, <3>2
    <3>4. \A b \in Buckets : trained'[f][b] + TrainingDue(s, f) - trained[f][b]
            <= rewards'[f] + TrainingDue(worker[w], f) - rewards[f]
      BY <1>3, <2>1, <3>1, <3>2
    <3> QED
      BY <2>1, <3>3, <3>4, Balance
  <2>3. TrainedAsDecided'
    BY <1>1, <1>3, TrainedStays
  <2> QED
    BY <1>0, <1>1, <2>1, <2>2, <2>3, OneCycle
<1>4. CASE /\ Doing(w, "train") /\ TrainNow(w) /\ UNCHANGED <<refreshed, rewards>>
           /\ s.pc \notin {"reward", "fetch", "train"}
  <2> DEFINE a == worker[w].bucket
  <2>0. HasDecision(e) /\ a = decisions[e].bucket /\ a \in Buckets
    <3>1. HasDecision(e) /\ a = decisions[e].bucket
      BY <1>0, <1>4 DEF CycleOK, Doing
    <3>2. decisions[e] \in Decision
      BY <1>0, <3>1, Facts DEF HasDecision
    <3> QED
      BY <3>1, <3>2 DEF Decision
  <2>1. /\ refreshed' \in [Fp -> Nat] /\ rewards' \in [Fp -> Nat]
        /\ trained' \in [Fp -> [Buckets -> Nat]]
        /\ \A f \in Fp, b \in Buckets :
             trained'[f][b] = IF f = e /\ b = a THEN trained[f][b] + 1 ELSE trained[f][b]
    BY <1>0, <1>4, <2>0, Facts DEF TrainNow
  <2>2. ASSUME NEW f \in Fp PROVE LearnedOK(f)'
    <3>1. /\ RewardDue(worker[w], f) = 0 /\ TrainingDue(worker[w], f) = (IF f = e THEN 1 ELSE 0)
          /\ RewardDue(s, f) = 0 /\ TrainingDue(s, f) = 0
      BY <1>4 DEF RewardDue, TrainingDue, Doing
    <3>2. refreshed[f] \in Nat /\ rewards[f] \in Nat /\ \A b \in Buckets : trained[f][b] \in Nat
      BY Facts
    <3>3. rewards'[f] + RewardDue(s, f) - rewards[f]
            <= refreshed'[f] + RewardDue(worker[w], f) - refreshed[f]
      BY <1>4, <3>1, <3>2
    <3>4. \A b \in Buckets : trained'[f][b] + TrainingDue(s, f) - trained[f][b]
            <= rewards'[f] + TrainingDue(worker[w], f) - rewards[f]
      BY <1>4, <2>1, <3>1, <3>2
    <3> QED
      BY <2>1, <3>3, <3>4, Balance
  <2>3. TrainedAsDecided'
    <3>1. UNCHANGED decisions
      BY <1>0
    <3>2. \A f \in Fp, b \in Buckets : trained'[f][b] > 0 => trained[f][b] > 0 \/ (f = e /\ b = a)
      BY <2>1
    <3> QED
      BY <2>0, <3>1, <3>2 DEF SystemInv, TrainedAsDecided, HasDecision
  <2> QED
    BY <1>0, <1>1, <2>1, <2>2, <2>3, OneCycle
<1> QED
  BY <1>2, <1>3, <1>4

\* The entry is moved, or its decision read.
LEMMA MoveAndFetch ==
  ASSUME SystemInv, NEW w \in Worker, UNCHANGED requestVars, Adjust(w) \/ FetchDecision(w)
  PROVE  SystemInv'
<1>0. worker[w] \in WorkerState /\ CycleOK(worker[w]) /\ cycles \in Nat
  BY Facts DEF SystemInv
<1>1. CASE Adjust(w)
  <2> DEFINE s == [worker[w] EXCEPT !.pc = "feedback"]
  <2>1. /\ worker' = [worker EXCEPT ![w] = s] /\ cycles' = cycles
        /\ Doing(w, "adjust") /\ AdjustNow(w)
        /\ UNCHANGED <<clock, points, decisions, feedback, learningVars>>
    BY <1>1 DEF Adjust, Proceed, Continue
  <2>2. s \in WorkerState /\ CycleOK(s) /\ s.pc = "feedback"
    BY <1>0, <2>1 DEF WorkerState, CycleOK, Doing
  <2>3. StoresOK' /\ Grows
    BY <2>1, MoveOK
  <2> HIDE DEF s
  <2> QED
    BY <1>0, <2>1, <2>2, <2>3, TeachesNothing
<1>2. CASE FetchDecision(w)
  <2> DEFINE f == worker[w].entry
  <2>1. /\ Doing(w, "fetch") /\ f \in Fp /\ HasDecision(f) /\ worker[w].decided
        /\ UNCHANGED <<clock, storageVars, learningVars>> /\ cycles' = cycles
    BY <1>0, <1>2 DEF FetchDecision, CycleOK, Doing, Continue
  <2>2. PICK b \in Buckets : b = decisions[f].bucket /\ b \in Int
    <3>1. decisions[f] \in Decision
      BY <2>1, Facts DEF HasDecision
    <3> QED
      BY <3>1 DEF Decision, Buckets
  <2> DEFINE s == [worker[w] EXCEPT !.pc = "train", !.bucket = b]
  <2>3. worker' = [worker EXCEPT ![w] = s]
    BY <1>2, <2>1, <2>2 DEF FetchDecision, Continue
  <2>4. s \in WorkerState
    BY <1>0, <2>2 DEF WorkerState
  <2>5. /\ s.pc = "train" /\ s.todo = worker[w].todo /\ s.entry = worker[w].entry
        /\ s.decided = worker[w].decided /\ s.bucket = b
    BY <1>0 DEF WorkerState
  <2> HIDE DEF s
  <2>6. CycleOK(s)
    BY <1>0, <2>1, <2>2, <2>5 DEF CycleOK, Doing
  <2> QED
    BY <1>0, <2>1, <2>3, <2>4, <2>5, <2>6, QuietCycle
<1> QED
  BY <1>1, <1>2

\* The outcome is logged, rewarded and trained with.
LEMMA TeachingSteps ==
  ASSUME SystemInv, NEW w \in Worker, UNCHANGED requestVars,
         LogOutcome(w) \/ Reward(w) \/ Train(w)
  PROVE  SystemInv'
<1>0. /\ worker[w] \in WorkerState /\ CycleOK(worker[w])
      /\ UNCHANGED <<clock, storageVars, cycles>>
  BY Facts DEF SystemInv, LogOutcome, Reward, Train, Continue
<1> DEFINE l == Loop(worker[w].todo)
<1>1. l \in WorkerState /\ CycleOK(l) /\ l.pc \in {"idle", "evaluate"}
  BY <1>0, LoopOK DEF WorkerState, CycleOK
<1> HIDE DEF l
<1>2. CASE LogOutcome(w)
  <2> DEFINE s == [worker[w] EXCEPT !.pc = "reward"]
  <2>1. /\ Doing(w, "feedback") /\ LogOutcomeNow(w) /\ UNCHANGED <<rewards, trained>>
        /\ worker' = [worker EXCEPT ![w] = IF worker[w].decided THEN s ELSE l]
    BY <1>2 DEF LogOutcome, Continue, l
  <2>2. CASE worker[w].decided
    <3>1. s \in WorkerState /\ CycleOK(s) /\ s.pc = "reward" /\ s.entry = worker[w].entry
      BY <1>0, <2>1, <2>2 DEF WorkerState, CycleOK, Doing
    <3> HIDE DEF s
    <3> QED
      BY <1>0, <2>1, <2>2, <3>1, Teaches
  <2>3. CASE ~worker[w].decided
    BY <1>0, <1>1, <2>1, <2>3, Teaches
  <2> QED
    BY <2>2, <2>3
<1>3. CASE Reward(w)
  <2> DEFINE s == [worker[w] EXCEPT !.pc = "fetch"]
  <2>1. /\ Doing(w, "reward") /\ RewardNow(w) /\ UNCHANGED <<refreshed, trained>>
        /\ worker' = [worker EXCEPT ![w] = IF PolicyEnabled THEN s ELSE l]
    BY <1>3 DEF Reward, Continue, l
  <2>2. CASE PolicyEnabled
    <3>1. s \in WorkerState /\ CycleOK(s) /\ s.pc = "fetch" /\ s.entry = worker[w].entry
      BY <1>0, <2>1 DEF WorkerState, CycleOK, Doing
    <3> HIDE DEF s
    <3> QED
      BY <1>0, <2>1, <2>2, <3>1, Teaches
  <2>3. CASE ~PolicyEnabled
    BY <1>0, <1>1, <2>1, <2>3, Teaches
  <2> QED
    BY <2>2, <2>3
<1>4. CASE Train(w)
  <2>1. /\ Doing(w, "train") /\ TrainNow(w) /\ UNCHANGED <<refreshed, rewards>>
        /\ worker' = [worker EXCEPT ![w] = l]
    BY <1>4 DEF Train, Continue, l
  <2> QED
    BY <1>0, <1>1, <2>1, Teaches
<1> QED
  BY <1>2, <1>3, <1>4

\* A cycle is cut off, the statement it was sending executed or not.
LEMMA AbortStep ==
  ASSUME SystemInv, NEW w \in Worker, UNCHANGED requestVars, Abort(w) PROVE SystemInv'
<1>1. /\ UNCHANGED <<clock, cycles>> /\ worker' = [worker EXCEPT ![w] = Asleep]
      /\ Asleep \in WorkerState /\ CycleOK(Asleep) /\ Asleep.pc = "idle" /\ cycles \in Nat
  BY AsleepOK, Facts DEF Abort, Continue
<1>2. CASE UNCHANGED <<storageVars, learningVars>>
  BY <1>1, <1>2, QuietCycle
<1>3. CASE /\ Doing(w, "adjust") /\ AdjustNow(w)
           /\ UNCHANGED <<points, decisions, feedback, learningVars>>
  <2>1. StoresOK' /\ Grows
    BY <1>1, <1>3, MoveOK
  <2> QED
    BY <1>1, <1>3, <2>1, TeachesNothing
<1>4. CASE \/ /\ Doing(w, "feedback") /\ LogOutcomeNow(w)
              /\ UNCHANGED <<storageVars, rewards, trained>>
           \/ /\ Doing(w, "reward") /\ RewardNow(w)
              /\ UNCHANGED <<storageVars, refreshed, trained>>
           \/ /\ Doing(w, "train") /\ TrainNow(w)
              /\ UNCHANGED <<storageVars, refreshed, rewards>>
  BY <1>1, <1>4, Teaches
<1> QED
  BY <1>2, <1>3, <1>4 DEF Abort, RefreshEffect

\* Every step of a cycle keeps the invariant.
LEMMA RefreshSteps ==
  ASSUME SystemInv, NEW w \in Worker, RefreshStep(w) PROVE SystemInv'
<1>1. CASE StartCycle(w) \/ ListCandidates(w) \/ Skip(w) \/ Evaluate(w)
  BY <1>1, BatchSteps DEF RefreshStep
<1>2. CASE ReadEntry(w)
  BY <1>2, ReadStep DEF RefreshStep
<1>3. CASE Adjust(w) \/ FetchDecision(w)
  BY <1>3, MoveAndFetch DEF RefreshStep
<1>4. CASE LogOutcome(w) \/ Reward(w) \/ Train(w)
  BY <1>4, TeachingSteps DEF RefreshStep
<1>5. CASE Abort(w)
  BY <1>5, AbortStep DEF RefreshStep
<1> QED
  BY <1>1, <1>2, <1>3, <1>4, <1>5 DEF RefreshStep, WorkerStep

-----------------------------------------------------------------------------
(* The theorems.                                                             *)

\* The stores are empty, no request and no cycle has begun.
LEMMA Starts == SystemInit => SystemInv
<1> SUFFICES ASSUME SystemInit PROVE SystemInv
  OBVIOUS
<1>1. /\ clock = 0 /\ arrivals = 0 /\ cycles = 0
      /\ \A f \in Fp : /\ ~HasRow(f) /\ ~HasPoint(f) /\ ~HasDecision(f)
                       /\ rewards[f] = 0 /\ refreshed[f] = 0
                       /\ \A b \in Buckets : trained[f][b] = 0
      /\ \A h \in Handler : handler[h] = Idle
      /\ \A w \in Worker : worker[w] = Asleep
  BY DEF SystemInit, RPInit, StorageInit, RefreshInit, HasRow, HasPoint, HasDecision
<1>2. Idle \in HandlerState /\ Idle.pc = "idle" /\ RequestOK(Idle)
  BY NoFpAssumption DEF Idle, HandlerState, RequestOK, LookupCalls, StoreCalls, NoTime, NoBucket
<1>3. Asleep \in WorkerState /\ Asleep.pc = "idle" /\ CycleOK(Asleep)
  BY DEF Asleep, WorkerState, CycleOK, NoTime, NoBucket
<1>4. SystemTypeOK
  <2>1. StorageTypeOK
    BY DEF SystemInit, RPInit, StorageInit, StorageTypeOK
  <2>2. handler \in [Handler -> HandlerState] /\ worker \in [Worker -> WorkerState]
    BY <1>2, <1>3 DEF SystemInit, RPInit, RefreshInit
  <2>3. refreshed \in [Fp -> Nat] /\ rewards \in [Fp -> Nat] /\ trained \in [Fp -> [Buckets -> Nat]]
    BY DEF SystemInit, RefreshInit
  <2> QED
    BY <1>1, <2>1, <2>2, <2>3 DEF SystemTypeOK, RPTypeOK, RefreshTypeOK
<1>5. \A h \in Handler : RequestOK(handler[h])
  BY <1>1, <1>2
<1>6. \A w \in Worker : CycleOK(worker[w])
  BY <1>1, <1>3
<1>7. StoresAlone
  BY <1>1, <1>2 DEF StoresAlone, Storing
<1>8. ASSUME NEW f \in Fp PROVE LearnedOK(f)
  <2>1. OwesReward(f) = {} /\ OwesTraining(f) = {}
    BY <1>1, <1>3 DEF OwesReward, OwesTraining
  <2> QED
    BY <1>1, <2>1, FS_EmptySet DEF LearnedOK
<1>9. RowThenPointThenDecision /\ EntryLivesWithinItsBucket /\ TrainedAsDecided
  BY <1>1 DEF RowThenPointThenDecision, EntryLivesWithinItsBucket, TrainedAsDecided
<1> QED
  BY <1>4, <1>5, <1>6, <1>7, <1>8, <1>9 DEF SystemInv

\* Whatever step the system takes, the invariant stays.
LEMMA Keeps == SystemInv /\ [SystemNext]_systemVars => SystemInv'
<1> SUFFICES ASSUME SystemInv, [SystemNext]_systemVars PROVE SystemInv'
  OBVIOUS
<1>1. CASE Tick /\ UNCHANGED <<requestVars, refreshVars>>
  <2>1. clock' \in Nat /\ clock <= clock'
    BY <1>1, Facts DEF Tick
  <2> QED
    BY <1>1, <2>1, TimeAndCrash DEF Tick, storageVars, requestVars
<1>2. CASE \E h \in Handler : RequestStep(h)
  BY <1>2, RequestSteps
<1>3. CASE \E w \in Worker : RefreshStep(w)
  BY <1>3, RefreshSteps
<1>4. CASE Crash /\ UNCHANGED refreshVars
  BY <1>4, Facts, TimeAndCrash DEF Crash, storageVars
<1>5. CASE UNCHANGED systemVars
  BY <1>5, Facts, TimeAndCrash DEF systemVars, storageVars, requestVars
<1> QED
  BY <1>1, <1>2, <1>3, <1>4, <1>5 DEF SystemNext

\* The inductive invariant holds: requests and refresh cycles may interleave, overlap, fail
\* and be killed as they like.
THEOREM SystemInvariant == SystemSpec => []SystemInv
BY Starts, Keeps, PTL DEF SystemSpec

\* The variables keep their types: no guardrail or extension takes an entry to a bucket that
\* does not exist.
THEOREM SystemTyped == SystemSpec => []SystemTypeOK
<1>1. SystemInv => SystemTypeOK
  BY DEF SystemInv
<1> QED
  BY <1>1, SystemInvariant, PTL

\* A point always has its row, a decision its point, while other threads store, move and
\* fail.
THEOREM StoresInOrder == SystemSpec => []RowThenPointThenDecision
<1>1. SystemInv => RowThenPointThenDecision
  BY DEF SystemInv
<1> QED
  BY <1>1, SystemInvariant, PTL

\* No entry ever has more to live than the lifetime of the bucket its row names.
THEOREM LivesWithinBucket == SystemSpec => []EntryLivesWithinItsBucket
<1>1. SystemInv => EntryLivesWithinItsBucket
  BY DEF SystemInv
<1> QED
  BY <1>1, SystemInvariant, PTL

\* The policy is trained with the action of the logged decision, wherever the entry has
\* been moved to meanwhile.
THEOREM TrainsTheDecision == SystemSpec => []TrainedAsDecided
<1>1. SystemInv => TrainedAsDecided
  BY DEF SystemInv
<1> QED
  BY <1>1, SystemInvariant, PTL

\* There are never more rewards than outcomes nor more trainings than rewards, though any
\* number of cycles work on the entry and stop anywhere.
THEOREM LearnsInOrder == SystemSpec => []LearnedInOrder
<1>1. SystemInv => LearnedInOrder
  <2> SUFFICES ASSUME SystemInv, NEW f \in Fp
               PROVE  rewards[f] <= refreshed[f] /\ \A b \in Buckets : trained[f][b] <= rewards[f]
    BY DEF LearnedInOrder
  <2>1. LearnedOK(f)
    BY DEF SystemInv
  <2>2. Cardinality(OwesReward(f)) \in Nat /\ Cardinality(OwesTraining(f)) \in Nat
    BY <2>1, FS_CardinalityType DEF LearnedOK
  <2>3. refreshed[f] \in Nat /\ rewards[f] \in Nat /\ \A b \in Buckets : trained[f][b] \in Nat
    BY Facts
  <2> QED
    BY <2>1, <2>2, <2>3 DEF LearnedOK
<1> QED
  BY <1>1, SystemInvariant, PTL

=============================================================================
