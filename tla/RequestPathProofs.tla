-------------------------- MODULE RequestPathProofs --------------------------
(***************************************************************************)
(* RPInv is an invariant of RPSpec, for every set of fingerprints, every   *)
(* number of worker threads, every TTL table and every set of faults.      *)
(*                                                                         *)
(* The argument: a statement only ever adds to the stores (StorageGrows),  *)
(* so what a request has learnt stays true while others run, and it is     *)
(* enough to look at the request that takes the step.                      *)
(***************************************************************************)
EXTENDS RequestPath, TLAPS

StorageOK == StorageTypeOK /\ PointMatchesRow /\ DecisionMatchesEntry

RequestOK(h) == LookupOK(h) /\ ServeOK(h) /\ WriteOK(h)

\* Rows, points and decisions stay; only a hit counter of a row changes.
StorageGrows ==
  /\ clock' \in Nat /\ clock <= clock'
  /\ \A f \in Fp : HasRow(f) =>
       /\ HasRow(f)'
       /\ rows'[f].bucket = rows[f].bucket
       /\ rows'[f].created = rows[f].created
       /\ rows'[f].expires = rows[f].expires
  /\ \A f \in Fp : HasPoint(f) => points'[f] = points[f]
  /\ \A f \in Fp : HasDecision(f) => HasDecision(f)'

-----------------------------------------------------------------------------
(* The statements, one by one: each keeps the stores consistent and grows them. *)

\* A statement that writes none of the three tables.
LEMMA NoWriteOK ==
  ASSUME StorageOK, feedback' \in [Fp -> [hit : Nat, stale : Nat]],
         clock' \in Nat, clock <= clock', UNCHANGED <<rows, points, decisions>>
  PROVE  StorageOK' /\ StorageGrows
BY DEF StorageOK, StorageTypeOK, PointMatchesRow, DecisionMatchesEntry, StorageGrows,
       HasRow, HasPoint, HasDecision

\* mark_hit: the counter moves, the lifetime does not.
LEMMA MarkHitOK ==
  ASSUME StorageOK, NEW g \in Fp, HasRow(g), MarkHit(g),
         UNCHANGED <<clock, points, decisions, feedback>>
  PROVE  StorageOK' /\ StorageGrows
<1>1. rows[g] \in Row
  BY DEF StorageOK, StorageTypeOK, HasRow
<1>2. rows' = [rows EXCEPT ![g] = [rows[g] EXCEPT !.hits = rows[g].hits + 1]]
  BY DEF MarkHit
<1>3. rows' \in [Fp -> Row \cup {NoRow}]
  BY <1>1, <1>2 DEF StorageOK, StorageTypeOK, Row
<1>4. \A f \in Fp : HasRow(f) =>
        /\ HasRow(f)'
        /\ rows'[f].bucket = rows[f].bucket
        /\ rows'[f].created = rows[f].created
        /\ rows'[f].expires = rows[f].expires
  BY <1>1, <1>2, BucketAssumption DEF StorageOK, StorageTypeOK, HasRow, Row, NoRow, NoBucket, Buckets
<1> QED
  BY <1>3, <1>4 DEF StorageOK, StorageTypeOK, PointMatchesRow, DecisionMatchesEntry,
     StorageGrows, HasRow, HasPoint, HasDecision

\* insert_entry where no row was: no point and no decision can be there either.
LEMMA InsertOK ==
  ASSUME StorageOK, NEW f \in Fp, CanInsert(f),
         NEW b \in Buckets, NEW c \in Nat, NEW e \in Nat, InsertEntry(f, b, c, e),
         UNCHANGED <<clock, points, decisions, feedback>>
  PROVE  StorageOK' /\ StorageGrows /\ HasRow(f)'
<1> DEFINE r == [bucket |-> b, created |-> c, expires |-> e, hits |-> 0]
<1>1. r \in Row /\ r # NoRow
  BY BucketAssumption DEF Row, NoRow, NoBucket, Buckets
<1>2. rows' = [rows EXCEPT ![f] = r]
  BY DEF InsertEntry
<1>3. ~HasRow(f) /\ ~HasPoint(f) /\ ~HasDecision(f)
  BY DEF StorageOK, PointMatchesRow, DecisionMatchesEntry, CanInsert
<1> QED
  BY <1>1, <1>2, <1>3 DEF StorageOK, StorageTypeOK, PointMatchesRow, DecisionMatchesEntry,
     StorageGrows, HasRow, HasPoint, HasDecision

\* upsert_point for a row with the same expiry.
LEMMA UpsertOK ==
  ASSUME StorageOK, NEW f \in Fp, HasRow(f), UpsertPoint(f, rows[f].expires),
         UNCHANGED <<clock, rows, decisions, feedback>>
  PROVE  StorageOK' /\ StorageGrows /\ HasPoint(f)'
<1>1. rows[f].expires \in Nat
  BY DEF StorageOK, StorageTypeOK, HasRow, Row
<1>2. points' = [points EXCEPT ![f] = rows[f].expires]
  BY DEF UpsertPoint
<1> QED
  BY <1>1, <1>2 DEF StorageOK, StorageTypeOK, PointMatchesRow, DecisionMatchesEntry,
     StorageGrows, HasRow, HasPoint, HasDecision, NoTime

\* insert_ttl_decision for an indexed row, with the bucket of that row.
LEMMA DecisionOK ==
  ASSUME StorageOK, NEW f \in Fp, HasRow(f), HasPoint(f),
         NEW c \in {rows[f].bucket, NoBucket}, InsertDecision(f, rows[f].bucket, c),
         UNCHANGED <<clock, rows, points, feedback>>
  PROVE  StorageOK' /\ StorageGrows /\ HasDecision(f)'
<1> DEFINE d == [bucket |-> rows[f].bucket, chosen |-> c]
<1>1. rows[f].bucket \in Buckets
  BY DEF StorageOK, StorageTypeOK, HasRow, Row
<1>2. d \in Decision /\ d # NoDecision
  BY <1>1, BucketAssumption DEF Decision, NoDecision, NoBucket, Buckets
<1>3. decisions' = [decisions EXCEPT ![f] = d]
  BY DEF InsertDecision
<1> QED
  BY <1>2, <1>3 DEF StorageOK, StorageTypeOK, PointMatchesRow, DecisionMatchesEntry,
     StorageGrows, HasRow, HasPoint, HasDecision
-----------------------------------------------------------------------------
(* The other requests.                                                       *)

\* What a request has learnt stays true while the stores grow.
LEMMA Undisturbed ==
  ASSUME StorageOK, StorageGrows, NEW h \in Handler, handler[h] \in HandlerState,
         RequestOK(h), UNCHANGED handler[h]
  PROVE  RequestOK(h)'
<1>1. LookupOK(h)'
  BY DEF StorageOK, StorageTypeOK, StorageGrows, RequestOK, LookupOK, HandlerState, At,
         LookupCalls, StoreCalls, HasPoint
<1>2. ServableEntry(h) => ServableEntry(h)'
  BY DEF StorageGrows, ServableEntry, HasPoint
<1>3. OwnRow(h) => OwnRow(h)'
  BY DEF StorageGrows, OwnRow
<1>4. ServeOK(h)'
  BY <1>2 DEF StorageGrows, RequestOK, ServeOK, At
<1>5. OwnRow(h) /\ HasPoint(handler[h].fp) => HasPoint(handler[h].fp)'
  BY DEF StorageGrows, OwnRow, HasPoint
<1>6. OwnRow(h) /\ HasDecision(handler[h].fp) => HasDecision(handler[h].fp)'
  BY DEF StorageGrows, OwnRow
<1>7. WriteOK(h)'
  BY <1>3, <1>5, <1>6 DEF RequestOK, WriteOK, At
<1> QED
  BY <1>1, <1>4, <1>7 DEF RequestOK

\* A step of h is sound when it leaves the stores consistent and grown, changes
\* no other request, and leaves h as its next call expects it.
LEMMA OneRequest ==
  ASSUME RPInv, NEW h \in Handler, NEW s \in HandlerState, Become(h, s),
         StorageOK', StorageGrows, arrivals' \in Nat,
         handler'[h] = s => RequestOK(h)'
  PROVE  RPInv'
<1>1. handler \in [Handler -> HandlerState]
  BY DEF RPInv, RPTypeOK
<1>2. /\ handler' \in [Handler -> HandlerState] /\ handler'[h] = s
      /\ \A k \in Handler \ {h} : handler'[k] = handler[k]
  BY <1>1 DEF Become
<1>3. \A k \in Handler : RequestOK(k)'
  <2> TAKE k \in Handler
  <2>1. CASE k = h
    BY <2>1, <1>2
  <2>2. CASE k # h
    BY <2>2, <1>1, <1>2, Undisturbed DEF RPInv, RPTypeOK, StorageOK, RequestOK
  <2> QED
    BY <2>1, <2>2
<1> QED
  BY <1>2, <1>3 DEF RPInv, RPTypeOK, StorageOK, RequestOK

\* What RPInv says of one request.
LEMMA Facts ==
  ASSUME RPInv, NEW h \in Handler
  PROVE  /\ handler \in [Handler -> HandlerState] /\ handler[h] \in HandlerState
         /\ StorageOK /\ RequestOK(h) /\ arrivals \in Nat /\ clock \in Nat
BY DEF RPInv, RPTypeOK, StorageOK, StorageTypeOK, RequestOK

-----------------------------------------------------------------------------
(* The steps of a request.                                                   *)

\* Empty stores and idle threads satisfy the invariant.
LEMMA InitOK == RPInit => RPInv
<1> SUFFICES ASSUME RPInit PROVE RPInv
  OBVIOUS
<1>1. RPTypeOK
  <2>1. StorageTypeOK
    BY DEF RPInit, StorageInit, StorageTypeOK
  <2>2. Idle \in HandlerState
    BY DEF HandlerState, Idle, NoBucket
  <2> QED
    BY <2>1, <2>2 DEF RPInit, RPTypeOK
<1>2. PointMatchesRow /\ DecisionMatchesEntry
  BY DEF RPInit, StorageInit, PointMatchesRow, DecisionMatchesEntry, HasPoint, HasDecision
<1>3. \A h \in Handler : RequestOK(h)
  BY DEF RPInit, Idle, RequestOK, LookupOK, ServeOK, WriteOK, At, LookupCalls, StoreCalls
<1> QED
  BY <1>1, <1>2, <1>3 DEF RPInv, RequestOK

\* A step that sends no statement.
LEMMA QuietOK ==
  ASSUME RPInv, UNCHANGED <<clock, storageVars>>
  PROVE  StorageOK' /\ StorageGrows
<1>1. StorageOK
  BY DEF RPInv, RPTypeOK, StorageOK
<1>2. UNCHANGED <<clock, rows, points, decisions, feedback>>
  BY DEF storageVars
<1> QED
  BY <1>1, <1>2, NoWriteOK DEF StorageOK, StorageTypeOK

\* The search only brings indexed candidates to the request.
LEMMA VectorSearchOK == ASSUME RPInv, NEW h \in Handler, VectorSearch(h) PROVE RPInv'
<1>1. PICK S \in SearchResults(handler[h].fp) :
        Become(h, [handler[h] EXCEPT !.pc = "check", !.cands = S])
  BY DEF VectorSearch
<1> DEFINE s == [handler[h] EXCEPT !.pc = "check", !.cands = S]
<1>2. StorageOK' /\ StorageGrows /\ UNCHANGED <<clock, rows, points, decisions>>
  BY QuietOK DEF VectorSearch, storageVars
<1>3. handler[h] \in HandlerState /\ RequestOK(h) /\ At(h, "search") /\ clock \in Nat
  BY Facts DEF VectorSearch
<1>4. S \subseteq Fp /\ \A g \in S : HasPoint(g)
  BY DEF SearchResults, Findable
<1>5. "check" \in Calls
  BY DEF Calls, LookupCalls
<1>6. s \in HandlerState
  BY <1>3, <1>4, <1>5 DEF HandlerState
<1>7. ASSUME handler'[h] = s PROVE RequestOK(h)'
  <2>1. LookupOK(h)'
    BY <1>2, <1>3, <1>4, <1>7 DEF HandlerState, RequestOK, LookupOK, At, LookupCalls, HasPoint, HasRow
  <2>2. ServeOK(h)'
    BY <1>2, <1>3, <1>4, <1>7 DEF HandlerState, RequestOK, ServeOK, At
  <2>3. WriteOK(h)'
    BY <1>2, <1>3, <1>4, <1>7 DEF HandlerState, RequestOK, WriteOK, At
  <2> QED BY <2>1, <2>2, <2>3 DEF RequestOK
<1> QED
  BY <1>1, <1>2, <1>6, <1>7, Facts, OneRequest DEF VectorSearch

\* The candidate chosen was live at the check, so it was live on arrival.
LEMMA ChooseLiveOK == ASSUME RPInv, NEW h \in Handler, ChooseLive(h) PROVE RPInv'
<1>1. PICK g \in {c \in Best(handler[h].fp, handler[h].cands) : Live(c)} :
        Become(h, [handler[h] EXCEPT !.pc = "mark", !.cands = @ \ {g}, !.entry = g])
  BY DEF ChooseLive
<1> DEFINE s == [handler[h] EXCEPT !.pc = "mark", !.cands = @ \ {g}, !.entry = g]
<1>2. StorageOK' /\ StorageGrows /\ UNCHANGED <<clock, rows, points, decisions>>
  BY QuietOK DEF ChooseLive, storageVars
<1>3. handler[h] \in HandlerState /\ RequestOK(h) /\ At(h, "check") /\ clock \in Nat
  BY Facts DEF ChooseLive
<1>4. g \in Fp /\ g \in handler[h].cands /\ Live(g)
  BY <1>3 DEF Best, HandlerState
<1>5. HasRow(g) /\ HasPoint(g) /\ rows[g].expires > handler[h].arrived
  BY <1>3, <1>4, Facts
     DEF Live, Expired, RequestOK, LookupOK, At, StorageOK, StorageTypeOK, HasRow, Row
<1>6. "mark" \in Calls
  BY DEF Calls, LookupCalls, StoreCalls
<1>7. s \in HandlerState
  BY <1>3, <1>4, <1>5, <1>6 DEF HandlerState
<1>8. ASSUME handler'[h] = s PROVE RequestOK(h)'
  <2>1. LookupOK(h)'
    BY <1>2, <1>3, <1>4, <1>5, <1>8
       DEF HandlerState, RequestOK, LookupOK, At, LookupCalls, StoreCalls, HasPoint, HasRow
  <2>2. ServeOK(h)'
    BY <1>2, <1>3, <1>4, <1>5, <1>8 DEF HandlerState, RequestOK, ServeOK, At, ServableEntry, HasPoint, HasRow
  <2>3. WriteOK(h)'
    BY <1>2, <1>3, <1>4, <1>5, <1>8 DEF HandlerState, RequestOK, WriteOK, At
  <2> QED BY <2>1, <2>2, <2>3 DEF RequestOK
<1> QED
  BY <1>1, <1>2, <1>7, <1>8, Facts, OneRequest DEF ChooseLive

\* The policy's action becomes both the bucket and the action chosen.
LEMMA SelectBucketOK == ASSUME RPInv, NEW h \in Handler, SelectBucket(h) PROVE RPInv'
<1>1. PICK b \in Selectable :
        Become(h, [handler[h] EXCEPT !.pc = "backend", !.bucket = b, !.chosen = b])
  BY DEF SelectBucket
<1> DEFINE s == [handler[h] EXCEPT !.pc = "backend", !.bucket = b, !.chosen = b]
<1>2. StorageOK' /\ StorageGrows /\ UNCHANGED <<clock, rows, points, decisions>>
  BY QuietOK DEF SelectBucket, storageVars
<1>3. handler[h] \in HandlerState /\ RequestOK(h) /\ At(h, "select") /\ clock \in Nat
  BY Facts DEF SelectBucket
<1>4. b \in Selectable /\ b \in Int
  BY <1>1, SelectableAssumption
<1>5. "backend" \in Calls
  BY DEF Calls, LookupCalls, StoreCalls
<1>6. s \in HandlerState
  BY <1>3, <1>4, <1>5 DEF HandlerState
<1>7. ASSUME handler'[h] = s PROVE RequestOK(h)'
  <2>1. LookupOK(h)'
    BY <1>2, <1>3, <1>4, <1>7
       DEF HandlerState, RequestOK, LookupOK, At, LookupCalls, StoreCalls, HasPoint, HasRow
  <2>2. ServeOK(h)'
    BY <1>2, <1>3, <1>4, <1>7 DEF HandlerState, RequestOK, ServeOK, At
  <2>3. WriteOK(h)'
    BY <1>2, <1>3, <1>4, <1>7 DEF HandlerState, RequestOK, WriteOK, At
  <2> QED BY <2>1, <2>2, <2>3 DEF RequestOK
<1> QED
  BY <1>1, <1>2, <1>6, <1>7, Facts, OneRequest DEF SelectBucket

\* A request that is answered with what it has, from any call.
LEMMA AnswerOK ==
  ASSUME RPInv, NEW h \in Handler, handler[h].pc \in Calls,
         NEW kind \in {"forwarded", "error"}, Answer(h, kind),
         StorageOK', StorageGrows, UNCHANGED arrivals
  PROVE  RPInv'
<1> DEFINE s == [handler[h] EXCEPT !.pc = "reply", !.reply = kind]
<1>1. Become(h, s)
  BY DEF Answer
<1>2. handler[h] \in HandlerState /\ RequestOK(h) /\ clock \in Nat
  BY Facts
<1>3. handler[h].pc \notin {"idle", "reply"}
  BY DEF Calls, LookupCalls, StoreCalls
<1>4. s \in HandlerState
  BY <1>2 DEF HandlerState
<1>5. ASSUME handler'[h] = s PROVE RequestOK(h)'
  <2>1. LookupOK(h)'
    BY <1>2, <1>3, <1>5
       DEF HandlerState, RequestOK, LookupOK, At, LookupCalls, StoreCalls, StorageGrows, HasPoint
  <2>2. ServeOK(h)'
    BY <1>2, <1>3, <1>5 DEF HandlerState, RequestOK, ServeOK, At
  <2>3. WriteOK(h)'
    BY <1>2, <1>3, <1>5 DEF HandlerState, RequestOK, WriteOK, At
  <2> QED BY <2>1, <2>2, <2>3 DEF RequestOK
<1> QED
  BY <1>1, <1>4, <1>5, Facts, OneRequest

\* A cacheable request arrives with an empty context.
LEMMA ReceiveCacheable ==
  ASSUME RPInv, NEW h \in Handler, NEW f \in Fp, At(h, "idle"),
         Become(h, [handler[h] EXCEPT !.pc = "search", !.fp = f, !.arrived = clock]),
         UNCHANGED <<clock, storageVars>>, arrivals' \in Nat
  PROVE  RPInv'
<1> DEFINE s == [handler[h] EXCEPT !.pc = "search", !.fp = f, !.arrived = clock]
<1>1. StorageOK' /\ StorageGrows /\ UNCHANGED <<clock, rows, points, decisions>>
  BY QuietOK DEF storageVars
<1>2. handler[h] \in HandlerState /\ RequestOK(h) /\ StorageOK /\ clock \in Nat
  BY Facts
<1>3. "search" \in Calls
  BY DEF Calls, LookupCalls, StoreCalls
<1>4. s \in HandlerState
  BY <1>2, <1>3 DEF HandlerState
<1>5. ASSUME handler'[h] = s PROVE RequestOK(h)'
  <2>1. LookupOK(h)'
    BY <1>1, <1>2, <1>5
       DEF HandlerState, RequestOK, LookupOK, At, LookupCalls, StoreCalls, HasPoint, HasRow
  <2>2. ServeOK(h)'
    BY <1>1, <1>2, <1>5 DEF HandlerState, RequestOK, ServeOK, At
  <2>3. WriteOK(h)'
    BY <1>1, <1>2, <1>5 DEF HandlerState, RequestOK, WriteOK, At
  <2> QED BY <2>1, <2>2, <2>3 DEF RequestOK
<1> QED
  BY <1>1, <1>4, <1>5, Facts, OneRequest

\* A request that is not cacheable goes to the backend with an empty context.
LEMMA ReceiveOther ==
  ASSUME RPInv, NEW h \in Handler, At(h, "idle"),
         Become(h, [handler[h] EXCEPT !.pc = "backend", !.arrived = clock]),
         UNCHANGED <<clock, storageVars>>, arrivals' \in Nat
  PROVE  RPInv'
<1> DEFINE s == [handler[h] EXCEPT !.pc = "backend", !.arrived = clock]
<1>1. StorageOK' /\ StorageGrows /\ UNCHANGED <<clock, rows, points, decisions>>
  BY QuietOK DEF storageVars
<1>2. handler[h] \in HandlerState /\ RequestOK(h) /\ StorageOK /\ clock \in Nat
  BY Facts
<1>3. "backend" \in Calls
  BY DEF Calls, LookupCalls, StoreCalls
<1>4. s \in HandlerState
  BY <1>2, <1>3 DEF HandlerState
<1>5. ASSUME handler'[h] = s PROVE RequestOK(h)'
  <2>1. LookupOK(h)'
    BY <1>1, <1>2, <1>5
       DEF HandlerState, RequestOK, LookupOK, At, LookupCalls, StoreCalls, HasPoint, HasRow
  <2>2. ServeOK(h)'
    BY <1>1, <1>2, <1>5 DEF HandlerState, RequestOK, ServeOK, At
  <2>3. WriteOK(h)'
    BY <1>1, <1>2, <1>5 DEF HandlerState, RequestOK, WriteOK, At
  <2> QED BY <2>1, <2>2, <2>3 DEF RequestOK
<1> QED
  BY <1>1, <1>4, <1>5, Facts, OneRequest

\* The first expired candidate becomes the stale entry, with the bucket of its row.
LEMMA DiscardFirstExpired ==
  ASSUME RPInv, NEW h \in Handler, NEW g \in handler[h].cands, At(h, "check"),
         HasRow(g),
         Become(h, [handler[h] EXCEPT !.cands = @ \ {g}, !.stale = g,
                                        !.bucket = rows[g].bucket]),
         UNCHANGED <<clock, storageVars, arrivals>>
  PROVE  RPInv'
<1> DEFINE s == [handler[h] EXCEPT !.cands = @ \ {g}, !.stale = g,
                                        !.bucket = rows[g].bucket]
<1>1. StorageOK' /\ StorageGrows /\ UNCHANGED <<clock, rows, points, decisions>>
  BY QuietOK DEF storageVars
<1>2. handler[h] \in HandlerState /\ RequestOK(h) /\ StorageOK /\ clock \in Nat
  BY Facts
<1>3. g \in Fp
  BY <1>2 DEF HandlerState
<1>4. rows[g].bucket \in Int
  BY <1>2, <1>3 DEF StorageOK, StorageTypeOK, HasRow, Row, Buckets
<1>5. "check" \in Calls
  BY DEF Calls, LookupCalls, StoreCalls
<1>6. s \in HandlerState
  BY <1>2, <1>3, <1>4, <1>5 DEF HandlerState
<1>7. ASSUME handler'[h] = s PROVE RequestOK(h)'
  <2>1. LookupOK(h)'
    BY <1>1, <1>2, <1>3, <1>4, <1>7
       DEF HandlerState, RequestOK, LookupOK, At, LookupCalls, StoreCalls, HasPoint, HasRow
  <2>2. ServeOK(h)'
    BY <1>1, <1>2, <1>3, <1>4, <1>7 DEF HandlerState, RequestOK, ServeOK, At
  <2>3. WriteOK(h)'
    BY <1>1, <1>2, <1>3, <1>4, <1>7 DEF HandlerState, RequestOK, WriteOK, At
  <2> QED BY <2>1, <2>2, <2>3 DEF RequestOK
<1> QED
  BY <1>1, <1>6, <1>7, Facts, OneRequest

\* A candidate without a row, or a further expired one, leaves the candidates.
LEMMA DiscardOther ==
  ASSUME RPInv, NEW h \in Handler, NEW g \in handler[h].cands, At(h, "check"),
         Become(h, [handler[h] EXCEPT !.cands = @ \ {g}]),
         UNCHANGED <<clock, storageVars, arrivals>>
  PROVE  RPInv'
<1> DEFINE s == [handler[h] EXCEPT !.cands = @ \ {g}]
<1>1. StorageOK' /\ StorageGrows /\ UNCHANGED <<clock, rows, points, decisions>>
  BY QuietOK DEF storageVars
<1>2. handler[h] \in HandlerState /\ RequestOK(h) /\ StorageOK /\ clock \in Nat
  BY Facts
<1>3. g \in Fp
  BY <1>2 DEF HandlerState
<1>4. "check" \in Calls
  BY DEF Calls, LookupCalls, StoreCalls
<1>5. s \in HandlerState
  BY <1>2, <1>3, <1>4 DEF HandlerState
<1>6. ASSUME handler'[h] = s PROVE RequestOK(h)'
  <2>1. LookupOK(h)'
    BY <1>1, <1>2, <1>3, <1>6
       DEF HandlerState, RequestOK, LookupOK, At, LookupCalls, StoreCalls, HasPoint, HasRow
  <2>2. ServeOK(h)'
    BY <1>1, <1>2, <1>3, <1>6 DEF HandlerState, RequestOK, ServeOK, At
  <2>3. WriteOK(h)'
    BY <1>1, <1>2, <1>3, <1>6 DEF HandlerState, RequestOK, WriteOK, At
  <2> QED BY <2>1, <2>2, <2>3 DEF RequestOK
<1> QED
  BY <1>1, <1>5, <1>6, Facts, OneRequest

\* No candidate is left and one had expired: its row is still there to be logged.
LEMMA NoneButStale ==
  ASSUME RPInv, NEW h \in Handler, At(h, "check"),
         handler[h].stale # NoFp,
         Become(h, [handler[h] EXCEPT !.pc = "logStale", !.status = "STALE",
                                        !.entry = handler[h].stale]),
         UNCHANGED <<clock, storageVars, arrivals>>
  PROVE  RPInv'
<1> DEFINE s == [handler[h] EXCEPT !.pc = "logStale", !.status = "STALE",
                                        !.entry = handler[h].stale]
<1>1. StorageOK' /\ StorageGrows /\ UNCHANGED <<clock, rows, points, decisions>>
  BY QuietOK DEF storageVars
<1>2. handler[h] \in HandlerState /\ RequestOK(h) /\ StorageOK /\ clock \in Nat
  BY Facts
<1>3. "logStale" \in Calls
  BY DEF Calls, LookupCalls, StoreCalls
<1>4. s \in HandlerState
  BY <1>2, <1>3 DEF HandlerState
<1>5. ASSUME handler'[h] = s PROVE RequestOK(h)'
  <2>1. LookupOK(h)'
    BY <1>1, <1>2, <1>5
       DEF HandlerState, RequestOK, LookupOK, At, LookupCalls, StoreCalls, HasPoint, HasRow
  <2>2. ServeOK(h)'
    BY <1>1, <1>2, <1>5 DEF HandlerState, RequestOK, ServeOK, At, LookupOK, HasRow
  <2>3. WriteOK(h)'
    BY <1>1, <1>2, <1>5 DEF HandlerState, RequestOK, WriteOK, At
  <2> QED BY <2>1, <2>2, <2>3 DEF RequestOK
<1> QED
  BY <1>1, <1>4, <1>5, Facts, OneRequest

\* No candidate is left and none had expired: the policy is asked.
LEMMA NoneAtAll ==
  ASSUME RPInv, NEW h \in Handler, At(h, "check"),
         Become(h, [handler[h] EXCEPT !.pc = "select"]),
         UNCHANGED <<clock, storageVars, arrivals>>
  PROVE  RPInv'
<1> DEFINE s == [handler[h] EXCEPT !.pc = "select"]
<1>1. StorageOK' /\ StorageGrows /\ UNCHANGED <<clock, rows, points, decisions>>
  BY QuietOK DEF storageVars
<1>2. handler[h] \in HandlerState /\ RequestOK(h) /\ StorageOK /\ clock \in Nat
  BY Facts
<1>3. "select" \in Calls
  BY DEF Calls, LookupCalls, StoreCalls
<1>4. s \in HandlerState
  BY <1>2, <1>3 DEF HandlerState
<1>5. ASSUME handler'[h] = s PROVE RequestOK(h)'
  <2>1. LookupOK(h)'
    BY <1>1, <1>2, <1>5
       DEF HandlerState, RequestOK, LookupOK, At, LookupCalls, StoreCalls, HasPoint, HasRow
  <2>2. ServeOK(h)'
    BY <1>1, <1>2, <1>5 DEF HandlerState, RequestOK, ServeOK, At
  <2>3. WriteOK(h)'
    BY <1>1, <1>2, <1>5 DEF HandlerState, RequestOK, WriteOK, At
  <2> QED BY <2>1, <2>2, <2>3 DEF RequestOK
<1> QED
  BY <1>1, <1>4, <1>5, Facts, OneRequest

\* The second read finds the row the request chose.
LEMMA RereadFound ==
  ASSUME RPInv, NEW h \in Handler, NEW b \in Int, NEW e \in Nat, At(h, "reread"),
         Become(h, [handler[h] EXCEPT !.pc = "logHit", !.status = "HIT",
                                        !.bucket = b, !.expires = e]),
         UNCHANGED <<clock, storageVars, arrivals>>
  PROVE  RPInv'
<1> DEFINE s == [handler[h] EXCEPT !.pc = "logHit", !.status = "HIT",
                                        !.bucket = b, !.expires = e]
<1>1. StorageOK' /\ StorageGrows /\ UNCHANGED <<clock, rows, points, decisions>>
  BY QuietOK DEF storageVars
<1>2. handler[h] \in HandlerState /\ RequestOK(h) /\ StorageOK /\ clock \in Nat
  BY Facts
<1>3. "logHit" \in Calls
  BY DEF Calls, LookupCalls, StoreCalls
<1>4. s \in HandlerState
  BY <1>2, <1>3 DEF HandlerState
<1>5. ASSUME handler'[h] = s PROVE RequestOK(h)'
  <2>1. LookupOK(h)'
    BY <1>1, <1>2, <1>5
       DEF HandlerState, RequestOK, LookupOK, At, LookupCalls, StoreCalls, HasPoint, HasRow
  <2>2. ServeOK(h)'
    BY <1>1, <1>2, <1>5 DEF HandlerState, RequestOK, ServeOK, At, ServableEntry, HasPoint, HasRow
  <2>3. WriteOK(h)'
    BY <1>1, <1>2, <1>5 DEF HandlerState, RequestOK, WriteOK, At
  <2> QED BY <2>1, <2>2, <2>3 DEF RequestOK
<1> QED
  BY <1>1, <1>4, <1>5, Facts, OneRequest

\* The backend has answered a cacheable request.
LEMMA StoreBegins ==
  ASSUME RPInv, NEW h \in Handler, At(h, "backend"),
         handler[h].fp # NoFp,
         Become(h, [handler[h] EXCEPT !.pc = "stamp"]),
         UNCHANGED <<clock, storageVars, arrivals>>
  PROVE  RPInv'
<1> DEFINE s == [handler[h] EXCEPT !.pc = "stamp"]
<1>1. StorageOK' /\ StorageGrows /\ UNCHANGED <<clock, rows, points, decisions>>
  BY QuietOK DEF storageVars
<1>2. handler[h] \in HandlerState /\ RequestOK(h) /\ StorageOK /\ clock \in Nat
  BY Facts
<1>3. "stamp" \in Calls
  BY DEF Calls, LookupCalls, StoreCalls
<1>4. s \in HandlerState
  BY <1>2, <1>3 DEF HandlerState
<1>5. ASSUME handler'[h] = s PROVE RequestOK(h)'
  <2>1. LookupOK(h)'
    BY <1>1, <1>2, <1>5
       DEF HandlerState, RequestOK, LookupOK, At, LookupCalls, StoreCalls, HasPoint, HasRow
  <2>2. ServeOK(h)'
    BY <1>1, <1>2, <1>5 DEF HandlerState, RequestOK, ServeOK, At
  <2>3. WriteOK(h)'
    BY <1>1, <1>2, <1>5 DEF HandlerState, RequestOK, WriteOK, At
  <2> QED BY <2>1, <2>2, <2>3 DEF RequestOK
<1> QED
  BY <1>1, <1>4, <1>5, Facts, OneRequest

\* A valid bucket gives the new entry its lifetime.
LEMMA Stamped ==
  ASSUME RPInv, NEW h \in Handler, NEW e \in Nat, At(h, "stamp"),
         handler[h].bucket \in Buckets,
         Become(h, [handler[h] EXCEPT !.pc = "insert", !.created = clock, !.expires = e]),
         UNCHANGED <<clock, storageVars, arrivals>>
  PROVE  RPInv'
<1> DEFINE s == [handler[h] EXCEPT !.pc = "insert", !.created = clock, !.expires = e]
<1>1. StorageOK' /\ StorageGrows /\ UNCHANGED <<clock, rows, points, decisions>>
  BY QuietOK DEF storageVars
<1>2. handler[h] \in HandlerState /\ RequestOK(h) /\ StorageOK /\ clock \in Nat
  BY Facts
<1>3. "insert" \in Calls
  BY DEF Calls, LookupCalls, StoreCalls
<1>4. s \in HandlerState
  BY <1>2, <1>3 DEF HandlerState
<1>5. ASSUME handler'[h] = s PROVE RequestOK(h)'
  <2>1. LookupOK(h)'
    BY <1>1, <1>2, <1>5
       DEF HandlerState, RequestOK, LookupOK, At, LookupCalls, StoreCalls, HasPoint, HasRow
  <2>2. ServeOK(h)'
    BY <1>1, <1>2, <1>5 DEF HandlerState, RequestOK, ServeOK, At
  <2>3. WriteOK(h)'
    BY <1>1, <1>2, <1>5 DEF HandlerState, RequestOK, WriteOK, At
  <2> QED BY <2>1, <2>2, <2>3 DEF RequestOK
<1> QED
  BY <1>1, <1>4, <1>5, Facts, OneRequest

\* The row read back is the one the request inserted.
LEMMA ReloadFound ==
  ASSUME RPInv, NEW h \in Handler, At(h, "reload"),
         Become(h, [handler[h] EXCEPT !.pc = "decide", !.entry = handler[h].fp,
                                        !.bucket = rows[handler[h].fp].bucket]),
         UNCHANGED <<clock, storageVars, arrivals>>
  PROVE  RPInv'
<1> DEFINE s == [handler[h] EXCEPT !.pc = "decide", !.entry = handler[h].fp,
                                        !.bucket = rows[handler[h].fp].bucket]
<1>1. StorageOK' /\ StorageGrows /\ UNCHANGED <<clock, rows, points, decisions>>
  BY QuietOK DEF storageVars
<1>2. handler[h] \in HandlerState /\ RequestOK(h) /\ StorageOK /\ clock \in Nat
  BY Facts
<1>3. OwnRow(h) /\ HasPoint(handler[h].fp)
  BY <1>2 DEF RequestOK, WriteOK, At
<1>4. /\ handler[h].fp \in Fp
      /\ rows[handler[h].fp].bucket = handler[h].bucket
  BY <1>3 DEF OwnRow
<1>5. handler[h].bucket \in Int
  BY <1>2 DEF HandlerState
<1>6. "decide" \in Calls
  BY DEF Calls, LookupCalls, StoreCalls
<1>7. s \in HandlerState
  BY <1>2, <1>3, <1>4, <1>5, <1>6 DEF HandlerState
<1>8. ASSUME handler'[h] = s PROVE RequestOK(h)'
  <2>1. LookupOK(h)'
    BY <1>1, <1>2, <1>3, <1>4, <1>5, <1>8
       DEF HandlerState, RequestOK, LookupOK, At, LookupCalls, StoreCalls, HasPoint, HasRow
  <2>2. ServeOK(h)'
    BY <1>1, <1>2, <1>3, <1>4, <1>5, <1>8 DEF HandlerState, RequestOK, ServeOK, At
  <2>3. WriteOK(h)'
    BY <1>1, <1>2, <1>3, <1>4, <1>5, <1>8 DEF HandlerState, RequestOK, WriteOK, At, OwnRow, HasPoint, HasRow
  <2> QED BY <2>1, <2>2, <2>3 DEF RequestOK
<1> QED
  BY <1>1, <1>7, <1>8, Facts, OneRequest

\* A row inserted where none was is the request's own row.
LEMMA Inserted ==
  ASSUME RPInv, NEW h \in Handler, At(h, "insert"),
         NEW f, f = handler[h].fp, CanInsert(f), InsertNow(h),
         Become(h, [handler[h] EXCEPT !.pc = "upsert"]),
         UNCHANGED <<clock, points, decisions, feedback, arrivals>>
  PROVE  RPInv'
<1> DEFINE s == [handler[h] EXCEPT !.pc = "upsert"]
<1>1. /\ handler[h].fp \in Fp /\ handler[h].bucket \in Buckets
      /\ handler[h].created \in Nat /\ handler[h].expires \in Nat
  BY Facts DEF RequestOK, LookupOK, WriteOK, At, StoreCalls
<1>2. /\ StorageOK' /\ StorageGrows /\ HasRow(f)'
      /\ rows'[f] = [bucket |-> handler[h].bucket, created |-> handler[h].created,
                                  expires |-> handler[h].expires, hits |-> 0]
  <2>1. InsertEntry(f, handler[h].bucket, handler[h].created, handler[h].expires)
    BY DEF InsertNow
  <2>2. StorageOK' /\ StorageGrows /\ HasRow(f)'
    BY <1>1, <2>1, Facts, InsertOK
  <2>3. rows \in [Fp -> Row \cup {NoRow}]
    BY Facts DEF StorageOK, StorageTypeOK
  <2> QED
    BY <1>1, <2>1, <2>2, <2>3 DEF InsertEntry
<1>3. handler[h] \in HandlerState /\ RequestOK(h) /\ StorageOK /\ clock \in Nat
  BY Facts
<1>4. "upsert" \in Calls
  BY DEF Calls, LookupCalls, StoreCalls
<1>5. s \in HandlerState
  BY <1>3, <1>4 DEF HandlerState
<1>6. ASSUME handler'[h] = s PROVE RequestOK(h)'
  <2>1. LookupOK(h)'
    BY <1>2, <1>3, <1>6, <1>1
       DEF HandlerState, RequestOK, LookupOK, At, LookupCalls, StoreCalls, HasPoint, HasRow, StorageGrows
  <2>2. ServeOK(h)'
    BY <1>2, <1>3, <1>6, <1>1 DEF HandlerState, RequestOK, ServeOK, At, StorageGrows
  <2>3. WriteOK(h)'
    BY <1>2, <1>3, <1>6, <1>1 DEF HandlerState, RequestOK, WriteOK, At, OwnRow, StorageGrows
  <2> QED BY <2>1, <2>2, <2>3 DEF RequestOK
<1> QED
  BY <1>2, <1>5, <1>6, Facts, OneRequest

\* The point of the request's own row carries the expiry of that row.
LEMMA Upserted ==
  ASSUME RPInv, NEW h \in Handler, At(h, "upsert"),
         NEW f, f = handler[h].fp, UpsertPoint(f, handler[h].expires),
         Become(h, [handler[h] EXCEPT !.pc = "reload"]),
         UNCHANGED <<clock, rows, decisions, feedback, arrivals>>
  PROVE  RPInv'
<1> DEFINE s == [handler[h] EXCEPT !.pc = "reload"]
<1>1. OwnRow(h)
  BY Facts DEF RequestOK, WriteOK, At
<1>2. StorageOK' /\ StorageGrows /\ HasPoint(f)'
  BY <1>1, Facts, UpsertOK DEF OwnRow, UpsertPoint
<1>3. handler[h] \in HandlerState /\ RequestOK(h) /\ StorageOK /\ clock \in Nat
  BY Facts
<1>4. "reload" \in Calls
  BY DEF Calls, LookupCalls, StoreCalls
<1>5. s \in HandlerState
  BY <1>3, <1>4 DEF HandlerState
<1>6. ASSUME handler'[h] = s PROVE RequestOK(h)'
  <2>1. LookupOK(h)'
    BY <1>2, <1>3, <1>6, <1>1
       DEF HandlerState, RequestOK, LookupOK, At, LookupCalls, StoreCalls, HasPoint, HasRow, StorageGrows
  <2>2. ServeOK(h)'
    BY <1>2, <1>3, <1>6, <1>1 DEF HandlerState, RequestOK, ServeOK, At, StorageGrows
  <2>3. WriteOK(h)'
    BY <1>2, <1>3, <1>6, <1>1 DEF HandlerState, RequestOK, WriteOK, At, OwnRow, HasPoint, StorageGrows
  <2> QED BY <2>1, <2>2, <2>3 DEF RequestOK
<1> QED
  BY <1>2, <1>5, <1>6, Facts, OneRequest

\* The decision logged names the bucket of the request's own row.
LEMMA DecisionLogged ==
  ASSUME RPInv, NEW h \in Handler, At(h, "decide"),
         NEW f, f = handler[h].fp, InsertDecisionNow(h),
         Become(h, [handler[h] EXCEPT !.pc = "reply", !.reply = "forwarded", !.stored = TRUE]),
         UNCHANGED <<clock, rows, points, feedback, arrivals>>
  PROVE  RPInv'
<1> DEFINE s == [handler[h] EXCEPT !.pc = "reply", !.reply = "forwarded", !.stored = TRUE]
<1>1. /\ OwnRow(h) /\ HasPoint(handler[h].fp)
      /\ handler[h].chosen \in {handler[h].bucket, NoBucket}
  BY Facts DEF RequestOK, LookupOK, WriteOK, At
<1>2. StorageOK' /\ StorageGrows /\ HasDecision(f)'
  BY <1>1, Facts, DecisionOK DEF OwnRow, InsertDecisionNow, InsertDecision
<1>3. handler[h] \in HandlerState /\ RequestOK(h) /\ StorageOK /\ clock \in Nat
  BY Facts
<1>4. s \in HandlerState
  BY <1>3 DEF HandlerState
<1>5. ASSUME handler'[h] = s PROVE RequestOK(h)'
  <2>1. LookupOK(h)'
    BY <1>2, <1>3, <1>5, <1>1
       DEF HandlerState, RequestOK, LookupOK, At, LookupCalls, StoreCalls, HasPoint, HasRow, StorageGrows
  <2>2. ServeOK(h)'
    BY <1>2, <1>3, <1>5, <1>1 DEF HandlerState, RequestOK, ServeOK, At, StorageGrows
  <2>3. WriteOK(h)'
    BY <1>2, <1>3, <1>5, <1>1 DEF HandlerState, RequestOK, WriteOK, At, OwnRow, HasPoint, StorageGrows
  <2> QED BY <2>1, <2>2, <2>3 DEF RequestOK
<1> QED
  BY <1>2, <1>4, <1>5, Facts, OneRequest

\* The counter of the entry moves; the entry stays servable.
LEMMA HitRecorded ==
  ASSUME RPInv, NEW h \in Handler, At(h, "mark"),
         MarkHit(handler[h].entry),
         Become(h, [handler[h] EXCEPT !.pc = "reread"]),
         UNCHANGED <<clock, points, decisions, feedback, arrivals>>
  PROVE  RPInv'
<1> DEFINE s == [handler[h] EXCEPT !.pc = "reread"]
<1>1. ServableEntry(h)
  BY Facts DEF RequestOK, ServeOK, At
<1>2. StorageOK' /\ StorageGrows
  BY <1>1, Facts, MarkHitOK DEF ServableEntry
<1>3. handler[h] \in HandlerState /\ RequestOK(h) /\ StorageOK /\ clock \in Nat
  BY Facts
<1>4. "reread" \in Calls
  BY DEF Calls, LookupCalls, StoreCalls
<1>5. s \in HandlerState
  BY <1>3, <1>4 DEF HandlerState
<1>6. ASSUME handler'[h] = s PROVE RequestOK(h)'
  <2>1. LookupOK(h)'
    BY <1>2, <1>3, <1>6, <1>1
       DEF HandlerState, RequestOK, LookupOK, At, LookupCalls, StoreCalls, HasPoint, HasRow, StorageGrows
  <2>2. ServeOK(h)'
    BY <1>2, <1>3, <1>6, <1>1 DEF HandlerState, RequestOK, ServeOK, At, ServableEntry, HasPoint, StorageGrows
  <2>3. WriteOK(h)'
    BY <1>2, <1>3, <1>6, <1>1 DEF HandlerState, RequestOK, WriteOK, At, StorageGrows
  <2> QED BY <2>1, <2>2, <2>3 DEF RequestOK
<1> QED
  BY <1>2, <1>5, <1>6, Facts, OneRequest

\* insert_feedback_event, of either type.
LEMMA FeedbackOK ==
  ASSUME StorageOK, NEW g \in Fp, InsertHitServed(g) \/ InsertStaleHit(g),
         UNCHANGED <<clock, rows, points, decisions>>
  PROVE  StorageOK' /\ StorageGrows
<1>1. feedback[g] \in [hit : Nat, stale : Nat]
  BY DEF StorageOK, StorageTypeOK
<1>2. feedback' \in [Fp -> [hit : Nat, stale : Nat]]
  BY <1>1 DEF InsertHitServed, InsertStaleHit, StorageOK, StorageTypeOK
<1> QED
  BY <1>2, NoWriteOK DEF StorageOK, StorageTypeOK

\* The serving event is logged and the entry leaves as the reply.
LEMMA HitServed ==
  ASSUME RPInv, NEW h \in Handler, At(h, "logHit"),
         InsertHitServed(handler[h].entry),
         Become(h, [handler[h] EXCEPT !.pc = "reply", !.reply = "cached"]),
         UNCHANGED <<clock, rows, points, decisions, arrivals>>
  PROVE  RPInv'
<1> DEFINE s == [handler[h] EXCEPT !.pc = "reply", !.reply = "cached"]
<1>1. handler[h].entry \in Fp
  BY Facts DEF RequestOK, ServeOK, ServableEntry, At
<1>2. StorageOK' /\ StorageGrows
  BY <1>1, Facts, FeedbackOK
<1>3. handler[h] \in HandlerState /\ RequestOK(h) /\ StorageOK /\ clock \in Nat
  BY Facts
<1>4. s \in HandlerState
  BY <1>3 DEF HandlerState
<1>5. ASSUME handler'[h] = s PROVE RequestOK(h)'
  <2>1. LookupOK(h)'
    BY <1>2, <1>3, <1>5, <1>1
       DEF HandlerState, RequestOK, LookupOK, At, LookupCalls, StoreCalls, HasPoint, HasRow, StorageGrows
  <2>2. ServeOK(h)'
    BY <1>2, <1>3, <1>5, <1>1 DEF HandlerState, RequestOK, ServeOK, At, ServableEntry, HasPoint, StorageGrows
  <2>3. WriteOK(h)'
    BY <1>2, <1>3, <1>5, <1>1 DEF HandlerState, RequestOK, WriteOK, At, StorageGrows
  <2> QED BY <2>1, <2>2, <2>3 DEF RequestOK
<1> QED
  BY <1>2, <1>4, <1>5, Facts, OneRequest

\* The stale event is logged and the request goes to the backend.
LEMMA StaleHitLogged ==
  ASSUME RPInv, NEW h \in Handler, At(h, "logStale"),
         InsertStaleHit(handler[h].entry),
         Become(h, [handler[h] EXCEPT !.pc = "backend"]),
         UNCHANGED <<clock, rows, points, decisions, arrivals>>
  PROVE  RPInv'
<1> DEFINE s == [handler[h] EXCEPT !.pc = "backend"]
<1>1. handler[h].entry \in Fp
  BY Facts DEF RequestOK, ServeOK, ServableEntry, At
<1>2. StorageOK' /\ StorageGrows
  BY <1>1, Facts, FeedbackOK
<1>3. handler[h] \in HandlerState /\ RequestOK(h) /\ StorageOK /\ clock \in Nat
  BY Facts
<1>4. "backend" \in Calls
  BY DEF Calls, LookupCalls, StoreCalls
<1>5. s \in HandlerState
  BY <1>3, <1>4 DEF HandlerState
<1>6. ASSUME handler'[h] = s PROVE RequestOK(h)'
  <2>1. LookupOK(h)'
    BY <1>2, <1>3, <1>6, <1>1
       DEF HandlerState, RequestOK, LookupOK, At, LookupCalls, StoreCalls, HasPoint, HasRow, StorageGrows
  <2>2. ServeOK(h)'
    BY <1>2, <1>3, <1>6, <1>1 DEF HandlerState, RequestOK, ServeOK, At, StorageGrows
  <2>3. WriteOK(h)'
    BY <1>2, <1>3, <1>6, <1>1 DEF HandlerState, RequestOK, WriteOK, At, StorageGrows
  <2> QED BY <2>1, <2>2, <2>3 DEF RequestOK
<1> QED
  BY <1>2, <1>5, <1>6, Facts, OneRequest

\* A thread that has replied is idle again.
LEMMA Responded ==
  ASSUME RPInv, NEW h \in Handler, Respond(h)
  PROVE  RPInv'
<1>1. StorageOK' /\ StorageGrows
  BY QuietOK DEF Respond
<1>2. Idle \in HandlerState
  BY DEF HandlerState, Idle, NoBucket
<1>3. ASSUME handler'[h] = Idle PROVE RequestOK(h)'
  BY <1>3 DEF Idle, RequestOK, LookupOK, ServeOK, WriteOK, At, LookupCalls, StoreCalls
<1> QED
  BY <1>1, <1>2, <1>3, Facts, OneRequest DEF Respond

-----------------------------------------------------------------------------
(* Every action.                                                             *)

\* Receive, from its two cases.
LEMMA ReceiveOK == ASSUME RPInv, NEW h \in Handler, Receive(h) PROVE RPInv'
<1>1. arrivals \in Nat /\ arrivals' = arrivals + 1
  BY Facts DEF Receive
<1>2. arrivals' \in Nat
  BY <1>1
<1> QED
  BY <1>2, ReceiveCacheable, ReceiveOther DEF Receive

\* Discard, from its two cases.
LEMMA DiscardOK == ASSUME RPInv, NEW h \in Handler, Discard(h) PROVE RPInv'
  BY DiscardFirstExpired, DiscardOther DEF Discard, Best

\* NoLiveCandidate, from its two cases.
LEMMA NoLiveCandidateOK == ASSUME RPInv, NEW h \in Handler, NoLiveCandidate(h) PROVE RPInv'
  BY NoneButStale, NoneAtAll DEF NoLiveCandidate, Goto

\* Reread: the row is there, for no row ever goes.
LEMMA RereadOK == ASSUME RPInv, NEW h \in Handler, Reread(h) PROVE RPInv'
<1> DEFINE g == handler[h].entry
<1>1. g \in Fp /\ HasRow(g)
  BY Facts DEF Reread, RequestOK, ServeOK, ServableEntry, At
<1>2. rows[g].bucket \in Int /\ rows[g].expires \in Nat
  BY <1>1, Facts DEF StorageOK, StorageTypeOK, HasRow, Row, Buckets
<1>3. Become(h, [handler[h] EXCEPT !.pc = "logHit", !.status = "HIT",
                                   !.bucket = rows[g].bucket, !.expires = rows[g].expires])
  BY <1>1 DEF Reread
<1> HIDE DEF g
<1> QED
  BY <1>2, <1>3, RereadFound DEF Reread

\* BackendAnswers: stored, or only forwarded.
LEMMA BackendAnswersOK == ASSUME RPInv, NEW h \in Handler, BackendAnswers(h) PROVE RPInv'
<1>1. StorageOK' /\ StorageGrows
  BY QuietOK DEF BackendAnswers
<1>2. At(h, "backend") => handler[h].pc \in Calls
  BY DEF At, Calls
<1> QED
  BY <1>1, <1>2, StoreBegins, AnswerOK DEF BackendAnswers, Goto

\* Stamp: a valid bucket, or an answer without an entry.
LEMMA StampOK == ASSUME RPInv, NEW h \in Handler, Stamp(h) PROVE RPInv'
<1>1. StorageOK' /\ StorageGrows
  BY QuietOK DEF Stamp
<1>2. At(h, "stamp") /\ handler[h].pc \in Calls
  BY DEF Stamp, At, Calls, StoreCalls
<1>3. CASE handler[h].bucket \in Buckets
  <2> DEFINE e == clock + TTL[handler[h].bucket]
  <2>1. e \in Nat
    BY <1>3, Facts, TTLAssumption
  <2>2. Become(h, [handler[h] EXCEPT !.pc = "insert", !.created = clock, !.expires = e])
    BY <1>3 DEF Stamp
  <2> HIDE DEF e
  <2> QED
    BY <1>2, <1>3, <2>1, <2>2, Stamped DEF Stamp
<1>4. CASE handler[h].bucket \notin Buckets
  BY <1>1, <1>2, <1>4, AnswerOK DEF Stamp
<1> QED
  BY <1>3, <1>4

\* Insert: the new row, or the conflict that is swallowed.
LEMMA InsertStepOK == ASSUME RPInv, NEW h \in Handler, Insert(h) PROVE RPInv'
<1>1. CASE CanInsert(handler[h].fp)
  BY <1>1, Inserted DEF Insert, Goto
<1>2. CASE ~CanInsert(handler[h].fp)
  <2>1. StorageOK' /\ StorageGrows
    BY <1>2, QuietOK DEF Insert, storageVars
  <2>2. handler[h].pc \in Calls
    BY DEF Insert, At, Calls, StoreCalls
  <2> QED
    BY <1>2, <2>1, <2>2, AnswerOK DEF Insert
<1> QED
  BY <1>1, <1>2

\* Reload: the row is there, for the request inserted it.
LEMMA ReloadOK == ASSUME RPInv, NEW h \in Handler, Reload(h) PROVE RPInv'
<1>1. HasRow(handler[h].fp)
  BY Facts DEF Reload, RequestOK, WriteOK, OwnRow, At
<1> QED
  BY <1>1, ReloadFound DEF Reload

\* The actions that write for store and the decision log.
LEMMA StoreStatementsOK ==
  ASSUME RPInv, NEW h \in Handler, Upsert(h) \/ LogDecision(h)
  PROVE  RPInv'
  BY Upserted, DecisionLogged DEF Upsert, LogDecision, Goto

\* The actions that write while a cached entry is served.
LEMMA ServeStatementsOK ==
  ASSUME RPInv, NEW h \in Handler, RecordHit(h) \/ ServeHit(h) \/ LogStaleHit(h)
  PROVE  RPInv'
  BY HitRecorded, HitServed, StaleHitLogged DEF RecordHit, ServeHit, LogStaleHit, Goto

\* The statement a failing call sent leaves the stores as the successful one would.
LEMMA EffectOK ==
  ASSUME RPInv, NEW h \in Handler, Effect(h), UNCHANGED clock
  PROVE  StorageOK' /\ StorageGrows
<1>1. CASE At(h, "mark")
  BY <1>1, Facts, MarkHitOK DEF Effect, RequestOK, ServeOK, ServableEntry, At
<1>2. CASE At(h, "logHit") \/ At(h, "logStale")
  BY <1>2, Facts, FeedbackOK DEF Effect, RequestOK, ServeOK, ServableEntry, At
<1>3. CASE At(h, "insert")
  BY <1>3, Facts, InsertOK DEF Effect, InsertNow, RequestOK, LookupOK, WriteOK, At, StoreCalls
<1>4. CASE At(h, "upsert")
  BY <1>4, Facts, UpsertOK DEF Effect, RequestOK, WriteOK, OwnRow, At
<1>5. CASE At(h, "decide")
  BY <1>5, Facts, DecisionOK
     DEF Effect, InsertDecisionNow, RequestOK, LookupOK, WriteOK, OwnRow, At
<1> QED
  BY <1>1, <1>2, <1>3, <1>4, <1>5 DEF Effect

\* A failing call, with the effect of its statement or without.
LEMMA FailOK == ASSUME RPInv, NEW h \in Handler, Fail(h) PROVE RPInv'
<1>1. handler[h].pc \in Calls
  BY FaultsAssumption, Facts DEF Fail, HandlerState, Calls, LookupCalls, StoreCalls
<1>2. StorageOK' /\ StorageGrows
  BY QuietOK, EffectOK DEF Fail
<1> QED
  BY <1>1, <1>2, AnswerOK DEF Fail

\* Time passes: nothing the invariant says depends on now but arrivals in the past.
LEMMA TickOK == ASSUME RPInv, Tick, UNCHANGED requestVars PROVE RPInv'
<1>1. StorageOK' /\ StorageGrows
  <2>1. clock' = clock + 1 /\ UNCHANGED <<rows, points, decisions, feedback>>
    BY DEF Tick, storageVars
  <2>2. StorageOK /\ clock \in Nat /\ feedback \in [Fp -> [hit : Nat, stale : Nat]]
    BY DEF RPInv, RPTypeOK, StorageOK, StorageTypeOK
  <2> QED
    BY <2>1, <2>2, NoWriteOK
<1>2. handler' = handler /\ arrivals' = arrivals
  BY DEF requestVars
<1>3. \A h \in Handler : RequestOK(h)'
  BY <1>1, <1>2, Facts, Undisturbed
<1> QED
  BY <1>1, <1>2, <1>3 DEF RPInv, RPTypeOK, StorageOK, RequestOK

\* A crash forgets the requests and leaves the stores.
LEMMA CrashOK == ASSUME RPInv, Crash PROVE RPInv'
<1>1. StorageOK' /\ StorageGrows
  BY QuietOK DEF Crash
<1>2. handler' = [h \in Handler |-> Idle] /\ arrivals' = arrivals
  BY DEF Crash
<1>3. Idle \in HandlerState
  BY DEF HandlerState, Idle, NoBucket
<1>4. \A h \in Handler : RequestOK(h)'
  BY <1>2 DEF Idle, RequestOK, LookupOK, ServeOK, WriteOK, At, LookupCalls, StoreCalls
<1> QED
  BY <1>1, <1>2, <1>3, <1>4 DEF RPInv, RPTypeOK, StorageOK, RequestOK

\* Nothing changes.
LEMMA StutterOK == ASSUME RPInv, UNCHANGED rpVars PROVE RPInv'
<1>1. StorageOK' /\ StorageGrows
  BY QuietOK DEF rpVars
<1>2. handler' = handler /\ arrivals' = arrivals
  BY DEF rpVars, requestVars
<1>3. \A h \in Handler : RequestOK(h)'
  BY <1>1, <1>2, Facts, Undisturbed
<1> QED
  BY <1>1, <1>2, <1>3 DEF RPInv, RPTypeOK, StorageOK, RequestOK

\* Every step, of a request or not, keeps the inductive invariant.
THEOREM RPInvStep == RPInv /\ [RPNext]_rpVars => RPInv'
<1> SUFFICES ASSUME RPInv, [RPNext]_rpVars PROVE RPInv'
  OBVIOUS
<1>1. CASE Tick /\ UNCHANGED requestVars
  BY <1>1, TickOK
<1>2. CASE \E h \in Handler : Receive(h) \/ HandlerStep(h) \/ Fail(h)
  <2> PICK h \in Handler : Receive(h) \/ HandlerStep(h) \/ Fail(h)
    BY <1>2
  <2>1. CASE \/ Receive(h) \/ VectorSearch(h) \/ Discard(h) \/ ChooseLive(h)
             \/ Reread(h) \/ NoLiveCandidate(h) \/ SelectBucket(h)
    BY <2>1, ReceiveOK, VectorSearchOK, DiscardOK, ChooseLiveOK, RereadOK,
       NoLiveCandidateOK, SelectBucketOK
  <2>2. CASE RecordHit(h) \/ ServeHit(h) \/ LogStaleHit(h)
    BY <2>2, ServeStatementsOK
  <2>3. CASE \/ BackendAnswers(h) \/ Stamp(h) \/ Insert(h) \/ Reload(h)
             \/ Upsert(h) \/ LogDecision(h)
    BY <2>3, BackendAnswersOK, StampOK, InsertStepOK, ReloadOK, StoreStatementsOK
  <2>4. CASE Respond(h) \/ Fail(h)
    BY <2>4, Responded, FailOK
  <2> QED
    BY <2>1, <2>2, <2>3, <2>4 DEF HandlerStep
<1>3. CASE Crash
  BY <1>3, CrashOK
<1>4. CASE UNCHANGED rpVars
  BY <1>4, StutterOK
<1> QED
  BY <1>1, <1>2, <1>3, <1>4 DEF RPNext

-----------------------------------------------------------------------------
(* The theorems.                                                             *)

\* The stores and the locals of the requests keep their types, the stores agree
\* with each other, and every request in flight knows what its next call needs.
THEOREM RPInvariant == RPSpec => []RPInv
<1>1. RPInit => RPInv
  BY InitOK
<1>2. RPInv /\ [RPNext]_rpVars => RPInv'
  BY RPInvStep
<1> QED
  BY <1>1, <1>2, PTL DEF RPSpec

\* Type correctness of every variable.
THEOREM TypeCorrect == RPSpec => []RPTypeOK
<1>1. RPInv => RPTypeOK
  BY DEF RPInv
<1> QED
  BY <1>1, RPInvariant, PTL

\* No crash, failure or race leaves a vector whose row is missing or differs.
THEOREM PointsMatchRows == RPSpec => []PointMatchesRow
<1>1. RPInv => PointMatchesRow
  BY DEF RPInv
<1> QED
  BY <1>1, RPInvariant, PTL

\* What is logged for off-policy learning is what was decided and stored.
THEOREM DecisionsMatchEntries == RPSpec => []DecisionMatchesEntry
<1>1. RPInv => DecisionMatchesEntry
  BY DEF RPInv
<1> QED
  BY <1>1, RPInvariant, PTL

\* No response from the cache was already expired when its request arrived.
THEOREM ServedHitsWereLive == RPSpec => []ServedHitWasLive
<1>1. RPInv => ServedHitWasLive
  BY DEF RPInv, ServedHitWasLive, ServeOK, ServableEntry
<1> QED
  BY <1>1, RPInvariant, PTL

\* A response reported as stored is in the table, in the index and in the log.
THEOREM StoredResponsesAreRetrievable == RPSpec => []StoredMeansRetrievable
<1>1. RPInv => StoredMeansRetrievable
  BY DEF RPInv, StoredMeansRetrievable, WriteOK, OwnRow
<1> QED
  BY <1>1, RPInvariant, PTL

-----------------------------------------------------------------------------
(* What a step may do to a row that is there.                                *)

\* The rows change by a counted hit of an entry that has one, by the insertion
\* of a row where none was, or not at all.
LEMMA RowsChange ==
  ASSUME RPInv, [RPNext]_rpVars
  PROVE  \/ rows' = rows
         \/ \E g \in Fp : HasRow(g) /\ MarkHit(g)
         \/ \E f \in Fp : \E b \in Buckets, c \in Nat, e \in Nat :
              CanInsert(f) /\ InsertEntry(f, b, c, e)
<1> DEFINE Goal == \/ rows' = rows
                   \/ \E g \in Fp : HasRow(g) /\ MarkHit(g)
                   \/ \E f \in Fp : \E b \in Buckets, c \in Nat, e \in Nat :
                        CanInsert(f) /\ InsertEntry(f, b, c, e)
<1>1. ASSUME NEW h \in Handler, At(h, "mark"), MarkHit(handler[h].entry) PROVE Goal
  BY <1>1, Facts DEF RequestOK, ServeOK, ServableEntry, At
<1>2. ASSUME NEW h \in Handler, At(h, "insert"), CanInsert(handler[h].fp), InsertNow(h)
      PROVE Goal
  <2>1. /\ handler[h].fp \in Fp /\ handler[h].bucket \in Buckets
        /\ handler[h].created \in Nat /\ handler[h].expires \in Nat
    BY <1>2, Facts DEF RequestOK, LookupOK, WriteOK, At, StoreCalls
  <2> QED
    BY <1>2, <2>1 DEF InsertNow
<1>3. ASSUME NEW h \in Handler, Receive(h) \/ HandlerStep(h) \/ Fail(h) PROVE Goal
  <2>1. CASE Fail(h)
    <3>1. CASE UNCHANGED storageVars
      BY <3>1 DEF storageVars
    <3>2. CASE Effect(h)
      BY <3>2, <1>1, <1>2 DEF Effect
    <3> QED
      BY <2>1, <3>1, <3>2 DEF Fail
  <2>2. CASE RecordHit(h)
    BY <2>2, <1>1 DEF RecordHit
  <2>3. CASE Insert(h)
    BY <2>3, <1>2 DEF Insert
  <2>4. CASE \/ Receive(h) \/ VectorSearch(h) \/ Discard(h) \/ ChooseLive(h) \/ Reread(h)
             \/ NoLiveCandidate(h) \/ SelectBucket(h) \/ BackendAnswers(h) \/ Stamp(h)
             \/ Reload(h) \/ Respond(h)
    BY <2>4 DEF Receive, VectorSearch, Discard, ChooseLive, Reread, NoLiveCandidate,
       SelectBucket, BackendAnswers, Stamp, Reload, Respond, storageVars
  <2>5. CASE ServeHit(h) \/ LogStaleHit(h) \/ Upsert(h) \/ LogDecision(h)
    BY <2>5 DEF ServeHit, LogStaleHit, Upsert, LogDecision
  <2> QED
    BY <1>3, <2>1, <2>2, <2>3, <2>4, <2>5 DEF HandlerStep
<1> QED
  BY <1>3 DEF RPNext, Tick, Crash, rpVars, storageVars

\* What a step leaves of a row: all but its counter, which does not fall.
LEMMA RowStays ==
  ASSUME RPInv, [RPNext]_rpVars, NEW f \in Fp, HasRow(f)
  PROVE  /\ rows'[f] = [rows[f] EXCEPT !.hits = rows'[f].hits]
         /\ rows'[f].hits >= rows[f].hits
         /\ HasRow(f)'
<1> DEFINE Kept == /\ rows'[f] = [rows[f] EXCEPT !.hits = rows'[f].hits]
                   /\ rows'[f].hits >= rows[f].hits
<1>1. rows \in [Fp -> Row \cup {NoRow}] /\ rows[f] \in Row
  BY DEF RPInv, RPTypeOK, StorageTypeOK, HasRow
<1>2. ASSUME rows'[f] = rows[f] PROVE Kept
  BY <1>1, <1>2 DEF Row
<1>3. ASSUME NEW g \in Fp, HasRow(g), MarkHit(g) PROVE Kept
  BY <1>1, <1>2, <1>3 DEF MarkHit, Row
<1>4. ASSUME NEW g \in Fp, NEW b \in Buckets, NEW c \in Nat, NEW e \in Nat,
             CanInsert(g), InsertEntry(g, b, c, e)
      PROVE  Kept
  BY <1>1, <1>2, <1>4 DEF CanInsert, InsertEntry
<1>5. Kept
  BY <1>2, <1>3, <1>4, RowsChange
<1>6. rows'[f].bucket = rows[f].bucket
  BY <1>1, <1>5 DEF Row
<1>7. HasRow(f)'
  BY <1>1, <1>6, BucketAssumption DEF HasRow, Row, NoRow, NoBucket, Buckets
<1> QED
  BY <1>5, <1>7

\* The first row of a fingerprint is never replaced and never loses a hit.
THEOREM FirstRowsStay == RPSpec => FirstRowStays
<1>1. RPInv /\ [RPNext]_rpVars =>
        \A f \in Fp : HasRow(f) =>
          /\ rows'[f] = [rows[f] EXCEPT !.hits = rows'[f].hits]
          /\ rows'[f].hits >= rows[f].hits
  BY RowStays
<1> QED
  BY <1>1, RPInvariant, PTL DEF RPSpec, FirstRowStays

\* Points change by the upsert of a request that stands before its upsert.
LEMMA PointsChange ==
  ASSUME RPInv, [RPNext]_rpVars
  PROVE  \/ points' = points
         \/ \E h \in Handler :
              At(h, "upsert") /\ UpsertPoint(handler[h].fp, handler[h].expires)
<1>1. ASSUME NEW h \in Handler, Receive(h) \/ HandlerStep(h) \/ Fail(h)
      PROVE  \/ points' = points
             \/ At(h, "upsert") /\ UpsertPoint(handler[h].fp, handler[h].expires)
  <2>1. CASE Fail(h)
    <3>1. CASE UNCHANGED storageVars
      BY <3>1 DEF storageVars
    <3>2. CASE Effect(h)
      BY <3>2 DEF Effect
    <3> QED
      BY <2>1, <3>1, <3>2 DEF Fail
  <2>2. CASE Upsert(h)
    BY <2>2 DEF Upsert
  <2>3. CASE \/ Receive(h) \/ VectorSearch(h) \/ Discard(h) \/ ChooseLive(h) \/ Reread(h)
             \/ NoLiveCandidate(h) \/ SelectBucket(h) \/ BackendAnswers(h) \/ Stamp(h)
             \/ Reload(h) \/ Respond(h)
    BY <2>3 DEF Receive, VectorSearch, Discard, ChooseLive, Reread, NoLiveCandidate,
       SelectBucket, BackendAnswers, Stamp, Reload, Respond, storageVars
  <2>4. CASE RecordHit(h) \/ ServeHit(h) \/ LogStaleHit(h) \/ Insert(h) \/ LogDecision(h)
    BY <2>4 DEF RecordHit, ServeHit, LogStaleHit, Insert, LogDecision
  <2> QED
    BY <1>1, <2>1, <2>2, <2>3, <2>4 DEF HandlerStep
<1> QED
  BY <1>1 DEF RPNext, Tick, Crash, rpVars, storageVars

\* A request comes to its upsert by the insertion of a new row and in no other way.
LEMMA UpsertFollowsInsert ==
  ASSUME RPInv, [RPNext]_rpVars, NEW k \in Handler, At(k, "upsert")'
  PROVE  \/ handler'[k] = handler[k]
         \/ CanInsert(handler[k].fp) /\ handler'[k].fp = handler[k].fp
<1>0. handler \in [Handler -> HandlerState] /\ handler[k] \in HandlerState
  BY Facts
<1>1. ASSUME NEW h \in Handler, NEW s, Become(h, s), s.pc # "upsert"
      PROVE  handler'[k] = handler[k]
  BY <1>0, <1>1 DEF Become, At
<1>2. ASSUME NEW h \in Handler, Insert(h), CanInsert(handler[h].fp)
      PROVE  \/ handler'[k] = handler[k]
             \/ CanInsert(handler[k].fp) /\ handler'[k].fp = handler[k].fp
  BY <1>0, <1>2 DEF Insert, Goto, Become, HandlerState
<1>3. ASSUME NEW h \in Handler, Receive(h) \/ HandlerStep(h) \/ Fail(h), ~Insert(h)
      PROVE  handler'[k] = handler[k]
  <2>0. handler[h] \in HandlerState
    BY Facts
  <2>1. CASE \/ Receive(h) \/ VectorSearch(h) \/ ChooseLive(h) \/ SelectBucket(h)
    BY <2>0, <2>1, <1>1 DEF Receive, VectorSearch, ChooseLive, SelectBucket, HandlerState
  <2>2. CASE Discard(h)
    BY <2>0, <2>2, <1>1 DEF Discard, At, HandlerState
  <2>3. CASE Reread(h) \/ NoLiveCandidate(h) \/ BackendAnswers(h)
    BY <2>0, <2>3, <1>1 DEF Reread, NoLiveCandidate, BackendAnswers, Goto, Answer, HandlerState
  <2>4. CASE Stamp(h) \/ Reload(h)
    BY <2>0, <2>4, <1>1 DEF Stamp, Reload, Answer, HandlerState
  <2>5. CASE Upsert(h) \/ LogDecision(h) \/ RecordHit(h) \/ ServeHit(h) \/ LogStaleHit(h)
    BY <2>0, <2>5, <1>1 DEF Upsert, LogDecision, RecordHit, ServeHit, LogStaleHit, Goto,
       HandlerState
  <2>6. CASE Respond(h) \/ Fail(h)
    BY <2>0, <2>6, <1>1 DEF Respond, Fail, Answer, Idle, HandlerState
  <2> QED
    BY <1>3, <2>1, <2>2, <2>3, <2>4, <2>5, <2>6 DEF HandlerStep
<1>4. CASE Crash
  BY <1>4 DEF Crash, Idle, At
<1>5. CASE \E h \in Handler : Insert(h) /\ ~CanInsert(handler[h].fp)
  BY <1>0, <1>5, <1>1, Facts DEF Insert, Answer, HandlerState
<1>6. CASE UNCHANGED handler
  BY <1>6
<1> QED
  BY <1>2, <1>3, <1>4, <1>5, <1>6 DEF RPNext, HandlerStep, requestVars, rpVars

\* A row that store left without a point is never indexed by a later request.
THEOREM OrphansRemain == RPSpec => OrphansStay
<1>1. ASSUME RPInv, [RPNext]_rpVars, NEW f \in Fp, Orphan(f) PROVE Orphan(f)'
  <2>1. HasRow(f)'
    BY <1>1, RowStays DEF Orphan
  <2>2. ~HasPoint(f)'
    <3>1. points \in [Fp -> Nat \cup {NoTime}]
      BY <1>1 DEF RPInv, RPTypeOK, StorageTypeOK
    <3> QED
      BY <1>1, <3>1, PointsChange DEF Orphan, Writing, UpsertPoint, HasPoint
  <2>3. ASSUME NEW k \in Handler PROVE ~Writing(k, f)'
    BY <1>1, UpsertFollowsInsert DEF Orphan, Writing, CanInsert, At
  <2> QED
    BY <2>1, <2>2, <2>3 DEF Orphan
<1>2. RPInv /\ [RPNext]_rpVars => \A f \in Fp : Orphan(f) => Orphan(f)'
  BY <1>1
<1> QED
  BY <1>2, RPInvariant, PTL DEF RPSpec, OrphansStay

=============================================================================
