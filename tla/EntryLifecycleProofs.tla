------------------------ MODULE EntryLifecycleProofs ------------------------
(***************************************************************************)
(* RequestPath implements EntryLifecycle, for any number of threads and    *)
(* entries, any scores, lifetimes and faults; and hits are counted before  *)
(* they are served.                                                        *)
(*                                                                         *)
(* The argument: a step of the program sends at most one statement, and    *)
(* each statement is one step of the abstract entry, or none.  What the    *)
(* step relies on is RPInv and three facts more: a lifetime is that of its *)
(* bucket when it is stamped, and stays so, and each request that has      *)
(* counted a hit and not yet served it has its own unit of the counter.    *)
(***************************************************************************)
EXTENDS RequestPathProofs, FiniteSetTheorems

\* The requests that have counted a hit of f and have not served it yet.
Owing(s, f) == s.pc \in {"reread", "logHit"} /\ s.entry = f
Pending(f) == {h \in Handler : Owing(handler[h], f)}

Counted(f) ==
  /\ IsFiniteSet(Pending(f))
  /\ feedback[f].hit + Cardinality(Pending(f)) <= rows[f].hits

StampedOK(h) ==
  At(h, "insert") => /\ handler[h].created <= clock
                     /\ handler[h].expires = handler[h].created + TTL[handler[h].bucket]

LifetimeOK(f) ==
  HasRow(f) => rows[f].expires = rows[f].created + TTL[rows[f].bucket]

\* What the refinement rests on.
LifeInv ==
  /\ RPInv
  /\ \A f \in Fp : Counted(f)
  /\ \A h \in Handler : StampedOK(h)
  /\ \A f \in Fp : LifetimeOK(f)

-----------------------------------------------------------------------------
(* What a step does to the stores.                                           *)

\* A step sends one statement of one request, lets time pass, or leaves the stores alone.
LEMMA OneStatement ==
  ASSUME [RPNext]_rpVars
  PROVE  \/ UNCHANGED <<clock, storageVars>>
         \/ Tick
         \/ UNCHANGED clock /\ \E h \in Handler : Effect(h)
<1> DEFINE Goal == \/ UNCHANGED <<clock, storageVars>>
                   \/ Tick
                   \/ UNCHANGED clock /\ \E h \in Handler : Effect(h)
<1>1. ASSUME NEW h \in Handler, Fail(h) PROVE Goal
  BY <1>1 DEF Fail, storageVars
<1>2. ASSUME NEW h \in Handler, RecordHit(h) \/ ServeHit(h) \/ LogStaleHit(h) PROVE Goal
  BY <1>2 DEF RecordHit, ServeHit, LogStaleHit, Effect, At
<1>3. ASSUME NEW h \in Handler, Upsert(h) \/ LogDecision(h) PROVE Goal
  BY <1>3 DEF Upsert, LogDecision, Effect, At
<1>4. ASSUME NEW h \in Handler, Insert(h) PROVE Goal
  BY <1>4 DEF Insert, Effect, At, storageVars
<1>5. ASSUME NEW h \in Handler,
             \/ Receive(h) \/ VectorSearch(h) \/ Discard(h) \/ ChooseLive(h) \/ Reread(h)
             \/ NoLiveCandidate(h) \/ SelectBucket(h) \/ BackendAnswers(h) \/ Stamp(h)
             \/ Reload(h) \/ Respond(h)
      PROVE  Goal
  BY <1>5 DEF Receive, VectorSearch, Discard, ChooseLive, Reread, NoLiveCandidate,
     SelectBucket, BackendAnswers, Stamp, Reload, Respond, storageVars
<1> QED
  BY <1>1, <1>2, <1>3, <1>4, <1>5 DEF RPNext, HandlerStep, Crash, rpVars, storageVars

-----------------------------------------------------------------------------
(* Lifetimes.                                                                *)

\* A request comes to its insert by the stamp and in no other way.
LEMMA InsertFollowsStamp ==
  ASSUME RPInv, [RPNext]_rpVars, NEW k \in Handler, At(k, "insert")'
  PROVE  handler'[k] = handler[k] \/ Stamp(k)
<1>0. handler \in [Handler -> HandlerState] /\ handler[k] \in HandlerState
  BY Facts
<1>1. ASSUME NEW h \in Handler, NEW s, Become(h, s), s.pc # "insert"
      PROVE  handler'[k] = handler[k]
  BY <1>0, <1>1 DEF Become, At
<1>2. ASSUME NEW h \in Handler, Stamp(h)
      PROVE  handler'[k] = handler[k] \/ Stamp(k)
  BY <1>0, <1>2 DEF Stamp, Become, Answer
<1>3. ASSUME NEW h \in Handler, Receive(h) \/ HandlerStep(h) \/ Fail(h), ~Stamp(h)
      PROVE  handler'[k] = handler[k]
  <2>0. handler[h] \in HandlerState
    BY Facts
  <2>1. CASE \/ Receive(h) \/ VectorSearch(h) \/ ChooseLive(h) \/ SelectBucket(h)
    BY <2>0, <2>1, <1>1 DEF Receive, VectorSearch, ChooseLive, SelectBucket, HandlerState
  <2>2. CASE Discard(h)
    BY <2>0, <2>2, <1>1 DEF Discard, At, HandlerState
  <2>3. CASE Reread(h) \/ NoLiveCandidate(h) \/ BackendAnswers(h)
    BY <2>0, <2>3, <1>1 DEF Reread, NoLiveCandidate, BackendAnswers, Goto, Answer, HandlerState
  <2>4. CASE Insert(h) \/ Reload(h)
    BY <2>0, <2>4, <1>1 DEF Insert, Reload, Goto, Answer, HandlerState
  <2>5. CASE Upsert(h) \/ LogDecision(h) \/ RecordHit(h) \/ ServeHit(h) \/ LogStaleHit(h)
    BY <2>0, <2>5, <1>1 DEF Upsert, LogDecision, RecordHit, ServeHit, LogStaleHit, Goto,
       HandlerState
  <2>6. CASE Respond(h) \/ Fail(h)
    BY <2>0, <2>6, <1>1 DEF Respond, Fail, Answer, Idle, HandlerState
  <2> QED
    BY <1>3, <2>1, <2>2, <2>3, <2>4, <2>5, <2>6 DEF HandlerStep
<1>4. CASE Crash
  BY <1>4 DEF Crash, Idle, At
<1>5. CASE UNCHANGED handler
  BY <1>5
<1> QED
  BY <1>2, <1>3, <1>4, <1>5 DEF RPNext, requestVars, rpVars

\* The clock never goes back.
LEMMA ClockGrows == ASSUME RPInv, [RPNext]_rpVars PROVE clock' \in Nat /\ clock <= clock'
BY Facts, OneStatement DEF Tick, RPInv, RPTypeOK, StorageTypeOK

\* Before an insert, the lifetime is still the one of the stamp, and not of the future.
LEMMA StampedStays ==
  ASSUME LifeInv, [RPNext]_rpVars, NEW k \in Handler PROVE StampedOK(k)'
<1> SUFFICES ASSUME At(k, "insert")'
             PROVE  /\ handler'[k].created <= clock'
                    /\ handler'[k].expires = handler'[k].created + TTL[handler'[k].bucket]
  BY DEF StampedOK
<1>0. /\ handler \in [Handler -> HandlerState] /\ handler[k] \in HandlerState
      /\ clock \in Nat /\ clock' \in Nat /\ clock <= clock'
  BY Facts, ClockGrows DEF LifeInv
<1>1. CASE Stamp(k)
  <2> DEFINE b == handler[k].bucket
             s == [handler[k] EXCEPT !.pc = "insert", !.created = clock,
                                     !.expires = clock + TTL[b]]
  <2>1. UNCHANGED clock /\ (Become(k, s) \/ Answer(k, "forwarded"))
    BY <1>1 DEF Stamp
  <2>2. CASE Become(k, s)
    <3>1. s.created = clock /\ s.expires = clock + TTL[b] /\ s.bucket = b
      BY <1>0 DEF HandlerState
    <3>2. handler'[k] = s
      BY <1>0, <2>2 DEF Become
    <3> HIDE DEF s
    <3> QED
      BY <1>0, <2>1, <3>1, <3>2
  <2>3. CASE Answer(k, "forwarded")
    BY <1>0, <2>3 DEF Answer, Become, At, HandlerState
  <2> QED
    BY <2>1, <2>2, <2>3
<1>2. CASE handler'[k] = handler[k]
  <2>1. At(k, "insert") /\ handler[k].created \in Nat
    BY <1>2, Facts DEF At, LifeInv, RequestOK, WriteOK
  <2> QED
    BY <1>0, <1>2, <2>1 DEF LifeInv, StampedOK
<1> QED
  BY <1>1, <1>2, InsertFollowsStamp DEF LifeInv

\* A row has the lifetime of its bucket.
LEMMA LifetimeStays ==
  ASSUME LifeInv, [RPNext]_rpVars, NEW f \in Fp PROVE LifetimeOK(f)'
<1>1. rows \in [Fp -> Row \cup {NoRow}]
  BY DEF LifeInv, RPInv, RPTypeOK, StorageTypeOK
<1>2. CASE HasRow(f)
  <2>1. rows[f] \in Row /\ rows'[f] = [rows[f] EXCEPT !.hits = rows'[f].hits]
    BY <1>1, <1>2, RowStays DEF HasRow, LifeInv
  <2>2. /\ rows'[f].bucket = rows[f].bucket /\ rows'[f].created = rows[f].created
        /\ rows'[f].expires = rows[f].expires
    BY <2>1 DEF Row
  <2> QED
    BY <1>2, <2>2 DEF LifeInv, LifetimeOK
<1>3. CASE ~HasRow(f)
  <2>1. ASSUME NEW h \in Handler, Effect(h), HasRow(f)'
        PROVE  At(h, "insert") /\ handler[h].fp = f /\ CanInsert(f) /\ InsertNow(h)
    <3>1. CASE At(h, "mark")
      <4>1. MarkHit(handler[h].entry) /\ handler[h].entry \in Fp /\ HasRow(handler[h].entry)
        BY <2>1, <3>1, Facts DEF Effect, At, LifeInv, RequestOK, ServeOK, ServableEntry
      <4> QED
        BY <1>1, <1>3, <2>1, <4>1 DEF MarkHit, HasRow
    <3>2. CASE At(h, "insert")
      <4>1. CanInsert(handler[h].fp) /\ InsertNow(h)
        BY <2>1, <3>2 DEF Effect, At
      <4> QED
        BY <1>1, <1>3, <2>1, <3>2, <4>1 DEF InsertNow, InsertEntry, HasRow
    <3>3. CASE ~At(h, "mark") /\ ~At(h, "insert")
      BY <1>3, <2>1, <3>3 DEF Effect, HasRow
    <3> QED
      BY <3>1, <3>2, <3>3
  <2>2. ASSUME NEW h \in Handler, Effect(h), HasRow(f)'
        PROVE  rows'[f].expires = rows'[f].created + TTL[rows'[f].bucket]
    <3>1. At(h, "insert") /\ handler[h].fp = f /\ InsertNow(h)
      BY <2>1, <2>2
    <3>2. StampedOK(h)
      BY DEF LifeInv
    <3> QED
      BY <1>1, <3>1, <3>2 DEF StampedOK, InsertNow, InsertEntry
  <2>3. CASE UNCHANGED rows
    BY <1>3, <2>3 DEF HasRow, LifetimeOK
  <2> QED
    BY <2>2, <2>3, OneStatement DEF LifetimeOK, Tick, storageVars
<1> QED
  BY <1>2, <1>3

-----------------------------------------------------------------------------
(* Hits that have been counted.                                              *)

\* Who owes a hit after a step of h.
LEMMA PendingAfter ==
  ASSUME RPInv, NEW h \in Handler, NEW s, Become(h, s), NEW f
  PROVE  Pending(f)' = IF Owing(s, f) THEN Pending(f) \cup {h} ELSE Pending(f) \ {h}
<1>1. handler \in [Handler -> HandlerState]
  BY Facts DEF RPInv, RPTypeOK
<1>2. handler'[h] = s /\ \A k \in Handler \ {h} : handler'[k] = handler[k]
  BY <1>1 DEF Become
<1> QED
  BY <1>2 DEF Pending, Owing

\* A request that owes nothing after its step leaves the account balanced.
LEMMA NothingOwed ==
  ASSUME LifeInv, NEW f \in Fp, NEW h \in Handler, NEW s, Become(h, s), ~Owing(s, f),
         rows'[f].hits \in Nat, feedback'[f].hit \in Nat,
         \/ rows'[f].hits >= rows[f].hits /\ feedback'[f].hit = feedback[f].hit
         \/ /\ Owing(handler[h], f) /\ rows'[f].hits = rows[f].hits
            /\ feedback'[f].hit = feedback[f].hit + 1
  PROVE  Counted(f)'
<1>1. /\ IsFiniteSet(Pending(f))
      /\ feedback[f].hit + Cardinality(Pending(f)) <= rows[f].hits
  BY DEF LifeInv, Counted
<1>2. Pending(f)' = Pending(f) \ {h}
  BY PendingAfter DEF LifeInv
<1>3. feedback[f].hit \in Nat /\ rows[f].hits \in Nat
  BY DEF LifeInv, RPInv, RPTypeOK, StorageTypeOK, Row, NoRow
<1>4. Cardinality(Pending(f)) \in Nat
  BY <1>1, FS_CardinalityType
<1>5. /\ IsFiniteSet(Pending(f)')
      /\ Cardinality(Pending(f)') =
           IF Owing(handler[h], f) THEN Cardinality(Pending(f)) - 1
           ELSE Cardinality(Pending(f))
  BY <1>1, <1>2, FS_RemoveElement DEF Pending
<1> QED
  BY <1>1, <1>3, <1>4, <1>5 DEF Counted

\* The types the account needs.
LEMMA CountsAreNumbers ==
  ASSUME RPInv, NEW f \in Fp
  PROVE  /\ rows[f].hits \in Nat /\ feedback[f].hit \in Nat
         /\ HasRow(f) => rows[f] \in Row
         /\ ~HasRow(f) => rows[f].hits = 0
BY DEF RPInv, RPTypeOK, StorageTypeOK, Row, NoRow, HasRow

\* No step takes a count from a row.
LEMMA HitsGrow ==
  ASSUME RPInv, [RPNext]_rpVars, NEW f \in Fp
  PROVE  rows'[f].hits \in Nat /\ feedback'[f].hit \in Nat /\ rows'[f].hits >= rows[f].hits
<1>1. RPInv'
  BY RPInvStep
<1>2. rows'[f].hits \in Nat /\ feedback'[f].hit \in Nat
  BY <1>1 DEF RPInv, RPTypeOK, StorageTypeOK, Row, NoRow
<1>3. CASE HasRow(f)
  BY <1>2, <1>3, RowStays
<1>4. CASE ~HasRow(f)
  BY <1>2, <1>4, CountsAreNumbers
<1> QED
  BY <1>2, <1>3, <1>4

\* A hit is counted by the request that owes it from then on.
LEMMA CountedByRecordHit ==
  ASSUME LifeInv, [RPNext]_rpVars, NEW f \in Fp, NEW h \in Handler, RecordHit(h)
  PROVE  Counted(f)'
<1> DEFINE s == [handler[h] EXCEPT !.pc = "reread"]
<1>1. /\ At(h, "mark") /\ MarkHit(handler[h].entry) /\ Become(h, s)
      /\ UNCHANGED feedback
  BY DEF RecordHit, Goto
<1>2. /\ handler[h] \in HandlerState /\ s.pc = "reread" /\ s.entry = handler[h].entry
      /\ ServableEntry(h)
  BY <1>1, Facts DEF LifeInv, RequestOK, ServeOK, At, HandlerState
<1> HIDE DEF s
<1>3. rows \in [Fp -> Row \cup {NoRow}]
  BY DEF LifeInv, RPInv, RPTypeOK, StorageTypeOK
<1>4. CASE f # handler[h].entry
  BY <1>1, <1>2, <1>3, <1>4, NothingOwed, HitsGrow DEF Owing, LifeInv
<1>5. CASE f = handler[h].entry
  <2>1. Pending(f)' = Pending(f) \cup {h} /\ h \notin Pending(f)
    BY <1>1, <1>2, <1>5, PendingAfter DEF LifeInv, Pending, Owing, At
  <2>2. rows'[f].hits = rows[f].hits + 1
    BY <1>1, <1>3, <1>2, <1>5, CountsAreNumbers DEF MarkHit, Row, LifeInv, ServableEntry
  <2>3. /\ IsFiniteSet(Pending(f))
        /\ feedback[f].hit + Cardinality(Pending(f)) <= rows[f].hits
    BY DEF LifeInv, Counted
  <2>4. /\ IsFiniteSet(Pending(f)')
        /\ Cardinality(Pending(f)') = Cardinality(Pending(f)) + 1
        /\ Cardinality(Pending(f)) \in Nat
    BY <2>1, <2>3, FS_AddElement, FS_CardinalityType
  <2> QED
    BY <1>1, <2>2, <2>3, <2>4, CountsAreNumbers DEF Counted, LifeInv
<1> QED
  BY <1>4, <1>5

\* A hit is served by a request that owes it.
LEMMA ServedByDebtor ==
  ASSUME LifeInv, [RPNext]_rpVars, NEW f \in Fp, NEW h \in Handler, At(h, "logHit"),
         InsertHitServed(handler[h].entry), UNCHANGED rows,
         NEW s, Become(h, s), s.pc = "reply"
  PROVE  Counted(f)'
<1>1. feedback \in [Fp -> [hit : Nat, stale : Nat]]
  BY DEF LifeInv, RPInv, RPTypeOK, StorageTypeOK
<1>2. ~Owing(s, f)
  BY DEF Owing
<1>3. CASE f = handler[h].entry
  <2>1. Owing(handler[h], f)
    BY <1>3 DEF Owing, At
  <2>2. feedback'[f].hit = feedback[f].hit + 1
    BY <1>1, <1>3 DEF InsertHitServed
  <2> QED
    BY <1>2, <2>1, <2>2, NothingOwed, HitsGrow DEF LifeInv
<1>4. CASE f # handler[h].entry
  <2>1. feedback'[f].hit = feedback[f].hit
    BY <1>1, <1>4 DEF InsertHitServed
  <2> QED
    BY <1>2, <2>1, NothingOwed, HitsGrow DEF LifeInv
<1> QED
  BY <1>3, <1>4

\* A request that goes on to anything but the second read and the serving of a hit.
LEMMA NoDebtor ==
  ASSUME LifeInv, [RPNext]_rpVars, NEW f \in Fp, NEW h \in Handler, NEW s, Become(h, s),
         s.pc \notin {"reread", "logHit"},
         UNCHANGED feedback \/ InsertStaleHit(handler[h].entry)
  PROVE  Counted(f)'
<1>1. feedback \in [Fp -> [hit : Nat, stale : Nat]]
  BY DEF LifeInv, RPInv, RPTypeOK, StorageTypeOK
<1>2. feedback'[f].hit = feedback[f].hit
  BY <1>1 DEF InsertStaleHit
<1>3. ~Owing(s, f)
  BY DEF Owing
<1> QED
  BY <1>2, <1>3, NothingOwed, HitsGrow DEF LifeInv

\* A counted hit has been counted on its row, whatever became of its request.
LEMMA CountedStays ==
  ASSUME LifeInv, [RPNext]_rpVars, NEW f \in Fp PROVE Counted(f)'
<1>0. handler \in [Handler -> HandlerState]
  BY Facts DEF LifeInv, RPInv, RPTypeOK
<1>1. ASSUME NEW h \in Handler, Receive(h) \/ HandlerStep(h) \/ Fail(h) PROVE Counted(f)'
  <2>0. handler[h] \in HandlerState
    BY <1>0
  <2>1. CASE Receive(h) \/ VectorSearch(h) \/ ChooseLive(h) \/ SelectBucket(h)
    BY <2>0, <2>1, NoDebtor DEF Receive, VectorSearch, ChooseLive, SelectBucket,
       HandlerState, storageVars
  <2>2. CASE Discard(h)
    BY <2>0, <2>2, NoDebtor DEF Discard, At, HandlerState, storageVars
  <2>3. CASE NoLiveCandidate(h) \/ BackendAnswers(h)
    BY <2>0, <2>3, NoDebtor DEF NoLiveCandidate, BackendAnswers, Goto, Answer, HandlerState,
       storageVars
  <2>4. CASE Stamp(h) \/ Reload(h)
    BY <2>0, <2>4, NoDebtor DEF Stamp, Reload, Answer, HandlerState, storageVars
  <2>5. CASE Insert(h)
    BY <2>0, <2>5, NoDebtor DEF Insert, Goto, Answer, HandlerState
  <2>6. CASE Upsert(h) \/ LogDecision(h) \/ LogStaleHit(h)
    BY <2>0, <2>6, NoDebtor DEF Upsert, LogDecision, LogStaleHit, Goto, HandlerState
  <2>7. CASE Respond(h)
    BY <2>7, NoDebtor DEF Respond, Idle, storageVars
  <2>8. CASE RecordHit(h)
    BY <2>8, CountedByRecordHit
  <2>9. CASE ServeHit(h)
    BY <2>0, <2>9, ServedByDebtor DEF ServeHit, HandlerState
  <2>10. CASE Reread(h)
    <3> DEFINE g == handler[h].entry
               s == [handler[h] EXCEPT !.pc = "logHit", !.status = "HIT",
                       !.bucket = rows[g].bucket, !.expires = rows[g].expires]
    <3>1. At(h, "reread") /\ HasRow(g) /\ Become(h, s) /\ UNCHANGED <<rows, feedback>>
      BY <2>10, Facts DEF Reread, LifeInv, RequestOK, ServeOK, ServableEntry, At, storageVars
    <3>2. s.pc = "logHit" /\ s.entry = g
      BY <2>0 DEF HandlerState
    <3> HIDE DEF s
    <3>3. Pending(f)' = Pending(f)
      BY <3>1, <3>2, PendingAfter DEF Pending, Owing, At, LifeInv
    <3> QED
      BY <3>1, <3>3 DEF Counted, LifeInv
  <2>11. CASE Fail(h)
    <3> DEFINE s == [handler[h] EXCEPT !.pc = "reply",
                       !.reply = IF handler[h].pc \in StoreCalls THEN "forwarded" ELSE "error"]
    <3>1. Become(h, s) /\ s.pc = "reply" /\ (Effect(h) \/ UNCHANGED storageVars)
      BY <2>0, <2>11 DEF Fail, Answer, HandlerState
    <3> HIDE DEF s
    <3>2. CASE At(h, "logHit") /\ Effect(h)
      BY <3>1, <3>2, ServedByDebtor DEF Effect, At
    <3>3. CASE At(h, "logStale") /\ Effect(h)
      BY <3>1, <3>3, NoDebtor DEF Effect, At
    <3>4. CASE UNCHANGED feedback
      BY <3>1, <3>4, NoDebtor
    <3> QED
      BY <3>1, <3>2, <3>3, <3>4 DEF Effect, storageVars
  <2> QED
    BY <1>1, <2>1, <2>2, <2>3, <2>4, <2>5, <2>6, <2>7, <2>8, <2>9, <2>10, <2>11
       DEF HandlerStep
<1>2. CASE Crash
  <2>1. Pending(f)' = {}
    BY <1>2 DEF Crash, Pending, Owing, Idle
  <2>2. /\ IsFiniteSet(Pending(f)) /\ feedback[f].hit + Cardinality(Pending(f)) <= rows[f].hits
        /\ UNCHANGED <<rows, feedback>>
    BY <1>2 DEF LifeInv, Counted, Crash, storageVars
  <2> QED
    BY <2>1, <2>2, FS_EmptySet, FS_CardinalityType, CountsAreNumbers DEF Counted, LifeInv
<1>3. CASE UNCHANGED <<handler, rows, feedback>>
  BY <1>3 DEF Counted, Pending, Owing, LifeInv
<1> QED
  BY <1>1, <1>2, <1>3 DEF RPNext, Tick, requestVars, rpVars, storageVars

-----------------------------------------------------------------------------
\* In the beginning nothing is stored and nothing owed.
LEMMA LifeInit == RPInit => LifeInv
<1> SUFFICES ASSUME RPInit PROVE LifeInv
  OBVIOUS
<1>1. \A f \in Fp : Pending(f) = {}
  BY DEF RPInit, Idle, Pending, Owing
<1>2. \A f \in Fp : rows[f] = NoRow /\ feedback[f].hit = 0
  BY DEF RPInit, StorageInit
<1>3. \A f \in Fp : Counted(f)
  <2> TAKE f \in Fp
  <2>1. IsFiniteSet(Pending(f)) /\ Cardinality(Pending(f)) = 0
    BY <1>1, FS_EmptySet
  <2>2. rows[f].hits = 0
    BY <1>2 DEF NoRow
  <2> QED
    BY <1>2, <2>1, <2>2 DEF Counted
<1>4. \A h \in Handler : StampedOK(h)
  BY DEF RPInit, Idle, StampedOK, At
<1> QED
  BY <1>2, <1>3, <1>4, InitOK DEF LifeInv, LifetimeOK, HasRow

\* The strengthened invariant is inductive.
LEMMA LifeStep == LifeInv /\ [RPNext]_rpVars => LifeInv'
<1> SUFFICES ASSUME LifeInv, [RPNext]_rpVars PROVE LifeInv'
  OBVIOUS
<1>1. RPInv'
  BY RPInvStep DEF LifeInv
<1>2. \A f \in Fp : Counted(f)' /\ LifetimeOK(f)'
  BY CountedStays, LifetimeStays
<1>3. \A h \in Handler : StampedOK(h)'
  BY StampedStays
<1> QED
  BY <1>1, <1>2, <1>3 DEF LifeInv

\* Every behaviour keeps the strengthened invariant.
THEOREM LifeInvariant == RPSpec => []LifeInv
BY LifeInit, LifeStep, PTL DEF RPSpec

\* No hit is reported served that its row has not counted.
THEOREM ServedHitsCounted == RPSpec => []ServedHitsAreCounted
<1>1. ASSUME LifeInv PROVE ServedHitsAreCounted
  <2> SUFFICES ASSUME NEW f \in Fp PROVE feedback[f].hit <= rows[f].hits
    BY DEF ServedHitsAreCounted
  <2>1. /\ IsFiniteSet(Pending(f))
        /\ feedback[f].hit + Cardinality(Pending(f)) <= rows[f].hits
    BY <1>1 DEF LifeInv, Counted
  <2> QED
    BY <1>1, <2>1, FS_CardinalityType, CountsAreNumbers DEF LifeInv
<1>2. LifeInv => ServedHitsAreCounted
  BY <1>1
<1> QED
  BY <1>2, LifeInvariant, PTL

-----------------------------------------------------------------------------
(* The refinement: each statement is a step of the abstract entry.           *)

\* A step adds no record to an entry and takes none away.
SameRecords(g) ==
  /\ HasRow(g)' <=> HasRow(g)
  /\ HasPoint(g)' <=> HasPoint(g)
  /\ HasDecision(g)' <=> HasDecision(g)

\* What a step that changes the records of one entry alone does to its stage.
LEMMA StageMoves ==
  ASSUME NEW f \in Fp, NEW from, NEW to, StageOf(f) = from, StageOf(f)' = to,
         \A g \in Fp \ {f} : SameRecords(g)
  PROVE  [g \in Fp |-> StageOf(g)]' = [[g \in Fp |-> StageOf(g)] EXCEPT ![f] = to]
<1>1. ASSUME NEW g \in Fp \ {f} PROVE StageOf(g)' = StageOf(g)
  BY DEF SameRecords, StageOf
<1> QED
  BY <1>1

\* The insert stores the entry.
LEMMA InsertStores ==
  ASSUME LifeInv, NEW f \in Fp, NEW b \in Buckets, NEW c \in Nat, c <= clock,
         CanInsert(f), InsertEntry(f, b, c, c + TTL[b]),
         UNCHANGED <<clock, points, decisions, feedback>>
  PROVE  Entries!Store(f)
<1> DEFINE r == [bucket |-> b, created |-> c, expires |-> c + TTL[b], hits |-> 0]
<1>1. /\ rows \in [Fp -> Row \cup {NoRow}] /\ rows[f] = NoRow
      /\ rows' = [rows EXCEPT ![f] = r] /\ r # NoRow
  BY BucketAssumption DEF LifeInv, RPInv, RPTypeOK, StorageTypeOK, CanInsert, HasRow,
     InsertEntry, NoRow, NoBucket, Buckets
<1>2. ~HasRow(f) /\ ~HasPoint(f) /\ ~HasDecision(f)
  BY <1>1 DEF LifeInv, RPInv, PointMatchesRow, DecisionMatchesEntry, HasRow
<1>3. HasRow(f)' /\ ~HasPoint(f)' /\ ~HasDecision(f)'
  BY <1>1, <1>2 DEF HasRow, HasPoint, HasDecision
<1>4. \A g \in Fp \ {f} : SameRecords(g)
  <2> TAKE g \in Fp \ {f}
  <2>1. rows'[g] = rows[g] /\ points'[g] = points[g] /\ decisions'[g] = decisions[g]
    BY <1>1
  <2> QED
    BY <2>1 DEF SameRecords, HasRow, HasPoint, HasDecision
<1>5. StageOf(f) = "absent" /\ StageOf(f)' = "stored"
  BY <1>2, <1>3 DEF StageOf
<1>6. [g \in Fp |-> StageOf(g)]' = [[g \in Fp |-> StageOf(g)] EXCEPT ![f] = "stored"]
  BY <1>4, <1>5, StageMoves
<1>9. b \in DOMAIN TTL /\ c \in 0 .. clock
  BY TTLAssumption, Facts DEF LifeInv, RPInv, RPTypeOK, StorageTypeOK
<1>7. [g \in Fp |-> LeaseOf(rows[g])]' =
        [[g \in Fp |-> LeaseOf(rows[g])] EXCEPT ![f] =
           [bucket |-> b, created |-> c, expires |-> c + TTL[b]]]
  <2>1. LeaseOf(rows'[f]) = [bucket |-> b, created |-> c, expires |-> c + TTL[b]]
    BY <1>1 DEF LeaseOf
  <2>2. \A g \in Fp \ {f} : rows'[g] = rows[g]
    BY <1>1
  <2> QED
    BY <2>1, <2>2
<1>8. [g \in Fp |-> rows[g].hits]' = [g \in Fp |-> rows[g].hits]
  BY <1>1 DEF NoRow
<1> QED
  BY <1>5, <1>6, <1>7, <1>8, <1>9 DEF Entries!Store, Entries!Bucket

\* The upsert indexes an entry that is stored; of an indexed one it changes nothing.
LEMMA UpsertIndexes ==
  ASSUME LifeInv, NEW f \in Fp, HasRow(f), UpsertPoint(f, rows[f].expires),
         UNCHANGED <<clock, rows, decisions, feedback>>
  PROVE  Entries!Index(f) \/ UNCHANGED Entries!vars
<1>1. /\ rows[f] \in Row /\ points \in [Fp -> Nat \cup {NoTime}]
      /\ points' = [points EXCEPT ![f] = rows[f].expires]
      /\ rows[f].expires = rows[f].created + TTL[rows[f].bucket]
  BY DEF LifeInv, RPInv, RPTypeOK, StorageTypeOK, HasRow, UpsertPoint, LifetimeOK
<1>2. CASE HasPoint(f)
  <2>1. UNCHANGED points
    BY <1>1, <1>2 DEF LifeInv, RPInv, PointMatchesRow
  <2> QED
    BY <2>1 DEF Entries!vars, StageOf, HasRow, HasPoint, HasDecision
<1>3. CASE ~HasPoint(f)
  <2>1. ~HasDecision(f)
    BY <1>3 DEF LifeInv, RPInv, DecisionMatchesEntry
  <2>2. HasRow(f)' /\ HasPoint(f)' /\ ~HasDecision(f)'
    BY <1>1, <2>1 DEF HasRow, HasPoint, HasDecision, Row, NoTime
  <2>3. \A g \in Fp \ {f} : SameRecords(g)
    <3> TAKE g \in Fp \ {f}
    <3>1. rows'[g] = rows[g] /\ points'[g] = points[g] /\ decisions'[g] = decisions[g]
      BY <1>1
    <3> QED
      BY <3>1 DEF SameRecords, HasRow, HasPoint, HasDecision
  <2>4. StageOf(f) = "stored" /\ StageOf(f)' = "indexed"
    BY <1>3, <2>1, <2>2 DEF StageOf
  <2>5. [g \in Fp |-> StageOf(g)]' = [[g \in Fp |-> StageOf(g)] EXCEPT ![f] = "indexed"]
    BY <2>3, <2>4, StageMoves
  <2>6. rows[f].bucket \in DOMAIN TTL
    BY <1>1, TTLAssumption DEF Row
  <2>7. points' = [points EXCEPT ![f] =
                     [g \in Fp |-> LeaseOf(rows[g])][f].created + TTL[rows[f].bucket]]
    BY <1>1 DEF LeaseOf
  <2>8. rows[f].bucket = [g \in Fp |-> LeaseOf(rows[g])][f].bucket
    BY DEF LeaseOf
  <2> QED
    BY <2>4, <2>5, <2>6, <2>7, <2>8 DEF Entries!Index, Entries!Bucket
<1> QED
  BY <1>2, <1>3

\* The decision of an indexed entry is logged; a second one would change nothing here.
LEMMA DecisionDecides ==
  ASSUME LifeInv, NEW f \in Fp, HasRow(f), HasPoint(f), NEW c,
         InsertDecision(f, rows[f].bucket, c), UNCHANGED <<clock, rows, points, feedback>>
  PROVE  Entries!Decide(f) \/ UNCHANGED Entries!vars
<1>1. /\ decisions \in [Fp -> Decision \cup {NoDecision}] /\ rows[f].bucket \in Buckets
      /\ decisions' = [decisions EXCEPT ![f] = [bucket |-> rows[f].bucket, chosen |-> c]]
  BY DEF LifeInv, RPInv, RPTypeOK, StorageTypeOK, HasRow, Row, InsertDecision
<1>2. HasRow(f)' /\ HasPoint(f)' /\ HasDecision(f)'
  BY <1>1, BucketAssumption DEF HasRow, HasPoint, HasDecision, NoDecision, NoBucket, Buckets
<1>3. \A g \in Fp \ {f} : SameRecords(g)
  <2> TAKE g \in Fp \ {f}
  <2>1. rows'[g] = rows[g] /\ points'[g] = points[g] /\ decisions'[g] = decisions[g]
    BY <1>1
  <2> QED
    BY <2>1 DEF SameRecords, HasRow, HasPoint, HasDecision
<1>4. StageOf(f)' = "decided" /\ StageOf(f) \in {"indexed", "decided"}
  BY <1>2 DEF StageOf
<1>5. [g \in Fp |-> StageOf(g)]' = [[g \in Fp |-> StageOf(g)] EXCEPT ![f] = "decided"]
  BY <1>3, <1>4, StageMoves
<1> QED
  BY <1>4, <1>5 DEF Entries!Decide, Entries!vars

\* The stages stay where no record appears.
LEMMA StagesStay ==
  ASSUME \A g \in Fp : SameRecords(g)
  PROVE  [g \in Fp |-> StageOf(g)]' = [g \in Fp |-> StageOf(g)]
BY DEF SameRecords, StageOf

\* The counter of an indexed entry moves.
LEMMA HitCounts ==
  ASSUME LifeInv, NEW f \in Fp, HasRow(f), HasPoint(f), MarkHit(f),
         UNCHANGED <<clock, points, decisions, feedback>>
  PROVE  Entries!Count(f)
<1>1. /\ rows \in [Fp -> Row \cup {NoRow}] /\ rows[f] \in Row
      /\ rows' = [rows EXCEPT ![f] = [rows[f] EXCEPT !.hits = rows[f].hits + 1]]
  BY DEF LifeInv, RPInv, RPTypeOK, StorageTypeOK, HasRow, MarkHit
<1>2. /\ rows'[f].hits = rows[f].hits + 1 /\ rows'[f].bucket = rows[f].bucket
      /\ rows'[f].created = rows[f].created /\ rows'[f].expires = rows[f].expires
      /\ \A g \in Fp \ {f} : rows'[g] = rows[g]
  BY <1>1 DEF Row
<1>3. HasRow(f)'
  BY <1>1, <1>2, BucketAssumption DEF HasRow, Row, NoRow, NoBucket, Buckets
<1>4. \A g \in Fp : SameRecords(g)
  BY <1>2, <1>3 DEF SameRecords, HasRow, HasPoint, HasDecision
<1>5. [g \in Fp |-> StageOf(g)]' = [g \in Fp |-> StageOf(g)]
  BY <1>4, StagesStay
<1>6. [g \in Fp |-> LeaseOf(rows[g])]' = [g \in Fp |-> LeaseOf(rows[g])]
  BY <1>2 DEF LeaseOf
<1>7. [g \in Fp |-> rows[g].hits]' =
        [[g \in Fp |-> rows[g].hits] EXCEPT ![f] = rows[f].hits + 1]
  BY <1>2
<1>8. [g \in Fp |-> StageOf(g)][f] \in {"indexed", "decided"}
  BY DEF StageOf
<1> QED
  BY <1>5, <1>6, <1>7, <1>8 DEF Entries!Count

\* A hit is served by a request that still owes it, so that the counter is ahead.
LEMMA OwedHitServes ==
  ASSUME LifeInv, NEW f \in Fp, NEW h \in Handler, Owing(handler[h], f), InsertHitServed(f),
         UNCHANGED <<clock, rows, points, decisions>>
  PROVE  Entries!Serve(f)
<1>1. /\ IsFiniteSet(Pending(f)) /\ h \in Pending(f)
      /\ feedback[f].hit + Cardinality(Pending(f)) <= rows[f].hits
  BY DEF LifeInv, Counted, Pending
<1>2. Cardinality(Pending(f)) \in Nat /\ Cardinality(Pending(f)) # 0
  BY <1>1, FS_CardinalityType, FS_EmptySet
<1>3. feedback[f].hit < rows[f].hits
  BY <1>1, <1>2, CountsAreNumbers DEF LifeInv
<1>4. feedback \in [Fp -> [hit : Nat, stale : Nat]]
  BY DEF LifeInv, RPInv, RPTypeOK, StorageTypeOK
<1>5. [g \in Fp |-> feedback[g].hit]' =
        [[g \in Fp |-> feedback[g].hit] EXCEPT ![f] = feedback[f].hit + 1]
  BY <1>4 DEF InsertHitServed
<1>6. [g \in Fp |-> StageOf(g)]' = [g \in Fp |-> StageOf(g)]
  BY StagesStay DEF SameRecords, HasRow, HasPoint, HasDecision
<1> QED
  BY <1>3, <1>5, <1>6 DEF Entries!Serve

-----------------------------------------------------------------------------
\* The initial states of the program are initial states of the entries.
LEMMA RefinesInit == RPInit => Entries!Init
BY DEF RPInit, StorageInit, Entries!Init, Entries!None, StageOf, LeaseOf, HasRow, HasPoint,
   HasDecision, NoRow, NoTime, NoDecision, NoBucket

\* A statement is a step of the abstract entry, or none.
LEMMA RefinesStatement ==
  ASSUME LifeInv, NEW h \in Handler, Effect(h), UNCHANGED clock
  PROVE  Entries!Next \/ UNCHANGED Entries!vars
<1>0. RequestOK(h) /\ handler[h] \in HandlerState
  BY Facts DEF LifeInv
<1>1. CASE At(h, "mark")
  <2>1. /\ MarkHit(handler[h].entry) /\ ServableEntry(h)
        /\ UNCHANGED <<points, decisions, feedback>>
    BY <1>0, <1>1 DEF Effect, At, RequestOK, ServeOK
  <2> QED
    BY <2>1, HitCounts DEF ServableEntry, Entries!Next
<1>2. CASE At(h, "logHit")
  <2>1. /\ InsertHitServed(handler[h].entry) /\ ServableEntry(h)
        /\ UNCHANGED <<rows, points, decisions>>
    BY <1>0, <1>2 DEF Effect, At, RequestOK, ServeOK
  <2>2. Owing(handler[h], handler[h].entry)
    BY <1>2 DEF Owing, At
  <2> QED
    BY <2>1, <2>2, OwedHitServes DEF ServableEntry, Entries!Next
<1>3. CASE At(h, "logStale")
  <2>1. InsertStaleHit(handler[h].entry) /\ UNCHANGED <<rows, points, decisions>>
    BY <1>3 DEF Effect, At
  <2>2. feedback \in [Fp -> [hit : Nat, stale : Nat]]
    BY DEF LifeInv, RPInv, RPTypeOK, StorageTypeOK
  <2>3. [g \in Fp |-> feedback[g].hit]' = [g \in Fp |-> feedback[g].hit]
    BY <2>1, <2>2 DEF InsertStaleHit
  <2>4. [g \in Fp |-> StageOf(g)]' = [g \in Fp |-> StageOf(g)]
    BY <2>1, StagesStay DEF SameRecords, HasRow, HasPoint, HasDecision
  <2> QED
    BY <2>1, <2>3, <2>4 DEF Entries!vars
<1>4. CASE At(h, "insert")
  <2>1. /\ CanInsert(handler[h].fp) /\ InsertNow(h)
        /\ UNCHANGED <<points, decisions, feedback>>
    BY <1>4 DEF Effect, At
  <2>2. /\ handler[h].fp \in Fp /\ handler[h].bucket \in Buckets
        /\ handler[h].created \in Nat /\ handler[h].created <= clock
        /\ handler[h].expires = handler[h].created + TTL[handler[h].bucket]
    BY <1>0, <1>4 DEF LifeInv, StampedOK, RequestOK, LookupOK, WriteOK, At, StoreCalls
  <2>3. Entries!Store(handler[h].fp)
    BY <2>1, <2>2, InsertStores DEF InsertNow
  <2> QED
    BY <2>2, <2>3 DEF Entries!Next
<1>5. CASE At(h, "upsert")
  <2>1. /\ UpsertPoint(handler[h].fp, handler[h].expires) /\ OwnRow(h)
        /\ UNCHANGED <<rows, decisions, feedback>>
    BY <1>0, <1>5 DEF Effect, At, RequestOK, WriteOK
  <2> QED
    BY <2>1, UpsertIndexes DEF OwnRow, Entries!Next
<1>6. CASE At(h, "decide")
  <2>1. /\ InsertDecisionNow(h) /\ OwnRow(h) /\ HasPoint(handler[h].fp)
        /\ UNCHANGED <<rows, points, feedback>>
    BY <1>0, <1>6 DEF Effect, At, RequestOK, WriteOK
  <2> QED
    BY <2>1, DecisionDecides DEF OwnRow, InsertDecisionNow, Entries!Next
<1> QED
  BY <1>1, <1>2, <1>3, <1>4, <1>5, <1>6 DEF Effect

\* Every step of the program is a step of the abstract entries or changes none of them.
LEMMA RefinesStep == LifeInv /\ [RPNext]_rpVars => [Entries!Next]_Entries!vars
<1> SUFFICES ASSUME LifeInv, [RPNext]_rpVars
             PROVE  Entries!Next \/ UNCHANGED Entries!vars
  OBVIOUS
<1>1. CASE UNCHANGED storageVars
  <2>1. [g \in Fp |-> StageOf(g)]' = [g \in Fp |-> StageOf(g)]
    BY <1>1, StagesStay DEF SameRecords, HasRow, HasPoint, HasDecision, storageVars
  <2>2. UNCHANGED <<rows, points, feedback>>
    BY <1>1 DEF storageVars
  <2>3. CASE UNCHANGED clock
    BY <2>1, <2>2, <2>3 DEF Entries!vars
  <2>4. CASE Tick
    BY <2>1, <2>2, <2>4 DEF Tick, Entries!Pass, Entries!Next
  <2>5. CASE UNCHANGED clock /\ \E h \in Handler : Effect(h)
    BY <2>3, <2>5
  <2> QED
    BY <2>3, <2>4, <2>5, OneStatement
<1> QED
  BY <1>1, RefinesStatement, OneStatement DEF Tick

\* The request path implements the abstract entries: with any number of concurrent requests,
\* lost acknowledgements and crashes, each entry is stored, indexed and decided in this order,
\* once each, and served no more often than counted.
THEOREM RefinesEntryLifecycle == RPSpec => ImplementsEntryLifecycle
BY RefinesInit, RefinesStep, LifeInvariant, PTL
   DEF RPSpec, ImplementsEntryLifecycle, Entries!Spec

=============================================================================
