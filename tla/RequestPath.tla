----------------------------- MODULE RequestPath -----------------------------
(***************************************************************************)
(* The request path: ProxyService.forward (app/proxy/service.py) and the   *)
(* cache operations it awaits (lookup, select_ttl_bucket, store,           *)
(* log_ttl_decision, log_feedback_event of app/cache/service.py).          *)
(*                                                                         *)
(* A handler is a Flask worker thread serving one request at a time.  Its  *)
(* pc names the database, vector store or backend call it is about to      *)
(* make; each action is that call and the code that runs after it up to    *)
(* the next call, so that every interleaving of the calls of concurrent    *)
(* requests is a behaviour.                                                *)
(***************************************************************************)
EXTENDS CacheStorage

CONSTANTS
  Handler,      \* the worker threads
  Selectable,   \* buckets select_ttl_bucket may return: the policy's actions,
                \* or the default bucket alone when the policy is disabled
  Faults,       \* the calls (values of pc) that may raise, "crash" if the process may
  NoFp,         \* no fingerprint: a request that is not cacheable, no entry
  MaxRequests   \* bound on the requests received (of the model only)

ASSUME NoFpAssumption == NoFp \notin Fp
ASSUME SelectableAssumption == Selectable \subseteq Nat

VARIABLES
  handler,      \* per worker thread, the locals and the CacheContext of its request
  arrivals      \* requests received so far

requestVars == <<handler, arrivals>>
rpVars == <<clock, storageVars, requestVars>>

LookupCalls == {"search", "check", "mark", "reread", "logHit", "logStale", "select"}
StoreCalls == {"stamp", "insert", "upsert", "reload"}
Calls == LookupCalls \cup StoreCalls \cup {"backend", "decide"}

ASSUME FaultsAssumption == Faults \subseteq Calls \cup {"crash"}

HandlerState ==
  [pc : Calls \cup {"idle", "reply"},
   fp : Fp \cup {NoFp},                     \* cache_context.query
   arrived : Nat \cup {NoTime},             \* when the request was received
   cands : SUBSET Fp,                       \* points not yet looked at
   stale : Fp \cup {NoFp},                  \* the first expired candidate
   entry : Fp \cup {NoFp},                  \* cache_context.cache_entry_id
   bucket : Int,                            \* cache_context.ttl_bucket
   chosen : Selectable \cup {NoBucket},     \* the action whose propensity is kept
   created : Nat \cup {NoTime},             \* the created_at of the store
   expires : Nat \cup {NoTime},             \* the expires_at of the entry
   status : {"MISS", "STALE", "HIT"},       \* cache_context.status
   stored : BOOLEAN,                        \* cache_context.stored
   reply : {"none", "cached", "forwarded", "error"}]

Idle ==
  [pc |-> "idle", fp |-> NoFp, arrived |-> NoTime, cands |-> {}, stale |-> NoFp,
   entry |-> NoFp, bucket |-> NoBucket, chosen |-> NoBucket, created |-> NoTime,
   expires |-> NoTime, status |-> "MISS", stored |-> FALSE, reply |-> "none"]

RPInit ==
  /\ StorageInit
  /\ handler = [h \in Handler |-> Idle]
  /\ arrivals = 0

-----------------------------------------------------------------------------
At(h, call) == handler[h].pc = call

Become(h, s) == handler' = [handler EXCEPT ![h] = s]

Goto(h, call) == Become(h, [handler[h] EXCEPT !.pc = call])

\* The client is answered without a new cache entry.
Answer(h, kind) == Become(h, [handler[h] EXCEPT !.pc = "reply", !.reply = kind])

\* A request arrives; a cacheable one is looked up, any other goes upstream.
Receive(h) ==
  /\ At(h, "idle")
  /\ arrivals < MaxRequests
  /\ arrivals' = arrivals + 1
  /\ \/ \E f \in Fp : Become(h, [handler[h] EXCEPT !.pc = "search", !.fp = f,
                                                     !.arrived = clock])
     \/ Become(h, [handler[h] EXCEPT !.pc = "backend", !.arrived = clock])
  /\ UNCHANGED <<clock, storageVars>>

VectorSearch(h) ==
  /\ At(h, "search")
  /\ \E S \in SearchResults(handler[h].fp) :
       Become(h, [handler[h] EXCEPT !.pc = "check", !.cands = S])
  /\ UNCHANGED <<clock, storageVars, arrivals>>

-----------------------------------------------------------------------------
(* The lookup: the candidates are read one by one, best score first. *)

\* Mutant: an entry is served at the very instant it expires.
LiveOrJustExpired(g) == HasRow(g) /\ rows[g].expires >= clock

Live(g) == HasRow(g) /\ ~Expired(rows[g])

\* Mutant: a discarded candidate is not removed, and is read again.
DiscardKeeping(h) == \E g \in Best(handler[h].fp, handler[h].cands) :
  /\ At(h, "check")
  /\ ~Live(g)
  /\ Become(h, [handler[h] EXCEPT !.stale = g, !.bucket = rows[g].bucket])
  /\ UNCHANGED <<clock, storageVars, arrivals>>

\* The candidate has no row, or has expired; the first expired one is kept.
Discard(h) == \E g \in Best(handler[h].fp, handler[h].cands) :
  /\ At(h, "check")
  /\ ~Live(g)
  /\ \/ /\ HasRow(g) /\ handler[h].stale = NoFp
        /\ Become(h, [handler[h] EXCEPT !.cands = @ \ {g}, !.stale = g,
                                        !.bucket = rows[g].bucket])
     \/ /\ ~(HasRow(g) /\ handler[h].stale = NoFp)
        /\ Become(h, [handler[h] EXCEPT !.cands = @ \ {g}])
  /\ UNCHANGED <<clock, storageVars, arrivals>>

\* Mutant: the hit is served without being recorded on the row.
ChooseUncounted(h) == \E g \in Best(handler[h].fp, handler[h].cands) :
  /\ At(h, "check")
  /\ Live(g)
  /\ Become(h, [handler[h] EXCEPT !.pc = "reread", !.cands = @ \ {g}, !.entry = g])
  /\ UNCHANGED <<clock, storageVars, arrivals>>

ChooseLive(h) == \E g \in Best(handler[h].fp, handler[h].cands) :
  /\ At(h, "check")
  /\ Live(g)
  /\ Become(h, [handler[h] EXCEPT !.pc = "mark", !.cands = @ \ {g}, !.entry = g])
  /\ UNCHANGED <<clock, storageVars, arrivals>>

RecordHit(h) ==
  /\ At(h, "mark")
  /\ MarkHit(handler[h].entry)
  /\ Goto(h, "reread")
  /\ UNCHANGED <<clock, points, decisions, feedback, arrivals>>

\* The row is read again after the hit was recorded, and its expiry is not
\* checked again.  (A row that has gone sends the loop on; no row ever goes.)
Reread(h) ==
  /\ At(h, "reread")
  /\ LET g == handler[h].entry
     IN  IF HasRow(g)
         THEN Become(h, [handler[h] EXCEPT !.pc = "logHit", !.status = "HIT",
                !.bucket = rows[g].bucket, !.expires = rows[g].expires])
         ELSE Goto(h, "check")
  /\ UNCHANGED <<clock, storageVars, arrivals>>

\* No candidate is left: a stale hit if one had expired, else a miss.
NoLiveCandidate(h) ==
  /\ At(h, "check")
  /\ handler[h].cands = {}
  /\ \/ /\ handler[h].stale # NoFp
        /\ Become(h, [handler[h] EXCEPT !.pc = "logStale", !.status = "STALE",
                                        !.entry = handler[h].stale])
     \/ handler[h].stale = NoFp /\ Goto(h, "select")
  /\ UNCHANGED <<clock, storageVars, arrivals>>

ServeHit(h) ==
  /\ At(h, "logHit")
  /\ InsertHitServed(handler[h].entry)
  /\ Become(h, [handler[h] EXCEPT !.pc = "reply", !.reply = "cached"])
  /\ UNCHANGED <<clock, rows, points, decisions, arrivals>>

LogStaleHit(h) ==
  /\ At(h, "logStale")
  /\ InsertStaleHit(handler[h].entry)
  /\ Goto(h, "backend")
  /\ UNCHANGED <<clock, rows, points, decisions, arrivals>>

SelectBucket(h) ==
  /\ At(h, "select")
  /\ \E b \in Selectable :
       Become(h, [handler[h] EXCEPT !.pc = "backend", !.bucket = b, !.chosen = b])
  /\ UNCHANGED <<clock, storageVars, arrivals>>

-----------------------------------------------------------------------------
(* The backend and the write-through of its answer. *)

\* The backend answers: a 200 with a JSON object is stored when the request is
\* cacheable; an error status, a stream or another body is only forwarded.
BackendAnswers(h) ==
  /\ At(h, "backend")
  /\ \/ handler[h].fp # NoFp /\ Goto(h, "stamp")
     \/ Answer(h, "forwarded")
  /\ UNCHANGED <<clock, storageVars, arrivals>>

\* store: the bucket is validated, created_at and expires_at are computed.  An
\* invalid bucket raises, and the exception is swallowed.
Stamp(h) ==
  /\ At(h, "stamp")
  /\ LET b == handler[h].bucket
     IN  \/ /\ b \in Buckets
            /\ Become(h, [handler[h] EXCEPT !.pc = "insert", !.created = clock,
                                            !.expires = clock + TTL[b]])
         \/ b \notin Buckets /\ Answer(h, "forwarded")
  /\ UNCHANGED <<clock, storageVars, arrivals>>

\* Mutant: the row takes the policy's action, which a stale hit does not have.
InsertChosenNow(h) ==
  InsertEntry(handler[h].fp, handler[h].chosen, handler[h].created, handler[h].expires)

InsertNow(h) ==
  InsertEntry(handler[h].fp, handler[h].bucket, handler[h].created, handler[h].expires)

\* Mutant: the conflict is ignored and the point is written all the same.
InsertThenIndex(h) ==
  /\ At(h, "insert")
  /\ \/ CanInsert(handler[h].fp) /\ InsertNow(h)
     \/ ~CanInsert(handler[h].fp) /\ UNCHANGED rows
  /\ Goto(h, "upsert")
  /\ UNCHANGED <<clock, points, decisions, feedback, arrivals>>

\* Mutant: a conflict reuses the row that is there as if it were the new one.
InsertOrReuse(h) ==
  /\ At(h, "insert")
  /\ \/ CanInsert(handler[h].fp) /\ InsertNow(h) /\ Goto(h, "upsert")
     \/ ~CanInsert(handler[h].fp) /\ Goto(h, "reload") /\ UNCHANGED rows
  /\ UNCHANGED <<clock, points, decisions, feedback, arrivals>>

\* INSERT INTO cache_entry; the IntegrityError of a second row is swallowed.
Insert(h) ==
  /\ At(h, "insert")
  /\ \/ CanInsert(handler[h].fp) /\ InsertNow(h) /\ Goto(h, "upsert")
     \/ ~CanInsert(handler[h].fp) /\ Answer(h, "forwarded") /\ UNCHANGED rows
  /\ UNCHANGED <<clock, points, decisions, feedback, arrivals>>

Upsert(h) ==
  /\ At(h, "upsert")
  /\ UpsertPoint(handler[h].fp, handler[h].expires)
  /\ Goto(h, "reload")
  /\ UNCHANGED <<clock, rows, decisions, feedback, arrivals>>

\* The stored row is read back; the bucket logged is the one it then holds.
Reload(h) ==
  /\ At(h, "reload")
  /\ LET f == handler[h].fp
     IN  IF HasRow(f)
         THEN Become(h, [handler[h] EXCEPT !.pc = "decide", !.entry = f,
                                           !.bucket = rows[f].bucket])
         ELSE Answer(h, "forwarded")
  /\ UNCHANGED <<clock, storageVars, arrivals>>

InsertDecisionNow(h) ==
  InsertDecision(handler[h].fp, handler[h].bucket, handler[h].chosen)

LogDecision(h) ==
  /\ At(h, "decide")
  /\ InsertDecisionNow(h)
  /\ Become(h, [handler[h] EXCEPT !.pc = "reply", !.reply = "forwarded",
                                  !.stored = TRUE])
  /\ UNCHANGED <<clock, rows, points, feedback, arrivals>>

\* The response leaves; the worker thread is free.
Respond(h) ==
  /\ At(h, "reply")
  /\ Become(h, Idle)
  /\ UNCHANGED <<clock, storageVars, arrivals>>

-----------------------------------------------------------------------------
(* Failures.  A call raises; the statement it sent may have taken effect all *)
(* the same, when only the acknowledgement was lost.                         *)

Effect(h) ==
  CASE At(h, "mark")     -> MarkHit(handler[h].entry)
                            /\ UNCHANGED <<points, decisions, feedback>>
    [] At(h, "logHit")   -> InsertHitServed(handler[h].entry)
                            /\ UNCHANGED <<rows, points, decisions>>
    [] At(h, "logStale") -> InsertStaleHit(handler[h].entry)
                            /\ UNCHANGED <<rows, points, decisions>>
    [] At(h, "insert")   -> CanInsert(handler[h].fp) /\ InsertNow(h)
                            /\ UNCHANGED <<points, decisions, feedback>>
    [] At(h, "upsert")   -> UpsertPoint(handler[h].fp, handler[h].expires)
                            /\ UNCHANGED <<rows, decisions, feedback>>
    [] At(h, "decide")   -> InsertDecisionNow(h)
                            /\ UNCHANGED <<rows, points, feedback>>
    [] OTHER             -> FALSE

\* Mutant: indexing is best effort, the entry counts as stored without a point.
FailIndexing(h) ==
  /\ handler[h].pc \in Faults
  /\ Effect(h) \/ UNCHANGED storageVars
  /\ IF At(h, "upsert") THEN Goto(h, "reload")
     ELSE Answer(h, IF handler[h].pc \in StoreCalls THEN "forwarded" ELSE "error")
  /\ UNCHANGED <<clock, arrivals>>

\* _maybe_store_response swallows what store raises and the backend's answer is
\* forwarded.  Whatever a lookup, a selection, a decision log or a feedback log
\* raises becomes a 500, and an error of the backend a 502.
Fail(h) ==
  /\ handler[h].pc \in Faults
  /\ Effect(h) \/ UNCHANGED storageVars
  /\ Answer(h, IF handler[h].pc \in StoreCalls THEN "forwarded" ELSE "error")
  /\ UNCHANGED <<clock, arrivals>>

\* The process dies and is started again: its requests are gone.
Crash ==
  /\ "crash" \in Faults
  /\ \E h \in Handler : ~At(h, "idle")
  /\ handler' = [h \in Handler |-> Idle]
  /\ UNCHANGED <<clock, storageVars, arrivals>>

-----------------------------------------------------------------------------
HandlerStep(h) ==
  \/ VectorSearch(h) \/ Discard(h) \/ ChooseLive(h) \/ RecordHit(h) \/ Reread(h)
  \/ NoLiveCandidate(h) \/ ServeHit(h) \/ LogStaleHit(h) \/ SelectBucket(h)
  \/ BackendAnswers(h) \/ Stamp(h) \/ Insert(h) \/ Upsert(h) \/ Reload(h)
  \/ LogDecision(h) \/ Respond(h)

RPNext ==
  \/ Tick /\ UNCHANGED requestVars
  \/ \E h \in Handler : Receive(h) \/ HandlerStep(h) \/ Fail(h)
  \/ Crash

\* A thread that has a request keeps running and no call takes for ever; a client
\* need not send a request, and no call needs to fail.
RPSpec == RPInit /\ [][RPNext]_rpVars /\ \A h \in Handler : WF_rpVars(HandlerStep(h))

-----------------------------------------------------------------------------
(* Properties.  A fingerprint is an orphan when it has a row that lookups    *)
(* cannot find and that nobody is about to index.                            *)

Writing(h, f) == handler[h].fp = f /\ At(h, "upsert")
Orphan(f) == HasRow(f) /\ ~HasPoint(f) /\ \A h \in Handler : ~Writing(h, f)

\* The variables keep their types; a bucket the policy or the default setting invents
\* never reaches a row or a decision.
RPTypeOK ==
  /\ StorageTypeOK
  /\ handler \in [Handler -> HandlerState]
  /\ arrivals \in Nat

\* The vector store never points at a row that does not exist or that expires at
\* another time: whatever fails, crashes or races, store writes the row first.
PointMatchesRow ==
  \A f \in Fp : HasPoint(f) => HasRow(f) /\ points[f] = rows[f].expires

\* A logged decision belongs to an entry that lookups can find; it names the
\* bucket of that entry, and the propensity it keeps is of that same bucket.
DecisionMatchesEntry ==
  \A f \in Fp : HasDecision(f) =>
    /\ HasRow(f) /\ HasPoint(f)
    /\ decisions[f].bucket = rows[f].bucket
    /\ decisions[f].chosen \in {decisions[f].bucket, NoBucket}

\* What is served from the cache was not expired when the request arrived, though
\* time passes between the search, the check, the second read and the reply.
ServedHitWasLive ==
  \A h \in Handler : At(h, "reply") /\ handler[h].reply = "cached" =>
    LET g == handler[h].entry
    IN  /\ HasRow(g) /\ HasPoint(g)
        /\ rows[g].expires > handler[h].arrived

\* A response reported as stored is on record in all three stores.
StoredMeansRetrievable ==
  \A h \in Handler : At(h, "reply") /\ handler[h].stored =>
    LET f == handler[h].fp
    IN  /\ HasPoint(f) /\ HasDecision(f)
        /\ rows[f].created = handler[h].created
        /\ rows[f].expires = handler[h].expires

-----------------------------------------------------------------------------
(* The inductive invariant: what each call relies on when it is made. *)

\* The row of h's fingerprint is the one h inserted.
OwnRow(h) ==
  LET f == handler[h].fp
  IN  /\ f \in Fp /\ HasRow(f)
      /\ rows[f].bucket = handler[h].bucket
      /\ rows[f].created = handler[h].created
      /\ rows[f].expires = handler[h].expires

\* The entry h is about to serve or has served.
ServableEntry(h) ==
  LET g == handler[h].entry
  IN  g \in Fp /\ HasRow(g) /\ HasPoint(g) /\ rows[g].expires > handler[h].arrived

\* Before the call, what the request has gathered so far is as the call expects it.
LookupOK(h) ==
  /\ ~At(h, "idle") => handler[h].arrived \in Nat /\ handler[h].arrived <= clock
  /\ handler[h].pc \in LookupCalls \cup StoreCalls \cup {"decide"} => handler[h].fp \in Fp
  /\ \A g \in handler[h].cands : HasPoint(g)
  /\ handler[h].stale # NoFp => HasRow(handler[h].stale)
  /\ handler[h].chosen \in {handler[h].bucket, NoBucket}
  /\ handler[h].pc \in LookupCalls \cup {"idle"} => handler[h].chosen = NoBucket

ServeOK(h) ==
  /\ handler[h].pc \in {"mark", "reread", "logHit"} => ServableEntry(h)
  /\ At(h, "logStale") => handler[h].entry \in Fp /\ HasRow(handler[h].entry)
  /\ handler[h].reply = "cached" => At(h, "reply") /\ ServableEntry(h)

WriteOK(h) ==
  /\ At(h, "insert") => /\ handler[h].bucket \in Buckets
                        /\ handler[h].created \in Nat /\ handler[h].expires \in Nat
  /\ handler[h].pc \in {"upsert", "reload", "decide"} => OwnRow(h)
  /\ handler[h].pc \in {"reload", "decide"} => HasPoint(handler[h].fp)
  /\ handler[h].stored => /\ At(h, "reply") /\ OwnRow(h)
                          /\ HasPoint(handler[h].fp) /\ HasDecision(handler[h].fp)

\* What holds between any two calls, of the stores and of every request in flight.
RPInv ==
  /\ RPTypeOK
  /\ PointMatchesRow
  /\ DecisionMatchesEntry
  /\ \A h \in Handler : LookupOK(h) /\ ServeOK(h) /\ WriteOK(h)

\* Every hit that was reported served has been counted on its row.
ServedHitsAreCounted == \A f \in Fp : feedback[f].hit <= rows[f].hits

\* The first row of a fingerprint stays: a racing or a later miss never replaces
\* it, in part or whole, and never resets its hit counter.
FirstRowStays ==
  [][\A f \in Fp : HasRow(f) =>
       /\ rows'[f] = [rows[f] EXCEPT !.hits = rows'[f].hits]
       /\ rows'[f].hits >= rows[f].hits]_rpVars

\* A row whose point was never written (store failed or the process died between
\* the two writes) is never indexed later: the fingerprint stays unfindable.
OrphansStay == [][\A f \in Fp : Orphan(f) => Orphan(f)']_rpVars

\* DESIGN: "On misses, successful JSON responses are persisted back through
\* Postgres + Qdrant."  After a miss whose answer was to be stored, the fingerprint
\* has an indexed row that was live when the answer was stamped.
MissIsPersisted ==
  \A h \in Handler :
    At(h, "reply") /\ handler[h].status = "MISS" /\ handler[h].created # NoTime =>
      LET f == handler[h].fp
      IN  HasPoint(f) /\ rows[f].expires > handler[h].created

\* DESIGN: "Backend responses (status/body/headers) are forwarded verbatim except
\* hop-by-hop headers."  Once the backend has answered, the client gets its answer.
BackendAnswerIsForwarded ==
  [][\A h \in Handler :
       handler[h].pc \in StoreCalls \cup {"decide"} /\ handler'[h].pc = "reply" =>
         handler'[h].reply = "forwarded"]_rpVars

(* The stores, read as the entries of EntryLifecycle. *)

StageOf(f) ==
  CASE HasDecision(f)                                  -> "decided"
    [] HasPoint(f) /\ ~HasDecision(f)                  -> "indexed"
    [] HasRow(f) /\ ~HasPoint(f) /\ ~HasDecision(f)    -> "stored"
    [] OTHER                                           -> "absent"

LeaseOf(row) ==
  [bucket |-> row.bucket, created |-> row.created, expires |-> row.expires]

Entries == INSTANCE EntryLifecycle WITH
             now <- clock,
             stage <- [f \in Fp |-> StageOf(f)],
             lease <- [f \in Fp |-> LeaseOf(rows[f])],
             found <- points,
             hits <- [f \in Fp |-> rows[f].hits],
             served <- [f \in Fp |-> feedback[f].hit],
             Movable <- FALSE

\* Concurrent misses of one prompt, lost acknowledgements and crashes included, the
\* three stores together go through the steps of EntryLifecycle and no others: one
\* store, its index, its decision, and no hit served that was not counted.
ImplementsEntryLifecycle == Entries!Spec

\* Every request that arrives is answered, whatever the calls raise.
EveryRequestIsAnswered ==
  \A h \in Handler : ~At(h, "idle") ~> At(h, "idle")

=============================================================================
