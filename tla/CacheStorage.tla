---------------------------- MODULE CacheStorage ----------------------------
(***************************************************************************)
(* The durable state of the semantic cache, and the statements that change *)
(* it: the Postgres tables behind app/cache/repository.py and the Qdrant   *)
(* collection behind app/cache/qdrant.py.  Every operator below is ONE     *)
(* database statement or one Qdrant call, so it is atomic; what is not     *)
(* atomic is their combination, which the modules that extend this one     *)
(* spell out step by step.                                                 *)
(*                                                                         *)
(* A cache_entry row has a random identifier and a UNIQUE request          *)
(* fingerprint, and no statement of the program deletes a row.  At most    *)
(* one row ever exists for a fingerprint, so the fingerprint names the     *)
(* entry here.  A Qdrant point carries the identifier of its row.          *)
(***************************************************************************)
EXTENDS Integers, FiniteSets

CONSTANTS
  Fp,           \* request fingerprints (model, parameters and prompt)
  Score,        \* request -> entry -> similarity; 0 below similarity_threshold
                \* or for another model or other parameters
  SearchLimit,  \* SemanticCacheSettings.search_limit
  LastBucket,   \* index of the last TTL bucket
  TTL,          \* bucket -> time to live, in clock ticks
  MaxTime       \* bound on the clock (of the model only)

Buckets == 0 .. LastBucket
NoBucket == -1
NoTime == -1

ASSUME BucketAssumption == LastBucket \in Nat
ASSUME TTLAssumption == TTL \in [Buckets -> Nat]
ASSUME ScoreAssumption == Score \in [Fp -> [Fp -> Nat]]
ASSUME LimitAssumption == SearchLimit \in Nat
ASSUME TimeAssumption == MaxTime \in Nat

VARIABLES
  clock,      \* datetime.now(UTC)
  rows,       \* cache_entry: Fp -> row or NoRow
  points,     \* Qdrant: Fp -> expires_at_ts of the point, or NoTime
  decisions,  \* ttl_decision: Fp -> decision or NoDecision
  feedback    \* feedback_event: Fp -> number of serving events of each type

storageVars == <<rows, points, decisions, feedback>>

(***************************************************************************)
(* NoRow and NoDecision are records of the row's shape whose bucket is no  *)
(* bucket: the absence of the row.                                         *)
(***************************************************************************)
Row == [bucket : Buckets, created : Nat, expires : Nat, hits : Nat]
NoRow == [bucket |-> NoBucket, created |-> NoTime, expires |-> NoTime, hits |-> 0]

\* bucket is the one logged; chosen is the policy's action, whose propensity
\* the decision carries, or NoBucket when the policy was not asked.
Decision == [bucket : Buckets, chosen : Buckets \cup {NoBucket}]
NoDecision == [bucket |-> NoBucket, chosen |-> NoBucket]

HasRow(f) == rows[f] # NoRow
HasPoint(f) == points[f] # NoTime
HasDecision(f) == decisions[f] # NoDecision

\* An entry whose lifetime has run out: the comparison of the lookup's check.
Expired(row) == row.expires <= clock

StorageTypeOK ==
  /\ clock \in Nat
  /\ rows \in [Fp -> Row \cup {NoRow}]
  /\ points \in [Fp -> Nat \cup {NoTime}]
  /\ decisions \in [Fp -> Decision \cup {NoDecision}]
  /\ feedback \in [Fp -> [hit : Nat, stale : Nat]]

StorageInit ==
  /\ clock = 0
  /\ rows = [f \in Fp |-> NoRow]
  /\ points = [f \in Fp |-> NoTime]
  /\ decisions = [f \in Fp |-> NoDecision]
  /\ feedback = [f \in Fp |-> [hit |-> 0, stale |-> 0]]

\* Mutant: no UNIQUE constraint, a second row takes the place of the first.
CanInsertAlways(f) == TRUE

\* INSERT INTO cache_entry, refused by the UNIQUE fingerprint.
CanInsert(f) == ~HasRow(f)

InsertEntry(f, bucket, created, expires) ==
  rows' = [rows EXCEPT ![f] = [bucket |-> bucket, created |-> created,
                               expires |-> expires, hits |-> 0]]

\* UPDATE cache_entry SET hit_count = hit_count + 1.
MarkHit(f) == rows' = [rows EXCEPT ![f].hits = @ + 1]

\* Qdrant upsert of the point and its payload.
UpsertPoint(f, expires) == points' = [points EXCEPT ![f] = expires]

\* Qdrant search.  Findable are the points above the threshold whose payload's
\* expiry is not before now; Best are those of a set with the highest score; a
\* result holds SearchLimit points at most and leaves none that scores higher.
Findable(f) == {g \in Fp : HasPoint(g) /\ Score[f][g] > 0 /\ points[g] >= clock}

Best(f, S) == {g \in S : \A other \in S : Score[f][other] <= Score[f][g]}

SearchResults(f) ==
  {S \in SUBSET Findable(f) :
     /\ Cardinality(S) <= SearchLimit
     /\ Cardinality(S) < SearchLimit => S = Findable(f)
     /\ \A g \in S, other \in Findable(f) \ S : Score[f][other] <= Score[f][g]}

\* INSERT INTO ttl_decision.
InsertDecision(f, bucket, chosen) ==
  decisions' = [decisions EXCEPT ![f] = [bucket |-> bucket, chosen |-> chosen]]

\* INSERT INTO feedback_event of type cache_hit_served or cache_stale_hit.
InsertHitServed(f) == feedback' = [feedback EXCEPT ![f].hit = @ + 1]
InsertStaleHit(f) == feedback' = [feedback EXCEPT ![f].stale = @ + 1]

\* Time passes.
Tick ==
  /\ clock < MaxTime
  /\ clock' = clock + 1
  /\ UNCHANGED storageVars

=============================================================================
