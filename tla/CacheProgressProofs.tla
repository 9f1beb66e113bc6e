------------------------ MODULE CacheProgressProofs ------------------------
(***************************************************************************)
(* What the steps of CacheSystem can never do, for any number of requests  *)
(* and refresh cycles over any set of entries: write a point twice, index  *)
(* an entry that store left unindexed, or go round in circles.  And the    *)
(* conditions under which two sentences of DESIGN that the code breaks     *)
(* would be kept: each names the one cause of its finding.                 *)
(*                                                                         *)
(* The argument: a request goes through its calls along a graph without    *)
(* cycles (Follows), and so does a refresh cycle (FollowsCycle); the only  *)
(* way to the upsert is an insert that found no row.                       *)
(***************************************************************************)
EXTENDS CacheLifecycleProofs

-----------------------------------------------------------------------------
(* The calls of a request.                                                   *)

\* After the call of state s a request is in state t.
Follows(s, t) ==
  \/ s.pc = "search" /\ t.pc = "check" /\ t.cands \subseteq Fp /\ Cardinality(t.cands) <= SearchLimit
  \/ /\ s.pc = "check" /\ t.pc \in {"check", "mark"}
     /\ \E g \in s.cands : t.cands = s.cands \ {g}
  \/ s.pc = "check" /\ t.pc \in {"logStale", "select"}
  \/ s.pc = "mark" /\ t.pc = "reread" /\ t.cands = s.cands
  \/ s.pc = "reread" /\ t.pc = "logHit"
  \/ s.pc \in {"logStale", "select"} /\ t.pc = "backend"
  \/ s.pc = "backend" /\ t.pc = "stamp"
  \/ s.pc = "stamp" /\ t.pc = "insert"
  \/ s.pc = "insert" /\ t.pc = "upsert" /\ t.fp = s.fp /\ t.expires = s.expires
  \/ s.pc = "upsert" /\ t.pc = "reload"
  \/ s.pc = "reload" /\ t.pc = "decide"
  \/ s.pc \notin {"idle", "reply"} /\ t.pc = "reply"
  \/ s.pc = "reply" /\ t.pc = "idle"

\* A call of a lookup leads on to the next candidate, to a hit or away from the lookup.
LEMMA LookupFollows ==
  ASSUME SystemInv, NEW h \in Handler,
         \/ VectorSearch(h) \/ Discard(h) \/ ChooseLive(h) \/ RecordHit(h) \/ Reread(h)
         \/ NoLiveCandidate(h) \/ ServeHit(h) \/ LogStaleHit(h) \/ SelectBucket(h)
  PROVE  Follows(handler[h], handler'[h])
<1>0. handler[h] \in HandlerState /\ handler \in [Handler -> HandlerState] /\ RequestOK(handler[h])
  BY Facts DEF SystemInv
<1>1. ASSUME NEW s, Become(h, s) PROVE handler'[h] = s
  BY <1>0, <1>1 DEF Become
<1>2. CASE VectorSearch(h)
  <2>1. PICK S \in SearchResults(handler[h].fp) :
          Become(h, [handler[h] EXCEPT !.pc = "check", !.cands = S])
    BY <1>2 DEF VectorSearch
  <2>2. S \subseteq Fp /\ Cardinality(S) <= SearchLimit
    BY <2>1 DEF SearchResults, Findable
  <2> DEFINE s == [handler[h] EXCEPT !.pc = "check", !.cands = S]
  <2>3. s.pc = "check" /\ s.cands = S /\ handler[h].pc = "search"
    BY <1>0, <1>2 DEF VectorSearch, At, HandlerState
  <2> HIDE DEF s
  <2> QED
    BY <1>1, <2>1, <2>2, <2>3 DEF Follows, s
<1>3. CASE Discard(h)
  <2>1. PICK g \in handler[h].cands :
          \/ Become(h, [handler[h] EXCEPT !.cands = @ \ {g}, !.stale = g,
                                          !.bucket = rows[g].bucket])
          \/ Become(h, [handler[h] EXCEPT !.cands = @ \ {g}])
    BY <1>3 DEF Discard, Best
  <2> DEFINE s == [handler[h] EXCEPT !.cands = @ \ {g}, !.stale = g, !.bucket = rows[g].bucket]
             t == [handler[h] EXCEPT !.cands = @ \ {g}]
  <2>2. /\ handler[h].pc = "check" /\ s.pc = "check" /\ t.pc = "check"
        /\ s.cands = handler[h].cands \ {g} /\ t.cands = handler[h].cands \ {g}
    BY <1>0, <1>3 DEF Discard, At, HandlerState
  <2>3. handler'[h] = s \/ handler'[h] = t
    BY <1>1, <2>1
  <2> HIDE DEF s, t
  <2> QED
    BY <2>2, <2>3 DEF Follows
<1>4. CASE ChooseLive(h)
  <2>1. PICK g \in handler[h].cands :
          Become(h, [handler[h] EXCEPT !.pc = "mark", !.cands = @ \ {g}, !.entry = g])
    BY <1>4 DEF ChooseLive, Best
  <2> DEFINE s == [handler[h] EXCEPT !.pc = "mark", !.cands = @ \ {g}, !.entry = g]
  <2>2. handler[h].pc = "check" /\ s.pc = "mark" /\ s.cands = handler[h].cands \ {g}
    BY <1>0, <1>4 DEF ChooseLive, At, HandlerState
  <2>3. handler'[h] = s
    BY <1>1, <2>1
  <2> HIDE DEF s
  <2> QED
    BY <2>2, <2>3 DEF Follows
<1>5. CASE RecordHit(h)
  <2> DEFINE s == [handler[h] EXCEPT !.pc = "reread"]
  <2>1. handler[h].pc = "mark" /\ s.pc = "reread" /\ s.cands = handler[h].cands /\ handler'[h] = s
    BY <1>0, <1>1, <1>5 DEF RecordHit, Goto, At, HandlerState
  <2> QED
    BY <2>1 DEF Follows
<1>6. CASE Reread(h)
  <2>1. handler[h].pc = "reread" /\ HasRow(handler[h].entry)
    BY <1>0, <1>6 DEF Reread, At, RequestOK
  <2>2. handler'[h].pc = "logHit"
    BY <1>0, <1>1, <1>6, <2>1 DEF Reread, HandlerState
  <2> QED
    BY <2>1, <2>2 DEF Follows
<1>7. CASE NoLiveCandidate(h)
  <2>1. handler[h].pc = "check" /\ handler'[h].pc \in {"logStale", "select"}
    BY <1>0, <1>1, <1>7 DEF NoLiveCandidate, Goto, At, HandlerState
  <2> QED
    BY <2>1 DEF Follows
<1>8. CASE ServeHit(h)
  <2>1. handler[h].pc = "logHit" /\ handler'[h].pc = "reply"
    BY <1>0, <1>1, <1>8 DEF ServeHit, At, HandlerState
  <2> QED
    BY <2>1 DEF Follows
<1>9. CASE LogStaleHit(h) \/ SelectBucket(h)
  <2>1. handler[h].pc \in {"logStale", "select"} /\ handler'[h].pc = "backend"
    BY <1>0, <1>1, <1>9 DEF LogStaleHit, SelectBucket, Goto, At, HandlerState
  <2> QED
    BY <2>1 DEF Follows
<1> QED
  BY <1>2, <1>3, <1>4, <1>5, <1>6, <1>7, <1>8, <1>9

\* A call from the backend on leads to the next one of the store or to the answer.
LEMMA StoreFollows ==
  ASSUME SystemInv, NEW h \in Handler,
         \/ BackendAnswers(h) \/ Stamp(h) \/ Insert(h) \/ Upsert(h) \/ Reload(h)
         \/ LogDecision(h) \/ Respond(h) \/ Fail(h)
  PROVE  Follows(handler[h], handler'[h])
<1>0. handler[h] \in HandlerState /\ handler \in [Handler -> HandlerState]
  BY Facts
<1>1. ASSUME NEW s, Become(h, s) PROVE handler'[h] = s
  BY <1>0, <1>1 DEF Become
<1>2. CASE BackendAnswers(h)
  <2>1. handler[h].pc = "backend" /\ handler'[h].pc \in {"stamp", "reply"}
    BY <1>0, <1>1, <1>2 DEF BackendAnswers, Goto, Answer, At, HandlerState
  <2> QED
    BY <2>1 DEF Follows
<1>3. CASE Stamp(h)
  <2>1. handler[h].pc = "stamp" /\ handler'[h].pc \in {"insert", "reply"}
    BY <1>0, <1>1, <1>3 DEF Stamp, Answer, At, HandlerState
  <2> QED
    BY <2>1 DEF Follows
<1>4. CASE Insert(h)
  <2> DEFINE s == [handler[h] EXCEPT !.pc = "upsert"]
  <2>1. /\ handler[h].pc = "insert" /\ s.pc = "upsert" /\ s.fp = handler[h].fp
        /\ s.expires = handler[h].expires
        /\ handler'[h] = s \/ handler'[h].pc = "reply"
    BY <1>0, <1>1, <1>4 DEF Insert, Goto, Answer, At, HandlerState
  <2> HIDE DEF s
  <2> QED
    BY <2>1 DEF Follows
<1>5. CASE Upsert(h)
  <2>1. handler[h].pc = "upsert" /\ handler'[h].pc = "reload"
    BY <1>0, <1>1, <1>5 DEF Upsert, Goto, At, HandlerState
  <2> QED
    BY <2>1 DEF Follows
<1>6. CASE Reload(h)
  <2>1. handler[h].pc = "reload" /\ handler'[h].pc \in {"decide", "reply"}
    BY <1>0, <1>1, <1>6 DEF Reload, Answer, At, HandlerState
  <2> QED
    BY <2>1 DEF Follows
<1>7. CASE LogDecision(h)
  <2>1. handler[h].pc = "decide" /\ handler'[h].pc = "reply"
    BY <1>0, <1>1, <1>7 DEF LogDecision, At, HandlerState
  <2> QED
    BY <2>1 DEF Follows
<1>8. CASE Respond(h)
  <2>1. handler[h].pc = "reply" /\ handler'[h].pc = "idle"
    BY <1>1, <1>8 DEF Respond, Idle, At
  <2> QED
    BY <2>1 DEF Follows
<1>9. CASE Fail(h)
  <2>1. handler'[h].pc = "reply"
    BY <1>0, <1>1, <1>9 DEF Fail, Answer, HandlerState
  <2>2. handler[h].pc \notin {"idle", "reply"}
    BY <1>9, FaultsAssumption DEF Fail, Calls, LookupCalls, StoreCalls
  <2> QED
    BY <2>1, <2>2 DEF Follows
<1> QED
  BY <1>2, <1>3, <1>4, <1>5, <1>6, <1>7, <1>8, <1>9

\* Whatever the system does, a request stays where it is, is forgotten by a crash, begins, or
\* goes on to what follows.
LEMMA RequestGoesOn ==
  ASSUME SystemInv, [SystemNext]_systemVars, NEW k \in Handler
  PROVE  \/ handler'[k] = handler[k]
         \/ handler'[k] = Idle
         \/ At(k, "idle") /\ handler'[k].pc \in {"search", "backend"}
         \/ Follows(handler[k], handler'[k])
<1>1. CASE \E h \in Handler : RequestStep(h)
  <2>1. PICK h \in Handler : Receive(h) \/ HandlerStep(h) \/ Fail(h)
    BY <1>1 DEF RequestStep
  <2>2. CASE h # k
    BY <2>1, <2>2, OthersStay
  <2>3. CASE h = k /\ Receive(h)
    <3>1. handler[h] \in HandlerState /\ handler \in [Handler -> HandlerState]
      BY Facts
    <3>2. ASSUME NEW s, Become(h, s), s.pc \in {"search", "backend"}
          PROVE  handler'[h].pc \in {"search", "backend"}
      BY <3>1, <3>2 DEF Become
    <3>3. handler'[h].pc \in {"search", "backend"}
      BY <2>3, <3>1, <3>2 DEF Receive, HandlerState
    <3> QED
      BY <2>3, <3>3 DEF Receive
  <2>4. CASE h = k /\ ~Receive(h)
    BY <2>1, <2>4, LookupFollows, StoreFollows DEF HandlerStep
  <2> QED
    BY <2>1, <2>2, <2>3, <2>4
<1>2. CASE Crash
  BY <1>2 DEF Crash
<1>3. CASE UNCHANGED handler
  BY <1>3
<1> QED
  BY <1>1, <1>2, <1>3 DEF SystemNext, RefreshStep, requestVars, systemVars

-----------------------------------------------------------------------------
(* How many calls are left to a request.                                     *)

\* The calls a request in state s still makes, its answer included, at most.
CallsLeft(s) ==
  CASE s.pc = "search"  -> 3 * SearchLimit + 10
    [] s.pc = "check"   -> 3 * Cardinality(s.cands) + 9
    [] s.pc = "mark"    -> 3 * Cardinality(s.cands) + 11
    [] s.pc = "reread"  -> 3 * Cardinality(s.cands) + 10
    [] s.pc \in {"logHit", "logStale", "select"} -> 8
    [] s.pc = "backend" -> 7
    [] s.pc = "stamp"   -> 6
    [] s.pc = "insert"  -> 5
    [] s.pc = "upsert"  -> 4
    [] s.pc = "reload"  -> 3
    [] s.pc = "decide"  -> 2
    [] s.pc = "reply"   -> 1
    [] OTHER            -> 0

\* With a step a request comes nearer to its answer: no interleaving with other requests, with
\* refresh cycles or with failures makes it call in circles.
RequestsAdvance ==
  [][\A h \in Handler : ~At(h, "idle") /\ handler'[h] # handler[h] =>
       CallsLeft(handler'[h]) < CallsLeft(handler[h])]_systemVars

\* A request makes at most ten calls and three more for each candidate of its search.
RequestsAreShort == \A h \in Handler : CallsLeft(handler[h]) <= 3 * SearchLimit + 10

\* What is left after each of the calls.
LEMMA CallsOf ==
  ASSUME NEW s \in HandlerState, NEW t, IsFiniteSet(Fp), Follows(s, t)
  PROVE  CallsLeft(t) < CallsLeft(s)
<1>0. SearchLimit \in Nat
  BY LimitAssumption
<1>1. IsFiniteSet(s.cands) /\ Cardinality(s.cands) \in Nat
  <2>1. s.cands \subseteq Fp
    BY DEF HandlerState
  <2> QED
    BY <2>1, FS_Subset, FS_CardinalityType
<1>2. CASE s.pc = "search" /\ t.pc = "check" /\ t.cands \subseteq Fp /\ Cardinality(t.cands) <= SearchLimit
  <2>1. Cardinality(t.cands) \in Nat
    BY <1>2, FS_Subset, FS_CardinalityType
  <2>2. CallsLeft(t) = 3 * Cardinality(t.cands) + 9 /\ CallsLeft(s) = 3 * SearchLimit + 10
    BY <1>2 DEF CallsLeft
  <2> QED
    BY <1>0, <1>2, <2>1, <2>2
<1>3. CASE s.pc = "check" /\ t.pc \in {"check", "mark"} /\ \E g \in s.cands : t.cands = s.cands \ {g}
  <2>1. Cardinality(t.cands) = Cardinality(s.cands) - 1
    BY <1>1, <1>3, FS_RemoveElement
  <2>2. /\ CallsLeft(s) = 3 * Cardinality(s.cands) + 9
        /\ \/ CallsLeft(t) = 3 * Cardinality(t.cands) + 9
           \/ CallsLeft(t) = 3 * Cardinality(t.cands) + 11
    BY <1>3 DEF CallsLeft
  <2> QED
    BY <1>1, <2>1, <2>2
<1>4. CASE s.pc = "check" /\ t.pc \in {"logStale", "select"}
  <2>1. CallsLeft(s) = 3 * Cardinality(s.cands) + 9 /\ CallsLeft(t) = 8
    BY <1>4 DEF CallsLeft
  <2> QED
    BY <1>1, <2>1
<1>5. CASE s.pc = "mark" /\ t.pc = "reread" /\ t.cands = s.cands
  <2>1. /\ CallsLeft(s) = 3 * Cardinality(s.cands) + 11
        /\ CallsLeft(t) = 3 * Cardinality(s.cands) + 10
    BY <1>5 DEF CallsLeft
  <2> QED
    BY <1>1, <2>1
<1>6. CASE s.pc = "reread" /\ t.pc = "logHit"
  <2>1. CallsLeft(s) = 3 * Cardinality(s.cands) + 10 /\ CallsLeft(t) = 8
    BY <1>6 DEF CallsLeft
  <2> QED
    BY <1>1, <2>1
<1>7. CASE s.pc \notin {"idle", "reply"} /\ t.pc = "reply"
  <2>1. CallsLeft(t) = 1
    BY <1>7 DEF CallsLeft
  <2>2. CASE s.pc \in {"search", "check", "mark", "reread"}
    <3>1. \E n \in Nat : CallsLeft(s) = 3 * n + 9 \/ CallsLeft(s) = 3 * n + 10 \/ CallsLeft(s) = 3 * n + 11
      BY <1>0, <1>1, <2>2 DEF CallsLeft
    <3> QED
      BY <2>1, <3>1
  <2>3. CASE s.pc \notin {"search", "check", "mark", "reread"}
    BY <1>7, <2>1, <2>3 DEF CallsLeft, HandlerState, Calls, LookupCalls, StoreCalls
  <2> QED
    BY <2>2, <2>3
<1>8. CASE \/ s.pc \in {"logStale", "select"} /\ t.pc = "backend"
           \/ s.pc = "backend" /\ t.pc = "stamp"
           \/ s.pc = "stamp" /\ t.pc = "insert"
           \/ s.pc = "insert" /\ t.pc = "upsert"
           \/ s.pc = "upsert" /\ t.pc = "reload"
           \/ s.pc = "reload" /\ t.pc = "decide"
           \/ s.pc = "reply" /\ t.pc = "idle"
  BY <1>8 DEF CallsLeft
<1> QED
  BY <1>2, <1>3, <1>4, <1>5, <1>6, <1>7, <1>8 DEF Follows

\* A step brings a busy request nearer to its answer, or leaves it where it is.
LEMMA Advances ==
  ASSUME SystemInv, [SystemNext]_systemVars, IsFiniteSet(Fp), NEW h \in Handler, ~At(h, "idle"),
         handler'[h] # handler[h]
  PROVE  CallsLeft(handler'[h]) < CallsLeft(handler[h])
<1>0. handler[h] \in HandlerState
  BY Facts
<1>1. CASE handler'[h] = Idle
  <2>1. CallsLeft(handler'[h]) = 0
    BY <1>1 DEF CallsLeft, Idle
  <2>2. CASE handler[h].pc \in {"search", "check", "mark", "reread"}
    <3>1. /\ IsFiniteSet(handler[h].cands) /\ Cardinality(handler[h].cands) \in Nat
          /\ SearchLimit \in Nat
      BY <1>0, FS_Subset, FS_CardinalityType, LimitAssumption DEF HandlerState
    <3>2. \E n \in Nat : CallsLeft(handler[h]) \in {3 * n + 9, 3 * n + 10, 3 * n + 11}
      BY <2>2, <3>1 DEF CallsLeft
    <3> QED
      BY <2>1, <3>2
  <2>3. CASE handler[h].pc \notin {"search", "check", "mark", "reread"}
    BY <1>0, <2>1, <2>3 DEF At, CallsLeft, HandlerState, Calls, LookupCalls, StoreCalls
  <2> QED
    BY <2>2, <2>3
<1>2. CASE Follows(handler[h], handler'[h])
  BY <1>0, <1>2, CallsOf
<1> QED
  BY <1>1, <1>2, RequestGoesOn

\* With Fp finite, as the SHA-256 digests are, a request can only go forward, whatever its
\* threads, the cycles and the failures do: no execution makes it call for ever.
THEOREM RequestsGoForward ==
  ASSUME IsFiniteSet(Fp)
  PROVE  SystemSpec => RequestsAdvance
<1>1. ASSUME SystemInv, [SystemNext]_systemVars
      PROVE  \A h \in Handler : ~At(h, "idle") /\ handler'[h] # handler[h] =>
               CallsLeft(handler'[h]) < CallsLeft(handler[h])
  BY <1>1, Advances
<1>2. SystemInv /\ [SystemNext]_systemVars =>
        [\A h \in Handler : ~At(h, "idle") /\ handler'[h] # handler[h] =>
           CallsLeft(handler'[h]) < CallsLeft(handler[h])]_systemVars
  BY <1>1
<1> QED
  BY <1>2, SystemInvariant, PTL DEF SystemSpec, RequestsAdvance

\* A request is answered after at most ten calls, and three more for each candidate that
\* search_limit lets its search return.
THEOREM RequestsStayShort ==
  ASSUME IsFiniteSet(Fp)
  PROVE  SystemSpec => []RequestsAreShort
<1>0. SearchLimit \in Nat
  BY LimitAssumption
<1>1. ASSUME SystemInit PROVE RequestsAreShort
  BY <1>0, <1>1 DEF SystemInit, RPInit, Idle, CallsLeft, RequestsAreShort
<1>2. ASSUME SystemInv, RequestsAreShort, [SystemNext]_systemVars PROVE RequestsAreShort'
  <2> SUFFICES ASSUME NEW h \in Handler
               PROVE  CallsLeft(handler'[h]) <= 3 * SearchLimit + 10
    BY DEF RequestsAreShort, CallsLeft
  <2>1. CallsLeft(handler[h]) <= 3 * SearchLimit + 10
    BY <1>2 DEF RequestsAreShort
  <2>2. CASE At(h, "idle") /\ handler'[h].pc \in {"search", "backend"}
    BY <1>0, <2>2 DEF CallsLeft
  <2>3. CASE handler'[h] = Idle
    BY <1>0, <2>3 DEF CallsLeft, Idle
  <2>4. CASE Follows(handler[h], handler'[h])
    <3>1. handler[h] \in HandlerState /\ handler' \in [Handler -> HandlerState]
      BY <1>2, Facts, Keeps DEF SystemInv, SystemTypeOK, RPTypeOK
    <3>2. CallsLeft(handler'[h]) < CallsLeft(handler[h])
      BY <2>4, <3>1, CallsOf
    <3>3. ASSUME NEW s \in HandlerState PROVE CallsLeft(s) \in Nat
      <4>1. Cardinality(s.cands) \in Nat
        BY FS_Subset, FS_CardinalityType DEF HandlerState
      <4> QED
        BY <1>0, <4>1 DEF CallsLeft
    <3>4. CallsLeft(handler'[h]) \in Nat /\ CallsLeft(handler[h]) \in Nat
      BY <3>1, <3>3
    <3> QED
      BY <1>0, <2>1, <3>2, <3>4
  <2> QED
    BY <1>2, <2>1, <2>2, <2>3, <2>4, RequestGoesOn
<1>3. SystemInit => RequestsAreShort
  BY <1>1
<1>4. SystemInv /\ RequestsAreShort /\ [SystemNext]_systemVars => RequestsAreShort'
  BY <1>2
<1> QED
  BY <1>3, <1>4, SystemInvariant, PTL DEF SystemSpec

-----------------------------------------------------------------------------
(* How many calls are left to a refresh cycle.                               *)

\* After a step of its own a cycle in state s is in state t.
FollowsCycle(s, t) ==
  \/ /\ s.pc = "list" /\ t.pc \in {"idle", "evaluate"}
     /\ t.todo \subseteq Fp /\ Cardinality(t.todo) <= BatchLimit
  \/ /\ s.pc = "evaluate" /\ t.pc \in {"idle", "evaluate", "read", "feedback"}
     /\ \E f \in s.todo : t.todo = s.todo \ {f}
  \/ s.pc = "read" /\ t.pc \in {"adjust", "feedback"} /\ t.todo = s.todo
  \/ s.pc = "adjust" /\ t.pc = "feedback" /\ t.todo = s.todo
  \/ s.pc = "feedback" /\ t.pc \in {"reward", "evaluate", "idle"} /\ t.todo = s.todo
  \/ s.pc = "reward" /\ t.pc \in {"fetch", "evaluate", "idle"} /\ t.todo = s.todo
  \/ s.pc = "fetch" /\ t.pc \in {"train", "evaluate", "idle"} /\ t.todo = s.todo
  \/ s.pc = "train" /\ t.pc \in {"evaluate", "idle"} /\ t.todo = s.todo
  \/ s.pc # "idle" /\ t.pc = "idle"

\* The steps a cycle in state s still takes, at most.
StepsLeft(s) ==
  CASE s.pc = "list"     -> 8 * BatchLimit + 2
    [] s.pc = "read"     -> 8 * Cardinality(s.todo) + 7
    [] s.pc = "adjust"   -> 8 * Cardinality(s.todo) + 6
    [] s.pc = "feedback" -> 8 * Cardinality(s.todo) + 5
    [] s.pc = "reward"   -> 8 * Cardinality(s.todo) + 4
    [] s.pc = "fetch"    -> 8 * Cardinality(s.todo) + 3
    [] s.pc = "train"    -> 8 * Cardinality(s.todo) + 2
    [] s.pc = "evaluate" -> 8 * Cardinality(s.todo) + 1
    [] OTHER             -> 0

\* With a step a cycle comes nearer to its end: what other cycles and requests write in the
\* meantime never gives it a second batch, nor an entry twice.
CyclesAdvance ==
  [][\A w \in Worker : ~Doing(w, "idle") /\ worker'[w] # worker[w] =>
       StepsLeft(worker'[w]) < StepsLeft(worker[w])]_systemVars

\* The loop of run_once ends, or goes on with the candidates it is given.
LEMMA LoopFollows == \A S : Loop(S).pc \in {"idle", "evaluate"} /\ Loop(S).todo = S
<1> TAKE S
<1> DEFINE pc == IF S = {} THEN "idle" ELSE "evaluate"
           s == [Asleep EXCEPT !.pc = pc, !.todo = S]
<1>1. s.pc = pc /\ s.todo = S
  BY DEF Asleep
<1>2. Loop(S) = s
  BY DEF Loop
<1> QED
  BY <1>1, <1>2

\* A step of a cycle leads on to the next call, the next candidate or the end.
LEMMA CycleFollows ==
  ASSUME SystemInv, NEW w \in Worker, WorkerStep(w) \/ Abort(w)
  PROVE  FollowsCycle(worker[w], worker'[w])
<1>0. worker[w] \in WorkerState /\ worker \in [Worker -> WorkerState] /\ CycleOK(worker[w])
  BY Facts DEF SystemInv
<1>1. ASSUME NEW s, Continue(w, s) PROVE worker'[w] = s
  BY <1>0, <1>1 DEF Continue
<1> DEFINE u(call) == [worker[w] EXCEPT !.pc = call]
<1>2. /\ u("feedback").pc = "feedback" /\ u("feedback").todo = worker[w].todo
      /\ u("reward").pc = "reward" /\ u("reward").todo = worker[w].todo
      /\ u("fetch").pc = "fetch" /\ u("fetch").todo = worker[w].todo
  BY <1>0 DEF WorkerState
<1> HIDE DEF u
<1>3. CASE ListCandidates(w)
  <2>1. PICK S \in Batches : Continue(w, Loop(S))
    BY <1>3 DEF ListCandidates
  <2>2. S \subseteq Fp /\ Cardinality(S) <= BatchLimit
    BY <2>1 DEF Batches, Candidates
  <2>3. worker[w].pc = "list" /\ worker'[w] = Loop(S)
    BY <1>1, <1>3, <2>1 DEF ListCandidates, Doing
  <2> QED
    BY <2>2, <2>3, LoopFollows DEF FollowsCycle
<1>4. CASE Skip(w)
  <2>1. PICK f \in worker[w].todo : Continue(w, Loop(worker[w].todo \ {f}))
    BY <1>4 DEF Skip, Newest
  <2>2. worker[w].pc = "evaluate" /\ worker'[w] = Loop(worker[w].todo \ {f})
    BY <1>1, <1>4, <2>1 DEF Skip, Doing
  <2> QED
    BY <2>1, <2>2, LoopFollows DEF FollowsCycle
<1>5. CASE Evaluate(w)
  <2>1. PICK f \in worker[w].todo, v \in Verdict, d \in BOOLEAN :
          Continue(w, [worker[w] EXCEPT !.pc = AfterVerdict(v), !.todo = @ \ {f},
                         !.entry = f, !.verdict = v, !.decided = d])
    BY <1>5 DEF Evaluate, Newest
  <2> DEFINE s == [worker[w] EXCEPT !.pc = AfterVerdict(v), !.todo = @ \ {f},
                     !.entry = f, !.verdict = v, !.decided = d]
  <2>2. s.pc \in {"read", "feedback"} /\ s.todo = worker[w].todo \ {f}
    BY <1>0 DEF WorkerState, AfterVerdict
  <2>3. worker[w].pc = "evaluate" /\ worker'[w] = s
    BY <1>1, <1>5, <2>1 DEF Evaluate, Doing
  <2> HIDE DEF s
  <2> QED
    BY <2>2, <2>3 DEF FollowsCycle
<1>6. CASE ReadEntry(w)
  <2> DEFINE b == NextBucket(w, rows[worker[w].entry].bucket)
             s == [worker[w] EXCEPT !.pc = "adjust", !.bucket = b, !.expires = clock + TTL[b]]
  <2>1. s.pc = "adjust" /\ s.todo = worker[w].todo
    BY <1>0 DEF WorkerState
  <2>2. worker[w].pc = "read" /\ (worker'[w] = s \/ worker'[w] = u("feedback"))
    BY <1>1, <1>6 DEF ReadEntry, Proceed, Doing, u
  <2> HIDE DEF s
  <2> QED
    BY <1>2, <2>1, <2>2 DEF FollowsCycle
<1>7. CASE Adjust(w)
  <2>1. worker[w].pc = "adjust" /\ worker'[w] = u("feedback")
    BY <1>1, <1>7 DEF Adjust, Proceed, Doing, u
  <2> QED
    BY <1>2, <2>1 DEF FollowsCycle
<1>8. CASE LogOutcome(w)
  <2>1. /\ worker[w].pc = "feedback"
        /\ worker'[w] = u("reward") \/ worker'[w] = Loop(worker[w].todo)
    BY <1>1, <1>8 DEF LogOutcome, Doing, u
  <2> QED
    BY <1>2, <2>1, LoopFollows DEF FollowsCycle
<1>9. CASE Reward(w)
  <2>1. /\ worker[w].pc = "reward"
        /\ worker'[w] = u("fetch") \/ worker'[w] = Loop(worker[w].todo)
    BY <1>1, <1>9 DEF Reward, Doing, u
  <2> QED
    BY <1>2, <2>1, LoopFollows DEF FollowsCycle
<1>10. CASE FetchDecision(w)
  <2> DEFINE s == [worker[w] EXCEPT !.pc = "train", !.bucket = decisions[worker[w].entry].bucket]
  <2>1. s.pc = "train" /\ s.todo = worker[w].todo
    BY <1>0 DEF WorkerState
  <2>2. worker[w].pc = "fetch" /\ (worker'[w] = s \/ worker'[w] = Loop(worker[w].todo))
    BY <1>1, <1>10 DEF FetchDecision, Doing
  <2> HIDE DEF s
  <2> QED
    BY <2>1, <2>2, LoopFollows DEF FollowsCycle
<1>11. CASE Train(w)
  <2>1. worker[w].pc = "train" /\ worker'[w] = Loop(worker[w].todo)
    BY <1>1, <1>11 DEF Train, Doing
  <2> QED
    BY <2>1, LoopFollows DEF FollowsCycle
<1>12. CASE Abort(w)
  <2>1. worker[w].pc # "idle" /\ worker'[w].pc = "idle"
    BY <1>1, <1>12 DEF Abort, Asleep, Doing
  <2> QED
    BY <2>1 DEF FollowsCycle
<1> QED
  BY <1>3, <1>4, <1>5, <1>6, <1>7, <1>8, <1>9, <1>10, <1>11, <1>12 DEF WorkerStep

\* What is left after each of the steps.
LEMMA StepsOf ==
  ASSUME NEW s \in WorkerState, NEW t, IsFiniteSet(Fp), FollowsCycle(s, t)
  PROVE  StepsLeft(t) < StepsLeft(s)
<1>0. BatchLimit \in Nat
  BY RefreshBoundsAssumption
<1>1. IsFiniteSet(s.todo) /\ Cardinality(s.todo) \in Nat
  <2>1. s.todo \subseteq Fp
    BY DEF WorkerState
  <2> QED
    BY <2>1, FS_Subset, FS_CardinalityType
<1>2. CASE /\ s.pc = "list" /\ t.pc \in {"idle", "evaluate"}
           /\ t.todo \subseteq Fp /\ Cardinality(t.todo) <= BatchLimit
  <2>1. Cardinality(t.todo) \in Nat
    BY <1>2, FS_Subset, FS_CardinalityType
  <2>2. /\ StepsLeft(s) = 8 * BatchLimit + 2
        /\ StepsLeft(t) = 8 * Cardinality(t.todo) + 1 \/ StepsLeft(t) = 0
    BY <1>2 DEF StepsLeft
  <2> QED
    BY <1>0, <1>2, <2>1, <2>2
<1>3. CASE /\ s.pc = "evaluate" /\ t.pc \in {"idle", "evaluate", "read", "feedback"}
           /\ \E f \in s.todo : t.todo = s.todo \ {f}
  <2>1. Cardinality(t.todo) = Cardinality(s.todo) - 1
    BY <1>1, <1>3, FS_RemoveElement
  <2>2. /\ StepsLeft(s) = 8 * Cardinality(s.todo) + 1
        /\ \/ StepsLeft(t) = 0
           \/ StepsLeft(t) = 8 * Cardinality(t.todo) + 1
           \/ StepsLeft(t) = 8 * Cardinality(t.todo) + 5
           \/ StepsLeft(t) = 8 * Cardinality(t.todo) + 7
    BY <1>3 DEF StepsLeft
  <2> QED
    BY <1>1, <2>1, <2>2
<1>4. CASE s.pc # "idle" /\ t.pc = "idle"
  <2>1. StepsLeft(t) = 0
    BY <1>4 DEF StepsLeft
  <2>2. CASE s.pc = "list"
    BY <1>0, <2>1, <2>2 DEF StepsLeft
  <2>3. CASE s.pc # "list"
    <3>1. \E k \in 1 .. 7 : StepsLeft(s) = 8 * Cardinality(s.todo) + k
      BY <1>4, <2>3 DEF StepsLeft, WorkerState
    <3> QED
      BY <1>1, <2>1, <3>1
  <2> QED
    BY <2>2, <2>3
<1>5. ASSUME NEW j \in 1 .. 7, NEW k \in 1 .. 7, k < j,
             StepsLeft(s) = 8 * Cardinality(s.todo) + j,
             StepsLeft(t) = 8 * Cardinality(s.todo) + k
      PROVE  StepsLeft(t) < StepsLeft(s)
  BY <1>1, <1>5
<1>6. CASE s.pc = "read" /\ t.pc \in {"adjust", "feedback"} /\ t.todo = s.todo
  BY <1>5, <1>6 DEF StepsLeft
<1>7. CASE s.pc = "adjust" /\ t.pc = "feedback" /\ t.todo = s.todo
  BY <1>5, <1>7 DEF StepsLeft
<1>8. CASE s.pc = "feedback" /\ t.pc \in {"reward", "evaluate"} /\ t.todo = s.todo
  BY <1>5, <1>8 DEF StepsLeft
<1>9. CASE s.pc = "reward" /\ t.pc \in {"fetch", "evaluate"} /\ t.todo = s.todo
  BY <1>5, <1>9 DEF StepsLeft
<1>10. CASE s.pc = "fetch" /\ t.pc \in {"train", "evaluate"} /\ t.todo = s.todo
  BY <1>5, <1>10 DEF StepsLeft
<1>11. CASE s.pc = "train" /\ t.pc = "evaluate" /\ t.todo = s.todo
  BY <1>5, <1>11 DEF StepsLeft
<1> QED
  BY <1>2, <1>3, <1>4, <1>6, <1>7, <1>8, <1>9, <1>10, <1>11 DEF FollowsCycle

\* Whatever the system does, a cycle stays where it is, begins, or goes on to what follows.
LEMMA CycleGoesOn ==
  ASSUME SystemInv, [SystemNext]_systemVars, NEW v \in Worker
  PROVE  \/ worker'[v] = worker[v]
         \/ Doing(v, "idle") /\ worker'[v].pc = "list"
         \/ FollowsCycle(worker[v], worker'[v])
<1>0. worker \in [Worker -> WorkerState]
  BY Facts
<1>1. ASSUME NEW w \in Worker, RefreshStep(w), w # v PROVE worker'[v] = worker[v]
  <2>1. ASSUME NEW s, Continue(w, s) PROVE worker'[v] = worker[v]
    BY <1>0, <1>1, <2>1 DEF Continue
  <2>2. CASE StartCycle(w)
    BY <1>0, <1>1, <2>2 DEF StartCycle
  <2>3. CASE \/ ListCandidates(w) \/ Skip(w) \/ Evaluate(w) \/ ReadEntry(w) \/ Adjust(w)
             \/ LogOutcome(w) \/ Reward(w) \/ FetchDecision(w) \/ Train(w) \/ Abort(w)
    BY <2>1, <2>3 DEF ListCandidates, Skip, Evaluate, ReadEntry, Adjust, LogOutcome, Reward,
       FetchDecision, Train, Abort, Proceed
  <2> QED
    BY <1>1, <2>2, <2>3 DEF RefreshStep, WorkerStep
<1>2. CASE StartCycle(v)
  <2>1. worker[v] \in WorkerState
    BY <1>0
  <2>2. worker'[v] = [worker[v] EXCEPT !.pc = "list"]
    BY <1>0, <1>2 DEF StartCycle
  <2> QED
    BY <1>2, <2>1, <2>2 DEF StartCycle, WorkerState
<1>3. CASE WorkerStep(v) \/ Abort(v)
  BY <1>3, CycleFollows
<1>4. CASE UNCHANGED worker
  BY <1>4
<1> QED
  BY <1>1, <1>2, <1>3, <1>4 DEF SystemNext, RefreshStep, RequestStep, refreshVars, systemVars

\* With Fp finite, a cycle can only go forward, whatever the pipeline returns and whatever is
\* stored, moved or aborted meanwhile: run_once never works on for ever.
THEOREM CyclesGoForward ==
  ASSUME IsFiniteSet(Fp)
  PROVE  SystemSpec => CyclesAdvance
<1>1. ASSUME SystemInv, [SystemNext]_systemVars
      PROVE  \A w \in Worker : ~Doing(w, "idle") /\ worker'[w] # worker[w] =>
               StepsLeft(worker'[w]) < StepsLeft(worker[w])
  <2> TAKE w \in Worker
  <2> HAVE ~Doing(w, "idle") /\ worker'[w] # worker[w]
  <2>1. FollowsCycle(worker[w], worker'[w])
    BY <1>1, CycleGoesOn
  <2> QED
    BY <1>1, <2>1, Facts, StepsOf
<1>2. SystemInv /\ [SystemNext]_systemVars =>
        [\A w \in Worker : ~Doing(w, "idle") /\ worker'[w] # worker[w] =>
           StepsLeft(worker'[w]) < StepsLeft(worker[w])]_systemVars
  BY <1>1
<1> QED
  BY <1>2, SystemInvariant, PTL DEF SystemSpec, CyclesAdvance

\* A cycle takes at most two steps and eight more for each entry its limit lets it list.
CyclesAreShort == \A w \in Worker : StepsLeft(worker[w]) <= 8 * BatchLimit + 2

\* run_once is over after as many calls as its limit allows: a cycle works on its batch alone.
THEOREM CyclesStayShort ==
  ASSUME IsFiniteSet(Fp)
  PROVE  SystemSpec => []CyclesAreShort
<1>0. BatchLimit \in Nat
  BY RefreshBoundsAssumption
<1>1. ASSUME SystemInit PROVE CyclesAreShort
  BY <1>0, <1>1 DEF SystemInit, RefreshInit, Asleep, StepsLeft, CyclesAreShort
<1>2. ASSUME SystemInv, CyclesAreShort, [SystemNext]_systemVars PROVE CyclesAreShort'
  <2> SUFFICES ASSUME NEW w \in Worker
               PROVE  StepsLeft(worker'[w]) <= 8 * BatchLimit + 2
    BY DEF CyclesAreShort, StepsLeft
  <2>1. StepsLeft(worker[w]) <= 8 * BatchLimit + 2
    BY <1>2 DEF CyclesAreShort
  <2>2. CASE Doing(w, "idle") /\ worker'[w].pc = "list"
    BY <1>0, <2>2 DEF StepsLeft
  <2>3. CASE FollowsCycle(worker[w], worker'[w])
    <3>1. worker[w] \in WorkerState /\ worker' \in [Worker -> WorkerState]
      BY <1>2, Facts, Keeps DEF SystemInv, SystemTypeOK, RefreshTypeOK
    <3>2. StepsLeft(worker'[w]) < StepsLeft(worker[w])
      BY <2>3, <3>1, StepsOf
    <3>3. ASSUME NEW s \in WorkerState PROVE StepsLeft(s) \in Nat
      <4>1. Cardinality(s.todo) \in Nat
        BY FS_Subset, FS_CardinalityType DEF WorkerState
      <4> QED
        BY <1>0, <4>1 DEF StepsLeft
    <3>4. StepsLeft(worker'[w]) \in Nat /\ StepsLeft(worker[w]) \in Nat
      BY <3>1, <3>3
    <3> QED
      BY <1>0, <2>1, <3>2, <3>4
  <2> QED
    BY <1>2, <2>1, <2>2, <2>3, CycleGoesOn
<1>3. SystemInit => CyclesAreShort
  BY <1>1
<1>4. SystemInv /\ CyclesAreShort /\ [SystemNext]_systemVars => CyclesAreShort'
  BY <1>2
<1> QED
  BY <1>3, <1>4, SystemInvariant, PTL DEF SystemSpec

-----------------------------------------------------------------------------
(* The points of the index.                                                  *)

\* A point is written by the upsert of the request that has inserted the row, which found
\* none, and by nothing else.
LEMMA PointWriter ==
  ASSUME SystemInv, [SystemNext]_systemVars, NEW f \in Fp, points'[f] # points[f]
  PROVE  \E h \in Handler :
           /\ At(h, "upsert") /\ handler[h].fp = f /\ HasRow(f) /\ ~HasPoint(f)
           /\ points'[f] = handler[h].expires /\ UNCHANGED rows
<1>0. points \in [Fp -> Nat \cup {NoTime}]
  BY Facts
<1>1. PICK h \in Handler : Effect(h)
  BY OneStatement DEF Tick, Moves, storageVars
<1>2. At(h, "upsert")
  BY <1>1 DEF Effect
<1>3. UpsertPoint(handler[h].fp, handler[h].expires) /\ UNCHANGED rows
  BY <1>1, <1>2 DEF Effect, At
<1>4. handler[h].fp = f /\ points'[f] = handler[h].expires
  BY <1>0, <1>3 DEF UpsertPoint
<1>5. HasRow(f)
  BY <1>2, <1>4 DEF SystemInv, RequestOK, At
<1>6. ~HasPoint(f)
  BY <1>2, <1>4 DEF SystemInv, StoresAlone, Storing, At
<1> QED
  BY <1>2, <1>3, <1>4, <1>5, <1>6

\* A point keeps the lifetime it was written with: neither a second store nor a move of the
\* row reaches the index.
PointsStay == [][\A f \in Fp : HasPoint(f) => points'[f] = points[f]]_systemVars

\* Once indexed, an entry is found until its first lifetime ends and not any longer, however
\* often refresh moves its row and whatever is stored or fails beside it.
THEOREM PointsAreFinal == SystemSpec => PointsStay
<1>1. ASSUME SystemInv, [SystemNext]_systemVars
      PROVE  \A f \in Fp : HasPoint(f) => points'[f] = points[f]
  BY <1>1, PointWriter
<1>2. SystemInv /\ [SystemNext]_systemVars =>
        [\A f \in Fp : HasPoint(f) => points'[f] = points[f]]_systemVars
  BY <1>1
<1> QED
  BY <1>2, SystemInvariant, PTL DEF SystemSpec, PointsStay

\* A request comes to its upsert by an insert that found no row, and by nothing else.
LEMMA UpsertsAfterInsert ==
  ASSUME SystemInv, [SystemNext]_systemVars, NEW k \in Handler, handler'[k].pc = "upsert",
         handler'[k] # handler[k]
  PROVE  /\ ~HasRow(handler[k].fp) /\ InsertNow(k)
         /\ handler'[k].fp = handler[k].fp /\ handler'[k].expires = handler[k].expires
         /\ handler[k].fp \in Fp
<1>1. At(k, "insert") /\ handler'[k].fp = handler[k].fp /\ handler'[k].expires = handler[k].expires
  <2>1. Follows(handler[k], handler'[k])
    BY RequestGoesOn DEF Idle
  <2> QED
    BY <2>1 DEF Follows, At
<1>2. handler \in [Handler -> HandlerState] /\ RequestOK(handler[k])
  BY Facts DEF SystemInv
<1>3. PICK h \in Handler : Receive(h) \/ HandlerStep(h) \/ Fail(h)
  <2>1. CASE Crash
    BY <2>1 DEF Crash, Idle
  <2> QED
    BY <2>1 DEF SystemNext, RequestStep, RefreshStep, requestVars, systemVars
<1>4. h = k
  BY <1>3, OthersStay
<1>5. CASE Insert(k)
  <2>1. CanInsert(handler[k].fp) /\ InsertNow(k)
    BY <1>2, <1>5 DEF Insert, Answer, Become, HandlerState
  <2> QED
    BY <1>1, <1>2, <2>1 DEF CanInsert, RequestOK, At, StoreCalls
<1>6. CASE Fail(k)
  BY <1>2, <1>6 DEF Fail, Answer, Become, HandlerState
<1>7. CASE ~Insert(k) /\ ~Fail(k)
  BY <1>1, <1>3, <1>4, <1>7 DEF HandlerStep, Receive, VectorSearch, Discard, ChooseLive, RecordHit,
     Reread, NoLiveCandidate, ServeHit, LogStaleHit, SelectBucket, BackendAnswers, Stamp, Upsert,
     Reload, LogDecision, Respond, At
<1> QED
  BY <1>5, <1>6, <1>7

\* An orphan stays one: its row keeps the later misses of its fingerprint from storing, and so
\* from indexing it.
LEMMA OrphanStays ==
  ASSUME SystemInv, [SystemNext]_systemVars, NEW f \in Fp, Orphan(f) PROVE Orphan(f)'
<1>0. HasRow(f) /\ ~HasPoint(f) /\ \A h \in Handler : ~Writing(h, f)
  BY DEF Orphan
<1>1. HasRow(f)'
  BY <1>0, StepGrows DEF Grows
<1>2. ~HasPoint(f)'
  <2>1. points'[f] = points[f]
    BY <1>0, PointWriter DEF Writing
  <2> QED
    BY <1>0, <2>1 DEF HasPoint
<1>3. ASSUME NEW h \in Handler, Writing(h, f)' PROVE FALSE
  <2>1. handler'[h].fp = f /\ handler'[h].pc = "upsert"
    BY <1>3 DEF Writing, At
  <2>2. handler'[h] # handler[h]
    BY <1>0, <2>1 DEF Writing, At
  <2> QED
    BY <1>0, <2>1, <2>2, UpsertsAfterInsert
<1> QED
  BY <1>1, <1>2, <1>3 DEF Orphan

\* In the whole system too a row that store left without a point is never indexed later: no
\* retry of the client, no refresh cycle and no restart brings it back.
THEOREM SystemOrphansRemain == SystemSpec => OrphansStay
<1>1. ASSUME SystemInv, [SystemNext]_systemVars PROVE \A f \in Fp : Orphan(f) => Orphan(f)'
  BY <1>1, OrphanStays
<1>2. SystemInv /\ [SystemNext]_systemVars => [\A f \in Fp : Orphan(f) => Orphan(f)']_rpVars
  BY <1>1
<1> QED
  BY <1>2, SystemInvariant, PTL DEF SystemSpec, OrphansStay

-----------------------------------------------------------------------------
(* What the client is told.                                                  *)

\* What is reported as stored is on record, in all three stores, as this request made it; what
\* is reported as a hit has been indexed and counted.
Backed(s) ==
  /\ s.pc \in {"upsert", "reload", "decide"} => rows[s.fp].created = s.created
  /\ s.stored => /\ s.pc = "reply" /\ s.fp \in Fp /\ HasDecision(s.fp)
                 /\ decisions[s.fp] = [bucket |-> s.bucket, chosen |-> s.chosen]
                 /\ rows[s.fp].created = s.created
  /\ s.pc = "reply" /\ s.reply = "cached" =>
       s.entry \in Fp /\ HasPoint(s.entry) /\ rows[s.entry].hits >= 1

AllBacked == \A h \in Handler : Backed(handler[h])

\* What a request has been told stays backed while others go on.
LEMMA BackedStays ==
  ASSUME MovableInv, [SystemNext]_systemVars, NEW k \in Handler, Backed(handler[k]),
         handler'[k] = handler[k]
  PROVE  Backed(handler[k])'
<1> DEFINE s == handler[k]
<1>0. SystemInv /\ Grows /\ RequestOK(s)
  BY StepGrows DEF MovableInv, SystemInv
<1>1. \A f \in Fp : /\ HasRow(f) => rows'[f].created = rows[f].created
                    /\ HasPoint(f) => points'[f] # NoTime
                    /\ HasDecision(f) => HasRow(f) /\ decisions'[f] = decisions[f]
                    /\ rows'[f].hits >= 1 \/ ~(rows[f].hits >= 1)
  <2>1. \A f \in Fp : rows'[f].hits >= rows[f].hits /\ rows'[f].hits \in Nat /\ rows[f].hits \in Nat
    BY <1>0, HitsGrow, CountsAreNumbers
  <2>2. \A f \in Fp : HasDecision(f) => HasRow(f)
    BY <1>0 DEF SystemInv, RowThenPointThenDecision
  <2> QED
    BY <1>0, <2>1, <2>2 DEF Grows, HasPoint
<1>2. s.pc \in {"upsert", "reload", "decide"} => s.fp \in Fp /\ HasRow(s.fp)
  BY <1>0 DEF RequestOK, StoreCalls
<1>3. handler'[k] = s
  OBVIOUS
<1> HIDE DEF s
<1>4. Backed(s)
  BY DEF s
<1>5. s.pc \in {"upsert", "reload", "decide"} => rows'[s.fp].created = s.created
  BY <1>1, <1>2, <1>4 DEF Backed
<1>6. s.stored => /\ s.pc = "reply" /\ s.fp \in Fp /\ decisions'[s.fp] # NoDecision
                  /\ decisions'[s.fp] = [bucket |-> s.bucket, chosen |-> s.chosen]
                  /\ rows'[s.fp].created = s.created
  BY <1>1, <1>4 DEF Backed, HasDecision
<1>7. s.pc = "reply" /\ s.reply = "cached" =>
        s.entry \in Fp /\ points'[s.entry] # NoTime /\ rows'[s.entry].hits >= 1
  BY <1>1, <1>4 DEF Backed
<1> QED
  BY <1>3, <1>5, <1>6, <1>7 DEF Backed, HasDecision, HasPoint

\* A step of the request itself backs what it goes on with, or tells.
LEMMA BackedByStep ==
  ASSUME MovableInv, [SystemNext]_systemVars, NEW h \in Handler, Backed(handler[h]),
         Receive(h) \/ HandlerStep(h) \/ Fail(h)
  PROVE  Backed(handler[h])'
<1>0. /\ handler[h] \in HandlerState /\ handler \in [Handler -> HandlerState]
      /\ SystemInv /\ RequestOK(handler[h]) /\ Grows
  BY StepGrows, Facts DEF MovableInv, SystemInv
<1>1. ASSUME NEW s, Become(h, s) PROVE handler'[h] = s
  BY <1>0, <1>1 DEF Become
<1>2. ASSUME ~handler'[h].stored, handler'[h].pc \notin {"upsert", "reload", "decide"},
             handler'[h].pc = "reply" => handler'[h].reply # "cached"
      PROVE  Backed(handler[h])'
  BY <1>2 DEF Backed
<1>3. ASSUME NEW kind \in {"forwarded", "error"}, Answer(h, kind), ~At(h, "reply")
      PROVE  Backed(handler[h])'
  <2>1. ~handler[h].stored
    BY <1>3 DEF Backed, At
  <2>2. handler'[h].pc = "reply" /\ handler'[h].reply = kind /\ ~handler'[h].stored
    BY <1>0, <1>1, <1>3, <2>1 DEF Answer, HandlerState
  <2> QED
    BY <1>2, <2>2
<1>4. ASSUME NEW pc \in {"upsert", "reload"}, Goto(h, pc), ~At(h, "reply"),
             rows'[handler[h].fp].created = handler[h].created
      PROVE  Backed(handler[h])'
  <2> DEFINE s == [handler[h] EXCEPT !.pc = pc]
  <2>1. /\ s.pc = pc /\ s.fp = handler[h].fp /\ s.created = handler[h].created /\ ~s.stored
        /\ handler'[h] = s
    BY <1>0, <1>1, <1>4 DEF Goto, HandlerState, Backed, At
  <2> HIDE DEF s
  <2> QED
    BY <1>4, <2>1 DEF Backed
<1>5. CASE \/ Receive(h) \/ VectorSearch(h) \/ Discard(h) \/ ChooseLive(h) \/ RecordHit(h)
  <2>1. ~handler[h].stored
    BY <1>5 DEF Receive, VectorSearch, Discard, ChooseLive, RecordHit, At, Backed
  <2>2. /\ ~handler'[h].stored
        /\ handler'[h].pc \in {"search", "backend", "check", "mark", "reread"}
    BY <1>0, <1>1, <1>5, <2>1 DEF Receive, VectorSearch, Discard, ChooseLive, RecordHit, Goto,
       At, HandlerState
  <2> QED
    BY <1>2, <2>2
<1>6. CASE Reread(h) \/ NoLiveCandidate(h) \/ LogStaleHit(h) \/ SelectBucket(h)
  <2>1. ~handler[h].stored
    BY <1>6 DEF Reread, NoLiveCandidate, LogStaleHit, SelectBucket, At, Backed
  <2>2. /\ ~handler'[h].stored
        /\ handler'[h].pc \in {"logHit", "check", "logStale", "select", "backend"}
    BY <1>0, <1>1, <1>6, <2>1 DEF Reread, NoLiveCandidate, LogStaleHit, SelectBucket, Goto, At,
       HandlerState
  <2> QED
    BY <1>2, <2>2
<1>7. CASE ServeHit(h)
  <2>1. At(h, "logHit") /\ ~handler[h].stored
    BY <1>7 DEF ServeHit, At, Backed
  <2>2. PICK g \in Fp : g = handler[h].entry
    BY <1>0, <2>1 DEF RequestOK, At
  <2>3. HasPoint(g) /\ rows[g].hits >= 1
    <3>1. HasPoint(g)
      BY <2>1, <2>2 DEF MovableInv, ChosenOK, Chosen, At
    <3>2. h \in Pending(g)
      BY <2>1, <2>2 DEF Pending, Owing, At
    <3>3. /\ IsFiniteSet(Pending(g))
          /\ feedback[g].hit + Cardinality(Pending(g)) <= rows[g].hits
      BY DEF MovableInv, Counted
    <3>4. Cardinality(Pending(g)) \in Nat /\ Cardinality(Pending(g)) >= 1
      <4>1. Cardinality(Pending(g)) # 0
        BY <3>2, <3>3, FS_EmptySet
      <4> QED
        BY <3>3, <4>1, FS_CardinalityType
    <3> QED
      BY <1>0, <3>1, <3>3, <3>4, CountsAreNumbers
  <2>4. /\ handler'[h].pc = "reply" /\ handler'[h].entry = g /\ ~handler'[h].stored
    BY <1>0, <1>1, <1>7, <2>1, <2>2 DEF ServeHit, HandlerState
  <2>5. points'[g] = points[g] /\ rows'[g] = rows[g]
    BY <1>7 DEF ServeHit
  <2> QED
    BY <2>3, <2>4, <2>5 DEF Backed, HasPoint
<1>8. CASE BackendAnswers(h) \/ Stamp(h)
  <2>1. ~At(h, "reply") /\ ~handler[h].stored
    BY <1>8 DEF BackendAnswers, Stamp, At, Backed
  <2>2. CASE Answer(h, "forwarded")
    BY <1>3, <2>1, <2>2
  <2>3. CASE ~Answer(h, "forwarded")
    <3>1. ~handler'[h].stored /\ handler'[h].pc \in {"stamp", "insert"}
      BY <1>0, <1>1, <1>8, <2>1, <2>3 DEF BackendAnswers, Stamp, Goto, HandlerState
    <3> QED
      BY <1>2, <3>1
  <2> QED
    BY <2>2, <2>3
<1>9. CASE Insert(h)
  <2>1. ~At(h, "reply") /\ handler[h].fp \in Fp
    BY <1>0, <1>9 DEF Insert, At, RequestOK, StoreCalls
  <2>2. InsertNow(h) => rows'[handler[h].fp].created = handler[h].created
    BY <1>0, <2>1, Facts DEF InsertNow, InsertEntry
  <2> QED
    BY <1>3, <1>4, <1>9, <2>1, <2>2 DEF Insert
<1>10. CASE Upsert(h)
  <2>1. /\ ~At(h, "reply") /\ Goto(h, "reload") /\ UNCHANGED rows
        /\ rows[handler[h].fp].created = handler[h].created
    BY <1>10 DEF Upsert, At, Backed
  <2> QED
    BY <1>4, <2>1
<1>11. CASE Reload(h)
  <2>1. /\ ~At(h, "reply") /\ UNCHANGED rows /\ ~handler[h].stored
        /\ rows[handler[h].fp].created = handler[h].created
    BY <1>11 DEF Reload, At, Backed, storageVars
  <2>2. CASE Answer(h, "forwarded")
    BY <1>3, <2>1, <2>2
  <2>3. CASE ~Answer(h, "forwarded")
    <3>1. /\ handler'[h].pc = "decide" /\ handler'[h].fp = handler[h].fp
          /\ handler'[h].created = handler[h].created /\ ~handler'[h].stored
      BY <1>0, <1>1, <1>11, <2>1, <2>3 DEF Reload, HandlerState
    <3> QED
      BY <2>1, <3>1 DEF Backed
  <2> QED
    BY <2>2, <2>3
<1>12. CASE LogDecision(h)
  <2>1. /\ At(h, "decide") /\ handler[h].fp \in Fp /\ handler[h].bucket \in Buckets
        /\ rows[handler[h].fp].created = handler[h].created /\ UNCHANGED rows
    BY <1>0, <1>12 DEF LogDecision, At, RequestOK, Backed
  <2>2. /\ handler'[h].pc = "reply" /\ handler'[h].reply = "forwarded"
        /\ handler'[h].fp = handler[h].fp /\ handler'[h].created = handler[h].created
        /\ handler'[h].bucket = handler[h].bucket /\ handler'[h].chosen = handler[h].chosen
    BY <1>0, <1>1, <1>12 DEF LogDecision, HandlerState
  <2>3. decisions'[handler[h].fp] = [bucket |-> handler[h].bucket, chosen |-> handler[h].chosen]
    BY <1>12, <2>1, Facts, <1>0 DEF LogDecision, InsertDecisionNow, InsertDecision
  <2>4. decisions'[handler[h].fp] # NoDecision
    BY <2>1, <2>3 DEF NoDecision, NoBucket, Buckets
  <2> QED
    BY <2>1, <2>2, <2>3, <2>4 DEF Backed, HasDecision
<1>13. CASE Respond(h)
  <2>1. handler'[h] = Idle
    BY <1>1, <1>13 DEF Respond
  <2> QED
    BY <1>2, <2>1 DEF Idle
<1>14. CASE Fail(h)
  <2>1. ~At(h, "reply")
    BY <1>14, FaultsAssumption DEF Fail, At, Calls, LookupCalls, StoreCalls
  <2> QED
    BY <1>3, <1>14, <2>1 DEF Fail
<1> QED
  BY <1>5, <1>6, <1>7, <1>8, <1>9, <1>10, <1>11, <1>12, <1>13, <1>14 DEF HandlerStep

\* No interleaving with other requests, moves or failures makes the proxy report a store that
\* is not on record, or a hit that is not indexed and counted.
THEOREM RepliesAreBacked == SystemSpec => []AllBacked
<1>1. SystemInit => AllBacked
  BY DEF SystemInit, RPInit, AllBacked, Backed, Idle
<1>2. ASSUME MovableInv, AllBacked, [SystemNext]_systemVars, NEW k \in Handler
      PROVE  Backed(handler[k])'
  <2>0. Backed(handler[k]) /\ SystemInv
    BY <1>2 DEF AllBacked, MovableInv
  <2>1. CASE handler'[k] = handler[k]
    BY <1>2, <2>0, <2>1, BackedStays
  <2>2. CASE \E h \in Handler : RequestStep(h)
    <3>1. PICK h \in Handler : Receive(h) \/ HandlerStep(h) \/ Fail(h)
      BY <2>2 DEF RequestStep
    <3>2. CASE h = k
      BY <1>2, <2>0, <3>1, <3>2, BackedByStep
    <3>3. CASE h # k
      BY <2>0, <2>1, <3>1, <3>3, OthersStay
    <3> QED
      BY <3>2, <3>3
  <2>3. CASE Crash
    <3>1. handler'[k] = Idle
      BY <2>3 DEF Crash
    <3> QED
      BY <3>1 DEF Backed, Idle
  <2>4. CASE UNCHANGED handler
    BY <2>1, <2>4
  <2> QED
    BY <1>2, <2>2, <2>3, <2>4 DEF SystemNext, RefreshStep, requestVars, systemVars
<1>3. MovableInv /\ AllBacked /\ [SystemNext]_systemVars => AllBacked'
  BY <1>2 DEF AllBacked
<1> QED
  BY <1>1, <1>3, MovableInvariant, PTL DEF SystemSpec

-----------------------------------------------------------------------------
(* What the findings need: without it, the code does what DESIGN says.       *)

\* Nothing but a refresh cycle changes the lifetime of a row.
LEMMA OnlyCyclesMove ==
  ASSUME SystemInv, [SystemNext]_systemVars, Worker = {}, NEW f \in Fp, HasRow(f)
  PROVE  rows'[f].expires = rows[f].expires
<1>0. rows \in [Fp -> Row \cup {NoRow}]
  BY Facts
<1>1. CASE UNCHANGED rows
  BY <1>1
<1>2. ASSUME NEW h \in Handler, Effect(h), At(h, "mark") PROVE rows'[f].expires = rows[f].expires
  <2>1. rows' = [rows EXCEPT ![handler[h].entry] =
                   [rows[handler[h].entry] EXCEPT !.hits = rows[handler[h].entry].hits + 1]]
    BY <1>2 DEF Effect, At, MarkHit
  <2>2. CASE f = handler[h].entry
    <3>1. rows[f] \in Row
      BY RowTyped
    <3>2. rows'[f] = [rows[f] EXCEPT !.hits = rows[f].hits + 1]
      BY <1>0, <2>1, <2>2
    <3> QED
      BY <3>1, <3>2 DEF Row
  <2>3. CASE f # handler[h].entry
    BY <1>0, <2>1, <2>3
  <2> QED
    BY <2>2, <2>3
<1>3. ASSUME NEW h \in Handler, Effect(h), At(h, "insert") PROVE rows'[f].expires = rows[f].expires
  <2>1. /\ ~HasRow(handler[h].fp)
        /\ \E r : rows' = [rows EXCEPT ![handler[h].fp] = r]
    BY <1>3 DEF Effect, At, InsertNow, InsertEntry, CanInsert
  <2> QED
    BY <1>0, <2>1
<1>4. ASSUME NEW h \in Handler, Effect(h), ~At(h, "mark"), ~At(h, "insert") PROVE UNCHANGED rows
  BY <1>4 DEF Effect
<1> QED
  BY <1>1, <1>2, <1>3, <1>4, OneStatement DEF Tick, storageVars

\* The index and the rows agree on the lifetimes, and so will the point that is due.
IndexAgrees ==
  /\ \A f \in Fp : HasPoint(f) => points[f] = rows[f].expires
  /\ \A h \in Handler : At(h, "upsert") => rows[handler[h].fp].expires = handler[h].expires

\* Without refresh cycles the index and the rows never disagree.
LEMMA AgreementStays ==
  ASSUME SystemInv, IndexAgrees, [SystemNext]_systemVars, Worker = {} PROVE IndexAgrees'
<1>1. ASSUME NEW f \in Fp, points'[f] # NoTime PROVE points'[f] = rows'[f].expires
  <2>1. CASE points'[f] = points[f]
    <3>1. HasPoint(f) /\ points[f] = rows[f].expires /\ HasRow(f)
      BY <1>1, <2>1 DEF HasPoint, IndexAgrees, SystemInv, RowThenPointThenDecision
    <3> QED
      BY <2>1, <3>1, OnlyCyclesMove
  <2>2. CASE points'[f] # points[f]
    <3>1. PICK h \in Handler : /\ At(h, "upsert") /\ handler[h].fp = f
                               /\ points'[f] = handler[h].expires /\ UNCHANGED rows
      BY <2>2, PointWriter
    <3> QED
      BY <3>1 DEF IndexAgrees
  <2> QED
    BY <2>1, <2>2
<1>2. ASSUME NEW h \in Handler, handler'[h].pc = "upsert"
      PROVE  rows'[handler'[h].fp].expires = handler'[h].expires
  <2>1. CASE handler'[h] = handler[h]
    <3>1. /\ At(h, "upsert") /\ handler[h].fp \in Fp /\ HasRow(handler[h].fp)
          /\ rows[handler[h].fp].expires = handler[h].expires
      BY <1>2, <2>1 DEF At, IndexAgrees, SystemInv, RequestOK, StoreCalls
    <3>2. PICK f \in Fp : f = handler[h].fp
      BY <3>1
    <3> QED
      BY <2>1, <3>1, <3>2, OnlyCyclesMove
  <2>2. CASE handler'[h] # handler[h]
    <3>1. /\ InsertNow(h) /\ handler[h].fp \in Fp
          /\ handler'[h].fp = handler[h].fp /\ handler'[h].expires = handler[h].expires
      BY <1>2, <2>2, UpsertsAfterInsert
    <3>2. rows'[handler[h].fp].expires = handler[h].expires
      BY <3>1, Facts DEF InsertNow, InsertEntry
    <3> QED
      BY <3>1, <3>2
  <2> QED
    BY <2>1, <2>2
<1> QED
  BY <1>1, <1>2 DEF IndexAgrees, HasPoint, At

\* As long as no refresh cycle runs, a live entry is found by the search of its own request,
\* which it matches: only a cycle that moves an indexed row can hide it.
THEOREM UnmovedEntriesAreFound ==
  ASSUME Worker = {}, \A f \in Fp : Score[f][f] > 0
  PROVE  SystemSpec => []LiveEntriesAreFound
<1>1. SystemInit => IndexAgrees
  BY DEF SystemInit, RPInit, StorageInit, IndexAgrees, HasPoint, At, Idle
<1>2. SystemInv /\ IndexAgrees /\ [SystemNext]_systemVars => IndexAgrees'
  BY AgreementStays
<1>3. SystemInv /\ IndexAgrees => LiveEntriesAreFound
  <2> SUFFICES ASSUME SystemInv, IndexAgrees, NEW f \in Fp, HasPoint(f), ~Expired(rows[f])
               PROVE  f \in Findable(f)
    BY DEF LiveEntriesAreFound
  <2>1. points[f] = rows[f].expires /\ HasRow(f)
    BY DEF IndexAgrees, SystemInv, RowThenPointThenDecision
  <2>2. rows[f].expires \in Nat /\ clock \in Nat
    BY <2>1, RowTyped, Facts
  <2> QED
    BY <2>1, <2>2 DEF Expired, Findable
<1> QED
  BY <1>1, <1>2, <1>3, SystemInvariant, PTL DEF SystemSpec

\* Where the backend has answered, only a failing decision log takes its answer away.
LEMMA AnswerIsKept ==
  ASSUME SystemInv, [SystemNext]_systemVars, "decide" \notin Faults, NEW h \in Handler,
         handler[h].pc \in StoreCalls \cup {"decide"}, handler'[h].pc = "reply"
  PROVE  handler'[h].reply = "forwarded"
<1>0. handler[h] \in HandlerState /\ handler \in [Handler -> HandlerState]
  BY Facts
<1>1. handler'[h] # handler[h]
  BY DEF StoreCalls
<1>2. PICK k \in Handler : Receive(k) \/ HandlerStep(k) \/ Fail(k)
  <2>1. CASE Crash
    BY <2>1 DEF Crash, Idle
  <2> QED
    BY <1>1, <2>1 DEF SystemNext, RequestStep, RefreshStep, requestVars, systemVars
<1>3. k = h
  BY <1>1, <1>2, OthersStay
<1>4. ASSUME NEW s, Become(h, s) PROVE handler'[h] = s
  BY <1>0, <1>4 DEF Become
<1>5. ASSUME Answer(h, "forwarded") PROVE handler'[h].reply = "forwarded"
  BY <1>0, <1>4, <1>5 DEF Answer, HandlerState
<1>6. CASE Stamp(h)
  BY <1>0, <1>4, <1>5, <1>6 DEF Stamp, HandlerState
<1>7. CASE Insert(h) \/ Reload(h)
  BY <1>0, <1>4, <1>5, <1>7 DEF Insert, Reload, Goto, HandlerState
<1>8. CASE Upsert(h)
  BY <1>0, <1>4, <1>8 DEF Upsert, Goto, HandlerState
<1>9. CASE LogDecision(h)
  BY <1>0, <1>4, <1>9 DEF LogDecision, HandlerState
<1>10. CASE Fail(h)
  <2>1. handler[h].pc \in StoreCalls
    BY <1>10 DEF Fail
  <2> QED
    BY <1>5, <1>10, <2>1 DEF Fail
<1>11. CASE \/ Receive(h) \/ VectorSearch(h) \/ Discard(h) \/ ChooseLive(h) \/ RecordHit(h)
            \/ Reread(h) \/ NoLiveCandidate(h) \/ ServeHit(h) \/ LogStaleHit(h)
            \/ SelectBucket(h) \/ BackendAnswers(h) \/ Respond(h)
  BY <1>11 DEF Receive, VectorSearch, Discard, ChooseLive, RecordHit, Reread, NoLiveCandidate,
     ServeHit, LogStaleHit, SelectBucket, BackendAnswers, Respond, At, StoreCalls
<1> QED
  BY <1>2, <1>3, <1>6, <1>7, <1>8, <1>9, <1>10, <1>11 DEF HandlerStep

\* Whatever else fails, races or moves, the client gets the answer the backend has given,
\* unless the decision log raises.
THEOREM AnswersAreForwarded ==
  ASSUME "decide" \notin Faults
  PROVE  SystemSpec => BackendAnswerIsForwarded
<1>1. ASSUME SystemInv, [SystemNext]_systemVars
      PROVE  \A h \in Handler :
               handler[h].pc \in StoreCalls \cup {"decide"} /\ handler'[h].pc = "reply" =>
                 handler'[h].reply = "forwarded"
  BY <1>1, AnswerIsKept
<1>2. SystemInv /\ [SystemNext]_systemVars =>
        [\A h \in Handler :
           handler[h].pc \in StoreCalls \cup {"decide"} /\ handler'[h].pc = "reply" =>
             handler'[h].reply = "forwarded"]_rpVars
  BY <1>1
<1> QED
  BY <1>2, SystemInvariant, PTL DEF SystemSpec, BackendAnswerIsForwarded

\* The row that refuses: a request that has stamped its answer and leaves finds a row of its
\* fingerprint, its own or one that was there first.
RefusedByRow(s) ==
  /\ s.pc \in LookupCalls \cup {"idle", "backend", "stamp"} => s.created = NoTime
  /\ s.pc = "reply" /\ s.created # NoTime => s.fp \in Fp /\ HasRow(s.fp)

StampedHaveRows == \A h \in Handler : RefusedByRow(handler[h])

\* A step of the request itself keeps that.
LEMMA RefusedByStep ==
  ASSUME SystemInv, [SystemNext]_systemVars, NEW h \in Handler, RefusedByRow(handler[h]),
         Faults \cap StoreCalls = {}, Receive(h) \/ HandlerStep(h) \/ Fail(h)
  PROVE  RefusedByRow(handler[h])'
<1>0. /\ handler[h] \in HandlerState /\ handler \in [Handler -> HandlerState]
      /\ RequestOK(handler[h]) /\ Grows
  BY StepGrows, Facts DEF SystemInv
<1>1. ASSUME NEW s, Become(h, s) PROVE handler'[h] = s
  BY <1>0, <1>1 DEF Become
<1>2. ASSUME handler'[h].created = NoTime PROVE RefusedByRow(handler[h])'
  BY <1>2 DEF RefusedByRow
<1>3. ASSUME handler'[h].pc \in {"insert", "upsert", "reload", "decide"}
      PROVE  RefusedByRow(handler[h])'
  BY <1>3 DEF RefusedByRow, LookupCalls
<1>4. ASSUME NEW kind, Answer(h, kind), handler[h].fp \in Fp, HasRow(handler[h].fp)
      PROVE  RefusedByRow(handler[h])'
  <2>1. handler'[h].pc = "reply" /\ handler'[h].fp = handler[h].fp
    BY <1>0, <1>1, <1>4 DEF Answer, HandlerState
  <2>2. rows'[handler[h].fp] # NoRow
    BY <1>0, <1>4 DEF Grows, HasRow
  <2> QED
    BY <1>4, <2>1, <2>2 DEF RefusedByRow, HasRow, LookupCalls
<1>5. CASE \/ Receive(h) \/ VectorSearch(h) \/ Discard(h) \/ ChooseLive(h) \/ RecordHit(h)
           \/ Reread(h) \/ NoLiveCandidate(h) \/ ServeHit(h)
  <2>1. handler[h].created = NoTime
    BY <1>5 DEF Receive, VectorSearch, Discard, ChooseLive, RecordHit, Reread,
       NoLiveCandidate, ServeHit, At, RefusedByRow, LookupCalls
  <2>2. CASE Receive(h) \/ VectorSearch(h) \/ Discard(h) \/ ChooseLive(h)
    <3>1. handler'[h].created = handler[h].created
      BY <1>0, <1>1, <2>2 DEF Receive, VectorSearch, Discard, ChooseLive, HandlerState
    <3> QED
      BY <1>2, <2>1, <3>1
  <2>3. CASE RecordHit(h) \/ Reread(h) \/ NoLiveCandidate(h) \/ ServeHit(h)
    <3> DEFINE x == handler[h]
               g == x.entry
               hit == [x EXCEPT !.pc = "logHit", !.status = "HIT",
                                !.bucket = rows[g].bucket, !.expires = rows[g].expires]
               late == [x EXCEPT !.pc = "logStale", !.status = "STALE", !.entry = x.stale]
               end == [x EXCEPT !.pc = "reply", !.reply = "cached"]
    <3>1. \A pc : [x EXCEPT !.pc = pc].created = x.created
      BY <1>0 DEF HandlerState
    <3>2. hit.created = x.created /\ late.created = x.created /\ end.created = x.created
      BY <1>0 DEF HandlerState
    <3>3. (\E pc : Goto(h, pc)) \/ Become(h, hit) \/ Become(h, late) \/ Become(h, end)
      BY <2>3 DEF RecordHit, Reread, NoLiveCandidate, ServeHit
    <3> HIDE DEF hit, late, end
    <3>4. (\E pc : Goto(h, pc)) => handler'[h].created = x.created
      BY <1>1, <3>1 DEF Goto
    <3> QED
      BY <1>1, <1>2, <2>1, <3>2, <3>3, <3>4
  <2> QED
    BY <1>5, <2>2, <2>3
<1>6. CASE LogStaleHit(h) \/ SelectBucket(h) \/ BackendAnswers(h)
  <2>1. handler[h].created = NoTime
    BY <1>6 DEF LogStaleHit, SelectBucket, BackendAnswers, At, RefusedByRow, LookupCalls
  <2>2. handler'[h].created = handler[h].created
    BY <1>0, <1>1, <1>6 DEF LogStaleHit, SelectBucket, BackendAnswers, Goto, Answer, HandlerState
  <2> QED
    BY <1>2, <2>1, <2>2
<1>7. CASE Stamp(h)
  <2>1. handler[h].created = NoTime
    BY <1>7 DEF Stamp, At, RefusedByRow
  <2>2. handler'[h].created = handler[h].created \/ handler'[h].pc = "insert"
    BY <1>0, <1>1, <1>7 DEF Stamp, Answer, HandlerState
  <2> QED
    BY <1>2, <1>3, <2>1, <2>2
<1>8. CASE Insert(h)
  <2>1. handler[h].fp \in Fp
    BY <1>0, <1>8 DEF Insert, At, RequestOK, StoreCalls
  <2>2. Goto(h, "upsert") => handler'[h].pc = "upsert"
    BY <1>0, <1>1 DEF Goto, HandlerState
  <2> QED
    BY <1>3, <1>4, <1>8, <2>1, <2>2 DEF Insert, CanInsert
<1>9. CASE Upsert(h)
  <2>1. handler'[h].pc = "reload"
    BY <1>0, <1>1, <1>9 DEF Upsert, Goto, HandlerState
  <2> QED
    BY <1>3, <2>1
<1>10. CASE Reload(h)
  <2>1. HasRow(handler[h].fp)
    BY <1>0, <1>10 DEF Reload, At, RequestOK
  <2>2. handler'[h].pc = "decide"
    BY <1>0, <1>1, <1>10, <2>1 DEF Reload, HandlerState
  <2> QED
    BY <1>3, <2>2
<1>11. CASE LogDecision(h)
  <2>1. handler[h].fp \in Fp /\ HasRow(handler[h].fp)
    BY <1>0, <1>11 DEF LogDecision, At, RequestOK
  <2>2. handler'[h].pc = "reply" /\ handler'[h].fp = handler[h].fp
    BY <1>0, <1>1, <1>11 DEF LogDecision, HandlerState
  <2>3. rows'[handler[h].fp] # NoRow
    BY <1>0, <2>1 DEF Grows, HasRow
  <2> QED
    BY <2>1, <2>2, <2>3 DEF RefusedByRow, HasRow, LookupCalls
<1>12. CASE Respond(h)
  <2>1. handler'[h] = Idle
    BY <1>1, <1>12 DEF Respond
  <2> QED
    BY <1>2, <2>1 DEF Idle
<1>13. CASE Fail(h)
  <2>1. handler[h].pc \in LookupCalls \cup {"backend", "decide"}
    BY <1>0, <1>13, FaultsAssumption DEF Fail, Calls, HandlerState
  <2>2. Answer(h, "error") /\ handler[h].pc \notin StoreCalls
    BY <1>13 DEF Fail
  <2>3. CASE At(h, "decide")
    BY <1>0, <1>4, <2>2, <2>3 DEF At, RequestOK
  <2>4. CASE ~At(h, "decide")
    <3>1. handler[h].created = NoTime
      BY <2>1, <2>4 DEF RefusedByRow, At
    <3>2. handler'[h].created = NoTime
      BY <1>0, <1>1, <2>2, <3>1 DEF Answer, HandlerState
    <3> QED
      BY <1>2, <3>2
  <2> QED
    BY <2>3, <2>4
<1> QED
  BY <1>5, <1>6, <1>7, <1>8, <1>9, <1>10, <1>11, <1>12, <1>13 DEF HandlerStep

\* Where no call of store fails, an answer that was to be stored is dropped for one reason
\* only: a row of its fingerprint was there first, and rows stay for ever.
THEOREM OnlyRowsRefuse ==
  ASSUME Faults \cap StoreCalls = {}
  PROVE  SystemSpec => []StampedHaveRows
<1>1. SystemInit => StampedHaveRows
  BY DEF SystemInit, RPInit, StampedHaveRows, RefusedByRow, Idle
<1>2. ASSUME SystemInv, StampedHaveRows, [SystemNext]_systemVars, NEW k \in Handler
      PROVE  RefusedByRow(handler[k])'
  <2>0. RefusedByRow(handler[k]) /\ Grows
    BY <1>2, StepGrows DEF StampedHaveRows
  <2>1. CASE handler'[k] = handler[k]
    BY <2>0, <2>1 DEF RefusedByRow, Grows, HasRow
  <2>2. CASE \E h \in Handler : RequestStep(h)
    <3>1. PICK h \in Handler : Receive(h) \/ HandlerStep(h) \/ Fail(h)
      BY <2>2 DEF RequestStep
    <3>2. CASE h = k
      BY <1>2, <2>0, <3>1, <3>2, RefusedByStep
    <3>3. CASE h # k
      BY <1>2, <2>1, <3>1, <3>3, OthersStay
    <3> QED
      BY <3>2, <3>3
  <2>3. CASE Crash
    <3>1. handler'[k] = Idle
      BY <2>3 DEF Crash
    <3> QED
      BY <3>1 DEF RefusedByRow, Idle
  <2>4. CASE UNCHANGED handler
    BY <2>1, <2>4
  <2> QED
    BY <1>2, <2>2, <2>3, <2>4 DEF SystemNext, RefreshStep, requestVars, systemVars
<1>3. SystemInv /\ StampedHaveRows /\ [SystemNext]_systemVars => StampedHaveRows'
  BY <1>2 DEF StampedHaveRows
<1> QED
  BY <1>1, <1>3, SystemInvariant, PTL DEF SystemSpec

=============================================================================
