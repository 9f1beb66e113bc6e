----------------------------- MODULE Forwarding -----------------------------
(***************************************************************************)
(* ProxyService.forward (app/proxy/service.py) as its clients and its      *)
(* backend see it: who is let in, what is eligible for the cache, the      *)
(* connection to the backend, the body or the stream that comes over it,   *)
(* and what the client gets.  The coroutines of lookup and store begin     *)
(* with an embedding, of EmbeddingService.                                 *)
(*                                                                         *)
(* RequestPath has the two stores in detail; here they are the set of the  *)
(* answers kept, any of which may have expired.                            *)
(***************************************************************************)
EXTENDS EmbeddingService

CONSTANTS
  Request,         \* the requests that clients send
  Similar,         \* pairs of prompts whose similarity reaches similarity_threshold
  InboundKeys,     \* settings.inbound_api_keys
  None,            \* no request, no answer
  MaxConnections,  \* the connection pool of the shared httpx.Client
  MaxChunks,       \* bound on the chunks of a stream (of the model only)
  MaxRequests      \* bound on the requests received (of the model only)

\* What forward looks at: the bearer token, if any; whether the method is POST and the
\* content type JSON; what the body is; and, if it is an object, the route, the model
\* with the parameters, the flattened prompt, and whether it asks for a stream, lacks a
\* field, or has a message that is no object.
RequestType ==
  [token : STRING, json : BOOLEAN,
   body : {"empty", "undecodable", "malformed", "list", "object"},
   route : {"chat", "legacy", "other"}, model : STRING, prompt : STRING,
   shape : {"complete", "stream", "partial", "odd"}]

ASSUME RequestAssumption == Request \subseteq RequestType /\ None \notin Request
ASSUME SimilarAssumption == Similar \subseteq STRING \X STRING
ASSUME PoolAssumption == MaxConnections \in Nat \ {0}
ASSUME ChunksAssumption == MaxChunks \in Nat /\ MaxRequests \in Nat

\* What the backend answers with: a stream, a JSON object with status 200, one with
\* another status, a body that says it is JSON and is no UTF-8, or any other body.
Answer == {"stream", "object", "failure", "undecodable", "other"}
\* What the cache keeps: a request and what the backend answered to it.
Entry == [req : Request, answer : Answer]

VARIABLES
  caching,      \* is there a semantic cache service
  exchange,     \* per caller, the request in flight
  connections,  \* the callers that hold a connection of the pool
  cache,        \* the answers stored
  received      \* requests received so far

forwardingVars == <<caching, exchange, connections, cache, received>>
vars == <<forwardingVars, embedVars>>

(***************************************************************************)
(* taken are the chunks read from the backend, sent those the client has,  *)
(* total those the backend's stream has; all three are only counted.       *)
(***************************************************************************)
Idle == [pc |-> "idle", req |-> None, answer |-> None, taken |-> 0, sent |-> 0,
         total |-> 0, reply |-> "none", hit |-> None]

At(h, pc) == exchange[h].pc = pc
Become(h, s) == exchange' = [exchange EXCEPT ![h] = s]
Goto(h, pc) == Become(h, [exchange[h] EXCEPT !.pc = pc])
Reply(h, kind) == Become(h, [exchange[h] EXCEPT !.pc = "reply", !.reply = kind])

ForwardingInit ==
  /\ caching \in BOOLEAN
  /\ exchange = [h \in Caller |-> Idle]
  /\ connections = {}
  /\ cache = {}
  /\ received = 0

-----------------------------------------------------------------------------
(* From the request to the lookup *)

Authorized(r) == InboundKeys = {} \/ r.token \in InboundKeys

\* _maybe_prepare_cache_query and normalize_request, up to the construction of the
\* query, raise on bytes that are no UTF-8 and on a message that is no object.
Raises(r) ==
  /\ r.json
  /\ \/ r.body = "undecodable"
     \/ r.body = "object" /\ r.route = "chat" /\ r.shape = "odd"

Cacheable(r) ==
  r.json /\ r.body = "object" /\ r.route # "other" /\ r.shape = "complete"

\* _forward up to the first call it makes: 401 or 403, 500, the cache, or the backend.
Receive(h, r) ==
  /\ At(h, "idle")
  /\ received < MaxRequests
  /\ received' = received + 1
  /\ LET s == [Idle EXCEPT !.req = r]
     IN  \/ ~Authorized(r) /\ Become(h, [s EXCEPT !.pc = "reply", !.reply = "denied"])
         \/ /\ Authorized(r) /\ caching /\ Raises(r)
            /\ Become(h, [s EXCEPT !.pc = "reply", !.reply = "error"])
         \/ /\ Authorized(r) /\ caching /\ Cacheable(r)
            /\ Become(h, [s EXCEPT !.pc = "lookup"])
         \/ /\ Authorized(r) /\ ~(caching /\ (Raises(r) \/ Cacheable(r)))
            /\ Become(h, [s EXCEPT !.pc = "open"])
  /\ UNCHANGED <<caching, connections, cache, embedVars>>

\* The embedding of lookup or of store goes on.
Embeds(h) ==
  /\ At(h, "lookup") \/ At(h, "store")
  /\ EmbedStep(h)
  /\ UNCHANGED forwardingVars

\* The search asks for the model and the parameters, not for the route, and for a prompt
\* whose vector is close enough.
Matches(e, r) == e.req.model = r.model /\ <<r.prompt, e.req.prompt>> \in Similar

\* lookup and what follows it, up to the reply or to the backend: a hit, a miss, a
\* stale hit, or an exception of any of the calls.
LookedUp(h) ==
  /\ At(h, "lookup")
  /\ embed[h] \in {"done", "failed"}
  /\ Leave(h)
  /\ \/ /\ embed[h] = "done"
        /\ \/ \E e \in cache :
                /\ Matches(e, exchange[h].req)
                /\ Become(h, [exchange[h] EXCEPT !.pc = "reply", !.reply = "cached",
                                                 !.hit = e])
           \/ Goto(h, "open")
     \/ Reply(h, "error")
  /\ UNCHANGED <<caching, connections, cache, received>>

-----------------------------------------------------------------------------
(* The backend *)

\* client.stream(...).__enter__: a connection of the pool, opened or reused.
Open(h) ==
  /\ At(h, "open")
  /\ Cardinality(connections) < MaxConnections
  /\ connections' = connections \cup {h}
  /\ Goto(h, "sent")
  /\ UNCHANGED <<caching, cache, received, embedVars>>

\* No connection in time, or none to be had: 502.
OpenFails(h) ==
  /\ At(h, "open")
  /\ Reply(h, "unavailable")
  /\ UNCHANGED <<caching, connections, cache, received, embedVars>>

\* The status and the headers; a text/event-stream is a stream, whatever was asked for.
HeadersArrive(h) ==
  /\ At(h, "sent")
  /\ \E a \in Answer, n \in 0 .. MaxChunks :
       /\ a = "stream" \/ n = 0
       /\ Become(h, [exchange[h] EXCEPT !.pc = IF a = "stream" THEN a ELSE "body",
                                        !.answer = a, !.total = n])
  /\ UNCHANGED <<caching, connections, cache, received, embedVars>>

\* Mutant: the connection is kept when the backend fails.
BackendFailsHolding(h) ==
  /\ At(h, "sent") \/ At(h, "body")
  /\ Reply(h, "unavailable")
  /\ UNCHANGED <<caching, connections, cache, received, embedVars>>

\* A timeout or an error before the headers or in the body: the context manager, or
\* the finally clause, gives the connection back; 502.
BackendFails(h) ==
  /\ At(h, "sent") \/ At(h, "body")
  /\ connections' = connections \ {h}
  /\ Reply(h, "unavailable")
  /\ UNCHANGED <<caching, cache, received, embedVars>>

\* Mutant: an error page is stored like any JSON object.
StorableUnchecked(s) == caching /\ Cacheable(s.req) /\ s.answer \in {"object", "failure"}

Storable(s) == caching /\ Cacheable(s.req) /\ s.answer = "object"

\* Mutant: the body is handed on unread, its connection with it.
BodyArrivesOpen(h) ==
  /\ At(h, "body")
  /\ LET s == exchange[h]
     IN  \/ s.answer = "undecodable" /\ Reply(h, "error")
         \/ s.answer # "undecodable" /\ Storable(s) /\ Goto(h, "store")
         \/ s.answer # "undecodable" /\ ~Storable(s) /\ Reply(h, "forwarded")
  /\ UNCHANGED <<caching, connections, cache, received, embedVars>>

\* _as_standard_response up to the store: read gives the connection back; JSON that is
\* no UTF-8 raises.
BodyArrives(h) ==
  /\ At(h, "body")
  /\ connections' = connections \ {h}
  /\ LET s == exchange[h]
     IN  \/ s.answer = "undecodable" /\ Reply(h, "error")
         \/ s.answer # "undecodable" /\ Storable(s) /\ Goto(h, "store")
         \/ s.answer # "undecodable" /\ ~Storable(s) /\ Reply(h, "forwarded")
  /\ UNCHANGED <<caching, cache, received, embedVars>>

SameFingerprint(q, r) == q.route = r.route /\ q.model = r.model /\ q.prompt = r.prompt

\* store and the decision log: the fingerprint is UNIQUE; a failing store, for whatever
\* reason, is swallowed; a failing log is not.
Stored(h) ==
  /\ At(h, "store")
  /\ embed[h] \in {"done", "failed"}
  /\ Leave(h)
  /\ LET s == exchange[h]
     IN  \/ /\ embed[h] = "done"
            /\ \A e \in cache : ~SameFingerprint(e.req, s.req)
            /\ cache' = cache \cup {[req |-> s.req, answer |-> s.answer]}
            /\ Reply(h, "forwarded") \/ Reply(h, "error")
         \/ UNCHANGED cache /\ Reply(h, "forwarded")
  /\ UNCHANGED <<caching, connections, received>>

-----------------------------------------------------------------------------
(***************************************************************************)
(* The stream.  _as_streaming_response wraps it in a generator, whose      *)
(* finally clause gives the connection back; _after_request asks for the   *)
(* length of every response (flask_app.py:179), and for a generator        *)
(* werkzeug's calculate_content_length runs it to its end, into a list.    *)
(* The client gets the list.                                               *)
(***************************************************************************)
Chunk(h) ==
  /\ At(h, "stream")
  /\ exchange[h].taken < exchange[h].total
  /\ Become(h, [exchange[h] EXCEPT !.taken = @ + 1])
  /\ UNCHANGED <<caching, connections, cache, received, embedVars>>

StreamEnds(h) ==
  /\ At(h, "stream")
  /\ exchange[h].taken = exchange[h].total
  /\ connections' = connections \ {h}
  /\ Become(h, [exchange[h] EXCEPT !.pc = "reply", !.reply = "forwarded",
                                   !.sent = exchange[h].taken])
  /\ UNCHANGED <<caching, cache, received, embedVars>>

\* Mutant: the generator takes an error for the end.
StreamBreaksQuietly(h) ==
  /\ At(h, "stream")
  /\ connections' = connections \ {h}
  /\ Become(h, [exchange[h] EXCEPT !.pc = "reply", !.reply = "forwarded",
                                   !.sent = exchange[h].taken])
  /\ UNCHANGED <<caching, cache, received, embedVars>>

\* An error in the stream is raised in the hook: Flask answers 500 in its place.
StreamBreaks(h) ==
  /\ At(h, "stream")
  /\ connections' = connections \ {h}
  /\ Reply(h, "error")
  /\ UNCHANGED <<caching, cache, received, embedVars>>

\* The response has left; the thread takes the next request.
Return(h) ==
  /\ At(h, "reply")
  /\ Become(h, Idle)
  /\ UNCHANGED <<caching, connections, cache, received, embedVars>>

-----------------------------------------------------------------------------
Forward(h) ==
  \/ Embeds(h) \/ LookedUp(h)
  \/ Open(h) \/ OpenFails(h) \/ HeadersArrive(h) \/ BackendFails(h)
  \/ BodyArrives(h) \/ Stored(h)
  \/ Chunk(h) \/ StreamEnds(h) \/ StreamBreaks(h)
  \/ Return(h)

Init == EmbedInit /\ ForwardingInit
Next == \E h \in Caller : Forward(h) \/ \E r \in Request : Receive(h, r)

\* A thread that has a request goes on: each of its calls returns or raises, the wait
\* for the pool and for the backend within the client's timeout.
Spec == Init /\ [][Next]_vars /\ \A h \in Caller : WF_vars(Forward(h))

-----------------------------------------------------------------------------
Phase == {"idle", "lookup", "open", "sent", "body", "store", "stream", "reply"}

Exchange ==
  [pc : Phase, req : Request \cup {None}, answer : Answer \cup {None},
   hit : Entry \cup {None}, taken : Nat, sent : Nat, total : Nat,
   reply : {"none", "denied", "error", "unavailable", "cached", "forwarded"}]

\* The variables keep their types; nobody embeds but for a lookup or a store.
ForwardingTypeOK ==
  /\ EmbedTypeOK
  /\ exchange \in [Caller -> Exchange]
  /\ caching \in BOOLEAN /\ connections \subseteq Caller /\ cache \subseteq Entry
  /\ received \in Nat
  /\ \A h \in Caller : embed[h] = "out" \/ At(h, "lookup") \/ At(h, "store")

\* No connection outlives its exchange, however it ends, and no thread holds one while
\* it waits for the model or the stores: a slow load cannot exhaust the pool.
ConnectionsAreReturned ==
  \A h \in connections : exchange[h].pc \in {"sent", "body", "stream"}

\* A stream that is forwarded is the whole stream: one that breaks off, even after the
\* first chunks, is never handed on as if it had ended.
StreamsAreWhole ==
  \A h \in Caller : exchange[h].reply = "forwarded" => exchange[h].sent = exchange[h].total

\* What the backend has answered with an error is never replayed to a later request.
ErrorsAreNotReplayed ==
  \A h \in Caller : exchange[h].reply = "cached" => exchange[h].hit.answer = "object"

\* What an exchange relies on as it goes from phase to phase.
Sound(s) ==
  /\ s.pc # "idle" => s.req \in Request
  /\ s.pc = "reply" <=> s.reply # "none"
  /\ s.reply = "none" => s.sent = 0
  /\ s.pc \in {"body", "store"} => s.total = 0
  /\ s.pc = "store" => s.answer = "object"
  /\ s.reply = "forwarded" => s.sent = s.total
  /\ s.reply = "cached" => s.hit \in Entry /\ s.hit.answer = "object"

\* What holds between any two steps, of the lock, the pool and every exchange.
ForwardingInv ==
  /\ ForwardingTypeOK
  /\ LockInv
  /\ ConnectionsAreReturned
  /\ \A h \in Caller : Sound(exchange[h])
  /\ \A e \in cache : e.answer = "object"

\* Every request is answered, though the model's load may fail while others wait for
\* it, the pool may be full, and the stream may break off.
EveryForwardReturns == \A h \in Caller : ~At(h, "idle") ~> At(h, "idle")

\* DESIGN: "Streaming (`text/event-stream`) responses are relayed chunk-by-chunk
\* without buffering".  When a chunk is read, the client has those before it.
RelayedWithoutBuffering ==
  \A h \in Caller : At(h, "stream") => exchange[h].taken <= exchange[h].sent + 1

\* DESIGN: "`/v1/**` routes remain OpenAI-compatible".  An answer from the cache is one
\* to a request of the same route.
AnswersInOwnFormat ==
  \A h \in Caller :
    exchange[h].reply = "cached" => exchange[h].hit.req.route = exchange[h].req.route

=============================================================================
