-------------------------- MODULE ForwardingProofs --------------------------
(***************************************************************************)
(* ForwardingInv is an inductive invariant of Forwarding, for any number   *)
(* of threads, any requests and keys, and any pool.                        *)
(***************************************************************************)
EXTENDS Forwarding, TLAPS

USE NobodyAssumption, RequestAssumption

(* The lock of the embedding service. *)

\* A caller that moves on its own, neither to nor from the lock, disturbs nothing.
LEMMA MoveKeepsLock ==
  ASSUME EmbedTypeOK, LockInv, NEW c \in Caller, NEW to \in EmbedState \ {"queued", "load"},
         embed[c] \notin {"queued", "load"}, embed' = [embed EXCEPT ![c] = to],
         UNCHANGED <<model, holder, waiters>>
  PROVE  EmbedTypeOK' /\ LockInv'
<1>1. embed' \in [Caller -> EmbedState]
  BY DEF EmbedTypeOK
<1>2. \A k \in Caller : (embed'[k] = "load" <=> embed[k] = "load")
                        /\ (embed'[k] = "queued" <=> embed[k] = "queued")
  BY DEF EmbedTypeOK
<1>3. EmbedTypeOK'
  BY <1>1 DEF EmbedTypeOK
<1>4. LockInv'
  BY <1>2 DEF LockInv, Loading
<1>5. QED
  BY <1>3, <1>4

\* A caller asks for the lock: it gets it only if nobody holds or awaits it.
LEMMA CallKeepsLock ==
  ASSUME EmbedTypeOK, LockInv, NEW c \in Caller, Call(c)
  PROVE  EmbedTypeOK' /\ LockInv'
<1>1. CASE model /\ Moves(c, "out", "encode") /\ UNCHANGED <<model, holder, waiters>>
  BY <1>1, MoveKeepsLock DEF Moves, EmbedState
<1>2. CASE /\ ~model /\ holder = Nobody /\ waiters = <<>>
           /\ Moves(c, "out", "load") /\ holder' = c /\ UNCHANGED <<model, waiters>>
  <2>1. embed' \in [Caller -> EmbedState]
    BY <1>2 DEF EmbedTypeOK, Moves, EmbedState
  <2>2. embed'[c] = "load" /\ \A k \in Caller \ {c} : embed'[k] = embed[k]
    BY <1>2 DEF EmbedTypeOK, Moves
  <2>3. \A k \in Caller : embed[k] # "load"
    BY <1>2 DEF LockInv, Loading
  <2>4. EmbedTypeOK'
    BY <1>2, <2>1 DEF EmbedTypeOK
  <2>5. LockInv'
    BY <1>2, <2>2, <2>3 DEF LockInv, Loading, Moves
  <2>6. QED
    BY <2>4, <2>5
<1>3. CASE /\ ~model /\ ~(holder = Nobody /\ waiters = <<>>)
           /\ Moves(c, "out", "queued") /\ waiters' = Append(waiters, c)
           /\ UNCHANGED <<model, holder>>
  <2>1. embed' \in [Caller -> EmbedState] /\ waiters \in Seq(Caller)
    BY <1>3 DEF EmbedTypeOK, Moves, EmbedState
  <2>2. embed[c] = "out" /\ embed'[c] = "queued"
        /\ \A k \in Caller \ {c} : embed'[k] = embed[k]
    BY <1>3 DEF EmbedTypeOK, Moves
  <2>3. /\ waiters' \in Seq(Caller) /\ Len(waiters') = Len(waiters) + 1
        /\ waiters'[Len(waiters) + 1] = c
        /\ \A i \in 1 .. Len(waiters) : waiters'[i] = waiters[i]
        /\ DOMAIN waiters = 1 .. Len(waiters) /\ DOMAIN waiters' = 1 .. Len(waiters) + 1
        /\ Len(waiters) \in Nat
    BY <1>3, <2>1
  <2>4. \A i \in 1 .. Len(waiters) : waiters[i] # c
    BY <2>2, <2>3 DEF LockInv
  <2>5. EmbedTypeOK'
    BY <1>3, <2>1, <2>3 DEF EmbedTypeOK
  <2>6. \A k \in Caller : embed'[k] = "queued" <=> \E i \in DOMAIN waiters' : waiters'[i] = k
    <3> SUFFICES ASSUME NEW k \in Caller
                 PROVE  embed'[k] = "queued" <=> \E i \in DOMAIN waiters' : waiters'[i] = k
      OBVIOUS
    <3>1. CASE k = c
      BY <2>2, <2>3, <3>1
    <3>2. CASE k # c
      <4>1. embed'[k] = "queued" <=> \E i \in 1 .. Len(waiters) : waiters[i] = k
        BY <2>2, <2>3, <3>2 DEF LockInv
      <4>2. (\E i \in DOMAIN waiters' : waiters'[i] = k)
              <=> \E i \in 1 .. Len(waiters) : waiters[i] = k
        BY <2>3, <3>2
      <4>3. QED
        BY <4>1, <4>2
    <3>3. QED
      BY <3>1, <3>2
  <2>7. \A i, j \in DOMAIN waiters' : waiters'[i] = waiters'[j] => i = j
    <3>1. \A i, j \in 1 .. Len(waiters) : waiters[i] = waiters[j] => i = j
      BY <2>3 DEF LockInv
    <3>2. QED
      BY <2>3, <2>4, <3>1
  <2>8. \A k \in Caller : k \in Loading' <=> holder' = k
    BY <1>3, <2>2 DEF LockInv, Loading
  <2>9. QED
    BY <1>3, <2>5, <2>6, <2>7, <2>8 DEF LockInv
<1>4. QED
  BY <1>1, <1>2, <1>3 DEF Call

\* The first in line leaves it, with the lock or without.
LEMMA WokenKeepsLock ==
  ASSUME EmbedTypeOK, LockInv, NEW c \in Caller, Woken(c)
  PROVE  EmbedTypeOK' /\ LockInv'
<1>1. /\ waiters \in Seq(Caller) /\ waiters # <<>> /\ Head(waiters) = c
      /\ holder = Nobody /\ waiters' = Tail(waiters) /\ model' = model
      /\ embed[c] = "queued" /\ embed \in [Caller -> EmbedState]
  BY DEF Woken, EmbedTypeOK, Moves
<1>2. \/ model /\ embed' = [embed EXCEPT ![c] = "encode"] /\ holder' = Nobody
      \/ ~model /\ embed' = [embed EXCEPT ![c] = "load"] /\ holder' = c
  BY DEF Woken, Moves
<1>3. /\ DOMAIN waiters = 1 .. Len(waiters) /\ Len(waiters) \in Nat /\ Len(waiters) > 0
      /\ waiters' \in Seq(Caller) /\ DOMAIN waiters' = 1 .. Len(waiters) - 1
      /\ \A i \in 1 .. Len(waiters) - 1 : waiters'[i] = waiters[i + 1]
      /\ waiters[1] = c
  BY <1>1
<1>4. \A k \in Caller \ {c} : embed'[k] = embed[k]
  BY <1>1, <1>2
<1>5. embed' \in [Caller -> EmbedState] /\ embed'[c] \in {"encode", "load"}
  BY <1>1, <1>2 DEF EmbedState
<1>6. EmbedTypeOK'
  BY <1>1, <1>2, <1>3, <1>5 DEF EmbedTypeOK
<1>7. \A i, j \in 1 .. Len(waiters) : waiters[i] = waiters[j] => i = j
  BY <1>3 DEF LockInv
<1>8. \A k \in Caller : embed'[k] = "queued" <=> \E i \in DOMAIN waiters' : waiters'[i] = k
  <2> SUFFICES ASSUME NEW k \in Caller
               PROVE  embed'[k] = "queued" <=> \E i \in DOMAIN waiters' : waiters'[i] = k
    OBVIOUS
  <2>1. CASE k = c
    <3>1. \A i \in 1 .. Len(waiters) - 1 : waiters[i + 1] # c
      BY <1>3, <1>7
    <3>2. QED
      BY <1>3, <1>5, <2>1, <3>1
  <2>2. CASE k # c
    <3>1. embed'[k] = "queued" <=> \E i \in 1 .. Len(waiters) : waiters[i] = k
      BY <1>3, <1>4, <2>2 DEF LockInv
    <3>2. ASSUME NEW i \in 1 .. Len(waiters), waiters[i] = k
          PROVE  i - 1 \in 1 .. Len(waiters) - 1 /\ waiters'[i - 1] = k
      BY <1>3, <2>2, <3>2
    <3>3. ASSUME NEW i \in 1 .. Len(waiters) - 1, waiters'[i] = k
          PROVE  i + 1 \in 1 .. Len(waiters) /\ waiters[i + 1] = k
      BY <1>3, <3>3
    <3>4. QED
      BY <1>3, <3>1, <3>2, <3>3
  <2>3. QED
    BY <2>1, <2>2
<1>9. \A i, j \in DOMAIN waiters' : waiters'[i] = waiters'[j] => i = j
  BY <1>3, <1>7
<1>10. \A k \in Caller : embed[k] # "load"
  BY <1>1 DEF LockInv, Loading
<1>11. \A k \in Caller : k \in Loading' <=> holder' = k
  BY <1>1, <1>2, <1>4, <1>10 DEF Loading
<1>12. model' => holder' = Nobody
  BY <1>1, <1>2
<1>13. QED
  BY <1>6, <1>8, <1>9, <1>11, <1>12 DEF LockInv

\* Whoever ends a load, with the model or without, gives the lock back.
LEMMA EndOfLoadKeepsLock ==
  ASSUME EmbedTypeOK, LockInv, NEW c \in Caller, Loaded(c) \/ LoadFails(c)
  PROVE  EmbedTypeOK' /\ LockInv'
<1>1. PICK to \in {"encode", "failed"} : embed' = [embed EXCEPT ![c] = to]
  BY DEF Loaded, LoadFails, Moves
<1>2. /\ embed[c] = "load" /\ holder' = Nobody /\ waiters' = waiters
      /\ model' \in {TRUE, model}
  BY DEF Loaded, LoadFails, Moves
<1>3. holder = c
  BY <1>2 DEF LockInv, Loading
<1>4. embed' \in [Caller -> EmbedState]
  BY <1>1 DEF EmbedTypeOK, EmbedState
<1>5. embed'[c] = to /\ \A k \in Caller \ {c} : embed'[k] = embed[k]
  BY <1>1 DEF EmbedTypeOK
<1>6. EmbedTypeOK'
  BY <1>2, <1>4 DEF EmbedTypeOK
<1>7. \A k \in Caller : embed'[k] # "load"
  BY <1>3, <1>5 DEF LockInv, Loading
<1>8. \A k \in Caller : embed'[k] = "queued" <=> embed[k] = "queued"
  BY <1>2, <1>5
<1>9. QED
  BY <1>2, <1>6, <1>7, <1>8 DEF LockInv, Loading

\* Every step of an embedding keeps the lock's invariant and concerns one caller.
LEMMA EmbedKeepsLock ==
  ASSUME EmbedTypeOK, LockInv, NEW c \in Caller, EmbedStep(c)
  PROVE  EmbedTypeOK' /\ LockInv' /\ \A k \in Caller \ {c} : embed'[k] = embed[k]
<1>1. \A k \in Caller \ {c} : embed'[k] = embed[k]
  BY DEF EmbedStep, Call, Woken, Loaded, LoadFails, Encode, Moves, EmbedTypeOK
<1>2. CASE Encode(c)
  <2>1. PICK to \in {"done", "bare", "failed"} : embed' = [embed EXCEPT ![c] = to]
    BY <1>2 DEF Encode, Moves
  <2>2. embed[c] \in {"encode", "bare"} /\ UNCHANGED <<model, holder, waiters>>
    BY <1>2 DEF Encode, Moves
  <2>3. EmbedTypeOK' /\ LockInv'
    BY <2>1, <2>2, MoveKeepsLock DEF EmbedState
  <2>4. QED
    BY <1>1, <2>3
<1>3. QED
  BY <1>1, <1>2, CallKeepsLock, WokenKeepsLock, EndOfLoadKeepsLock DEF EmbedStep

\* Taking the result neither.
LEMMA LeaveKeepsLock ==
  ASSUME EmbedTypeOK, LockInv, NEW c \in Caller, Leave(c), embed[c] \in {"done", "failed"}
  PROVE  /\ EmbedTypeOK' /\ LockInv' /\ embed'[c] = "out"
         /\ \A k \in Caller \ {c} : embed'[k] = embed[k]
<1>1. embed' = [embed EXCEPT ![c] = "out"] /\ UNCHANGED <<model, holder, waiters>>
  BY DEF Leave
<1>2. EmbedTypeOK' /\ LockInv'
  BY <1>1, MoveKeepsLock DEF EmbedState
<1>3. QED
  BY <1>1, <1>2 DEF EmbedTypeOK

-----------------------------------------------------------------------------
(* The exchanges. *)

\* A step of one exchange keeps the invariant if the exchange it ends in is sound, if
\* it holds a connection there only where it may, and embeds only where it may.
LEMMA OneExchange ==
  ASSUME ForwardingInv, NEW h \in Caller, NEW s \in Exchange, Sound(s), Become(h, s),
         caching' = caching, received' \in Nat,
         cache' \subseteq Entry, \A e \in cache' : e.answer = "object",
         connections' \subseteq connections \cup {h},
         h \in connections' => s.pc \in {"sent", "body", "stream"},
         EmbedTypeOK', LockInv', \A k \in Caller \ {h} : embed'[k] = embed[k],
         embed'[h] = "out" \/ s.pc \in {"lookup", "store"}
  PROVE  ForwardingInv'
<1>1. exchange \in [Caller -> Exchange] /\ connections \subseteq Caller
  BY DEF ForwardingInv, ForwardingTypeOK
<1>2. /\ exchange' \in [Caller -> Exchange] /\ exchange'[h] = s
      /\ \A k \in Caller \ {h} : exchange'[k] = exchange[k]
  BY <1>1 DEF Become
<1>3. ASSUME NEW k \in Caller
      PROVE  embed'[k] = "out" \/ exchange'[k].pc \in {"lookup", "store"}
  <2>1. CASE k = h
    BY <1>2, <2>1
  <2>2. CASE k # h
    BY <1>2, <2>2 DEF ForwardingInv, ForwardingTypeOK, At
  <2>3. QED
    BY <2>1, <2>2
<1>4. ForwardingTypeOK'
  BY <1>1, <1>2, <1>3 DEF ForwardingInv, ForwardingTypeOK, At
<1>5. ConnectionsAreReturned'
  <2> SUFFICES ASSUME NEW k \in connections'
               PROVE  exchange'[k].pc \in {"sent", "body", "stream"}
    BY DEF ConnectionsAreReturned
  <2>1. CASE k = h
    BY <1>2, <2>1
  <2>2. CASE k # h
    BY <1>1, <1>2, <2>2 DEF ForwardingInv, ConnectionsAreReturned
  <2>3. QED
    BY <2>1, <2>2
<1>6. \A k \in Caller : Sound(exchange'[k])
  BY <1>2 DEF ForwardingInv
<1>7. QED
  BY <1>4, <1>5, <1>6 DEF ForwardingInv

\* The same for a step that leaves the embedding service alone.
LEMMA OneExchangeAlone ==
  ASSUME ForwardingInv, NEW h \in Caller, NEW s \in Exchange, Sound(s), Become(h, s),
         UNCHANGED <<caching, cache, embedVars>>, received' \in Nat,
         connections' \subseteq connections \cup {h},
         h \in connections' => s.pc \in {"sent", "body", "stream"},
         embed[h] = "out"
  PROVE  ForwardingInv'
<1>1. EmbedTypeOK' /\ LockInv' /\ embed' = embed
  BY DEF ForwardingInv, ForwardingTypeOK, embedVars, EmbedTypeOK, LockInv, Loading
<1>2. cache' \subseteq Entry /\ \A e \in cache' : e.answer = "object"
  BY DEF ForwardingInv, ForwardingTypeOK
<1>3. QED
  BY <1>1, <1>2, OneExchange

\* What the invariant says of one caller.
LEMMA Facts ==
  ASSUME ForwardingInv, NEW h \in Caller
  PROVE  /\ exchange[h] \in Exchange /\ Sound(exchange[h])
         /\ EmbedTypeOK /\ LockInv
         /\ h \in connections => exchange[h].pc \in {"sent", "body", "stream"}
         /\ embed[h] = "out" \/ exchange[h].pc \in {"lookup", "store"}
         /\ received \in Nat /\ cache \subseteq Entry
         /\ \A e \in cache : e.answer = "object"
BY DEF ForwardingInv, ForwardingTypeOK, ConnectionsAreReturned, At

\* An exchange that has no reply yet and gets one that forwards nothing, or the whole.
LEMMA ReplySound ==
  ASSUME NEW s \in Exchange, Sound(s), s.pc \notin {"idle", "reply"},
         NEW kind \in {"denied", "error", "unavailable", "forwarded"},
         kind = "forwarded" => s.pc \in {"body", "store"}
  PROVE  LET r == [s EXCEPT !.pc = "reply", !.reply = kind] IN r \in Exchange /\ Sound(r)
<1> DEFINE r == [s EXCEPT !.pc = "reply", !.reply = kind]
<1>1. /\ r \in Exchange /\ r.pc = "reply" /\ r.reply = kind /\ r.req = s.req
      /\ r.sent = s.sent /\ r.total = s.total
  BY DEF Exchange, Phase
<1>2. s.reply = "none" /\ s.req \in Request /\ s.sent = 0
  BY DEF Sound
<1>3. kind = "forwarded" => s.total = 0
  BY DEF Sound
<1> HIDE DEF r
<1>4. Sound(r)
  BY <1>1, <1>2, <1>3 DEF Sound
<1>5. QED
  BY <1>1, <1>4 DEF r

\* An exchange that goes on before it has a reply.
LEMMA GotoSound ==
  ASSUME NEW s \in Exchange, Sound(s), s.pc \notin {"idle", "reply"},
         NEW pc \in Phase \ {"idle", "reply", "body"},
         pc = "store" => s.pc = "body" /\ s.answer = "object"
  PROVE  LET r == [s EXCEPT !.pc = pc] IN r \in Exchange /\ Sound(r)
<1> DEFINE r == [s EXCEPT !.pc = pc]
<1>1. /\ r \in Exchange /\ r.pc = pc /\ r.reply = s.reply /\ r.req = s.req
      /\ r.sent = s.sent /\ r.total = s.total /\ r.answer = s.answer
  BY DEF Exchange
<1>2. s.reply = "none" /\ s.req \in Request /\ s.sent = 0
  BY DEF Sound, Exchange
<1>3. pc = "store" => s.total = 0
  BY DEF Sound
<1> HIDE DEF r
<1>4. Sound(r)
  BY <1>1, <1>2, <1>3 DEF Sound, Phase
<1>5. QED
  BY <1>1, <1>4 DEF r

\* Nothing is in flight, and nothing loaded.
LEMMA InitOK == Init => ForwardingInv
<1> SUFFICES ASSUME Init PROVE ForwardingInv
  OBVIOUS
<1>1. Idle \in Exchange /\ Sound(Idle) /\ Idle.pc = "idle"
  BY DEF Idle, Exchange, Phase, Sound
<1>2. EmbedTypeOK /\ LockInv
  <2>1. /\ model = FALSE /\ holder = Nobody /\ waiters = <<>>
        /\ embed \in [Caller -> EmbedState] /\ \A c \in Caller : embed[c] = "out"
    BY DEF Init, EmbedInit, EmbedState
  <2>2. waiters \in Seq(Caller) /\ DOMAIN waiters = {}
    BY <2>1
  <2>3. QED
    BY <2>1, <2>2 DEF EmbedTypeOK, LockInv, Loading
<1>3. /\ exchange = [h \in Caller |-> Idle] /\ caching \in BOOLEAN
      /\ connections = {} /\ cache = {} /\ received = 0
      /\ \A h \in Caller : embed[h] = "out"
  BY DEF Init, EmbedInit, ForwardingInit
<1>4. ForwardingTypeOK
  BY <1>1, <1>2, <1>3 DEF ForwardingTypeOK
<1>5. QED
  BY <1>1, <1>2, <1>3, <1>4 DEF ForwardingInv, ConnectionsAreReturned

\* A request begins with nothing in hand.
LEMMA ReceiveOK ==
  ASSUME ForwardingInv, NEW h \in Caller, NEW r \in Request, Receive(h, r)
  PROVE  ForwardingInv'
<1>1. exchange[h].pc = "idle" /\ received' \in Nat
      /\ UNCHANGED <<caching, connections, cache, embedVars>>
  BY Facts DEF Receive, At
<1> DEFINE b == [Idle EXCEPT !.req = r]
<1>2. /\ b \in Exchange /\ b.reply = "none" /\ b.req = r /\ b.sent = 0 /\ b.total = 0
      /\ b.pc = "idle"
  BY DEF Idle, Exchange, Phase
<1>3. \/ \E kind \in {"denied", "error"} :
           Become(h, [b EXCEPT !.pc = "reply", !.reply = kind])
      \/ \E pc \in {"lookup", "open"} : Become(h, [b EXCEPT !.pc = pc])
  BY DEF Receive
<1> HIDE DEF b
<1>4. ASSUME NEW kind \in {"denied", "error"},
             Become(h, [b EXCEPT !.pc = "reply", !.reply = kind])
      PROVE  \E s \in Exchange : Sound(s) /\ Become(h, s)
  <2> DEFINE s == [b EXCEPT !.pc = "reply", !.reply = kind]
  <2>1. s \in Exchange /\ s.pc = "reply" /\ s.reply = kind /\ s.req = r
    BY <1>2 DEF Exchange, Phase
  <2>2. Become(h, s)
    BY <1>4
  <2> HIDE DEF s
  <2>3. Sound(s)
    BY <2>1 DEF Sound
  <2>4. QED
    BY <2>1, <2>2, <2>3
<1>5. ASSUME NEW pc \in {"lookup", "open"}, Become(h, [b EXCEPT !.pc = pc])
      PROVE  \E s \in Exchange : Sound(s) /\ Become(h, s)
  <2> DEFINE s == [b EXCEPT !.pc = pc]
  <2>1. s \in Exchange /\ s.pc = pc /\ s.reply = "none" /\ s.req = r /\ s.sent = 0
    BY <1>2 DEF Exchange, Phase
  <2>2. Become(h, s)
    BY <1>5
  <2> HIDE DEF s
  <2>3. Sound(s)
    BY <2>1 DEF Sound
  <2>4. QED
    BY <2>1, <2>2, <2>3
<1>6. PICK s \in Exchange : Sound(s) /\ Become(h, s)
  BY <1>3, <1>4, <1>5
<1>7. h \notin connections /\ embed[h] = "out"
  BY <1>1, Facts
<1>8. QED
  BY <1>1, <1>6, <1>7, OneExchangeAlone

\* An embedding goes on.
LEMMA EmbedsOK ==
  ASSUME ForwardingInv, NEW h \in Caller, Embeds(h)
  PROVE  ForwardingInv'
<1>1. /\ EmbedStep(h) /\ exchange' = exchange /\ caching' = caching /\ cache' = cache
      /\ connections' = connections /\ received' = received
      /\ exchange[h].pc \in {"lookup", "store"}
  BY DEF Embeds, forwardingVars, At
<1>2. EmbedTypeOK' /\ LockInv' /\ \A k \in Caller \ {h} : embed'[k] = embed[k]
  BY <1>1, Facts, EmbedKeepsLock
<1>3. \A k \in Caller : embed'[k] = "out" \/ exchange'[k].pc \in {"lookup", "store"}
  BY <1>1, <1>2, Facts
<1>4. QED
  BY <1>1, <1>2, <1>3 DEF ForwardingInv, ForwardingTypeOK, ConnectionsAreReturned, At

\* A hit is one of the entries kept, all of which are good answers.
LEMMA LookedUpOK ==
  ASSUME ForwardingInv, NEW h \in Caller, LookedUp(h)
  PROVE  ForwardingInv'
<1> DEFINE x == exchange[h]
<1>1. /\ x.pc = "lookup" /\ Leave(h) /\ embed[h] \in {"done", "failed"}
      /\ UNCHANGED <<caching, connections, cache, received>>
  BY DEF LookedUp, At
<1>2. x \in Exchange /\ Sound(x) /\ h \notin connections
  BY <1>1, Facts
<1>3. EmbedTypeOK' /\ LockInv' /\ embed'[h] = "out"
      /\ \A k \in Caller \ {h} : embed'[k] = embed[k]
  BY <1>1, Facts, LeaveKeepsLock
<1>4. PICK s \in Exchange : Sound(s) /\ Become(h, s)
  <2>1. CASE Reply(h, "error")
    BY <1>1, <1>2, <2>1, ReplySound DEF Reply
  <2>2. CASE Goto(h, "open")
    BY <1>1, <1>2, <2>2, GotoSound DEF Goto, Phase
  <2>3. ASSUME NEW e \in cache,
               Become(h, [exchange[h] EXCEPT !.pc = "reply", !.reply = "cached", !.hit = e])
        PROVE  \E s \in Exchange : Sound(s) /\ Become(h, s)
    <3> DEFINE s == [x EXCEPT !.pc = "reply", !.reply = "cached", !.hit = e]
    <3>1. e \in Entry /\ e.answer = "object"
      BY Facts
    <3>2. s \in Exchange /\ s.pc = "reply" /\ s.reply = "cached" /\ s.hit = e /\ s.req = x.req
      BY <1>2, <3>1 DEF Exchange, Phase
    <3>3. Become(h, s)
      BY <2>3
    <3> HIDE DEF s
    <3>4. Sound(s)
      BY <1>1, <1>2, <3>1, <3>2 DEF Sound
    <3>5. QED
      BY <3>2, <3>3, <3>4
  <2>4. QED
    BY <2>1, <2>2, <2>3 DEF LookedUp
<1>5. QED
  BY <1>1, <1>2, <1>3, <1>4, Facts, OneExchange

\* A connection is taken before the request is sent.
LEMMA OpenOK ==
  ASSUME ForwardingInv, NEW h \in Caller, Open(h) \/ OpenFails(h)
  PROVE  ForwardingInv'
<1>1. /\ exchange[h].pc = "open" /\ UNCHANGED <<caching, cache, received, embedVars>>
      /\ \/ connections' = connections \cup {h} /\ Goto(h, "sent")
         \/ connections' = connections /\ Reply(h, "unavailable")
  BY DEF Open, OpenFails, At
<1>2. /\ exchange[h] \in Exchange /\ Sound(exchange[h]) /\ embed[h] = "out"
      /\ h \notin connections /\ received' \in Nat
  BY <1>1, Facts
<1>3. CASE connections' = connections \cup {h} /\ Goto(h, "sent")
  <2> DEFINE s == [exchange[h] EXCEPT !.pc = "sent"]
  <2>1. s \in Exchange /\ Sound(s) /\ Become(h, s) /\ s.pc = "sent"
    BY <1>1, <1>2, <1>3, GotoSound DEF Goto, Phase, Exchange
  <2> HIDE DEF s
  <2>2. QED
    BY <1>1, <1>2, <1>3, <2>1, OneExchangeAlone
<1>4. CASE connections' = connections /\ Reply(h, "unavailable")
  <2> DEFINE s == [exchange[h] EXCEPT !.pc = "reply", !.reply = "unavailable"]
  <2>1. s \in Exchange /\ Sound(s) /\ Become(h, s)
    BY <1>1, <1>2, <1>4, ReplySound DEF Reply
  <2> HIDE DEF s
  <2>2. QED
    BY <1>1, <1>2, <1>4, <2>1, OneExchangeAlone
<1>5. QED
  BY <1>1, <1>3, <1>4

\* The headers say how many chunks there are to come; a body is no stream.
LEMMA HeadersOK ==
  ASSUME ForwardingInv, NEW h \in Caller, HeadersArrive(h)
  PROVE  ForwardingInv'
<1> DEFINE x == exchange[h]
<1>1. PICK a \in Answer, n \in 0 .. MaxChunks :
        /\ a = "stream" \/ n = 0
        /\ Become(h, [x EXCEPT !.pc = IF a = "stream" THEN a ELSE "body",
                               !.answer = a, !.total = n])
  BY DEF HeadersArrive
<1>2. x.pc = "sent" /\ UNCHANGED <<caching, connections, cache, received, embedVars>>
  BY DEF HeadersArrive, At
<1>3. x \in Exchange /\ Sound(x) /\ embed[h] = "out" /\ received' \in Nat
  BY <1>2, Facts
<1> DEFINE s == [x EXCEPT !.pc = IF a = "stream" THEN a ELSE "body",
                          !.answer = a, !.total = n]
<1>4. n \in Nat
  OBVIOUS
<1>5. /\ s \in Exchange /\ s.pc \in {"stream", "body"} /\ (s.pc = "body" => s.total = 0)
      /\ s.req = x.req /\ s.reply = x.reply /\ s.sent = x.sent
  BY <1>1, <1>3, <1>4 DEF Exchange, Phase, Answer
<1>6. Become(h, s)
  BY <1>1
<1> HIDE DEF s
<1>7. Sound(s)
  BY <1>2, <1>3, <1>5 DEF Sound
<1>8. QED
  BY <1>2, <1>3, <1>5, <1>6, <1>7, OneExchangeAlone

\* Whatever ends an exchange with the backend gives the connection back.
LEMMA FailuresOK ==
  ASSUME ForwardingInv, NEW h \in Caller, BackendFails(h) \/ StreamBreaks(h)
  PROVE  ForwardingInv'
<1>1. PICK kind \in {"unavailable", "error"} : Reply(h, kind)
  BY DEF BackendFails, StreamBreaks
<1>2. /\ exchange[h].pc \in {"sent", "body", "stream"} /\ connections' = connections \ {h}
      /\ UNCHANGED <<caching, cache, received, embedVars>>
  BY DEF BackendFails, StreamBreaks, At
<1>3. exchange[h] \in Exchange /\ Sound(exchange[h]) /\ embed[h] = "out" /\ received' \in Nat
  BY <1>2, Facts
<1> DEFINE s == [exchange[h] EXCEPT !.pc = "reply", !.reply = kind]
<1>4. s \in Exchange /\ Sound(s) /\ Become(h, s)
  BY <1>1, <1>2, <1>3, ReplySound DEF Reply
<1> HIDE DEF s
<1>5. QED
  BY <1>2, <1>3, <1>4, OneExchangeAlone

\* A body that was read leaves no connection, and only a good answer goes to store.
LEMMA BodyOK ==
  ASSUME ForwardingInv, NEW h \in Caller, BodyArrives(h)
  PROVE  ForwardingInv'
<1>1. /\ exchange[h].pc = "body" /\ connections' = connections \ {h}
      /\ UNCHANGED <<caching, cache, received, embedVars>>
  BY DEF BodyArrives, At
<1>2. exchange[h] \in Exchange /\ Sound(exchange[h]) /\ embed[h] = "out" /\ received' \in Nat
  BY <1>1, Facts
<1>3. PICK s \in Exchange : Sound(s) /\ Become(h, s)
  <2>1. CASE exchange[h].answer = "object" /\ Goto(h, "store")
    BY <1>1, <1>2, <2>1, GotoSound DEF Goto, Phase
  <2>2. CASE \E kind \in {"error", "forwarded"} : Reply(h, kind)
    BY <1>1, <1>2, <2>2, ReplySound DEF Reply
  <2>3. QED
    BY <2>1, <2>2 DEF BodyArrives, Storable
<1>4. QED
  BY <1>1, <1>2, <1>3, OneExchangeAlone

\* What is stored is a good answer to a request there was.
LEMMA StoredOK ==
  ASSUME ForwardingInv, NEW h \in Caller, Stored(h)
  PROVE  ForwardingInv'
<1>1. /\ exchange[h].pc = "store" /\ Leave(h) /\ embed[h] \in {"done", "failed"}
      /\ UNCHANGED <<caching, connections, received>>
  BY DEF Stored, At
<1>2. exchange[h] \in Exchange /\ Sound(exchange[h]) /\ h \notin connections
  BY <1>1, Facts
<1>3. EmbedTypeOK' /\ LockInv' /\ embed'[h] = "out"
      /\ \A k \in Caller \ {h} : embed'[k] = embed[k]
  BY <1>1, Facts, LeaveKeepsLock
<1>4. exchange[h].req \in Request /\ exchange[h].answer = "object"
  BY <1>1, <1>2 DEF Sound
<1>5. [req |-> exchange[h].req, answer |-> exchange[h].answer] \in Entry
  BY <1>4 DEF Entry, Answer
<1>6. cache' \subseteq Entry /\ \A e \in cache' : e.answer = "object"
  BY <1>4, <1>5, Facts DEF Stored
<1>7. PICK kind \in {"error", "forwarded"} : Reply(h, kind)
  BY DEF Stored
<1> DEFINE s == [exchange[h] EXCEPT !.pc = "reply", !.reply = kind]
<1>8. s \in Exchange /\ Sound(s) /\ Become(h, s)
  BY <1>1, <1>2, <1>7, ReplySound DEF Reply
<1> HIDE DEF s
<1>9. QED
  BY <1>1, <1>2, <1>3, <1>6, <1>8, Facts, OneExchange

\* A chunk is counted.
LEMMA ChunkOK ==
  ASSUME ForwardingInv, NEW h \in Caller, Chunk(h)
  PROVE  ForwardingInv'
<1> DEFINE x == exchange[h]
<1>1. /\ x.pc = "stream" /\ UNCHANGED <<caching, connections, cache, received, embedVars>>
      /\ Become(h, [x EXCEPT !.taken = @ + 1])
  BY DEF Chunk, At
<1>2. x \in Exchange /\ Sound(x) /\ embed[h] = "out" /\ received' \in Nat
  BY <1>1, Facts
<1> DEFINE s == [x EXCEPT !.taken = @ + 1]
<1>3. /\ s \in Exchange /\ s.pc = "stream" /\ s.req = x.req /\ s.reply = x.reply
      /\ s.sent = x.sent
  BY <1>1, <1>2 DEF Exchange
<1>4. Become(h, s)
  BY <1>1
<1> HIDE DEF s
<1>5. Sound(s)
  BY <1>1, <1>2, <1>3 DEF Sound
<1>6. QED
  BY <1>1, <1>2, <1>3, <1>4, <1>5, OneExchangeAlone

\* At the end of the stream all of it has been taken, and that is what is sent.
LEMMA StreamEndsOK ==
  ASSUME ForwardingInv, NEW h \in Caller, StreamEnds(h)
  PROVE  ForwardingInv'
<1> DEFINE x == exchange[h]
<1> DEFINE s == [x EXCEPT !.pc = "reply", !.reply = "forwarded", !.sent = x.taken]
<1>1. /\ x.pc = "stream" /\ x.taken = x.total /\ connections' = connections \ {h}
      /\ UNCHANGED <<caching, cache, received, embedVars>> /\ Become(h, s)
  BY DEF StreamEnds, At
<1>2. x \in Exchange /\ Sound(x) /\ embed[h] = "out" /\ received' \in Nat
  BY <1>1, Facts
<1>3. /\ s \in Exchange /\ s.pc = "reply" /\ s.reply = "forwarded" /\ s.req = x.req
      /\ s.sent = x.taken /\ s.total = x.total
  BY <1>2 DEF Exchange, Phase
<1> HIDE DEF s
<1>4. Sound(s)
  BY <1>1, <1>2, <1>3 DEF Sound
<1>5. QED
  BY <1>1, <1>2, <1>3, <1>4, OneExchangeAlone

\* The thread is free again.
LEMMA ReturnOK ==
  ASSUME ForwardingInv, NEW h \in Caller, Return(h)
  PROVE  ForwardingInv'
<1>1. /\ exchange[h].pc = "reply" /\ Become(h, Idle)
      /\ UNCHANGED <<caching, connections, cache, received, embedVars>>
  BY DEF Return, At
<1>2. Idle \in Exchange /\ Sound(Idle)
  BY DEF Idle, Exchange, Phase, Sound
<1>3. embed[h] = "out" /\ h \notin connections /\ received' \in Nat
  BY <1>1, Facts
<1>4. QED
  BY <1>1, <1>2, <1>3, OneExchangeAlone

\* Nothing changes.
LEMMA StutterOK == ASSUME ForwardingInv, UNCHANGED vars PROVE ForwardingInv'
BY DEF vars, forwardingVars, embedVars, ForwardingInv, ForwardingTypeOK, EmbedTypeOK,
       LockInv, Loading, ConnectionsAreReturned, At

\* The inductive invariant of Forwarding.
THEOREM ForwardingInvariant == Spec => []ForwardingInv
<1>1. ForwardingInv /\ [Next]_vars => ForwardingInv'
  BY ReceiveOK, EmbedsOK, LookedUpOK, OpenOK, HeadersOK, FailuresOK, BodyOK, StoredOK,
     ChunkOK, StreamEndsOK, ReturnOK, StutterOK DEF Next, Forward
<1>2. QED
  BY InitOK, <1>1, PTL DEF Spec

\* The variables keep their types.
THEOREM ForwardingTyped == Spec => []ForwardingTypeOK
<1>1. ForwardingInv => ForwardingTypeOK
  BY DEF ForwardingInv
<1>2. QED
  BY ForwardingInvariant, <1>1, PTL

\* However many requests need the model at once, and however often a load fails, one
\* of them loads at a time.
THEOREM OneLoad == Spec => []OneLoadAtATime
<1>1. ForwardingInv => OneLoadAtATime
  BY DEF ForwardingInv, LockInv, OneLoadAtATime, Loading
<1>2. QED
  BY ForwardingInvariant, <1>1, PTL

\* No connection outlives its exchange with the backend, and nobody waits for the
\* model or the stores with one in hand.
THEOREM ConnectionsComeBack == Spec => []ConnectionsAreReturned
<1>1. ForwardingInv => ConnectionsAreReturned
  BY DEF ForwardingInv
<1>2. QED
  BY ForwardingInvariant, <1>1, PTL

\* A broken stream is never handed on as a whole one.
THEOREM WholeStreams == Spec => []StreamsAreWhole
<1>1. ForwardingInv => StreamsAreWhole
  BY DEF ForwardingInv, Sound, StreamsAreWhole
<1>2. QED
  BY ForwardingInvariant, <1>1, PTL

\* No error of the backend is served from the cache.
THEOREM NoReplayedErrors == Spec => []ErrorsAreNotReplayed
<1>1. ForwardingInv => ErrorsAreNotReplayed
  BY DEF ForwardingInv, Sound, ErrorsAreNotReplayed
<1>2. QED
  BY ForwardingInvariant, <1>1, PTL

\* Once the model is there it stays, and nobody loads it again.
THEOREM LoadedForGood == Spec => LoadedOnce
<1> DEFINE Once == model => model' /\ \A c \in Caller : embed'[c] = "load" => c \in Loading
<1>1. ASSUME ForwardingInv, NEW c \in Caller, EmbedStep(c) PROVE Once
  <2>1. EmbedTypeOK
    BY <1>1, Facts
  <2>2. model => model' /\ (embed'[c] = "load" => embed[c] = "load")
    BY <1>1, <2>1 DEF EmbedStep, Call, Woken, Loaded, LoadFails, Encode, Moves, EmbedTypeOK
  <2>3. \A k \in Caller \ {c} : embed'[k] = embed[k]
    BY <1>1, Facts, EmbedKeepsLock
  <2>4. QED
    BY <2>2, <2>3 DEF Loading
<1>2. ASSUME ForwardingInv, NEW c \in Caller, Leave(c), embed[c] \in {"done", "failed"}
      PROVE  Once
  <2>1. model' = model
    BY <1>2 DEF Leave
  <2>2. embed'[c] = "out" /\ \A k \in Caller \ {c} : embed'[k] = embed[k]
    BY <1>2, Facts, LeaveKeepsLock
  <2>3. QED
    BY <2>1, <2>2 DEF Loading
<1>3. ASSUME UNCHANGED embedVars PROVE Once
  BY <1>3 DEF embedVars, Loading
<1>4. ForwardingInv /\ [Next]_vars => [Once]_embedVars
  <2> SUFFICES ASSUME ForwardingInv, [Next]_vars PROVE Once
    OBVIOUS
  <2>1. CASE UNCHANGED vars
    BY <1>3, <2>1 DEF vars
  <2>2. ASSUME NEW h \in Caller, NEW r \in Request, Receive(h, r) PROVE Once
    BY <1>3, <2>2 DEF Receive
  <2>3. ASSUME NEW h \in Caller, Forward(h) PROVE Once
    <3>1. CASE Embeds(h)
      BY <1>1, <3>1 DEF Embeds
    <3>2. CASE LookedUp(h) \/ Stored(h)
      BY <1>2, <3>2 DEF LookedUp, Stored
    <3>3. CASE \/ Open(h) \/ OpenFails(h) \/ HeadersArrive(h) \/ BackendFails(h)
               \/ BodyArrives(h) \/ Chunk(h) \/ StreamEnds(h) \/ StreamBreaks(h)
               \/ Return(h)
      BY <1>3, <3>3 DEF Open, OpenFails, HeadersArrive, BackendFails, BodyArrives, Chunk,
                        StreamEnds, StreamBreaks, Return
    <3>4. QED
      BY <2>3, <3>1, <3>2, <3>3 DEF Forward
  <2>4. QED
    BY <2>1, <2>2, <2>3 DEF Next
<1>5. QED
  BY ForwardingInvariant, <1>4, PTL DEF Spec, LoadedOnce

-----------------------------------------------------------------------------
(* Who is served, and what from. *)

\* What a thread does with a request it has let in: a request reaches the backend, the
\* cache or the stores with a valid key only, the stores only if it is eligible, and a
\* hit is an entry of the cache for the same model and parameters and a similar prompt.
Admitted(s, C) ==
  /\ s.pc \notin {"idle", "reply"} \/ s.reply \in {"cached", "forwarded", "unavailable"} =>
       Authorized(s.req)
  /\ s.pc \in {"lookup", "store"} => Cacheable(s.req)
  /\ s.reply = "cached" => s.hit \in C /\ Matches(s.hit, s.req) /\ Cacheable(s.req)

\* The same of every exchange and of every request whose answer is kept.
AdmittedInv ==
  /\ \A h \in Caller : Admitted(exchange[h], cache)
  /\ \A e \in cache : Authorized(e.req) /\ Cacheable(e.req)

\* An exchange goes on with its request: it stays admitted in its next phase.
LEMMA AdmittedOn ==
  ASSUME ForwardingInv, AdmittedInv, NEW h \in Caller, ~At(h, "idle"), ~At(h, "reply"),
         NEW s \in Exchange, Become(h, s), s.req = exchange[h].req, cache' = cache,
         s.reply # "cached",
         s.pc \in {"lookup", "store"} => Cacheable(s.req)
  PROVE  AdmittedInv'
<1>1. /\ exchange \in [Caller -> Exchange] /\ Admitted(exchange[h], cache)
      /\ exchange[h].pc \notin {"idle", "reply"}
  BY DEF ForwardingInv, ForwardingTypeOK, AdmittedInv, At
<1>2. exchange'[h] = s /\ \A k \in Caller \ {h} : exchange'[k] = exchange[k]
  BY <1>1 DEF Become
<1>3. Admitted(s, cache)
  BY <1>1 DEF Admitted
<1>4. \A k \in Caller : Admitted(exchange'[k], cache)
  BY <1>2, <1>3 DEF AdmittedInv
<1> QED
  BY <1>4 DEF AdmittedInv

\* Replies and turns to another phase, in general.
LEMMA AdmittedTurn ==
  ASSUME ForwardingInv, AdmittedInv, NEW h \in Caller, ~At(h, "idle"), ~At(h, "reply"),
         cache' = cache,
         \/ \E kind \in {"error", "unavailable", "forwarded"} : Reply(h, kind)
         \/ \E pc \in {"open", "sent"} : Goto(h, pc)
         \/ Goto(h, "store") /\ Cacheable(exchange[h].req)
  PROVE  AdmittedInv'
<1>1. exchange[h] \in Exchange /\ exchange[h].pc \notin {"idle", "reply"}
      /\ exchange[h].reply = "none"
  BY Facts DEF At, Sound
<1>2. ASSUME NEW kind \in {"error", "unavailable", "forwarded"}, Reply(h, kind)
      PROVE  AdmittedInv'
  <2> DEFINE s == [exchange[h] EXCEPT !.pc = "reply", !.reply = kind]
  <2>1. s \in Exchange /\ s.pc = "reply" /\ s.reply = kind /\ s.req = exchange[h].req
    BY <1>1 DEF Exchange, Phase
  <2>2. Become(h, s)
    BY <1>2 DEF Reply
  <2> HIDE DEF s
  <2> QED
    BY <2>1, <2>2, AdmittedOn
<1>3. ASSUME NEW pc \in {"open", "sent", "store"}, Goto(h, pc),
             pc = "store" => Cacheable(exchange[h].req)
      PROVE  AdmittedInv'
  <2> DEFINE s == [exchange[h] EXCEPT !.pc = pc]
  <2>1. s \in Exchange /\ s.pc = pc /\ s.reply = "none" /\ s.req = exchange[h].req
    BY <1>1 DEF Exchange, Phase
  <2>2. Become(h, s)
    BY <1>3 DEF Goto
  <2> HIDE DEF s
  <2> QED
    BY <1>3, <2>1, <2>2, AdmittedOn
<1> QED
  BY <1>2, <1>3

\* The request is let in, or denied, before anything else is done with it.
LEMMA ReceiveAdmits ==
  ASSUME ForwardingInv, AdmittedInv, NEW h \in Caller, NEW r \in Request, Receive(h, r)
  PROVE  AdmittedInv'
<1> DEFINE b == [Idle EXCEPT !.req = r]
<1>1. b \in Exchange /\ b.reply = "none" /\ b.req = r
  BY DEF Idle, Exchange, Phase
<1>2. \/ \E kind \in {"denied", "error"} :
           Become(h, [b EXCEPT !.pc = "reply", !.reply = kind])
      \/ Authorized(r) /\ Cacheable(r) /\ Become(h, [b EXCEPT !.pc = "lookup"])
      \/ Authorized(r) /\ Become(h, [b EXCEPT !.pc = "open"])
  BY DEF Receive
<1> HIDE DEF b
<1>3. PICK s \in Exchange : Become(h, s) /\ Admitted(s, cache)
  <2>1. ASSUME NEW kind \in {"denied", "error"},
               Become(h, [b EXCEPT !.pc = "reply", !.reply = kind])
        PROVE  \E s \in Exchange : Become(h, s) /\ Admitted(s, cache)
    <3> DEFINE s == [b EXCEPT !.pc = "reply", !.reply = kind]
    <3>1. s \in Exchange /\ s.pc = "reply" /\ s.reply = kind /\ Become(h, s)
      BY <1>1, <2>1 DEF Exchange, Phase
    <3> HIDE DEF s
    <3>2. Admitted(s, cache)
      BY <3>1 DEF Admitted
    <3> QED
      BY <3>1, <3>2
  <2>2. ASSUME NEW pc \in {"lookup", "open"}, Become(h, [b EXCEPT !.pc = pc]), Authorized(r),
               pc = "lookup" => Cacheable(r)
        PROVE  \E s \in Exchange : Become(h, s) /\ Admitted(s, cache)
    <3> DEFINE s == [b EXCEPT !.pc = pc]
    <3>1. s \in Exchange /\ s.pc = pc /\ s.reply = "none" /\ s.req = r /\ Become(h, s)
      BY <1>1, <2>2 DEF Exchange, Phase
    <3> HIDE DEF s
    <3>2. Admitted(s, cache)
      BY <2>2, <3>1 DEF Admitted
    <3> QED
      BY <3>1, <3>2
  <2> QED
    BY <1>2, <2>1, <2>2
<1>4. exchange \in [Caller -> Exchange] /\ cache' = cache
  BY DEF ForwardingInv, ForwardingTypeOK, Receive
<1>5. exchange'[h] = s /\ \A k \in Caller \ {h} : exchange'[k] = exchange[k]
  BY <1>3, <1>4 DEF Become
<1> QED
  BY <1>3, <1>4, <1>5 DEF AdmittedInv

\* A hit is an entry of the cache, and matches.
LEMMA LookedUpAdmits ==
  ASSUME ForwardingInv, AdmittedInv, NEW h \in Caller, LookedUp(h)
  PROVE  AdmittedInv'
<1>1. /\ exchange[h].pc = "lookup" /\ cache' = cache /\ exchange[h] \in Exchange
      /\ exchange \in [Caller -> Exchange] /\ cache \subseteq Entry
      /\ Admitted(exchange[h], cache) /\ ~At(h, "idle") /\ ~At(h, "reply")
  BY Facts DEF LookedUp, At, AdmittedInv, ForwardingInv, ForwardingTypeOK
<1>2. CASE Reply(h, "error") \/ Goto(h, "open")
  BY <1>1, <1>2, AdmittedTurn
<1>3. ASSUME NEW e \in cache, Matches(e, exchange[h].req),
             Become(h, [exchange[h] EXCEPT !.pc = "reply", !.reply = "cached", !.hit = e])
      PROVE  AdmittedInv'
  <2> DEFINE s == [exchange[h] EXCEPT !.pc = "reply", !.reply = "cached", !.hit = e]
  <2>1. /\ s.pc = "reply" /\ s.reply = "cached" /\ s.hit = e /\ s.req = exchange[h].req
        /\ Become(h, s)
    BY <1>1, <1>3 DEF Exchange
  <2> HIDE DEF s
  <2>2. Authorized(s.req) /\ Cacheable(s.req)
    BY <1>1, <2>1 DEF Admitted
  <2>3. Admitted(s, cache)
    BY <1>3, <2>1, <2>2 DEF Admitted
  <2>4. exchange'[h] = s /\ \A k \in Caller \ {h} : exchange'[k] = exchange[k]
    BY <1>1, <2>1 DEF Become
  <2> QED
    BY <1>1, <2>3, <2>4 DEF AdmittedInv
<1> QED
  BY <1>2, <1>3 DEF LookedUp

\* What is kept is the answer to a request that was let in and is eligible.
LEMMA StoredAdmits ==
  ASSUME ForwardingInv, AdmittedInv, NEW h \in Caller, Stored(h)
  PROVE  AdmittedInv'
<1>1. /\ exchange[h].pc = "store" /\ exchange[h] \in Exchange
      /\ exchange \in [Caller -> Exchange] /\ Admitted(exchange[h], cache)
  BY Facts DEF Stored, At, AdmittedInv, ForwardingInv, ForwardingTypeOK
<1>2. Authorized(exchange[h].req) /\ Cacheable(exchange[h].req)
  BY <1>1 DEF Admitted
<1>3. /\ cache \subseteq cache'
      /\ \A e \in cache' : e \in cache \/ e.req = exchange[h].req
  BY DEF Stored
<1>4. PICK kind \in {"error", "forwarded"} : Reply(h, kind)
  BY DEF Stored
<1> DEFINE s == [exchange[h] EXCEPT !.pc = "reply", !.reply = kind]
<1>5. s.pc = "reply" /\ s.reply = kind /\ s.req = exchange[h].req /\ Become(h, s)
  BY <1>1, <1>4 DEF Exchange, Reply
<1> HIDE DEF s
<1>6. exchange'[h] = s /\ \A k \in Caller \ {h} : exchange'[k] = exchange[k]
  BY <1>1, <1>5 DEF Become
<1>7. \A k \in Caller : Admitted(exchange'[k], cache')
  <2>1. Admitted(s, cache')
    BY <1>2, <1>5 DEF Admitted
  <2>2. ASSUME NEW k \in Caller \ {h} PROVE Admitted(exchange[k], cache')
    BY <1>3 DEF AdmittedInv, Admitted
  <2> QED
    BY <1>6, <2>1, <2>2
<1>8. \A e \in cache' : Authorized(e.req) /\ Cacheable(e.req)
  BY <1>2, <1>3 DEF AdmittedInv
<1> QED
  BY <1>7, <1>8 DEF AdmittedInv

\* Every step keeps the requests in flight, and the answers kept, admitted.
LEMMA AdmittedStep == ForwardingInv /\ AdmittedInv /\ [Next]_vars => AdmittedInv'
<1> SUFFICES ASSUME ForwardingInv, AdmittedInv, [Next]_vars PROVE AdmittedInv'
  OBVIOUS
<1>1. ASSUME NEW h \in Caller, NEW r \in Request, Receive(h, r) PROVE AdmittedInv'
  BY <1>1, ReceiveAdmits
<1>2. ASSUME exchange' = exchange, cache' = cache PROVE AdmittedInv'
  BY <1>2 DEF AdmittedInv
<1>3. ASSUME NEW h \in Caller, Forward(h) PROVE AdmittedInv'
  <2>0. /\ exchange \in [Caller -> Exchange] /\ exchange[h] \in Exchange
        /\ Sound(exchange[h]) /\ Admitted(exchange[h], cache)
    BY Facts DEF AdmittedInv, ForwardingInv, ForwardingTypeOK
  <2>1. CASE Embeds(h)
    BY <1>2, <2>1 DEF Embeds, forwardingVars
  <2>2. CASE LookedUp(h) \/ Stored(h)
    BY <2>2, LookedUpAdmits, StoredAdmits
  <2>3. CASE Open(h) \/ OpenFails(h) \/ BackendFails(h) \/ StreamBreaks(h)
    <3>1. ~At(h, "idle") /\ ~At(h, "reply") /\ cache' = cache
      BY <2>3 DEF Open, OpenFails, BackendFails, StreamBreaks, At
    <3>2. \/ \E kind \in {"error", "unavailable", "forwarded"} : Reply(h, kind)
          \/ \E pc \in {"open", "sent"} : Goto(h, pc)
      BY <2>3 DEF Open, OpenFails, BackendFails, StreamBreaks
    <3> QED
      BY <3>1, <3>2, AdmittedTurn
  <2>4. CASE BodyArrives(h)
    <3>1. ~At(h, "idle") /\ ~At(h, "reply") /\ cache' = cache
      BY <2>4 DEF BodyArrives, At
    <3>2. \/ \E kind \in {"error", "unavailable", "forwarded"} : Reply(h, kind)
          \/ Goto(h, "store") /\ Cacheable(exchange[h].req)
      BY <2>4 DEF BodyArrives, Storable
    <3> QED
      BY <3>1, <3>2, AdmittedTurn
  <2>5. CASE HeadersArrive(h)
    <3>1. PICK a \in Answer, n \in 0 .. MaxChunks :
            Become(h, [exchange[h] EXCEPT !.pc = IF a = "stream" THEN a ELSE "body",
                                          !.answer = a, !.total = n])
      BY <2>5 DEF HeadersArrive
    <3> DEFINE s == [exchange[h] EXCEPT !.pc = IF a = "stream" THEN a ELSE "body",
                                        !.answer = a, !.total = n]
    <3>2. ~At(h, "idle") /\ ~At(h, "reply") /\ cache' = cache /\ exchange[h].pc = "sent"
      BY <2>5 DEF HeadersArrive, At
    <3>3. n \in Nat
      OBVIOUS
    <3>4. /\ s \in Exchange /\ s.pc \in {"stream", "body"} /\ s.req = exchange[h].req
          /\ s.reply = exchange[h].reply /\ Become(h, s)
      BY <2>0, <3>1, <3>3 DEF Exchange, Phase, Answer
    <3>5. exchange[h].reply = "none"
      BY <2>0, <3>2 DEF Sound
    <3> HIDE DEF s
    <3> QED
      BY <3>2, <3>4, <3>5, AdmittedOn
  <2>6. CASE Chunk(h)
    <3> DEFINE s == [exchange[h] EXCEPT !.taken = @ + 1]
    <3>1. /\ s \in Exchange /\ s.pc = exchange[h].pc /\ s.req = exchange[h].req
          /\ s.reply = exchange[h].reply
      BY <2>0 DEF Exchange
    <3>2. Become(h, s) /\ ~At(h, "idle") /\ ~At(h, "reply") /\ cache' = cache
          /\ exchange[h].pc = "stream"
      BY <2>6 DEF Chunk, At
    <3>3. exchange[h].reply = "none"
      BY <2>0, <3>2 DEF Sound
    <3> HIDE DEF s
    <3> QED
      BY <3>1, <3>2, <3>3, AdmittedOn
  <2>7. CASE StreamEnds(h)
    <3> DEFINE s == [exchange[h] EXCEPT !.pc = "reply", !.reply = "forwarded",
                                        !.sent = exchange[h].taken]
    <3>1. /\ s \in Exchange /\ s.pc = "reply" /\ s.reply = "forwarded"
          /\ s.req = exchange[h].req
      BY <2>0 DEF Exchange, Phase
    <3>2. Become(h, s) /\ ~At(h, "idle") /\ ~At(h, "reply") /\ cache' = cache
      BY <2>7 DEF StreamEnds, At
    <3> HIDE DEF s
    <3> QED
      BY <3>1, <3>2, AdmittedOn
  <2>8. CASE Return(h)
    <3>1. exchange' = [exchange EXCEPT ![h] = Idle] /\ cache' = cache
      BY <2>8 DEF Return, Become
    <3>2. Admitted(Idle, cache)
      BY DEF Admitted, Idle
    <3> QED
      BY <2>0, <3>1, <3>2 DEF AdmittedInv
  <2> QED
    BY <1>3, <2>1, <2>2, <2>3, <2>4, <2>5, <2>6, <2>7, <2>8 DEF Forward
<1>4. CASE UNCHANGED vars
  BY <1>2, <1>4 DEF vars, forwardingVars
<1> QED
  BY <1>1, <1>3, <1>4 DEF Next

\* What a client is told from the cache was kept for a request with a valid key, eligible
\* as its own is, for the same model and parameters, with a prompt whose similarity to its
\* own reaches the threshold; and nothing is answered by the cache or the backend, or
\* kept, without a valid key.
THEOREM RequestsAreAdmitted == Spec => []AdmittedInv
<1>1. Init => AdmittedInv
  <2>1. \A C : Admitted(Idle, C)
    BY DEF Admitted, Idle
  <2> QED
    BY <2>1 DEF Init, ForwardingInit, AdmittedInv
<1> QED
  BY <1>1, AdmittedStep, ForwardingInvariant, PTL DEF Spec

\* An answer in another format needs two eligible requests of different routes with the
\* same model and parameters and similar prompts: with none, as when the clients use one
\* route only, every answer from the cache is one to a request of the same route.
THEOREM FormatsAgreeByRoute ==
  ASSUME \A q, r \in Request :
           Cacheable(q) /\ Cacheable(r) /\ q.model = r.model /\ <<r.prompt, q.prompt>> \in Similar
             => q.route = r.route
  PROVE  Spec => []AnswersInOwnFormat
<1>1. ASSUME ForwardingInv, AdmittedInv PROVE AnswersInOwnFormat
  <2> SUFFICES ASSUME NEW h \in Caller, exchange[h].reply = "cached"
               PROVE  exchange[h].hit.req.route = exchange[h].req.route
    BY DEF AnswersInOwnFormat
  <2>1. /\ exchange[h].hit \in cache /\ Matches(exchange[h].hit, exchange[h].req)
        /\ Cacheable(exchange[h].req) /\ Cacheable(exchange[h].hit.req)
    BY <1>1 DEF AdmittedInv, Admitted
  <2>2. exchange[h].hit.req \in Request /\ exchange[h].req \in Request
    <3>1. Sound(exchange[h])
      BY <1>1 DEF ForwardingInv
    <3>2. exchange[h].hit \in Entry /\ exchange[h].req \in Request
      BY <3>1 DEF Sound
    <3> QED
      BY <3>2 DEF Entry
  <2> QED
    BY <2>1, <2>2 DEF Matches
<1>2. ForwardingInv /\ AdmittedInv => AnswersInOwnFormat
  BY <1>1
<1> QED
  BY <1>2, ForwardingInvariant, RequestsAreAdmitted, PTL

-----------------------------------------------------------------------------
(* How many steps are left to an exchange. *)

\* The steps of an embedding in state e, at most: the call, the wait for the lock, the
\* load, and two attempts to encode.
EmbedLeft(e) ==
  CASE e = "out"    -> 5
    [] e = "queued" -> 4
    [] e = "load"   -> 3
    [] e = "encode" -> 2
    [] e = "bare"   -> 1
    [] OTHER        -> 0

\* The steps an exchange in state s still takes, with its embedding in state e.
StepsLeft(s, e) ==
  CASE s.pc = "lookup" -> MaxChunks + 12 + EmbedLeft(e)
    [] s.pc = "open"   -> MaxChunks + 11
    [] s.pc = "sent"   -> MaxChunks + 10
    [] s.pc = "body"   -> 8
    [] s.pc = "store"  -> 2 + EmbedLeft(e)
    [] s.pc = "stream" -> s.total - s.taken + 2
    [] s.pc = "reply"  -> 1
    [] OTHER           -> 0

\* No chunk is taken before the headers have come, and none that the stream does not have.
Taken(s) ==
  /\ s.pc \in {"idle", "lookup", "open", "sent"} => s.taken = 0
  /\ s.pc = "stream" => s.taken <= s.total /\ s.total <= MaxChunks

ChunksInv == \A h \in Caller : Taken(exchange[h])

\* An exchange in state s, with its embedding in state e, has come nearer to its end in
\* state t, with its embedding in state f.
Nearer(t, f, s, e) == Taken(t) /\ StepsLeft(t, f) < StepsLeft(s, e)

\* With every step of its thread an exchange comes nearer to its end, and no step of
\* another takes it back: not the loads that fail while it waits for the model, nor those
\* who hold the connections of the pool.
ForwardsAdvance ==
  [][\A h \in Caller :
       ~At(h, "idle") /\ (exchange'[h] # exchange[h] \/ embed'[h] # embed[h]) =>
         StepsLeft(exchange'[h], embed'[h]) < StepsLeft(exchange[h], embed[h])]_vars

\* An exchange takes at most seventeen steps, and one for each chunk of a stream.
ForwardsAreShort == \A h \in Caller : StepsLeft(exchange[h], embed[h]) <= MaxChunks + 17

\* An embedding comes nearer to its end with each step.
LEMMA EmbedAdvances ==
  ASSUME EmbedTypeOK, NEW h \in Caller, EmbedStep(h)
  PROVE  EmbedLeft(embed'[h]) < EmbedLeft(embed[h])
<1>1. ASSUME NEW from, NEW to, Moves(h, from, to) PROVE embed[h] = from /\ embed'[h] = to
  BY <1>1 DEF Moves, EmbedTypeOK
<1>2. \/ embed[h] = "out" /\ embed'[h] \in {"encode", "load", "queued"}
      \/ embed[h] = "queued" /\ embed'[h] \in {"encode", "load"}
      \/ embed[h] = "load" /\ embed'[h] \in {"encode", "failed"}
      \/ embed[h] = "encode" /\ embed'[h] \in {"done", "bare", "failed"}
      \/ embed[h] = "bare" /\ embed'[h] \in {"done", "failed"}
  BY <1>1 DEF EmbedStep, Call, Woken, Loaded, LoadFails, Encode
<1> QED
  BY <1>2 DEF EmbedLeft

\* How many steps are left, by phase.
LEMMA Counted ==
  ASSUME NEW s \in Exchange, NEW e \in EmbedState, Taken(s)
  PROVE  /\ EmbedLeft(e) \in 0 .. 5
         /\ StepsLeft(s, e) \in Nat /\ StepsLeft(s, e) <= MaxChunks + 17
         /\ s.pc \notin {"idle", "reply"} => StepsLeft(s, e) > 1
         /\ s.pc = "reply" => StepsLeft(s, e) = 1
         /\ s.pc = "lookup" => StepsLeft(s, e) = MaxChunks + 12 + EmbedLeft(e)
         /\ s.pc = "store" => StepsLeft(s, e) = 2 + EmbedLeft(e)
         /\ s.pc = "open" => StepsLeft(s, e) = MaxChunks + 11
         /\ s.pc = "sent" => StepsLeft(s, e) = MaxChunks + 10
         /\ s.pc = "body" => StepsLeft(s, e) = 8
         /\ s.pc = "stream" => StepsLeft(s, e) = s.total - s.taken + 2
         /\ s.pc = "idle" => StepsLeft(s, e) = 0
<1>1. MaxChunks \in Nat
  BY ChunksAssumption
<1>2. EmbedLeft(e) \in 0 .. 5
  BY DEF EmbedLeft
<1>3. s.pc \in Phase /\ s.total \in Nat /\ s.taken \in Nat
  BY DEF Exchange
<1>4. CASE s.pc \in {"lookup", "store"}
  BY <1>1, <1>2, <1>4 DEF StepsLeft
<1>5. CASE s.pc \in {"open", "sent", "body", "reply", "idle"}
  BY <1>1, <1>2, <1>5 DEF StepsLeft
<1>6. CASE s.pc = "stream"
  BY <1>1, <1>2, <1>3, <1>6 DEF StepsLeft, Taken
<1> QED
  BY <1>3, <1>4, <1>5, <1>6 DEF Phase

\* A step of k concerns k's exchange and k's embedding alone.
LEMMA OneThread ==
  ASSUME ForwardingInv, NEW k \in Caller,
         Forward(k) \/ \E r \in Request : Receive(k, r)
  PROVE  \A h \in Caller \ {k} : exchange'[h] = exchange[h] /\ embed'[h] = embed[h]
<1>1. exchange \in [Caller -> Exchange] /\ embed \in [Caller -> EmbedState]
  BY DEF ForwardingInv, ForwardingTypeOK, EmbedTypeOK
<1>2. (\E s : Become(k, s)) \/ exchange' = exchange
  <2>1. CASE \E r \in Request : Receive(k, r)
    BY <2>1 DEF Receive
  <2>2. CASE Embeds(k)
    BY <2>2 DEF Embeds, forwardingVars
  <2>3. CASE LookedUp(k)
    BY <2>3 DEF LookedUp, Goto, Reply
  <2>4. CASE Open(k) \/ OpenFails(k) \/ HeadersArrive(k) \/ BackendFails(k)
    BY <2>4 DEF Open, OpenFails, HeadersArrive, BackendFails, Goto, Reply
  <2>5. CASE BodyArrives(k) \/ Stored(k)
    BY <2>5 DEF BodyArrives, Stored, Goto, Reply
  <2>6. CASE Chunk(k) \/ StreamEnds(k) \/ StreamBreaks(k) \/ Return(k)
    BY <2>6 DEF Chunk, StreamEnds, StreamBreaks, Return, Reply
  <2> QED
    BY <2>1, <2>2, <2>3, <2>4, <2>5, <2>6 DEF Forward
<1>3. (\E e : embed' = [embed EXCEPT ![k] = e]) \/ embed' = embed
  <2>1. CASE Embeds(k)
    BY <2>1 DEF Embeds, EmbedStep, Call, Woken, Loaded, LoadFails, Encode, Moves
  <2>2. CASE LookedUp(k) \/ Stored(k)
    BY <2>2 DEF LookedUp, Stored, Leave
  <2>3. CASE ~Embeds(k) /\ ~LookedUp(k) /\ ~Stored(k)
    BY <2>3 DEF Forward, Receive, Open, OpenFails, HeadersArrive, BackendFails, BodyArrives,
       Chunk, StreamEnds, StreamBreaks, Return, embedVars
  <2> QED
    BY <2>1, <2>2, <2>3
<1>4. exchange' = exchange \/ \A h \in Caller \ {k} : exchange'[h] = exchange[h]
  BY <1>1, <1>2 DEF Become
<1>5. embed' = embed \/ \A h \in Caller \ {k} : embed'[h] = embed[h]
  BY <1>1, <1>3
<1> QED
  BY <1>4, <1>5

\* The reply is the last step but one, whatever the phase it comes in.
LEMMA ReplyAdvances ==
  ASSUME ForwardingInv, ChunksInv, NEW h \in Caller, exchange[h].pc \notin {"idle", "reply"},
         NEW kind, Reply(h, kind), NEW e
  PROVE  Nearer(exchange'[h], e, exchange[h], embed[h])
<1>1. /\ exchange \in [Caller -> Exchange] /\ exchange[h] \in Exchange
      /\ embed[h] \in EmbedState /\ Taken(exchange[h])
  BY Facts DEF ForwardingInv, ForwardingTypeOK, EmbedTypeOK, ChunksInv
<1>2. exchange'[h].pc = "reply"
  BY <1>1 DEF Reply, Become, Exchange
<1>3. StepsLeft(exchange[h], embed[h]) \in Nat /\ StepsLeft(exchange[h], embed[h]) > 1
  BY <1>1, Counted
<1>4. StepsLeft(exchange'[h], e) = 1
  BY <1>2 DEF StepsLeft
<1> QED
  BY <1>2, <1>3, <1>4 DEF Nearer, Taken

\* So is each step of the thread itself.
LEMMA ForwardAdvances ==
  ASSUME ForwardingInv, ChunksInv, NEW h \in Caller, Forward(h)
  PROVE  Nearer(exchange'[h], embed'[h], exchange[h], embed[h])
<1> DEFINE x == exchange[h]
           y == exchange'[h]
<1>0. /\ exchange \in [Caller -> Exchange] /\ x \in Exchange /\ Sound(x)
      /\ EmbedTypeOK /\ embed[h] \in EmbedState /\ Taken(x) /\ MaxChunks \in Nat
  BY Facts, ChunksAssumption
     DEF ForwardingInv, ForwardingTypeOK, EmbedTypeOK, ChunksInv
<1>1. ASSUME NEW s, Become(h, s) PROVE exchange'[h] = s
  BY <1>0, <1>1 DEF Become
<1>2. CASE Embeds(h)
  <2>1. y = x /\ x.pc \in {"lookup", "store"} /\ EmbedStep(h)
    BY <1>2 DEF Embeds, forwardingVars, At
  <2>2. EmbedLeft(embed'[h]) < EmbedLeft(embed[h])
    BY <1>0, <2>1, EmbedAdvances
  <2>3. EmbedLeft(embed[h]) \in 0 .. 5 /\ EmbedLeft(embed'[h]) \in 0 .. 5
    BY <1>0, Counted DEF EmbedLeft
  <2>4. CASE x.pc = "lookup"
    BY <1>0, <2>1, <2>2, <2>3, <2>4 DEF Nearer, StepsLeft
  <2>5. CASE x.pc = "store"
    BY <1>0, <2>1, <2>2, <2>3, <2>5 DEF Nearer, StepsLeft
  <2> QED
    BY <2>1, <2>4, <2>5
<1>3. CASE LookedUp(h)
  <2>1. x.pc = "lookup"
    BY <1>3 DEF LookedUp, At
  <2>2. CASE Reply(h, "error")
    BY <2>1, <2>2, ReplyAdvances
  <2>3. ASSUME NEW e \in cache,
               Become(h, [x EXCEPT !.pc = "reply", !.reply = "cached", !.hit = e])
        PROVE  Nearer(y, embed'[h], x, embed[h])
    <3>1. y.pc = "reply"
      BY <1>0, <1>1, <2>3 DEF Exchange
    <3>2. StepsLeft(y, embed'[h]) = 1 /\ Taken(y)
      BY <3>1 DEF StepsLeft, Taken
    <3>3. StepsLeft(x, embed[h]) > 1
      BY <1>0, <2>1, Counted
    <3> QED
      BY <3>2, <3>3 DEF Nearer
  <2>4. CASE Goto(h, "open")
    <3>1. y.pc = "open" /\ y.taken = x.taken /\ x.taken = 0
      BY <1>0, <1>1, <2>1, <2>4 DEF Goto, Exchange, Taken
    <3>2. StepsLeft(y, embed'[h]) = MaxChunks + 11 /\ Taken(y)
      BY <3>1 DEF StepsLeft, Taken
    <3>3. /\ StepsLeft(x, embed[h]) = MaxChunks + 12 + EmbedLeft(embed[h])
          /\ EmbedLeft(embed[h]) \in 0 .. 5
      BY <1>0, <2>1, Counted
    <3> QED
      BY <1>0, <3>2, <3>3 DEF Nearer
  <2> QED
    BY <1>3, <2>2, <2>3, <2>4 DEF LookedUp
<1>4. CASE Open(h)
  <2>1. x.pc = "open" /\ y.pc = "sent" /\ y.taken = x.taken /\ x.taken = 0
    BY <1>0, <1>1, <1>4 DEF Open, At, Goto, Exchange, Taken
  <2> QED
    BY <1>0, <2>1 DEF Nearer, Taken, StepsLeft
<1>5. CASE OpenFails(h) \/ BackendFails(h) \/ StreamBreaks(h) \/ Stored(h)
  <2>1. x.pc \notin {"idle", "reply"} /\ \E kind : Reply(h, kind)
    BY <1>5 DEF OpenFails, BackendFails, StreamBreaks, Stored, At
  <2> QED
    BY <2>1, ReplyAdvances
<1>6. CASE HeadersArrive(h)
  <2>1. PICK a \in Answer, n \in 0 .. MaxChunks :
          Become(h, [x EXCEPT !.pc = IF a = "stream" THEN a ELSE "body",
                              !.answer = a, !.total = n])
    BY <1>6 DEF HeadersArrive
  <2>2. /\ x.pc = "sent" /\ y.pc \in {"stream", "body"} /\ y.taken = x.taken
        /\ x.taken = 0 /\ y.total = n
    BY <1>0, <1>1, <1>6, <2>1 DEF HeadersArrive, At, Exchange, Taken
  <2>3. StepsLeft(x, embed[h]) = MaxChunks + 10
    BY <2>2 DEF StepsLeft
  <2>4. StepsLeft(y, embed'[h]) = n + 2 \/ StepsLeft(y, embed'[h]) = 8
    BY <2>2 DEF StepsLeft
  <2>5. Taken(y)
    BY <2>2 DEF Taken
  <2> QED
    BY <1>0, <2>3, <2>4, <2>5 DEF Nearer
<1>7. CASE BodyArrives(h)
  <2>1. x.pc = "body" /\ ((\E kind : Reply(h, kind)) \/ Goto(h, "store"))
    BY <1>7 DEF BodyArrives, At
  <2>2. CASE Goto(h, "store")
    <3>1. y.pc = "store" /\ embed'[h] = "out"
      BY <1>0, <1>1, <1>7, <2>1, <2>2, Facts DEF Goto, Exchange, BodyArrives, embedVars
    <3> QED
      BY <2>1, <3>1 DEF Nearer, Taken, StepsLeft, EmbedLeft
  <2> QED
    BY <2>1, <2>2, ReplyAdvances
<1>8. CASE Chunk(h)
  <2>1. /\ x.pc = "stream" /\ x.taken < x.total /\ x.total <= MaxChunks
        /\ x.taken \in Nat /\ x.total \in Nat
    BY <1>0, <1>8 DEF Chunk, At, Taken, Exchange
  <2>2. y.pc = "stream" /\ y.taken = x.taken + 1 /\ y.total = x.total
    BY <1>0, <1>1, <1>8, <2>1 DEF Chunk, Exchange
  <2> QED
    BY <1>0, <2>1, <2>2 DEF Nearer, Taken, StepsLeft
<1>9. CASE StreamEnds(h)
  <2>1. x.pc = "stream" /\ y.pc = "reply"
    BY <1>0, <1>1, <1>9 DEF StreamEnds, At, Exchange
  <2>2. StepsLeft(x, embed[h]) > 1
    BY <1>0, <2>1, Counted
  <2> QED
    BY <2>1, <2>2 DEF Nearer, Taken, StepsLeft
<1>10. CASE Return(h)
  <2>1. x.pc = "reply" /\ y = Idle
    BY <1>1, <1>10 DEF Return, At
  <2> QED
    BY <2>1 DEF Nearer, Taken, StepsLeft, Idle
<1> QED
  BY <1>2, <1>3, <1>4, <1>5, <1>6, <1>7, <1>8, <1>9, <1>10 DEF Forward

\* Every step, whoever takes it, keeps the count of chunks and takes no exchange back.
LEMMA StepAdvances ==
  ASSUME ForwardingInv, ChunksInv, [Next]_vars
  PROVE  /\ ChunksInv'
         /\ \A h \in Caller :
              ~At(h, "idle") /\ (exchange'[h] # exchange[h] \/ embed'[h] # embed[h]) =>
                StepsLeft(exchange'[h], embed'[h]) < StepsLeft(exchange[h], embed[h])
<1>1. CASE UNCHANGED vars
  BY <1>1 DEF vars, forwardingVars, embedVars, ChunksInv
<1>2. ASSUME NEW k \in Caller, Forward(k) \/ \E r \in Request : Receive(k, r)
      PROVE  /\ Taken(exchange'[k])
             /\ ~At(k, "idle") =>
                  StepsLeft(exchange'[k], embed'[k]) < StepsLeft(exchange[k], embed[k])
  <2>1. CASE Forward(k)
    BY <2>1, ForwardAdvances DEF Nearer
  <2>2. ASSUME NEW r \in Request, Receive(k, r)
        PROVE  At(k, "idle") /\ Taken(exchange'[k])
    <3> DEFINE b == [Idle EXCEPT !.req = r]
    <3>1. b.taken = 0 /\ b \in Exchange
      BY DEF Idle, Exchange, Phase
    <3>2. exchange \in [Caller -> Exchange]
      BY DEF ForwardingInv, ForwardingTypeOK
    <3>3. \/ \E kind : Become(k, [b EXCEPT !.pc = "reply", !.reply = kind])
          \/ \E pc \in {"lookup", "open"} : Become(k, [b EXCEPT !.pc = pc])
      BY <2>2 DEF Receive
    <3> HIDE DEF b
    <3>4. ASSUME NEW kind, Become(k, [b EXCEPT !.pc = "reply", !.reply = kind])
          PROVE  exchange'[k].pc = "reply" /\ exchange'[k].taken = 0
      BY <3>1, <3>2, <3>4 DEF Become, Exchange
    <3>5. ASSUME NEW pc, Become(k, [b EXCEPT !.pc = pc])
          PROVE  exchange'[k].pc = pc /\ exchange'[k].taken = 0
      BY <3>1, <3>2, <3>5 DEF Become, Exchange
    <3>6. exchange'[k].pc \in {"reply", "lookup", "open"} /\ exchange'[k].taken = 0
      BY <3>3, <3>4, <3>5
    <3> QED
      BY <2>2, <3>6 DEF Receive, Taken
  <2> QED
    BY <1>2, <2>1, <2>2
<1>3. CASE Next
  <2>1. PICK k \in Caller : Forward(k) \/ \E r \in Request : Receive(k, r)
    BY <1>3 DEF Next
  <2>2. \A h \in Caller \ {k} : exchange'[h] = exchange[h] /\ embed'[h] = embed[h]
    BY <2>1, OneThread
  <2> QED
    BY <1>2, <2>1, <2>2 DEF ChunksInv
<1> QED
  BY <1>1, <1>3

\* A thread cannot be kept busy for ever by the steps it takes: the loads that fail, the
\* locks it waits for and the chunks it relays are counted down.  It is the half of
\* EveryForwardReturns that needs no fairness.
THEOREM ForwardsGoForward == Spec => []ForwardsAreShort /\ ForwardsAdvance
<1>1. Init => ChunksInv
  BY DEF Init, ForwardingInit, Idle, ChunksInv, Taken
<1>2. ForwardingInv /\ ChunksInv => ForwardsAreShort
  <2> SUFFICES ASSUME ForwardingInv, ChunksInv, NEW h \in Caller
               PROVE  StepsLeft(exchange[h], embed[h]) <= MaxChunks + 17
    BY DEF ForwardsAreShort
  <2>1. exchange[h] \in Exchange /\ embed[h] \in EmbedState /\ Taken(exchange[h])
    BY Facts DEF EmbedTypeOK, ChunksInv
  <2> QED
    BY <2>1, Counted
<1>3. ForwardingInv /\ ChunksInv /\ [Next]_vars =>
        /\ ChunksInv'
        /\ [\A h \in Caller :
              ~At(h, "idle") /\ (exchange'[h] # exchange[h] \/ embed'[h] # embed[h]) =>
                StepsLeft(exchange'[h], embed'[h]) < StepsLeft(exchange[h], embed[h])]_vars
  BY StepAdvances
<1> QED
  BY <1>1, <1>2, <1>3, ForwardingInvariant, PTL DEF Spec, ForwardsAdvance

=============================================================================
