--------------------------- MODULE LifecycleProofs ---------------------------
(***************************************************************************)
(* The runner keeps every wakeup, and the process starts, degrades and     *)
(* exits as it should, for any finite number of threads.                   *)
(*                                                                         *)
(* The argument: what is left of the batch and what is queued for the next *)
(* one are one queue, whose handles belong one by one to the calls that    *)
(* are due; a step of the loop takes its head, any step adds to its end.   *)
(* On top of the runner's invariant the main thread's phases say what is   *)
(* open, what the bootstrap has reached and who may close the loop.        *)
(***************************************************************************)
EXTENDS Lifecycle, TLAPS, FiniteSetTheorems, SequenceTheorems

\* A call in state s waits for a handle.
IsDue(s) == s \in {"queued", "ready", "woken", "ended"}
KindDue(s) == IF s = "queued" THEN "submit" ELSE IF s = "ended" THEN "tell" ELSE "step"

\* The handles of q belong, one by one, to the calls of f that are due.
Kept(q, f) ==
  /\ \A i \in DOMAIN q : q[i].caller \in Caller =>
       IsDue(f[q[i].caller]) /\ q[i].kind = KindDue(f[q[i].caller])
  /\ \A i, j \in DOMAIN q : q[i].caller \in Caller /\ q[i].caller = q[j].caller => i = j
  /\ \A c \in Caller : IsDue(f[c]) => \E i \in DOMAIN q : q[i].caller = c

-----------------------------------------------------------------------------
(* Queues of handles                                                         *)

\* A handle is of a caller, or it is the stop.
LEMMA HandleFacts ==
  /\ \A k \in {"submit", "step", "tell"}, c \in Caller : Handle(k, c) \in Handles
  /\ Handle("stop", NoCaller) \in Handles
  /\ \A h \in Handles : h.caller \in Caller => h.kind # "stop"
  /\ \A h \in Handles : h.kind # "stop" => h.caller \in Caller
  /\ Handle("stop", NoCaller).caller \notin Caller
  /\ \A k, c : Handle(k, c).kind = k /\ Handle(k, c).caller = c
BY NoCallerAssumption DEF Handle, Handles

\* WakeupsAreKept says that the queue is kept.
LEMMA KeptIsKept ==
  ASSUME NEW q \in Seq(Handles), NEW f \in [Caller -> CallState]
  PROVE  Kept(q, f) <=>
           \A c \in Caller :
             LET H == {i \in DOMAIN q : q[i].caller = c}
             IN IF IsDue(f[c]) THEN \E i \in H : H = {i} /\ q[i].kind = KindDue(f[c])
                ELSE H = {}
BY DEF Kept

\* A handle at the end for a call that becomes due.
LEMMA KeptAppend ==
  ASSUME NEW q \in Seq(Handles), NEW f \in [Caller -> CallState], NEW c \in Caller,
         NEW s \in CallState, Kept(q, f), ~IsDue(f[c]), IsDue(s)
  PROVE  Kept(Append(q, Handle(KindDue(s), c)), [f EXCEPT ![c] = s])
<1> DEFINE h == Handle(KindDue(s), c)
           r == Append(q, h)
           g == [f EXCEPT ![c] = s]
<1>1. h \in Handles /\ h.caller = c /\ h.kind = KindDue(s)
  BY HandleFacts DEF KindDue
<1>2. /\ r \in Seq(Handles) /\ Len(r) = Len(q) + 1
      /\ \A i \in 1 .. Len(q) : r[i] = q[i]
      /\ r[Len(q) + 1] = h
  BY <1>1, AppendProperties
<1>3. DOMAIN q = 1 .. Len(q) /\ DOMAIN r = 1 .. Len(q) + 1 /\ Len(q) \in Nat
  BY <1>2, LenProperties
<1>4. \A i \in DOMAIN q : q[i].caller # c
  BY DEF Kept
<1>5. g[c] = s /\ \A d \in Caller : d # c => g[d] = f[d]
  OBVIOUS
<1> HIDE DEF h, r, g
<1>6. \A i \in DOMAIN r : i = Len(q) + 1 \/ i \in DOMAIN q
  BY <1>3
<1>7. \A i \in DOMAIN r : r[i].caller \in Caller =>
        IsDue(g[r[i].caller]) /\ r[i].kind = KindDue(g[r[i].caller])
  BY <1>1, <1>2, <1>3, <1>4, <1>5, <1>6 DEF Kept
<1>8. \A i, j \in DOMAIN r : r[i].caller \in Caller /\ r[i].caller = r[j].caller => i = j
  <2> SUFFICES ASSUME NEW i \in DOMAIN r, NEW j \in DOMAIN r, r[i].caller \in Caller,
                      r[i].caller = r[j].caller
               PROVE  i = j
    OBVIOUS
  <2>1. CASE i \in DOMAIN q /\ j \in DOMAIN q
    BY <2>1, <1>2, <1>3 DEF Kept
  <2>2. CASE i = Len(q) + 1 \/ j = Len(q) + 1
    BY <2>2, <1>1, <1>2, <1>3, <1>4, <1>6
  <2> QED
    BY <2>1, <2>2, <1>6
<1>9. \A d \in Caller : IsDue(g[d]) => \E i \in DOMAIN r : r[i].caller = d
  <2> SUFFICES ASSUME NEW d \in Caller, IsDue(g[d]) PROVE \E i \in DOMAIN r : r[i].caller = d
    OBVIOUS
  <2>1. CASE d = c
    BY <2>1, <1>1, <1>2, <1>3
  <2>2. CASE d # c
    <3>1. PICK i \in DOMAIN q : q[i].caller = d
      BY <2>2, <1>5 DEF Kept
    <3> QED
      BY <3>1, <1>2, <1>3
  <2> QED
    BY <2>1, <2>2
<1> QED
  BY <1>7, <1>8, <1>9 DEF Kept, h, r, g

\* A handle at the end that is nobody's.
LEMMA KeptStop ==
  ASSUME NEW q \in Seq(Handles), NEW f \in [Caller -> CallState], Kept(q, f)
  PROVE  Kept(Append(q, Handle("stop", NoCaller)), f)
<1> DEFINE h == Handle("stop", NoCaller)
           r == Append(q, h)
<1>1. h \in Handles /\ h.caller \notin Caller
  BY HandleFacts
<1>2. /\ r \in Seq(Handles) /\ Len(r) = Len(q) + 1
      /\ \A i \in 1 .. Len(q) : r[i] = q[i]
      /\ r[Len(q) + 1] = h
  BY <1>1, AppendProperties
<1>3. DOMAIN q = 1 .. Len(q) /\ DOMAIN r = 1 .. Len(q) + 1 /\ Len(q) \in Nat
  BY <1>2, LenProperties
<1> HIDE DEF h, r
<1>4. \A i \in DOMAIN r : r[i].caller \in Caller => i \in DOMAIN q /\ r[i] = q[i]
  BY <1>1, <1>2, <1>3
<1>5. \A i \in DOMAIN q : i \in DOMAIN r /\ r[i] = q[i]
  BY <1>2, <1>3
<1> QED
  BY <1>4, <1>5 DEF Kept, h, r

\* The head is taken, and its call is due no longer.
LEMMA KeptTail ==
  ASSUME NEW q \in Seq(Handles), NEW f \in [Caller -> CallState], NEW c \in Caller,
         NEW s \in CallState, Kept(q, f), q # <<>>, Head(q).caller = c, ~IsDue(s)
  PROVE  Kept(Tail(q), [f EXCEPT ![c] = s])
<1> DEFINE r == Tail(q)
           g == [f EXCEPT ![c] = s]
<1>1. r \in Seq(Handles) /\ Len(r) = Len(q) - 1 /\ \A i \in 1 .. Len(r) : r[i] = q[i + 1]
  BY HeadTailProperties
<1>2. Len(q) \in Nat /\ DOMAIN q = 1 .. Len(q) /\ DOMAIN r = 1 .. Len(q) - 1 /\ Len(q) >= 1
  BY <1>1, LenProperties, EmptySeq
<1>3. q[1].caller = c
  OBVIOUS
<1>4. g[c] = s /\ \A d \in Caller : d # c => g[d] = f[d]
  OBVIOUS
<1> HIDE DEF r, g
<1>5. \A i \in DOMAIN r : i + 1 \in DOMAIN q /\ r[i] = q[i + 1] /\ r[i].caller # c
  BY <1>1, <1>2, <1>3 DEF Kept
<1>6. \A d \in Caller : IsDue(g[d]) => \E i \in DOMAIN r : r[i].caller = d
  <2> SUFFICES ASSUME NEW d \in Caller, IsDue(g[d]) PROVE \E i \in DOMAIN r : r[i].caller = d
    OBVIOUS
  <2>1. d # c
    BY <1>4
  <2>2. PICK i \in DOMAIN q : q[i].caller = d
    BY <2>1, <1>4 DEF Kept
  <2>3. i - 1 \in DOMAIN r /\ r[i - 1] = q[i]
    BY <2>1, <2>2, <1>1, <1>2, <1>3
  <2> QED
    BY <2>2, <2>3
<1>7. \A i, j \in DOMAIN r : r[i].caller \in Caller /\ r[i].caller = r[j].caller => i = j
  <2> SUFFICES ASSUME NEW i \in DOMAIN r, NEW j \in DOMAIN r, r[i].caller \in Caller,
                      r[i].caller = r[j].caller
               PROVE  i = j
    OBVIOUS
  <2>1. i + 1 = j + 1
    BY <1>5 DEF Kept
  <2> QED
    BY <2>1, <1>2
<1> QED
  BY <1>4, <1>5, <1>6, <1>7 DEF Kept, r, g

\* The head is taken, and it is nobody's.
LEMMA KeptTailStop ==
  ASSUME NEW q \in Seq(Handles), NEW f \in [Caller -> CallState],
         Kept(q, f), q # <<>>, Head(q).caller \notin Caller
  PROVE  Kept(Tail(q), f)
<1> DEFINE r == Tail(q)
<1>1. r \in Seq(Handles) /\ Len(r) = Len(q) - 1 /\ \A i \in 1 .. Len(r) : r[i] = q[i + 1]
  BY HeadTailProperties
<1>2. Len(q) \in Nat /\ DOMAIN q = 1 .. Len(q) /\ DOMAIN r = 1 .. Len(q) - 1 /\ Len(q) >= 1
  BY <1>1, LenProperties, EmptySeq
<1>3. q[1].caller \notin Caller
  OBVIOUS
<1> HIDE DEF r
<1>4. \A i \in DOMAIN r : i + 1 \in DOMAIN q /\ r[i] = q[i + 1]
  BY <1>1, <1>2
<1>5. \A i \in DOMAIN q : q[i].caller \in Caller => i - 1 \in DOMAIN r /\ r[i - 1] = q[i]
  BY <1>1, <1>2, <1>3
<1>6. \A i, j \in DOMAIN r : r[i].caller \in Caller /\ r[i].caller = r[j].caller => i = j
  <2> SUFFICES ASSUME NEW i \in DOMAIN r, NEW j \in DOMAIN r, r[i].caller \in Caller,
                      r[i].caller = r[j].caller
               PROVE  i = j
    OBVIOUS
  <2>1. i + 1 = j + 1
    BY <1>4 DEF Kept
  <2> QED
    BY <2>1, <1>2
<1> QED
  BY <1>4, <1>5, <1>6 DEF Kept, r

\* A call moves between two states in which it is not due.
LEMMA KeptIdle ==
  ASSUME NEW q \in Seq(Handles), NEW f \in [Caller -> CallState], NEW c \in Caller,
         NEW s \in CallState, Kept(q, f), ~IsDue(f[c]), ~IsDue(s)
  PROVE  Kept(q, [f EXCEPT ![c] = s])
BY DEF Kept

\* Handles at the end for all the calls that await, in any order.
LEMMA KeptCancelled ==
  ASSUME NEW q \in Seq(Handles), NEW f \in [Caller -> CallState], Kept(q, f),
         NEW S, S = {c \in Caller : f[c] = "suspended"}, NEW s \in Orders(S)
  PROVE  LET t == [i \in 1 .. Len(s) |-> Handle("step", s[i])]
         IN /\ t \in Seq(Handles)
            /\ Kept(q \o t, [c \in Caller |-> IF f[c] = "suspended" THEN "woken" ELSE f[c]])
<1> DEFINE t == [i \in 1 .. Len(s) |-> Handle("step", s[i])]
           r == q \o t
           g == [c \in Caller |-> IF f[c] = "suspended" THEN "woken" ELSE f[c]]
           n == Cardinality(S)
<1>1. n \in Nat
  BY CallerAssumption, FS_Subset, FS_CardinalityType
<1>2. /\ s \in [1 .. n -> S]
      /\ \A i, j \in 1 .. n : s[i] = s[j] => i = j
      /\ \A c \in S : \E i \in 1 .. n : s[i] = c
  BY DEF Orders, Bijection, Injection, Surjection, IsInjective
<1> HIDE DEF n
<1>3. s \in Seq(S) /\ Len(s) = n
  <2>1. s \in Seq(S)
    BY <1>1, <1>2, SeqDef
  <2>2. 1 .. Len(s) = 1 .. n /\ Len(s) \in Nat
    BY <1>2, <2>1, LenProperties
  <2> QED
    BY <1>1, <2>1, <2>2
<1>4. \A i \in 1 .. n : t[i] \in Handles /\ t[i].caller = s[i] /\ t[i].kind = "step"
  BY <1>2, <1>3, HandleFacts
<1>5. t \in Seq(Handles) /\ Len(t) = n
  <2>1. t \in [1 .. n -> Handles]
    BY <1>3, <1>4
  <2>2. t \in Seq(Handles)
    BY <1>1, <2>1, SeqDef
  <2>3. 1 .. Len(t) = 1 .. n /\ Len(t) \in Nat
    BY <2>1, <2>2, LenProperties
  <2> QED
    BY <1>1, <2>2, <2>3
<1> HIDE DEF t
<1>6. /\ r \in Seq(Handles) /\ Len(r) = Len(q) + n
      /\ \A i \in 1 .. Len(q) + n : r[i] = IF i <= Len(q) THEN q[i] ELSE t[i - Len(q)]
  BY <1>5, ConcatProperties
<1>7. DOMAIN q = 1 .. Len(q) /\ DOMAIN r = 1 .. Len(q) + n /\ Len(q) \in Nat
  BY <1>6, LenProperties
<1>8. \A c \in Caller : IF c \in S THEN g[c] = "woken" ELSE g[c] = f[c]
  OBVIOUS
<1> HIDE DEF r, g
<1>9. /\ \A i \in DOMAIN q : i \in DOMAIN r /\ r[i] = q[i] /\ q[i].caller \notin S
      /\ \A i \in 1 .. n : i + Len(q) \in DOMAIN r /\ r[i + Len(q)] = t[i]
  <2>1. \A i \in DOMAIN q : q[i].caller \notin S
    BY DEF Kept, IsDue
  <2>2. \A i \in DOMAIN q : i \in DOMAIN r /\ r[i] = q[i]
    BY <1>1, <1>6, <1>7
  <2>3. \A i \in 1 .. n : i + Len(q) \in DOMAIN r /\ r[i + Len(q)] = t[i]
    BY <1>1, <1>6, <1>7
  <2> QED
    BY <2>1, <2>2, <2>3
<1>10. \A i \in DOMAIN r : \/ i \in DOMAIN q
                           \/ i - Len(q) \in 1 .. n /\ r[i] = t[i - Len(q)]
  BY <1>1, <1>6, <1>7
<1>11. \A i \in DOMAIN r : r[i].caller \in Caller =>
         IsDue(g[r[i].caller]) /\ r[i].kind = KindDue(g[r[i].caller])
  <2> SUFFICES ASSUME NEW i \in DOMAIN r, r[i].caller \in Caller
               PROVE  IsDue(g[r[i].caller]) /\ r[i].kind = KindDue(g[r[i].caller])
    OBVIOUS
  <2>1. CASE i \in DOMAIN q
    BY <2>1, <1>8, <1>9 DEF Kept
  <2>2. CASE i - Len(q) \in 1 .. n /\ r[i] = t[i - Len(q)]
    <3>1. s[i - Len(q)] \in S
      BY <2>2, <1>2
    <3> QED
      BY <2>2, <3>1, <1>4, <1>8 DEF IsDue, KindDue
  <2> QED
    BY <2>1, <2>2, <1>10
<1>12. \A i, j \in DOMAIN r : r[i].caller \in Caller /\ r[i].caller = r[j].caller => i = j
  <2> SUFFICES ASSUME NEW i \in DOMAIN r, NEW j \in DOMAIN r, r[i].caller \in Caller,
                      r[i].caller = r[j].caller
               PROVE  i = j
    OBVIOUS
  <2>1. \A k \in DOMAIN r : k \notin DOMAIN q => r[k].caller \in S
    BY <1>2, <1>4, <1>10
  <2>2. CASE i \in DOMAIN q /\ j \in DOMAIN q
    BY <2>2, <1>9 DEF Kept
  <2>3. CASE i \notin DOMAIN q /\ j \notin DOMAIN q
    <3>1. /\ i - Len(q) \in 1 .. n /\ r[i] = t[i - Len(q)]
          /\ j - Len(q) \in 1 .. n /\ r[j] = t[j - Len(q)]
      BY <2>3, <1>10
    <3>2. i - Len(q) = j - Len(q)
      BY <3>1, <1>2, <1>4
    <3> QED
      BY <3>2, <1>1, <1>7
  <2> QED
    BY <2>1, <2>2, <2>3, <1>9
<1>13. \A c \in Caller : IsDue(g[c]) => \E i \in DOMAIN r : r[i].caller = c
  <2> SUFFICES ASSUME NEW c \in Caller, IsDue(g[c]) PROVE \E i \in DOMAIN r : r[i].caller = c
    OBVIOUS
  <2>1. CASE c \in S
    <3>1. PICK i \in 1 .. n : s[i] = c
      BY <2>1, <1>2
    <3> QED
      BY <3>1, <1>4, <1>9
  <2>2. CASE c \notin S
    <3>1. PICK i \in DOMAIN q : q[i].caller = c
      BY <2>2, <1>8 DEF Kept
    <3> QED
      BY <3>1, <1>9
  <2> QED
    BY <2>1, <2>2
<1> QED
  BY <1>5, <1>11, <1>12, <1>13 DEF Kept, t, r, g

\* The batch and the next one are one queue: a handle leaves it at its head and enters it
\* at its end.
LEMMA OneQueue ==
  ASSUME NEW b \in Seq(Handles), NEW r \in Seq(Handles)
  PROVE  /\ b \o r \in Seq(Handles)
         /\ \A h \in Handles : b \o Append(r, h) = Append(b \o r, h)
         /\ b # <<>> => /\ b \o r # <<>> /\ Head(b \o r) = Head(b)
                        /\ Tail(b) \in Seq(Handles) /\ Tail(b) \o r = Tail(b \o r)
<1>1. b \o r \in Seq(Handles)
  BY ConcatProperties
<1>2. ASSUME NEW h \in Handles PROVE b \o Append(r, h) = Append(b \o r, h)
  <2>1. <<h>> \in Seq(Handles)
    OBVIOUS
  <2>2. Append(r, h) = r \o <<h>> /\ Append(b \o r, h) = (b \o r) \o <<h>>
    BY <1>1, AppendIsConcat
  <2> QED
    BY <2>1, <2>2, ConcatAssociative
<1>3. ASSUME b # <<>>
      PROVE  /\ b \o r # <<>> /\ Head(b \o r) = Head(b)
             /\ Tail(b) \in Seq(Handles) /\ Tail(b) \o r = Tail(b \o r)
  <2>0. Len(b) \in Nat /\ Len(r) \in Nat /\ Len(b) >= 1
    BY <1>3, EmptySeq, LenProperties
  <2>1. /\ Len(b \o r) = Len(b) + Len(r)
        /\ \A i \in 1 .. Len(b) + Len(r) : (b \o r)[i] = IF i <= Len(b) THEN b[i] ELSE r[i - Len(b)]
    BY ConcatProperties
  <2>2. b \o r # <<>> /\ Head(b \o r) = Head(b)
    BY <2>0, <2>1, <1>1
  <2>3. /\ Tail(b) \in Seq(Handles) /\ Len(Tail(b)) = Len(b) - 1
        /\ \A i \in 1 .. Len(Tail(b)) : Tail(b)[i] = b[i + 1]
    BY <1>3, HeadTailProperties
  <2>4. /\ Tail(b \o r) \in Seq(Handles) /\ Len(Tail(b \o r)) = Len(b \o r) - 1
        /\ \A i \in 1 .. Len(Tail(b \o r)) : Tail(b \o r)[i] = (b \o r)[i + 1]
    BY <1>1, <2>2, HeadTailProperties
  <2>5. /\ Tail(b) \o r \in Seq(Handles) /\ Len(Tail(b) \o r) = Len(Tail(b)) + Len(r)
        /\ \A i \in 1 .. Len(Tail(b)) + Len(r) :
             (Tail(b) \o r)[i] = IF i <= Len(Tail(b)) THEN Tail(b)[i] ELSE r[i - Len(Tail(b))]
    BY <2>3, ConcatProperties
  <2>6. Len(Tail(b) \o r) = Len(Tail(b \o r))
    BY <2>0, <2>1, <2>3, <2>4, <2>5
  <2>7. \A i \in 1 .. Len(Tail(b) \o r) : (Tail(b) \o r)[i] = Tail(b \o r)[i]
    <3> SUFFICES ASSUME NEW i \in 1 .. Len(Tail(b) \o r)
                 PROVE  (Tail(b) \o r)[i] = Tail(b \o r)[i]
      OBVIOUS
    <3>1. Tail(b \o r)[i] = (b \o r)[i + 1]
      BY <2>4, <2>6
    <3>2. i \in Nat /\ i + 1 \in 1 .. Len(b) + Len(r) /\ i \in 1 .. Len(Tail(b)) + Len(r)
      BY <2>0, <2>3, <2>5
    <3>3. CASE i <= Len(b) - 1
      <4>1. Tail(b)[i] = b[i + 1] /\ i + 1 <= Len(b) /\ i <= Len(Tail(b))
        BY <2>0, <2>3, <3>2, <3>3
      <4> QED
        BY <2>1, <2>5, <3>1, <3>2, <4>1
    <3>4. CASE ~(i <= Len(b) - 1)
      <4>1. ~(i + 1 <= Len(b)) /\ ~(i <= Len(Tail(b))) /\ i + 1 - Len(b) = i - Len(Tail(b))
        BY <2>0, <2>3, <3>2, <3>4
      <4> QED
        BY <2>1, <2>5, <3>1, <3>2, <4>1
    <3> QED
      BY <3>3, <3>4
  <2>8. Tail(b) \o r = Tail(b \o r)
    BY <2>4, <2>5, <2>6, <2>7, SeqEqual
  <2> QED
    BY <2>2, <2>3, <2>8
<1> QED
  BY <1>1, <1>2, <1>3

HasStop(q) == \E i \in DOMAIN q : q[i].kind = "stop"

\* A stop in the queue was there before or has just been added.
LEMMA StopsAdded ==
  ASSUME NEW q \in Seq(Handles)
  PROVE  /\ \A h \in Handles : HasStop(Append(q, h)) => HasStop(q) \/ h.kind = "stop"
         /\ q # <<>> => (HasStop(Tail(q)) => HasStop(q)) /\ (Head(q).kind = "stop" => HasStop(q))
<1>1. ASSUME NEW h \in Handles, HasStop(Append(q, h)) PROVE HasStop(q) \/ h.kind = "stop"
  <2>1. /\ Append(q, h) \in Seq(Handles) /\ Len(Append(q, h)) = Len(q) + 1
        /\ \A i \in 1 .. Len(q) : Append(q, h)[i] = q[i]
        /\ Append(q, h)[Len(q) + 1] = h
    BY AppendProperties
  <2>2. Len(q) \in Nat /\ DOMAIN q = 1 .. Len(q) /\ DOMAIN Append(q, h) = 1 .. Len(q) + 1
    BY <2>1, LenProperties
  <2>3. PICK i \in DOMAIN Append(q, h) : Append(q, h)[i].kind = "stop"
    BY <1>1 DEF HasStop
  <2>4. CASE i = Len(q) + 1
    BY <2>1, <2>3, <2>4
  <2>5. CASE i \in 1 .. Len(q)
    BY <2>1, <2>2, <2>3, <2>5 DEF HasStop
  <2> QED
    BY <2>2, <2>4, <2>5
<1>2. ASSUME q # <<>> PROVE (HasStop(Tail(q)) => HasStop(q)) /\ (Head(q).kind = "stop" => HasStop(q))
  <2>1. /\ Tail(q) \in Seq(Handles) /\ Len(Tail(q)) = Len(q) - 1
        /\ \A i \in 1 .. Len(Tail(q)) : Tail(q)[i] = q[i + 1]
    BY <1>2, HeadTailProperties
  <2>2. /\ Len(q) \in Nat /\ Len(q) >= 1 /\ DOMAIN q = 1 .. Len(q)
        /\ DOMAIN Tail(q) = 1 .. Len(q) - 1
    BY <1>2, <2>1, EmptySeq, LenProperties
  <2>3. \A i \in DOMAIN Tail(q) : i + 1 \in DOMAIN q /\ Tail(q)[i] = q[i + 1]
    BY <2>1, <2>2
  <2>4. 1 \in DOMAIN q /\ Head(q) = q[1]
    BY <2>2
  <2> QED
    BY <2>3, <2>4 DEF HasStop
<1> QED
  BY <1>1, <1>2

\* A stop of a longer queue is in one of its parts.
LEMMA StopsJoined ==
  ASSUME NEW q \in Seq(Handles), NEW t \in Seq(Handles), HasStop(q \o t)
  PROVE  HasStop(q) \/ HasStop(t)
<1>1. /\ q \o t \in Seq(Handles) /\ Len(q \o t) = Len(q) + Len(t)
      /\ \A i \in 1 .. Len(q) + Len(t) : (q \o t)[i] = IF i <= Len(q) THEN q[i] ELSE t[i - Len(q)]
  BY ConcatProperties
<1>2. /\ Len(q) \in Nat /\ Len(t) \in Nat
      /\ DOMAIN q = 1 .. Len(q) /\ DOMAIN t = 1 .. Len(t)
      /\ DOMAIN (q \o t) = 1 .. Len(q) + Len(t)
  BY <1>1, LenProperties
<1>3. PICK i \in DOMAIN (q \o t) : (q \o t)[i].kind = "stop"
  BY DEF HasStop
<1>4. CASE i <= Len(q)
  <2>1. i \in DOMAIN q /\ q[i].kind = "stop"
    BY <1>1, <1>2, <1>3, <1>4
  <2> QED
    BY <2>1 DEF HasStop
<1>5. CASE ~(i <= Len(q))
  <2>1. i - Len(q) \in DOMAIN t /\ t[i - Len(q)].kind = "stop"
    BY <1>1, <1>2, <1>3, <1>5
  <2> QED
    BY <2>1 DEF HasStop
<1> QED
  BY <1>4, <1>5

-----------------------------------------------------------------------------
(* The runner                                                                *)

\* While the loop lives, its queue is kept.
QueueKept == loop # "closed" => Kept(Queue, call)

\* WakeupsAreKept, before and after a step.
LEMMA WakeupsKept ==
  /\ RunnerTypeOK => (WakeupsAreKept <=> QueueKept)
  /\ RunnerTypeOK' => (WakeupsAreKept' <=> QueueKept')
<1>1. \A q \in Seq(Handles), f \in [Caller -> CallState] :
        Kept(q, f) <=>
          \A c \in Caller :
            IF IsDue(f[c])
            THEN \E i \in {j \in DOMAIN q : q[j].caller = c} :
                   {j \in DOMAIN q : q[j].caller = c} = {i} /\ q[i].kind = KindDue(f[c])
            ELSE {j \in DOMAIN q : q[j].caller = c} = {}
  BY KeptIsKept
<1>2. ASSUME RunnerTypeOK PROVE WakeupsAreKept <=> QueueKept
  <2>1. Queue \in Seq(Handles) /\ call \in [Caller -> CallState]
    BY <1>2, OneQueue DEF RunnerTypeOK, Queue
  <2>2. \A c \in Caller : /\ Waiting(c) /\ call[c] # "suspended" <=> IsDue(call[c])
                          /\ IsDue(call[c]) => Due(c) = KindDue(call[c])
    BY <2>1 DEF Waiting, IsDue, Due, KindDue
  <2> QED
    BY <1>1, <2>1, <2>2 DEF WakeupsAreKept, QueueKept, HandlesOf
<1>3. ASSUME RunnerTypeOK' PROVE WakeupsAreKept' <=> QueueKept'
  <2>1. Queue' \in Seq(Handles) /\ call' \in [Caller -> CallState]
    BY <1>3, OneQueue DEF RunnerTypeOK, Queue
  <2>2. \A c \in Caller : /\ Waiting(c)' /\ call'[c] # "suspended" <=> IsDue(call'[c])
                          /\ IsDue(call'[c]) => Due(c)' = KindDue(call'[c])
    BY <2>1 DEF Waiting, IsDue, Due, KindDue
  <2> QED
    BY <1>1, <2>1, <2>2 DEF WakeupsAreKept, QueueKept, HandlesOf
<1> QED
  BY <1>2, <1>3

\* The runner's invariant over the one queue.
RunnerOK == RunnerTypeOK /\ CloseOrder /\ StopOrder /\ QueueKept

\* What is known of the state before a step.
LEMMA RunnerFacts ==
  ASSUME RunnerOK
  PROVE  /\ call \in [Caller -> CallState] /\ outcome \in [Caller -> Outcome]
         /\ batch \in Seq(Handles) /\ ready \in Seq(Handles) /\ Queue \in Seq(Handles)
         /\ gathered \subseteq Caller
         /\ gathered # {} \/ HasStop(Queue) => closer \in {"joining", "closed"}
         /\ loop # "closed" => Kept(Queue, call)
BY OneQueue DEF RunnerOK, RunnerTypeOK, Queue, StopOrder, HasStop, QueueKept

\* A handle put at the end of the queue.
LEMMA QueueGrows ==
  ASSUME RunnerOK, NEW h \in Handles, ready' = Append(ready, h), batch' = batch
  PROVE  /\ ready' \in Seq(Handles)
         /\ Queue' = Append(Queue, h)
         /\ HasStop(Queue') => HasStop(Queue) \/ h.kind = "stop"
<1>1. ready' \in Seq(Handles)
  BY RunnerFacts, AppendProperties
<1>2. Queue' = Append(Queue, h)
  BY RunnerFacts, OneQueue DEF Queue
<1> QED
  BY <1>1, <1>2, RunnerFacts, StopsAdded

\* A step of a thread that calls run, or the end of what its coroutine awaits.
LEMMA CallerKeeps ==
  ASSUME RunnerOK, NEW c \in Caller, Check(c) \/ Submit(c) \/ Wake(c)
  PROVE  RunnerOK'
<1>0. UNCHANGED <<closed, closer, loop, stopping, batch, gathered>>
  BY DEF Check, Submit, Wake, loopVars
<1>1. ASSUME NEW s \in CallState, Moves(c, s), outcome' \in [Caller -> Outcome],
             \/ ready' = ready /\ (loop # "closed" => ~IsDue(call[c]) /\ ~IsDue(s))
             \/ /\ loop # "closed" /\ ~IsDue(call[c]) /\ IsDue(s)
                /\ ready' = Append(ready, Handle(KindDue(s), c))
      PROVE  RunnerOK'
  <2>1. call' = [call EXCEPT ![c] = s] /\ call' \in [Caller -> CallState]
    BY <1>1, RunnerFacts DEF Moves
  <2>2. CASE ready' = ready /\ (loop # "closed" => ~IsDue(call[c]) /\ ~IsDue(s))
    <3>1. Queue' = Queue
      BY <1>0, <2>2 DEF Queue
    <3>2. RunnerTypeOK'
      BY <1>0, <1>1, <2>1, <2>2 DEF RunnerOK, RunnerTypeOK
    <3>3. CloseOrder' /\ StopOrder'
      BY <1>0, <3>1 DEF RunnerOK, CloseOrder, StopOrder
    <3>4. QueueKept'
      BY <1>0, <2>1, <2>2, <3>1, RunnerFacts, KeptIdle DEF QueueKept
    <3> QED
      BY <3>2, <3>3, <3>4 DEF RunnerOK
  <2>3. CASE /\ loop # "closed" /\ ~IsDue(call[c]) /\ IsDue(s)
             /\ ready' = Append(ready, Handle(KindDue(s), c))
    <3>0. Handle(KindDue(s), c) \in Handles /\ Handle(KindDue(s), c).kind # "stop"
      BY HandleFacts DEF KindDue
    <3>1. /\ ready' \in Seq(Handles)
          /\ Queue' = Append(Queue, Handle(KindDue(s), c))
          /\ HasStop(Queue') => HasStop(Queue)
      BY <1>0, <2>3, <3>0, QueueGrows
    <3>2. RunnerTypeOK'
      BY <1>0, <1>1, <2>1, <3>1 DEF RunnerOK, RunnerTypeOK
    <3>3. CloseOrder' /\ StopOrder'
      BY <1>0, <3>1 DEF RunnerOK, CloseOrder, StopOrder, HasStop
    <3>4. QueueKept'
      BY <1>0, <2>1, <2>3, <3>1, RunnerFacts, KeptAppend DEF QueueKept
    <3> QED
      BY <3>2, <3>3, <3>4 DEF RunnerOK
  <2> QED
    BY <1>1, <2>2, <2>3
<1>2. ASSUME call' = call, outcome' \in [Caller -> Outcome], ready' = ready PROVE RunnerOK'
  <2>1. Queue' = Queue
    BY <1>0, <1>2 DEF Queue
  <2> QED
    BY <1>0, <1>2, <2>1 DEF RunnerOK, RunnerTypeOK, CloseOrder, StopOrder, QueueKept
<1>3. \A o \in Outcome : Outcomes(c, o) => outcome' \in [Caller -> Outcome]
  BY RunnerFacts DEF Outcomes
<1>4. CASE Check(c)
  BY <1>1, <1>2, <1>3, <1>4 DEF Check, loopVars, CallState, Outcome, IsDue
<1>5. CASE Submit(c)
  BY <1>1, <1>3, <1>5, RunnerFacts DEF Submit, CallState, Outcome, IsDue, KindDue
<1>6. CASE Wake(c)
  BY <1>1, <1>6, RunnerFacts DEF Wake, CallState, IsDue, KindDue
<1> QED
  BY <1>4, <1>5, <1>6

\* The handle whose turn it is belongs to a call that is due for it.
LEMMA TurnFacts ==
  ASSUME RunnerOK, NEW k \in {"submit", "step", "tell"}, TurnOf(k)
  PROVE  /\ Current \in Caller /\ Kept(Queue, call)
         /\ IsDue(call[Current]) /\ KindDue(call[Current]) = k
         /\ Queue # <<>> /\ Head(Queue).caller = Current
         /\ Tail(batch) \in Seq(Handles) /\ Tail(batch) \o ready = Tail(Queue)
         /\ Tail(Queue) \in Seq(Handles)
<1>1. batch \in Seq(Handles) /\ ready \in Seq(Handles) /\ Queue \in Seq(Handles) /\ Kept(Queue, call)
  BY RunnerFacts DEF TurnOf
<1>2. batch # <<>> /\ Head(batch).kind = k
  BY DEF TurnOf
<1>3. /\ Queue # <<>> /\ Head(Queue) = Head(batch)
      /\ Tail(batch) \in Seq(Handles) /\ Tail(batch) \o ready = Tail(Queue)
  BY <1>1, <1>2, OneQueue DEF Queue
<1>4. Head(batch) \in Handles /\ Tail(Queue) \in Seq(Handles)
  BY <1>1, <1>2, <1>3, HeadTailProperties
<1>5. Current \in Caller
  BY <1>2, <1>4, HandleFacts DEF Current
<1>6. 1 \in DOMAIN Queue /\ Queue[1] = Head(Queue)
  BY <1>1, <1>3, EmptySeq, LenProperties
<1>7. IsDue(call[Current]) /\ KindDue(call[Current]) = k
  BY <1>1, <1>2, <1>3, <1>5, <1>6 DEF Kept, Current
<1> QED
  BY <1>1, <1>3, <1>4, <1>5, <1>7 DEF Current

\* A turn that queues a handle takes the head of the queue and adds to its end.
LEMMA TurnQueues ==
  ASSUME RunnerOK, NEW k \in {"submit", "step", "tell"}, TurnOf(k), NEW h \in Handles,
         batch' = Tail(batch), ready' = Append(ready, h)
  PROVE  Queue' = Append(Tail(Queue), h)
<1>1. /\ Tail(batch) \in Seq(Handles) /\ ready \in Seq(Handles)
      /\ Tail(batch) \o ready = Tail(Queue)
  BY TurnFacts, RunnerFacts
<1>2. PICK b \in Seq(Handles) : b = Tail(batch)
  BY <1>1
<1>3. b \o Append(ready, h) = Append(b \o ready, h)
  BY <1>1, OneQueue
<1>4. Queue' = Tail(batch) \o Append(ready, h)
  BY DEF Queue
<1> QED
  BY <1>1, <1>2, <1>3, <1>4

\* A turn takes the call on: it is due no longer, or for the handle that is added.
LEMMA TurnKeeps ==
  ASSUME RunnerOK, NEW k \in {"submit", "step", "tell"}, TurnOf(k),
         NEW s \in CallState, Moves(Current, s), outcome' \in [Caller -> Outcome],
         batch' = Tail(batch), gathered' \subseteq gathered,
         UNCHANGED <<closed, closer, loop, stopping>>,
         \/ ~IsDue(s) /\ ready' = ready
         \/ ~IsDue(s) /\ gathered # {} /\ ready' = Append(ready, Handle("stop", NoCaller))
         \/ IsDue(s) /\ ready' = Append(ready, Handle(KindDue(s), Current))
  PROVE  RunnerOK'
<1> DEFINE f == [call EXCEPT ![Current] = "out"]
           g == [call EXCEPT ![Current] = s]
<1>0. /\ Current \in Caller /\ Kept(Queue, call)
      /\ Queue # <<>> /\ Head(Queue).caller = Current
      /\ Tail(batch) \in Seq(Handles) /\ Tail(batch) \o ready = Tail(Queue)
      /\ Queue \in Seq(Handles) /\ Tail(Queue) \in Seq(Handles)
      /\ ready \in Seq(Handles) /\ call \in [Caller -> CallState]
  BY TurnFacts, RunnerFacts
<1>1. call' = g /\ call' \in [Caller -> CallState]
  BY <1>0 DEF Moves
<1>2. HasStop(Tail(Queue)) => HasStop(Queue)
  BY <1>0, StopsAdded
<1>3. CloseOrder'
  BY DEF RunnerOK, CloseOrder
<1>4. ASSUME ready' \in Seq(Handles) PROVE RunnerTypeOK'
  BY <1>0, <1>1, <1>4 DEF RunnerOK, RunnerTypeOK
<1>5. gathered # {} \/ HasStop(Queue) => closer \in {"joining", "closed"}
  BY RunnerFacts
<1>6. CASE ~IsDue(s) /\ ready' = ready
  <2>1. Queue' = Tail(Queue)
    BY <1>0, <1>6 DEF Queue
  <2>2. Kept(Tail(Queue), g)
    BY <1>0, <1>6, KeptTail
  <2>3. StopOrder'
    BY <1>2, <1>5, <2>1 DEF StopOrder, HasStop
  <2> QED
    BY <1>0, <1>1, <1>3, <1>4, <1>6, <2>1, <2>2, <2>3 DEF RunnerOK, QueueKept
<1>7. CASE ~IsDue(s) /\ gathered # {} /\ ready' = Append(ready, Handle("stop", NoCaller))
  <2>0. Handle("stop", NoCaller) \in Handles
    BY HandleFacts
  <2>1. Queue' = Append(Tail(Queue), Handle("stop", NoCaller)) /\ ready' \in Seq(Handles)
    <3>1. ready' \in Seq(Handles)
      BY <1>0, <1>7, <2>0, AppendProperties
    <3>2. Queue' = Append(Tail(Queue), Handle("stop", NoCaller))
      BY <1>7, <2>0, TurnQueues
    <3> QED
      BY <3>1, <3>2
  <2>2. Kept(Tail(Queue), g)
    BY <1>0, <1>7, KeptTail
  <2>3. Kept(Append(Tail(Queue), Handle("stop", NoCaller)), g)
    BY <1>0, <1>1, <2>2, KeptStop
  <2>4. StopOrder'
    BY <1>5, <1>7 DEF StopOrder
  <2> QED
    BY <1>1, <1>3, <1>4, <2>1, <2>3, <2>4 DEF RunnerOK, QueueKept
<1>8. CASE IsDue(s) /\ ready' = Append(ready, Handle(KindDue(s), Current))
  <2> DEFINE h == Handle(KindDue(s), Current)
  <2>0. h \in Handles /\ h.kind # "stop"
    BY <1>0, HandleFacts DEF KindDue
  <2>1. Queue' = Append(Tail(Queue), h) /\ ready' \in Seq(Handles)
    <3>1. ready' \in Seq(Handles)
      BY <1>0, <1>8, <2>0, AppendProperties
    <3> HIDE DEF h
    <3>2. Queue' = Append(Tail(Queue), h)
      BY <1>8, <2>0, TurnQueues DEF h
    <3> QED
      BY <3>1, <3>2
  <2>2. f \in [Caller -> CallState] /\ ~IsDue(f[Current]) /\ [f EXCEPT ![Current] = s] = g
    BY <1>0 DEF CallState, IsDue
  <2>3. Kept(Tail(Queue), f)
    BY <1>0, KeptTail DEF CallState, IsDue
  <2> HIDE DEF f
  <2>4. Kept(Append(Tail(Queue), h), g)
    <3>1. Kept(Append(Tail(Queue), h), [f EXCEPT ![Current] = s])
      BY <1>0, <1>8, <2>2, <2>3, KeptAppend
    <3> QED
      BY <2>2, <3>1
  <2>5. StopOrder'
    <3>1. HasStop(Queue') => HasStop(Queue)
      BY <1>0, <1>2, <2>0, <2>1, StopsAdded
    <3> QED
      BY <1>5, <3>1 DEF StopOrder, HasStop
  <2> QED
    BY <1>1, <1>3, <1>4, <2>1, <2>4, <2>5 DEF RunnerOK, QueueKept
<1> QED
  BY <1>6, <1>7, <1>8

\* The stop ends its batch.
LEMMA RunStopKeeps ==
  ASSUME RunnerOK, RunStop
  PROVE  RunnerOK'
<1>1. /\ batch \in Seq(Handles) /\ ready \in Seq(Handles) /\ Queue \in Seq(Handles)
      /\ call \in [Caller -> CallState] /\ Kept(Queue, call)
      /\ batch # <<>> /\ Head(batch).kind = "stop"
  BY RunnerFacts DEF RunStop, TurnOf
<1>2. /\ Queue # <<>> /\ Head(Queue) = Head(batch)
      /\ Tail(batch) \in Seq(Handles) /\ Tail(batch) \o ready = Tail(Queue)
  BY <1>1, OneQueue DEF Queue
<1>3. Head(Queue).caller \notin Caller
  BY <1>1, <1>2, HeadTailProperties, HandleFacts
<1>4. Queue' = Tail(Queue)
  BY <1>2 DEF RunStop, Queue
<1>5. (HasStop(Tail(Queue)) => HasStop(Queue)) /\ HasStop(Queue)
  BY <1>1, <1>2, StopsAdded
<1>6. closer \in {"joining", "closed"}
  BY <1>5, RunnerFacts
<1>7. Kept(Tail(Queue), call)
  BY <1>1, <1>2, <1>3, KeptTailStop
<1>8. RunnerTypeOK'
  BY <1>2 DEF RunStop, RunnerOK, RunnerTypeOK
<1>9. CloseOrder' /\ StopOrder' /\ QueueKept'
  BY <1>4, <1>6, <1>7 DEF RunStop, RunnerOK, CloseOrder, StopOrder, QueueKept
<1> QED
  BY <1>8, <1>9 DEF RunnerOK

\* The loop is closed; what was queued is lost.
LEMMA CloseLoopKeeps ==
  ASSUME RunnerOK, CloseLoop, stopping, batch = <<>>, UNCHANGED <<outcome, closed, closer, batch>>
  PROVE  RunnerOK'
<1>1. RunnerTypeOK'
  BY DEF RunnerOK, RunnerTypeOK, CloseLoop
<1>2. closer \in {"joining", "closed"}
  BY DEF RunnerOK, CloseOrder
<1>3. CloseOrder' /\ StopOrder' /\ QueueKept'
  BY <1>2 DEF RunnerOK, CloseOrder, StopOrder, QueueKept, CloseLoop
<1> QED
  BY <1>1, <1>3 DEF RunnerOK

\* The tasks that await are cancelled.
LEMMA LeaveForeverKeeps ==
  ASSUME RunnerOK, LeaveForever
  PROVE  RunnerOK'
<1>1. CASE Pending = {} /\ CloseLoop
  BY <1>1, CloseLoopKeeps DEF LeaveForever, StopsHere
<1>2. ASSUME NEW s \in Orders({c \in Pending : call[c] = "suspended"}), Pending # {},
             ready' = ready \o [i \in 1 .. Len(s) |-> Handle("step", s[i])],
             call' = [c \in Caller |-> IF call[c] = "suspended" THEN "woken" ELSE call[c]],
             gathered' = Pending, loop' = "draining", stopping' = FALSE
      PROVE  RunnerOK'
  <2> DEFINE t == [i \in 1 .. Len(s) |-> Handle("step", s[i])]
  <2>0. /\ UNCHANGED <<outcome, closed, closer, batch>>
        /\ loop = "running" /\ stopping /\ batch = <<>>
    BY DEF LeaveForever, StopsHere
  <2>1. {c \in Pending : call[c] = "suspended"} = {c \in Caller : call[c] = "suspended"}
    BY DEF Pending
  <2>2. /\ call \in [Caller -> CallState] /\ ready \in Seq(Handles) /\ Queue \in Seq(Handles)
        /\ batch \in Seq(Handles) /\ Kept(Queue, call)
    BY <2>0, RunnerFacts
  <2>3. t \in Seq(Handles) /\ Kept(Queue \o t, call')
    <3> DEFINE S == {c \in Caller : call[c] = "suspended"}
               g == [c \in Caller |-> IF call[c] = "suspended" THEN "woken" ELSE call[c]]
    <3>1. s \in Orders(S)
      BY <2>1
    <3>2. t \in Seq(Handles) /\ Kept(Queue \o t, g)
      <4> HIDE DEF g
      <4> QED
        BY <2>2, <3>1, KeptCancelled DEF g
    <3> QED
      BY <1>2, <3>2
  <2> HIDE DEF t
  <2>4. Queue' = Queue \o t /\ ready' \in Seq(Handles)
    BY <1>2, <2>0, <2>2, <2>3, ConcatAssociative, ConcatProperties DEF Queue, t
  <2>5. closer \in {"joining", "closed"}
    BY <2>0 DEF RunnerOK, CloseOrder
  <2>6. RunnerTypeOK'
    BY <1>2, <2>0, <2>2, <2>4 DEF RunnerOK, RunnerTypeOK, Pending, CallState
  <2>7. CloseOrder' /\ StopOrder' /\ QueueKept'
    BY <1>2, <2>0, <2>3, <2>4, <2>5 DEF RunnerOK, CloseOrder, StopOrder, QueueKept
  <2> QED
    BY <2>6, <2>7 DEF RunnerOK
<1> QED
  BY <1>1, <1>2 DEF LeaveForever

\* A step of the loop.
LEMMA LoopKeeps ==
  ASSUME RunnerOK, LoopStep
  PROVE  RunnerOK'
<1>0. \A o \in Outcome : Outcomes(Current, o) => outcome' \in [Caller -> Outcome]
  BY RunnerFacts DEF Outcomes
<1>1. CASE BeginBatch
  <2>1. Queue' = Queue
    BY <1>1, RunnerFacts, ConcatEmptySeq DEF BeginBatch, Queue
  <2> QED
    BY <1>1, <2>1 DEF BeginBatch, RunnerOK, RunnerTypeOK, CloseOrder, StopOrder, QueueKept
<1>2. CASE RunSubmit
  BY <1>2, RunnerFacts, TurnKeeps DEF RunSubmit, CallState, IsDue, KindDue
<1>3. CASE Await
  BY <1>3, RunnerFacts, TurnKeeps DEF Await, CallState, IsDue
<1>4. CASE EndTask
  BY <1>0, <1>4, TurnKeeps DEF EndTask, CallState, IsDue, KindDue, Outcome
<1>5. CASE Tell
  BY <1>5, RunnerFacts, TurnKeeps DEF Tell, CallState, IsDue
<1>6. CASE RunStop
  BY <1>6, RunStopKeeps
<1>7. CASE LeaveForever
  BY <1>7, LeaveForeverKeeps
<1>8. CASE LeaveDrained
  BY <1>8, CloseLoopKeeps DEF LeaveDrained
<1> QED
  BY <1>1, <1>2, <1>3, <1>4, <1>5, <1>6, <1>7, <1>8 DEF LoopStep

\* A step of close.
LEMMA CloseKeeps ==
  ASSUME RunnerOK, CloseFlag \/ CloseStep
  PROVE  RunnerOK'
<1>1. CASE CloseFlag
  BY <1>1 DEF CloseFlag, loopVars, RunnerOK, RunnerTypeOK, CloseOrder, StopOrder, QueueKept, Queue
<1>2. CASE CloseJoin
  BY <1>2 DEF CloseJoin, loopVars, RunnerOK, RunnerTypeOK, CloseOrder, StopOrder, QueueKept, Queue
<1>3. CASE CloseStop
  <2>0. Handle("stop", NoCaller) \in Handles
    BY HandleFacts
  <2>1. ready' \in Seq(Handles) /\ Queue' = Append(Queue, Handle("stop", NoCaller))
    BY <1>3, <2>0, QueueGrows DEF CloseStop
  <2>2. RunnerTypeOK' /\ CloseOrder' /\ StopOrder'
    BY <1>3, <2>1 DEF CloseStop, RunnerOK, RunnerTypeOK, CloseOrder, StopOrder
  <2>3. QueueKept'
    BY <1>3, <2>1, RunnerFacts, KeptStop DEF CloseStop, QueueKept
  <2> QED
    BY <2>2, <2>3 DEF RunnerOK
<1> QED
  BY <1>1, <1>2, <1>3 DEF CloseStep

\* Every step of the threads, the loop and close keeps the runner's invariant.
LEMMA RunnerKeeps ==
  ASSUME RunnerInv, [RunnerNext]_runnerVars
  PROVE  RunnerInv'
<1>1. RunnerOK
  BY WakeupsKept DEF RunnerInv, RunnerOK
<1>2. ASSUME RunnerNext PROVE RunnerOK'
  BY <1>1, <1>2, CallerKeeps, LoopKeeps, CloseKeeps DEF RunnerNext
<1>3. ASSUME UNCHANGED runnerVars PROVE RunnerOK'
  BY <1>1, <1>3 DEF runnerVars, loopVars, RunnerOK, RunnerTypeOK, CloseOrder, StopOrder,
     QueueKept, Queue
<1>4. RunnerOK'
  BY <1>2, <1>3
<1> QED
  BY <1>4, WakeupsKept DEF RunnerInv, RunnerOK

\* The loop starts with an empty queue.
LEMMA RunnerStarts == RunnerInit => RunnerInv
<1> SUFFICES ASSUME RunnerInit PROVE RunnerInv
  OBVIOUS
<1>1. Queue = <<>> /\ <<>> \in Seq(Handles)
  BY EmptySeq, ConcatEmptySeq DEF RunnerInit, Queue
<1>2. DOMAIN Queue = {}
  BY <1>1
<1>3. RunnerTypeOK /\ CloseOrder /\ StopOrder
  BY <1>1, <1>2 DEF RunnerInit, RunnerTypeOK, CloseOrder, StopOrder, CallState, Outcome
<1>4. QueueKept
  BY <1>2 DEF RunnerInit, QueueKept, Kept, IsDue
<1> QED
  BY <1>3, <1>4, WakeupsKept DEF RunnerInv

\* The runner by itself keeps every wakeup, whoever calls it and whenever it is closed.
THEOREM RunnerKeepsWakeups == RunnerSpec => []WakeupsAreKept
<1>1. RunnerInv /\ [RunnerNext]_runnerVars => RunnerInv'
  BY RunnerKeeps
<1>2. RunnerInv => WakeupsAreKept
  BY DEF RunnerInv
<1> QED
  BY <1>1, <1>2, RunnerStarts, PTL DEF RunnerSpec

-----------------------------------------------------------------------------
(* The draining                                                              *)

OneStop(q) == \A i, j \in DOMAIN q : q[i].kind = "stop" /\ q[j].kind = "stop" => i = j

\* close queues one stop; once it has run, the loop leaves run_forever without another.
\* The cancelled tasks it then waits for are on their way, and nothing stops the loop
\* again while there are any.
Draining ==
  /\ loop # "draining" => gathered = {}
  /\ loop = "running" => OneStop(Queue)
  /\ loop = "running" /\ stopping => ~HasStop(Queue)
  /\ gathered # {} => ~stopping /\ ~HasStop(Queue)
  /\ \A c \in gathered : call[c] \in {"ready", "woken", "ended"}

\* A task the loop waits for no longer has ended, and its caller has been told.
LeavesTold == \A c \in gathered \ gathered' : call[c] = "ended" /\ call'[c] = "out"

\* How the number of stops in a queue changes.
LEMMA StopsCounted ==
  ASSUME NEW q \in Seq(Handles), OneStop(q)
  PROVE  /\ \A h \in Handles : h.kind # "stop" \/ ~HasStop(q) => OneStop(Append(q, h))
         /\ q # <<>> => /\ OneStop(Tail(q))
                        /\ Head(q).kind = "stop" => ~HasStop(Tail(q))
<1>1. ASSUME NEW h \in Handles, h.kind # "stop" \/ ~HasStop(q) PROVE OneStop(Append(q, h))
  <2>1. /\ Append(q, h) \in Seq(Handles) /\ Len(Append(q, h)) = Len(q) + 1
        /\ \A i \in 1 .. Len(q) : Append(q, h)[i] = q[i]
        /\ Append(q, h)[Len(q) + 1] = h
    BY AppendProperties
  <2>2. /\ Len(q) \in Nat /\ DOMAIN q = 1 .. Len(q)
        /\ DOMAIN Append(q, h) = DOMAIN q \cup {Len(q) + 1}
    BY <2>1, LenProperties
  <2>3. ASSUME NEW i \in DOMAIN Append(q, h), NEW j \in DOMAIN Append(q, h),
               Append(q, h)[i].kind = "stop", Append(q, h)[j].kind = "stop"
        PROVE  i = j
    <3>1. CASE i \in DOMAIN q /\ j \in DOMAIN q
      BY <2>1, <2>2, <2>3, <3>1 DEF OneStop
    <3>2. CASE i \in DOMAIN q /\ j = Len(q) + 1
      BY <1>1, <2>1, <2>2, <2>3, <3>2 DEF HasStop
    <3>3. CASE i = Len(q) + 1 /\ j \in DOMAIN q
      BY <1>1, <2>1, <2>2, <2>3, <3>3 DEF HasStop
    <3> QED
      BY <2>2, <3>1, <3>2, <3>3
  <2> QED
    BY <2>3 DEF OneStop
<1>2. ASSUME q # <<>>
      PROVE  OneStop(Tail(q)) /\ (Head(q).kind = "stop" => ~HasStop(Tail(q)))
  <2>1. /\ Tail(q) \in Seq(Handles) /\ Len(Tail(q)) = Len(q) - 1
        /\ \A i \in 1 .. Len(Tail(q)) : Tail(q)[i] = q[i + 1]
    BY <1>2, HeadTailProperties
  <2>2. /\ Len(q) \in Nat /\ Len(q) >= 1 /\ DOMAIN q = 1 .. Len(q)
        /\ DOMAIN Tail(q) = 1 .. Len(q) - 1
    BY <1>2, <2>1, EmptySeq, LenProperties
  <2>3. \A i \in DOMAIN Tail(q) : /\ i + 1 \in DOMAIN q /\ Tail(q)[i] = q[i + 1]
                                  /\ i \in Nat /\ i + 1 # 1
    BY <2>1, <2>2
  <2>4. 1 \in DOMAIN q /\ Head(q) = q[1]
    BY <2>2
  <2>5. ASSUME NEW i \in DOMAIN Tail(q), NEW j \in DOMAIN Tail(q),
               Tail(q)[i].kind = "stop", Tail(q)[j].kind = "stop"
        PROVE  i = j
    <3>1. i + 1 = j + 1
      BY <2>3, <2>5 DEF OneStop
    <3> QED
      BY <2>3, <3>1
  <2>6. OneStop(Tail(q))
    BY <2>5 DEF OneStop
  <2>7. Head(q).kind = "stop" => ~HasStop(Tail(q))
    BY <2>3, <2>4 DEF OneStop, HasStop
  <2> QED
    BY <2>6, <2>7
<1> QED
  BY <1>1, <1>2

\* A thread outside the gathered tasks moves, and may queue a handle that is no stop.
LEMMA CallerDrains ==
  ASSUME RunnerOK, Draining, NEW c \in Caller, Check(c) \/ Submit(c) \/ Wake(c)
  PROVE  Draining' /\ LeavesTold
<1>0. UNCHANGED <<closer, loop, stopping, batch, gathered>>
  BY DEF Check, Submit, Wake, loopVars
<1>1. call \in [Caller -> CallState] /\ gathered \subseteq Caller /\ Queue \in Seq(Handles)
  BY RunnerFacts
<1>2. c \notin gathered
  BY DEF Check, Submit, Wake, Draining
<1>3. \A k \in gathered : call'[k] = call[k]
  BY <1>1, <1>2 DEF Check, Submit, Wake, Moves
<1>4. \/ Queue' = Queue
      \/ \E h \in Handles : h.kind # "stop" /\ Queue' = Append(Queue, h)
  <2>1. Handle("submit", c) \in Handles /\ Handle("step", c) \in Handles
        /\ Handle("submit", c).kind # "stop" /\ Handle("step", c).kind # "stop"
    BY HandleFacts
  <2>2. ASSUME NEW h \in Handles, ready' = Append(ready, h) PROVE Queue' = Append(Queue, h)
    BY <1>0, <2>2, QueueGrows
  <2>3. ready' = ready => Queue' = Queue
    BY <1>0 DEF Queue
  <2> QED
    BY <2>1, <2>2, <2>3 DEF Check, Submit, Wake, loopVars
<1>5. HasStop(Queue') => HasStop(Queue)
  BY <1>1, <1>4, StopsAdded
<1>6. ASSUME OneStop(Queue) PROVE OneStop(Queue')
  BY <1>1, <1>4, <1>6, StopsCounted
<1> QED
  BY <1>0, <1>3, <1>5, <1>6 DEF Draining, LeavesTold

\* A turn that neither tells a caller nor stops the loop.
LEMMA TurnDrains ==
  ASSUME RunnerOK, Draining, RunSubmit \/ Await \/ EndTask
  PROVE  Draining' /\ LeavesTold
<1>0. UNCHANGED <<closer, loop, stopping, gathered>> /\ batch' = Tail(batch)
  BY DEF RunSubmit, Await, EndTask
<1>1. /\ call \in [Caller -> CallState] /\ gathered \subseteq Caller
      /\ Queue \in Seq(Handles) /\ ready \in Seq(Handles)
  BY RunnerFacts
<1>2. PICK k \in {"submit", "step"} : TurnOf(k)
  BY DEF RunSubmit, Await, EndTask
<1>3. /\ Current \in Caller /\ KindDue(call[Current]) = k
      /\ Queue # <<>> /\ Tail(batch) \in Seq(Handles)
      /\ Tail(batch) \o ready = Tail(Queue) /\ Tail(Queue) \in Seq(Handles)
  BY <1>2, TurnFacts
<1>4. \A c \in gathered : call'[c] \in {"ready", "woken", "ended"}
  <2>1. CASE RunSubmit
    <3>1. TurnOf("submit")
      BY <2>1 DEF RunSubmit
    <3>2. Current \in Caller /\ KindDue(call[Current]) = "submit"
      BY <3>1, TurnFacts
    <3> QED
      BY <1>1, <2>1, <3>2 DEF RunSubmit, Moves, Draining
  <2>2. CASE Await
    BY <1>1, <1>3, <2>2 DEF Await, Moves, Draining
  <2>3. CASE EndTask
    BY <1>1, <1>3, <2>3 DEF EndTask, Moves, Draining
  <2> QED
    BY <2>1, <2>2, <2>3
<1>5. \/ Queue' = Tail(Queue)
      \/ \E h \in Handles : h.kind # "stop" /\ Queue' = Append(Tail(Queue), h)
  <2>1. /\ Handle("step", Current) \in Handles /\ Handle("tell", Current) \in Handles
        /\ Handle("step", Current).kind # "stop" /\ Handle("tell", Current).kind # "stop"
    BY <1>3, HandleFacts
  <2>2. ASSUME NEW h \in Handles, ready' = Append(ready, h)
        PROVE  Queue' = Append(Tail(Queue), h)
    BY <1>0, <1>2, <2>2, TurnQueues
  <2>3. ready' = ready => Queue' = Tail(Queue)
    BY <1>0, <1>3 DEF Queue
  <2> QED
    BY <2>1, <2>2, <2>3 DEF RunSubmit, Await, EndTask
<1>6. HasStop(Queue') => HasStop(Queue)
  <2>1. HasStop(Tail(Queue)) => HasStop(Queue)
    BY <1>1, <1>3, StopsAdded
  <2>2. HasStop(Queue') => HasStop(Tail(Queue))
    BY <1>3, <1>5, StopsAdded
  <2> QED
    BY <2>1, <2>2
<1>7. ASSUME OneStop(Queue) PROVE OneStop(Queue')
  <2>1. OneStop(Tail(Queue))
    BY <1>1, <1>3, <1>7, StopsCounted
  <2> QED
    BY <1>3, <1>5, <2>1, StopsCounted
<1> QED
  BY <1>0, <1>4, <1>6, <1>7 DEF Draining, LeavesTold

\* The caller of a task that has ended is told; after the last of the gathered tasks the
\* loop is to stop again.
LEMMA TellDrains ==
  ASSUME RunnerOK, Draining, Tell
  PROVE  Draining' /\ LeavesTold
<1>1. /\ call \in [Caller -> CallState] /\ gathered \subseteq Caller
      /\ Queue \in Seq(Handles) /\ ready \in Seq(Handles)
  BY RunnerFacts
<1>2. TurnOf("tell") /\ UNCHANGED <<closer, loop, stopping>> /\ batch' = Tail(batch)
  BY DEF Tell
<1>3. /\ Current \in Caller /\ KindDue(call[Current]) = "tell"
      /\ Queue # <<>> /\ Tail(batch) \in Seq(Handles)
      /\ Tail(batch) \o ready = Tail(Queue) /\ Tail(Queue) \in Seq(Handles)
  BY <1>2, TurnFacts
<1>4. call[Current] = "ended"
  BY <1>3 DEF KindDue
<1>5. /\ call'[Current] = "out" /\ \A c \in Caller \ {Current} : call'[c] = call[c]
      /\ gathered' = gathered \ {Current}
  BY <1>1, <1>3 DEF Tell, Moves
<1>6. LeavesTold
  BY <1>4, <1>5 DEF LeavesTold
<1>7. CASE gathered # {Current}
  <2>1. Queue' = Tail(Queue)
    BY <1>2, <1>3, <1>7 DEF Tell, Queue
  <2>2. HasStop(Queue') => HasStop(Queue)
    BY <1>1, <1>3, <2>1, StopsAdded
  <2>3. ASSUME OneStop(Queue) PROVE OneStop(Queue')
    BY <1>1, <1>3, <2>1, <2>3, StopsCounted
  <2> QED
    BY <1>1, <1>2, <1>5, <1>6, <2>2, <2>3 DEF Draining
<1>8. CASE gathered = {Current}
  <2>1. loop = "draining" /\ gathered' = {}
    BY <1>5, <1>8 DEF Draining
  <2> QED
    BY <1>2, <1>6, <2>1 DEF Draining
<1> QED
  BY <1>7, <1>8

\* The stop: in the running loop it was the only one, in the draining one it comes after
\* the last of the gathered tasks.
LEMMA RunStopDrains ==
  ASSUME RunnerOK, Draining, RunStop
  PROVE  Draining' /\ LeavesTold
<1>1. /\ batch \in Seq(Handles) /\ ready \in Seq(Handles) /\ Queue \in Seq(Handles)
      /\ batch # <<>> /\ Head(batch).kind = "stop"
  BY RunnerFacts DEF RunStop, TurnOf
<1>2. /\ Queue # <<>> /\ Head(Queue) = Head(batch) /\ Tail(batch) \o ready = Tail(Queue)
  BY <1>1, OneQueue DEF Queue
<1>3. Queue' = Tail(Queue) /\ UNCHANGED <<call, loop, gathered>>
  BY <1>2 DEF RunStop, Queue
<1>4. HasStop(Queue)
  BY <1>1, <1>2, StopsAdded
<1>5. gathered = {}
  BY <1>4 DEF Draining
<1>6. ASSUME loop = "running" PROVE OneStop(Tail(Queue)) /\ ~HasStop(Tail(Queue))
  <2>1. OneStop(Queue)
    BY <1>6 DEF Draining
  <2> QED
    BY <1>1, <1>2, <2>1, StopsCounted
<1> QED
  BY <1>3, <1>5, <1>6 DEF Draining, LeavesTold

\* run_forever returns: the pending tasks are the gathered ones, and no stop is queued.
LEMMA LeaveForeverDrains ==
  ASSUME RunnerOK, Draining, LeaveForever
  PROVE  Draining' /\ LeavesTold
<1>1. /\ loop = "running" /\ stopping /\ batch = <<>> /\ batch' = batch
      /\ gathered = {} /\ ~HasStop(Queue)
  BY DEF LeaveForever, StopsHere, Draining
<1>2. CASE Pending = {} /\ CloseLoop
  BY <1>1, <1>2 DEF CloseLoop, Draining, LeavesTold
<1>3. ASSUME NEW s \in Orders({c \in Pending : call[c] = "suspended"}), Pending # {},
             ready' = ready \o [i \in 1 .. Len(s) |-> Handle("step", s[i])],
             call' = [c \in Caller |-> IF call[c] = "suspended" THEN "woken" ELSE call[c]],
             gathered' = Pending, loop' = "draining", stopping' = FALSE
      PROVE  Draining' /\ LeavesTold
  <2> DEFINE S == {c \in Pending : call[c] = "suspended"}
             t == [i \in 1 .. Len(s) |-> Handle("step", s[i])]
  <2>1. /\ batch \in Seq(Handles) /\ ready \in Seq(Handles) /\ Queue \in Seq(Handles)
        /\ call \in [Caller -> CallState]
    BY RunnerFacts
  <2>2. s \in [1 .. Cardinality(S) -> S]
    BY DEF Orders, Bijection, Injection
  <2>3. PICK n \in Nat : n = Cardinality(S)
    <3>1. S \subseteq Caller
      BY DEF Pending
    <3>2. IsFiniteSet(S)
      BY <3>1, CallerAssumption, FS_Subset
    <3> QED
      BY <3>2, FS_CardinalityType
  <2>4. s \in Seq(Caller)
    <3>1. s \in [1 .. n -> Caller]
      BY <2>2, <2>3 DEF Pending
    <3> QED
      BY <3>1, SeqDef
  <2>5. t \in Seq(Handles) /\ \A i \in DOMAIN t : t[i].kind = "step"
    <3>1. Len(s) \in Nat /\ \A i \in 1 .. Len(s) : s[i] \in Caller
      BY <2>4, LenProperties, ElementOfSeq
    <3>2. \A i \in 1 .. Len(s) : Handle("step", s[i]) \in Handles
                                 /\ Handle("step", s[i]).kind = "step"
      BY <3>1, HandleFacts
    <3>3. t \in [1 .. Len(s) -> Handles] /\ \A i \in 1 .. Len(s) : t[i].kind = "step"
      BY <3>2
    <3>4. PICK len \in Nat : len = Len(s)
      BY <3>1
    <3>5. t \in [1 .. len -> Handles]
      BY <3>3, <3>4
    <3>6. t \in Seq(Handles)
      BY <3>5, SeqDef
    <3> QED
      BY <3>3, <3>6
  <2> HIDE DEF t
  <2>6. Queue' = Queue \o t
    BY <1>1, <1>3, <2>1, <2>5, ConcatEmptySeq, ConcatProperties DEF Queue, t
  <2>7. ~HasStop(Queue')
    <3>1. ~HasStop(t)
      BY <2>5 DEF HasStop
    <3> QED
      BY <1>1, <2>1, <2>5, <2>6, <3>1, StopsJoined
  <2>8. \A c \in gathered' : call'[c] \in {"ready", "woken", "ended"}
    BY <1>3, <2>1 DEF Pending
  <2> QED
    BY <1>1, <1>3, <2>7, <2>8 DEF Draining, LeavesTold
<1> QED
  BY <1>2, <1>3 DEF LeaveForever

\* The runner starts, and goes on, with nothing left behind by the draining.
LEMMA RunnerDrains ==
  /\ RunnerInit => Draining
  /\ RunnerInv /\ Draining /\ [RunnerNext]_runnerVars => Draining' /\ LeavesTold
<1>1. ASSUME RunnerInit PROVE Draining
  <2>1. Queue = <<>> /\ DOMAIN Queue = {}
    BY <1>1, EmptySeq, ConcatEmptySeq DEF RunnerInit, Queue
  <2> QED
    BY <1>1, <2>1 DEF RunnerInit, Draining, OneStop, HasStop
<1>2. ASSUME RunnerInv, Draining, [RunnerNext]_runnerVars PROVE Draining' /\ LeavesTold
  <2>0. RunnerOK
    BY <1>2, WakeupsKept DEF RunnerInv, RunnerOK
  <2>1. CASE \E c \in Caller : Check(c) \/ Submit(c) \/ Wake(c)
    BY <1>2, <2>0, <2>1, CallerDrains
  <2>2. CASE BeginBatch
    <3>1. Queue' = Queue
      BY <2>0, <2>2, RunnerFacts, ConcatEmptySeq DEF BeginBatch, Queue
    <3> QED
      BY <1>2, <2>2, <3>1 DEF BeginBatch, Draining, LeavesTold
  <2>3. CASE RunSubmit \/ Await \/ EndTask
    BY <1>2, <2>0, <2>3, TurnDrains
  <2>4. CASE Tell \/ RunStop \/ LeaveForever
    BY <1>2, <2>0, <2>4, TellDrains, RunStopDrains, LeaveForeverDrains
  <2>5. CASE LeaveDrained
    <3>1. gathered = {} /\ gathered' = {} /\ loop' = "closed"
      BY <1>2, <2>5 DEF LeaveDrained, CloseLoop, Draining
    <3> QED
      BY <3>1 DEF Draining, LeavesTold
  <2>6. CASE CloseFlag \/ CloseJoin
    <3>1. UNCHANGED <<call, loopVars>> /\ Queue' = Queue
      BY <2>6 DEF CloseFlag, CloseJoin, loopVars, Queue
    <3> QED
      BY <1>2, <3>1 DEF loopVars, Draining, LeavesTold
  <2>7. CASE CloseStop
    <3>0. Handle("stop", NoCaller) \in Handles
      BY HandleFacts
    <3>1. Queue' = Append(Queue, Handle("stop", NoCaller))
      BY <2>0, <2>7, <3>0, QueueGrows DEF CloseStop
    <3>2. loop = "running" /\ ~stopping /\ gathered = {} /\ ~HasStop(Queue)
      BY <2>0, <2>7, RunnerFacts DEF CloseStop, RunnerOK, RunnerTypeOK, CloseOrder
    <3>3. OneStop(Queue')
      <4>1. Queue \in Seq(Handles) /\ OneStop(Queue)
        BY <2>0, <3>2, RunnerFacts DEF OneStop, HasStop
      <4> QED
        BY <3>0, <3>1, <3>2, <4>1, StopsCounted
    <3> QED
      BY <2>7, <3>2, <3>3 DEF CloseStop, Draining, LeavesTold
  <2>8. CASE UNCHANGED runnerVars
    BY <1>2, <2>8 DEF runnerVars, loopVars, Draining, LeavesTold, Queue
  <2> QED
    BY <1>2, <2>1, <2>2, <2>3, <2>4, <2>5, <2>6, <2>7, <2>8
    DEF RunnerNext, LoopStep, CloseStep
<1> QED
  BY <1>1, <1>2

\* _run_loop: "asyncio.gather(*pending, return_exceptions=True)".  The loop is not closed
\* while one of the tasks it has cancelled is pending, and the caller of each is told.
CancelledTasksEnd ==
  /\ [](loop = "closed" => gathered = {})
  /\ [][LeavesTold]_runnerVars

\* The runner by itself ends what it cancels.
THEOREM RunnerEndsCancelled == RunnerSpec => CancelledTasksEnd
<1>1. Draining => (loop = "closed" => gathered = {})
  BY DEF Draining
<1>2. RunnerInv /\ Draining /\ [RunnerNext]_runnerVars => RunnerInv'
  BY RunnerKeeps
<1>3. RunnerInv /\ Draining /\ [RunnerNext]_runnerVars => Draining' /\ [LeavesTold]_runnerVars
  BY RunnerDrains
<1>4. RunnerInit => RunnerInv /\ Draining
  BY RunnerStarts, RunnerDrains
<1> QED
  BY <1>1, <1>2, <1>3, <1>4, PTL DEF RunnerSpec, CancelledTasksEnd

-----------------------------------------------------------------------------
(* The process                                                               *)

\* Whatever the process does is a step of the runner or leaves it alone.
LEMMA ProcessRunsRunner ==
  ASSUME [LifecycleNext]_lifecycleVars
  PROVE  [RunnerNext]_runnerVars
<1>1. CASE MainStep
  <2>1. CASE MainRuns
    BY <2>1, MainAssumption DEF MainRuns, RunnerNext
  <2>2. CASE Abandon \/ CloseRunner
    BY <2>2 DEF Abandon, CloseRunner, RunnerNext, CloseStep
  <2> QED
    BY <1>1, <2>1, <2>2 DEF MainStep, Configure, BootReturns, DisposeReturns, CloseHttp,
       ExitDisposed, CloseQdrant
<1>2. CASE Exit
  BY <1>2 DEF Exit
<1>3. CASE RunnerStep
  BY <1>3 DEF RunnerStep, RequestRuns, RunnerNext
<1> QED
  BY <1>1, <1>2, <1>3 DEF LifecycleNext, lifecycleVars

\* The loop and the other threads take the main thread's call on, and touch neither
\* close nor a loop that is closed.
LEMMA RunnerStepKeepsMain ==
  ASSUME RunnerInv, RunnerStep
  PROVE  /\ UNCHANGED closer
         /\ loop = "closed" => loop' = "closed"
         /\ call[Main] = "out" => call'[Main] = "out" /\ outcome'[Main] = outcome[Main]
         /\ outcome'[Main] = "result" => outcome[Main] = "result" \/ (LoopStep /\ BootAwaits)
<1>0. RunnerOK /\ call \in [Caller -> CallState] /\ outcome \in [Caller -> Outcome]
  BY WakeupsKept, RunnerFacts DEF RunnerInv, RunnerOK
<1>1. ASSUME NEW c \in Caller, Submit(c) \/ Wake(c) \/ RequestRuns(c)
      PROVE  /\ UNCHANGED <<closer, loop>>
             /\ call[Main] = "out" => call'[Main] = "out" /\ outcome'[Main] = outcome[Main]
             /\ outcome'[Main] = "result" => outcome[Main] = "result"
  BY <1>0, <1>1, MainAssumption DEF Submit, Wake, RequestRuns, Check, Moves, Outcomes, loopVars
<1>2. ASSUME LoopStep
      PROVE  /\ UNCHANGED closer
             /\ loop # "closed"
             /\ call[Main] = "out" => call'[Main] = "out" /\ outcome'[Main] = outcome[Main]
  <2>1. CASE RunSubmit \/ Await \/ EndTask \/ Tell
    <3>1. PICK k \in {"submit", "step", "tell"} : TurnOf(k)
      BY <2>1 DEF RunSubmit, Await, EndTask, Tell
    <3>2. Current \in Caller /\ call[Current] # "out"
      BY <1>0, <3>1, TurnFacts DEF IsDue
    <3> QED
      BY <1>0, <2>1, <3>2, MainAssumption DEF RunSubmit, Await, EndTask, Tell, TurnOf, Moves, Outcomes
  <2>2. CASE BeginBatch \/ RunStop
    BY <2>2 DEF BeginBatch, RunStop, TurnOf
  <2>3. CASE LeaveForever \/ LeaveDrained
    BY <1>0, <2>3, MainAssumption DEF LeaveForever, LeaveDrained, StopsHere, CloseLoop
  <2> QED
    BY <1>2, <2>1, <2>2, <2>3 DEF LoopStep
<1> QED
  BY <1>1, <1>2 DEF RunnerStep

\* What a step that touches neither store nor main thread, or one of the runner, keeps.
LEMMA RunnerStepKeeps ==
  ASSUME LifecycleInv, RunnerStep
  PROVE  LifecycleInv'
<1>0. LifecycleTypeOK /\ RunnerInv /\ StoresInv /\ MainInv /\ ResourceInv /\ CachedMeansReady
  BY DEF LifecycleInv
<1>1. UNCHANGED <<main, service, engine, qdrant, http, ensure, postgres, schema, collection>>
  BY DEF RunnerStep, lifeVars, resourceVars, storeVars
<1>2. /\ UNCHANGED closer
      /\ loop = "closed" => loop' = "closed"
      /\ call[Main] = "out" => call'[Main] = "out" /\ outcome'[Main] = outcome[Main]
      /\ outcome'[Main] = "result" => outcome[Main] = "result" \/ (LoopStep /\ BootAwaits)
  BY <1>0, RunnerStepKeepsMain
<1>3. RunnerInv'
  <2>1. [RunnerNext]_runnerVars
    BY DEF RunnerStep, RequestRuns, RunnerNext
  <2> QED
    BY <1>0, <2>1, RunnerKeeps
<1>4. LifecycleTypeOK' /\ StoresInv'
  BY <1>0, <1>1, <1>3 DEF LifecycleTypeOK, RunnerInv, StoresInv
<1>5. main = "booting" /\ outcome'[Main] = "result" => ensure = "ready"
  BY <1>0, <1>2 DEF MainInv, BootAwaits
<1>6. MainInv' /\ ResourceInv' /\ CachedMeansReady'
  BY <1>0, <1>1, <1>2, <1>5 DEF MainInv, ResourceInv, CachedMeansReady
<1> QED
  BY <1>3, <1>4, <1>6 DEF LifecycleInv

\* The start: the configuration, the bootstrap and what its outcome leads to.
LEMMA StartKeeps ==
  ASSUME LifecycleInv, RunnerInv', Configure \/ MainRuns \/ BootReturns \/ DisposeReturns
  PROVE  LifecycleInv'
<1>0. LifecycleTypeOK /\ RunnerInv /\ StoresInv /\ MainInv /\ ResourceInv /\ CachedMeansReady
  BY DEF LifecycleInv
<1>1. outcome \in [Caller -> Outcome] /\ call \in [Caller -> CallState] /\ RunnerTypeOK'
  BY <1>0 DEF RunnerInv, RunnerTypeOK
<1>2. CASE Configure
  <2>1. UNCHANGED <<runnerVars, storeVars>> /\ main = "start"
    BY <1>2 DEF Configure
  <2>2. LifecycleTypeOK'
    BY <1>0, <1>1, <1>2, <2>1 DEF Configure, Serve, MainState, LifecycleTypeOK, runnerVars,
       loopVars, resourceVars, storeVars
  <2>3. StoresInv' /\ MainInv' /\ ResourceInv' /\ CachedMeansReady'
    BY <1>0, <1>1, <1>2, <2>1 DEF Configure, Serve, StoresInv, MainInv, ResourceInv,
       CachedMeansReady, runnerVars, loopVars, resourceVars, storeVars
  <2> QED
    BY <2>2, <2>3 DEF LifecycleInv
<1>3. CASE MainRuns
  <2>1. /\ UNCHANGED <<closer, loop, resourceVars, storeVars>>
        /\ outcome'[Main] \in {"none", "refused"}
        /\ \/ main = "boot" /\ main' = "booting"
           \/ main = "dispose" /\ main' = "disposing"
           \/ main = "exitDispose" /\ main' = "exitDisposing"
    BY <1>1, <1>3, MainAssumption DEF MainRuns, Check, Outcomes, loopVars
  <2>2. LifecycleTypeOK'
    BY <1>0, <1>1, <2>1 DEF MainState, LifecycleTypeOK, resourceVars, storeVars
  <2>3. StoresInv' /\ MainInv' /\ ResourceInv' /\ CachedMeansReady'
    BY <1>0, <1>1, <2>1 DEF StoresInv, MainInv, ResourceInv, CachedMeansReady, resourceVars,
       storeVars
  <2> QED
    BY <2>2, <2>3 DEF LifecycleInv
<1>4. CASE BootReturns
  <2>1. UNCHANGED <<runnerVars, engine, qdrant, storeVars>> /\ main = "booting"
    BY <1>4 DEF BootReturns
  <2>2. LifecycleTypeOK'
    BY <1>0, <1>1, <1>4, <2>1 DEF BootReturns, Returned, Serve, MainState, LifecycleTypeOK,
       runnerVars, loopVars, storeVars
  <2>3. StoresInv' /\ MainInv' /\ ResourceInv' /\ CachedMeansReady'
    BY <1>0, <1>1, <1>4, <2>1 DEF BootReturns, Returned, Serve, StoresInv, MainInv, ResourceInv,
       CachedMeansReady, runnerVars, loopVars, storeVars
  <2> QED
    BY <2>2, <2>3 DEF LifecycleInv
<1>5. CASE DisposeReturns
  <2>1. UNCHANGED <<runnerVars, service, http, storeVars>> /\ main = "disposing"
    BY <1>5 DEF DisposeReturns
  <2>2. LifecycleTypeOK'
    BY <1>0, <1>1, <1>5, <2>1 DEF DisposeReturns, Returned, MainState, LifecycleTypeOK,
       runnerVars, loopVars, storeVars
  <2>3. StoresInv' /\ MainInv' /\ ResourceInv' /\ CachedMeansReady'
    BY <1>0, <1>1, <1>5, <2>1 DEF DisposeReturns, Returned, StoresInv, MainInv, ResourceInv,
       CachedMeansReady, runnerVars, loopVars, storeVars
  <2> QED
    BY <2>2, <2>3 DEF LifecycleInv
<1> QED
  BY <1>2, <1>3, <1>4, <1>5

\* Close is the main thread's, of a cache that is given up or at exit.
LEMMA ClosingKeeps ==
  ASSUME LifecycleInv, RunnerInv', Abandon \/ CloseRunner
  PROVE  LifecycleInv'
<1>0. LifecycleTypeOK /\ RunnerInv /\ StoresInv /\ MainInv /\ ResourceInv /\ CachedMeansReady
  BY DEF LifecycleInv
<1>1. RunnerTypeOK' /\ UNCHANGED <<call, outcome, loop, storeVars>>
  BY DEF RunnerInv, Abandon, CloseRunner, CloseFlag, CloseStop, CloseJoin, loopVars
<1>2. CASE Abandon
  <2>1. /\ UNCHANGED <<engine, qdrant>> /\ main = "abandon"
        /\ \/ UNCHANGED <<main, service, http>>
           \/ main' = "serve" /\ service' = FALSE /\ http' = "open" /\ closer' = "closed"
    BY <1>2 DEF Abandon, Serve, CloseJoin, resourceVars
  <2>2. LifecycleTypeOK'
    BY <1>0, <1>1, <2>1 DEF MainState, LifecycleTypeOK, storeVars
  <2>3. StoresInv' /\ MainInv' /\ ResourceInv' /\ CachedMeansReady'
    BY <1>0, <1>1, <2>1 DEF StoresInv, MainInv, ResourceInv, CachedMeansReady, storeVars
  <2> QED
    BY <2>2, <2>3 DEF LifecycleInv
<1>3. CASE CloseRunner
  <2>1. /\ UNCHANGED resourceVars /\ main = "exitClose"
        /\ UNCHANGED main \/ (main' = "exited" /\ loop = "closed")
    BY <1>3 DEF CloseRunner, CloseJoin
  <2>2. LifecycleTypeOK'
    BY <1>0, <1>1, <2>1 DEF MainState, LifecycleTypeOK, storeVars, resourceVars
  <2>3. StoresInv' /\ MainInv' /\ ResourceInv' /\ CachedMeansReady'
    BY <1>0, <1>1, <2>1 DEF StoresInv, MainInv, ResourceInv, CachedMeansReady, storeVars,
       resourceVars
  <2> QED
    BY <2>2, <2>3 DEF LifecycleInv
<1> QED
  BY <1>2, <1>3

\* The exit, up to the closing of the runner.
LEMMA ExitKeeps ==
  ASSUME LifecycleInv, RunnerInv', Exit \/ CloseHttp \/ ExitDisposed \/ CloseQdrant
  PROVE  LifecycleInv'
<1>0. LifecycleTypeOK /\ RunnerInv /\ StoresInv /\ MainInv /\ ResourceInv /\ CachedMeansReady
  BY DEF LifecycleInv
<1>1. /\ RunnerTypeOK'
      /\ closer = "closed" => loop = "closed"
      /\ UNCHANGED <<call, outcome, closer, loop, ensure, postgres, schema, collection>>
  BY <1>0 DEF RunnerInv, CloseOrder, Exit, CloseHttp, ExitDisposed, CloseQdrant, runnerVars, loopVars,
     storeVars
<1>2. LifecycleTypeOK' /\ StoresInv'
  BY <1>0, <1>1 DEF LifecycleTypeOK, StoresInv, MainState, Exit, CloseHttp, ExitDisposed, CloseQdrant,
     resourceVars
<1>3. MainInv' /\ ResourceInv' /\ CachedMeansReady'
  <2>1. CASE Exit
    BY <1>0, <1>1, <2>1 DEF Exit, MainInv, ResourceInv, CachedMeansReady, resourceVars
  <2>2. CASE CloseHttp
    BY <1>0, <1>1, <2>2 DEF CloseHttp, MainInv, ResourceInv, CachedMeansReady, LifecycleTypeOK
  <2>3. CASE ExitDisposed
    BY <1>0, <1>1, <2>3 DEF ExitDisposed, Returned, MainInv, ResourceInv, CachedMeansReady
  <2>4. CASE CloseQdrant
    BY <1>0, <1>1, <2>4 DEF CloseQdrant, MainInv, ResourceInv, CachedMeansReady
  <2> QED
    BY <2>1, <2>2, <2>3, <2>4
<1> QED
  BY <1>2, <1>3 DEF LifecycleInv

\* The stores are bootstrapped by this process, up to any failure, and by others.
LEMMA StoresKeep ==
  ASSUME LifecycleInv, RunnerInv', EnsureStep \/ OtherProcess,
         UNCHANGED <<runnerVars, main, resourceVars>>
  PROVE  LifecycleInv'
<1>0. LifecycleTypeOK /\ RunnerInv /\ StoresInv /\ MainInv /\ ResourceInv /\ CachedMeansReady
  BY DEF LifecycleInv
<1>1. RunnerTypeOK' /\ UNCHANGED <<postgres, main, resourceVars, outcome, call, closer, loop>>
  BY DEF RunnerInv, runnerVars, loopVars, EnsureStep, CreateAll, Upgrade, EnsureBegins,
     EnsureCollection, EnsureFails, OtherProcess
<1>2. /\ ensure' \in BootStage /\ schema' \in Schema /\ collection' \in BOOLEAN
      /\ schema = "head" => schema' = "head"
      /\ collection => collection'
      /\ ensure = "ready" => ensure' = "ready"
      /\ StoresInv'
  <2>1. CASE CreateAll
    BY <1>0, <2>1 DEF CreateAll, Stage, BootStage, Schema, LifecycleTypeOK, StoresInv
  <2>2. CASE Upgrade
    BY <1>0, <2>2 DEF Upgrade, Stage, BootStage, Schema, LifecycleTypeOK, StoresInv
  <2>3. CASE EnsureBegins
    BY <1>0, <2>3 DEF EnsureBegins, Stage, BootStage, Schema, LifecycleTypeOK, StoresInv
  <2>4. CASE EnsureCollection
    BY <1>0, <2>4 DEF EnsureCollection, Stage, BootStage, Schema, LifecycleTypeOK, StoresInv
  <2>5. CASE EnsureFails
    BY <1>0, <2>5 DEF EnsureFails, BootStage, Schema, LifecycleTypeOK, StoresInv
  <2>6. CASE OtherProcess
    BY <1>0, <2>6 DEF OtherProcess, BootStage, Schema, LifecycleTypeOK, StoresInv
  <2> QED
    BY <2>1, <2>2, <2>3, <2>4, <2>5, <2>6 DEF EnsureStep
<1>3. LifecycleTypeOK' /\ MainInv' /\ ResourceInv' /\ CachedMeansReady'
  BY <1>0, <1>1, <1>2 DEF LifecycleTypeOK, MainInv, ResourceInv, CachedMeansReady, resourceVars
<1> QED
  BY <1>2, <1>3 DEF LifecycleInv

\* Every step of the process keeps its invariant.
LEMMA ProcessKeeps == LifecycleInv /\ [LifecycleNext]_lifecycleVars => LifecycleInv'
<1> SUFFICES ASSUME LifecycleInv, [LifecycleNext]_lifecycleVars PROVE LifecycleInv'
  OBVIOUS
<1>1. RunnerInv'
  BY ProcessRunsRunner, RunnerKeeps DEF LifecycleInv
<1>2. CASE UNCHANGED lifecycleVars
  BY <1>1, <1>2 DEF LifecycleInv, LifecycleTypeOK, RunnerInv, StoresInv, MainInv, ResourceInv,
     CachedMeansReady, lifecycleVars, runnerVars, loopVars, lifeVars, resourceVars, storeVars
<1>3. CASE RunnerStep
  BY <1>3, RunnerStepKeeps
<1>4. CASE MainStep
  BY <1>1, <1>4, StartKeeps, ClosingKeeps, ExitKeeps DEF MainStep
<1>5. CASE Exit
  BY <1>1, <1>5, ExitKeeps
<1>6. CASE (EnsureStep \/ OtherProcess) /\ UNCHANGED <<runnerVars, main, resourceVars>>
  BY <1>1, <1>6, StoresKeep
<1> QED
  BY <1>2, <1>3, <1>4, <1>5, <1>6 DEF LifecycleNext

\* A process starts with nothing open, on stores in any state of another one's making.
LEMMA ProcessStarts == LifecycleInit => LifecycleInv
<1> SUFFICES ASSUME LifecycleInit PROVE LifecycleInv
  OBVIOUS
<1>1. RunnerInv
  BY RunnerStarts DEF LifecycleInit
<1>2. call[Main] = "out" /\ outcome[Main] = "none" /\ closer = "open"
  BY MainAssumption DEF LifecycleInit, RunnerInit
<1> QED
  BY <1>1, <1>2 DEF LifecycleInit, LifecycleInv, LifecycleTypeOK, RunnerInv, StoresInv, MainInv,
     ResourceInv, CachedMeansReady, MainState, BootStage, Schema

-----------------------------------------------------------------------------
\* The process keeps its invariant, whatever the bootstrap, the requests and the exit do
\* to each other.
THEOREM ProcessInvariant == LifecycleSpec => []LifecycleInv
  BY ProcessStarts, ProcessKeeps, PTL DEF LifecycleSpec

\* Through the stop, the cancellation and the draining, each call that waits has the one
\* handle that takes it on.
THEOREM ProcessKeepsWakeups == LifecycleSpec => []WakeupsAreKept
<1>1. LifecycleInv => WakeupsAreKept
  BY DEF LifecycleInv, RunnerInv
<1> QED
  BY <1>1, ProcessInvariant, PTL

\* A cache is served after a bootstrap only beside a complete schema and a collection.
THEOREM ServesReadyStores == LifecycleSpec => []CachedMeansReady
<1>1. LifecycleInv => CachedMeansReady
  BY DEF LifecycleInv
<1> QED
  BY <1>1, ProcessInvariant, PTL

\* A proxy that has given its cache up holds no engine, no client and no loop.
THEOREM DegradesCleanly == LifecycleSpec => []DegradedHoldsNothing
<1>1. LifecycleInv => DegradedHoldsNothing
  BY DEF LifecycleInv, RunnerInv, CloseOrder, ResourceInv, DegradedHoldsNothing
<1> QED
  BY <1>1, ProcessInvariant, PTL

\* At exit all is closed, but for an engine whose own disposal has failed.
THEOREM ExitsCleanly == LifecycleSpec => []ExitReleasesAll
<1>1. LifecycleInv => ExitReleasesAll
  BY DEF LifecycleInv, ResourceInv, ExitReleasesAll
<1> QED
  BY <1>1, ProcessInvariant, PTL

\* Nor does the process abandon a coroutine that its exit has cancelled.
THEOREM ProcessEndsCancelled == LifecycleSpec => CancelledTasksEnd
<1>1. Draining => (loop = "closed" => gathered = {})
  BY DEF Draining
<1>2. LifecycleInv /\ Draining /\ [LifecycleNext]_lifecycleVars => LifecycleInv'
  BY ProcessKeeps
<1>3. LifecycleInv /\ Draining /\ [LifecycleNext]_lifecycleVars
        => Draining' /\ [LeavesTold]_runnerVars
  BY ProcessRunsRunner, RunnerDrains DEF LifecycleInv
<1>4. LifecycleInit => LifecycleInv /\ Draining
  BY ProcessStarts, RunnerDrains DEF LifecycleInit
<1> QED
  BY <1>1, <1>2, <1>3, <1>4, PTL DEF LifecycleSpec, CancelledTasksEnd

=============================================================================
