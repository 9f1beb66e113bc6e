--------------------------- MODULE EntryLifecycle ---------------------------
(***************************************************************************)
(* What the semantic cache promises of its entries, without a word of      *)
(* threads, calls, statements or failures: an entry is stored once, with   *)
(* the lifetime of its bucket; then it is indexed, then its decision is    *)
(* logged, each at most once and in this order; it is served only once     *)
(* indexed and never more often than it has been counted; and only refresh *)
(* moves it, to a lifetime no longer than that of its new bucket.          *)
(*                                                                         *)
(* RequestPath implements this with Movable = FALSE, CacheSystem with      *)
(* Movable = TRUE.                                                         *)
(***************************************************************************)
EXTENDS Integers

CONSTANTS
  Fp,       \* the entries, one for each request fingerprint
  TTL,      \* bucket -> time to live
  Movable   \* does anything move an entry to another bucket

VARIABLES
  now,      \* the time
  stage,    \* how far each entry has come
  lease,    \* its bucket, when it was created and when it expires
  found,    \* when the index takes it for expired
  hits,     \* how often it has been counted as a hit
  served    \* how often it has been served

vars == <<now, stage, lease, found, hits, served>>

Bucket == DOMAIN TTL
None == -1

Init ==
  /\ now = 0
  /\ stage = [f \in Fp |-> "absent"]
  /\ lease = [f \in Fp |-> [bucket |-> None, created |-> None, expires |-> None]]
  /\ found = [f \in Fp |-> None]
  /\ hits = [f \in Fp |-> 0]
  /\ served = [f \in Fp |-> 0]

Pass ==
  /\ now' = now + 1
  /\ UNCHANGED <<stage, lease, found, hits, served>>

Store(f) ==
  /\ stage[f] = "absent"
  /\ stage' = [stage EXCEPT ![f] = "stored"]
  /\ \E b \in Bucket, c \in 0 .. now :
       lease' = [lease EXCEPT ![f] = [bucket |-> b, created |-> c, expires |-> c + TTL[b]]]
  /\ UNCHANGED <<now, found, hits, served>>

\* The index takes the lifetime the entry was stored with, whatever it is by now.
Index(f) ==
  /\ stage[f] = "stored"
  /\ stage' = [stage EXCEPT ![f] = "indexed"]
  /\ \E b \in Bucket :
       /\ ~Movable => b = lease[f].bucket
       /\ found' = [found EXCEPT ![f] = lease[f].created + TTL[b]]
  /\ UNCHANGED <<now, lease, hits, served>>

Decide(f) ==
  /\ stage[f] = "indexed"
  /\ stage' = [stage EXCEPT ![f] = "decided"]
  /\ UNCHANGED <<now, lease, found, hits, served>>

Count(f) ==
  /\ stage[f] \in {"indexed", "decided"}
  /\ hits' = [hits EXCEPT ![f] = @ + 1]
  /\ UNCHANGED <<now, stage, lease, found, served>>

Serve(f) ==
  /\ served[f] < hits[f]
  /\ served' = [served EXCEPT ![f] = @ + 1]
  /\ UNCHANGED <<now, stage, lease, found, hits>>

\* A move may be late: its lifetime was computed when the entry was read.
Move(f) ==
  /\ Movable
  /\ stage[f] # "absent"
  /\ \E b \in Bucket, at \in 0 .. now :
       lease' = [lease EXCEPT ![f].bucket = b, ![f].expires = at + TTL[b]]
  /\ UNCHANGED <<now, stage, found, hits, served>>

Next ==
  \/ Pass
  \/ \E f \in Fp : Store(f) \/ Index(f) \/ Decide(f) \/ Count(f) \/ Serve(f) \/ Move(f)

Spec == Init /\ [][Next]_vars

=============================================================================
