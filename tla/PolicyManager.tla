---------------------------- MODULE PolicyManager ----------------------------
(***************************************************************************)
(* TTLPolicyManager (app/policy/manager.py) over a LinUCB or a Thompson    *)
(* policy (app/policy/bandit.py): the features get positions as requests   *)
(* bring them, rewards train the weights, and every Autosave-th update     *)
(* writes the policy to a temporary file that then replaces the snapshot.  *)
(* A restart loads the snapshot, under whatever configuration is deployed  *)
(* by then: a snapshot keeps the configuration it was saved with.          *)
(*                                                                         *)
(* Every method holds the manager's lock from its first to its last line   *)
(* and awaits nothing while it holds it, so it is one step here, but for   *)
(* the two file operations of _persist_locked: the process may die or the  *)
(* disk may fail at each of them.  The matrices and responses of all the   *)
(* actions become one function: which features have left their mark on     *)
(* which position.                                                         *)
(***************************************************************************)
EXTENDS Integers

CONSTANTS
  Feature,       \* feature names
  Deployments,   \* the configurations the process may be started with
  MaxDimension,  \* no deployed policy_feature_dimension is larger
  Persistent,    \* policy_snapshot_path is set
  Autosave,      \* max(1, policy_autosave_interval)
  Torn,          \* a file whose writing was cut short
  NoFile,        \* no file
  NoPolicy,      \* the start has failed: there is no process
  MaxUpdates,    \* bound on the updates (of the model only)
  MaxFailures    \* bound on the failures to persist in a row (of the model only)

Position == 1 .. MaxDimension
NoPosition == 0

\* PolicyRuntimeConfig: the type, the number of TTL buckets, policy_feature_dimension
\* and policy_allow_feature_growth.
Config == [type : STRING, actions : Nat, dimension : 0 .. MaxDimension, growth : BOOLEAN]
Supported == {"linucb", "thompson"}

Policy ==
  [config : Config,                                   \* _config
   index : [Feature -> Position \cup {NoPosition}],   \* FeatureIndexer._index
   size : 0 .. MaxDimension,                          \* its length
   arms : Nat,                                        \* the number of matrices
   width : 0 .. MaxDimension,                         \* their dimension
   weights : [Position -> SUBSET Feature],            \* features seen in A and b
   updates : Nat]                                     \* updates behind the weights

ASSUME DeploymentAssumption == Deployments \subseteq Config /\ MaxDimension \in Nat
ASSUME AutosaveAssumption == Autosave \in Nat \ {0}
ASSUME SwitchAssumption == Persistent \in BOOLEAN
ASSUME FileAssumption == Torn \notin Policy /\ NoFile \notin Policy /\ Torn # NoFile
ASSUME NoPolicyAssumption == NoPolicy \notin Policy
ASSUME BoundsAssumption == MaxUpdates \in Nat /\ MaxFailures \in Nat

VARIABLES
  policy,    \* the policy in memory
  since,     \* _updates_since_flush
  saving,    \* where _persist_locked stands: not called, writing, or replacing
  tmp,       \* the temporary file
  snapshot,  \* the snapshot file
  failures   \* failures to persist since the last success, a history variable

files == <<tmp, snapshot>>
vars == <<policy, since, saving, files, failures>>

Up == policy # NoPolicy

\* LinUCBPolicy and ThompsonSamplingPolicy: identity matrices for every action.
Fresh(c) == [config |-> c, index |-> [f \in Feature |-> NoPosition], size |-> 0,
             arms |-> c.actions, width |-> c.dimension,
             weights |-> [i \in Position |-> {}], updates |-> 0]

\* Mutant: the snapshot is given the configuration of the new deployment.
LoadReconfigured(file, c) ==
  IF c.type \notin Supported THEN NoPolicy
  ELSE IF file # NoFile /\ Persistent THEN [file EXCEPT !.config = c]
  ELSE IF c.actions > 0 /\ c.dimension > 0 THEN Fresh(c) ELSE NoPolicy

\* Mutant: the weights are restored without the positions they belong to.
LoadWeights(file, c) ==
  IF c.type \notin Supported THEN NoPolicy
  ELSE IF file # NoFile /\ Persistent
       THEN [Fresh(file.config) EXCEPT !.weights = file.weights, !.updates = file.updates]
  ELSE IF c.actions > 0 /\ c.dimension > 0 THEN Fresh(c) ELSE NoPolicy

\* build_policy_manager: the policy of the snapshot, with the configuration in it; of
\* the deployed one only the type counts, for the file's configuration has other fields
\* in the other type and load raises.  Without a snapshot, a fresh policy, unless the
\* constructor refuses the configuration.
Load(file, c) ==
  IF c.type \notin Supported THEN NoPolicy
  ELSE IF file # NoFile /\ Persistent
       THEN IF file.config.type = c.type THEN file ELSE NoPolicy
  ELSE IF c.actions > 0 /\ c.dimension > 0 THEN Fresh(c) ELSE NoPolicy

Init ==
  /\ \E c \in Deployments : policy = Load(NoFile, c)
  /\ since = 0
  /\ saving = "no"
  /\ tmp = NoFile
  /\ snapshot = NoFile
  /\ failures = 0

-----------------------------------------------------------------------------
Indexed(p, f) == p.index[f] # NoPosition

\* The indexer keeps the positions it has given, one per feature and no gaps.
Indexes(p) ==
  /\ \A f \in Feature : p.index[f] <= p.size
  /\ \A i \in 1 .. p.size : \E f \in Feature : p.index[f] = i
  /\ \A f, g \in Feature : Indexed(p, f) /\ p.index[f] = p.index[g] => f = g

\* vectorize with growth: the new features of S take the next positions, in the
\* order of the mapping, until the dimension is exhausted; the others are skipped.
Grown(p, S) ==
  IF ~p.config.growth THEN {p}
  ELSE {q \in [config : {p.config}, index : [Feature -> 0 .. p.config.dimension],
               size : 0 .. p.config.dimension, arms : {p.arms}, width : {p.width},
               weights : {p.weights}, updates : {p.updates}] :
          /\ Indexes(q)
          /\ \A f \in Feature : Indexed(p, f) \/ f \notin S => q.index[f] = p.index[f]
          /\ \A f \in S : Indexed(q, f) \/ q.size = p.config.dimension}

\* select_action: choose and propensity vectorize the request's features.
SelectAction(S) ==
  /\ Up
  /\ saving = "no"
  /\ \E q \in Grown(policy, S) : policy' = q
  /\ UNCHANGED <<since, saving, files, failures>>

\* The weights after an update: vectorize without growth skips new features.
Trained(p, S) ==
  [p EXCEPT !.updates = @ + 1,
            !.weights = [i \in Position |-> @[i] \cup {f \in S : p.index[f] = i}]]

\* Mutant: the policy is persisted only once the interval has been passed.
UpdateLate(S) ==
  /\ Up
  /\ saving = "no"
  /\ policy.updates < MaxUpdates
  /\ policy' = Trained(policy, S)
  /\ since' = since + 1
  /\ saving' = IF Persistent /\ since + 1 > Autosave THEN "write" ELSE "no"
  /\ UNCHANGED <<files, failures>>

\* update of an action the policy has (of any other it raises before it has done a
\* thing): train, count, and persist when the count reaches the interval.
Update(S) ==
  /\ Up
  /\ saving = "no"
  /\ policy.updates < MaxUpdates
  /\ policy' = Trained(policy, S)
  /\ since' = since + 1
  /\ saving' = IF Persistent /\ since + 1 >= Autosave THEN "write" ELSE "no"
  /\ UNCHANGED <<files, failures>>

Flush ==
  /\ Up
  /\ saving = "no"
  /\ Persistent
  /\ saving' = "write"
  /\ UNCHANGED <<policy, since, files, failures>>

-----------------------------------------------------------------------------
(* _persist_locked *)

\* Mutant: the snapshot itself is written.
WriteInPlace ==
  /\ saving = "write"
  /\ snapshot' \in {policy, Torn}
  /\ saving' = "replace"
  /\ UNCHANGED <<policy, since, tmp, failures>>

\* The policy is written to the temporary file.
WriteTmp ==
  /\ saving = "write"
  /\ tmp' = policy
  /\ saving' = "replace"
  /\ UNCHANGED <<policy, since, snapshot, failures>>

\* Mutant: the file replaces the snapshot and the count goes on.
ReplaceUncounted ==
  /\ saving = "replace"
  /\ snapshot' = tmp
  /\ tmp' = NoFile
  /\ saving' = "no"
  /\ UNCHANGED <<policy, since, failures>>

\* The temporary file takes the snapshot's name, atomically.
Replace ==
  /\ saving = "replace"
  /\ snapshot' = tmp
  /\ tmp' = NoFile
  /\ since' = 0
  /\ saving' = "no"
  /\ failures' = 0
  /\ UNCHANGED policy

\* The disk fails: what was being written may be torn.  The update stays in memory
\* and the count stays, so that the next update tries again.
PersistFails ==
  /\ saving # "no"
  /\ failures < MaxFailures
  /\ tmp' \in (IF saving = "write" THEN {tmp, Torn} ELSE {tmp})
  /\ saving' = "no"
  /\ failures' = failures + 1
  /\ UNCHANGED <<policy, since, snapshot>>

\* The process ends or dies, possibly while writing, and is started again, with the
\* configuration of the moment.  A start that raises leaves no process.
Restart ==
  /\ tmp' \in (IF saving = "write" THEN {tmp, Torn} ELSE {tmp})
  /\ \E c \in Deployments : policy' = Load(snapshot, c)
  /\ since' = 0
  /\ saving' = "no"
  /\ failures' = 0
  /\ UNCHANGED snapshot

-----------------------------------------------------------------------------
Next ==
  \/ \E S \in SUBSET Feature : SelectAction(S) \/ Update(S)
  \/ Flush
  \/ WriteTmp
  \/ Replace
  \/ PersistFails
  \/ Restart

Spec == Init /\ [][Next]_vars

-----------------------------------------------------------------------------
\* The variables keep their types; the snapshot in particular is never a torn file,
\* though the temporary file may be.
PolicyTypeOK ==
  /\ policy \in Policy \cup {NoPolicy}
  /\ since \in Nat
  /\ saving \in {"no", "write", "replace"}
  /\ tmp \in Policy \cup {Torn, NoFile}
  /\ snapshot \in Policy \cup {NoFile}
  /\ failures \in Nat

\* Each position of p has been trained by the values of one feature alone, the one
\* that holds it.
Pure(p) ==
  /\ Indexes(p)
  /\ \A i \in Position, f \in Feature : f \in p.weights[i] => p.index[f] = i

\* A weight never mixes the values of two features: not in memory, not on disk, and
\* not across crashes, although positions given after the last snapshot are given
\* again, to other features, after a restart.
WeightsNeverMix == (Up => Pure(policy)) /\ (snapshot # NoFile => Pure(snapshot))

\* The matrices of p are those of its configuration, and every position it has given
\* or may give lies within them.
Fits(p) ==
  /\ p.arms = p.config.actions /\ p.width = p.config.dimension
  /\ p.arms > 0 /\ p.size <= p.width

\* Whatever is deployed over an old snapshot, with more or fewer buckets, another
\* dimension or another kind of policy, a process that is up scores and trains with
\* matrices of the right number and dimension.
ShapesAgree == (Up => Fits(policy)) /\ (snapshot # NoFile => Fits(snapshot))

\* A policy whose configuration forbids growth never gets a feature and so never
\* learns, however often it is updated: no restart switches growth on or off for it.
Blank(p) == ~p.config.growth => p.size = 0 /\ \A i \in Position : p.weights[i] = {}
NoGrowthLearnsNothing == (Up => Blank(policy)) /\ (snapshot # NoFile => Blank(snapshot))

\* The snapshot lags behind the memory by the updates counted since the last flush,
\* which is what a crash loses.
Saved == IF snapshot = NoFile THEN 0 ELSE snapshot.updates
CrashLosesTheCounted == Persistent /\ Up => policy.updates = Saved + since

\* Between calls that count is below the autosave interval, but for one update more
\* for each failure to persist.
LossIsBounded == Persistent /\ saving = "no" => since < Autosave + failures

\* What is about to replace the snapshot is the policy in memory.
PolicyInv ==
  /\ PolicyTypeOK
  /\ WeightsNeverMix
  /\ ShapesAgree
  /\ NoGrowthLearnsNothing
  /\ CrashLosesTheCounted
  /\ LossIsBounded
  /\ saving = "replace" => tmp = policy
  /\ saving # "no" => Up /\ Persistent /\ since <= Autosave + failures
  /\ ~Persistent => snapshot = NoFile

=============================================================================
