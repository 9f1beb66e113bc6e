------------------------ MODULE PolicyManagerProofs ------------------------
(***************************************************************************)
(* PolicyInv is an inductive invariant of PolicyManager, for any features, *)
(* any set of configurations deployed one after the other over the same    *)
(* snapshot, and any autosave interval.                                    *)
(***************************************************************************)
EXTENDS PolicyManager, TLAPS

USE DeploymentAssumption, AutosaveAssumption, SwitchAssumption, FileAssumption,
    NoPolicyAssumption

\* What holds of every policy there ever is, in memory or on disk, and what is shown
\* of each operation on one.
WellFormed(p) == p \in Policy /\ Pure(p) /\ Fits(p) /\ Blank(p)


\* A fresh policy has no features and no updates, and matrices of its configuration.
LEMMA FreshIsWellFormed ==
  ASSUME NEW c \in Deployments, c.actions > 0, c.dimension > 0
  PROVE  WellFormed(Fresh(c)) /\ Fresh(c).updates = 0
<1>1. c \in Config
  OBVIOUS
<1>2. /\ Fresh(c).config = c /\ Fresh(c).size = 0 /\ Fresh(c).arms = c.actions
      /\ Fresh(c).width = c.dimension /\ Fresh(c).updates = 0
      /\ Fresh(c).index = [f \in Feature |-> NoPosition]
      /\ Fresh(c).weights = [i \in Position |-> {}]
  BY DEF Fresh
<1>3. Fresh(c) \in Policy
  <2>1. [f \in Feature |-> NoPosition] \in [Feature -> Position \cup {NoPosition}]
    OBVIOUS
  <2>2. [i \in Position |-> {}] \in [Position -> SUBSET Feature]
    OBVIOUS
  <2>3. c.actions \in Nat /\ c.dimension \in 0 .. MaxDimension /\ 0 \in 0 .. MaxDimension
    BY <1>1 DEF Config
  <2>4. QED
    BY <1>1, <2>1, <2>2, <2>3 DEF Fresh, Policy
<1>4. Indexes(Fresh(c))
  BY <1>2 DEF Indexes, Indexed, NoPosition
<1>5. \A i \in Position : Fresh(c).weights[i] = {}
  BY <1>2
<1>6. Pure(Fresh(c))
  BY <1>4, <1>5 DEF Pure
<1>7. Fits(Fresh(c))
  BY <1>1, <1>2 DEF Fits, Config
<1>8. Blank(Fresh(c))
  BY <1>2, <1>5 DEF Blank
<1>9. QED
  BY <1>2, <1>3, <1>6, <1>7, <1>8 DEF WellFormed

\* A start yields the policy of the snapshot as it was saved, a fresh one, or none.
LEMMA LoadIsWellFormed ==
  ASSUME NEW c \in Deployments, NEW file,
         file # NoFile => WellFormed(file) /\ Persistent
  PROVE  \/ Load(file, c) = NoPolicy
         \/ file # NoFile /\ Load(file, c) = file
         \/ /\ file = NoFile /\ WellFormed(Load(file, c))
            /\ Load(file, c).updates = 0
<1>1. CASE file # NoFile
  BY <1>1 DEF Load
<1>2. CASE file = NoFile
  <2>1. CASE c.actions > 0 /\ c.dimension > 0
    BY <1>2, <2>1, FreshIsWellFormed DEF Load
  <2>2. CASE ~(c.actions > 0 /\ c.dimension > 0)
    BY <1>2, <2>2 DEF Load
  <2>3. QED
    BY <2>1, <2>2
<1>3. QED
  BY <1>1, <1>2

\* Growth keeps the positions and the weights of a policy, and gives no position
\* where it is forbidden or beyond the dimension.
LEMMA GrowthIsWellFormed ==
  ASSUME NEW p, WellFormed(p), NEW S \in SUBSET Feature, NEW q \in Grown(p, S)
  PROVE  WellFormed(q) /\ q.updates = p.updates
<1>1. CASE ~p.config.growth
  BY <1>1 DEF Grown
<1>2. CASE p.config.growth
  <2> DEFINE d == p.config.dimension
  <2>1. p \in Policy /\ p.config \in Config /\ d \in 0 .. MaxDimension
    BY DEF WellFormed, Policy, Config
  <2>2. /\ q \in [config : {p.config}, index : [Feature -> 0 .. d], size : 0 .. d,
                  arms : {p.arms}, width : {p.width}, weights : {p.weights},
                  updates : {p.updates}]
        /\ Indexes(q)
        /\ \A f \in Feature : Indexed(p, f) => q.index[f] = p.index[f]
    BY <1>2 DEF Grown
  <2>3. /\ q.config = p.config /\ q.arms = p.arms /\ q.width = p.width
        /\ q.weights = p.weights /\ q.updates = p.updates
        /\ q.size \in 0 .. d /\ q.index \in [Feature -> 0 .. d]
    BY <2>2
  <2>4. q \in Policy
    <3>1. q.size \in 0 .. MaxDimension
      BY <2>1, <2>3
    <3>2. q.index \in [Feature -> Position \cup {NoPosition}]
      <4>1. 0 .. d \subseteq Position \cup {NoPosition}
        BY <2>1 DEF Position, NoPosition
      <4>2. QED
        BY <2>3, <4>1
    <3>3. /\ q.config \in Config /\ q.arms \in Nat /\ q.width \in 0 .. MaxDimension
          /\ q.weights \in [Position -> SUBSET Feature] /\ q.updates \in Nat
      BY <2>1, <2>3 DEF Policy
    <3>4. q = [config |-> q.config, index |-> q.index, size |-> q.size, arms |-> q.arms,
               width |-> q.width, weights |-> q.weights, updates |-> q.updates]
      BY <2>2
    <3>5. QED
      BY <3>1, <3>2, <3>3, <3>4 DEF Policy
  <2>5. ASSUME NEW i \in Position, NEW f \in Feature, f \in q.weights[i]
        PROVE  q.index[f] = i
    <3>1. p.index[f] = i
      BY <2>3, <2>5 DEF Pure, WellFormed
    <3>2. Indexed(p, f)
      BY <3>1 DEF Indexed, Position, NoPosition
    <3>3. QED
      BY <2>2, <3>1, <3>2
  <2>6. Pure(q)
    BY <2>2, <2>5 DEF Pure
  <2>7. Fits(q)
    BY <2>1, <2>3 DEF Fits, WellFormed
  <2>8. Blank(q)
    BY <1>2, <2>3 DEF Blank
  <2>9. QED
    BY <2>3, <2>4, <2>6, <2>7, <2>8 DEF WellFormed
<1>3. QED
  BY <1>1, <1>2

\* Training touches the positions of the features that have one, and no other; where
\* no feature has a position nothing is trained.
LEMMA TrainingIsWellFormed ==
  ASSUME NEW p, WellFormed(p), NEW S \in SUBSET Feature
  PROVE  WellFormed(Trained(p, S)) /\ Trained(p, S).updates = p.updates + 1
<1> DEFINE q == Trained(p, S)
<1> DEFINE W == [i \in Position |-> p.weights[i] \cup {f \in S : p.index[f] = i}]
<1>1. p \in Policy
  BY DEF WellFormed
<1>2. q = [p EXCEPT !.updates = p.updates + 1, !.weights = W]
  BY <1>1 DEF Trained
<1>3. W \in [Position -> SUBSET Feature]
  BY <1>1 DEF Policy
<1>4. p.updates + 1 \in Nat
  BY <1>1 DEF Policy
<1>5. \A i \in Position : W[i] = p.weights[i] \cup {f \in S : p.index[f] = i}
  OBVIOUS
<1> HIDE DEF W, q
<1>6. q \in Policy
  BY <1>1, <1>2, <1>3, <1>4 DEF Policy
<1>7. /\ q.config = p.config /\ q.index = p.index /\ q.size = p.size /\ q.arms = p.arms
      /\ q.width = p.width /\ q.updates = p.updates + 1 /\ q.weights = W
  BY <1>1, <1>2 DEF Policy
<1>8. Pure(q)
  <2>1. Indexes(q)
    BY <1>7 DEF WellFormed, Pure, Indexes, Indexed
  <2>2. ASSUME NEW i \in Position, NEW f \in Feature, f \in q.weights[i]
        PROVE  q.index[f] = i
    BY <1>5, <1>7, <2>2 DEF WellFormed, Pure
  <2>3. QED
    BY <2>1, <2>2 DEF Pure
<1>9. Fits(q)
  BY <1>7 DEF Fits, WellFormed
<1>10. Blank(q)
  <2>1. SUFFICES ASSUME ~p.config.growth
                 PROVE  p.size = 0 /\ \A i \in Position : W[i] = {}
    BY <1>7 DEF Blank
  <2>2. p.size = 0 /\ \A i \in Position : p.weights[i] = {}
    BY <2>1 DEF WellFormed, Blank
  <2>3. ASSUME NEW f \in Feature, NEW i \in Position
        PROVE  p.index[f] # i
    <3>1. p.index[f] <= 0
      BY <2>2 DEF WellFormed, Pure, Indexes
    <3>2. i > 0 /\ i \in Nat
      BY DEF Position
    <3>3. QED
      BY <3>1, <3>2
  <2>4. QED
    BY <1>5, <2>2, <2>3
<1>11. QED
  BY <1>6, <1>7, <1>8, <1>9, <1>10 DEF WellFormed, q

\* The parts of the invariant that speak of the two policies alone say that both are
\* well formed.
LEMMA InvMeansWellFormed ==
  PolicyInv => /\ Up => WellFormed(policy)
               /\ snapshot # NoFile => WellFormed(snapshot) /\ Persistent
BY DEF PolicyInv, PolicyTypeOK, WeightsNeverMix, ShapesAgree, NoGrowthLearnsNothing,
       WellFormed, Up

\* And they follow from it.
LEMMA WellFormedMeansInv ==
  ASSUME Up' => WellFormed(policy'), snapshot' # NoFile => WellFormed(snapshot')
  PROVE  /\ policy' \in Policy \cup {NoPolicy} /\ snapshot' \in Policy \cup {NoFile}
         /\ WeightsNeverMix' /\ ShapesAgree' /\ NoGrowthLearnsNothing'
BY DEF WeightsNeverMix, ShapesAgree, NoGrowthLearnsNothing, WellFormed, Up

\* A fresh policy or none, nothing saved and nothing counted.
LEMMA InitOK == Init => PolicyInv
<1> SUFFICES ASSUME Init PROVE PolicyInv
  OBVIOUS
<1>1. PICK c \in Deployments : policy = Load(NoFile, c)
  BY DEF Init
<1>2. Up => WellFormed(policy) /\ policy.updates = 0
  BY <1>1, LoadIsWellFormed DEF Up
<1>3. since = 0 /\ saving = "no" /\ tmp = NoFile /\ snapshot = NoFile /\ failures = 0
  BY DEF Init
<1>4. PolicyTypeOK
  BY <1>2, <1>3 DEF PolicyTypeOK, Up, WellFormed
<1>5. WeightsNeverMix /\ ShapesAgree /\ NoGrowthLearnsNothing
  BY <1>2, <1>3 DEF WeightsNeverMix, ShapesAgree, NoGrowthLearnsNothing, WellFormed
<1>6. CrashLosesTheCounted
  BY <1>2, <1>3 DEF CrashLosesTheCounted, Saved
<1>7. LossIsBounded
  BY <1>3 DEF LossIsBounded
<1>8. QED
  BY <1>3, <1>4, <1>5, <1>6, <1>7 DEF PolicyInv

\* A selection may give positions; weights, counts and files stay.
LEMMA SelectOK ==
  ASSUME PolicyInv, NEW S \in SUBSET Feature, SelectAction(S) PROVE PolicyInv'
<1>1. PICK q \in Grown(policy, S) : policy' = q
  BY DEF SelectAction
<1>2. /\ since' = since /\ saving' = saving /\ tmp' = tmp /\ snapshot' = snapshot
      /\ failures' = failures /\ saving = "no" /\ Up
  BY DEF SelectAction, files
<1>3. WellFormed(policy') /\ policy'.updates = policy.updates
  BY <1>1, <1>2, GrowthIsWellFormed, InvMeansWellFormed
<1>4. snapshot' # NoFile => WellFormed(snapshot')
  BY <1>2, InvMeansWellFormed
<1>5. PolicyTypeOK' /\ WeightsNeverMix' /\ ShapesAgree' /\ NoGrowthLearnsNothing'
  BY <1>2, <1>3, <1>4, WellFormedMeansInv DEF PolicyInv, PolicyTypeOK
<1>6. CrashLosesTheCounted' /\ LossIsBounded'
  BY <1>2, <1>3 DEF PolicyInv, CrashLosesTheCounted, LossIsBounded, Saved
<1>7. QED
  BY <1>2, <1>5, <1>6 DEF PolicyInv

\* An update is trained and counted; the snapshot falls behind by one.
LEMMA UpdateOK ==
  ASSUME PolicyInv, NEW S \in SUBSET Feature, Update(S) PROVE PolicyInv'
<1>1. /\ since' = since + 1 /\ tmp' = tmp /\ snapshot' = snapshot /\ Up
      /\ failures' = failures /\ saving = "no" /\ policy' = Trained(policy, S)
      /\ saving' = IF Persistent /\ since + 1 >= Autosave THEN "write" ELSE "no"
  BY DEF Update, files
<1>2. WellFormed(policy) /\ WellFormed(policy') /\ policy'.updates = policy.updates + 1
  BY <1>1, TrainingIsWellFormed, InvMeansWellFormed
<1>3. snapshot' # NoFile => WellFormed(snapshot')
  BY <1>1, InvMeansWellFormed
<1>4. policy.updates \in Nat /\ since \in Nat /\ failures \in Nat
  BY <1>2 DEF PolicyInv, PolicyTypeOK, Policy, WellFormed
<1>5. PolicyTypeOK' /\ WeightsNeverMix' /\ ShapesAgree' /\ NoGrowthLearnsNothing'
  BY <1>1, <1>2, <1>3, <1>4, WellFormedMeansInv DEF PolicyInv, PolicyTypeOK
<1>6. Up'
  BY <1>2, NoPolicyAssumption DEF Up, WellFormed
<1>7. CrashLosesTheCounted'
  <2>1. Persistent => policy.updates = Saved + since
    BY <1>1 DEF PolicyInv, CrashLosesTheCounted
  <2>2. Saved' = Saved /\ Saved \in Nat
    BY <1>1, <1>3 DEF Saved, WellFormed, Policy
  <2>3. QED
    BY <1>1, <1>2, <1>4, <2>1, <2>2 DEF CrashLosesTheCounted
<1>8. LossIsBounded' /\ (saving' # "no" => Persistent /\ since' <= Autosave + failures')
  BY <1>1, <1>4 DEF PolicyInv, LossIsBounded
<1>9. (saving' = "replace" => tmp' = policy') /\ (~Persistent => snapshot' = NoFile)
  BY <1>1 DEF PolicyInv
<1>10. QED
  BY <1>5, <1>6, <1>7, <1>8, <1>9 DEF PolicyInv

\* A flush only begins to save.
LEMMA FlushOK == ASSUME PolicyInv, Flush PROVE PolicyInv'
<1>1. /\ policy' = policy /\ since' = since /\ tmp' = tmp /\ snapshot' = snapshot
      /\ failures' = failures /\ saving = "no" /\ saving' = "write" /\ Persistent
      /\ Up /\ (Up' <=> Up)
  BY DEF Flush, files, Up
<1>2. PolicyTypeOK' /\ WeightsNeverMix' /\ ShapesAgree' /\ NoGrowthLearnsNothing'
  BY <1>1 DEF PolicyInv, PolicyTypeOK, WeightsNeverMix, ShapesAgree,
              NoGrowthLearnsNothing
<1>3. CrashLosesTheCounted'
  BY <1>1 DEF PolicyInv, CrashLosesTheCounted, Saved
<1>4. since < Autosave + failures /\ since \in Nat /\ failures \in Nat
  BY <1>1 DEF PolicyInv, LossIsBounded, PolicyTypeOK
<1>5. LossIsBounded' /\ since' <= Autosave + failures'
  BY <1>1, <1>4 DEF LossIsBounded
<1>6. QED
  BY <1>1, <1>2, <1>3, <1>5 DEF PolicyInv

\* The temporary file is the policy in memory; the snapshot is not touched.
LEMMA WriteTmpOK == ASSUME PolicyInv, WriteTmp PROVE PolicyInv'
<1>1. /\ policy' = policy /\ since' = since /\ tmp' = policy /\ snapshot' = snapshot
      /\ failures' = failures /\ saving = "write" /\ saving' = "replace"
      /\ Up /\ (Up' <=> Up)
  BY DEF WriteTmp, PolicyInv, Up
<1>2. policy \in Policy
  BY <1>1 DEF PolicyInv, PolicyTypeOK, Up
<1>3. PolicyTypeOK' /\ WeightsNeverMix' /\ ShapesAgree' /\ NoGrowthLearnsNothing'
  BY <1>1, <1>2 DEF PolicyInv, PolicyTypeOK, WeightsNeverMix, ShapesAgree,
              NoGrowthLearnsNothing
<1>4. CrashLosesTheCounted' /\ LossIsBounded'
  BY <1>1 DEF PolicyInv, CrashLosesTheCounted, Saved, LossIsBounded
<1>5. QED
  BY <1>1, <1>3, <1>4 DEF PolicyInv

\* The snapshot catches up with the memory and the count starts again.
LEMMA ReplaceOK == ASSUME PolicyInv, Replace PROVE PolicyInv'
<1>1. /\ policy' = policy /\ since' = 0 /\ tmp' = NoFile /\ snapshot' = policy
      /\ failures' = 0 /\ saving' = "no" /\ Persistent /\ Up
  BY DEF Replace, PolicyInv
<1>2. WellFormed(policy)
  BY <1>1, InvMeansWellFormed
<1>3. policy \in Policy /\ policy.updates \in Nat /\ policy # NoFile
  BY <1>2 DEF WellFormed, Policy
<1>4. PolicyTypeOK' /\ WeightsNeverMix' /\ ShapesAgree' /\ NoGrowthLearnsNothing'
  BY <1>1, <1>2, <1>3, WellFormedMeansInv DEF PolicyTypeOK
<1>5. CrashLosesTheCounted' /\ LossIsBounded'
  BY <1>1, <1>3 DEF CrashLosesTheCounted, LossIsBounded, Saved
<1>6. QED
  BY <1>1, <1>4, <1>5 DEF PolicyInv

\* A failing save leaves snapshot and count, and allows one more update.
LEMMA PersistFailsOK == ASSUME PolicyInv, PersistFails PROVE PolicyInv'
<1>1. /\ policy' = policy /\ since' = since /\ tmp' \in {tmp, Torn} /\ snapshot' = snapshot
      /\ failures' = failures + 1 /\ saving # "no" /\ saving' = "no"
  BY DEF PersistFails
<1>2. PolicyTypeOK' /\ WeightsNeverMix' /\ ShapesAgree' /\ NoGrowthLearnsNothing'
  BY <1>1 DEF PolicyInv, PolicyTypeOK, WeightsNeverMix, ShapesAgree,
              NoGrowthLearnsNothing, Up
<1>3. CrashLosesTheCounted'
  BY <1>1 DEF PolicyInv, CrashLosesTheCounted, Saved, Up
<1>4. since <= Autosave + failures /\ since \in Nat /\ failures \in Nat
  BY <1>1 DEF PolicyInv, PolicyTypeOK
<1>5. LossIsBounded'
  BY <1>1, <1>4 DEF LossIsBounded
<1>6. QED
  BY <1>1, <1>2, <1>3, <1>5 DEF PolicyInv

\* The policy of the snapshot, a fresh one or none, with nothing counted.
LEMMA RestartOK == ASSUME PolicyInv, Restart PROVE PolicyInv'
<1>1. PICK c \in Deployments : policy' = Load(snapshot, c)
  BY DEF Restart
<1>2. /\ since' = 0 /\ tmp' \in {tmp, Torn} /\ snapshot' = snapshot /\ failures' = 0
      /\ saving' = "no"
  BY DEF Restart
<1>3. snapshot # NoFile => WellFormed(snapshot) /\ Persistent
  BY InvMeansWellFormed
<1>4. \/ policy' = NoPolicy
      \/ snapshot # NoFile /\ policy' = snapshot
      \/ snapshot = NoFile /\ WellFormed(policy') /\ policy'.updates = 0
  BY <1>1, <1>3, LoadIsWellFormed
<1>5. PolicyTypeOK' /\ WeightsNeverMix' /\ ShapesAgree' /\ NoGrowthLearnsNothing'
  <2>1. (Up' => WellFormed(policy')) /\ (snapshot' # NoFile => WellFormed(snapshot'))
    BY <1>2, <1>3, <1>4 DEF Up
  <2>2. QED
    BY <1>2, <2>1, WellFormedMeansInv DEF PolicyInv, PolicyTypeOK
<1>6. snapshot # NoFile => snapshot.updates \in Nat
  BY <1>3 DEF WellFormed, Policy
<1>7. CrashLosesTheCounted' /\ LossIsBounded'
  BY <1>2, <1>4, <1>6 DEF CrashLosesTheCounted, LossIsBounded, Saved, Up
<1>8. QED
  BY <1>2, <1>5, <1>7 DEF PolicyInv

\* Nothing changes.
LEMMA StutterOK == ASSUME PolicyInv, UNCHANGED vars PROVE PolicyInv'
BY DEF vars, files, PolicyInv, PolicyTypeOK, WeightsNeverMix, ShapesAgree, Up,
       NoGrowthLearnsNothing, CrashLosesTheCounted, LossIsBounded, Saved

\* The inductive invariant: positions and weights agree, in memory and on disk, and
\* the snapshot lags by what has been counted since the last flush.
THEOREM PolicyInvariant == Spec => []PolicyInv
<1>1. PolicyInv /\ [Next]_vars => PolicyInv'
  BY SelectOK, UpdateOK, FlushOK, WriteTmpOK, ReplaceOK, PersistFailsOK, RestartOK,
     StutterOK DEF Next
<1>2. QED
  BY InitOK, <1>1, PTL DEF Spec

\* Every variable keeps its type; in particular the snapshot file is never torn,
\* wherever the process dies.
THEOREM SnapshotIsWhole == Spec => []PolicyTypeOK
<1>1. PolicyInv => PolicyTypeOK
  BY DEF PolicyInv
<1>2. QED
  BY PolicyInvariant, <1>1, PTL

\* No weight ever mixes the values of two features, across growth, updates, failed
\* saves and restarts.
THEOREM WeightsStayPure == Spec => []WeightsNeverMix
<1>1. PolicyInv => WeightsNeverMix
  BY DEF PolicyInv
<1>2. QED
  BY PolicyInvariant, <1>1, PTL

\* Whatever configurations are deployed one after the other, the matrices in use have
\* the number and the dimension the policy in use takes them to have.
THEOREM ShapesStay == Spec => []ShapesAgree
<1>1. PolicyInv => ShapesAgree
  BY DEF PolicyInv
<1>2. QED
  BY PolicyInvariant, <1>1, PTL

\* A policy that was made without growth has no features and has learnt nothing.
THEOREM NothingIsLearnt == Spec => []NoGrowthLearnsNothing
<1>1. PolicyInv => NoGrowthLearnsNothing
  BY DEF PolicyInv
<1>2. QED
  BY PolicyInvariant, <1>1, PTL

\* A crash loses exactly the updates counted since the last successful flush.
THEOREM CrashLoss == Spec => []CrashLosesTheCounted
<1>1. PolicyInv => CrashLosesTheCounted
  BY DEF PolicyInv
<1>2. QED
  BY PolicyInvariant, <1>1, PTL

\* Between calls these are fewer than the autosave interval, failures to persist aside.
THEOREM BoundedLoss == Spec => []LossIsBounded
<1>1. PolicyInv => LossIsBounded
  BY DEF PolicyInv
<1>2. QED
  BY PolicyInvariant, <1>1, PTL

=============================================================================
