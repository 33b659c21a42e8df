------------------------ MODULE StorageReclaim_proofs -----------------------
(***************************************************************************)
(* The safety of StorageReclaim for every set of outputs, plans and calls, *)
(* and every number of changes and restarts.                               *)
(*                                                                         *)
(* A reclaim compares an output with its plan when it validates, not when  *)
(* it begins.  That the output then was the planned one already as it      *)
(* began rests on what versions are: every write makes one that never was, *)
(* so an output that had left its planned version does not come back to    *)
(* it.  VersionInv says this of each call, from the moment it begins.      *)
(***************************************************************************)
EXTENDS StorageReclaim, TLAPS

(* What a plan may select: facts of some outputs.                          *)
Selections == UNION {[S -> Facts] : S \in SUBSET Targets}

(* The types of what TypeOK leaves to the invariant.                       *)
WorldOK ==
    /\ latest \in Nat /\ tree \in [Targets -> Nat] /\ head \in [Targets -> Nat]
    /\ ready \in [Targets -> BOOLEAN] /\ use \in [Targets -> {"idle", "plain", "hidden"}]
    /\ \A t \in Targets : tree[t] <= latest
    /\ restarts \in 0..MaxRestarts

PlanningOK ==
    /\ at \in [Planners -> {"idle", "discovered", "assessing", "done"}]
    /\ todo \in [Planners -> SUBSET Targets] /\ found \in [Planners -> SUBSET Targets]
    /\ complete \in [Planners -> BOOLEAN] /\ seen \in [Planners -> Snapshot]
    /\ facts \in [Planners -> [Targets -> Facts]]

PlansOK == plans \in [Planners -> [state : {"none", "fresh", "expired"},
                                   selected : Selections]]

CallsOK ==
    /\ pc \in [Reclaims -> {"idle", "accepted", "validating", "checking", "cleaning",
                            "verifying", "done", "failed"}]
    /\ plan \in [Reclaims -> Planners \cup {None}]
    /\ chosen \in [Reclaims -> Selections]
    /\ left \in [Reclaims -> SUBSET Targets]
    /\ \A c \in Reclaims : left[c] \subseteq DOMAIN chosen[c]
    /\ scan \in [Reclaims -> Snapshot]

RemovalOK ==
    /\ target \in [Reclaims -> Targets \cup {None}]
    /\ removed \in [Reclaims -> SUBSET Targets]
    /\ \A c \in Reclaims : pc[c] = "cleaning" => target[c] \in Targets

HistoryOK ==
    /\ begun \in [Reclaims -> [Targets -> Nat]]
    /\ busy \in [Reclaims -> SUBSET Targets]

Typed == WorldOK /\ PlanningOK /\ PlansOK /\ CallsOK /\ RemovalOK /\ HistoryOK

(* A version that was read existed, and is not one that is yet to come.    *)
Known(v) == 1 <= v /\ v <= latest

FactsInv ==
    /\ \A p \in Planners : \A t \in found[p] : Known(facts[p][t].tree)
    /\ \A p \in Planners : \A t \in DOMAIN plans[p].selected :
          Known(plans[p].selected[t].tree)
    /\ \A c \in Reclaims : \A t \in Planned(c) : Known(chosen[c][t].tree)

(* Output t has been the planned one ever since call c began.              *)
Fresh(c, t) == begun[c][t] = chosen[c][t].tree

Validated(c) == pc[c] \in {"checking", "cleaning", "verifying"} \/ removed[c] # {}

VersionInv ==
    \A c \in Reclaims :
        /\ \A t \in Planned(c) : Fresh(c, t) \/ tree[t] # chosen[c][t].tree
        /\ pc[c] \in {"idle", "accepted", "validating"} => removed[c] = {}
        /\ pc[c] \in {"accepted", "validating"} => \A t \in Planned(c) \ left[c] : Fresh(c, t)
        /\ Validated(c) => \A t \in Planned(c) : Fresh(c, t)

BusyInv ==
    \A c \in Reclaims : /\ \A t \in busy[c] : use[t] # "idle"
                        /\ pc[c] = "cleaning" => target[c] \notin busy[c]

IInv == Typed /\ FactsInv /\ VersionInv /\ BusyInv
-----------------------------------------------------------------------------
LEMMA EmptySelection == <<>> \in Selections /\ DOMAIN <<>> = {}
<1>1. <<>> \in [{} -> Facts]
  OBVIOUS
<1> QED
  BY <1>1 DEF Selections

LEMMA Selection ==
    ASSUME NEW S \in SUBSET Targets, NEW f \in [Targets -> Facts]
    PROVE  [t \in S |-> f[t]] \in Selections
<1>1. [t \in S |-> f[t]] \in [S -> Facts]
  OBVIOUS
<1> QED
  BY <1>1 DEF Selections

LEMMA Flip ==
    ASSUME NEW S, NEW f \in [S -> BOOLEAN], NEW x \in S
    PROVE  [f EXCEPT ![x] = ~@] \in [S -> BOOLEAN]
  OBVIOUS

LEMMA Initially == Init => IInv
<1> SUFFICES ASSUME Init PROVE IInv
  OBVIOUS
<1> USE EmptySelection, BoundsAssumption DEF Init
<1>1. WorldOK
  BY DEF WorldOK
<1>2. PlanningOK
  BY DEF PlanningOK, Nothing, Snapshot, Facts
<1>3. PlansOK
  BY DEF PlansOK, NoPlan
<1>4. CallsOK
  BY DEF CallsOK, Nothing, Snapshot
<1>5. RemovalOK /\ HistoryOK
  BY DEF RemovalOK, HistoryOK
<1>6. FactsInv
  BY DEF FactsInv, NoPlan, Planned
<1>7. VersionInv /\ BusyInv
  BY DEF VersionInv, BusyInv, Validated, Planned
<1> QED
  BY <1>1, <1>2, <1>3, <1>4, <1>5, <1>6, <1>7 DEF IInv, Typed

-----------------------------------------------------------------------------
(* Every step keeps the types, and no version comes back.                  *)
LEMMA WorldStep ==
    ASSUME WorldOK, RemovalOK, [Next]_vars
    PROVE  /\ WorldOK'
           /\ latest <= latest'
           /\ \A t \in Targets : tree'[t] \in {tree[t], Absent} \/ latest < tree'[t]
<1> USE BoundsAssumption DEF WorldOK, Absent
<1> DEFINE Kept == /\ WorldOK' /\ latest <= latest'
                   /\ \A t \in Targets : tree'[t] \in {tree[t], Absent} \/ latest < tree'[t]
<1>1. ASSUME NEW t \in Targets, NEW how \in {"plain", "hidden"}, StartUse(t, how) PROVE Kept
  BY <1>1 DEF StartUse
<1>2. ASSUME NEW t \in Targets, EndUse(t) PROVE Kept
  BY <1>2 DEF EndUse
<1>3. ASSUME NEW t \in Targets, Build(t) PROVE Kept
  BY <1>3 DEF Build
<1>4. ASSUME NEW t \in Targets, Edit(t) PROVE Kept
  <2>1. ready' \in [Targets -> BOOLEAN]
    BY <1>4, Flip DEF Edit
  <2> QED
    BY <1>4, <2>1 DEF Edit
<1>5. ASSUME NEW c \in Reclaims, Clean(c) PROVE Kept
  <2>1. target[c] \in Targets
    BY <1>5 DEF Clean, RemovalOK
  <2> QED
    BY <1>5, <2>1 DEF Clean
<1>6. CASE Restart
  BY <1>6 DEF Restart, world
<1>7. CASE UNCHANGED <<world, restarts>>
  BY <1>7 DEF world
<1> QED
  BY <1>1, <1>2, <1>3, <1>4, <1>5, <1>6, <1>7
     DEF Next, World, Plan, Reclaim, Discover, PlanSnapshot, PlanAssess, Publish, Expire,
         Lookup,
         ReclaimSnapshot, Validate, Recheck, Verify, vars

LEMMA SnapshotType == Snapshots \subseteq Snapshot
<1> SUFFICES ASSUME NEW s \in Snapshots PROVE s \in Snapshot
  OBVIOUS
<1>1. PICK i \in BOOLEAN : s = [busy |-> {t \in Targets : use[t] = "plain"}, incomplete |-> i]
  BY DEF Snapshots
<1> QED
  BY <1>1 DEF Snapshot

LEMMA PlanningStep == ASSUME WorldOK, PlanningOK, [Next]_vars PROVE PlanningOK'
<1> USE DEF PlanningOK
<1>1. ASSUME NEW p \in Planners, Discover(p) PROVE PlanningOK'
  BY <1>1 DEF Discover
<1>2. ASSUME NEW p \in Planners, PlanSnapshot(p) PROVE PlanningOK'
  BY <1>2, SnapshotType DEF PlanSnapshot
<1>3. ASSUME NEW p \in Planners, NEW t \in Targets, PlanAssess(p, t) PROVE PlanningOK'
  <2>1. Facing(t) \in Facts
    BY DEF WorldOK, Facing, Facts, Manifest, RepositoryState
  <2> DEFINE mine == [facts[p] EXCEPT ![t] = Facing(t)]
  <2>2. mine \in [Targets -> Facts]
    BY <2>1
  <2>3. facts' \in {facts, [facts EXCEPT ![p] = mine]}
    BY <1>3 DEF PlanAssess
  <2> HIDE DEF mine
  <2>4. facts' \in [Planners -> [Targets -> Facts]]
    BY <2>2, <2>3
  <2>5. todo' \in [Planners -> SUBSET Targets] /\ found' \in [Planners -> SUBSET Targets]
    BY <1>3 DEF PlanAssess
  <2>6. UNCHANGED <<at, complete, seen>>
    BY <1>3 DEF PlanAssess
  <2> QED
    BY <2>4, <2>5, <2>6
<1>4. ASSUME NEW p \in Planners, Publish(p) PROVE PlanningOK'
  BY <1>4 DEF Publish
<1>5. CASE Restart
  BY <1>5 DEF Restart
<1>6. CASE UNCHANGED planning
  BY <1>6 DEF planning
<1> QED
  BY <1>1, <1>2, <1>3, <1>4, <1>5, <1>6
     DEF Next, World, Plan, Reclaim, StartUse, EndUse, Build, Edit, Expire, Lookup,
         ReclaimSnapshot, Validate, Recheck, Clean, Verify, vars

(* The plan that a step makes or drops.                                    *)
LEMMA PlansStep == ASSUME PlanningOK, PlansOK, [Next]_vars PROVE PlansOK'
<1> USE EmptySelection DEF PlansOK
<1>0. NoPlan \in [state : {"none", "fresh", "expired"}, selected : Selections]
  BY DEF NoPlan
<1>1. ASSUME NEW p \in Planners, Publish(p) PROVE PlansOK'
  <2> DEFINE eligible == IF complete[p] /\ ~seen[p].incomplete THEN found[p] ELSE {}
  <2>1. [t \in eligible |-> facts[p][t]] \in Selections
    BY Selection DEF PlanningOK
  <2> DEFINE made == [state |-> "fresh", selected |-> [t \in eligible |-> facts[p][t]]]
  <2>2. made \in [state : {"none", "fresh", "expired"}, selected : Selections]
    BY <2>1
  <2>3. plans' = [q \in Planners |-> IF q = p THEN made
                                     ELSE IF plans[q].state = "expired" THEN NoPlan ELSE plans[q]]
    BY <1>1 DEF Publish
  <2> HIDE DEF made
  <2> QED
    BY <1>0, <2>2, <2>3
<1>2. ASSUME NEW p \in Planners, Expire(p) PROVE PlansOK'
  <2> DEFINE late == [plans[p] EXCEPT !.state = "expired"]
  <2>1. late \in [state : {"none", "fresh", "expired"}, selected : Selections]
    OBVIOUS
  <2>2. plans' = [plans EXCEPT ![p] = late]
    BY <1>2 DEF Expire
  <2> HIDE DEF late
  <2> QED
    BY <2>1, <2>2
<1>3. ASSUME NEW c \in Reclaims, NEW p \in Planners, Lookup(c, p) PROVE PlansOK'
  BY <1>0, <1>3 DEF Lookup
<1>4. ASSUME NEW c \in Reclaims, Verify(c) PROVE PlansOK'
  BY <1>0, <1>4 DEF Verify
<1>5. CASE Restart
  BY <1>0, <1>5 DEF Restart
<1>6. CASE UNCHANGED plans
  BY <1>6
<1> QED
  BY <1>1, <1>2, <1>3, <1>4, <1>5, <1>6
     DEF Next, World, Plan, Reclaim, StartUse, EndUse, Build, Edit, Discover, PlanSnapshot,
         PlanAssess, ReclaimSnapshot, Validate, Recheck, Clean, vars

LEMMA CallsStep == ASSUME PlansOK, CallsOK, [Next]_vars PROVE CallsOK'
<1> USE DEF CallsOK, Become, Planned
<1>1. ASSUME NEW c \in Reclaims, NEW p \in Planners, Lookup(c, p) PROVE CallsOK'
  <2>1. plans[p].selected \in Selections /\ DOMAIN plans[p].selected \subseteq Targets
    BY DEF PlansOK, Selections
  <2> QED
    BY <1>1, <2>1 DEF Lookup
<1>2. ASSUME NEW c \in Reclaims, ReclaimSnapshot(c) PROVE CallsOK'
  BY <1>2, SnapshotType DEF ReclaimSnapshot
<1>3. ASSUME NEW c \in Reclaims, NEW t \in Targets, Validate(c, t) PROVE CallsOK'
  <2>1. DOMAIN chosen[c] \subseteq Targets
    BY DEF Selections
  <2> QED
    BY <1>3, <2>1 DEF Validate
<1>4. ASSUME NEW c \in Reclaims, NEW t \in Targets, Recheck(c, t) PROVE CallsOK'
  BY <1>4 DEF Recheck
<1>5. ASSUME NEW c \in Reclaims, Clean(c) \/ Verify(c) PROVE CallsOK'
  BY <1>5 DEF Clean, Verify
<1>6. CASE Restart
  BY <1>6 DEF Restart
<1>7. CASE UNCHANGED <<pc, plan, chosen, left, scan>>
  BY <1>7
<1> QED
  BY <1>1, <1>2, <1>3, <1>4, <1>5, <1>6, <1>7
     DEF Next, World, Plan, Reclaim, StartUse, EndUse, Build, Edit, Discover, PlanSnapshot,
         PlanAssess, Publish, Expire, reclaiming, vars

LEMMA RemovalStep == ASSUME CallsOK, RemovalOK, [Next]_vars PROVE RemovalOK'
<1> USE DEF CallsOK, RemovalOK, Become
<1>1. ASSUME NEW c \in Reclaims, NEW p \in Planners, Lookup(c, p) PROVE RemovalOK'
  BY <1>1 DEF Lookup
<1>2. ASSUME NEW c \in Reclaims, ReclaimSnapshot(c) PROVE RemovalOK'
  BY <1>2 DEF ReclaimSnapshot
<1>3. ASSUME NEW c \in Reclaims, NEW t \in Targets, Validate(c, t) PROVE RemovalOK'
  BY <1>3 DEF Validate
<1>4. ASSUME NEW c \in Reclaims, NEW t \in Targets, Recheck(c, t) PROVE RemovalOK'
  BY <1>4 DEF Recheck
<1>5. ASSUME NEW c \in Reclaims, Clean(c) \/ Verify(c) PROVE RemovalOK'
  BY <1>5 DEF Clean, Verify
<1>6. CASE Restart
  BY <1>6 DEF Restart
<1>7. CASE UNCHANGED <<pc, target, removed>>
  BY <1>7
<1> QED
  BY <1>1, <1>2, <1>3, <1>4, <1>5, <1>6, <1>7
     DEF Next, World, Plan, Reclaim, StartUse, EndUse, Build, Edit, Discover, PlanSnapshot,
         PlanAssess, Publish, Expire, reclaiming, vars

LEMMA HistoryStep == ASSUME WorldOK, HistoryOK, [Next]_vars PROVE HistoryOK'
<1> USE DEF WorldOK, HistoryOK
<1>1. ASSUME NEW t \in Targets, EndUse(t) PROVE HistoryOK'
  BY <1>1 DEF EndUse
<1>2. ASSUME NEW c \in Reclaims, NEW p \in Planners, Lookup(c, p) PROVE HistoryOK'
  BY <1>2 DEF Lookup
<1>3. ASSUME NEW c \in Reclaims, NEW t \in Targets, Validate(c, t) PROVE HistoryOK'
  BY <1>3 DEF Validate
<1>4. CASE UNCHANGED history
  BY <1>4 DEF history
<1> QED
  BY <1>1, <1>2, <1>3, <1>4
     DEF Next, World, Plan, Reclaim, StartUse, Build, Edit, Discover, PlanSnapshot,
         PlanAssess, Publish, Expire, ReclaimSnapshot, Recheck, Clean, Verify, Restart, history,
         vars

LEMMA TypedStep == Typed /\ [Next]_vars => Typed'
  BY WorldStep, PlanningStep, PlansStep, CallsStep, RemovalStep, HistoryStep DEF Typed

-----------------------------------------------------------------------------
(* What a plan knows of an output is a version that was.                   *)
LEMMA FactsStep == ASSUME Typed, FactsInv, [Next]_vars PROVE FactsInv'
<1> USE DEF FactsInv, Known, Planned
<1>0. latest \in Nat /\ latest' \in Nat /\ latest <= latest'
  BY WorldStep DEF Typed, WorldOK
<1>1. /\ \A p \in Planners : \A t \in Targets : facts[p][t].tree \in Nat
      /\ \A p \in Planners : found[p] \subseteq Targets
      /\ \A p \in Planners : \A t \in DOMAIN plans[p].selected : plans[p].selected[t].tree \in Nat
      /\ \A c \in Reclaims : \A t \in DOMAIN chosen[c] : chosen[c][t].tree \in Nat
  BY DEF Typed, PlanningOK, PlansOK, CallsOK, Selections, Facts
<1>2. ASSUME NEW p \in Planners, NEW t \in Targets, PlanAssess(p, t) PROVE FactsInv'
  <2>1. UNCHANGED <<plans, chosen, latest>>
    BY <1>2 DEF PlanAssess, world, reclaiming
  <2>2. CASE UNCHANGED <<found, facts>>
    BY <2>1, <2>2
  <2>3. CASE /\ Assessed(t, seen[p])
             /\ found' = [found EXCEPT ![p] = @ \cup {t}]
             /\ facts' = [facts EXCEPT ![p][t] = Facing(t)]
    <3>1. Facing(t).tree = tree[t] /\ 1 <= tree[t] /\ tree[t] <= latest
      BY <2>3 DEF Typed, WorldOK, Assessed, Exists, Absent, Facing, Manifest
    <3>2. facts' = [facts EXCEPT ![p] = [facts[p] EXCEPT ![t] = Facing(t)]]
      BY <2>3 DEF Typed, PlanningOK
    <3>3. \A q \in Planners : \A u \in Targets :
             facts'[q][u] = IF q = p /\ u = t THEN Facing(t) ELSE facts[q][u]
      BY <3>2 DEF Typed, PlanningOK
    <3>4. \A q \in Planners : found'[q] = IF q = p THEN found[p] \cup {t} ELSE found[q]
      BY <2>3 DEF Typed, PlanningOK
    <3>5. \A q \in Planners : \A u \in found'[q] : 1 <= facts'[q][u].tree /\ facts'[q][u].tree <= latest
      BY <1>1, <3>1, <3>3, <3>4
    <3> QED
      BY <2>1, <3>5
  <2> QED
    BY <1>2, <2>2, <2>3 DEF PlanAssess
<1>3. ASSUME NEW p \in Planners, Publish(p) PROVE FactsInv'
  <2>1. UNCHANGED <<found, facts, chosen, latest>>
    BY <1>3 DEF Publish, world, reclaiming
  <2>2. \A q \in Planners : \A t \in DOMAIN plans'[q].selected :
           /\ 1 <= plans'[q].selected[t].tree
           /\ plans'[q].selected[t].tree <= latest
    <3> SUFFICES ASSUME NEW q \in Planners, NEW t \in DOMAIN plans'[q].selected
                 PROVE  /\ 1 <= plans'[q].selected[t].tree
                        /\ plans'[q].selected[t].tree <= latest
      OBVIOUS
    <3>1. CASE q = p
      <4> DEFINE eligible == IF complete[p] /\ ~seen[p].incomplete THEN found[p] ELSE {}
      <4>1. plans'[q].selected = [u \in eligible |-> facts[p][u]]
        BY <1>3, <3>1 DEF Publish
      <4> QED
        BY <4>1
    <3>2. CASE q # p
      <4>1. plans'[q].selected \in {<<>>, plans[q].selected}
        BY <1>3, <3>2 DEF Publish, NoPlan
      <4> QED
        BY <4>1, EmptySelection
    <3> QED
      BY <3>1, <3>2
  <2> QED
    BY <2>1, <2>2
<1>4. ASSUME NEW p \in Planners, Expire(p) PROVE FactsInv'
  <2>1. \A q \in Planners : plans'[q].selected = plans[q].selected
    BY <1>4 DEF Expire, Typed, PlansOK
  <2> QED
    BY <1>4, <2>1 DEF Expire, world, planning, reclaiming
<1>5. ASSUME NEW c \in Reclaims, NEW p \in Planners, Lookup(c, p) PROVE FactsInv'
  <2>1. \A q \in Planners : plans'[q].selected \in {<<>>, plans[q].selected}
    BY <1>5 DEF Lookup, NoPlan, Typed, PlansOK
  <2>2. chosen' = [chosen EXCEPT ![c] = plans[p].selected]
    BY <1>5 DEF Lookup
  <2>3. UNCHANGED <<found, facts, latest>>
    BY <1>5 DEF Lookup, world, planning
  <2> QED
    BY <2>1, <2>2, <2>3, EmptySelection DEF Typed, CallsOK
<1>6. ASSUME NEW c \in Reclaims, Verify(c) PROVE FactsInv'
  <2>1. \A q \in Planners : plans'[q].selected \in {<<>>, plans[q].selected}
    BY <1>6 DEF Verify, NoPlan, Typed, PlansOK
  <2> QED
    BY <1>6, <2>1, EmptySelection DEF Verify, world, planning
<1>7. CASE Restart
  <2>1. \A q \in Planners : plans'[q].selected = <<>>
    BY <1>7 DEF Restart, NoPlan
  <2> QED
    BY <1>7, <2>1, EmptySelection DEF Restart, world
<1>8. CASE UNCHANGED <<found, facts, plans, chosen>>
  BY <1>0, <1>1, <1>8
<1> QED
  BY <1>2, <1>3, <1>4, <1>5, <1>6, <1>7, <1>8
     DEF Next, World, Plan, Reclaim, StartUse, EndUse, Build, Edit, Discover, PlanSnapshot,
         ReclaimSnapshot, Validate, Recheck, Clean, planning, reclaiming, vars

(* The output that was validated is the one that was there at the begin.   *)
LEMMA VersionStep == ASSUME Typed, FactsInv, VersionInv, [Next]_vars PROVE VersionInv'
<1> USE DEF Planned, Fresh, Become
<1>0. /\ latest \in Nat /\ tree \in [Targets -> Nat] /\ tree' \in [Targets -> Nat]
      /\ \A t \in Targets : tree'[t] \in {tree[t], 0} \/ latest < tree'[t]
  BY WorldStep DEF Typed, WorldOK, Absent
<1>1. \A c \in Reclaims : \A t \in DOMAIN chosen[c] :
         /\ t \in Targets /\ chosen[c][t].tree \in Nat
         /\ 1 <= chosen[c][t].tree /\ chosen[c][t].tree <= latest
  BY DEF Typed, CallsOK, Selections, Facts, FactsInv, Known
<1> DEFINE Apart(c) == \A t \in DOMAIN chosen[c] :
                          \/ begun[c][t] = chosen[c][t].tree
                          \/ tree[t] # chosen[c][t].tree
           Quiet(c) == pc[c] \in {"idle", "accepted", "validating"} => removed[c] = {}
           Checked(c) == pc[c] \in {"accepted", "validating"} =>
                            \A t \in DOMAIN chosen[c] \ left[c] : begun[c][t] = chosen[c][t].tree
           Sure(c) == Validated(c) => \A t \in DOMAIN chosen[c] : begun[c][t] = chosen[c][t].tree
           Still(c) == /\ chosen'[c] = chosen[c] /\ begun'[c] = begun[c]
                       /\ pc'[c] = pc[c] /\ left'[c] = left[c] /\ removed'[c] = removed[c]
<1>2. ASSUME NEW c \in Reclaims, chosen'[c] = chosen[c], begun'[c] = begun[c] PROVE Apart(c)'
  <2>1. SUFFICES ASSUME NEW t \in DOMAIN chosen[c], begun[c][t] # chosen[c][t].tree
                 PROVE  tree'[t] # chosen[c][t].tree
    BY <1>2
  <2>2. tree[t] # chosen[c][t].tree
    BY <2>1 DEF VersionInv
  <2> QED
    BY <1>0, <1>1, <2>2
<1>3. ASSUME NEW c \in Reclaims, Still(c) PROVE (Apart(c) /\ Quiet(c) /\ Checked(c) /\ Sure(c))'
  BY <1>2, <1>3 DEF VersionInv, Validated
<1>4. ASSUME NEW c \in Reclaims, NEW p \in Planners, Lookup(c, p) PROVE VersionInv'
  <2>1. \A d \in Reclaims \ {c} : Still(d)
    BY <1>4 DEF Lookup, Typed, CallsOK, RemovalOK, HistoryOK
  <2>2. /\ pc[c] = "idle" /\ pc'[c] \in {"failed", "done", "accepted"}
        /\ removed'[c] = removed[c] /\ removed[c] = {}
        /\ begun'[c] = tree /\ tree' = tree
        /\ left'[c] = DOMAIN chosen'[c]
    BY <1>4 DEF Lookup, Typed, CallsOK, HistoryOK, VersionInv, world
  <2>3. (Apart(c) /\ Quiet(c) /\ Checked(c) /\ Sure(c))'
    BY <2>2 DEF Validated
  <2> QED
    BY <1>3, <2>1, <2>3 DEF VersionInv
<1>5. ASSUME NEW c \in Reclaims, ReclaimSnapshot(c) PROVE VersionInv'
  <2>1. \A d \in Reclaims \ {c} : Still(d)
    BY <1>5 DEF ReclaimSnapshot, history, Typed, CallsOK, RemovalOK, HistoryOK
  <2>2. /\ pc[c] = "accepted" /\ pc'[c] \in {"failed", "validating"}
        /\ chosen'[c] = chosen[c] /\ begun'[c] = begun[c]
        /\ left'[c] = left[c] /\ removed'[c] = removed[c]
    BY <1>5 DEF ReclaimSnapshot, history, Typed, CallsOK
  <2>3. (Apart(c) /\ Quiet(c) /\ Checked(c) /\ Sure(c))'
    BY <1>2, <2>2 DEF Validated, VersionInv
  <2> QED
    BY <1>3, <2>1, <2>3 DEF VersionInv
<1>6. ASSUME NEW c \in Reclaims, NEW t \in Targets, Validate(c, t) PROVE VersionInv'
  <2>1. \A d \in Reclaims \ {c} : Still(d)
    BY <1>6 DEF Validate, Typed, CallsOK, RemovalOK, HistoryOK
  <2>2. /\ pc[c] = "validating" /\ t \in left[c] /\ left[c] \subseteq DOMAIN chosen[c]
        /\ chosen'[c] = chosen[c] /\ begun'[c] = begun[c] /\ removed'[c] = removed[c]
    BY <1>6 DEF Validate, Typed, CallsOK
  <2>3. \/ /\ AsPlanned(c, t) /\ left[c] = {t} /\ pc'[c] = "checking"
        \/ /\ AsPlanned(c, t) /\ left'[c] = left[c] \ {t} /\ pc'[c] = "validating"
        \/ pc'[c] = "failed"
    BY <1>6, <2>2 DEF Validate, Typed, CallsOK
  <2>4. AsPlanned(c, t) => begun[c][t] = chosen[c][t].tree
    <3>1. AsPlanned(c, t) => tree[t] = chosen[c][t].tree
      BY <2>2 DEF AsPlanned, Facing, Manifest
    <3> QED
      BY <2>2, <3>1 DEF VersionInv
  <2>5. \A u \in DOMAIN chosen[c] \ left[c] : begun[c][u] = chosen[c][u].tree
    BY <2>2 DEF VersionInv
  <2>6. removed[c] = {}
    BY <2>2 DEF VersionInv
  <2>7. (Apart(c) /\ Quiet(c) /\ Checked(c) /\ Sure(c))'
    BY <1>2, <2>2, <2>3, <2>4, <2>5, <2>6 DEF Validated
  <2> QED
    BY <1>3, <2>1, <2>7 DEF VersionInv
<1>7. ASSUME NEW c \in Reclaims, NEW t \in Targets, Recheck(c, t) PROVE VersionInv'
  <2>1. \A d \in Reclaims \ {c} : Still(d)
    BY <1>7 DEF Recheck, history, Typed, CallsOK, RemovalOK, HistoryOK
  <2>2. /\ pc[c] = "checking" /\ pc'[c] \in {"cleaning", "failed"}
        /\ chosen'[c] = chosen[c] /\ begun'[c] = begun[c] /\ removed'[c] = removed[c]
    BY <1>7 DEF Recheck, Typed, CallsOK, history
  <2>3. (Apart(c) /\ Quiet(c) /\ Checked(c) /\ Sure(c))'
    BY <1>2, <2>2 DEF Validated, VersionInv
  <2> QED
    BY <1>3, <2>1, <2>3 DEF VersionInv
<1>8. ASSUME NEW c \in Reclaims, Clean(c) PROVE VersionInv'
  <2>1. \A d \in Reclaims \ {c} : Still(d)
    BY <1>8 DEF Clean, history, Typed, CallsOK, RemovalOK, HistoryOK
  <2>2. /\ pc[c] = "cleaning" /\ pc'[c] \in {"verifying", "failed"}
        /\ chosen'[c] = chosen[c] /\ begun'[c] = begun[c]
    BY <1>8 DEF Clean, Typed, CallsOK, history
  <2>3. (Apart(c) /\ Quiet(c) /\ Checked(c) /\ Sure(c))'
    BY <1>2, <2>2 DEF Validated, VersionInv
  <2> QED
    BY <1>3, <2>1, <2>3 DEF VersionInv
<1>9. ASSUME NEW c \in Reclaims, Verify(c) PROVE VersionInv'
  <2>1. \A d \in Reclaims \ {c} : Still(d)
    BY <1>9 DEF Verify, history, Typed, CallsOK, RemovalOK, HistoryOK
  <2>2. /\ pc[c] = "verifying" /\ pc'[c] \in {"checking", "done", "failed"}
        /\ chosen'[c] = chosen[c] /\ begun'[c] = begun[c]
    BY <1>9 DEF Verify, Typed, CallsOK, history
  <2>3. (Apart(c) /\ Quiet(c) /\ Checked(c) /\ Sure(c))'
    BY <1>2, <2>2 DEF Validated, VersionInv
  <2> QED
    BY <1>3, <2>1, <2>3 DEF VersionInv
<1>10. CASE Restart
  <2>1. SUFFICES ASSUME NEW c \in Reclaims PROVE (Apart(c) /\ Quiet(c) /\ Checked(c) /\ Sure(c))'
    BY DEF VersionInv
  <2>2. /\ pc'[c] \in {pc[c], "failed"}
        /\ chosen'[c] = chosen[c] /\ begun'[c] = begun[c]
        /\ left'[c] = left[c] /\ removed'[c] = removed[c]
    BY <1>10 DEF Restart, history
  <2> QED
    BY <1>2, <2>2 DEF Validated, VersionInv
<1>11. CASE UNCHANGED <<reclaiming, begun>>
  BY <1>3, <1>11 DEF reclaiming, VersionInv
<1> QED
  BY <1>4, <1>5, <1>6, <1>7, <1>8, <1>9, <1>10, <1>11
     DEF Next, World, Plan, Reclaim, StartUse, EndUse, Build, Edit, Discover, PlanSnapshot,
         PlanAssess, Publish, Expire, history, vars

(* What a reclaim is about to delete was seen out of use.                  *)
LEMMA BusyStep == ASSUME Typed, BusyInv, [Next]_vars PROVE BusyInv'
<1> USE DEF BusyInv, Become
<1>1. ASSUME NEW t \in Targets, NEW how \in {"plain", "hidden"}, StartUse(t, how) PROVE BusyInv'
  BY <1>1 DEF StartUse, reclaiming, history, Typed, WorldOK, HistoryOK
<1>2. ASSUME NEW t \in Targets, EndUse(t) PROVE BusyInv'
  BY <1>2 DEF EndUse, reclaiming, Typed, WorldOK, HistoryOK
<1>3. ASSUME NEW c \in Reclaims, NEW p \in Planners, Lookup(c, p) PROVE BusyInv'
  BY <1>3 DEF Lookup, world, Typed, CallsOK
<1>4. ASSUME NEW c \in Reclaims, ReclaimSnapshot(c) PROVE BusyInv'
  BY <1>4 DEF ReclaimSnapshot, world, history, Typed, CallsOK
<1>5. ASSUME NEW c \in Reclaims, NEW t \in Targets, Validate(c, t) PROVE BusyInv'
  BY <1>5 DEF Validate, world, Typed, CallsOK, HistoryOK
<1>6. ASSUME NEW c \in Reclaims, NEW t \in Targets, Recheck(c, t) PROVE BusyInv'
  <2>1. UNCHANGED <<use, busy>>
    BY <1>6 DEF Recheck, world, history
  <2>2. CASE pc' = [pc EXCEPT ![c] = "failed"] /\ UNCHANGED target
    BY <2>1, <2>2 DEF Typed, CallsOK
  <2>3. CASE /\ \E s \in Snapshots : Unused(t, s)
             /\ pc' = [pc EXCEPT ![c] = "cleaning"]
             /\ target' = [target EXCEPT ![c] = t]
    <3>1. use[t] = "idle"
      <4>1. PICK s \in Snapshots : ~s.incomplete /\ "no" \in Referenced(t, s)
        BY <2>3 DEF Unused
      <4>2. use[t] # "hidden"
        BY <4>1 DEF Referenced
      <4>3. PICK i \in BOOLEAN : s = [busy |-> {u \in Targets : use[u] = "plain"}, incomplete |-> i]
        BY DEF Snapshots
      <4> QED
        BY <4>1, <4>2, <4>3 DEF Referenced, Typed, WorldOK
    <3>2. t \notin busy[c]
      BY <3>1
    <3> QED
      BY <2>1, <2>3, <3>2 DEF Typed, CallsOK, RemovalOK
  <2> QED
    BY <1>6, <2>2, <2>3 DEF Recheck
<1>7. ASSUME NEW c \in Reclaims, Clean(c) PROVE BusyInv'
  BY <1>7 DEF Clean, history, Typed, CallsOK
<1>8. ASSUME NEW c \in Reclaims, Verify(c) PROVE BusyInv'
  BY <1>8 DEF Verify, world, history, Typed, CallsOK
<1>9. CASE Restart
  BY <1>9 DEF Restart, world, history
<1>10. CASE UNCHANGED <<use, pc, target, busy>>
  BY <1>10
<1> QED
  BY <1>1, <1>2, <1>3, <1>4, <1>5, <1>6, <1>7, <1>8, <1>9, <1>10
     DEF Next, World, Plan, Reclaim, Build, Edit, Discover, PlanSnapshot,
         PlanAssess, Publish, Expire, world, reclaiming, history, vars

-----------------------------------------------------------------------------
(* The invariant of the service: types, that a plan knows versions that    *)
(* were, that an output which left its planned version does not return to  *)
(* it, and that nothing in use is about to be deleted.                     *)
THEOREM Invariance == Spec => []IInv
<1>1. IInv /\ [Next]_vars => IInv'
  BY TypedStep, FactsStep, VersionStep, BusyStep DEF IInv
<1> QED
  BY <1>1, Initially, PTL DEF Spec

(* A reclaim (storage.py, reclaim) that deletes at all found every output  *)
(* of its plan as planned from its beginning on: one changed output keeps  *)
(* all the others.                                                         *)
THEOREM ThmStalePlanDeletesNothing == Spec => []StalePlanDeletesNothing
<1>1. IInv => StalePlanDeletesNothing
  BY DEF IInv, VersionInv, Validated, Fresh, Planned, StalePlanDeletesNothing
<1> QED
  BY <1>1, Invariance, PTL

(* An output that a process uses ever since the plan was validated is not  *)
(* deleted: the look right before the deletion finds it, or cannot tell.   *)
THEOREM ThmBusyTreeIsKept == Spec => []BusyTreeIsKept
<1>1. Typed => TypeOK
  BY DEF Typed, TypeOK, WorldOK, PlanningOK, PlansOK, CallsOK, RemovalOK, Selections
<1>2. IInv => BusyTreeIsKept
  BY <1>1 DEF IInv, BusyInv, BusyTreeIsKept
<1> QED
  BY <1>2, Invariance, PTL
=============================================================================
