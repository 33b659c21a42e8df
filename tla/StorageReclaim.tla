--------------------------- MODULE StorageReclaim ---------------------------
(***************************************************************************)
(* StorageService (storage.py): a plan lists the Cargo outputs that may be *)
(* deleted, a later reclaim validates the plan and has them deleted.  The  *)
(* service owns nothing of what it looks at: builds, users and Git go on   *)
(* between any two of its looks, several calls run at once, and a call may *)
(* fail half-way.  One repository has one output, so an output also stands *)
(* for its repository.                                                     *)
(***************************************************************************)
EXTENDS Naturals, FiniteSets

CONSTANTS Targets,    \* Cargo outputs of the workspace
          Planners,   \* calls of plan
          Reclaims,   \* calls of reclaim
          MaxChanges, \* changes the world makes (a bound on the model)
          MaxRestarts \* restarts of the service

ASSUME BoundsAssumption == MaxChanges \in Nat /\ MaxRestarts \in Nat

Absent == 0
None == "none"

VARIABLES
    tree,     \* the content of each output, a version; Absent: no such path
    head,     \* the commit of its repository
    ready,    \* the repository is clean, on its default branch, has one
              \* worktree and a manifest; the tree has no link or mount
    use,      \* what the processes that work in it are to an observer
    latest, changes, restarts,
    at, todo, found, complete, seen, facts,   \* plan: the calls
    plans,    \* _plans
    pc, plan, chosen, left, target, removed, scan,   \* reclaim: the calls
    begun,    \* history: the trees as each reclaim began
    busy      \* history: outputs in use ever since it had validated the plan

world == <<tree, head, ready, use, latest, changes>>
planning == <<at, todo, found, complete, seen, facts>>
reclaiming == <<pc, plan, chosen, left, target, removed, scan>>
history == <<begun, busy>>
vars == <<world, restarts, planning, plans, reclaiming, history>>

Facts == [tree : Nat, head : Nat]
Snapshot == [busy : SUBSET Targets, incomplete : BOOLEAN]
Nothing == [busy |-> {}, incomplete |-> FALSE]
NoPlan == [state |-> "none", selected |-> <<>>]

TypeOK ==
    /\ tree \in [Targets -> 0..latest] /\ head \in [Targets -> Nat]
    /\ ready \in [Targets -> BOOLEAN] /\ use \in [Targets -> {"idle", "plain", "hidden"}]
    /\ at \in [Planners -> {"idle", "discovered", "assessing", "done"}]
    /\ todo \in [Planners -> SUBSET Targets] /\ found \in [Planners -> SUBSET Targets]
    /\ complete \in [Planners -> BOOLEAN] /\ seen \in [Planners -> Snapshot]
    /\ \A p \in Planners : facts[p] \in [Targets -> Facts]
    /\ \A p \in Planners : /\ plans[p].state \in {"none", "fresh", "expired"}
                           /\ DOMAIN plans[p].selected \subseteq Targets
    /\ pc \in [Reclaims -> {"idle", "accepted", "validating", "checking", "cleaning",
                            "verifying", "done", "failed"}]
    /\ plan \in [Reclaims -> Planners \cup {None}]
    /\ \A c \in Reclaims : left[c] \subseteq DOMAIN chosen[c]
    /\ target \in [Reclaims -> Targets \cup {None}] /\ removed \in [Reclaims -> SUBSET Targets]
    /\ scan \in [Reclaims -> Snapshot]
    /\ restarts \in 0..MaxRestarts

Init ==
    /\ tree = [t \in Targets |-> 1] /\ head = [t \in Targets |-> 1]
    /\ ready = [t \in Targets |-> TRUE] /\ use = [t \in Targets |-> "idle"]
    /\ latest = 1 /\ changes = 0 /\ restarts = 0
    /\ at = [p \in Planners |-> "idle"] /\ todo = [p \in Planners |-> {}]
    /\ found = [p \in Planners |-> {}] /\ complete = [p \in Planners |-> TRUE]
    /\ seen = [p \in Planners |-> Nothing]
    /\ facts = [p \in Planners |-> [t \in Targets |-> [tree |-> 0, head |-> 0]]]
    /\ plans = [p \in Planners |-> NoPlan]
    /\ pc = [c \in Reclaims |-> "idle"] /\ plan = [c \in Reclaims |-> None]
    /\ chosen = [c \in Reclaims |-> <<>>] /\ left = [c \in Reclaims |-> {}]
    /\ target = [c \in Reclaims |-> None] /\ removed = [c \in Reclaims |-> {}]
    /\ scan = [c \in Reclaims |-> Nothing]
    /\ begun = [c \in Reclaims |-> tree] /\ busy = [c \in Reclaims |-> {}]

-----------------------------------------------------------------------------
(* The world.                                                              *)
Change == changes < MaxChanges /\ changes' = changes + 1

(* A process begins to work in an output.  A hidden one is one that /proc  *)
(* may not show and of which lsof only says that it cannot tell; what      *)
(* neither of them betrays is beyond the service and beyond the model.     *)
StartUse(t, how) ==
    /\ Change /\ use[t] = "idle"
    /\ use' = [use EXCEPT ![t] = how]
    /\ UNCHANGED <<tree, head, ready, latest, restarts, planning, plans, reclaiming,
                   history>>

EndUse(t) ==
    /\ use[t] # "idle"
    /\ use' = [use EXCEPT ![t] = "idle"]
    /\ busy' = [c \in Reclaims |-> busy[c] \ {t}]
    /\ UNCHANGED <<tree, head, ready, latest, changes, restarts, planning, plans,
                   reclaiming, begun>>

(* It writes there; an output that was deleted is made anew.               *)
Build(t) ==
    /\ Change /\ use[t] # "idle"
    /\ latest' = latest + 1 /\ tree' = [tree EXCEPT ![t] = latest + 1]
    /\ UNCHANGED <<head, ready, use, restarts, planning, plans, reclaiming, history>>

(* A commit; or the repository or the tree gets or loses what forbids a    *)
(* deletion.                                                               *)
Edit(t) ==
    /\ Change
    /\ \/ head' = [head EXCEPT ![t] = @ + 1] /\ UNCHANGED ready
       \/ ready' = [ready EXCEPT ![t] = ~@] /\ UNCHANGED head
    /\ UNCHANGED <<tree, use, latest, restarts, planning, plans, reclaiming, history>>

-----------------------------------------------------------------------------
(* What the service can see.                                               *)

Exists(t) == tree[t] # Absent

(* _process_snapshot: a process it cannot read makes it incomplete, unless *)
(* it is one that only lsof would have missed.                             *)
Snapshots ==
    LET plain == {t \in Targets : use[t] = "plain"}
        hidden == {t \in Targets : use[t] = "hidden"}
    IN {[busy |-> plain, incomplete |-> i] : i \in IF hidden = {} THEN {FALSE} ELSE BOOLEAN}

(* _process_references: the earlier snapshot first, then lsof as it is     *)
(* now, which a process without open files escapes and which may not know. *)
Referenced(t, s) ==
    IF t \in s.busy THEN {"yes"}
    ELSE IF use[t] = "idle" THEN {"no"}
    ELSE IF use[t] = "plain" THEN {"yes", "no"}
    ELSE {"unknown"}

(* _repository_state, and _manifest of the tree.                           *)
RepositoryState(t) == [safe |-> ready[t], head |-> head[t]]
Manifest(t) == tree[t]

(* _assess finds nothing against the deletion of t ...                     *)
Assessed(t, s) ==
    Exists(t) /\ RepositoryState(t).safe /\ ~s.incomplete /\ "no" \in Referenced(t, s)

(* ... and says what identifies it.                                        *)
Facing(t) == [tree |-> Manifest(t), head |-> RepositoryState(t).head]

-----------------------------------------------------------------------------
(* plan.                                                                   *)

(* _discover_roots; a walk that hit an error or a limit is not complete.   *)
Discover(p) ==
    /\ at[p] = "idle" /\ at' = [at EXCEPT ![p] = "discovered"]
    /\ \E all \in BOOLEAN, roots \in SUBSET {t \in Targets : Exists(t)} :
          /\ all => roots = {t \in Targets : Exists(t)}
          /\ complete' = [complete EXCEPT ![p] = all]
          /\ todo' = [todo EXCEPT ![p] = roots]
    /\ UNCHANGED <<world, restarts, found, seen, facts, plans, reclaiming, history>>

PlanSnapshot(p) ==
    /\ at[p] = "discovered" /\ at' = [at EXCEPT ![p] = "assessing"]
    /\ \E s \in Snapshots : seen' = [seen EXCEPT ![p] = s]
    /\ UNCHANGED <<world, restarts, todo, found, complete, facts, plans, reclaiming,
                   history>>

(* One output after the other; git, du and lsof can always fail.           *)
PlanAssess(p, t) ==
    /\ at[p] = "assessing" /\ t \in todo[p]
    /\ todo' = [todo EXCEPT ![p] = @ \ {t}]
    /\ \/ UNCHANGED <<found, facts>>
       \/ /\ Assessed(t, seen[p])
          /\ found' = [found EXCEPT ![p] = @ \cup {t}]
          /\ facts' = [facts EXCEPT ![p][t] = Facing(t)]
    /\ UNCHANGED <<world, restarts, at, complete, seen, plans, reclaiming, history>>

(* The plan is kept, and the expired ones are dropped.  A partial scan     *)
(* cannot authorize a deletion.                                            *)
Publish(p) ==
    /\ at[p] = "assessing" /\ todo[p] = {}
    /\ at' = [at EXCEPT ![p] = "done"]
    /\ LET eligible == IF complete[p] /\ ~seen[p].incomplete THEN found[p] ELSE {}
       IN plans' = [q \in Planners |->
              IF q = p THEN [state |-> "fresh",
                             selected |-> [t \in eligible |-> facts[p][t]]]
              ELSE IF plans[q].state = "expired" THEN NoPlan ELSE plans[q]]
    /\ UNCHANGED <<world, restarts, todo, found, complete, seen, facts, reclaiming, history>>

(* Its 15 minutes are over.                                                *)
Expire(p) ==
    /\ plans[p].state = "fresh"
    /\ plans' = [plans EXCEPT ![p].state = "expired"]
    /\ UNCHANGED <<world, restarts, planning, reclaiming, history>>

-----------------------------------------------------------------------------
(* reclaim.                                                                *)

Become(c, place) == pc' = [pc EXCEPT ![c] = place]

(* What the call may delete.                                               *)
Planned(c) == DOMAIN chosen[c]

(* The plan is looked up under the lock and stays in the table; an expired *)
(* one is dropped.  A plan without outputs is used up at once.             *)
Lookup(c, p) ==
    /\ pc[c] = "idle"
    /\ plan' = [plan EXCEPT ![c] = p]
    /\ chosen' = [chosen EXCEPT ![c] = plans[p].selected]
    /\ left' = [left EXCEPT ![c] = DOMAIN plans[p].selected]
    /\ begun' = [begun EXCEPT ![c] = tree]
    /\ \/ plans[p].state = "none" /\ Become(c, "failed") /\ UNCHANGED plans
       \/ /\ plans[p].state = "expired"
          /\ Become(c, "failed") /\ plans' = [plans EXCEPT ![p] = NoPlan]
       \/ /\ plans[p].state = "fresh"
          /\ IF DOMAIN plans[p].selected = {}
             THEN Become(c, "done") /\ plans' = [plans EXCEPT ![p] = NoPlan]
             ELSE Become(c, "accepted") /\ UNCHANGED plans
    /\ UNCHANGED <<world, restarts, planning, target, removed, scan, busy>>

ReclaimSnapshot(c) ==
    /\ pc[c] = "accepted"
    /\ \E s \in Snapshots :
          /\ scan' = [scan EXCEPT ![c] = s]
          /\ Become(c, IF s.incomplete THEN "failed" ELSE "validating")
    /\ UNCHANGED <<world, restarts, planning, plans, plan, chosen, left, target,
                   removed, history>>

(* A slip: what was read for the plan is not compared with what is there.  *)
StillSafe(c, t) == Assessed(t, scan[c])

(* An output is as safe as it was for the plan, and it is the same.        *)
AsPlanned(c, t) == Assessed(t, scan[c]) /\ Facing(t) = chosen[c][t]

(* "Validate every entry before the first deletion": one after the other;  *)
(* the first that fails, and any command that does, ends the call.         *)
Validate(c, t) ==
    /\ pc[c] = "validating" /\ t \in left[c]
    /\ \/ /\ AsPlanned(c, t)
          /\ IF left[c] = {t}
             THEN /\ Become(c, "checking") /\ left' = [left EXCEPT ![c] = Planned(c)]
                  /\ busy' = [busy EXCEPT ![c] = {u \in Targets : use[u] # "idle"}]
             ELSE UNCHANGED <<pc, busy>> /\ left' = [left EXCEPT ![c] = @ \ {t}]
       \/ Become(c, "failed") /\ UNCHANGED <<left, busy>>
    /\ UNCHANGED <<world, restarts, planning, plans, plan, chosen, target, removed,
                   scan, begun>>

(* A slip: a check that could not tell does not count.                     *)
NotSeenUsed(t, s) ==
    Exists(t) /\ ~s.incomplete /\ Referenced(t, s) \cap {"no", "unknown"} # {}

(* No process uses the output; a check that could not tell is in the way.  *)
Unused(t, s) == Exists(t) /\ ~s.incomplete /\ "no" \in Referenced(t, s)

(* The processes again, right before the deletion of the next output.      *)
Recheck(c, t) ==
    /\ pc[c] = "checking" /\ t \in left[c]
    /\ \/ /\ \E s \in Snapshots : Unused(t, s)
          /\ Become(c, "cleaning")
          /\ target' = [target EXCEPT ![c] = t] /\ left' = [left EXCEPT ![c] = @ \ {t}]
       \/ Become(c, "failed") /\ UNCHANGED <<target, left>>
    /\ UNCHANGED <<world, restarts, planning, plans, plan, chosen, removed, scan, history>>

(* cargo clean: it succeeds, or it fails and leaves the path, whole or in  *)
(* part.                                                                   *)
Clean(c) ==
    LET t == target[c] IN
    /\ pc[c] = "cleaning"
    /\ \/ /\ tree' = [tree EXCEPT ![t] = Absent]
          /\ removed' = [removed EXCEPT ![c] = @ \cup {t}]
          /\ Become(c, "verifying") /\ UNCHANGED latest
       \/ /\ Become(c, "failed") /\ UNCHANGED removed
          /\ \/ UNCHANGED <<tree, latest>>
             \/ /\ Exists(t) /\ latest' = latest + 1
                /\ tree' = [tree EXCEPT ![t] = latest + 1]
    /\ UNCHANGED <<head, ready, use, changes, restarts, planning, plans, plan, chosen,
                   left, target, scan, history>>

(* The path must be gone; then the next output, or the end, where the plan *)
(* is taken out of the table.                                              *)
Verify(c) ==
    /\ pc[c] = "verifying"
    /\ IF Exists(target[c]) THEN Become(c, "failed") /\ UNCHANGED plans
       ELSE IF left[c] # {} THEN Become(c, "checking") /\ UNCHANGED plans
       ELSE Become(c, "done") /\ plans' = [plans EXCEPT ![plan[c]] = NoPlan]
    /\ UNCHANGED <<world, restarts, planning, plan, chosen, left, target, removed, scan,
                   history>>

-----------------------------------------------------------------------------
(* The service dies: the calls end, and the plans are gone.                *)
Restart ==
    /\ restarts < MaxRestarts /\ restarts' = restarts + 1
    /\ at' = [p \in Planners |-> IF at[p] = "idle" THEN "idle" ELSE "done"]
    /\ pc' = [c \in Reclaims |-> IF pc[c] \in {"idle", "done"} THEN pc[c] ELSE "failed"]
    /\ plans' = [p \in Planners |-> NoPlan]
    /\ UNCHANGED <<world, todo, found, complete, seen, facts, plan, chosen, left, target,
                   removed, scan, history>>

World ==
    \E t \in Targets : \/ \E how \in {"plain", "hidden"} : StartUse(t, how)
                       \/ EndUse(t) \/ Build(t) \/ Edit(t)

Plan(p) == \/ Discover(p) \/ PlanSnapshot(p) \/ \E t \in Targets : PlanAssess(p, t)
           \/ Publish(p) \/ Expire(p)

Reclaim(c) ==
    \/ \E p \in Planners : Lookup(c, p)
    \/ ReclaimSnapshot(c) \/ Clean(c) \/ Verify(c)
    \/ \E t \in Targets : Validate(c, t) \/ Recheck(c, t)

Next == World \/ (\E p \in Planners : Plan(p)) \/ (\E c \in Reclaims : Reclaim(c)) \/ Restart

Spec == Init /\ [][Next]_vars

-----------------------------------------------------------------------------
(* A stale plan is all or nothing: when any of its outputs had changed as  *)
(* the reclaim began, the reclaim deletes none of them, whatever else goes *)
(* on.                                                                     *)
StalePlanDeletesNothing ==
    \A c \in Reclaims : pc[c] = "cleaning" \/ removed[c] # {} =>
        \A t \in Planned(c) : begun[c][t] = chosen[c][t].tree

(* An output that a process uses ever since the plan was validated, or     *)
(* longer, is not deleted, not even one whose use the service cannot see   *)
(* for certain; and the state has its types.                               *)
BusyTreeIsKept ==
    /\ TypeOK
    /\ \A c \in Reclaims : pc[c] = "cleaning" => target[c] \notin busy[c]
=============================================================================
