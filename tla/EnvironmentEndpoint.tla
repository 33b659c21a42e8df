------------------------ MODULE EnvironmentEndpoint ------------------------
(***************************************************************************)
(* EnvironmentRPCServer (environment_rpc.py): the endpoint through which   *)
(* executions reach the Environment.  Every connection is served by a      *)
(* thread of its own: it proves a grant, registers its request, takes the  *)
(* lock of the grant's selection and the lock of the session, runs the     *)
(* Environment's command line and records the answer.  A thread that       *)
(* acquires a claim which another session holds first fences that session, *)
(* looks twice for signs of life, revokes its grants in between and lets   *)
(* the Environment move the claim.                                         *)
(***************************************************************************)
EXTENDS Naturals, Sequences, SequencesExt

CONSTANTS Conns,      \* connections; each carries one request
          Crowds,     \* sets of them that may come together
          Ids,        \* request identities
          Grants,     \* capabilities; a new one has no selected session
          Sessions,
          Repositories,
          Request,    \* [Ids -> [command, sessions it may be about, repository]]
          Carries,    \* [Conns -> [id, grant]]; two with one id: a retry
          Issued,     \* [grants that exist at first -> their selection]
          Expiring,   \* grants whose time may run out
          Ending,     \* grants of jobs that may end
          Holders,    \* [repositories -> who may hold the claim at first]
          Outcomes,   \* of a command: "exits", "times out"
          MaxRecords, \* answers kept (2048 in the code)
          MaxRestarts \* restarts of the service

None == "none"
Commands == {"inspect", "artifact-read", "checkpoint", "continuation", "acquire"}
Answers == {"ok", "failed", "denied", "ambiguous"}

ASSUME RequestAssumption ==
    /\ Request \in [Ids -> [command : Commands, sessions : SUBSET (Sessions \cup {None}),
                           repository : Repositories]]
    /\ Carries \in [Conns -> [id : Ids, grant : Grants]]
    /\ None \notin Sessions /\ None \notin Conns

ASSUME FirstAssumption ==
    /\ \A g \in DOMAIN Issued : g \in Grants /\ Issued[g] \in Sessions \cup {None}
    /\ \A p \in Repositories : Holders[p] \subseteq Sessions \cup {None}
    /\ MaxRecords \in Nat \ {0} /\ MaxRestarts \in Nat

VARIABLES at,       \* where each connection's thread is
          answer,   \* what it is going to reply
          session,  \* the session its request is about
          live,     \* _grants
          lapsed,   \* grants that expired or were revoked for their job's end
          spent,    \* grants that were issued
          bound,    \* bound_session_id of each grant
          active,   \* _active_requests
          records,  \* _request_records: identities, least recently used first
          recorded, \* and their answers
          condition,\* holder of _request_condition across steps
          selection,\* holder of each grant's selection_lock
          lock,     \* holder of each session's lock
          fenced,   \* _fenced_sessions
          repository, \* holder of each repository fence (process manager)
          claim,    \* the claim on each repository in the Environment's store
          wanted,   \* the claim as the recovering thread read it
          runs,     \* runs of each request since its answer was forgotten
          restarts

threads == <<at, answer, session, wanted>>
grants == <<live, lapsed, spent, bound>>
requests == <<active, records, recorded, runs>>
locks == <<condition, selection, lock, fenced, repository>>
vars == <<threads, grants, requests, locks, claim, restarts>>

Places == {"idle", "arrived", "waiting", "cached", "queued", "selected", "held",
           "claiming", "recovering", "fencing", "validating", "before", "revoking", "grants",
           "after", "publishing", "releasing", "unfencing", "running", "leaving",
           "recording", "answered", "lost"}
Claim == [holder : Sessions \cup {None}, version : Nat]

TypeOK ==
    /\ at \in [Conns -> Places]
    /\ answer \in [Conns -> Answers \cup {None}]
    /\ session \in [Conns -> Sessions \cup {None}]
    /\ live \subseteq spent /\ lapsed \subseteq spent /\ spent \subseteq Grants
    /\ bound \in [Grants -> Sessions \cup {None}]
    /\ active \subseteq Ids
    /\ ToSet(records) \subseteq Ids /\ Len(records) <= MaxRecords
    /\ recorded \in [Ids -> Answers \cup {None}]
    /\ condition \in Conns \cup {None}
    /\ selection \in [Grants -> Conns \cup {None}]
    /\ lock \in [Sessions -> Conns \cup {None}]
    /\ fenced \subseteq Sessions
    /\ repository \in [Repositories -> Conns \cup {None}]
    /\ claim \in [Repositories -> Claim] /\ wanted \in [Conns -> Claim]
    /\ runs \in [Ids -> 0..2] /\ restarts \in 0..MaxRestarts

Init ==
    /\ \E crowd \in Crowds : at = [c \in Conns |-> IF c \in crowd THEN "idle" ELSE "lost"]
    /\ answer = [c \in Conns |-> None]
    /\ session = [c \in Conns |-> None]
    /\ live = DOMAIN Issued /\ lapsed = {} /\ spent = DOMAIN Issued
    /\ bound = [g \in Grants |-> IF g \in DOMAIN Issued THEN Issued[g] ELSE None]
    /\ active = {} /\ records = <<>> /\ recorded = [i \in Ids |-> None]
    /\ condition = None /\ selection = [g \in Grants |-> None]
    /\ lock = [s \in Sessions |-> None] /\ fenced = {}
    /\ repository = [p \in Repositories |-> None]
    /\ \E h \in [Repositories -> Sessions \cup {None}] :
          /\ \A p \in Repositories : h[p] \in Holders[p]
          /\ claim = [p \in Repositories |-> [holder |-> h[p], version |-> 0]]
    /\ wanted = [c \in Conns |-> [holder |-> None, version |-> 0]]
    /\ runs = [i \in Ids |-> 0] /\ restarts = 0

Id(c) == Carries[c].id
Grant(c) == Carries[c].grant
Command(c) == Request[Id(c)].command

(* The scope of the claim that is asked for, of the worktree and the paths *)
(* its arguments name: a repository stands for one such scope.             *)
Repository(c) == Request[Id(c)].repository
Held(c) == claim[Repository(c)]
Moved(c) == [claim EXCEPT ![Repository(c)] =
                 [holder |-> session[c], version |-> @.version + 1]]

(* The commands that work under the selection of their grant, and those of *)
(* them that need their session to be the one selected.                    *)
TakesSelection(c) == Command(c) # "inspect"
NeedsSelected(c) == Command(c) \in {"artifact-read", "checkpoint", "acquire"}

Go(c, place) == at' = [at EXCEPT ![c] = place]
Say(c, what, place) == Go(c, place) /\ answer' = [answer EXCEPT ![c] = what]

-----------------------------------------------------------------------------
(* issue_grant, and issue_local_project_grant for a local bridge, for an   *)
(* execution that is about to start: what has expired is swept out.        *)
IssueGrant(g) ==
    /\ g \notin spent /\ \E c \in Conns : Grant(c) = g /\ at[c] = "idle"
    /\ live' = (live \ lapsed) \cup {g} /\ spent' = spent \cup {g}
    /\ UNCHANGED <<threads, lapsed, bound, requests, locks, claim, restarts>>

(* expires_at passes; the grant stays in _grants until it is swept out.    *)
Expire(g) ==
    /\ g \in (Expiring \cap live) \ lapsed
    /\ lapsed' = lapsed \cup {g}
    /\ UNCHANGED <<threads, live, spent, bound, requests, locks, claim, restarts>>

(* revoke_grant: the job of the grant has ended or is cleaned up (steps of *)
(* TerminalJobs), under no selection lock.                                 *)
RevokeGrant(g) ==
    /\ g \in Ending \cap live
    /\ lapsed' = lapsed \cup {g} /\ live' = live \ {g}
    /\ UNCHANGED <<threads, spent, bound, requests, locks, claim, restarts>>

Lapse(g) == Expire(g) \/ RevokeGrant(g)

(* _grant: the capability is known and has not expired.                    *)
Proved(g) == g \in live \ lapsed

(* The session that a request is about is read from its arguments or, for  *)
(* a continuation, its grant.                                              *)
RequestSessions(c) == IF Command(c) = "continuation" THEN {bound[Grant(c)]}
                                                     ELSE Request[Id(c)].sessions

(* The connection is accepted and its grant proved.                        *)
Arrive(c) ==
    /\ at[c] = "idle" /\ Grant(c) \in spent
    /\ IF Proved(Grant(c))
       THEN /\ Go(c, "arrived") /\ UNCHANGED answer
            /\ \E s \in RequestSessions(c) : session' = [session EXCEPT ![c] = s]
       ELSE Say(c, "denied", "answered") /\ UNCHANGED session
    /\ UNCHANGED <<wanted, grants, requests, locks, claim, restarts>>

LastUsed(i) == Append(RemoveFirst(records, i), i)

(* A slip: a request that is being served is registered once more.         *)
RegisterAgain(c) ==
    /\ at[c] \in {"arrived", "waiting"} /\ condition = None
    /\ IF recorded[Id(c)] # None
       THEN /\ Say(c, recorded[Id(c)], "answered") /\ records' = LastUsed(Id(c))
            /\ UNCHANGED active
       ELSE Go(c, "queued") /\ active' = active \cup {Id(c)} /\ UNCHANGED <<answer, records>>
    /\ UNCHANGED <<session, wanted, grants, recorded, runs, locks, claim, restarts>>

(* Under _request_condition: a request that is being served is waited for, *)
(* one that was answered gets its answer again -- an artifact-read only    *)
(* under the selection lock, for which the condition is kept -- and any    *)
(* other one is now being served.  (An identity stands for one operation:  *)
(* the error for one that is used for another is left out.)                *)
Register(c) ==
    /\ at[c] \in {"arrived", "waiting"} /\ condition = None
    /\ \/ /\ Id(c) \in active /\ at[c] = "arrived"
          /\ Go(c, "waiting")
          /\ UNCHANGED <<answer, active, records, condition>>
       \/ /\ Id(c) \notin active /\ recorded[Id(c)] # None
          /\ records' = LastUsed(Id(c))
          /\ IF Command(c) = "artifact-read"
             THEN Go(c, "cached") /\ condition' = c /\ UNCHANGED answer
             ELSE Say(c, recorded[Id(c)], "answered") /\ UNCHANGED condition
          /\ UNCHANGED active
       \/ /\ Id(c) \notin active /\ recorded[Id(c)] = None
          /\ Go(c, "queued") /\ active' = active \cup {Id(c)}
          /\ UNCHANGED <<answer, records, condition>>
    /\ UNCHANGED <<session, wanted, grants, recorded, runs, selection, lock, fenced,
                   repository, claim, restarts>>

(* A wait of 250 seconds has passed and the request is still being served. *)
GiveUp(c) ==
    /\ at[c] = "waiting" /\ condition = None /\ Id(c) \in active
    /\ Say(c, "ambiguous", "answered")
    /\ UNCHANGED <<session, wanted, grants, requests, locks, claim, restarts>>

(* The answer to an artifact-read is given again to its selected session,  *)
(* if _authorize_session still finds it in order.                          *)
ReadCached(c) ==
    /\ at[c] = "cached" /\ selection[Grant(c)] = None
    /\ \/ bound[Grant(c)] = session[c] /\ Say(c, recorded[Id(c)], "answered")
       \/ Say(c, "denied", "answered")
    /\ condition' = None
    /\ UNCHANGED <<session, wanted, grants, requests, selection, lock, fenced,
                   repository, claim, restarts>>

TakeSelection(c) ==
    /\ at[c] = "queued" /\ TakesSelection(c)
    /\ selection[Grant(c)] = None
    /\ selection' = [selection EXCEPT ![Grant(c)] = c]
    /\ Go(c, "selected")
    /\ UNCHANGED <<answer, session, wanted, grants, requests, condition, lock, fenced,
                   repository, claim, restarts>>

TakeSession(c) ==
    /\ at[c] = IF TakesSelection(c) THEN "selected" ELSE "queued"
    /\ \/ session[c] = None /\ UNCHANGED lock
       \/ /\ session[c] # None /\ lock[session[c]] = None
          /\ lock' = [lock EXCEPT ![session[c]] = c]
    /\ Go(c, "held")
    /\ UNCHANGED <<answer, session, wanted, grants, requests, condition, selection,
                   fenced, repository, claim, restarts>>

Unfenced(c) == session[c] \notin fenced

(* A slip: the grant is not proved again once the locks are held.          *)
AdmittedOnce(c) == /\ Unfenced(c)
                   /\ NeedsSelected(c) => bound[Grant(c)] = session[c]

(* What is asked again under the locks: the session is not fenced, the     *)
(* grant is still good, and its selection is the session to be changed.    *)
Admitted(c) == /\ Unfenced(c)
               /\ Proved(Grant(c))
               /\ NeedsSelected(c) => bound[Grant(c)] = session[c]

Enter(c) ==
    /\ at[c] = "held"
    /\ IF Admitted(c)
       THEN /\ Go(c, IF Command(c) = "acquire" THEN "claiming" ELSE "running")
            /\ bound' = IF Command(c) = "continuation"
                        THEN [bound EXCEPT ![Grant(c)] = None] ELSE bound
            /\ UNCHANGED answer
       ELSE Say(c, "denied", "leaving") /\ UNCHANGED bound
    /\ UNCHANGED <<session, wanted, live, lapsed, spent, requests, locks, claim, restarts>>

(* The Environment's command, which may exceed its response window, or for *)
(* a continuation the service's own search for a session to select.        *)
Run(c) ==
    /\ at[c] = "running"
    /\ \/ Say(c, "ok", "leaving") \/ Say(c, "failed", "leaving")
       \/ "times out" \in Outcomes /\ Command(c) # "continuation"
          /\ Say(c, "ambiguous", "leaving")
    /\ runs' = [runs EXCEPT ![Id(c)] = @ + 1]
    /\ claim' = IF Command(c) = "acquire" /\ answer'[c] = "ok" /\ Held(c).holder = None
                THEN Moved(c) ELSE claim
    /\ Command(c) = "acquire" /\ answer'[c] = "ok" =>
           Held(c).holder \in {None, session[c]}
    /\ IF Command(c) = "continuation" /\ answer'[c] = "ok"
       THEN \E s \in Sessions : bound' = [bound EXCEPT ![Grant(c)] = s]
       ELSE UNCHANGED bound
    /\ UNCHANGED <<session, wanted, live, lapsed, spent, active, records, recorded, locks,
                   restarts>>

(* The locks are given up, and then the answer is recorded.                *)
Leave(c) ==
    /\ at[c] = "leaving" /\ Go(c, "recording")
    /\ lock' = [s \in Sessions |-> IF lock[s] = c THEN None ELSE lock[s]]
    /\ selection' = [g \in Grants |-> IF selection[g] = c THEN None ELSE selection[g]]
    /\ UNCHANGED <<answer, session, wanted, grants, requests, condition, fenced,
                   repository, claim, restarts>>

Record(c) ==
    /\ at[c] = "recording" /\ condition = None
    /\ Go(c, "answered")
    /\ active' = active \ {Id(c)}
    /\ LET kept == LastUsed(Id(c))
           evicted == IF Len(kept) > MaxRecords THEN {Head(kept)} ELSE {}
       IN /\ records' = IF evicted = {} THEN kept ELSE Tail(kept)
          /\ recorded' = [i \in Ids |-> IF i \in evicted THEN None
                                        ELSE IF i = Id(c) THEN answer[c] ELSE recorded[i]]
          /\ runs' = [i \in Ids |-> IF i \in evicted THEN 0 ELSE runs[i]]
    /\ UNCHANGED <<answer, session, wanted, grants, locks, claim, restarts>>

-----------------------------------------------------------------------------
(* _auto_recover_same_operator_claim: the claims are read.  One that is in *)
(* the way is to be recovered, unless it is another principal's or not the *)
(* only one: then, as without any, the ordinary command runs.              *)
Owner(c) == wanted[c].holder
Conflicts(c) == Held(c).holder \notin {None, session[c]}

ReadClaims(c) ==
    /\ at[c] = "claiming"
    /\ \/ Go(c, "running") /\ UNCHANGED wanted
       \/ /\ Conflicts(c)
          /\ Go(c, "recovering") /\ wanted' = [wanted EXCEPT ![c] = Held(c)]
    /\ UNCHANGED <<answer, session, grants, requests, locks, claim, restarts>>

(* _perform_claim_recovery: the owner is fenced, unless another thread is  *)
(* already doing so.                                                       *)
Fence(c) ==
    /\ at[c] = "recovering"
    /\ IF Owner(c) \in fenced
       THEN Say(c, "failed", "leaving") /\ UNCHANGED fenced
       ELSE Go(c, "fencing") /\ fenced' = fenced \cup {Owner(c)} /\ UNCHANGED answer
    /\ UNCHANGED <<session, wanted, grants, requests, condition, selection, lock, repository,
                   claim, restarts>>

(* A slip: the owner's lock is waited for.                                 *)
LockBlocking(c) ==
    /\ at[c] = "fencing" /\ repository[Repository(c)] = None
    /\ lock[Owner(c)] = None
    /\ repository' = [repository EXCEPT ![Repository(c)] = c]
    /\ lock' = [lock EXCEPT ![Owner(c)] = c]
    /\ Go(c, "validating")
    /\ UNCHANGED <<answer, session, wanted, grants, requests, condition, selection,
                   fenced, claim, restarts>>

(* The repository is fenced for new jobs and the lock of the owner taken;  *)
(* neither is waited for.                                                  *)
LockOwner(c) ==
    /\ at[c] = "fencing"
    /\ IF repository[Repository(c)] = None /\ lock[Owner(c)] = None
       THEN /\ repository' = [repository EXCEPT ![Repository(c)] = c]
            /\ lock' = [lock EXCEPT ![Owner(c)] = c]
            /\ Go(c, "validating") /\ UNCHANGED <<answer, fenced>>
       ELSE /\ Say(c, "failed", "leaving") /\ fenced' = fenced \ {Owner(c)}
            /\ UNCHANGED <<repository, lock>>
    /\ UNCHANGED <<session, wanted, grants, requests, condition, selection, claim, restarts>>

(* The store still has the claim as it was read.                           *)
Validate(c) ==
    /\ at[c] = "validating"
    /\ IF Held(c) = wanted[c] THEN Go(c, "before") /\ UNCHANGED answer
                            ELSE Say(c, "failed", "releasing")
    /\ UNCHANGED <<session, wanted, grants, requests, locks, claim, restarts>>

(* Another request of the owner's session is being served.                 *)
OwnerActs(c) ==
    \E d \in Conns : /\ Id(d) \in active /\ Id(d) # Id(c) /\ session[d] = Owner(c)
                     /\ at[d] \notin {"idle", "arrived", "waiting", "answered", "lost"}

(* Signs of life: such a request, or what the host shows of processes,     *)
(* jobs and services (any outcome here: HostInventory has the processes,   *)
(* TerminalJobs the jobs).                                                 *)
Inspect(c, place, next) ==
    /\ at[c] = place /\ condition = None
    /\ \/ ~OwnerActs(c) /\ Go(c, next) /\ UNCHANGED answer
       \/ Say(c, "failed", "releasing")
    /\ UNCHANGED <<session, wanted, grants, requests, locks, claim, restarts>>

InspectBefore(c) == Inspect(c, "before", "revoking")
InspectAfter(c) == Inspect(c, "after", "publishing")

Selecting(o) == {g \in live : bound[g] = o}

RevokeOwner(c) ==
    /\ at[c] = "revoking" /\ Go(c, "grants")
    /\ live' = live \ Selecting(Owner(c))
    /\ UNCHANGED <<answer, session, wanted, lapsed, spent, bound, requests, locks, claim,
                   restarts>>

InspectGrants(c) ==
    /\ at[c] = "grants"
    /\ IF Selecting(Owner(c)) = {} THEN Go(c, "after") /\ UNCHANGED answer
                                   ELSE Say(c, "failed", "releasing")
    /\ UNCHANGED <<session, wanted, grants, requests, locks, claim, restarts>>

(* The Environment moves the claim if it is still the one that was read.   *)
Publish(c) ==
    /\ at[c] = "publishing"
    /\ runs' = [runs EXCEPT ![Id(c)] = @ + 1]
    /\ \/ /\ Held(c) = wanted[c] /\ claim' = Moved(c)
          /\ Say(c, "ok", "releasing")
       \/ Say(c, "failed", "releasing") /\ UNCHANGED claim
    /\ UNCHANGED <<session, wanted, grants, active, records, recorded, locks, restarts>>

(* The finally block: lock and repository first, the fence of the session  *)
(* last.                                                                   *)
ReleaseOwner(c) ==
    /\ at[c] = "releasing" /\ Go(c, "unfencing")
    /\ lock' = [s \in Sessions |-> IF s = Owner(c) /\ lock[s] = c THEN None ELSE lock[s]]
    /\ repository' = [repository EXCEPT ![Repository(c)] = None]
    /\ UNCHANGED <<answer, session, wanted, grants, requests, condition, selection,
                   fenced, claim, restarts>>

Unfence(c) ==
    /\ at[c] = "unfencing" /\ Go(c, "leaving")
    /\ fenced' = fenced \ {Owner(c)}
    /\ UNCHANGED <<answer, session, wanted, grants, requests, condition, selection,
                   lock, repository, claim, restarts>>

-----------------------------------------------------------------------------
(* The service dies and comes back: grants, answers, locks and fences were *)
(* in its memory, its connections break.                                   *)
Restart ==
    /\ restarts < MaxRestarts /\ restarts' = restarts + 1
    /\ at' = [c \in Conns |-> IF at[c] \in {"idle", "answered"} THEN at[c] ELSE "lost"]
    /\ live' = {} /\ active' = {} /\ records' = <<>>
    /\ recorded' = [i \in Ids |-> None] /\ runs' = [i \in Ids |-> 0]
    /\ condition' = None /\ selection' = [g \in Grants |-> None]
    /\ lock' = [s \in Sessions |-> None] /\ fenced' = {}
    /\ repository' = [p \in Repositories |-> None]
    /\ UNCHANGED <<answer, session, wanted, lapsed, spent, bound, claim>>

(* What a thread does after it registered, but for the inspections.        *)
Handle(c) ==
    \/ ReadCached(c) \/ TakeSelection(c) \/ TakeSession(c)
    \/ Enter(c) \/ Run(c) \/ Leave(c) \/ Record(c)
    \/ ReadClaims(c) \/ Fence(c) \/ LockOwner(c) \/ Validate(c) \/ RevokeOwner(c)
    \/ InspectGrants(c) \/ Publish(c) \/ ReleaseOwner(c) \/ Unfence(c)

Serve(c) == Register(c) \/ Handle(c) \/ InspectBefore(c) \/ InspectAfter(c)

Next ==
    \/ \E c \in Conns : Arrive(c) \/ Serve(c) \/ GiveUp(c)
    \/ \E g \in Grants : IssueGrant(g) \/ Lapse(g)
    \/ Restart

Spec == Init /\ [][Next]_vars

(* As long as some thread can go on, some thread does; clients, hosts and  *)
(* timers owe nothing.  Nothing more is needed: a connection carries one   *)
(* request, and no step of a thread is undone by another.                  *)
FairSpec == Spec /\ WF_vars(\E c \in Conns : Serve(c))

-----------------------------------------------------------------------------
Ledger == INSTANCE RequestLedger
          WITH Asks <- [c \in Conns |-> Id(c)],
               told <- [c \in Conns |-> IF at[c] = "answered" THEN answer[c] ELSE None]

(* The endpoint keeps its promise: a request is run once as long as its    *)
(* answer is kept, its retries wait for it or get its answer, "without a   *)
(* second authoritative publication".                                      *)
KeepsTheLedger == Ledger!Spec

(* A recovery: what it does between taking the owner's lock and giving it  *)
(* up again.                                                               *)
Recovers(c, o) ==
    /\ Owner(c) = o
    /\ at[c] \in {"validating", "before", "revoking", "grants", "after", "publishing",
                  "releasing"}

(* While a request that changes a session is inside the Environment its    *)
(* grant selects that session, and no recovery looks for signs of life of  *)
(* that session or takes its grants; a grant that a recovery has taken     *)
(* runs nothing any more: one that is gone lapsed by itself, by expiry or  *)
(* the end of its job, which may happen at any time, also under a running  *)
(* request.  And the state has its types.                                  *)
RunsUnderItsGrant ==
    /\ TypeOK
    /\ \A c \in Conns : at[c] = "running" /\ NeedsSelected(c) =>
           /\ bound[Grant(c)] = session[c]
           /\ Grant(c) \in live \cup lapsed
           /\ \A d \in Conns : ~Recovers(d, session[c])

(* Every request that reached the service is answered, whoever waits for   *)
(* whom, unless the service died: it comes to rest again and again.        *)
EveryRequestAnswered ==
    []<>(\A c \in Conns : at[c] \in {"idle", "answered", "lost"})
=============================================================================
