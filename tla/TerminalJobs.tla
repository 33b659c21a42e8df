---------------------------- MODULE TerminalJobs ----------------------------
(***************************************************************************)
(* Asynchronous terminal jobs of ProcessManager (processes.py): start, the *)
(* monitor thread of each job, stop, the claim-recovery fence, the atexit  *)
(* cleanup, and the death and restart of the service process.              *)
(*                                                                         *)
(* phase[t] is where the thread that carries job t stands.  The caller's   *)
(* thread runs start() from "new" to "waiting"; from there it is the       *)
(* monitor thread's turn.  A section under `with self._lock` is one action *)
(* unless something can be observed inside it: start() holds the lock from *)
(* Popen to the end of _persist, and while it reaps a job it could not     *)
(* record, so there `lock` names the holder.                               *)
(***************************************************************************)
EXTENDS JobTable

CONSTANTS Fenced,     \* jobs that start() refuses while the fence is up: the
                      \* workspace-scoped ones and those that overlap the
                      \* checkout (_cwd_overlaps_claim_recovery)
          Related,    \* jobs claim_recovery_job_candidates reports when active
          Requester   \* the jobs whose grant carries the recovery request
ASSUME RecoveryAssumption ==
    Fenced \subseteq Terminals /\ Related \subseteq Terminals
      /\ Requester \subseteq Terminals

VARIABLES phase,     \* program counter of the thread that carries job t
          proc,      \* the sandbox process of t
          grant,     \* the Environment RPC grant issued for t
          held,      \* the keys of _environment_grants
          stopped, timedOut,   \* the flags of the job record
          stopping,  \* jobs some stop() call found running, not yet signalled
          recovery,  \* claim recovery: "idle", "fenced", "quiet"
          doomed     \* cleanup's list of the jobs that were running

jobVars == <<phase, proc, grant, held, stopped, timedOut, stopping>>
termVars == <<phase, proc, grant, held, stopped, timedOut, stopping,
              recovery, doomed>>
vars == <<tableVars, termVars>>

InStart == {"checked", "granted", "prepared"}
InLock == {"launched", "unwinding"}
Watched == {"waiting", "grace", "reaped"}
Ended == {"settled", "done", "died", "refused", "gone"}

TypeOK ==
    /\ TableTypeOK
    /\ phase \in [Terminals -> {"new"} \cup InStart \cup InLock \cup Watched
                                  \cup Ended]
    /\ proc \in [Terminals -> {"none", "live", "exited", "reaped"}]
    /\ grant \in [Terminals -> {"none", "live", "revoked"}]
    /\ held \subseteq Terminals
    /\ stopped \in [Terminals -> BOOLEAN]
    /\ timedOut \in [Terminals -> BOOLEAN]
    /\ stopping \subseteq Terminals
    /\ recovery \in {"idle", "fenced", "quiet"}
    /\ doomed \subseteq Terminals

TerminalInit ==
    /\ phase = [t \in Terminals |-> "new"]
    /\ proc = [t \in Terminals |-> "none"]
    /\ grant = [t \in Terminals |-> "none"]
    /\ held = {}
    /\ stopped = [t \in Terminals |-> FALSE]
    /\ timedOut = [t \in Terminals |-> FALSE]
    /\ stopping = {}
    /\ recovery = "idle"
    /\ doomed = {}

Init == TableInit /\ TerminalInit

Goto(t, from, to) == phase[t] = from /\ phase' = [phase EXCEPT ![t] = to]
RevokeGrant(t) == grant' = [grant EXCEPT ![t] = "revoked"]

-----------------------------------------------------------------------------
(* start()                                                                 *)

Unfenced(t) == t \in Fenced => recovery = "idle"

(* The first look at the fence, under the lock, before anything is made.   *)
StartCheck(t) ==
    /\ LockFree
    /\ Goto(t, "new", IF Unfenced(t) THEN "checked" ELSE "refused")
    /\ UNCHANGED <<tableVars, proc, grant, held, stopped, timedOut, stopping,
                   recovery, doomed>>

(* rpc.issue_grant(resolution), outside the lock.                          *)
IssueGrant(t) ==
    /\ Alive
    /\ Goto(t, "checked", "granted")
    /\ grant' = [grant EXCEPT ![t] = "live"]
    /\ UNCHANGED <<tableVars, proc, held, stopped, timedOut, stopping,
                   recovery, doomed>>

(* A slip: the grant survives a command line that could not be built.      *)
BuildArgvNoRevoke(t) ==
    /\ Alive
    /\ Goto(t, "granted", "prepared") \/ Goto(t, "granted", "refused")
    /\ UNCHANGED <<tableVars, proc, grant, held, stopped, timedOut, stopping,
                   recovery, doomed>>

(* sandbox.command_argv, which may raise.                                  *)
BuildArgv(t) ==
    /\ Alive
    /\ \/ Goto(t, "granted", "prepared") /\ UNCHANGED grant
       \/ Goto(t, "granted", "refused") /\ RevokeGrant(t)
    /\ UNCHANGED <<tableVars, proc, held, stopped, timedOut, stopping,
                   recovery, doomed>>

(* A slip: only the first look at the fence is kept, the one under the     *)
(* lock just before Popen is dropped.                                      *)
AdmissibleNoFence(t) == Cardinality(Running) < MaxJobs

(* A slip: the limit admits one job too many.                              *)
AdmissibleOffByOne(t) == Unfenced(t) /\ Cardinality(Running) <= MaxJobs

(* The second look at the fence and the job limit, under the lock.         *)
Admissible(t) == Unfenced(t) /\ Cardinality(Running) < MaxJobs

(* Admission: refused by the fence, by the limit, or because Popen raised; *)
(* each refusal revokes the grant.                                         *)
Refuse(t) ==
    /\ LockFree
    /\ Goto(t, "prepared", "refused")
    /\ RevokeGrant(t)
    /\ UNCHANGED <<tableVars, proc, held, stopped, timedOut, stopping,
                   recovery, doomed>>

(* Popen, then the record and the grant enter the tables.                  *)
Launch(t) ==
    /\ LockFree
    /\ Admissible(t)
    /\ Goto(t, "prepared", "launched")
    /\ lock' = t
    /\ proc' = [proc EXCEPT ![t] = "live"]
    /\ status' = [status EXCEPT ![t] = "running"]
    /\ held' = held \cup {t}
    /\ UNCHANGED <<disk, mode, grant, stopped, timedOut, stopping, recovery,
                   doomed>>

(* The first _persist succeeds: the lock is released, the monitor starts.  *)
Record(t) ==
    /\ Alive /\ lock = t /\ "saved" \in PersistOutcomes
    /\ Goto(t, "launched", "waiting")
    /\ Persist(status, "saved")
    /\ lock' = Free
    /\ UNCHANGED <<status, mode, proc, grant, held, stopped, timedOut,
                   stopping, recovery, doomed>>

(* The first _persist raises: the record is withdrawn, SIGTERM is sent.    *)
Withdraw(t) ==
    /\ Alive /\ lock = t /\ "raised" \in PersistOutcomes
    /\ Goto(t, "launched", "unwinding")
    /\ status' = [status EXCEPT ![t] = "absent"]
    /\ held' = held \ {t}
    /\ UNCHANGED <<disk, lock, mode, proc, grant, stopped, timedOut, stopping,
                   recovery, doomed>>

(* A slip: the lock is given up without waiting for the child to end.      *)
UnwindNoWait(t) ==
    /\ Alive /\ lock = t
    /\ Goto(t, "unwinding", "refused")
    /\ RevokeGrant(t)
    /\ lock' = Free
    /\ UNCHANGED <<status, disk, mode, proc, held, stopped, timedOut,
                   stopping, recovery, doomed>>

(* ... then process.wait, with SIGKILL after the grace period, the grant   *)
(* is revoked and start() raises.  The lock is held throughout.            *)
Unwind(t) ==
    /\ Alive /\ lock = t
    /\ Goto(t, "unwinding", "refused")
    /\ proc' = [proc EXCEPT ![t] = "reaped"]
    /\ RevokeGrant(t)
    /\ lock' = Free
    /\ UNCHANGED <<status, disk, mode, held, stopped, timedOut, stopping,
                   recovery, doomed>>

Start(t) ==
    \/ StartCheck(t) \/ IssueGrant(t) \/ BuildArgv(t) \/ Refuse(t)
    \/ Launch(t) \/ Record(t) \/ Withdraw(t) \/ Unwind(t)

-----------------------------------------------------------------------------
(* The sandbox process ends by itself, or because of a SIGTERM.            *)
ProcExit(t) ==
    /\ proc[t] = "live"
    /\ proc' = [proc EXCEPT ![t] = "exited"]
    /\ UNCHANGED <<tableVars, phase, grant, held, stopped, timedOut, stopping,
                   recovery, doomed>>

(* _monitor: the deadline passes; the group gets SIGTERM.                  *)
MonitorTimeout(t) ==
    /\ Alive
    /\ Goto(t, "waiting", "grace")
    /\ proc[t] = "live"
    /\ timedOut' = [timedOut EXCEPT ![t] = TRUE]
    /\ UNCHANGED <<tableVars, proc, grant, held, stopped, stopping, recovery,
                   doomed>>

(* A slip: the second signal is SIGTERM again, which may be ignored.       *)
MonitorKillTerm(t) ==
    /\ Alive /\ phase[t] = "grace" /\ proc[t] = "live"
    /\ UNCHANGED vars

(* ... two seconds later SIGKILL, which the process cannot survive.        *)
MonitorKill(t) ==
    /\ Alive
    /\ phase[t] = "grace" /\ proc[t] = "live"
    /\ proc' = [proc EXCEPT ![t] = "exited"]
    /\ UNCHANGED <<tableVars, phase, grant, held, stopped, timedOut, stopping,
                   recovery, doomed>>

(* process.wait returns: the child is reaped and its pid may be reused.    *)
MonitorReap(t) ==
    /\ Alive
    /\ \E from \in {"waiting", "grace"} : Goto(t, from, "reaped")
    /\ proc[t] = "exited"
    /\ proc' = [proc EXCEPT ![t] = "reaped"]
    /\ UNCHANGED <<tableVars, grant, held, stopped, timedOut, stopping,
                   recovery, doomed>>

(* A slip: the status of a job is settled by its monitor before the        *)
(* process has been waited for.                                            *)
SettledProcessAny(t) == phase[t] \in Watched

(* The monitor settles a job it has reaped.                                *)
SettledProcess(t) == phase[t] = "reaped"

(* The status a reaped job settles on; the exit code is not tracked.       *)
Outcome(t) ==
    IF stopped[t] THEN {"stopped"}
    ELSE IF timedOut[t] THEN {"timed_out"}
    ELSE {"completed", "failed"}

(* The locked tail of _monitor: the status, _persist, and the grant popped *)
(* from the table.  A _persist that raises ends the thread there, with the *)
(* new status in memory and the grant neither popped nor revoked.          *)
MonitorSettle(t) ==
    /\ LockFree
    /\ SettledProcess(t)
    /\ \E s \in Outcome(t), outcome \in PersistOutcomes :
          LET settled == [status EXCEPT ![t] = s] IN
          /\ status' = settled
          /\ Persist(settled, outcome)
          /\ IF outcome = "saved"
             THEN /\ phase' = [phase EXCEPT
                                 ![t] = IF t \in held THEN "settled" ELSE "done"]
                  /\ held' = held \ {t}
             ELSE /\ phase' = [phase EXCEPT ![t] = "died"]
                  /\ UNCHANGED held
    /\ UNCHANGED <<lock, mode, proc, grant, stopped, timedOut, stopping,
                   recovery, doomed>>

(* A slip: the grant is popped from the table but not revoked.             *)
MonitorRevokeForgotten(t) ==
    /\ Alive
    /\ Goto(t, "settled", "done")
    /\ UNCHANGED <<tableVars, proc, grant, held, stopped, timedOut, stopping,
                   recovery, doomed>>

(* ... and revoke_grant once the lock is released.                         *)
MonitorRevoke(t) ==
    /\ Alive
    /\ Goto(t, "settled", "done")
    /\ RevokeGrant(t)
    /\ UNCHANGED <<tableVars, proc, held, stopped, timedOut, stopping,
                   recovery, doomed>>

Monitor(t) ==
    \/ MonitorTimeout(t) \/ MonitorKill(t) \/ MonitorReap(t)
    \/ MonitorSettle(t) \/ MonitorRevoke(t)

-----------------------------------------------------------------------------
(* stop(): the status is read without the lock ...                         *)
StopCheck(t) ==
    /\ Alive
    /\ phase[t] \in Watched
    /\ status[t] = "running"
    /\ stopping' = stopping \cup {t}
    /\ UNCHANGED <<tableVars, phase, proc, grant, held, stopped, timedOut,
                   recovery, doomed>>

(* ... then the flag is set and the group is signalled: SIGKILL when       *)
(* forced, else SIGTERM, after which ProcExit may follow.  By now the      *)
(* monitor may have reaped the process or settled the job.                 *)
StopSignal(t) ==
    /\ Alive
    /\ t \in stopping
    /\ stopping' = stopping \ {t}
    /\ stopped' = [stopped EXCEPT ![t] = TRUE]
    /\ \/ UNCHANGED proc
       \/ proc[t] = "live" /\ proc' = [proc EXCEPT ![t] = "exited"]
    /\ UNCHANGED <<tableVars, phase, grant, held, timedOut, recovery, doomed>>

-----------------------------------------------------------------------------
(* The claim-recovery fence.                                               *)

(* begin_claim_recovery, which raises when the fence is already up.        *)
BeginClaimRecovery ==
    /\ LockFree
    /\ recovery = "idle"
    /\ recovery' = "fenced"
    /\ UNCHANGED <<tableVars, jobVars, doomed>>

(* claim_recovery_job_candidates: active related jobs but the requester's. *)
(* Upstream jobs can be candidates too; without them a recovery goes on    *)
(* more often here than it does in the code.                               *)
JobCandidates == {t \in Related \ Requester : status[t] \in Active}

(* The recovery saw no candidate and goes on to take the claim over ...    *)
ObserveQuiet ==
    /\ LockFree
    /\ recovery = "fenced"
    /\ JobCandidates = {}
    /\ recovery' = "quiet"
    /\ UNCHANGED <<tableVars, jobVars, doomed>>

(* ... end_claim_recovery runs in the `finally`, whatever happened.        *)
EndClaimRecovery ==
    /\ LockFree
    /\ recovery # "idle"
    /\ recovery' = "idle"
    /\ UNCHANGED <<tableVars, jobVars, doomed>>

-----------------------------------------------------------------------------
(* cleanup(), registered with atexit: running jobs are flagged and get     *)
(* SIGTERM ...                                                             *)
CleanupMark ==
    LET running == {t \in Terminals : status[t] = "running"} IN
    /\ LockFree /\ mode = "up"
    /\ mode' = "closing"
    /\ doomed' = running
    /\ stopped' = [t \in Terminals |-> stopped[t] \/ t \in running]
    /\ UNCHANGED <<status, disk, lock, phase, proc, grant, held, timedOut,
                   stopping, recovery>>

(* ... those that survive the grace period get SIGKILL, and every grant    *)
(* still in the table is revoked.                                          *)
CleanupRevoke ==
    /\ LockFree /\ mode = "closing"
    /\ proc' = [t \in Terminals |->
                  IF t \in doomed /\ proc[t] = "live" THEN "exited" ELSE proc[t]]
    /\ grant' = [t \in Terminals |-> IF t \in held THEN "revoked" ELSE grant[t]]
    /\ held' = {}
    /\ doomed' = {}
    /\ mode' = "closed"
    /\ UNCHANGED <<status, disk, lock, phase, stopped, timedOut,
                   stopping, recovery>>

(* The service process ends, after cleanup or by a crash at any point.     *)
(* The sandboxes die with it (bubblewrap --die-with-parent), and so do its *)
(* threads, the lock, the fence and the grants, which live in its memory.  *)
Exit ==
    /\ Alive
    /\ mode' = "down"
    /\ lock' = Free
    /\ phase' = [t \in Terminals |-> IF phase[t] = "new" THEN "new" ELSE "gone"]
    /\ proc' = [t \in Terminals |->
                  IF proc[t] \in {"live", "exited"} THEN "reaped" ELSE proc[t]]
    /\ grant' = [t \in Terminals |->
                   IF grant[t] = "live" THEN "revoked" ELSE grant[t]]
    /\ held' = {} /\ stopping' = {} /\ doomed' = {}
    /\ recovery' = "idle"
    /\ stopped' = [t \in Terminals |-> FALSE]
    /\ timedOut' = [t \in Terminals |-> FALSE]
    /\ UNCHANGED <<status, disk>>

(* systemd starts the next process, which loads the document.              *)
Restart == LoadMetadata /\ UNCHANGED termVars

-----------------------------------------------------------------------------
ServiceNext ==
    \/ \E t \in Terminals :
          Start(t) \/ ProcExit(t) \/ Monitor(t) \/ StopCheck(t) \/ StopSignal(t)
    \/ BeginClaimRecovery \/ ObserveQuiet \/ EndClaimRecovery
    \/ CleanupMark \/ CleanupRevoke

Next == ServiceNext \/ Exit \/ Restart

Spec == Init /\ [][Next]_vars

(* A thread that can go on does; the deadline and the grace period pass;   *)
(* an orderly shutdown completes; and systemd restarts the service         *)
(* (Restart=always).  Nothing obliges a client to start or stop a job, or  *)
(* a process to end by itself, or the service to stop.                     *)
Fairness ==
    /\ \A t \in Terminals :
          /\ WF_vars(IssueGrant(t)) /\ WF_vars(BuildArgv(t))
          /\ WF_vars(Launch(t) \/ Refuse(t))
          /\ WF_vars(Record(t) \/ Withdraw(t)) /\ WF_vars(Unwind(t))
          /\ WF_vars(MonitorTimeout(t)) /\ WF_vars(MonitorKill(t))
          /\ WF_vars(MonitorReap(t)) /\ WF_vars(MonitorSettle(t))
          /\ WF_vars(MonitorRevoke(t))
    /\ WF_vars(CleanupRevoke) /\ WF_vars(mode = "closed" /\ Exit)
    /\ WF_vars(Restart)
FairSpec == Spec /\ Fairness

-----------------------------------------------------------------------------
(* Properties.                                                             *)

Live == {t \in Terminals : proc[t] = "live"}

(* There are never more sandbox processes than max_concurrent_jobs, also   *)
(* while start() reaps a child whose record it has already withdrawn and   *)
(* that the running count no longer includes.                              *)
LiveBound == Cardinality(Live) <= MaxJobs

(* Outside start()'s locked section, a live sandbox process has a row that *)
(* says "running", in memory and in the document: a crash at any moment    *)
(* leaves a record that the next start can turn into "orphaned".           *)
LiveIsRecorded ==
    \A t \in Live : lock # t => status[t] = "running" /\ disk[t] = "running"

(* When start() raised, nothing of the job is left: no row in memory or in *)
(* the document, no process, no usable grant.                              *)
RefusedLeavesNothing ==
    \A t \in Terminals : phase[t] = "refused" =>
        /\ status[t] = "absent" /\ disk[t] = "absent"
        /\ proc[t] \in {"none", "reaped"}
        /\ grant[t] # "live"

(* A grant that still works has someone who will revoke it: the start()    *)
(* call that issued it, the grant table that monitor and cleanup empty, or *)
(* the monitor that just took it from the table.                           *)
GrantHasOwner ==
    \A t \in Terminals : grant[t] = "live" =>
        t \in held \/ phase[t] \in InStart \cup InLock \cup {"settled"}

(* A recovery that saw no candidate can rely on it for as long as its      *)
(* fence is up: no fenced job, started by whatever thread, is live.        *)
QuietWhileAttested ==
    recovery = "quiet" =>
        \A t \in (Fenced \cap Related) \ Requester : proc[t] # "live"

(* A final status in the document is the truth: the process is gone, and   *)
(* memory says the same.                                                   *)
DurableFinalIsTrue ==
    \A t \in Terminals : disk[t] \in Final =>
        status[t] = disk[t] /\ proc[t] \in {"none", "reaped"}

(* No step, and no restart, rewrites a final status in the document.       *)
DurableFinalIsStable ==
    [][\A t \in Terminals : disk[t] \in Final => disk'[t] = disk[t]]_vars

(* Every running job is settled, whatever its process does: the timeout,   *)
(* the kill after the grace period, or the next start of the service.      *)
RunningSettles ==
    \A t \in Terminals : status[t] = "running" ~> status[t] # "running"

(* A grant is revoked once its run has exited (docs/SECURITY.md), by the   *)
(* monitor of the run: but for a job whose monitor died of a _persist that *)
(* raised, of which nobody takes care.                                     *)
MonitoredGrantIsRevoked ==
    \A t \in Terminals :
        proc[t] = "reaped" ~> grant[t] = "revoked" \/ phase[t] = "died"
=============================================================================
