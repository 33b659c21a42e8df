------------------------ MODULE ExperimentCoordinator ------------------------
(***************************************************************************)
(* The durable coordinator of one experiment (ExperimentManager in         *)
(* experiments.py): the thread _thread_main in every Control process that  *)
(* resumed the experiment, the state.json document they share, the stop    *)
(* call, and the detached Fabric works the coordinator submits.            *)
(*                                                                         *)
(* `disk` is state.json.  A coordinator loads it into a local copy, works  *)
(* on the copy and saves it; a load, and a save, which merges under the    *)
(* state.lock flock, are single steps, and anything may happen between     *)
(* them.  pc[p] names the next step of process p's thread.                 *)
(*                                                                         *)
(* A turn is [state, step]: `step` is tool_step, the number of tool        *)
(* follow-ups, so that <<n, step>> stands for the idempotency key and the  *)
(* work id of turn n.  Prompts, references, receipts and evidence are not  *)
(* modelled.  Residency is the experiment's own view of it, "pinned" with  *)
(* one managed lease.                                                      *)
(***************************************************************************)
EXTENDS Naturals, Sequences, FiniteSets

CONSTANTS Procs,         \* Control processes that share the state root
          Stops,         \* calls of experiment_stop
          MaxTurns,      \* spec.max_turns
          MaxToolSteps,  \* spec.max_tool_steps
          StopOnFailure, \* spec.stop_on_turn_failure
          SubmitFaults,  \* how runtime.submit may fail: "refused", "lost"
          RuntimeFaults, \* where the runtime may fail otherwise: "call" (any
                         \* call of a turn), "prepare", "teardown"
          Answers        \* how a work may end: "text", "tools", "empty" (a
                         \* completed work without either), "bad"
ASSUME BoundsAssumption == MaxTurns \in Nat \ {0} /\ MaxToolSteps \in Nat
ASSUME PolicyAssumption == StopOnFailure \in BOOLEAN
ASSUME FaultsAssumption ==
    /\ SubmitFaults \subseteq {"refused", "lost"}
    /\ RuntimeFaults \subseteq {"call", "prepare", "teardown"}
ASSUME AnswersAssumption == Answers \subseteq {"text", "tools", "empty", "bad"}

VARIABLES disk,     \* state.json
          owner,    \* the process that holds coordinator.lock
          pc,       \* program counter of each process's coordinator thread
          local,    \* its copy of the state
          stopPc,   \* program counter of each stop call
          stale,    \* the copy of the state that the stop call loaded
          fabric,   \* the state of every detached work, by key
          late,     \* deadline_at has passed
          leased,   \* the model is resident for this experiment
          afterStop \* history: the works first accepted after a stop was saved

coordVars == <<disk, owner, pc, local>>
stopVars == <<stopPc, stale>>
worksVars == <<fabric, afterStop>>
worldVars == <<worksVars, late, leased>>
vars == <<coordVars, stopVars, worldVars>>

Nobody == "nobody"
ASSUME NobodyAssumption == Nobody \notin Procs

Terminal == {"COMPLETED", "FAILED", "STOPPED"}
Unsettled == {"PREPARING", "SUBMITTED", "RUNNING"}
Settled == {"COMPLETED", "FAILED"}
Keys == (1 .. MaxTurns) \X (0 .. MaxToolSteps)

Turn == [state : Unsettled \cup Settled, step : 0 .. MaxToolSteps]
Residency == {"none", "PREPARED", "FAILED", "RELEASED", "DEGRADED"}
State == [st : {"ACCEPTED", "RUNNING"} \cup Terminal, turns : Seq(Turn),
          stop : BOOLEAN, residency : Residency]

Places == {"down", "idle", "spawned", "top", "attempt", "prepare", "savePrepared",
           "prepareFailed", "begin", "saveBegin", "loop", "saveTurn", "submit",
           "saveSubmit", "saveRefused", "poll", "ask", "savePoll", "afterPoll",
           "tools", "followup", "saveDone", "saveFailed", "afterFailed",
           "saveStopped", "saveTerminal", "finally", "teardown", "saveTeardown", "release",
           "raised", "saveError", "giveUp"}
(* Where a thread is when it does not hold coordinator.lock.               *)
Outside == {"down", "idle", "spawned"}

WorkStates == {"none", "active", "tools", "text", "empty", "bad"}

TypeOK ==
    /\ disk \in State /\ Len(disk.turns) <= MaxTurns
    /\ owner \in Procs \cup {Nobody}
    /\ pc \in [Procs -> Places]
    /\ local \in [Procs -> State]
    /\ stopPc \in [Stops -> {"idle", "loaded", "saved", "refused"}]
    /\ stale \in [Stops -> State]
    /\ fabric \in [Keys -> WorkStates]
    /\ late \in BOOLEAN /\ leased \in BOOLEAN
    /\ afterStop \subseteq Keys

(* start() has saved the accepted state and spawned a coordinator.         *)
Accepted == [st |-> "ACCEPTED", turns |-> <<>>, stop |-> FALSE,
             residency |-> "none"]

Init ==
    /\ disk = Accepted
    /\ owner = Nobody
    /\ pc \in [Procs -> {"spawned", "idle"}]
    /\ \E p \in Procs : pc[p] = "spawned"
    /\ local = [p \in Procs |-> Accepted]
    /\ stopPc = [s \in Stops |-> "idle"]
    /\ stale = [s \in Stops |-> Accepted]
    /\ fabric = [k \in Keys |-> "none"]
    /\ late = FALSE /\ leased = FALSE /\ afterStop = {}

-----------------------------------------------------------------------------
Goto(p, from, to) == pc[p] = from /\ pc' = [pc EXCEPT ![p] = to]
Copy(p, state) == local' = [local EXCEPT ![p] = state]
(* A thread that ends leaves no copy behind.                               *)
Forget(p) == Copy(p, Accepted)

(* A slip: a save writes the caller's copy as it is.                       *)
MergedNothing(copy) == copy

(* What _save writes for a caller's copy: the whole copy, in which only    *)
(* the stop request (and fields that are not modelled) is merged with the  *)
(* document.                                                               *)
Merged(copy) == [copy EXCEPT !.stop = copy.stop \/ disk.stop]

(* _save: the document takes the merged copy, and so does the caller.      *)
Save(p, from, to) ==
    /\ Goto(p, from, to)
    /\ disk' = Merged(local[p])
    /\ Copy(p, Merged(local[p]))
    /\ UNCHANGED <<owner, stopVars, worldVars>>

Last(state) == state.turns[Len(state.turns)]
WithLast(state, turn) == [state EXCEPT !.turns[Len(state.turns)] = turn]
Prepared == [state |-> "PREPARING", step |-> 0]

(* The updates of a copy: the stop request, the state of the experiment,   *)
(* its residency, one more turn, the last turn's state and its follow-up.  *)
Request(state) == [state EXCEPT !.stop = TRUE]
Mark(state, st) == [state EXCEPT !.st = st]
Hold(state, residency) == [state EXCEPT !.residency = residency]
AddTurn(state) == [state EXCEPT !.turns = Append(@, Prepared)]
Become(state, st) == WithLast(state, [Last(state) EXCEPT !.state = st])
FollowUp(state) == WithLast(state, [Last(state) EXCEPT !.step = @ + 1])

HasCurrent(state) == state.turns # <<>> /\ Last(state).state \in Unsettled
Key(state) == <<Len(state.turns), Last(state).step>>

(* A call of the runtime raises: the thread's handler catches it.          *)
Raises(p, from) ==
    /\ "call" \in RuntimeFaults
    /\ Goto(p, from, "raised")
    /\ UNCHANGED <<disk, owner, local, stopVars, worldVars>>

-----------------------------------------------------------------------------
(* A slip: the coordinator lock is not exclusive.                          *)
AcquireShared(p) ==
    /\ Goto(p, "spawned", "top")
    /\ owner' = p
    /\ UNCHANGED <<disk, local, stopVars, worldVars>>

(* _thread_main takes the coordinator lock, or leaves for good.            *)
Acquire(p) ==
    /\ IF owner = Nobody
       THEN Goto(p, "spawned", "top") /\ owner' = p
       ELSE Goto(p, "spawned", "idle") /\ UNCHANGED owner
    /\ UNCHANGED <<disk, local, stopVars, worldVars>>

(* The head of its loop.                                                   *)
Top(p) ==
    /\ Goto(p, "top", IF disk.st \in Terminal THEN "attempt" ELSE "prepare")
    /\ UNCHANGED <<disk, owner, local, stopVars, worldVars>>

(* What a terminal state still lacks when its teardown is not on record.   *)
NeedsTeardown(state) == state.residency \in {"PREPARED", "FAILED", "DEGRADED"}

(* _attempt_terminal_teardown of an experiment that ended earlier; the     *)
(* thread ends when there is nothing left to tear down.                    *)
Attempt(p) ==
    /\ IF disk.st \in Terminal /\ NeedsTeardown(disk)
       THEN Goto(p, "attempt", "teardown") /\ Copy(p, disk) /\ UNCHANGED owner
       ELSE Goto(p, "attempt", "idle") /\ Forget(p) /\ owner' = Nobody
    /\ UNCHANGED <<disk, stopVars, worldVars>>

(* _prepare_residency asks Harness for the lease: a preparation that fails *)
(* keeps no evidence of a lease, of one that an earlier one obtained or of *)
(* one that it obtained itself before it raised ...                        *)
Prepare(p) ==
    /\ Goto(p, "prepare", "savePrepared")
    /\ \/ leased' = TRUE /\ Copy(p, Hold(disk, "PREPARED"))
       \/ /\ "prepare" \in RuntimeFaults
          /\ leased' \in {leased, TRUE} /\ Copy(p, Hold(disk, "FAILED"))
    /\ UNCHANGED <<disk, owner, stopVars, worksVars, late>>

(* ... and records it.  Without a lease the experiment fails.              *)
SavePrepared(p) ==
    Save(p, "savePrepared",
         IF local[p].residency = "PREPARED" THEN "begin" ELSE "prepareFailed")

(* The state is loaded again and marked FAILED.                            *)
PrepareFailed(p) ==
    /\ Goto(p, "prepareFailed", "saveTerminal")
    /\ Copy(p, Mark(disk, "FAILED"))
    /\ UNCHANGED <<disk, owner, stopVars, worldVars>>

(* _run_active marks the experiment RUNNING.                               *)
Begin(p) ==
    /\ Goto(p, "begin", "saveBegin")
    /\ Copy(p, Mark(disk, "RUNNING"))
    /\ UNCHANGED <<disk, owner, stopVars, worldVars>>

SaveBegin(p) == Save(p, "saveBegin", "loop")

-----------------------------------------------------------------------------
(* The loop of _run_active.                                                *)

(* Each round loads the state: a stop request ends the experiment ...      *)
LoopStop(p) ==
    /\ disk.stop
    /\ Goto(p, "loop", "saveTerminal")
    /\ Copy(p, Mark(disk, "STOPPED"))
    /\ UNCHANGED <<disk, owner, stopVars, worldVars>>

(* ... a current turn is submitted or waited for ...                       *)
LoopCurrent(p) ==
    /\ ~disk.stop /\ HasCurrent(disk)
    /\ Goto(p, "loop",
            IF Last(disk).state = "PREPARING" THEN "submit" ELSE "poll")
    /\ Copy(p, disk)
    /\ UNCHANGED <<disk, owner, stopVars, worldVars>>

(* ... without one the experiment is complete at the turn limit or after   *)
(* the deadline ...                                                        *)
LoopComplete(p) ==
    /\ ~disk.stop /\ ~HasCurrent(disk)
    /\ Len(disk.turns) >= MaxTurns \/ late
    /\ Goto(p, "loop", "saveTerminal")
    /\ Copy(p, Mark(disk, "COMPLETED"))
    /\ UNCHANGED <<disk, owner, stopVars, worldVars>>

(* A slip: a turn is submitted before the document knows it.               *)
LoopNewTurnUnsaved(p) ==
    /\ ~disk.stop /\ ~HasCurrent(disk)
    /\ Len(disk.turns) < MaxTurns /\ ~late
    /\ Goto(p, "loop", "submit")
    /\ Copy(p, AddTurn(disk))
    /\ UNCHANGED <<disk, owner, stopVars, worldVars>>

(* ... and else the next turn is added.                                    *)
LoopNewTurn(p) ==
    /\ ~disk.stop /\ ~HasCurrent(disk)
    /\ Len(disk.turns) < MaxTurns /\ ~late
    /\ Goto(p, "loop", "saveTurn")
    /\ Copy(p, AddTurn(disk))
    /\ UNCHANGED <<disk, owner, stopVars, worldVars>>

SaveTurn(p) == Save(p, "saveTurn", "loop")

-----------------------------------------------------------------------------
(* runtime.submit: Fabric deduplicates by the idempotency key.             *)
Accept(k) ==
    IF fabric[k] = "none"
    THEN /\ fabric' = [fabric EXCEPT ![k] = "active"]
         /\ afterStop' = IF \E s \in Stops : stopPc[s] = "saved"
                         THEN afterStop \cup {k} ELSE afterStop
    ELSE UNCHANGED worksVars

(* runtime.submit raises FABRIC_SUBMIT_FAILED, because Fabric refused the  *)
(* work or because its answer was lost.                                    *)
Reject(k) ==
    \/ "refused" \in SubmitFaults /\ UNCHANGED worksVars
    \/ "lost" \in SubmitFaults /\ Accept(k)

(* _submit of a prepared turn.                                             *)
Submit(p) ==
    /\ Goto(p, "submit", "saveSubmit")
    /\ Accept(Key(local[p]))
    /\ Copy(p, Become(local[p], "SUBMITTED"))
    /\ UNCHANGED <<disk, owner, stopVars, late, leased>>

(* A submission that fails: the turn fails with it, and nothing of the     *)
(* work is recorded.                                                       *)
SubmitFails(p) ==
    /\ Goto(p, "submit", "saveRefused")
    /\ Reject(Key(local[p]))
    /\ Copy(p, Become(local[p], "FAILED"))
    /\ UNCHANGED <<disk, owner, stopVars, late, leased>>

SaveSubmit(p) == Save(p, "saveSubmit", "poll")

(* _fail_turn, and the failure of the experiment from the same copy when   *)
(* the specification asks for it.                                          *)
SaveRefused(p) ==
    /\ Goto(p, "saveRefused", IF StopOnFailure THEN "saveTerminal" ELSE "loop")
    /\ disk' = Merged(local[p])
    /\ Copy(p, IF StopOnFailure THEN Mark(Merged(local[p]), "FAILED")
                                ELSE Merged(local[p]))
    /\ UNCHANGED <<owner, stopVars, worldVars>>

-----------------------------------------------------------------------------
(* A slip: a poll that does not look for a stop request.                   *)
PollBlind(p) ==
    /\ Goto(p, "poll", "ask")
    /\ UNCHANGED <<disk, owner, local, stopVars, worldVars>>

(* _poll: each round loads the latest state, only for the stop request;    *)
(* the turn it works on stays the local one.                               *)
Poll(p) ==
    /\ IF disk.stop
       THEN /\ Goto(p, "poll", "saveStopped")
            /\ Copy(p, Mark(disk, "STOPPED"))
       ELSE Goto(p, "poll", "ask") /\ UNCHANGED local
    /\ UNCHANGED <<disk, owner, stopVars, worldVars>>

(* The work is still active, in a state unknown here, or its status is     *)
(* unavailable, in which case the turn keeps its state.                    *)
AskActive(p) ==
    /\ Goto(p, "ask", "savePoll")
    /\ \/ /\ fabric[Key(local[p])] = "active"
          /\ Copy(p, Become(local[p], "RUNNING"))
       \/ "call" \in RuntimeFaults /\ UNCHANGED local
    /\ UNCHANGED <<disk, owner, stopVars, worldVars>>

SavePoll(p) == Save(p, "savePoll", "afterPoll")

(* max_turn_wait_seconds are over, or not yet.                             *)
PollAgain(p) ==
    /\ Goto(p, "afterPoll", "poll")
    /\ UNCHANGED <<disk, owner, local, stopVars, worldVars>>

PollTimeout(p) ==
    /\ Goto(p, "afterPoll", "saveFailed")
    /\ Copy(p, Become(local[p], "FAILED"))
    /\ UNCHANGED <<disk, owner, stopVars, worldVars>>

(* The work failed, was cancelled or timed out upstream.                   *)
AskBad(p) ==
    /\ Goto(p, "ask", "saveFailed")
    /\ fabric[Key(local[p])] = "bad"
    /\ Copy(p, Become(local[p], "FAILED"))
    /\ UNCHANGED <<disk, owner, stopVars, worldVars>>

(* A completed work that asks for tools, below the bound ...               *)
AskTools(p) ==
    /\ Goto(p, "ask", "tools")
    /\ fabric[Key(local[p])] = "tools"
    /\ Last(local[p]).step < MaxToolSteps
    /\ UNCHANGED <<disk, owner, local, stopVars, worldVars>>

(* ... has them executed ...                                               *)
Tools(p) ==
    /\ Goto(p, "tools", "followup")
    /\ Copy(p, FollowUp(local[p]))
    /\ UNCHANGED <<disk, owner, stopVars, worldVars>>

(* ... and a follow-up submitted for the same turn, under the next key.    *)
Followup(p) ==
    /\ Goto(p, "followup", "saveSubmit")
    /\ Accept(Key(local[p]))
    /\ Copy(p, Become(local[p], "SUBMITTED"))
    /\ UNCHANGED <<disk, owner, stopVars, late, leased>>

(* A follow-up that fails to be submitted is not caught by _poll: the turn *)
(* is not failed, and the tools run again when it is polled next.          *)
FollowupFails(p) ==
    /\ Goto(p, "followup", "raised")
    /\ Reject(Key(local[p]))
    /\ UNCHANGED <<disk, owner, local, stopVars, late, leased>>

(* A completed work with text, or at the tool bound, completes the turn;   *)
(* without text, retained tool executions stand in for it, and when there  *)
(* are none either _complete raises.                                       *)
AskDone(p) ==
    LET k == Key(local[p])
    IN
    /\ pc[p] = "ask"
    /\ \/ fabric[k] \in {"text", "empty"}
       \/ fabric[k] = "tools" /\ Last(local[p]).step >= MaxToolSteps
    /\ IF fabric[k] = "text" \/ Last(local[p]).step > 0
       THEN /\ Goto(p, "ask", "saveDone")
            /\ Copy(p, Become(local[p], "COMPLETED"))
       ELSE Goto(p, "ask", "raised") /\ UNCHANGED local
    /\ UNCHANGED <<disk, owner, stopVars, worldVars>>

SaveDone(p) == Save(p, "saveDone", "loop")
SaveFailed(p) == Save(p, "saveFailed", "afterFailed")
SaveStopped(p) == Save(p, "saveStopped", "afterFailed")

(* _poll returned False: the state is loaded again, and the experiment     *)
(* fails when it is not stopped and the specification asks for it.         *)
AfterFailed(p) ==
    /\ IF disk.st # "STOPPED" /\ StopOnFailure
       THEN /\ Goto(p, "afterFailed", "saveTerminal")
            /\ Copy(p, Mark(disk, "FAILED"))
       ELSE /\ Goto(p, "afterFailed",
                    IF disk.st = "STOPPED" THEN "finally" ELSE "loop")
            /\ UNCHANGED local
    /\ UNCHANGED <<disk, owner, stopVars, worldVars>>

SaveTerminal(p) == Save(p, "saveTerminal", "finally")

-----------------------------------------------------------------------------
(* The `finally` of _run: a terminal state whose teardown is not yet on    *)
(* record is torn down.                                                    *)
Finally(p) ==
    /\ IF disk.st \in Terminal /\ NeedsTeardown(disk)
       THEN Goto(p, "finally", "teardown") /\ Copy(p, disk)
       ELSE Goto(p, "finally", "release") /\ UNCHANGED local
    /\ UNCHANGED <<disk, owner, stopVars, worldVars>>

(* A slip: a release that fails is recorded like one that succeeds.        *)
TeardownOptimistic(p) ==
    /\ Goto(p, "teardown", "saveTeardown")
    /\ Copy(p, Hold(local[p], "RELEASED"))
    /\ leased' \in {leased, FALSE}
    /\ UNCHANGED <<disk, owner, stopVars, worksVars, late>>

(* _teardown_residency releases the leases on record, none after a failed  *)
(* preparation; a release that fails, or whose answer is lost, is recorded *)
(* as degraded.                                                            *)
Teardown(p) ==
    /\ Goto(p, "teardown", "saveTeardown")
    /\ \/ /\ Copy(p, Hold(local[p], "RELEASED"))
          /\ leased' = (leased /\ local[p].residency = "FAILED")
       \/ /\ "teardown" \in RuntimeFaults /\ local[p].residency # "FAILED"
          /\ leased' \in {leased, FALSE}
          /\ Copy(p, Hold(local[p], "DEGRADED"))
    /\ UNCHANGED <<disk, owner, stopVars, worksVars, late>>

SaveTeardown(p) == Save(p, "saveTeardown", "release")

(* The thread ends and the lock goes with its file; or closing the         *)
(* runtime raises once more.                                               *)
Release(p) ==
    /\ \/ Goto(p, "release", "idle") /\ Forget(p) /\ owner' = Nobody
       \/ /\ "teardown" \in RuntimeFaults
          /\ Goto(p, "release", "raised") /\ UNCHANGED <<local, owner>>
    /\ UNCHANGED <<disk, stopVars, worldVars>>

(* The handler of _thread_main loads the state and records the error ...   *)
Handle(p) ==
    /\ Goto(p, "raised", "saveError")
    /\ Copy(p, disk)
    /\ UNCHANGED <<disk, owner, stopVars, worldVars>>

(* ... and after the deadline it marks the copy FAILED and saves it; else  *)
(* it goes back to the head of the loop.                                   *)
SaveError(p) ==
    /\ Goto(p, "saveError", IF late THEN "giveUp" ELSE "top")
    /\ disk' = Merged(local[p])
    /\ Copy(p, IF late THEN Mark(Merged(local[p]), "FAILED") ELSE Merged(local[p]))
    /\ UNCHANGED <<owner, stopVars, worldVars>>

(* The thread returns from there, without a teardown.                      *)
GiveUp(p) ==
    /\ Goto(p, "giveUp", "idle")
    /\ disk' = Merged(local[p])
    /\ owner' = Nobody /\ Forget(p)
    /\ UNCHANGED <<stopVars, worldVars>>

(* The calls of the runtime that may raise instead; its creation, for the  *)
(* preparation or for a late teardown, is one of them.                     *)
Raise(p) ==
    \E place \in {"prepare", "ask", "tools", "submit", "attempt"} : Raises(p, place)

Coordinate(p) ==
    \/ Acquire(p) \/ Top(p) \/ Attempt(p) \/ Prepare(p) \/ SavePrepared(p)
    \/ PrepareFailed(p) \/ Begin(p) \/ SaveBegin(p)
    \/ LoopStop(p) \/ LoopCurrent(p) \/ LoopComplete(p) \/ LoopNewTurn(p)
    \/ SaveTurn(p) \/ Submit(p) \/ SubmitFails(p) \/ SaveSubmit(p)
    \/ SaveRefused(p) \/ Poll(p) \/ AskActive(p) \/ SavePoll(p)
    \/ PollAgain(p) \/ PollTimeout(p) \/ AskBad(p) \/ AskTools(p) \/ Tools(p)
    \/ Followup(p) \/ FollowupFails(p) \/ AskDone(p) \/ SaveDone(p)
    \/ SaveFailed(p) \/ SaveStopped(p) \/ AfterFailed(p) \/ SaveTerminal(p)
    \/ Finally(p) \/ Teardown(p) \/ SaveTeardown(p) \/ Release(p)
    \/ Handle(p) \/ SaveError(p) \/ GiveUp(p) \/ Raise(p)

-----------------------------------------------------------------------------
(* The stop call, in any process: it loads the state, answers at once when *)
(* the experiment has ended ...                                            *)
StopLoad(s) ==
    /\ stopPc[s] = "idle"
    /\ IF disk.st \in Terminal
       THEN stopPc' = [stopPc EXCEPT ![s] = "refused"] /\ UNCHANGED stale
       ELSE /\ stopPc' = [stopPc EXCEPT ![s] = "loaded"]
            /\ stale' = [stale EXCEPT ![s] = Request(disk)]
    /\ UNCHANGED <<coordVars, worldVars>>

(* ... and saves its whole copy with the request in it.                    *)
StopSave(s) ==
    /\ stopPc[s] = "loaded"
    /\ stopPc' = [stopPc EXCEPT ![s] = "saved"]
    /\ disk' = Merged(stale[s])
    /\ stale' = [stale EXCEPT ![s] = Accepted]
    /\ UNCHANGED <<owner, pc, local, worldVars>>

(* Fabric finishes a work.                                                 *)
Work(k) ==
    /\ fabric[k] = "active"
    /\ \E answer \in Answers : fabric' = [fabric EXCEPT ![k] = answer]
    /\ UNCHANGED <<coordVars, stopVars, late, leased, afterStop>>

Deadline ==
    /\ ~late /\ late' = TRUE
    /\ UNCHANGED <<coordVars, stopVars, worksVars, leased>>

(* A Control process dies: its threads, their copies and its flocks go.    *)
Crash(p) ==
    /\ pc[p] # "down"
    /\ pc' = [pc EXCEPT ![p] = "down"]
    /\ owner' = IF owner = p THEN Nobody ELSE owner
    /\ Forget(p)
    /\ UNCHANGED <<disk, stopVars, worldVars>>

(* A slip: only unfinished experiments are resumed.                        *)
RestartUnfinished(p) ==
    /\ Goto(p, "down", IF disk.st \notin Terminal THEN "spawned" ELSE "idle")
    /\ UNCHANGED <<disk, owner, local, stopVars, worldVars>>

(* A slip: only experiments that have ended and hold a lease are resumed.  *)
RestartEnded(p) ==
    /\ Goto(p, "down", IF disk.st \in Terminal /\ NeedsTeardown(disk)
                       THEN "spawned" ELSE "idle")
    /\ UNCHANGED <<disk, owner, local, stopVars, worldVars>>

(* It starts again, and resume_unfinished spawns a thread for what is      *)
(* unfinished or not torn down.                                            *)
Restart(p) ==
    /\ Goto(p, "down", IF disk.st \notin Terminal \/ NeedsTeardown(disk)
                       THEN "spawned" ELSE "idle")
    /\ UNCHANGED <<disk, owner, local, stopVars, worldVars>>

Next ==
    \/ \E p \in Procs : Coordinate(p) \/ Crash(p) \/ Restart(p)
    \/ \E s \in Stops : StopLoad(s) \/ StopSave(s)
    \/ \E k \in Keys : Work(k)
    \/ Deadline

Spec == Init /\ [][Next]_vars

(* The interpreter runs every thread, systemd restarts a dead service, the *)
(* clock reaches both deadlines, and the service does not crash for ever;  *)
(* nothing is asked of Fabric, which may never finish a work.              *)
Fairness ==
    /\ \A p \in Procs : /\ WF_vars(Coordinate(p)) /\ SF_vars(PollTimeout(p))
                        /\ WF_vars(Restart(p))
    /\ WF_vars(Deadline)
    /\ <>[][\A p \in Procs : ~Crash(p)]_vars

FairSpec == Spec /\ Fairness

-----------------------------------------------------------------------------
(* Properties.                                                             *)

(* However the processes crash and take over from each other, at most one  *)
(* work, the one whose submission was already under way, is started after  *)
(* experiment_stop has answered.                                           *)
AtMostOneAfterStop == Cardinality(afterStop) <= 1

(* A stop request that was saved is never lost: every save merges it.      *)
StopIsKept == \A s \in Stops : stopPc[s] = "saved" => disk.stop

(* The work that the recovering coordinator would submit next.             *)
NextKey(state) ==
    <<Len(state.turns),
      IF Last(state).state = "PREPARING" THEN 0 ELSE Last(state).step + 1>>

Recorded(k, state) ==
    /\ k[1] <= Len(state.turns) /\ k[2] <= state.turns[k[1]].step
    /\ state.turns[k[1]].state # "PREPARING"

(* Work that Fabric accepted is never orphaned: it is recorded in the      *)
(* document, or the next submission after any crash has its idempotency    *)
(* key.  The state has its types.                                          *)
NoOrphanedWork ==
    /\ TypeOK
    /\ \A k \in Keys : fabric[k] # "none" =>
        \/ Recorded(k, disk)
        \/ disk.turns # <<>> /\ k = NextKey(disk)

(* History is append-only: a turn that completed or failed keeps its       *)
(* outcome and its place, whichever process coordinates.                   *)
SettledTurnsAreKept ==
    [][\A n \in 1 .. Len(disk.turns) : disk.turns[n].state \in Settled =>
          /\ n <= Len(disk'.turns)
          /\ disk'.turns[n] = disk.turns[n]]_vars

(* RELEASED on record means that the model is no longer leased, whatever   *)
(* preparation or teardown failed and whichever process took over.  The    *)
(* exception is an experiment one of whose preparations may have failed    *)
(* and that failed itself or was asked to stop: the record of the lease is *)
(* then gone (from the failure, or from a stop call's older copy), and     *)
(* what is released is nothing.  One that completed unasked is no          *)
(* exception.                                                              *)
ReleasedIsTrue ==
    disk.residency = "RELEASED" =>
        \/ ~leased
        \/ "prepare" \in RuntimeFaults /\ (disk.st = "FAILED" \/ disk.stop)

(* Every experiment ends, by its deadline if nothing else ends it, and no  *)
(* restart or late teardown takes it up again.                             *)
Ends == <>[](disk.st \in Terminal)

(* After the end of an experiment its lease is released, unless the        *)
(* document says that its teardown failed, or the coordinator, raising     *)
(* still after the deadline, gave up.                                      *)
LeaseIsReleased ==
    disk.st \in Terminal ~>
        \/ ~leased
        \/ disk.residency = "DEGRADED"
        \/ late /\ disk.st = "FAILED"
=============================================================================
