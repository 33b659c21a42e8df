---------------------------- MODULE Replication ----------------------------
(***************************************************************************)
(* ReplicationManager (replication.py): replications of one frozen         *)
(* specification, each driven through its stages by a coordinator thread   *)
(* of the service process, which can die between any two steps and then    *)
(* resumes what its documents call unfinished.                             *)
(*                                                                         *)
(* A stage first has its effect (on the bundle, on Fabric, Forge, Commons) *)
(* and then saves the document; the state of the document names the last   *)
(* stage that is over, and decides what a thread does next.                *)
(***************************************************************************)
EXTENDS Naturals, FiniteSets

CONSTANTS Ids,       \* the replication ids, as numbers in the order of their names
          Callers,   \* concurrent calls of experiment_replicate
          Versions,  \* contents that the input files take in turn, from 1
          Answers,   \* what a worker's envelope may say: "pass", "fail",
                     \* "unknown", "missing"
          Faults,    \* "refused", "lost": Fabric; "forge", "commons"
          OneDefinition \* do the versions realize one experiment definition?

ASSUME IdsAssumption == Ids \subseteq Nat
ASSUME CallersAssumption == IsFiniteSet(Callers)
ASSUME VersionsAssumption == Versions \subseteq Nat \ {0} /\ 1 \in Versions

VARIABLES doc,       \* state.json of every replication
          thread,    \* its coordinator thread: "none", "run", or the effect
                     \* it has had and not saved
          caller,    \* a call of start(): "idle" or "creating"
          bundle,    \* the bundle directory: None or what was copied into it
          inputs,    \* the input files, which their owner may replace
          executed,  \* Fabric: the execution requests it has really run
          reply,     \* the envelope that the thread holds
          forge,     \* Forge: comparisons, with the baseline that was read
          commons,   \* replications with a record in Commons
          up, resumed

vars == <<doc, thread, caller, bundle, inputs, executed, reply, forge, commons,
          up, resumed>>

None == [artifact |-> 0, baseline |-> 0]
Files == [artifact : Versions, baseline : Versions]
Stages == <<"ACCEPTED", "VERIFYING", "PREPARING", "EXECUTING", "COLLECTING",
            "COMPARING", "PUBLISHING", "COMPLETED">>
ActiveStates == {Stages[i] : i \in 1..7}
TerminalStates == {"COMPLETED", "FAILED"}
Outcomes == {"none", "PASS", "FAIL", "UNKNOWN"}
Absent == [state |-> "absent", verified |-> 0, outcome |-> "none", stdout |-> "none"]
Existing == {r \in Ids : doc[r].state # "absent"}

TypeOK ==
    /\ doc \in [Ids -> [state : ActiveStates \cup TerminalStates \cup {"absent"},
                        verified : Versions \cup {0},
                        outcome : Outcomes,
                        stdout : Answers \cup {"none", "missing"}]]
    /\ thread \in [Ids -> {"none", "run", "staged", "answered", "compared", "published"}]
    /\ caller \in [Callers -> {"idle", "creating"}]
    /\ bundle \in [Ids -> Files \cup {None}]
    /\ inputs \in Files
    /\ executed \subseteq Ids \X (Files \cup {None})
    /\ reply \in [Ids -> Answers \cup {"none", "missing"}]
    /\ forge \subseteq Ids \X Versions /\ commons \subseteq Ids
    /\ up \in BOOLEAN /\ resumed \in BOOLEAN

Init ==
    /\ doc = [r \in Ids |-> Absent]
    /\ thread = [r \in Ids |-> "none"]
    /\ caller = [c \in Callers |-> "idle"]
    /\ bundle = [r \in Ids |-> None]
    /\ inputs = [artifact |-> 1, baseline |-> 1]
    /\ executed = {} /\ forge = {} /\ commons = {}
    /\ reply = [r \in Ids |-> "none"]
    /\ up = TRUE /\ resumed = TRUE

-----------------------------------------------------------------------------
(* A slip: the lookup skips attempts that are already over.                *)
FindActiveOnly == {r \in Existing : doc[r].state \in ActiveStates}

(* The attempts whose document carries the specification.                  *)
FindBySpec == Existing

(* start(): the first attempt by name is returned unless it failed; no     *)
(* lock spans the lookup and the creation.                                 *)
StartLook(c) ==
    /\ up /\ caller[c] = "idle"
    /\ \A r \in FindBySpec : (\A s \in FindBySpec : r <= s) => doc[r].state = "FAILED"
    /\ caller' = [caller EXCEPT ![c] = "creating"]
    /\ UNCHANGED <<doc, thread, bundle, inputs, executed, reply, forge, commons,
                   up, resumed>>

(* The new attempt has a random name, hence any place in the order.        *)
StartCreate(c) ==
    /\ up /\ caller[c] = "creating"
    /\ \E r \in Ids \ Existing :
          /\ doc' = [doc EXCEPT ![r].state = "ACCEPTED"]
          /\ thread' = [thread EXCEPT ![r] = "run"]
    /\ caller' = [caller EXCEPT ![c] = "idle"]
    /\ UNCHANGED <<bundle, inputs, executed, reply, forge, commons, up, resumed>>

-----------------------------------------------------------------------------
(* The thread of a replication that runs and has nothing unsaved.          *)
At(r, state) == up /\ thread[r] = "run" /\ doc[r].state = state

(* _advance: the document moves on, the thread to the next stage.          *)
Advance(r, state) ==
    /\ doc' = [doc EXCEPT ![r].state = state]
    /\ thread' = [thread EXCEPT ![r] = IF state = "COMPLETED" THEN "none" ELSE "run"]

(* _fail: an outcome that is there already stays.                          *)
Fail(r) ==
    /\ doc' = [doc EXCEPT ![r].state = "FAILED",
                          ![r].outcome = IF @ = "none" THEN "UNKNOWN" ELSE @]
    /\ thread' = [thread EXCEPT ![r] = "none"]

(* _thread_main records an exception of a stage and leaves the outcome.    *)
CoordinatorFailure(r) ==
    /\ doc' = [doc EXCEPT ![r].state = "FAILED"]
    /\ thread' = [thread EXCEPT ![r] = "none"]

(* VERIFYING: the artifact must be the one that the baseline records; the  *)
(* identities found are saved.                                             *)
Verify(r) ==
    /\ At(r, "ACCEPTED")
    /\ IF inputs.artifact = inputs.baseline
       THEN /\ doc' = [doc EXCEPT ![r].state = "VERIFYING",
                                  ![r].verified = inputs.baseline]
            /\ UNCHANGED thread
       ELSE Fail(r)
    /\ UNCHANGED <<caller, bundle, inputs, executed, reply, forge, commons, up, resumed>>

(* A slip: a resumed replication makes its bundle once more.               *)
StageAgain(r) ==
    /\ At(r, "VERIFYING") \/ At(r, "PREPARING")
    /\ bundle' = [bundle EXCEPT ![r] = inputs]
    /\ thread' = [thread EXCEPT ![r] = "staged"]
    /\ UNCHANGED <<doc, caller, inputs, executed, reply, forge, commons, up, resumed>>

(* PREPARING: the bundle directory is made anew from the input files (one  *)
(* step: the owner can produce every mixture of versions himself) ...      *)
StageBundle(r) ==
    /\ At(r, "VERIFYING")
    /\ \/ bundle' = [bundle EXCEPT ![r] = inputs]
          /\ thread' = [thread EXCEPT ![r] = "staged"]
          /\ UNCHANGED doc
       \/ CoordinatorFailure(r) /\ UNCHANGED bundle
    /\ UNCHANGED <<caller, inputs, executed, reply, forge, commons, up, resumed>>

(* ... and is fixed once the document says so.                             *)
SaveStaged(r) ==
    /\ up /\ thread[r] = "staged"
    /\ Advance(r, "PREPARING")
    /\ UNCHANGED <<caller, bundle, inputs, executed, reply, forge, commons, up, resumed>>

(* The worker re-verifies the bundle before it executes it.                *)
WorkerSays(r) ==
    IF bundle[r].artifact = bundle[r].baseline THEN Answers ELSE {"missing"}

(* What identifies a request for Fabric: the job id and the bundle.        *)
Request(r) == <<r, bundle[r]>>

(* The service, its contract or the worker is not fit to be asked.         *)
Refuse(r) == "refused" \in Faults /\ Fail(r) /\ UNCHANGED <<executed, reply>>

(* Fabric runs a request once and replays the evidence of a duplicate; the *)
(* adapter asks twice, and may lose the answer of a request that was run.  *)
Execute(r) ==
    /\ executed' = executed \cup {Request(r)}
    /\ \/ /\ \E say \in WorkerSays(r) : reply' = [reply EXCEPT ![r] = say]
          /\ thread' = [thread EXCEPT ![r] = "answered"] /\ UNCHANGED doc
       \/ "lost" \in Faults /\ Fail(r) /\ UNCHANGED reply

(* EXECUTING.                                                              *)
Dispatch(r) ==
    /\ At(r, "PREPARING")
    /\ Refuse(r) \/ Execute(r)
    /\ UNCHANGED <<caller, bundle, inputs, forge, commons, up, resumed>>

SaveAnswer(r) ==
    /\ up /\ thread[r] = "answered"
    /\ doc' = [doc EXCEPT ![r].state = "EXECUTING", ![r].stdout = reply[r]]
    /\ thread' = [thread EXCEPT ![r] = "run"]
    /\ reply' = [reply EXCEPT ![r] = "none"]
    /\ UNCHANGED <<caller, bundle, inputs, executed, forge, commons, up, resumed>>

(* The replica binds the definition that the stage VERIFYING saved.        *)
SameDefinition(r) == OneDefinition \/ bundle[r].baseline = doc[r].verified

(* A slip: the definition of the replica is not compared.                  *)
CollectUnbound(r) ==
    /\ At(r, "EXECUTING") /\ doc[r].stdout = "pass"
    /\ doc' = [doc EXCEPT ![r].state = "COLLECTING", ![r].outcome = "PASS"]
    /\ UNCHANGED <<thread, caller, bundle, inputs, executed, reply, forge, commons,
                   up, resumed>>

(* COLLECTING: the envelope decides the outcome; without evidence, or with *)
(* evidence of another definition, the replication fails.                  *)
Collect(r) ==
    /\ At(r, "EXECUTING")
    /\ IF doc[r].stdout = "missing" \/ ~SameDefinition(r)
       THEN Fail(r)
       ELSE /\ doc' = [doc EXCEPT
                        ![r].state = "COLLECTING",
                        ![r].outcome = CASE doc[r].stdout = "pass" -> "PASS"
                                         [] doc[r].stdout = "fail" -> "FAIL"
                                         [] OTHER -> "UNKNOWN"]
            /\ UNCHANGED thread
    /\ UNCHANGED <<caller, bundle, inputs, executed, reply, forge, commons, up, resumed>>

(* Forge records both results, compares and evaluates them.                *)
RecordConceptEvidence(r) ==
    /\ forge' = forge \cup {<<r, inputs.baseline>>}
    /\ thread' = [thread EXCEPT ![r] = "compared"] /\ UNCHANGED doc

(* COMPARING: the baseline file is read again; the evidence of Forge may   *)
(* be incomplete, and asking it may raise.                                 *)
Compare(r) ==
    /\ At(r, "COLLECTING")
    /\ \/ RecordConceptEvidence(r)
       \/ "forge" \in Faults /\ (Fail(r) \/ CoordinatorFailure(r))
          /\ forge' \in {forge, forge \cup {<<r, inputs.baseline>>}}
    /\ UNCHANGED <<caller, bundle, inputs, executed, reply, commons, up, resumed>>

SaveCompared(r) ==
    /\ up /\ thread[r] = "compared"
    /\ Advance(r, "COMPARING")
    /\ UNCHANGED <<caller, bundle, inputs, executed, reply, forge, commons, up, resumed>>

(* PUBLISHING, which is done again when the service died before COMPLETED. *)
Publish(r) ==
    /\ At(r, "COMPARING") \/ At(r, "PUBLISHING")
    /\ \/ /\ commons' = commons \cup {r}
          /\ thread' = [thread EXCEPT ![r] = "published"]
          /\ UNCHANGED doc
       \/ "commons" \in Faults /\ Fail(r) /\ commons' \in {commons, commons \cup {r}}
    /\ UNCHANGED <<caller, bundle, inputs, executed, reply, forge, up, resumed>>

(* The receipt is saved, then the state COMPLETED: two saves.              *)
SavePublished(r) ==
    /\ up /\ thread[r] = "published"
    /\ IF doc[r].state = "PUBLISHING"
       THEN Advance(r, "COMPLETED")
       ELSE doc' = [doc EXCEPT ![r].state = "PUBLISHING"] /\ UNCHANGED thread
    /\ UNCHANGED <<caller, bundle, inputs, executed, reply, forge, commons, up, resumed>>

Coordinate(r) ==
    \/ Verify(r) \/ StageBundle(r) \/ SaveStaged(r) \/ Dispatch(r) \/ SaveAnswer(r)
    \/ Collect(r) \/ Compare(r) \/ SaveCompared(r) \/ Publish(r) \/ SavePublished(r)

-----------------------------------------------------------------------------
(* The owner of the input files replaces one of them by a later version.   *)
ReplaceInput ==
    /\ \E v \in Versions :
          \/ v > inputs.artifact /\ inputs' = [inputs EXCEPT !.artifact = v]
          \/ v > inputs.baseline /\ inputs' = [inputs EXCEPT !.baseline = v]
    /\ UNCHANGED <<doc, thread, caller, bundle, executed, reply, forge, commons,
                   up, resumed>>

(* The service process dies with its threads; what they held is gone.      *)
Crash ==
    /\ up /\ up' = FALSE
    /\ thread' = [r \in Ids |-> "none"]
    /\ caller' = [c \in Callers |-> "idle"]
    /\ reply' = [r \in Ids |-> "none"]
    /\ UNCHANGED <<doc, bundle, inputs, executed, forge, commons, resumed>>

Restart ==
    /\ ~up /\ up' = TRUE /\ resumed' = FALSE
    /\ UNCHANGED <<doc, thread, caller, bundle, inputs, executed, reply, forge, commons>>

(* A slip: a resumed replication that was prepared is prepared once more.  *)
ResumeFromStart ==
    /\ up /\ ~resumed /\ resumed' = TRUE
    /\ doc' = [r \in Ids |-> IF doc[r].state = "PREPARING"
                             THEN [doc[r] EXCEPT !.state = "VERIFYING"] ELSE doc[r]]
    /\ thread' = [r \in Ids |-> IF doc[r].state \in ActiveStates THEN "run" ELSE thread[r]]
    /\ UNCHANGED <<caller, bundle, inputs, executed, reply, forge, commons, up>>

(* A slip: only replications that never got past acceptance are resumed.   *)
ResumeAccepted ==
    /\ up /\ ~resumed /\ resumed' = TRUE
    /\ thread' = [r \in Ids |-> IF doc[r].state = "ACCEPTED" THEN "run" ELSE thread[r]]
    /\ UNCHANGED <<doc, caller, bundle, inputs, executed, reply, forge, commons, up>>

(* The timer of __init__: every active replication gets a thread; the lock *)
(* of a replication turns a second thread away.                            *)
ResumeUnfinished ==
    /\ up /\ ~resumed /\ resumed' = TRUE
    /\ thread' = [r \in Ids |-> IF doc[r].state \in ActiveStates /\ thread[r] = "none"
                                THEN "run" ELSE thread[r]]
    /\ UNCHANGED <<doc, caller, bundle, inputs, executed, reply, forge, commons, up>>

Next ==
    \/ \E c \in Callers : StartLook(c) \/ StartCreate(c)
    \/ \E r \in Ids : Coordinate(r)
    \/ ReplaceInput \/ Crash \/ Restart \/ ResumeUnfinished

Spec == Init /\ [][Next]_vars

(* Threads go on, the service is restarted and its timer fires; it does    *)
(* not die for ever.  Callers and the owner of the files owe nothing.      *)
Fairness ==
    /\ \A r \in Ids : WF_vars(Coordinate(r))
    /\ WF_vars(Restart) /\ WF_vars(ResumeUnfinished)
    /\ <>[][~Crash]_vars

FairSpec == Spec /\ Fairness

-----------------------------------------------------------------------------
(* Fabric really executes for a replication at most once, although stages  *)
(* are redone after a crash, answers are lost and the input files change:  *)
(* the bundle of a request that may be repeated is never staged again      *)
(* (docs/EXPERIMENT-REPLICATION.md on re-dispatch).                        *)
AtMostOneExecution ==
    \A r \in Ids : \A x, y \in {e \in executed : e[1] = r} : x = y

(* PASS is only said of a run of the artifact that was verified: the input *)
(* files may change after the verification and before the bundle is made,  *)
(* and the changed bundle is told by the definition it realizes, provided  *)
(* that another version realizes another one.  The state has its types.    *)
PassIsVerified ==
    /\ TypeOK
    /\ \A r \in Ids : doc[r].outcome = "PASS" =>
        <<r, [artifact |-> doc[r].verified, baseline |-> doc[r].verified]>> \in executed

(* The calls that found no attempt and are about to make one.              *)
Creating == {c \in Callers : caller[c] = "creating"}

(* As long as no attempt failed, the attempts of the specification are     *)
(* those of calls that overlap, no more than there are callers: the lookup *)
(* holds no lock, so each of them may make one, and none is made for a     *)
(* call that comes later, whatever ends or dies meanwhile.  Of one caller  *)
(* at a time there is one attempt.                                         *)
AttemptsOverlap ==
    (\A r \in Ids : doc[r].state # "FAILED") =>
        Cardinality(Existing) + Cardinality(Creating) <= Cardinality(Callers)

Rank(state) == IF state = "FAILED" THEN 9 ELSE
               IF state = "absent" THEN 0 ELSE CHOOSE i \in 1..8 : Stages[i] = state

(* A document only moves to the next stage or to FAILED, also across       *)
(* crashes and redone stages, and what is over stays as it is.             *)
StagesMoveForward ==
    [][\A r \in Ids : doc'[r] # doc[r] =>
           /\ doc[r].state \notin TerminalStates
           /\ doc'[r].state # "FAILED" => Rank(doc'[r].state) = Rank(doc[r].state) + 1]_vars

(* Every accepted replication comes to an end, whatever fails.             *)
ReplicationEnds ==
    \A r \in Ids : doc[r].state = "ACCEPTED" ~> doc[r].state \in TerminalStates
=============================================================================
