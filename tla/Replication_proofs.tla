------------------------- MODULE Replication_proofs -------------------------
(***************************************************************************)
(* The safety of Replication for every set of attempts, versions, answers  *)
(* and faults.                                                             *)
(*                                                                         *)
(* None of the properties is inductive: that a request is executed once    *)
(* depends on the stage in which the bundle may still be made, that a PASS *)
(* is verified on the envelope a thread holds and on the one in the        *)
(* document.  IInv ties the document, the thread, the bundle and what      *)
(* Fabric executed for each attempt to its stage.                          *)
(***************************************************************************)
EXTENDS Replication, FiniteSetTheorems, WellFoundedInduction, TLAPS

(* What the thread of attempt r may have done and not saved, by stage.     *)
StageInv(r) ==
    /\ doc[r].state = "absent" => doc[r] = Absent
    /\ thread[r] # "none" => up /\ doc[r].state \in ActiveStates
    /\ thread[r] = "staged" => doc[r].state = "VERIFYING"
    /\ thread[r] = "answered" => doc[r].state = "PREPARING"
    /\ thread[r] = "compared" => doc[r].state = "COLLECTING"
    /\ thread[r] = "published" => doc[r].state \in {"COMPARING", "PUBLISHING"}

(* Before EXECUTING is over there is no outcome; before PREPARING is over  *)
(* nothing was executed, and after it only the bundle was.                 *)
ExecutionInv(r) ==
    /\ doc[r].state \in {"ACCEPTED", "VERIFYING", "PREPARING", "EXECUTING"} =>
          doc[r].outcome = "none"
    /\ doc[r].state \in {"absent", "ACCEPTED", "VERIFYING"} =>
          \A b \in Files \cup {None} : <<r, b>> \notin executed
    /\ \A b \in Files \cup {None} : <<r, b>> \in executed => b = bundle[r]

(* The bundle holds the artifact that its baseline records, and Fabric     *)
(* executed it.                                                            *)
Sound(r) == bundle[r].artifact = bundle[r].baseline /\ Request(r) \in executed

EvidenceInv(r) ==
    /\ thread[r] = "answered" /\ reply[r] = "pass" => Sound(r)
    /\ doc[r].state = "EXECUTING" /\ doc[r].stdout = "pass" => Sound(r)

IInv ==
    /\ TypeOK
    /\ \A r \in Ids : StageInv(r) /\ ExecutionInv(r) /\ EvidenceInv(r)
-----------------------------------------------------------------------------
LEMMA Initially == Init => IInv
  BY VersionsAssumption
     DEF Init, IInv, TypeOK, StageInv, ExecutionInv, EvidenceInv, Absent, None, Files,
         ActiveStates, TerminalStates, Outcomes, Stages

(* The document of one attempt, and what a save may put in its place.      *)
States == ActiveStates \cup TerminalStates \cup {"absent"}
Document == [state : States, verified : Versions \cup {0}, outcome : Outcomes,
             stdout : Answers \cup {"none", "missing"}]

LEMMA StateNames ==
    States = {"ACCEPTED", "VERIFYING", "PREPARING", "EXECUTING", "COLLECTING", "COMPARING",
              "PUBLISHING", "COMPLETED", "FAILED", "absent"}
  BY DEF States, ActiveStates, TerminalStates, Stages

LEMMA SaveState ==
    ASSUME doc \in [Ids -> Document], NEW r \in Ids, NEW s \in States
    PROVE  [doc EXCEPT ![r].state = s] \in [Ids -> Document]
<1> DEFINE d == [doc[r] EXCEPT !.state = s]
<1>1. d \in Document
  BY DEF Document
<1>2. [doc EXCEPT ![r].state = s] = [doc EXCEPT ![r] = d]
  OBVIOUS
<1> HIDE DEF d
<1> QED
  BY <1>1, <1>2

LEMMA SaveFailure ==
    ASSUME doc \in [Ids -> Document], NEW r \in Ids, Fail(r)
    PROVE  doc' \in [Ids -> Document]
<1> DEFINE d == [doc[r] EXCEPT !.state = "FAILED",
                               !.outcome = IF @ = "none" THEN "UNKNOWN" ELSE @]
<1>1. d \in Document
  BY StateNames DEF Document, Outcomes
<1>2. doc' = [doc EXCEPT ![r] = d]
  BY DEF Fail
<1> HIDE DEF d
<1> QED
  BY <1>1, <1>2

LEMMA SaveVerified ==
    ASSUME doc \in [Ids -> Document], NEW r \in Ids, NEW v \in Versions
    PROVE  [doc EXCEPT ![r].state = "VERIFYING", ![r].verified = v] \in [Ids -> Document]
<1> DEFINE d == [doc[r] EXCEPT !.state = "VERIFYING", !.verified = v]
<1>1. d \in Document
  BY StateNames DEF Document
<1>2. [doc EXCEPT ![r].state = "VERIFYING", ![r].verified = v] = [doc EXCEPT ![r] = d]
  OBVIOUS
<1> HIDE DEF d
<1> QED
  BY <1>1, <1>2

LEMMA SaveStdout ==
    ASSUME doc \in [Ids -> Document], NEW r \in Ids, NEW o \in Answers \cup {"none", "missing"}
    PROVE  [doc EXCEPT ![r].state = "EXECUTING", ![r].stdout = o] \in [Ids -> Document]
<1> DEFINE d == [doc[r] EXCEPT !.state = "EXECUTING", !.stdout = o]
<1>1. d \in Document
  BY StateNames DEF Document
<1>2. [doc EXCEPT ![r].state = "EXECUTING", ![r].stdout = o] = [doc EXCEPT ![r] = d]
  OBVIOUS
<1> HIDE DEF d
<1> QED
  BY <1>1, <1>2

LEMMA SaveOutcome ==
    ASSUME doc \in [Ids -> Document], NEW r \in Ids, NEW o \in Outcomes
    PROVE  [doc EXCEPT ![r].state = "COLLECTING", ![r].outcome = o] \in [Ids -> Document]
<1> DEFINE d == [doc[r] EXCEPT !.state = "COLLECTING", !.outcome = o]
<1>1. d \in Document
  BY StateNames DEF Document
<1>2. [doc EXCEPT ![r].state = "COLLECTING", ![r].outcome = o] = [doc EXCEPT ![r] = d]
  OBVIOUS
<1> HIDE DEF d
<1> QED
  BY <1>1, <1>2

(* Every step keeps the types of the documents ...                         *)
LEMMA DocumentStep ==
    ASSUME TypeOK, [Next]_vars
    PROVE  doc' \in [Ids -> Document]
<1>0. doc \in [Ids -> Document]
  BY DEF TypeOK, Document, States
<1> USE <1>0, StateNames
<1> DEFINE Typed(f) == f \in [Ids -> Document]
<1>s. ASSUME NEW r \in Ids
      PROVE  /\ Typed([doc EXCEPT ![r].state = "ACCEPTED"])
             /\ Typed([doc EXCEPT ![r].state = "PREPARING"])
             /\ Typed([doc EXCEPT ![r].state = "COMPARING"])
             /\ Typed([doc EXCEPT ![r].state = "PUBLISHING"])
             /\ Typed([doc EXCEPT ![r].state = "COMPLETED"])
             /\ Typed([doc EXCEPT ![r].state = "FAILED"])
  BY SaveState
<1>1. ASSUME NEW c \in Callers, StartCreate(c) PROVE Typed(doc')
  <2>1. PICK r \in Ids : doc' = [doc EXCEPT ![r].state = "ACCEPTED"]
    BY <1>1 DEF StartCreate
  <2>2. Typed([doc EXCEPT ![r].state = "ACCEPTED"])
    BY <1>s
  <2> QED
    BY <2>1, <2>2
<1>2. ASSUME NEW r \in Ids, Verify(r) PROVE Typed(doc')
  <2>1. inputs.baseline \in Versions
    BY DEF TypeOK, Files
  <2>2. Typed([doc EXCEPT ![r].state = "VERIFYING", ![r].verified = inputs.baseline])
    BY <2>1, SaveVerified
  <2> QED
    BY <1>2, <2>2, SaveFailure DEF Verify
<1>3. ASSUME NEW r \in Ids, StageBundle(r) PROVE Typed(doc')
  <2>1. CASE UNCHANGED doc
    BY <2>1
  <2>2. CASE CoordinatorFailure(r)
    BY <1>s, <2>2 DEF CoordinatorFailure
  <2> QED
    BY <1>3, <2>1, <2>2 DEF StageBundle
<1>4. ASSUME NEW r \in Ids, SaveStaged(r) \/ SaveCompared(r) \/ SavePublished(r)
      PROVE  Typed(doc')
  <2>1. \/ doc' = [doc EXCEPT ![r].state = "PREPARING"]
        \/ doc' = [doc EXCEPT ![r].state = "COMPARING"]
        \/ doc' = [doc EXCEPT ![r].state = "PUBLISHING"]
        \/ doc' = [doc EXCEPT ![r].state = "COMPLETED"]
    BY <1>4 DEF SaveStaged, SaveCompared, SavePublished, Advance
  <2>2. /\ Typed([doc EXCEPT ![r].state = "PREPARING"])
        /\ Typed([doc EXCEPT ![r].state = "COMPARING"])
        /\ Typed([doc EXCEPT ![r].state = "PUBLISHING"])
        /\ Typed([doc EXCEPT ![r].state = "COMPLETED"])
    BY <1>s
  <2> QED
    BY <2>1, <2>2
<1>5. ASSUME NEW r \in Ids, Dispatch(r) PROVE Typed(doc')
  <2>1. UNCHANGED doc \/ Fail(r)
    BY <1>5 DEF Dispatch, Refuse, Execute
  <2>2. CASE UNCHANGED doc
    BY <2>2
  <2>3. CASE Fail(r)
    BY <2>3, SaveFailure
  <2> QED
    BY <2>1, <2>2, <2>3
<1>6. ASSUME NEW r \in Ids, SaveAnswer(r) PROVE Typed(doc')
  BY <1>6, SaveStdout DEF SaveAnswer, TypeOK
<1>7. ASSUME NEW r \in Ids, Collect(r) PROVE Typed(doc')
  <2>1. CASE Fail(r)
    BY <2>1, SaveFailure
  <2>2. CASE ~Fail(r)
    <3>1. PICK o \in {"PASS", "FAIL", "UNKNOWN"} :
             doc' = [doc EXCEPT ![r].state = "COLLECTING", ![r].outcome = o]
      BY <1>7, <2>2 DEF Collect
    <3>2. Typed([doc EXCEPT ![r].state = "COLLECTING", ![r].outcome = o])
      BY SaveOutcome DEF Outcomes
    <3> QED
      BY <3>1, <3>2
  <2> QED
    BY <2>1, <2>2
<1>8. ASSUME NEW r \in Ids, Compare(r) PROVE Typed(doc')
  <2>1. UNCHANGED doc \/ Fail(r) \/ CoordinatorFailure(r)
    BY <1>8 DEF Compare, RecordConceptEvidence
  <2>2. CASE UNCHANGED doc
    BY <2>2
  <2>3. CASE Fail(r)
    BY <2>3, SaveFailure
  <2>4. CASE CoordinatorFailure(r)
    BY <1>s, <2>4 DEF CoordinatorFailure
  <2> QED
    BY <2>1, <2>2, <2>3, <2>4
<1>9. ASSUME NEW r \in Ids, Publish(r) PROVE Typed(doc')
  BY <1>9, SaveFailure DEF Publish
<1>10. CASE UNCHANGED doc
  BY <1>10
<1>11. \/ UNCHANGED doc
       \/ \E c \in Callers : StartCreate(c)
       \/ \E r \in Ids : Coordinate(r)
  BY DEF Next, vars, StartLook, ReplaceInput, Crash, Restart, ResumeUnfinished
<1> QED
  BY <1>1, <1>2, <1>3, <1>4, <1>5, <1>6, <1>7, <1>8, <1>9, <1>10, <1>11 DEF Coordinate

(* ... and of everything else.                                             *)
LEMMA TypeStep == TypeOK /\ [Next]_vars => TypeOK'
<1> SUFFICES ASSUME TypeOK, [Next]_vars PROVE TypeOK'
  OBVIOUS
<1> DEFINE ThreadOK == /\ thread \in [Ids -> {"none", "run", "staged", "answered",
                                               "compared", "published"}]
                       /\ caller \in [Callers -> {"idle", "creating"}]
           BundleOK == /\ bundle \in [Ids -> Files \cup {None}] /\ inputs \in Files
           FabricOK == /\ executed \subseteq Ids \X (Files \cup {None})
                       /\ reply \in [Ids -> Answers \cup {"none", "missing"}]
           OutOK == forge \subseteq Ids \X Versions /\ commons \subseteq Ids
           FlagsOK == up \in BOOLEAN /\ resumed \in BOOLEAN
<1>1. doc' \in [Ids -> Document]
  BY DocumentStep
<1>2. ThreadOK'
  <2> USE DEF TypeOK
  <2>1. ASSUME NEW c \in Callers, StartLook(c) \/ StartCreate(c) PROVE ThreadOK'
    BY <2>1 DEF StartLook, StartCreate
  <2>2. ASSUME NEW r \in Ids, Coordinate(r) PROVE ThreadOK'
    BY <2>2 DEF Coordinate, Verify, StageBundle, SaveStaged, Dispatch, SaveAnswer, Collect,
                Compare, SaveCompared, Publish, SavePublished, Advance, Fail, Execute,
                CoordinatorFailure, RecordConceptEvidence, Refuse
  <2>3. CASE ReplaceInput \/ Crash \/ Restart \/ ResumeUnfinished \/ UNCHANGED vars
    BY <2>3 DEF ReplaceInput, Crash, Restart, ResumeUnfinished, vars
  <2> QED
    BY <2>1, <2>2, <2>3 DEF Next
<1>3. BundleOK'
  <2> USE DEF TypeOK
  <2>1. ASSUME NEW r \in Ids, StageBundle(r) PROVE BundleOK'
    BY <2>1 DEF StageBundle
  <2>2. CASE ReplaceInput
    BY <2>2 DEF ReplaceInput, Files
  <2>3. CASE UNCHANGED <<bundle, inputs>>
    BY <2>3
  <2> QED
    BY <2>1, <2>2, <2>3
       DEF Next, Coordinate, StartLook, StartCreate, Verify, SaveStaged, Dispatch, SaveAnswer,
           Collect, Compare, SaveCompared, Publish, SavePublished, Crash, Restart,
           ResumeUnfinished, vars
<1>4. FabricOK'
  <2> USE DEF TypeOK
  <2>1. ASSUME NEW r \in Ids, Dispatch(r) \/ SaveAnswer(r) PROVE FabricOK'
    BY <2>1 DEF Dispatch, Refuse, Execute, Request, WorkerSays, SaveAnswer
  <2>2. CASE Crash
    BY <2>2 DEF Crash
  <2>3. CASE UNCHANGED <<executed, reply>>
    BY <2>3
  <2> QED
    BY <2>1, <2>2, <2>3
       DEF Next, Coordinate, StartLook, StartCreate, Verify, StageBundle, SaveStaged, Collect,
           Compare, SaveCompared, Publish, SavePublished, ReplaceInput, Restart,
           ResumeUnfinished, vars
<1>5. OutOK'
  <2> USE DEF TypeOK
  <2>1. ASSUME NEW r \in Ids, Compare(r) \/ Publish(r) PROVE OutOK'
    BY <2>1 DEF Compare, RecordConceptEvidence, Publish, Files
  <2>2. CASE UNCHANGED <<forge, commons>>
    BY <2>2
  <2> QED
    BY <2>1, <2>2
       DEF Next, Coordinate, StartLook, StartCreate, Verify, StageBundle, SaveStaged, Dispatch,
           SaveAnswer, Collect, SaveCompared, SavePublished, ReplaceInput, Crash, Restart,
           ResumeUnfinished, vars
<1>6. FlagsOK'
  BY DEF TypeOK, Next, Coordinate, StartLook, StartCreate, Verify, StageBundle, SaveStaged,
         Dispatch, SaveAnswer, Collect, Compare, SaveCompared, Publish, SavePublished,
         ReplaceInput, Crash, Restart, ResumeUnfinished, vars
<1> QED
  BY <1>1, <1>2, <1>3, <1>4, <1>5, <1>6 DEF TypeOK, Document, States

LEMMA ActiveNames ==
    ActiveStates = {"ACCEPTED", "VERIFYING", "PREPARING", "EXECUTING", "COLLECTING",
                    "COMPARING", "PUBLISHING"}
  BY DEF ActiveStates, Stages

(* A thread stays in line with the stage of its document.                  *)
LEMMA StageStep ==
    ASSUME TypeOK, \A r \in Ids : StageInv(r), [Next]_vars, NEW u \in Ids
    PROVE  StageInv(u)'
<1>0. doc \in [Ids -> Document]
  BY DEF TypeOK, Document, States
<1>t. thread \in [Ids -> {"none", "run", "staged", "answered", "compared", "published"}]
  BY DEF TypeOK
<1> USE <1>0, <1>t, ActiveNames DEF StageInv, Document, Absent
<1>1. ASSUME NEW c \in Callers, StartCreate(c) PROVE StageInv(u)'
  BY <1>1 DEF StartCreate, Existing
<1>2. ASSUME NEW r \in Ids, Verify(r) PROVE StageInv(u)'
  BY <1>2 DEF Verify, At, Fail
<1>3. ASSUME NEW r \in Ids, StageBundle(r) \/ SaveStaged(r) PROVE StageInv(u)'
  BY <1>3 DEF StageBundle, SaveStaged, At, CoordinatorFailure, Advance
<1>4. ASSUME NEW r \in Ids, Dispatch(r) \/ SaveAnswer(r) PROVE StageInv(u)'
  BY <1>4 DEF Dispatch, SaveAnswer, At, Refuse, Execute, Fail
<1>5. ASSUME NEW r \in Ids, Collect(r) PROVE StageInv(u)'
  BY <1>5 DEF Collect, At, Fail
<1>6. ASSUME NEW r \in Ids, Compare(r) \/ SaveCompared(r) PROVE StageInv(u)'
  BY <1>6 DEF Compare, SaveCompared, At, RecordConceptEvidence, Fail, CoordinatorFailure,
              Advance
<1>7. ASSUME NEW r \in Ids, Publish(r) \/ SavePublished(r) PROVE StageInv(u)'
  BY <1>7 DEF Publish, SavePublished, At, Fail, Advance
<1>8. CASE Crash \/ Restart \/ ResumeUnfinished
  BY <1>8 DEF Crash, Restart, ResumeUnfinished
<1>9. CASE UNCHANGED <<doc, thread, up>>
  BY <1>9
<1>10. \/ UNCHANGED <<doc, thread, up>> \/ Crash \/ Restart \/ ResumeUnfinished
       \/ \E c \in Callers : StartCreate(c)
       \/ \E r \in Ids : Coordinate(r)
  BY DEF Next, vars, StartLook, ReplaceInput
<1> QED
  BY <1>1, <1>2, <1>3, <1>4, <1>5, <1>6, <1>7, <1>8, <1>9, <1>10 DEF Coordinate

(* What Fabric executed for an attempt stays its bundle, of which there is *)
(* no outcome before EXECUTING is over.                                    *)
LEMMA ExecutionStep ==
    ASSUME IInv, [Next]_vars, NEW u \in Ids
    PROVE  ExecutionInv(u)'
<1>0. /\ doc \in [Ids -> Document]
      /\ bundle \in [Ids -> Files \cup {None}]
  BY DEF IInv, TypeOK, Document, States
<1>i. \A r \in Ids : StageInv(r) /\ ExecutionInv(r)
  BY DEF IInv
<1> USE <1>0, <1>i, ActiveNames DEF StageInv, ExecutionInv, Document, Absent
<1>1. ASSUME NEW c \in Callers, StartCreate(c) PROVE ExecutionInv(u)'
  BY <1>1 DEF StartCreate, Existing
<1>2. ASSUME NEW r \in Ids, Verify(r) PROVE ExecutionInv(u)'
  BY <1>2 DEF Verify, At, Fail
<1>3. ASSUME NEW r \in Ids, StageBundle(r) \/ SaveStaged(r) PROVE ExecutionInv(u)'
  BY <1>3 DEF StageBundle, SaveStaged, At, CoordinatorFailure, Advance
<1>4. ASSUME NEW r \in Ids, Dispatch(r) PROVE ExecutionInv(u)'
  BY <1>4 DEF Dispatch, At, Refuse, Execute, Fail, Request
<1>5. ASSUME NEW r \in Ids, SaveAnswer(r) \/ Collect(r) PROVE ExecutionInv(u)'
  BY <1>5 DEF SaveAnswer, Collect, At, Fail
<1>6. ASSUME NEW r \in Ids, Compare(r) \/ SaveCompared(r) PROVE ExecutionInv(u)'
  BY <1>6 DEF Compare, SaveCompared, At, RecordConceptEvidence, Fail, CoordinatorFailure,
              Advance
<1>7. ASSUME NEW r \in Ids, Publish(r) \/ SavePublished(r) PROVE ExecutionInv(u)'
  BY <1>7 DEF Publish, SavePublished, At, Fail, Advance
<1>8. CASE UNCHANGED <<doc, bundle, executed>>
  BY <1>8
<1>9. \/ UNCHANGED <<doc, bundle, executed>>
      \/ \E c \in Callers : StartCreate(c)
      \/ \E r \in Ids : Coordinate(r)
  BY DEF Next, vars, StartLook, ReplaceInput, Crash, Restart, ResumeUnfinished
<1> QED
  BY <1>1, <1>2, <1>3, <1>4, <1>5, <1>6, <1>7, <1>8, <1>9 DEF Coordinate

(* A positive envelope is of a sound run, where it is held and where it is *)
(* saved.                                                                  *)
LEMMA EvidenceStep ==
    ASSUME IInv, [Next]_vars, NEW u \in Ids
    PROVE  EvidenceInv(u)'
<1>0. /\ doc \in [Ids -> Document]
      /\ bundle \in [Ids -> Files \cup {None}]
      /\ thread \in [Ids -> {"none", "run", "staged", "answered", "compared", "published"}]
      /\ reply \in [Ids -> Answers \cup {"none", "missing"}]
  BY DEF IInv, TypeOK, Document, States
<1>i. \A r \in Ids : StageInv(r) /\ EvidenceInv(r)
  BY DEF IInv
<1> USE <1>0, <1>i, ActiveNames DEF StageInv, EvidenceInv, Sound, Request, Document, Absent
<1>1. ASSUME NEW c \in Callers, StartCreate(c) PROVE EvidenceInv(u)'
  BY <1>1 DEF StartCreate, Existing
<1>2. ASSUME NEW r \in Ids, Verify(r) PROVE EvidenceInv(u)'
  BY <1>2 DEF Verify, At, Fail
<1>3. ASSUME NEW r \in Ids, StageBundle(r) \/ SaveStaged(r) PROVE EvidenceInv(u)'
  BY <1>3 DEF StageBundle, SaveStaged, At, CoordinatorFailure, Advance
<1>4. ASSUME NEW r \in Ids, Dispatch(r) PROVE EvidenceInv(u)'
  BY <1>4 DEF Dispatch, At, Refuse, Execute, Fail, WorkerSays
<1>5. ASSUME NEW r \in Ids, SaveAnswer(r) \/ Collect(r) PROVE EvidenceInv(u)'
  BY <1>5 DEF SaveAnswer, Collect, At, Fail
<1>6. ASSUME NEW r \in Ids, Compare(r) \/ SaveCompared(r) PROVE EvidenceInv(u)'
  BY <1>6 DEF Compare, SaveCompared, At, RecordConceptEvidence, Fail, CoordinatorFailure,
              Advance
<1>7. ASSUME NEW r \in Ids, Publish(r) \/ SavePublished(r) PROVE EvidenceInv(u)'
  BY <1>7 DEF Publish, SavePublished, At, Fail, Advance
<1>8. CASE Crash \/ ResumeUnfinished
  BY <1>8 DEF Crash, ResumeUnfinished
<1>9. CASE UNCHANGED <<doc, thread, bundle, reply, executed>>
  BY <1>9
<1>10. \/ UNCHANGED <<doc, thread, bundle, reply, executed>> \/ Crash \/ ResumeUnfinished
       \/ \E c \in Callers : StartCreate(c)
       \/ \E r \in Ids : Coordinate(r)
  BY DEF Next, vars, StartLook, ReplaceInput, Restart
<1> QED
  BY <1>1, <1>2, <1>3, <1>4, <1>5, <1>6, <1>7, <1>8, <1>9, <1>10 DEF Coordinate

THEOREM Invariance == Spec => []IInv
<1>1. IInv /\ [Next]_vars => IInv'
  BY TypeStep, StageStep, ExecutionStep, EvidenceStep DEF IInv
<1> QED
  BY <1>1, Initially, PTL DEF Spec

-----------------------------------------------------------------------------
(* Fabric executes at most one bundle for each attempt.                    *)
THEOREM ThmAtMostOneExecution == Spec => []AtMostOneExecution
<1>1. IInv => AtMostOneExecution
  <2> SUFFICES ASSUME IInv, NEW r \in Ids, NEW x \in executed, NEW y \in executed,
                      x[1] = r, y[1] = r
               PROVE  x = y
    BY DEF AtMostOneExecution
  <2>1. ASSUME NEW e \in executed, e[1] = r PROVE e = <<r, bundle[r]>>
    <3>1. PICK b \in Files \cup {None} : e = <<r, b>>
      BY <2>1 DEF IInv, TypeOK
    <3> QED
      BY <3>1 DEF IInv, ExecutionInv
  <2> QED
    BY <2>1
<1> QED
  BY <1>1, Invariance, PTL

(* When versions realize different definitions, PASS is only said of a run *)
(* of the artifact that was verified.                                      *)
THEOREM ThmPassIsVerified ==
    ASSUME OneDefinition = FALSE PROVE Spec => []PassIsVerified
<1> DEFINE Verified(r) == [artifact |-> doc[r].verified, baseline |-> doc[r].verified]
           PassInv == \A r \in Ids : doc[r].outcome = "PASS" => <<r, Verified(r)>> \in executed
<1>1. Init => PassInv
  BY DEF Init, Absent
<1>2. ASSUME IInv, PassInv, [Next]_vars PROVE PassInv'
  <2> SUFFICES ASSUME NEW u \in Ids, doc'[u].outcome = "PASS"
               PROVE  <<u, Verified(u)'>> \in executed'
    OBVIOUS
  <2>0. /\ doc \in [Ids -> Document] /\ bundle \in [Ids -> Files \cup {None}]
        /\ \A r \in Ids : StageInv(r) /\ ExecutionInv(r) /\ EvidenceInv(r)
    BY <1>2 DEF IInv, TypeOK, Document, States
  <2>1. executed \subseteq executed'
    BY <1>2 DEF Next, Coordinate, StartLook, StartCreate, Verify, StageBundle, SaveStaged,
                Dispatch, Refuse, Execute, SaveAnswer, Collect, Compare, SaveCompared, Publish,
                SavePublished, ReplaceInput, Crash, Restart, ResumeUnfinished, vars
  <2>2. ASSUME Collect(u) PROVE <<u, Verified(u)'>> \in executed'
    <3>1. /\ doc[u].state = "EXECUTING" /\ doc[u].outcome = "none"
      BY <2>0, <2>2 DEF Collect, At, ExecutionInv
    <3>2. /\ doc[u].stdout = "pass" /\ doc'[u].verified = doc[u].verified
          /\ bundle[u].baseline = doc[u].verified
      BY <2>0, <2>2, <3>1, OneDefinition = FALSE
         DEF Collect, At, Fail, SameDefinition, Document
    <3>3. Sound(u)
      BY <2>0, <3>1, <3>2 DEF EvidenceInv
    <3>4. bundle[u] = [artifact |-> bundle[u].artifact, baseline |-> bundle[u].baseline]
      BY <2>0 DEF Files, None
    <3> QED
      BY <2>1, <3>2, <3>3, <3>4 DEF Sound, Request
  <2>3. ASSUME ~Collect(u)
        PROVE  doc'[u].outcome = doc[u].outcome /\ doc'[u].verified = doc[u].verified
    <3> USE <2>0, <2>3, ActiveNames DEF StageInv, ExecutionInv, Document, Absent
    <3>1. ASSUME NEW c \in Callers, StartCreate(c)
          PROVE  doc'[u].outcome = doc[u].outcome /\ doc'[u].verified = doc[u].verified
      BY <3>1 DEF StartCreate, Existing
    <3>2. ASSUME NEW r \in Ids, Coordinate(r)
          PROVE  doc'[u].outcome = doc[u].outcome /\ doc'[u].verified = doc[u].verified
      <4>1. CASE Verify(r)
        BY <4>1 DEF Verify, At, Fail
      <4>2. CASE StageBundle(r) \/ SaveStaged(r)
        BY <4>2 DEF StageBundle, SaveStaged, CoordinatorFailure, Advance
      <4>3. CASE Dispatch(r) \/ SaveAnswer(r)
        BY <4>3 DEF Dispatch, SaveAnswer, At, Refuse, Execute, Fail
      <4>4. CASE Collect(r)
        BY <4>4 DEF Collect, Fail
      <4>5. CASE Compare(r) \/ SaveCompared(r)
        BY <4>5 DEF Compare, SaveCompared, RecordConceptEvidence, Fail, CoordinatorFailure,
                    Advance
      <4>6. CASE Publish(r) \/ SavePublished(r)
        BY <4>6 DEF Publish, SavePublished, Fail, Advance
      <4> QED
        BY <3>2, <4>1, <4>2, <4>3, <4>4, <4>5, <4>6 DEF Coordinate
    <3>3. CASE UNCHANGED doc
      BY <3>3
    <3> QED
      BY <1>2, <3>1, <3>2, <3>3
         DEF Next, vars, StartLook, ReplaceInput, Crash, Restart, ResumeUnfinished
  <2> QED
    BY <1>2, <2>1, <2>2, <2>3
<1>3. IInv /\ PassInv => PassIsVerified
  BY DEF IInv, PassIsVerified
<1> QED
  BY <1>1, <1>2, <1>3, Invariance, PTL DEF Spec

(* The lookup of start() takes the first attempt by name: there is one.    *)
LEMMA FirstAttempt ==
    ASSUME NEW S, S \subseteq Nat, S # {}
    PROVE  \E x \in S : \A y \in S : x <= y
<1> DEFINE R == {p \in Nat \X Nat : p[1] < p[2]}
<1>1. IsWellFoundedOn(R, Nat)
  BY NatLessThanWellFounded, Zenon DEF OpToRel
<1> HIDE DEF R
<1>2. PICK x \in S : \A y \in S : <<y, x>> \notin R
  BY <1>1, WFMin, Zenon
<1>3. ASSUME NEW y \in S PROVE x <= y
  <2>1. x \in Nat /\ y \in Nat
    OBVIOUS
  <2>2. <<y, x>> \in R <=> y < x
    BY <2>1 DEF R
  <2> QED
    BY <1>2, <2>1, <2>2
<1> QED
  BY <1>3

(* However many calls overlap and whatever crashes: as long as no attempt  *)
(* failed, there are no more attempts than calls that looked before there  *)
(* was one.                                                                *)
LEMMA CreatingIsFinite ==
    /\ IsFiniteSet(Creating) /\ Cardinality(Creating) \in Nat
    /\ Cardinality(Callers) \in Nat /\ Cardinality(Creating) <= Cardinality(Callers)
<1>1. Creating \subseteq Callers
  BY DEF Creating
<1> QED
  BY <1>1, CallersAssumption, FS_Subset, FS_CardinalityType

THEOREM ThmAttemptsOverlap == Spec => []AttemptsOverlap
<1> DEFINE NoFailure == \A r \in Ids : doc[r].state # "FAILED"
           OverlapInv == NoFailure =>
               /\ IsFiniteSet(Existing)
               /\ Cardinality(Existing) + Cardinality(Creating) <= Cardinality(Callers)
<1>1. Init => OverlapInv
  <2> SUFFICES ASSUME Init PROVE OverlapInv
    OBVIOUS
  <2>1. Existing = {}
    BY DEF Init, Existing, Absent
  <2> QED
    BY <2>1, FS_EmptySet, CreatingIsFinite
<1>2. ASSUME IInv, OverlapInv, [Next]_vars PROVE OverlapInv'
  <2>0. /\ doc \in [Ids -> Document]
        /\ caller \in [Callers -> {"idle", "creating"}]
        /\ \A r \in Ids : StageInv(r)
    BY <1>2 DEF IInv, TypeOK, Document, States
  <2>a. NoFailure => /\ Cardinality(Existing) \in Nat /\ Cardinality(Creating) \in Nat
                     /\ Cardinality(Callers) \in Nat
    BY <1>2, CreatingIsFinite, FS_CardinalityType
  <2> SUFFICES ASSUME NoFailure'
               PROVE  /\ IsFiniteSet(Existing')
                      /\ Cardinality(Existing') + Cardinality(Creating') <= Cardinality(Callers)
    OBVIOUS
  <2>1. ASSUME NEW c \in Callers, StartLook(c) PROVE OverlapInv'
    <3>1. NoFailure /\ doc' = doc
      BY <2>1 DEF StartLook
    <3>2. Existing = {}
      <4> SUFFICES ASSUME Existing # {} PROVE FALSE
        OBVIOUS
      <4>1. PICK x \in Existing : \A y \in Existing : x <= y
        BY FirstAttempt, IdsAssumption DEF Existing
      <4> QED
        BY <2>1, <3>1, <4>1 DEF StartLook, FindBySpec, Existing
    <3>3. Existing' = {}
      BY <3>1, <3>2 DEF Existing
    <3>4. Creating' \subseteq Callers
      BY DEF Creating
    <3>5. Cardinality(Creating') \in Nat /\ Cardinality(Creating') <= Cardinality(Callers)
      BY <3>4, CallersAssumption, FS_Subset, FS_CardinalityType
    <3> QED
      BY <3>3, <3>5, FS_EmptySet, CreatingIsFinite
  <2>2. ASSUME NEW c \in Callers, StartCreate(c) PROVE OverlapInv'
    <3>1. PICK r \in Ids \ Existing : doc' = [doc EXCEPT ![r].state = "ACCEPTED"]
      BY <2>2 DEF StartCreate
    <3>2. NoFailure
      BY <2>0, <2>2, <3>1 DEF Existing
    <3>3. Existing' = Existing \cup {r} /\ r \notin Existing
      BY <2>0, <3>1 DEF Existing, Document
    <3>4. Creating' = Creating \ {c} /\ c \in Creating
      BY <2>0, <2>2 DEF StartCreate, Creating
    <3>5. IsFiniteSet(Existing') /\ Cardinality(Existing') = Cardinality(Existing) + 1
      BY <1>2, <3>2, <3>3, FS_AddElement
    <3>6. Cardinality(Creating') = Cardinality(Creating) - 1
      BY <3>4, CreatingIsFinite, FS_RemoveElement
    <3> QED
      BY <1>2, <2>a, <3>2, <3>5, <3>6
  <2>3. ASSUME NEW r \in Ids, Coordinate(r) PROVE OverlapInv'
    <3> USE <2>0, ActiveNames DEF StageInv, Document
    <3>1. caller' = caller
      BY <2>3 DEF Coordinate, Verify, StageBundle, SaveStaged, Dispatch, SaveAnswer, Collect,
                  Compare, SaveCompared, Publish, SavePublished
    <3>2. ASSUME NEW u \in Ids
          PROVE  /\ doc'[u].state = "absent" <=> doc[u].state = "absent"
                 /\ doc[u].state # "FAILED"
      <4>1. CASE Verify(r)
        BY <4>1 DEF Verify, At, Fail
      <4>2. CASE StageBundle(r) \/ SaveStaged(r)
        BY <4>2 DEF StageBundle, SaveStaged, At, CoordinatorFailure, Advance
      <4>3. CASE Dispatch(r)
        BY <4>3 DEF Dispatch, At, Refuse, Execute, Fail
      <4>7. CASE SaveAnswer(r)
        BY <4>7 DEF SaveAnswer
      <4>4. CASE Collect(r)
        BY <4>4 DEF Collect, At, Fail
      <4>5. CASE Compare(r) \/ SaveCompared(r)
        BY <4>5 DEF Compare, SaveCompared, At, RecordConceptEvidence, Fail,
                    CoordinatorFailure, Advance
      <4>6. CASE Publish(r) \/ SavePublished(r)
        BY <4>6 DEF Publish, SavePublished, At, Fail, Advance
      <4> QED
        BY <2>3, <4>1, <4>2, <4>3, <4>4, <4>5, <4>6, <4>7 DEF Coordinate
    <3>3. NoFailure /\ Existing' = Existing /\ Creating' = Creating
      BY <3>1, <3>2 DEF Existing, Creating
    <3> QED
      BY <1>2, <3>3
  <2>4. CASE Crash
    <3>1. Existing' = Existing /\ Creating' = {} /\ (NoFailure' => NoFailure)
      BY <2>4 DEF Crash, Existing, Creating
    <3> QED
      BY <1>2, <2>a, <3>1, FS_EmptySet
  <2>5. CASE UNCHANGED <<doc, caller>>
    BY <1>2, <2>5 DEF Existing, Creating
  <2> QED
    BY <1>2, <2>1, <2>2, <2>3, <2>4, <2>5
       DEF Next, vars, ReplaceInput, Restart, ResumeUnfinished
<1>3. OverlapInv => AttemptsOverlap
  BY DEF AttemptsOverlap
<1> QED
  BY <1>1, <1>2, <1>3, Invariance, PTL DEF Spec

LEMMA Ranks ==
    /\ Rank("FAILED") = 9 /\ Rank("absent") = 0 /\ Rank("ACCEPTED") = 1
    /\ Rank("VERIFYING") = 2 /\ Rank("PREPARING") = 3 /\ Rank("EXECUTING") = 4
    /\ Rank("COLLECTING") = 5 /\ Rank("COMPARING") = 6 /\ Rank("PUBLISHING") = 7
    /\ Rank("COMPLETED") = 8
<1> DEFINE Has(n, state) == \A i \in 1..8 : Stages[i] = state <=> i = n
<1>1. /\ Has(1, "ACCEPTED") /\ Has(2, "VERIFYING") /\ Has(3, "PREPARING")
      /\ Has(4, "EXECUTING") /\ Has(5, "COLLECTING") /\ Has(6, "COMPARING")
      /\ Has(7, "PUBLISHING") /\ Has(8, "COMPLETED")
  BY DEF Stages
<1>2. ASSUME NEW n \in 1..8, NEW state, Has(n, state), state \notin {"FAILED", "absent"}
      PROVE  Rank(state) = n
  BY <1>2 DEF Rank
<1> HIDE DEF Has
<1> QED
  BY <1>1, <1>2 DEF Rank

(* A document moves to the next stage or to FAILED, and what is over stays *)
(* as it is.                                                               *)
THEOREM ThmStagesMoveForward == Spec => StagesMoveForward
<1> DEFINE Forward(u) == doc'[u] # doc[u] =>
                           /\ doc[u].state \notin TerminalStates
                           /\ doc'[u].state # "FAILED" =>
                                 Rank(doc'[u].state) = Rank(doc[u].state) + 1
<1>1. ASSUME IInv, [Next]_vars, NEW u \in Ids PROVE Forward(u)
  <2>0. /\ doc \in [Ids -> Document]
        /\ \A r \in Ids : StageInv(r)
    BY <1>1 DEF IInv, TypeOK, Document, States
  <2> USE <2>0, ActiveNames, Ranks DEF StageInv, Document, TerminalStates
  <2>1. ASSUME NEW c \in Callers, StartCreate(c) PROVE Forward(u)
    BY <2>1 DEF StartCreate, Existing
  <2>2. ASSUME NEW r \in Ids, Coordinate(r) PROVE Forward(u)
    <3>1. CASE Verify(r)
      BY <3>1 DEF Verify, At, Fail
    <3>2. CASE StageBundle(r) \/ SaveStaged(r)
      BY <3>2 DEF StageBundle, SaveStaged, At, CoordinatorFailure, Advance
    <3>3. CASE Dispatch(r) \/ SaveAnswer(r)
      BY <3>3 DEF Dispatch, SaveAnswer, At, Refuse, Execute, Fail
    <3>4. CASE Collect(r)
      BY <3>4 DEF Collect, At, Fail
    <3>5. CASE Compare(r) \/ SaveCompared(r)
      BY <3>5 DEF Compare, SaveCompared, At, RecordConceptEvidence, Fail,
                  CoordinatorFailure, Advance
    <3>6. CASE Publish(r) \/ SavePublished(r)
      BY <3>6 DEF Publish, SavePublished, At, Fail, Advance
    <3> QED
      BY <2>2, <3>1, <3>2, <3>3, <3>4, <3>5, <3>6 DEF Coordinate
  <2>3. CASE UNCHANGED doc
    BY <2>3
  <2> QED
    BY <1>1, <2>1, <2>2, <2>3
       DEF Next, vars, StartLook, ReplaceInput, Crash, Restart, ResumeUnfinished
<1>2. IInv /\ [Next]_vars => [\A r \in Ids : Forward(r)]_vars
  BY <1>1
<1> QED
  BY <1>2, Invariance, PTL DEF Spec, StagesMoveForward
=============================================================================
