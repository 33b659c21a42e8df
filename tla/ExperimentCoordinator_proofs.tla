--------------------- MODULE ExperimentCoordinator_proofs ---------------------
(***************************************************************************)
(* What the coordinator's model promises for every number of Control       *)
(* processes, stop calls, turns and tool steps.                            *)
(*                                                                         *)
(* The argument has one foundation, Typed: every copy of the state may be  *)
(* saved, coordinator.lock tells which thread is at work, the others have  *)
(* no copy, and where a thread works on a turn its copy has one.  On it    *)
(* rest the invariants that make the properties inductive:                 *)
(*   - StopInv and AfterInv, for what a stop call may rely on;             *)
(*   - ReleaseInv, for what RELEASED on record says of the lease;          *)
(*   - TurnsInv, how a thread's copy may differ from the document, for the *)
(*     history of the turns;                                               *)
(*   - AtWork, which works are pending where, for the works of Fabric.     *)
(* Every update of a copy is an operator of the model with a lemma that    *)
(* says what it changes and keeps; the step lemmas see only these lemmas.  *)
(***************************************************************************)
EXTENDS ExperimentCoordinator, SequenceTheorems, FiniteSetTheorems, TLAPS

(* A copy of the state that may be saved.                                  *)
Bounded(state) == state \in State /\ Len(state.turns) <= MaxTurns

-----------------------------------------------------------------------------
(* What an update of a copy changes, and what it keeps.                    *)

LEMMA Marking ==
    ASSUME NEW S, Bounded(S), NEW x \in {"ACCEPTED", "RUNNING"} \cup Terminal
    PROVE  /\ Bounded(Mark(S, x)) /\ Mark(S, x).st = x
           /\ Mark(S, x).turns = S.turns /\ Mark(S, x).stop = S.stop
           /\ Mark(S, x).residency = S.residency
  BY DEF Bounded, State, Mark

LEMMA Holding ==
    ASSUME NEW S, Bounded(S), NEW x \in Residency
    PROVE  /\ Bounded(Hold(S, x)) /\ Hold(S, x).residency = x
           /\ Hold(S, x).turns = S.turns /\ Hold(S, x).stop = S.stop
           /\ Hold(S, x).st = S.st
  BY DEF Bounded, State, Hold

LEMMA Requesting ==
    ASSUME NEW S, Bounded(S)
    PROVE  /\ Bounded(Request(S)) /\ Request(S).stop
           /\ Request(S).turns = S.turns /\ Request(S).residency = S.residency
           /\ Request(S).st = S.st
  BY DEF Bounded, State, Request

LEMMA Merging ==
    ASSUME NEW S, Bounded(S), Bounded(disk)
    PROVE  /\ Bounded(Merged(S)) /\ Merged(S).stop = (S.stop \/ disk.stop)
           /\ Merged(S).turns = S.turns /\ Merged(S).residency = S.residency
           /\ Merged(S).st = S.st
  BY DEF Bounded, State, Merged

LEMMA Lasts ==
    ASSUME NEW S, Bounded(S), S.turns # <<>>
    PROVE  /\ Last(S) \in Turn /\ Len(S.turns) \in 1 .. MaxTurns
           /\ Key(S) \in Keys
<1>1. S.turns \in Seq(Turn) /\ Len(S.turns) <= MaxTurns
  BY DEF Bounded, State
<1>2. Len(S.turns) \in 1 .. MaxTurns
  BY <1>1, BoundsAssumption, EmptySeq
<1>3. Last(S) \in Turn
  BY <1>1, <1>2 DEF Last
<1> QED
  BY <1>2, <1>3 DEF Key, Keys, Turn

(* Only the last turn differs.                                             *)
AllBut(R, S) ==
    /\ Len(R.turns) = Len(S.turns)
    /\ \A n \in 1 .. Len(S.turns) : n # Len(S.turns) => R.turns[n] = S.turns[n]

SameBut(R, S) ==
    /\ R.turns # <<>> /\ AllBut(R, S)
    /\ R.stop = S.stop /\ R.residency = S.residency /\ R.st = S.st

LEMMA Changing ==
    ASSUME NEW S, Bounded(S), S.turns # <<>>, NEW x \in Turn
    PROVE  /\ Bounded(WithLast(S, x)) /\ Last(WithLast(S, x)) = x
           /\ SameBut(WithLast(S, x), S)
  BY DEF Bounded, State, WithLast, Last, SameBut, AllBut

LEMMA Becoming ==
    ASSUME NEW S, Bounded(S), S.turns # <<>>, NEW x \in Unsettled \cup Settled
    PROVE  /\ Bounded(Become(S, x)) /\ SameBut(Become(S, x), S)
           /\ Last(Become(S, x)) = [state |-> x, step |-> Last(S).step]
<1>1. [Last(S) EXCEPT !.state = x] = [state |-> x, step |-> Last(S).step]
  BY Lasts DEF Turn
<1>2. [Last(S) EXCEPT !.state = x] \in Turn
  BY Lasts DEF Turn
<1> QED
  BY <1>1, <1>2, Changing DEF Become

LEMMA Following ==
    ASSUME NEW S, Bounded(S), S.turns # <<>>, Last(S).step < MaxToolSteps
    PROVE  /\ Bounded(FollowUp(S)) /\ SameBut(FollowUp(S), S)
           /\ Last(FollowUp(S)) = [state |-> Last(S).state, step |-> Last(S).step + 1]
<1>1. [Last(S) EXCEPT !.step = @ + 1] = [state |-> Last(S).state, step |-> Last(S).step + 1]
  BY Lasts DEF Turn
<1>2. [Last(S) EXCEPT !.step = @ + 1] \in Turn
  BY Lasts, BoundsAssumption DEF Turn
<1> QED
  BY <1>1, <1>2, Changing DEF FollowUp

LEMMA Adding ==
    ASSUME NEW S, Bounded(S), Len(S.turns) < MaxTurns
    PROVE  /\ Bounded(AddTurn(S)) /\ AddTurn(S).turns = Append(S.turns, Prepared)
           /\ AddTurn(S).stop = S.stop /\ AddTurn(S).residency = S.residency
           /\ AddTurn(S).st = S.st
<1>1. Prepared \in Turn
  BY BoundsAssumption DEF Prepared, Turn, Unsettled
<1>2. S.turns \in Seq(Turn) /\ Len(S.turns) \in Nat
  BY DEF Bounded, State
<1>3. /\ Append(S.turns, Prepared) \in Seq(Turn)
      /\ Len(Append(S.turns, Prepared)) = Len(S.turns) + 1
  BY <1>1, <1>2, AppendProperties
<1>4. Len(S.turns) + 1 <= MaxTurns
  BY <1>2, BoundsAssumption
<1> QED
  BY <1>3, <1>4 DEF Bounded, State, AddTurn

-----------------------------------------------------------------------------
WithTurn == {"submit", "saveSubmit", "poll", "ask", "savePoll", "afterPoll", "tools",
             "followup"}

(* Every copy may be saved, and where a thread works on a turn there is    *)
(* one, with a tool step to go where tools are executed.                   *)
CopiesOK ==
    /\ disk \in State /\ Bounded(disk)
    /\ local \in [Procs -> State] /\ \A p \in Procs : Bounded(local[p])
    /\ stale \in [Stops -> State] /\ \A s \in Stops : Bounded(stale[s])

PlaceOK(p) ==
    /\ pc[p] \in WithTurn => local[p].turns # <<>>
    /\ pc[p] = "tools" => Last(local[p]).step < MaxToolSteps

PlacesOK == pc \in [Procs -> Places] /\ \A p \in Procs : PlaceOK(p)

WorldOK ==
    /\ owner \in Procs \cup {Nobody}
    /\ stopPc \in [Stops -> {"idle", "loaded", "saved", "refused"}]
    /\ fabric \in [Keys -> WorkStates]
    /\ late \in BOOLEAN /\ leased \in BOOLEAN
    /\ afterStop \subseteq Keys

(* A step of a thread that replaces its copy, and may save the one it had. *)
LEMMA Copied ==
    ASSUME CopiesOK, NEW p \in Procs, NEW S, Bounded(S), Copy(p, S)
    PROVE  /\ local' \in [Procs -> State] /\ \A q \in Procs : Bounded(local'[q])
           /\ local'[p] = S /\ \A q \in Procs \ {p} : local'[q] = local[q]
  BY DEF CopiesOK, Copy, Bounded

LEMMA Fresh == Bounded(Accepted) /\ Accepted.turns = <<>>
  BY BoundsAssumption, EmptySeq DEF Bounded, Accepted, State, Residency

LEMMA CopiesStep ==
    ASSUME CopiesOK, PlacesOK, [Next]_vars
    PROVE  CopiesOK'
<1> USE Marking, Holding, Requesting, Becoming, Following, Adding, Merging, Copied, Fresh
    DEF coordVars, stopVars, worksVars, worldVars, Terminal, Residency, Unsettled,
        Settled, PlacesOK, PlaceOK, WithTurn, Goto
<1>1. ASSUME NEW p \in Procs, Acquire(p) PROVE CopiesOK'
  BY <1>1 DEF Acquire, CopiesOK
<1>2. ASSUME NEW p \in Procs, Top(p) PROVE CopiesOK'
  BY <1>2 DEF Top, CopiesOK
<1>3. ASSUME NEW p \in Procs, Attempt(p) PROVE CopiesOK'
  BY <1>3 DEF Attempt, Forget, CopiesOK
<1>4. ASSUME NEW p \in Procs, Prepare(p) PROVE CopiesOK'
  BY <1>4 DEF Prepare, CopiesOK
<1>5. ASSUME NEW p \in Procs, SavePrepared(p) PROVE CopiesOK'
  BY <1>5 DEF SavePrepared, Save, CopiesOK
<1>6. ASSUME NEW p \in Procs, PrepareFailed(p) PROVE CopiesOK'
  BY <1>6 DEF PrepareFailed, CopiesOK
<1>7. ASSUME NEW p \in Procs, Begin(p) PROVE CopiesOK'
  BY <1>7 DEF Begin, CopiesOK
<1>8. ASSUME NEW p \in Procs, SaveBegin(p) PROVE CopiesOK'
  BY <1>8 DEF SaveBegin, Save, CopiesOK
<1>9. ASSUME NEW p \in Procs, LoopStop(p) PROVE CopiesOK'
  BY <1>9 DEF LoopStop, CopiesOK
<1>10. ASSUME NEW p \in Procs, LoopCurrent(p) PROVE CopiesOK'
  BY <1>10 DEF LoopCurrent, CopiesOK
<1>11. ASSUME NEW p \in Procs, LoopComplete(p) PROVE CopiesOK'
  BY <1>11 DEF LoopComplete, CopiesOK
<1>12. ASSUME NEW p \in Procs, LoopNewTurn(p) PROVE CopiesOK'
  BY <1>12 DEF LoopNewTurn, CopiesOK
<1>13. ASSUME NEW p \in Procs, SaveTurn(p) PROVE CopiesOK'
  BY <1>13 DEF SaveTurn, Save, CopiesOK
<1>14. ASSUME NEW p \in Procs, Submit(p) PROVE CopiesOK'
  BY <1>14 DEF Submit, Accept, CopiesOK
<1>15. ASSUME NEW p \in Procs, SubmitFails(p) PROVE CopiesOK'
  BY <1>15 DEF SubmitFails, Reject, Accept, CopiesOK
<1>16. ASSUME NEW p \in Procs, SaveSubmit(p) PROVE CopiesOK'
  BY <1>16 DEF SaveSubmit, Save, CopiesOK
<1>17. ASSUME NEW p \in Procs, SaveRefused(p) PROVE CopiesOK'
  <2>1. Bounded(Merged(local[p])) /\ Bounded(Mark(Merged(local[p]), "FAILED"))
    BY DEF CopiesOK
  <2> QED
    BY <1>17, <2>1 DEF SaveRefused, CopiesOK, Bounded
<1>18. ASSUME NEW p \in Procs, Poll(p) PROVE CopiesOK'
  BY <1>18 DEF Poll, CopiesOK
<1>19. ASSUME NEW p \in Procs, AskActive(p) PROVE CopiesOK'
  BY <1>19 DEF AskActive, CopiesOK
<1>20. ASSUME NEW p \in Procs, SavePoll(p) PROVE CopiesOK'
  BY <1>20 DEF SavePoll, Save, CopiesOK
<1>21. ASSUME NEW p \in Procs, PollAgain(p) PROVE CopiesOK'
  BY <1>21 DEF PollAgain, CopiesOK
<1>22. ASSUME NEW p \in Procs, PollTimeout(p) PROVE CopiesOK'
  BY <1>22 DEF PollTimeout, CopiesOK
<1>23. ASSUME NEW p \in Procs, AskBad(p) PROVE CopiesOK'
  BY <1>23 DEF AskBad, CopiesOK
<1>24. ASSUME NEW p \in Procs, AskTools(p) PROVE CopiesOK'
  BY <1>24 DEF AskTools, CopiesOK
<1>25. ASSUME NEW p \in Procs, Tools(p) PROVE CopiesOK'
  BY <1>25 DEF Tools, CopiesOK
<1>26. ASSUME NEW p \in Procs, Followup(p) PROVE CopiesOK'
  BY <1>26 DEF Followup, Accept, CopiesOK
<1>27. ASSUME NEW p \in Procs, FollowupFails(p) PROVE CopiesOK'
  BY <1>27 DEF FollowupFails, Reject, Accept, CopiesOK
<1>28. ASSUME NEW p \in Procs, AskDone(p) PROVE CopiesOK'
  BY <1>28 DEF AskDone, CopiesOK
<1>29. ASSUME NEW p \in Procs, SaveDone(p) PROVE CopiesOK'
  BY <1>29 DEF SaveDone, Save, CopiesOK
<1>30. ASSUME NEW p \in Procs, SaveFailed(p) PROVE CopiesOK'
  BY <1>30 DEF SaveFailed, Save, CopiesOK
<1>31. ASSUME NEW p \in Procs, SaveStopped(p) PROVE CopiesOK'
  BY <1>31 DEF SaveStopped, Save, CopiesOK
<1>32. ASSUME NEW p \in Procs, AfterFailed(p) PROVE CopiesOK'
  BY <1>32 DEF AfterFailed, CopiesOK
<1>33. ASSUME NEW p \in Procs, SaveTerminal(p) PROVE CopiesOK'
  BY <1>33 DEF SaveTerminal, Save, CopiesOK
<1>34. ASSUME NEW p \in Procs, Finally(p) PROVE CopiesOK'
  BY <1>34 DEF Finally, CopiesOK
<1>35. ASSUME NEW p \in Procs, Teardown(p) PROVE CopiesOK'
  BY <1>35 DEF Teardown, CopiesOK
<1>36. ASSUME NEW p \in Procs, SaveTeardown(p) PROVE CopiesOK'
  BY <1>36 DEF SaveTeardown, Save, CopiesOK
<1>37. ASSUME NEW p \in Procs, Release(p) PROVE CopiesOK'
  BY <1>37 DEF Release, Forget, CopiesOK
<1>38. ASSUME NEW p \in Procs, Handle(p) PROVE CopiesOK'
  BY <1>38 DEF Handle, CopiesOK
<1>39. ASSUME NEW p \in Procs, SaveError(p) PROVE CopiesOK'
  <2>1. Bounded(Merged(local[p])) /\ Bounded(Mark(Merged(local[p]), "FAILED"))
    BY DEF CopiesOK
  <2> QED
    BY <1>39, <2>1 DEF SaveError, CopiesOK, Bounded
<1>40. ASSUME NEW p \in Procs, GiveUp(p) PROVE CopiesOK'
  <2>1. Bounded(Merged(local[p]))
    BY DEF CopiesOK
  <2> QED
    BY <1>40, <2>1 DEF GiveUp, Forget, CopiesOK, Bounded
<1>41. ASSUME NEW p \in Procs, Raise(p) PROVE CopiesOK'
  BY <1>41 DEF Raise, Raises, CopiesOK
<1>42. ASSUME NEW p \in Procs, Crash(p) PROVE CopiesOK'
  BY <1>42 DEF Crash, Forget, CopiesOK
<1>43. ASSUME NEW p \in Procs, Restart(p) PROVE CopiesOK'
  BY <1>43 DEF Restart, CopiesOK
<1>44. ASSUME NEW s \in Stops, StopLoad(s) PROVE CopiesOK'
  <2>1. UNCHANGED <<disk, local>> /\ Bounded(Request(disk)) /\ Request(disk) \in State
    BY <1>44 DEF StopLoad, CopiesOK, Bounded
  <2>2. CASE UNCHANGED stale
    BY <2>1, <2>2 DEF CopiesOK, Bounded
  <2>3. CASE stale' = [stale EXCEPT ![s] = Request(disk)]
    BY <2>1, <2>3 DEF CopiesOK, Bounded
  <2> QED
    BY <1>44, <2>2, <2>3 DEF StopLoad
<1>45. ASSUME NEW s \in Stops, StopSave(s) PROVE CopiesOK'
  BY <1>45 DEF StopSave, CopiesOK, Bounded
<1>46. ASSUME NEW k \in Keys, Work(k) PROVE CopiesOK'
  BY <1>46 DEF Work, CopiesOK
<1>47. ASSUME Deadline PROVE CopiesOK'
  BY <1>47 DEF Deadline, CopiesOK
<1>48. ASSUME UNCHANGED vars PROVE CopiesOK'
  BY <1>48 DEF vars, CopiesOK
<1> QED
  BY <1>1, <1>2, <1>3, <1>4, <1>5, <1>6, <1>7, <1>8, <1>9, <1>10, <1>11, <1>12, <1>13, <1>14,
     <1>15, <1>16, <1>17, <1>18, <1>19, <1>20, <1>21, <1>22, <1>23, <1>24, <1>25, <1>26,
     <1>27, <1>28, <1>29, <1>30, <1>31, <1>32, <1>33, <1>34, <1>35, <1>36, <1>37, <1>38,
     <1>39, <1>40, <1>41, <1>42, <1>43, <1>44, <1>45, <1>46, <1>47, <1>48 DEF Next, Coordinate

(* coordinator.lock: its holder, and no other thread, is at work.          *)
LockInv ==
    /\ owner \in Procs \cup {Nobody} /\ pc \in [Procs -> Places]
    /\ \A p \in Procs : owner = p <=> pc[p] \notin Outside

LEMMA LockStep == ASSUME LockInv, [Next]_vars PROVE LockInv'
<1> USE NobodyAssumption
    DEF coordVars, stopVars, worksVars, worldVars, LockInv, Places, Outside, Goto
<1>1. ASSUME NEW p \in Procs, Acquire(p) PROVE LockInv'
  BY <1>1 DEF Acquire
<1>2. ASSUME NEW p \in Procs, Top(p) PROVE LockInv'
  BY <1>2 DEF Top
<1>3. ASSUME NEW p \in Procs, Attempt(p) PROVE LockInv'
  BY <1>3 DEF Attempt, Forget
<1>4. ASSUME NEW p \in Procs, Prepare(p) PROVE LockInv'
  BY <1>4 DEF Prepare
<1>5. ASSUME NEW p \in Procs, SavePrepared(p) PROVE LockInv'
  BY <1>5 DEF SavePrepared, Save
<1>6. ASSUME NEW p \in Procs, PrepareFailed(p) PROVE LockInv'
  BY <1>6 DEF PrepareFailed
<1>7. ASSUME NEW p \in Procs, Begin(p) PROVE LockInv'
  BY <1>7 DEF Begin
<1>8. ASSUME NEW p \in Procs, SaveBegin(p) PROVE LockInv'
  BY <1>8 DEF SaveBegin, Save
<1>9. ASSUME NEW p \in Procs, LoopStop(p) PROVE LockInv'
  BY <1>9 DEF LoopStop
<1>10. ASSUME NEW p \in Procs, LoopCurrent(p) PROVE LockInv'
  BY <1>10 DEF LoopCurrent
<1>11. ASSUME NEW p \in Procs, LoopComplete(p) PROVE LockInv'
  BY <1>11 DEF LoopComplete
<1>12. ASSUME NEW p \in Procs, LoopNewTurn(p) PROVE LockInv'
  BY <1>12 DEF LoopNewTurn
<1>13. ASSUME NEW p \in Procs, SaveTurn(p) PROVE LockInv'
  BY <1>13 DEF SaveTurn, Save
<1>14. ASSUME NEW p \in Procs, Submit(p) PROVE LockInv'
  BY <1>14 DEF Submit, Accept
<1>15. ASSUME NEW p \in Procs, SubmitFails(p) PROVE LockInv'
  BY <1>15 DEF SubmitFails, Reject, Accept
<1>16. ASSUME NEW p \in Procs, SaveSubmit(p) PROVE LockInv'
  BY <1>16 DEF SaveSubmit, Save
<1>17. ASSUME NEW p \in Procs, SaveRefused(p) PROVE LockInv'
  BY <1>17 DEF SaveRefused
<1>18. ASSUME NEW p \in Procs, Poll(p) PROVE LockInv'
  BY <1>18 DEF Poll
<1>19. ASSUME NEW p \in Procs, AskActive(p) PROVE LockInv'
  BY <1>19 DEF AskActive
<1>20. ASSUME NEW p \in Procs, SavePoll(p) PROVE LockInv'
  BY <1>20 DEF SavePoll, Save
<1>21. ASSUME NEW p \in Procs, PollAgain(p) PROVE LockInv'
  BY <1>21 DEF PollAgain
<1>22. ASSUME NEW p \in Procs, PollTimeout(p) PROVE LockInv'
  BY <1>22 DEF PollTimeout
<1>23. ASSUME NEW p \in Procs, AskBad(p) PROVE LockInv'
  BY <1>23 DEF AskBad
<1>24. ASSUME NEW p \in Procs, AskTools(p) PROVE LockInv'
  BY <1>24 DEF AskTools
<1>25. ASSUME NEW p \in Procs, Tools(p) PROVE LockInv'
  BY <1>25 DEF Tools
<1>26. ASSUME NEW p \in Procs, Followup(p) PROVE LockInv'
  BY <1>26 DEF Followup, Accept
<1>27. ASSUME NEW p \in Procs, FollowupFails(p) PROVE LockInv'
  BY <1>27 DEF FollowupFails, Reject, Accept
<1>28. ASSUME NEW p \in Procs, AskDone(p) PROVE LockInv'
  BY <1>28 DEF AskDone
<1>29. ASSUME NEW p \in Procs, SaveDone(p) PROVE LockInv'
  BY <1>29 DEF SaveDone, Save
<1>30. ASSUME NEW p \in Procs, SaveFailed(p) PROVE LockInv'
  BY <1>30 DEF SaveFailed, Save
<1>31. ASSUME NEW p \in Procs, SaveStopped(p) PROVE LockInv'
  BY <1>31 DEF SaveStopped, Save
<1>32. ASSUME NEW p \in Procs, AfterFailed(p) PROVE LockInv'
  BY <1>32 DEF AfterFailed
<1>33. ASSUME NEW p \in Procs, SaveTerminal(p) PROVE LockInv'
  BY <1>33 DEF SaveTerminal, Save
<1>34. ASSUME NEW p \in Procs, Finally(p) PROVE LockInv'
  BY <1>34 DEF Finally
<1>35. ASSUME NEW p \in Procs, Teardown(p) PROVE LockInv'
  BY <1>35 DEF Teardown
<1>36. ASSUME NEW p \in Procs, SaveTeardown(p) PROVE LockInv'
  BY <1>36 DEF SaveTeardown, Save
<1>37. ASSUME NEW p \in Procs, Release(p) PROVE LockInv'
  BY <1>37 DEF Release, Forget
<1>38. ASSUME NEW p \in Procs, Handle(p) PROVE LockInv'
  BY <1>38 DEF Handle
<1>39. ASSUME NEW p \in Procs, SaveError(p) PROVE LockInv'
  BY <1>39 DEF SaveError
<1>40. ASSUME NEW p \in Procs, GiveUp(p) PROVE LockInv'
  BY <1>40 DEF GiveUp, Forget
<1>41. ASSUME NEW p \in Procs, Raise(p) PROVE LockInv'
  BY <1>41 DEF Raise, Raises
<1>42. ASSUME NEW p \in Procs, Crash(p) PROVE LockInv'
  BY <1>42 DEF Crash, Forget
<1>43. ASSUME NEW p \in Procs, Restart(p) PROVE LockInv'
  BY <1>43 DEF Restart
<1>44. ASSUME NEW s \in Stops, StopLoad(s) PROVE LockInv'
  BY <1>44 DEF StopLoad
<1>45. ASSUME NEW s \in Stops, StopSave(s) PROVE LockInv'
  BY <1>45 DEF StopSave
<1>46. ASSUME NEW k \in Keys, Work(k) PROVE LockInv'
  BY <1>46 DEF Work
<1>47. ASSUME Deadline PROVE LockInv'
  BY <1>47 DEF Deadline
<1>48. ASSUME UNCHANGED vars PROVE LockInv'
  BY <1>48 DEF vars
<1> QED
  BY <1>1, <1>2, <1>3, <1>4, <1>5, <1>6, <1>7, <1>8, <1>9, <1>10, <1>11,
     <1>12, <1>13, <1>14, <1>15, <1>16, <1>17, <1>18, <1>19, <1>20, <1>21,
     <1>22, <1>23, <1>24, <1>25, <1>26, <1>27, <1>28, <1>29, <1>30, <1>31,
     <1>32, <1>33, <1>34, <1>35, <1>36, <1>37, <1>38, <1>39, <1>40, <1>41,
     <1>42, <1>43, <1>44, <1>45, <1>46, <1>47, <1>48
     DEF Next, Coordinate

(* A thread moves alone, and one that is not at work has no copy.          *)
CopyInv == \A p \in Procs : pc[p] \in Outside => local[p] = Accepted
Alone(p) == \A q \in Procs \ {p} : pc'[q] = pc[q] /\ local'[q] = local[q]

LEMMA Moving ==
    ASSUME LockInv, CopiesOK, NEW p \in Procs, Coordinate(p) \/ Crash(p) \/ Restart(p)
    PROVE  Alone(p)
<1> USE DEF Alone, LockInv, CopiesOK, Goto, Copy, coordVars
<1>1. ASSUME Acquire(p) PROVE Alone(p)
  BY <1>1 DEF Acquire
<1>2. ASSUME Top(p) PROVE Alone(p)
  BY <1>2 DEF Top
<1>3. ASSUME Attempt(p) PROVE Alone(p)
  BY <1>3 DEF Attempt, Forget
<1>4. ASSUME Prepare(p) PROVE Alone(p)
  BY <1>4 DEF Prepare
<1>5. ASSUME SavePrepared(p) PROVE Alone(p)
  BY <1>5 DEF SavePrepared, Save
<1>6. ASSUME PrepareFailed(p) PROVE Alone(p)
  BY <1>6 DEF PrepareFailed
<1>7. ASSUME Begin(p) PROVE Alone(p)
  BY <1>7 DEF Begin
<1>8. ASSUME SaveBegin(p) PROVE Alone(p)
  BY <1>8 DEF SaveBegin, Save
<1>9. ASSUME LoopStop(p) PROVE Alone(p)
  BY <1>9 DEF LoopStop
<1>10. ASSUME LoopCurrent(p) PROVE Alone(p)
  BY <1>10 DEF LoopCurrent
<1>11. ASSUME LoopComplete(p) PROVE Alone(p)
  BY <1>11 DEF LoopComplete
<1>12. ASSUME LoopNewTurn(p) PROVE Alone(p)
  BY <1>12 DEF LoopNewTurn
<1>13. ASSUME SaveTurn(p) PROVE Alone(p)
  BY <1>13 DEF SaveTurn, Save
<1>14. ASSUME Submit(p) PROVE Alone(p)
  BY <1>14 DEF Submit, Accept
<1>15. ASSUME SubmitFails(p) PROVE Alone(p)
  BY <1>15 DEF SubmitFails, Reject, Accept
<1>16. ASSUME SaveSubmit(p) PROVE Alone(p)
  BY <1>16 DEF SaveSubmit, Save
<1>17. ASSUME SaveRefused(p) PROVE Alone(p)
  BY <1>17 DEF SaveRefused
<1>18. ASSUME Poll(p) PROVE Alone(p)
  BY <1>18 DEF Poll
<1>19. ASSUME AskActive(p) PROVE Alone(p)
  BY <1>19 DEF AskActive
<1>20. ASSUME SavePoll(p) PROVE Alone(p)
  BY <1>20 DEF SavePoll, Save
<1>21. ASSUME PollAgain(p) PROVE Alone(p)
  BY <1>21 DEF PollAgain
<1>22. ASSUME PollTimeout(p) PROVE Alone(p)
  BY <1>22 DEF PollTimeout
<1>23. ASSUME AskBad(p) PROVE Alone(p)
  BY <1>23 DEF AskBad
<1>24. ASSUME AskTools(p) PROVE Alone(p)
  BY <1>24 DEF AskTools
<1>25. ASSUME Tools(p) PROVE Alone(p)
  BY <1>25 DEF Tools
<1>26. ASSUME Followup(p) PROVE Alone(p)
  BY <1>26 DEF Followup, Accept
<1>27. ASSUME FollowupFails(p) PROVE Alone(p)
  BY <1>27 DEF FollowupFails, Reject, Accept
<1>28. ASSUME AskDone(p) PROVE Alone(p)
  BY <1>28 DEF AskDone
<1>29. ASSUME SaveDone(p) PROVE Alone(p)
  BY <1>29 DEF SaveDone, Save
<1>30. ASSUME SaveFailed(p) PROVE Alone(p)
  BY <1>30 DEF SaveFailed, Save
<1>31. ASSUME SaveStopped(p) PROVE Alone(p)
  BY <1>31 DEF SaveStopped, Save
<1>32. ASSUME AfterFailed(p) PROVE Alone(p)
  BY <1>32 DEF AfterFailed
<1>33. ASSUME SaveTerminal(p) PROVE Alone(p)
  BY <1>33 DEF SaveTerminal, Save
<1>34. ASSUME Finally(p) PROVE Alone(p)
  BY <1>34 DEF Finally
<1>35. ASSUME Teardown(p) PROVE Alone(p)
  BY <1>35 DEF Teardown
<1>36. ASSUME SaveTeardown(p) PROVE Alone(p)
  BY <1>36 DEF SaveTeardown, Save
<1>37. ASSUME Release(p) PROVE Alone(p)
  BY <1>37 DEF Release, Forget
<1>38. ASSUME Handle(p) PROVE Alone(p)
  BY <1>38 DEF Handle
<1>39. ASSUME SaveError(p) PROVE Alone(p)
  BY <1>39 DEF SaveError
<1>40. ASSUME GiveUp(p) PROVE Alone(p)
  BY <1>40 DEF GiveUp, Forget
<1>41. ASSUME Raise(p) PROVE Alone(p)
  BY <1>41 DEF Raise, Raises
<1>42. ASSUME Crash(p) PROVE Alone(p)
  BY <1>42 DEF Crash, Forget
<1>43. ASSUME Restart(p) PROVE Alone(p)
  BY <1>43 DEF Restart
<1> QED
  BY <1>1, <1>2, <1>3, <1>4, <1>5, <1>6, <1>7, <1>8, <1>9, <1>10, <1>11,
     <1>12, <1>13, <1>14, <1>15, <1>16, <1>17, <1>18, <1>19, <1>20, <1>21,
     <1>22, <1>23, <1>24, <1>25, <1>26, <1>27, <1>28, <1>29, <1>30, <1>31,
     <1>32, <1>33, <1>34, <1>35, <1>36, <1>37, <1>38, <1>39, <1>40, <1>41,
     <1>42, <1>43 DEF Coordinate

LEMMA PlaceStep ==
    ASSUME LockInv, CopiesOK, PlacesOK, CopyInv,
           NEW p \in Procs, Coordinate(p) \/ Crash(p) \/ Restart(p)
    PROVE  PlaceOK(p)' /\ (pc'[p] \in Outside => local'[p] = Accepted)
<1> DEFINE Goal == PlaceOK(p)' /\ (pc'[p] \in Outside => local'[p] = Accepted)
<1> USE Becoming, Following, Lasts, Merging, Copied
    DEF coordVars, stopVars, worksVars, worldVars, LockInv, CopyInv, CopiesOK,
        PlacesOK, PlaceOK, WithTurn, Places, Outside, Goto, SameBut, Unsettled,
        Settled
<1>1. ASSUME Acquire(p) PROVE Goal
  BY <1>1 DEF Acquire, Copy
<1>2. ASSUME Top(p) PROVE Goal
  BY <1>2 DEF Top, Copy
<1>3. ASSUME Attempt(p) PROVE Goal
  BY <1>3 DEF Attempt, Forget, Copy
<1>4. ASSUME Prepare(p) PROVE Goal
  BY <1>4 DEF Prepare, Copy
<1>5. ASSUME SavePrepared(p) PROVE Goal
  BY <1>5 DEF SavePrepared, Save, Copy
<1>6. ASSUME PrepareFailed(p) PROVE Goal
  BY <1>6 DEF PrepareFailed, Copy
<1>7. ASSUME Begin(p) PROVE Goal
  BY <1>7 DEF Begin, Copy
<1>8. ASSUME SaveBegin(p) PROVE Goal
  BY <1>8 DEF SaveBegin, Save, Copy
<1>9. ASSUME LoopStop(p) PROVE Goal
  BY <1>9 DEF LoopStop, Copy
<1>10. ASSUME LoopCurrent(p) PROVE Goal
  <2>1. local'[p] = disk /\ disk.turns # <<>> /\ pc'[p] \in {"submit", "poll"}
    BY <1>10 DEF LoopCurrent, HasCurrent, Copy
  <2> QED
    BY <2>1
<1>11. ASSUME LoopComplete(p) PROVE Goal
  BY <1>11 DEF LoopComplete, Copy
<1>12. ASSUME LoopNewTurn(p) PROVE Goal
  BY <1>12 DEF LoopNewTurn, Copy
<1>13. ASSUME SaveTurn(p) PROVE Goal
  BY <1>13 DEF SaveTurn, Save, Copy
<1>14. ASSUME Submit(p) PROVE Goal
  <2>1. /\ local'[p] = Become(local[p], "SUBMITTED") /\ local[p].turns # <<>>
        /\ pc'[p] = "saveSubmit"
    BY <1>14 DEF Submit, Copy
  <2> QED
    BY <2>1
<1>15. ASSUME SubmitFails(p) PROVE Goal
  BY <1>15 DEF SubmitFails, Reject, Accept, Copy
<1>16. ASSUME SaveSubmit(p) PROVE Goal
  <2>1. local'[p] = Merged(local[p]) /\ pc[p] = "saveSubmit" /\ pc'[p] = "poll"
    BY <1>16 DEF SaveSubmit, Save, Copy
  <2>2. Merged(local[p]).turns = local[p].turns /\ local[p].turns # <<>>
    BY <2>1
  <2> QED
    BY <2>1, <2>2
<1>17. ASSUME SaveRefused(p) PROVE Goal
  BY <1>17 DEF SaveRefused, Copy
<1>18. ASSUME Poll(p) PROVE Goal
  <2>1. CASE disk.stop
    BY <1>18, <2>1 DEF Poll
  <2>2. CASE ~disk.stop
    BY <1>18, <2>2 DEF Poll
  <2> QED
    BY <2>1, <2>2
<1>19. ASSUME AskActive(p) PROVE Goal
  <2>1. /\ local'[p] \in {local[p], Become(local[p], "RUNNING")}
        /\ local[p].turns # <<>> /\ pc'[p] = "savePoll"
    BY <1>19 DEF AskActive, Copy
  <2>2. Become(local[p], "RUNNING").turns # <<>>
    BY <2>1
  <2> QED
    BY <2>1, <2>2
<1>20. ASSUME SavePoll(p) PROVE Goal
  <2>1. local'[p] = Merged(local[p]) /\ pc[p] = "savePoll" /\ pc'[p] = "afterPoll"
    BY <1>20 DEF SavePoll, Save, Copy
  <2>2. Merged(local[p]).turns = local[p].turns /\ local[p].turns # <<>>
    BY <2>1
  <2> QED
    BY <2>1, <2>2
<1>21. ASSUME PollAgain(p) PROVE Goal
  BY <1>21 DEF PollAgain, Copy
<1>22. ASSUME PollTimeout(p) PROVE Goal
  BY <1>22 DEF PollTimeout, Copy
<1>23. ASSUME AskBad(p) PROVE Goal
  BY <1>23 DEF AskBad, Copy
<1>24. ASSUME AskTools(p) PROVE Goal
  BY <1>24 DEF AskTools, Copy
<1>25. ASSUME Tools(p) PROVE Goal
  BY <1>25 DEF Tools, Copy
<1>26. ASSUME Followup(p) PROVE Goal
  <2>1. /\ local'[p] = Become(local[p], "SUBMITTED") /\ local[p].turns # <<>>
        /\ pc'[p] = "saveSubmit"
    BY <1>26 DEF Followup, Copy
  <2> QED
    BY <2>1
<1>27. ASSUME FollowupFails(p) PROVE Goal
  BY <1>27 DEF FollowupFails, Reject, Accept, Copy
<1>28. ASSUME AskDone(p) PROVE Goal
  <2>1. pc'[p] \in {"saveDone", "raised"}
    BY <1>28 DEF AskDone
  <2> QED
    BY <2>1
<1>29. ASSUME SaveDone(p) PROVE Goal
  BY <1>29 DEF SaveDone, Save, Copy
<1>30. ASSUME SaveFailed(p) PROVE Goal
  BY <1>30 DEF SaveFailed, Save, Copy
<1>31. ASSUME SaveStopped(p) PROVE Goal
  BY <1>31 DEF SaveStopped, Save, Copy
<1>32. ASSUME AfterFailed(p) PROVE Goal
  BY <1>32 DEF AfterFailed, Copy
<1>33. ASSUME SaveTerminal(p) PROVE Goal
  BY <1>33 DEF SaveTerminal, Save, Copy
<1>34. ASSUME Finally(p) PROVE Goal
  BY <1>34 DEF Finally, Copy
<1>35. ASSUME Teardown(p) PROVE Goal
  BY <1>35 DEF Teardown, Copy
<1>36. ASSUME SaveTeardown(p) PROVE Goal
  BY <1>36 DEF SaveTeardown, Save, Copy
<1>37. ASSUME Release(p) PROVE Goal
  BY <1>37 DEF Release, Forget, Copy
<1>38. ASSUME Handle(p) PROVE Goal
  BY <1>38 DEF Handle, Copy
<1>39. ASSUME SaveError(p) PROVE Goal
  BY <1>39 DEF SaveError, Copy
<1>40. ASSUME GiveUp(p) PROVE Goal
  BY <1>40 DEF GiveUp, Forget, Copy
<1>41. ASSUME Raise(p) PROVE Goal
  BY <1>41 DEF Raise, Raises, Copy
<1>42. ASSUME Crash(p) PROVE Goal
  BY <1>42 DEF Crash, Forget, Copy
<1>43. ASSUME Restart(p) PROVE Goal
  BY <1>43 DEF Restart, Copy
<1> QED
  BY <1>1, <1>2, <1>3, <1>4, <1>5, <1>6, <1>7, <1>8, <1>9, <1>10, <1>11,
     <1>12, <1>13, <1>14, <1>15, <1>16, <1>17, <1>18, <1>19, <1>20, <1>21,
     <1>22, <1>23, <1>24, <1>25, <1>26, <1>27, <1>28, <1>29, <1>30, <1>31,
     <1>32, <1>33, <1>34, <1>35, <1>36, <1>37, <1>38, <1>39, <1>40, <1>41,
     <1>42, <1>43 DEF Coordinate

LEMMA WorldStep ==
    ASSUME CopiesOK, PlacesOK, WorldOK, [Next]_vars PROVE WorldOK'
<1> USE Lasts, NobodyAssumption, AnswersAssumption
    DEF coordVars, stopVars, worksVars, worldVars, WorldOK, WorkStates, Goto,
        CopiesOK, PlacesOK, PlaceOK, WithTurn
<1>1. ASSUME NEW p \in Procs, Acquire(p) PROVE WorldOK'
  BY <1>1 DEF Acquire
<1>2. ASSUME NEW p \in Procs, Top(p) PROVE WorldOK'
  BY <1>2 DEF Top
<1>3. ASSUME NEW p \in Procs, Attempt(p) PROVE WorldOK'
  BY <1>3 DEF Attempt, Forget
<1>4. ASSUME NEW p \in Procs, Prepare(p) PROVE WorldOK'
  BY <1>4 DEF Prepare
<1>5. ASSUME NEW p \in Procs, SavePrepared(p) PROVE WorldOK'
  BY <1>5 DEF SavePrepared, Save
<1>6. ASSUME NEW p \in Procs, PrepareFailed(p) PROVE WorldOK'
  BY <1>6 DEF PrepareFailed
<1>7. ASSUME NEW p \in Procs, Begin(p) PROVE WorldOK'
  BY <1>7 DEF Begin
<1>8. ASSUME NEW p \in Procs, SaveBegin(p) PROVE WorldOK'
  BY <1>8 DEF SaveBegin, Save
<1>9. ASSUME NEW p \in Procs, LoopStop(p) PROVE WorldOK'
  BY <1>9 DEF LoopStop
<1>10. ASSUME NEW p \in Procs, LoopCurrent(p) PROVE WorldOK'
  BY <1>10 DEF LoopCurrent
<1>11. ASSUME NEW p \in Procs, LoopComplete(p) PROVE WorldOK'
  BY <1>11 DEF LoopComplete
<1>12. ASSUME NEW p \in Procs, LoopNewTurn(p) PROVE WorldOK'
  BY <1>12 DEF LoopNewTurn
<1>13. ASSUME NEW p \in Procs, SaveTurn(p) PROVE WorldOK'
  BY <1>13 DEF SaveTurn, Save
<1>14. ASSUME NEW p \in Procs, Submit(p) PROVE WorldOK'
  BY <1>14 DEF Submit, Accept
<1>15. ASSUME NEW p \in Procs, SubmitFails(p) PROVE WorldOK'
  BY <1>15 DEF SubmitFails, Reject, Accept
<1>16. ASSUME NEW p \in Procs, SaveSubmit(p) PROVE WorldOK'
  BY <1>16 DEF SaveSubmit, Save
<1>17. ASSUME NEW p \in Procs, SaveRefused(p) PROVE WorldOK'
  BY <1>17 DEF SaveRefused
<1>18. ASSUME NEW p \in Procs, Poll(p) PROVE WorldOK'
  BY <1>18 DEF Poll
<1>19. ASSUME NEW p \in Procs, AskActive(p) PROVE WorldOK'
  BY <1>19 DEF AskActive
<1>20. ASSUME NEW p \in Procs, SavePoll(p) PROVE WorldOK'
  BY <1>20 DEF SavePoll, Save
<1>21. ASSUME NEW p \in Procs, PollAgain(p) PROVE WorldOK'
  BY <1>21 DEF PollAgain
<1>22. ASSUME NEW p \in Procs, PollTimeout(p) PROVE WorldOK'
  BY <1>22 DEF PollTimeout
<1>23. ASSUME NEW p \in Procs, AskBad(p) PROVE WorldOK'
  BY <1>23 DEF AskBad
<1>24. ASSUME NEW p \in Procs, AskTools(p) PROVE WorldOK'
  BY <1>24 DEF AskTools
<1>25. ASSUME NEW p \in Procs, Tools(p) PROVE WorldOK'
  BY <1>25 DEF Tools
<1>26. ASSUME NEW p \in Procs, Followup(p) PROVE WorldOK'
  BY <1>26 DEF Followup, Accept
<1>27. ASSUME NEW p \in Procs, FollowupFails(p) PROVE WorldOK'
  BY <1>27 DEF FollowupFails, Reject, Accept
<1>28. ASSUME NEW p \in Procs, AskDone(p) PROVE WorldOK'
  BY <1>28 DEF AskDone
<1>29. ASSUME NEW p \in Procs, SaveDone(p) PROVE WorldOK'
  BY <1>29 DEF SaveDone, Save
<1>30. ASSUME NEW p \in Procs, SaveFailed(p) PROVE WorldOK'
  BY <1>30 DEF SaveFailed, Save
<1>31. ASSUME NEW p \in Procs, SaveStopped(p) PROVE WorldOK'
  BY <1>31 DEF SaveStopped, Save
<1>32. ASSUME NEW p \in Procs, AfterFailed(p) PROVE WorldOK'
  BY <1>32 DEF AfterFailed
<1>33. ASSUME NEW p \in Procs, SaveTerminal(p) PROVE WorldOK'
  BY <1>33 DEF SaveTerminal, Save
<1>34. ASSUME NEW p \in Procs, Finally(p) PROVE WorldOK'
  BY <1>34 DEF Finally
<1>35. ASSUME NEW p \in Procs, Teardown(p) PROVE WorldOK'
  BY <1>35 DEF Teardown
<1>36. ASSUME NEW p \in Procs, SaveTeardown(p) PROVE WorldOK'
  BY <1>36 DEF SaveTeardown, Save
<1>37. ASSUME NEW p \in Procs, Release(p) PROVE WorldOK'
  BY <1>37 DEF Release, Forget
<1>38. ASSUME NEW p \in Procs, Handle(p) PROVE WorldOK'
  BY <1>38 DEF Handle
<1>39. ASSUME NEW p \in Procs, SaveError(p) PROVE WorldOK'
  BY <1>39 DEF SaveError
<1>40. ASSUME NEW p \in Procs, GiveUp(p) PROVE WorldOK'
  BY <1>40 DEF GiveUp, Forget
<1>41. ASSUME NEW p \in Procs, Raise(p) PROVE WorldOK'
  BY <1>41 DEF Raise, Raises
<1>42. ASSUME NEW p \in Procs, Crash(p) PROVE WorldOK'
  BY <1>42 DEF Crash, Forget
<1>43. ASSUME NEW p \in Procs, Restart(p) PROVE WorldOK'
  BY <1>43 DEF Restart
<1>44. ASSUME NEW s \in Stops, StopLoad(s) PROVE WorldOK'
  BY <1>44 DEF StopLoad
<1>45. ASSUME NEW s \in Stops, StopSave(s) PROVE WorldOK'
  BY <1>45 DEF StopSave
<1>46. ASSUME NEW k \in Keys, Work(k) PROVE WorldOK'
  BY <1>46 DEF Work
<1>47. ASSUME Deadline PROVE WorldOK'
  BY <1>47 DEF Deadline
<1>48. ASSUME UNCHANGED vars PROVE WorldOK'
  BY <1>48 DEF vars
<1> QED
  BY <1>1, <1>2, <1>3, <1>4, <1>5, <1>6, <1>7, <1>8, <1>9, <1>10, <1>11,
     <1>12, <1>13, <1>14, <1>15, <1>16, <1>17, <1>18, <1>19, <1>20, <1>21,
     <1>22, <1>23, <1>24, <1>25, <1>26, <1>27, <1>28, <1>29, <1>30, <1>31,
     <1>32, <1>33, <1>34, <1>35, <1>36, <1>37, <1>38, <1>39, <1>40, <1>41,
     <1>42, <1>43, <1>44, <1>45, <1>46, <1>47, <1>48
     DEF Next, Coordinate

(* What holds of the threads, their copies and the rest in every state,    *)
(* whatever the constants are.                                             *)
Typed == CopiesOK /\ PlacesOK /\ WorldOK /\ LockInv /\ CopyInv

LEMMA TypedInit == Init => Typed
<1> SUFFICES ASSUME Init PROVE Typed
  OBVIOUS
<1>1. CopiesOK
  BY Fresh DEF Init, CopiesOK, Bounded
<1>2. PlacesOK /\ LockInv /\ CopyInv
  BY NobodyAssumption
     DEF Init, PlacesOK, PlaceOK, LockInv, CopyInv, WithTurn, Places, Outside
<1>3. WorldOK
  BY DEF Init, WorldOK, WorkStates
<1> QED
  BY <1>1, <1>2, <1>3 DEF Typed

LEMMA TypedStep == Typed /\ [Next]_vars => Typed'
<1> SUFFICES ASSUME Typed, [Next]_vars PROVE Typed'
  OBVIOUS
<1> USE DEF Typed
<1>1. CopiesOK' /\ WorldOK' /\ LockInv'
  BY CopiesStep, WorldStep, LockStep
<1>2. ASSUME NEW p \in Procs, Coordinate(p) \/ Crash(p) \/ Restart(p)
      PROVE  PlacesOK' /\ CopyInv'
  BY <1>1, <1>2, PlaceStep, Moving DEF PlacesOK, PlaceOK, CopyInv, Alone, LockInv
<1>3. CASE UNCHANGED <<pc, local>>
  BY <1>1, <1>3 DEF PlacesOK, PlaceOK, CopyInv
<1> QED
  BY <1>1, <1>2, <1>3
     DEF Next, StopLoad, StopSave, Work, Deadline, coordVars, vars

LEMMA TypedMeans == Typed => TypeOK
  BY DEF Typed, CopiesOK, PlacesOK, WorldOK, LockInv, Bounded, TypeOK
-----------------------------------------------------------------------------
(* The places from which a thread may have a work accepted without looking *)
(* for a stop request again.                                               *)
Committed == {"submit", "ask", "tools", "followup"}

StopInv ==
    /\ \A s \in Stops : stopPc[s] = "loaded" => stale[s].stop
    /\ \A s \in Stops : stopPc[s] = "saved" => disk.stop

(* A work that was accepted after a stop was saved is the last one.        *)
AfterInv ==
    \/ afterStop = {}
    \/ /\ \E k \in Keys : afterStop = {k}
       /\ disk.stop /\ \A p \in Procs : pc[p] \notin Committed

(* Nothing takes a stop request back.                                      *)
LEMMA StopStep ==
    ASSUME Typed, StopInv, [Next]_vars PROVE StopInv' /\ (disk.stop => disk'.stop)
<1> DEFINE Goal == StopInv' /\ (disk.stop => disk'.stop)
<1> USE Merging, Requesting
    DEF coordVars, stopVars, worksVars, worldVars, Typed, StopInv, WorldOK, CopiesOK
<1>1. ASSUME NEW p \in Procs, Acquire(p) PROVE Goal
  BY <1>1 DEF Acquire
<1>2. ASSUME NEW p \in Procs, Top(p) PROVE Goal
  BY <1>2 DEF Top
<1>3. ASSUME NEW p \in Procs, Attempt(p) PROVE Goal
  BY <1>3 DEF Attempt, Forget
<1>4. ASSUME NEW p \in Procs, Prepare(p) PROVE Goal
  BY <1>4 DEF Prepare
<1>5. ASSUME NEW p \in Procs, SavePrepared(p) PROVE Goal
  BY <1>5 DEF SavePrepared, Save
<1>6. ASSUME NEW p \in Procs, PrepareFailed(p) PROVE Goal
  BY <1>6 DEF PrepareFailed
<1>7. ASSUME NEW p \in Procs, Begin(p) PROVE Goal
  BY <1>7 DEF Begin
<1>8. ASSUME NEW p \in Procs, SaveBegin(p) PROVE Goal
  BY <1>8 DEF SaveBegin, Save
<1>9. ASSUME NEW p \in Procs, LoopStop(p) PROVE Goal
  BY <1>9 DEF LoopStop
<1>10. ASSUME NEW p \in Procs, LoopCurrent(p) PROVE Goal
  BY <1>10 DEF LoopCurrent
<1>11. ASSUME NEW p \in Procs, LoopComplete(p) PROVE Goal
  BY <1>11 DEF LoopComplete
<1>12. ASSUME NEW p \in Procs, LoopNewTurn(p) PROVE Goal
  BY <1>12 DEF LoopNewTurn
<1>13. ASSUME NEW p \in Procs, SaveTurn(p) PROVE Goal
  BY <1>13 DEF SaveTurn, Save
<1>14. ASSUME NEW p \in Procs, Submit(p) PROVE Goal
  BY <1>14 DEF Submit, Accept
<1>15. ASSUME NEW p \in Procs, SubmitFails(p) PROVE Goal
  BY <1>15 DEF SubmitFails, Reject, Accept
<1>16. ASSUME NEW p \in Procs, SaveSubmit(p) PROVE Goal
  BY <1>16 DEF SaveSubmit, Save
<1>17. ASSUME NEW p \in Procs, SaveRefused(p) PROVE Goal
  BY <1>17 DEF SaveRefused
<1>18. ASSUME NEW p \in Procs, Poll(p) PROVE Goal
  BY <1>18 DEF Poll
<1>19. ASSUME NEW p \in Procs, AskActive(p) PROVE Goal
  BY <1>19 DEF AskActive
<1>20. ASSUME NEW p \in Procs, SavePoll(p) PROVE Goal
  BY <1>20 DEF SavePoll, Save
<1>21. ASSUME NEW p \in Procs, PollAgain(p) PROVE Goal
  BY <1>21 DEF PollAgain
<1>22. ASSUME NEW p \in Procs, PollTimeout(p) PROVE Goal
  BY <1>22 DEF PollTimeout
<1>23. ASSUME NEW p \in Procs, AskBad(p) PROVE Goal
  BY <1>23 DEF AskBad
<1>24. ASSUME NEW p \in Procs, AskTools(p) PROVE Goal
  BY <1>24 DEF AskTools
<1>25. ASSUME NEW p \in Procs, Tools(p) PROVE Goal
  BY <1>25 DEF Tools
<1>26. ASSUME NEW p \in Procs, Followup(p) PROVE Goal
  BY <1>26 DEF Followup, Accept
<1>27. ASSUME NEW p \in Procs, FollowupFails(p) PROVE Goal
  BY <1>27 DEF FollowupFails, Reject, Accept
<1>28. ASSUME NEW p \in Procs, AskDone(p) PROVE Goal
  BY <1>28 DEF AskDone
<1>29. ASSUME NEW p \in Procs, SaveDone(p) PROVE Goal
  BY <1>29 DEF SaveDone, Save
<1>30. ASSUME NEW p \in Procs, SaveFailed(p) PROVE Goal
  BY <1>30 DEF SaveFailed, Save
<1>31. ASSUME NEW p \in Procs, SaveStopped(p) PROVE Goal
  BY <1>31 DEF SaveStopped, Save
<1>32. ASSUME NEW p \in Procs, AfterFailed(p) PROVE Goal
  BY <1>32 DEF AfterFailed
<1>33. ASSUME NEW p \in Procs, SaveTerminal(p) PROVE Goal
  BY <1>33 DEF SaveTerminal, Save
<1>34. ASSUME NEW p \in Procs, Finally(p) PROVE Goal
  BY <1>34 DEF Finally
<1>35. ASSUME NEW p \in Procs, Teardown(p) PROVE Goal
  BY <1>35 DEF Teardown
<1>36. ASSUME NEW p \in Procs, SaveTeardown(p) PROVE Goal
  BY <1>36 DEF SaveTeardown, Save
<1>37. ASSUME NEW p \in Procs, Release(p) PROVE Goal
  BY <1>37 DEF Release, Forget
<1>38. ASSUME NEW p \in Procs, Handle(p) PROVE Goal
  BY <1>38 DEF Handle
<1>39. ASSUME NEW p \in Procs, SaveError(p) PROVE Goal
  BY <1>39 DEF SaveError
<1>40. ASSUME NEW p \in Procs, GiveUp(p) PROVE Goal
  BY <1>40 DEF GiveUp, Forget
<1>41. ASSUME NEW p \in Procs, Raise(p) PROVE Goal
  BY <1>41 DEF Raise, Raises
<1>42. ASSUME NEW p \in Procs, Crash(p) PROVE Goal
  BY <1>42 DEF Crash, Forget
<1>43. ASSUME NEW p \in Procs, Restart(p) PROVE Goal
  BY <1>43 DEF Restart
<1>44. ASSUME NEW s \in Stops, StopLoad(s) PROVE Goal
  BY <1>44 DEF StopLoad
<1>45. ASSUME NEW s \in Stops, StopSave(s) PROVE Goal
  BY <1>45 DEF StopSave
<1>46. ASSUME NEW k \in Keys, Work(k) PROVE Goal
  BY <1>46 DEF Work
<1>47. ASSUME Deadline PROVE Goal
  BY <1>47 DEF Deadline
<1>48. ASSUME UNCHANGED vars PROVE Goal
  BY <1>48 DEF vars
<1> QED
  BY <1>1, <1>2, <1>3, <1>4, <1>5, <1>6, <1>7, <1>8, <1>9, <1>10, <1>11,
     <1>12, <1>13, <1>14, <1>15, <1>16, <1>17, <1>18, <1>19, <1>20, <1>21,
     <1>22, <1>23, <1>24, <1>25, <1>26, <1>27, <1>28, <1>29, <1>30, <1>31,
     <1>32, <1>33, <1>34, <1>35, <1>36, <1>37, <1>38, <1>39, <1>40, <1>41,
     <1>42, <1>43, <1>44, <1>45, <1>46, <1>47, <1>48
     DEF Next, Coordinate

LEMMA Accepting ==
    ASSUME StopInv, afterStop = {}, NEW k, Accept(k) \/ UNCHANGED worksVars
    PROVE  afterStop' = {} \/ (afterStop' = {k} /\ disk.stop)
<1>1. afterStop' = {} \/ (afterStop' = afterStop \cup {k} /\ \E s \in Stops : stopPc[s] = "saved")
  BY DEF Accept, worksVars
<1>2. (\E s \in Stops : stopPc[s] = "saved") => disk.stop
  BY DEF StopInv
<1>3. afterStop \cup {k} = {k}
  OBVIOUS
<1> QED
  BY <1>1, <1>2, <1>3

LEMMA AfterStep ==
    ASSUME Typed, StopInv, AfterInv, [Next]_vars, disk.stop => disk'.stop
    PROVE  AfterInv'
<1> USE DEF coordVars, stopVars, worksVars, worldVars, AfterInv, Typed
<1>1. ASSUME NEW p \in Procs, Acquire(p) PROVE AfterInv'
  BY <1>1 DEF Acquire, Committed, Goto, LockInv
<1>2. ASSUME NEW p \in Procs, Top(p) PROVE AfterInv'
  BY <1>2 DEF Top, Committed, Goto, LockInv
<1>3. ASSUME NEW p \in Procs, Attempt(p) PROVE AfterInv'
  BY <1>3 DEF Attempt, Forget, Committed, Goto, LockInv
<1>4. ASSUME NEW p \in Procs, Prepare(p) PROVE AfterInv'
  BY <1>4 DEF Prepare, Committed, Goto, LockInv
<1>5. ASSUME NEW p \in Procs, SavePrepared(p) PROVE AfterInv'
  BY <1>5 DEF SavePrepared, Save, Committed, Goto, LockInv
<1>6. ASSUME NEW p \in Procs, PrepareFailed(p) PROVE AfterInv'
  BY <1>6 DEF PrepareFailed, Committed, Goto, LockInv
<1>7. ASSUME NEW p \in Procs, Begin(p) PROVE AfterInv'
  BY <1>7 DEF Begin, Committed, Goto, LockInv
<1>8. ASSUME NEW p \in Procs, SaveBegin(p) PROVE AfterInv'
  BY <1>8 DEF SaveBegin, Save, Committed, Goto, LockInv
<1>9. ASSUME NEW p \in Procs, LoopStop(p) PROVE AfterInv'
  BY <1>9 DEF LoopStop, Committed, Goto, LockInv
<1>10. ASSUME NEW p \in Procs, LoopCurrent(p) PROVE AfterInv'
  BY <1>10 DEF LoopCurrent, Committed, Goto, LockInv
<1>11. ASSUME NEW p \in Procs, LoopComplete(p) PROVE AfterInv'
  BY <1>11 DEF LoopComplete, Committed, Goto, LockInv
<1>12. ASSUME NEW p \in Procs, LoopNewTurn(p) PROVE AfterInv'
  BY <1>12 DEF LoopNewTurn, Committed, Goto, LockInv
<1>13. ASSUME NEW p \in Procs, SaveTurn(p) PROVE AfterInv'
  BY <1>13 DEF SaveTurn, Save, Committed, Goto, LockInv
<1>14. ASSUME NEW p \in Procs, Submit(p) PROVE AfterInv'
  <2>1. CASE afterStop # {}
    BY <1>14, <2>1 DEF Submit, Committed, Goto
  <2>2. CASE afterStop = {}
    <3>1. pc[p] \notin Outside /\ Key(local[p]) \in Keys
      BY <1>14, Lasts DEF Submit, Goto, Outside, PlaceOK, PlacesOK, WithTurn, CopiesOK
    <3>2. \A q \in Procs : pc'[q] \notin Committed
      BY <1>14, <3>1 DEF Submit, Goto, Outside, LockInv, Committed
    <3>3. afterStop' = {} \/ (afterStop' = {Key(local[p])} /\ disk.stop)
      BY <1>14, <2>2, Accepting DEF Submit
    <3> QED
      BY <3>1, <3>2, <3>3
  <2> QED
    BY <2>1, <2>2
<1>15. ASSUME NEW p \in Procs, SubmitFails(p) PROVE AfterInv'
  <2>1. CASE afterStop # {}
    BY <1>15, <2>1 DEF SubmitFails, Committed, Goto
  <2>2. CASE afterStop = {}
    <3>1. pc[p] \notin Outside /\ Key(local[p]) \in Keys
      BY <1>15, Lasts DEF SubmitFails, Goto, Outside, PlaceOK, PlacesOK, WithTurn, CopiesOK
    <3>2. \A q \in Procs : pc'[q] \notin Committed
      BY <1>15, <3>1 DEF SubmitFails, Goto, Outside, LockInv, Committed
    <3>3. afterStop' = {} \/ (afterStop' = {Key(local[p])} /\ disk.stop)
      BY <1>15, <2>2, Accepting DEF SubmitFails, Reject
    <3> QED
      BY <3>1, <3>2, <3>3
  <2> QED
    BY <2>1, <2>2
<1>16. ASSUME NEW p \in Procs, SaveSubmit(p) PROVE AfterInv'
  BY <1>16 DEF SaveSubmit, Save, Committed, Goto, LockInv
<1>17. ASSUME NEW p \in Procs, SaveRefused(p) PROVE AfterInv'
  BY <1>17 DEF SaveRefused, Committed, Goto, LockInv
<1>18. ASSUME NEW p \in Procs, Poll(p) PROVE AfterInv'
  BY <1>18 DEF Poll, Committed, Goto, LockInv
<1>19. ASSUME NEW p \in Procs, AskActive(p) PROVE AfterInv'
  BY <1>19 DEF AskActive, Committed, Goto, LockInv
<1>20. ASSUME NEW p \in Procs, SavePoll(p) PROVE AfterInv'
  BY <1>20 DEF SavePoll, Save, Committed, Goto, LockInv
<1>21. ASSUME NEW p \in Procs, PollAgain(p) PROVE AfterInv'
  BY <1>21 DEF PollAgain, Committed, Goto, LockInv
<1>22. ASSUME NEW p \in Procs, PollTimeout(p) PROVE AfterInv'
  BY <1>22 DEF PollTimeout, Committed, Goto, LockInv
<1>23. ASSUME NEW p \in Procs, AskBad(p) PROVE AfterInv'
  BY <1>23 DEF AskBad, Committed, Goto, LockInv
<1>24. ASSUME NEW p \in Procs, AskTools(p) PROVE AfterInv'
  BY <1>24 DEF AskTools, Committed, Goto, LockInv
<1>25. ASSUME NEW p \in Procs, Tools(p) PROVE AfterInv'
  BY <1>25 DEF Tools, Committed, Goto, LockInv
<1>26. ASSUME NEW p \in Procs, Followup(p) PROVE AfterInv'
  <2>1. CASE afterStop # {}
    BY <1>26, <2>1 DEF Followup, Committed, Goto
  <2>2. CASE afterStop = {}
    <3>1. pc[p] \notin Outside /\ Key(local[p]) \in Keys
      BY <1>26, Lasts DEF Followup, Goto, Outside, PlaceOK, PlacesOK, WithTurn, CopiesOK
    <3>2. \A q \in Procs : pc'[q] \notin Committed
      BY <1>26, <3>1 DEF Followup, Goto, Outside, LockInv, Committed
    <3>3. afterStop' = {} \/ (afterStop' = {Key(local[p])} /\ disk.stop)
      BY <1>26, <2>2, Accepting DEF Followup
    <3> QED
      BY <3>1, <3>2, <3>3
  <2> QED
    BY <2>1, <2>2
<1>27. ASSUME NEW p \in Procs, FollowupFails(p) PROVE AfterInv'
  <2>1. CASE afterStop # {}
    BY <1>27, <2>1 DEF FollowupFails, Committed, Goto
  <2>2. CASE afterStop = {}
    <3>1. pc[p] \notin Outside /\ Key(local[p]) \in Keys
      BY <1>27, Lasts DEF FollowupFails, Goto, Outside, PlaceOK, PlacesOK, WithTurn, CopiesOK
    <3>2. \A q \in Procs : pc'[q] \notin Committed
      BY <1>27, <3>1 DEF FollowupFails, Goto, Outside, LockInv, Committed
    <3>3. afterStop' = {} \/ (afterStop' = {Key(local[p])} /\ disk.stop)
      BY <1>27, <2>2, Accepting DEF FollowupFails, Reject
    <3> QED
      BY <3>1, <3>2, <3>3
  <2> QED
    BY <2>1, <2>2
<1>28. ASSUME NEW p \in Procs, AskDone(p) PROVE AfterInv'
  BY <1>28 DEF AskDone, Committed, Goto, LockInv
<1>29. ASSUME NEW p \in Procs, SaveDone(p) PROVE AfterInv'
  BY <1>29 DEF SaveDone, Save, Committed, Goto, LockInv
<1>30. ASSUME NEW p \in Procs, SaveFailed(p) PROVE AfterInv'
  BY <1>30 DEF SaveFailed, Save, Committed, Goto, LockInv
<1>31. ASSUME NEW p \in Procs, SaveStopped(p) PROVE AfterInv'
  BY <1>31 DEF SaveStopped, Save, Committed, Goto, LockInv
<1>32. ASSUME NEW p \in Procs, AfterFailed(p) PROVE AfterInv'
  BY <1>32 DEF AfterFailed, Committed, Goto, LockInv
<1>33. ASSUME NEW p \in Procs, SaveTerminal(p) PROVE AfterInv'
  BY <1>33 DEF SaveTerminal, Save, Committed, Goto, LockInv
<1>34. ASSUME NEW p \in Procs, Finally(p) PROVE AfterInv'
  BY <1>34 DEF Finally, Committed, Goto, LockInv
<1>35. ASSUME NEW p \in Procs, Teardown(p) PROVE AfterInv'
  BY <1>35 DEF Teardown, Committed, Goto, LockInv
<1>36. ASSUME NEW p \in Procs, SaveTeardown(p) PROVE AfterInv'
  BY <1>36 DEF SaveTeardown, Save, Committed, Goto, LockInv
<1>37. ASSUME NEW p \in Procs, Release(p) PROVE AfterInv'
  BY <1>37 DEF Release, Forget, Committed, Goto, LockInv
<1>38. ASSUME NEW p \in Procs, Handle(p) PROVE AfterInv'
  BY <1>38 DEF Handle, Committed, Goto, LockInv
<1>39. ASSUME NEW p \in Procs, SaveError(p) PROVE AfterInv'
  BY <1>39 DEF SaveError, Committed, Goto, LockInv
<1>40. ASSUME NEW p \in Procs, GiveUp(p) PROVE AfterInv'
  BY <1>40 DEF GiveUp, Forget, Committed, Goto, LockInv
<1>41. ASSUME NEW p \in Procs, Raise(p) PROVE AfterInv'
  BY <1>41 DEF Raise, Raises, Committed, Goto, LockInv
<1>42. ASSUME NEW p \in Procs, Crash(p) PROVE AfterInv'
  BY <1>42 DEF Crash, Forget, Committed, Goto, LockInv
<1>43. ASSUME NEW p \in Procs, Restart(p) PROVE AfterInv'
  BY <1>43 DEF Restart, Committed, Goto, LockInv
<1>44. ASSUME NEW s \in Stops, StopLoad(s) PROVE AfterInv'
  BY <1>44 DEF StopLoad, Committed, Goto, LockInv
<1>45. ASSUME NEW s \in Stops, StopSave(s) PROVE AfterInv'
  BY <1>45 DEF StopSave, Committed, Goto, LockInv
<1>46. ASSUME NEW k \in Keys, Work(k) PROVE AfterInv'
  BY <1>46 DEF Work, Committed, Goto, LockInv
<1>47. ASSUME Deadline PROVE AfterInv'
  BY <1>47 DEF Deadline, Committed, Goto, LockInv
<1>48. ASSUME UNCHANGED vars PROVE AfterInv'
  BY <1>48 DEF vars, Committed, Goto, LockInv
<1> QED
  BY <1>1, <1>2, <1>3, <1>4, <1>5, <1>6, <1>7, <1>8, <1>9, <1>10, <1>11,
     <1>12, <1>13, <1>14, <1>15, <1>16, <1>17, <1>18, <1>19, <1>20, <1>21,
     <1>22, <1>23, <1>24, <1>25, <1>26, <1>27, <1>28, <1>29, <1>30, <1>31,
     <1>32, <1>33, <1>34, <1>35, <1>36, <1>37, <1>38, <1>39, <1>40, <1>41,
     <1>42, <1>43, <1>44, <1>45, <1>46, <1>47, <1>48
     DEF Next, Coordinate

(* Whatever the processes, the calls of stop and the faults are: what a    *)
(* step relies on in every state.                                          *)
IInv == Typed /\ StopInv /\ AfterInv

(* The invariant holds in every state of every behaviour.                  *)
THEOREM Invariance == Spec => []IInv
<1>1. Init => IInv
  <2>1. Init => StopInv /\ AfterInv
    BY DEF Init, StopInv, AfterInv
  <2> QED
    BY <2>1, TypedInit DEF IInv
<1>2. IInv /\ [Next]_vars => IInv'
  BY TypedStep, StopStep, AfterStep DEF IInv
<1> QED
  BY <1>1, <1>2, PTL DEF Spec

(* A stop request, once it is saved, stays in the document: every save of  *)
(* any copy, however old, merges it.                                       *)
THEOREM ThmStopIsKept == Spec => [](TypeOK /\ StopIsKept)
<1>1. IInv => TypeOK /\ StopIsKept
  BY TypedMeans DEF IInv, StopInv, StopIsKept
<1> QED
  BY <1>1, Invariance, PTL

(* After experiment_stop has answered at most one work is started, by the  *)
(* thread that was past its last look at the request, however many         *)
(* processes share the state root, crash and take over from each other.    *)
THEOREM ThmAtMostOneAfterStop == Spec => []AtMostOneAfterStop
<1>1. IInv => AtMostOneAfterStop
  <2> SUFFICES ASSUME AfterInv PROVE AtMostOneAfterStop
    BY DEF IInv
  <2>1. CASE afterStop = {}
    BY <2>1, FS_EmptySet DEF AtMostOneAfterStop
  <2>2. CASE \E k \in Keys : afterStop = {k}
    BY <2>2, FS_Singleton DEF AtMostOneAfterStop
  <2> QED
    BY <2>1, <2>2 DEF AfterInv
<1> QED
  BY <1>1, Invariance, PTL

-----------------------------------------------------------------------------
(* What a copy says of residency, when a stop request is on record or not  *)
(* and the model is leased or not: FAILED of a preparation that did fail,  *)
(* and after the end only of an experiment that failed or that was asked   *)
(* to stop; RELEASED after the end only, and not while the model is leased *)
(* unless it is such an experiment.                                        *)
Excused(state, stop) ==
    "prepare" \in RuntimeFaults /\ (state.st = "FAILED" \/ stop)
Honest(state, stop, held) ==
    /\ state.residency = "FAILED" =>
          /\ "prepare" \in RuntimeFaults
          /\ state.st \in Terminal => Excused(state, stop)
    /\ state.residency = "RELEASED" =>
          /\ state.st \in Terminal
          /\ held => Excused(state, stop)

(* Where a thread has a lease, unless a stop call wrote an older copy.     *)
Steady == {"begin", "saveBegin", "loop", "saveTurn", "submit", "saveSubmit", "saveRefused",
           "poll", "ask", "savePoll", "afterPoll", "tools", "followup", "saveDone",
           "saveFailed", "afterFailed", "saveStopped"}

(* Every copy is honest, no stop call holds one that says RELEASED, and    *)
(* the thread at work knows of its lease while it works.                   *)
PlaceHonest(place, state) ==
    /\ place \in Steady =>
          disk.stop \/ (disk.residency = "PREPARED" /\ state.residency = "PREPARED")
    /\ place = "begin" => disk.residency # "RELEASED"
    /\ place = "prepare" =>
          disk.residency # "RELEASED" /\ (disk.st \notin Terminal \/ disk.stop)
    /\ place = "teardown" => state.st \in Terminal

ReleaseInv ==
    /\ Honest(disk, disk.stop, leased)
    /\ \A s \in Stops :
          /\ stale[s].residency # "RELEASED"
          /\ stale[s].residency = "FAILED" => "prepare" \in RuntimeFaults
    /\ \A p \in Procs :
          Honest(local[p], disk.stop, leased) /\ PlaceHonest(pc[p], local[p])

(* While one thread is at work no other is.                                *)
LEMMA Apart ==
    ASSUME LockInv, NEW p \in Procs, pc[p] \notin Outside
    PROVE  \A q \in Procs \ {p} : pc[q] \in Outside
  BY DEF LockInv

LEMMA ReleaseKept ==
    ASSUME ReleaseInv, NEW p \in Procs, Alone(p), UNCHANGED <<disk, stale, leased>>,
           Honest(local'[p], disk.stop, leased), PlaceHonest(pc'[p], local'[p])
    PROVE  ReleaseInv'
  BY DEF ReleaseInv, Alone, PlaceHonest

(* Another thread is idle while one is at work, and has nothing to say.    *)
LEMMA ReleaseMoved ==
    ASSUME Typed, ReleaseInv, NEW p \in Procs, pc[p] \notin Outside, Alone(p),
           UNCHANGED stale,
           Honest(disk', disk'.stop, leased'), Honest(local'[p], disk'.stop, leased'),
           PlaceHonest(pc[p], local[p])'
    PROVE  ReleaseInv'
<1>1. \A q \in Procs \ {p} : pc'[q] \in Outside /\ local'[q] = Accepted
  BY Apart DEF Typed, CopyInv, Alone
<1>2. \A q \in Procs \ {p} :
        Honest(local'[q], disk'.stop, leased') /\ PlaceHonest(pc[q], local[q])'
  BY <1>1 DEF Accepted, Honest, PlaceHonest, Outside, Steady
<1> QED
  BY <1>2 DEF ReleaseInv

(* A save is as honest as the copy that it writes.                         *)
LEMMA ReleaseSaved ==
    ASSUME Typed, ReleaseInv, NEW p \in Procs, Alone(p), pc[p] \notin Outside,
           UNCHANGED <<stale, leased>>, disk' = Merged(local[p]),
           local'[p].residency = local[p].residency,
           local'[p].st \in {local[p].st, "FAILED"},
           pc'[p] \notin {"prepare", "teardown"},
           pc'[p] \in Steady =>
                \/ pc[p] \in Steady /\ pc'[p] # "begin"
                \/ local[p].residency = "PREPARED"
    PROVE  ReleaseInv'
<1>1. /\ Merged(local[p]).stop = (local[p].stop \/ disk.stop)
      /\ Merged(local[p]).residency = local[p].residency
      /\ Merged(local[p]).st = local[p].st
  BY Merging DEF Typed, CopiesOK
<1>2. Honest(local[p], disk.stop, leased) /\ PlaceHonest(pc[p], local[p])
  BY DEF ReleaseInv
<1>3. Honest(disk', disk'.stop, leased')
  BY <1>1, <1>2 DEF Honest, Excused
<1>4. Honest(local'[p], disk'.stop, leased')
  BY <1>1, <1>2 DEF Honest, Excused, Terminal
<1>5. PlaceHonest(pc[p], local[p])'
  BY <1>1, <1>2 DEF PlaceHonest, Steady
<1> QED
  BY <1>3, <1>4, <1>5, ReleaseMoved

(* _save, wherever it is called.                                           *)
LEMMA ReleaseSave ==
    ASSUME Typed, ReleaseInv, NEW p \in Procs, NEW from, NEW to, Save(p, from, to),
           Coordinate(p), from \in Places \ Outside, to \notin {"prepare", "teardown"},
           to \in Steady => \/ from \in Steady /\ to # "begin"
                            \/ local[p].residency = "PREPARED"
    PROVE  ReleaseInv'
<1>1. /\ pc[p] = from /\ pc'[p] = to /\ disk' = Merged(local[p])
      /\ local'[p] = Merged(local[p]) /\ UNCHANGED <<stale, leased>>
  BY DEF Save, Goto, Copy, Typed, PlacesOK, CopiesOK, stopVars, worldVars
<1>2. /\ Merged(local[p]).residency = local[p].residency
      /\ Merged(local[p]).st = local[p].st
  BY Merging DEF Typed, CopiesOK
<1>3. Alone(p)
  BY Moving DEF Typed
<1> QED
  BY <1>1, <1>2, <1>3, ReleaseSaved

(* A step on the current turn leaves residency and state alone.            *)
LEMMA ReleaseTurn ==
    ASSUME Typed, ReleaseInv, NEW p \in Procs,
           \/ Submit(p) \/ Followup(p) \/ SubmitFails(p) \/ AskActive(p)
           \/ PollTimeout(p) \/ AskBad(p) \/ Tools(p) \/ AskDone(p)
           \/ AskTools(p) \/ PollAgain(p) \/ FollowupFails(p)
    PROVE  ReleaseInv'
<1> DEFINE Goal ==
        /\ UNCHANGED <<disk, stale, leased>>
        /\ local'[p].residency = local[p].residency /\ local'[p].st = local[p].st
        /\ pc[p] \in Steady /\ pc'[p] \in Steady \cup {"raised"} /\ pc'[p] # "begin"
<1>0. Alone(p)
  BY Moving DEF Coordinate, Typed
<1>a. \A x \in Unsettled \cup Settled : local[p].turns # <<>> =>
        /\ Become(local[p], x).residency = local[p].residency
        /\ Become(local[p], x).st = local[p].st
  BY Becoming DEF Typed, CopiesOK, SameBut
<1>b. local[p].turns # <<>> /\ Last(local[p]).step < MaxToolSteps =>
        /\ FollowUp(local[p]).residency = local[p].residency
        /\ FollowUp(local[p]).st = local[p].st
  BY Following DEF Typed, CopiesOK, SameBut
<1> USE DEF coordVars, stopVars, worksVars, worldVars, Typed, PlacesOK, CopiesOK, Goto, Copy
<1>1. ASSUME Submit(p) PROVE Goal
  <2>1. /\ pc[p] \in WithTurn /\ pc'[p] \in Steady \cup {"raised"} /\ pc'[p] # "begin"
        /\ UNCHANGED <<disk, stale, leased>>
    BY <1>1 DEF Submit, Accept, WithTurn, Steady
  <2>2. local'[p] = Become(local[p], "SUBMITTED")
    BY <1>1 DEF Submit
  <2> QED
    BY <2>1, <2>2, <1>a, <1>b DEF PlaceOK, Unsettled, Settled, WithTurn, Steady
<1>2. ASSUME Followup(p) PROVE Goal
  <2>1. /\ pc[p] \in WithTurn /\ pc'[p] \in Steady \cup {"raised"} /\ pc'[p] # "begin"
        /\ UNCHANGED <<disk, stale, leased>>
    BY <1>2 DEF Followup, Accept, WithTurn, Steady
  <2>2. local'[p] = Become(local[p], "SUBMITTED")
    BY <1>2 DEF Followup
  <2> QED
    BY <2>1, <2>2, <1>a, <1>b DEF PlaceOK, Unsettled, Settled, WithTurn, Steady
<1>3. ASSUME SubmitFails(p) PROVE Goal
  <2>1. /\ pc[p] \in WithTurn /\ pc'[p] \in Steady \cup {"raised"} /\ pc'[p] # "begin"
        /\ UNCHANGED <<disk, stale, leased>>
    BY <1>3 DEF SubmitFails, Accept, Reject, WithTurn, Steady
  <2>2. local'[p] = Become(local[p], "FAILED")
    BY <1>3 DEF SubmitFails
  <2> QED
    BY <2>1, <2>2, <1>a, <1>b DEF PlaceOK, Unsettled, Settled, WithTurn, Steady
<1>4. ASSUME AskActive(p) PROVE Goal
  <2>1. /\ pc[p] \in WithTurn /\ pc'[p] \in Steady \cup {"raised"} /\ pc'[p] # "begin"
        /\ UNCHANGED <<disk, stale, leased>>
    BY <1>4 DEF AskActive, WithTurn, Steady
  <2>2. local'[p] \in {local[p], Become(local[p], "RUNNING")}
    BY <1>4 DEF AskActive
  <2> QED
    BY <2>1, <2>2, <1>a, <1>b DEF PlaceOK, Unsettled, Settled, WithTurn, Steady
<1>5. ASSUME PollTimeout(p) PROVE Goal
  <2>1. /\ pc[p] \in WithTurn /\ pc'[p] \in Steady \cup {"raised"} /\ pc'[p] # "begin"
        /\ UNCHANGED <<disk, stale, leased>>
    BY <1>5 DEF PollTimeout, WithTurn, Steady
  <2>2. local'[p] = Become(local[p], "FAILED")
    BY <1>5 DEF PollTimeout
  <2> QED
    BY <2>1, <2>2, <1>a, <1>b DEF PlaceOK, Unsettled, Settled, WithTurn, Steady
<1>6. ASSUME AskBad(p) PROVE Goal
  <2>1. /\ pc[p] \in WithTurn /\ pc'[p] \in Steady \cup {"raised"} /\ pc'[p] # "begin"
        /\ UNCHANGED <<disk, stale, leased>>
    BY <1>6 DEF AskBad, WithTurn, Steady
  <2>2. local'[p] = Become(local[p], "FAILED")
    BY <1>6 DEF AskBad
  <2> QED
    BY <2>1, <2>2, <1>a, <1>b DEF PlaceOK, Unsettled, Settled, WithTurn, Steady
<1>7. ASSUME Tools(p) PROVE Goal
  <2>1. /\ pc[p] \in WithTurn /\ pc'[p] \in Steady \cup {"raised"} /\ pc'[p] # "begin"
        /\ UNCHANGED <<disk, stale, leased>>
    BY <1>7 DEF Tools, WithTurn, Steady
  <2>2. local'[p] = FollowUp(local[p])
    BY <1>7 DEF Tools
  <2> QED
    BY <2>1, <2>2, <1>a, <1>b, <1>7 DEF PlaceOK, Unsettled, Settled, WithTurn, Steady, Tools
<1>8. ASSUME AskDone(p) PROVE Goal
  <2>1. /\ pc[p] \in WithTurn /\ pc'[p] \in Steady \cup {"raised"} /\ pc'[p] # "begin"
        /\ UNCHANGED <<disk, stale, leased>>
    BY <1>8 DEF AskDone, WithTurn, Steady
  <2>2. local'[p] \in {local[p], Become(local[p], "COMPLETED")}
    BY <1>8 DEF AskDone
  <2> QED
    BY <2>1, <2>2, <1>a, <1>b DEF PlaceOK, Unsettled, Settled, WithTurn, Steady
<1>9. ASSUME AskTools(p) PROVE Goal
  <2>1. /\ pc[p] \in WithTurn /\ pc'[p] \in Steady \cup {"raised"} /\ pc'[p] # "begin"
        /\ UNCHANGED <<disk, stale, leased>>
    BY <1>9 DEF AskTools, WithTurn, Steady
  <2>2. local'[p] = local[p]
    BY <1>9 DEF AskTools
  <2> QED
    BY <2>1, <2>2, <1>a, <1>b DEF PlaceOK, Unsettled, Settled, WithTurn, Steady
<1>10. ASSUME PollAgain(p) PROVE Goal
  <2>1. /\ pc[p] \in WithTurn /\ pc'[p] \in Steady \cup {"raised"} /\ pc'[p] # "begin"
        /\ UNCHANGED <<disk, stale, leased>>
    BY <1>10 DEF PollAgain, WithTurn, Steady
  <2>2. local'[p] = local[p]
    BY <1>10 DEF PollAgain
  <2> QED
    BY <2>1, <2>2, <1>a, <1>b DEF PlaceOK, Unsettled, Settled, WithTurn, Steady
<1>11. ASSUME FollowupFails(p) PROVE Goal
  <2>1. /\ pc[p] \in WithTurn /\ pc'[p] \in Steady \cup {"raised"} /\ pc'[p] # "begin"
        /\ UNCHANGED <<disk, stale, leased>>
    BY <1>11 DEF FollowupFails, Accept, Reject, WithTurn, Steady
  <2>2. local'[p] = local[p]
    BY <1>11 DEF FollowupFails
  <2> QED
    BY <2>1, <2>2, <1>a, <1>b DEF PlaceOK, Unsettled, Settled, WithTurn, Steady
<1> HIDE DEF Goal
<1>20. Goal
  BY <1>1, <1>2, <1>3, <1>4, <1>5, <1>6, <1>7, <1>8, <1>9, <1>10, <1>11
<1>21. Honest(local'[p], disk.stop, leased) /\ PlaceHonest(pc'[p], local'[p])
  BY <1>20 DEF Goal, ReleaseInv, Honest, Excused, PlaceHonest, Steady
<1> QED
  BY <1>0, <1>20, <1>21, ReleaseKept DEF Goal

(* A lease that is on record is given back, or the failure is recorded;    *)
(* of one that is not on record nothing is given back.                     *)
LEMMA TearingDown ==
    ASSUME NEW p \in Procs, Teardown(p)
    PROVE  /\ leased' => leased
           /\ UNCHANGED <<stale, disk>> /\ Goto(p, "teardown", "saveTeardown")
<1>1. UNCHANGED <<stale, disk>> /\ Goto(p, "teardown", "saveTeardown")
  BY DEF Teardown, stopVars
<1>2. leased' => leased
  <2>1. leased' = (leased /\ local[p].residency = "FAILED") \/ leased' \in {leased, FALSE}
    BY Zenon DEF Teardown
  <2> QED
    BY <2>1, Zenon
<1> QED
  BY <1>1, <1>2

LEMMA GivingBack ==
    ASSUME NEW p \in Procs, Teardown(p)
    PROVE  \/ /\ Copy(p, Hold(local[p], "RELEASED"))
              /\ leased' => local[p].residency = "FAILED"
           \/ Copy(p, Hold(local[p], "DEGRADED")) /\ (~leased => ~leased')
  BY Zenon DEF Teardown

LEMMA Preparing ==
    ASSUME NEW p \in Procs, Prepare(p)
    PROVE  \/ Copy(p, Hold(disk, "PREPARED"))
           \/ "prepare" \in RuntimeFaults /\ Copy(p, Hold(disk, "FAILED"))
  BY Zenon DEF Prepare

(* A save keeps a stop request, and leaves residency and state alone.      *)
LEMMA SaveKeeps ==
    ASSUME CopiesOK, NEW S, Bounded(S)
    PROVE  /\ S.stop \/ disk.stop => Merged(S).stop
           /\ Merged(S).residency = S.residency /\ Merged(S).st = S.st
  BY Merging DEF CopiesOK

LEMMA ReleaseStep ==
    ASSUME Typed, StopInv, ReleaseInv, [Next]_vars
    PROVE  ReleaseInv'
<1> USE Marking, Holding, Requesting, Merging, Copied
    DEF coordVars, stopVars, worksVars, worldVars, Typed, CopiesOK, PlacesOK,
        LockInv, CopyInv, WorldOK, Outside, Goto, Copy, Terminal, Residency,
        ReleaseInv, NeedsTeardown, Honest, Excused, PlaceHonest, Steady
<1>0. Accepted.residency = "none"
  BY DEF Accepted
<1>1. ASSUME NEW p \in Procs, Acquire(p) PROVE ReleaseInv'
  BY <1>1 DEF Acquire
<1>2. ASSUME NEW p \in Procs, Top(p) PROVE ReleaseInv'
  BY <1>2 DEF Top
<1>3. ASSUME NEW p \in Procs, Attempt(p) PROVE ReleaseInv'
  <2>1. Alone(p) /\ UNCHANGED <<disk, stale, leased>>
    BY <1>3, Moving DEF Coordinate, Attempt
  <2>2. \/ pc'[p] = "teardown" /\ local'[p] = disk /\ disk.st \in Terminal
        \/ pc'[p] = "idle" /\ local'[p] = Accepted
    BY <1>3 DEF Attempt, Forget
  <2> QED
    BY <2>1, <2>2, <1>0, ReleaseKept
<1>4. ASSUME NEW p \in Procs, Prepare(p) PROVE ReleaseInv'
  <2>1. Alone(p) /\ UNCHANGED <<stale, disk>> /\ leased' \in BOOLEAN
    BY <1>4, Moving DEF Coordinate, Prepare
  <2>2. /\ pc[p] = "prepare" /\ pc'[p] = "savePrepared"
        /\ \/ local'[p] = Hold(disk, "PREPARED")
           \/ "prepare" \in RuntimeFaults /\ local'[p] = Hold(disk, "FAILED")
    <3>1. pc[p] = "prepare" /\ pc'[p] = "savePrepared"
      BY <1>4 DEF Prepare
    <3>2. CASE Copy(p, Hold(disk, "PREPARED"))
      BY <3>1, <3>2
    <3>3. CASE "prepare" \in RuntimeFaults /\ Copy(p, Hold(disk, "FAILED"))
      BY <3>1, <3>3
    <3> QED
      BY <1>4, <3>2, <3>3, Preparing
  <2>3. /\ Hold(disk, "PREPARED").residency = "PREPARED"
        /\ Hold(disk, "FAILED").residency = "FAILED" /\ Hold(disk, "FAILED").st = disk.st
    OBVIOUS
  <2>4. /\ disk.residency # "RELEASED" /\ (disk.st \notin Terminal \/ disk.stop)
        /\ Honest(disk, disk.stop, leased)
    BY <2>2
  <2>5. Honest(disk', disk'.stop, leased')
    BY <2>1, <2>4
  <2>6. Honest(local'[p], disk'.stop, leased') /\ PlaceHonest(pc[p], local[p])'
    BY <2>1, <2>2, <2>3, <2>4
  <2> QED
    BY <2>1, <2>2, <2>5, <2>6, ReleaseMoved
<1>5. ASSUME NEW p \in Procs, SavePrepared(p) PROVE ReleaseInv'
  BY <1>5, ReleaseSave DEF SavePrepared, Coordinate, Places
<1>6. ASSUME NEW p \in Procs, PrepareFailed(p) PROVE ReleaseInv'
  BY <1>6 DEF PrepareFailed
<1>7. ASSUME NEW p \in Procs, Begin(p) PROVE ReleaseInv'
  BY <1>7 DEF Begin
<1>8. ASSUME NEW p \in Procs, SaveBegin(p) PROVE ReleaseInv'
  BY <1>8, ReleaseSave DEF SaveBegin, Coordinate, Places
<1>9. ASSUME NEW p \in Procs, LoopStop(p) PROVE ReleaseInv'
  BY <1>9 DEF LoopStop
<1>10. ASSUME NEW p \in Procs, LoopCurrent(p) PROVE ReleaseInv'
  BY <1>10 DEF LoopCurrent
<1>11. ASSUME NEW p \in Procs, LoopComplete(p) PROVE ReleaseInv'
  BY <1>11 DEF LoopComplete
<1>12. ASSUME NEW p \in Procs, LoopNewTurn(p) PROVE ReleaseInv'
  BY <1>12, Adding DEF LoopNewTurn
<1>13. ASSUME NEW p \in Procs, SaveTurn(p) PROVE ReleaseInv'
  BY <1>13, ReleaseSave DEF SaveTurn, Coordinate, Places
<1>14. ASSUME NEW p \in Procs, Submit(p) PROVE ReleaseInv'
  BY <1>14, ReleaseTurn
<1>15. ASSUME NEW p \in Procs, SubmitFails(p) PROVE ReleaseInv'
  BY <1>15, ReleaseTurn
<1>16. ASSUME NEW p \in Procs, SaveSubmit(p) PROVE ReleaseInv'
  BY <1>16, ReleaseSave DEF SaveSubmit, Coordinate, Places
<1>17. ASSUME NEW p \in Procs, SaveRefused(p) PROVE ReleaseInv'
  <2>1. Alone(p) /\ UNCHANGED <<stale, leased>> /\ disk' = Merged(local[p])
    BY <1>17, Moving DEF Coordinate, SaveRefused
  <2>2. /\ pc[p] = "saveRefused" /\ pc'[p] \in {"saveTerminal", "loop"}
        /\ \/ local'[p] = Merged(local[p])
           \/ local'[p] = Mark(Merged(local[p]), "FAILED")
    BY <1>17 DEF SaveRefused
  <2>3. /\ local'[p].residency = local[p].residency
        /\ local'[p].st \in {local[p].st, "FAILED"}
    BY <2>2
  <2> QED
    BY <2>1, <2>2, <2>3, ReleaseSaved
<1>18. ASSUME NEW p \in Procs, Poll(p) PROVE ReleaseInv'
  BY <1>18 DEF Poll
<1>19. ASSUME NEW p \in Procs, AskActive(p) PROVE ReleaseInv'
  BY <1>19, ReleaseTurn
<1>20. ASSUME NEW p \in Procs, SavePoll(p) PROVE ReleaseInv'
  BY <1>20, ReleaseSave DEF SavePoll, Coordinate, Places
<1>21. ASSUME NEW p \in Procs, PollAgain(p) PROVE ReleaseInv'
  BY <1>21, ReleaseTurn
<1>22. ASSUME NEW p \in Procs, PollTimeout(p) PROVE ReleaseInv'
  BY <1>22, ReleaseTurn
<1>23. ASSUME NEW p \in Procs, AskBad(p) PROVE ReleaseInv'
  BY <1>23, ReleaseTurn
<1>24. ASSUME NEW p \in Procs, AskTools(p) PROVE ReleaseInv'
  BY <1>24, ReleaseTurn
<1>25. ASSUME NEW p \in Procs, Tools(p) PROVE ReleaseInv'
  BY <1>25, ReleaseTurn
<1>26. ASSUME NEW p \in Procs, Followup(p) PROVE ReleaseInv'
  BY <1>26, ReleaseTurn
<1>27. ASSUME NEW p \in Procs, FollowupFails(p) PROVE ReleaseInv'
  BY <1>27, ReleaseTurn
<1>28. ASSUME NEW p \in Procs, AskDone(p) PROVE ReleaseInv'
  BY <1>28, ReleaseTurn
<1>29. ASSUME NEW p \in Procs, SaveDone(p) PROVE ReleaseInv'
  BY <1>29, ReleaseSave DEF SaveDone, Coordinate, Places
<1>30. ASSUME NEW p \in Procs, SaveFailed(p) PROVE ReleaseInv'
  BY <1>30, ReleaseSave DEF SaveFailed, Coordinate, Places
<1>31. ASSUME NEW p \in Procs, SaveStopped(p) PROVE ReleaseInv'
  BY <1>31, ReleaseSave DEF SaveStopped, Coordinate, Places
<1>32. ASSUME NEW p \in Procs, AfterFailed(p) PROVE ReleaseInv'
  BY <1>32 DEF AfterFailed
<1>33. ASSUME NEW p \in Procs, SaveTerminal(p) PROVE ReleaseInv'
  BY <1>33, ReleaseSave DEF SaveTerminal, Coordinate, Places
<1>34. ASSUME NEW p \in Procs, Finally(p) PROVE ReleaseInv'
  BY <1>34 DEF Finally
<1>35. ASSUME NEW p \in Procs, Teardown(p) PROVE ReleaseInv'
  <2>1. Alone(p) /\ leased \in BOOLEAN /\ leased' \in BOOLEAN
    BY <1>35, Moving DEF Coordinate, Teardown
  <2>2. /\ UNCHANGED <<stale, disk>>
        /\ pc[p] = "teardown" /\ pc'[p] = "saveTeardown" /\ local[p].st \in Terminal
        /\ leased' => leased
    BY <1>35, TearingDown
  <2>3. \/ /\ local'[p] = Hold(local[p], "RELEASED")
           /\ leased' => local[p].residency = "FAILED"
        \/ local'[p] = Hold(local[p], "DEGRADED") /\ (~leased => ~leased')
    BY <1>35, GivingBack
  <2>4. /\ Hold(local[p], "RELEASED").st = local[p].st
        /\ Hold(local[p], "RELEASED").residency = "RELEASED"
        /\ Hold(local[p], "DEGRADED").residency = "DEGRADED"
    OBVIOUS
  <2>5. Honest(local[p], disk.stop, leased) /\ Honest(disk, disk.stop, leased)
    OBVIOUS
  <2>6. Honest(disk', disk'.stop, leased')
    BY <2>2, <2>5
  <2>7. Honest(local'[p], disk'.stop, leased') /\ PlaceHonest(pc[p], local[p])'
    BY <2>2, <2>3, <2>4, <2>5
  <2> QED
    BY <2>1, <2>2, <2>6, <2>7, ReleaseMoved
<1>36. ASSUME NEW p \in Procs, SaveTeardown(p) PROVE ReleaseInv'
  BY <1>36, ReleaseSave DEF SaveTeardown, Coordinate, Places
<1>37. ASSUME NEW p \in Procs, Release(p) PROVE ReleaseInv'
  <2>1. Alone(p) /\ UNCHANGED <<disk, stale, leased>>
    BY <1>37, Moving DEF Coordinate, Release
  <2>2. /\ pc'[p] \in {"idle", "raised"}
        /\ local'[p] = local[p] \/ local'[p] = Accepted
    BY <1>37 DEF Release, Forget
  <2> QED
    BY <2>1, <2>2, <1>0, ReleaseKept
<1>38. ASSUME NEW p \in Procs, Handle(p) PROVE ReleaseInv'
  BY <1>38 DEF Handle
<1>39. ASSUME NEW p \in Procs, SaveError(p) PROVE ReleaseInv'
  <2>1. Alone(p) /\ UNCHANGED <<stale, leased>> /\ disk' = Merged(local[p])
    BY <1>39, Moving DEF Coordinate, SaveError
  <2>2. /\ pc[p] = "saveError" /\ pc'[p] \in {"giveUp", "top"}
        /\ \/ local'[p] = Merged(local[p])
           \/ local'[p] = Mark(Merged(local[p]), "FAILED")
    BY <1>39 DEF SaveError
  <2>3. /\ local'[p].residency = local[p].residency
        /\ local'[p].st \in {local[p].st, "FAILED"}
    BY <2>2
  <2> QED
    BY <2>1, <2>2, <2>3, ReleaseSaved
<1>40. ASSUME NEW p \in Procs, GiveUp(p) PROVE ReleaseInv'
  <2>1. Alone(p) /\ UNCHANGED <<stale, leased>>
    BY <1>40, Moving DEF Coordinate, GiveUp
  <2>2. /\ pc[p] = "giveUp" /\ pc'[p] = "idle" /\ local'[p] = Accepted
        /\ disk' = Merged(local[p])
    BY <1>40 DEF GiveUp, Forget
  <2>3. /\ disk'.residency = local[p].residency /\ disk'.st = local[p].st
        /\ disk.stop => disk'.stop
    BY <2>2, SaveKeeps
  <2>4. Honest(disk', disk'.stop, leased')
    BY <2>1, <2>3
  <2>5. Honest(local'[p], disk'.stop, leased') /\ PlaceHonest(pc[p], local[p])'
    BY <2>2, <1>0
  <2> QED
    BY <2>1, <2>2, <2>4, <2>5, ReleaseMoved
<1>41. ASSUME NEW p \in Procs, Raise(p) PROVE ReleaseInv'
  BY <1>41 DEF Raise, Raises
<1>42. ASSUME NEW p \in Procs, Crash(p) PROVE ReleaseInv'
  <2>1. Alone(p) /\ UNCHANGED <<disk, stale, leased>>
    BY <1>42, Moving DEF Crash
  <2>2. pc'[p] = "down" /\ local'[p] = Accepted
    BY <1>42 DEF Crash, Forget
  <2> QED
    BY <2>1, <2>2, <1>0, ReleaseKept
<1>43. ASSUME NEW p \in Procs, Restart(p) PROVE ReleaseInv'
  BY <1>43 DEF Restart
<1>44. ASSUME NEW s \in Stops, StopLoad(s) PROVE ReleaseInv'
  BY <1>44 DEF StopLoad
<1>45. ASSUME NEW s \in Stops, StopSave(s) PROVE ReleaseInv'
  <2>1. /\ disk' = Merged(stale[s]) /\ stale[s].stop
        /\ UNCHANGED <<pc, local, leased>>
    BY <1>45 DEF StopSave, StopInv
  <2>2. /\ disk'.stop /\ disk'.residency = stale[s].residency
    BY <2>1, SaveKeeps
  <2>3. \A r \in Stops : stale'[r] \in {stale[r], Accepted}
    BY <1>45 DEF StopSave
  <2>4. Honest(disk', disk'.stop, leased')
    BY <2>2
  <2>5. \A q \in Procs :
          Honest(local'[q], disk'.stop, leased') /\ PlaceHonest(pc[q], local[q])'
    BY <2>1, <2>2
  <2>6. \A r \in Stops :
          /\ stale'[r].residency # "RELEASED"
          /\ stale'[r].residency = "FAILED" => "prepare" \in RuntimeFaults
    BY <2>3, <1>0
  <2> QED
    BY <2>4, <2>5, <2>6
<1>46. ASSUME NEW k \in Keys, Work(k) PROVE ReleaseInv'
  BY <1>46 DEF Work
<1>47. ASSUME Deadline PROVE ReleaseInv'
  BY <1>47 DEF Deadline
<1>48. ASSUME UNCHANGED vars PROVE ReleaseInv'
  BY <1>48 DEF vars
<1> HIDE Marking, Holding, Requesting, Merging, Copied
    DEF coordVars, stopVars, worksVars, worldVars, Typed, CopiesOK, PlacesOK,
        LockInv, CopyInv, WorldOK, Outside, Goto, Copy, Terminal, Residency,
        ReleaseInv, NeedsTeardown, Honest, Excused, PlaceHonest, Steady
<1> QED
  BY <1>1, <1>2, <1>3, <1>4, <1>5, <1>6, <1>7, <1>8, <1>9, <1>10, <1>11,
     <1>12, <1>13, <1>14, <1>15, <1>16, <1>17, <1>18, <1>19, <1>20, <1>21,
     <1>22, <1>23, <1>24, <1>25, <1>26, <1>27, <1>28, <1>29, <1>30, <1>31,
     <1>32, <1>33, <1>34, <1>35, <1>36, <1>37, <1>38, <1>39, <1>40, <1>41,
     <1>42, <1>43, <1>44, <1>45, <1>46, <1>47, <1>48
     DEF Next, Coordinate

(* RELEASED on record means that the model is not leased any more, however *)
(* late a stop call writes its copy over the document, except in an        *)
(* experiment that failed or that was asked to stop where a preparation    *)
(* may fail: a completed one that nobody asked to stop has given its lease *)
(* back, whatever failed on the way.                                       *)
THEOREM ThmReleasedIsTrue == Spec => []ReleasedIsTrue
<1>1. ASSUME Init PROVE ReleaseInv
  <2>1. \A p \in Procs : pc[p] \notin Steady \cup {"prepare", "teardown"}
    BY <1>1 DEF Init, Steady
  <2>2. /\ Accepted.residency = "none" /\ disk = Accepted
        /\ \A p \in Procs : local[p] = Accepted
        /\ \A s \in Stops : stale[s] = Accepted
    BY <1>1 DEF Init, Accepted
  <2>3. \A p \in Procs : PlaceHonest(pc[p], local[p])
    BY <2>1 DEF PlaceHonest, Steady
  <2> QED
    BY <2>2, <2>3 DEF ReleaseInv, Honest
<1>2. IInv /\ ReleaseInv /\ [Next]_vars => ReleaseInv'
  BY ReleaseStep DEF IInv
<1>3. ReleaseInv => ReleasedIsTrue
  BY DEF ReleaseInv, ReleasedIsTrue, Honest, Excused
<1> QED
  BY <1>1, <1>2, <1>3, Invariance, PTL DEF Spec

-----------------------------------------------------------------------------
(* What the copy of the thread at work has to do with the document, as     *)
(* long as no stop call writes a copy of its own: it has the same turns,   *)
(* or one more, or another last turn while that is not settled.            *)
Saving == {"savePrepared", "saveBegin", "saveTerminal", "saveStopped", "teardown",
           "saveTeardown", "saveError", "giveUp"}
OnTurn == WithTurn \cup {"saveRefused", "saveDone", "saveFailed"}

KeptOK(p) ==
    /\ pc[p] \in Saving => local[p].turns = disk.turns
    /\ pc[p] = "saveTurn" =>
          ~HasCurrent(disk) /\ local[p].turns = Append(disk.turns, Prepared)
    /\ pc[p] \in OnTurn => HasCurrent(disk) /\ AllBut(local[p], disk)
    /\ pc[p] \in WithTurn => Last(local[p]).state \in Unsettled

LEMMA AllButTrans ==
    ASSUME NEW R, NEW S, NEW T, AllBut(R, S), AllBut(S, T) PROVE AllBut(R, T)
  BY DEF AllBut

LEMMA AllButSame ==
    ASSUME NEW R, NEW S, R.turns = S.turns PROVE AllBut(R, S) /\ Last(R) = Last(S)
  BY DEF AllBut, Last

(* A save makes the document of the copy it had.                           *)
LEMMA Saved ==
    ASSUME Typed, NEW p \in Procs, disk' = Merged(local[p]), local'[p] = disk'
    PROVE  /\ disk'.turns = local[p].turns /\ local'[p].turns = local[p].turns
           /\ Last(disk') = Last(local[p]) /\ Last(local'[p]) = Last(local[p])
           /\ AllBut(local'[p], disk') /\ Key(disk') = Key(local[p])
  BY Merging DEF Typed, CopiesOK, Last, AllBut, Key

(* What the thread's next place asks of its copy and of the document.      *)
LEMMA KeptTurn ==
    ASSUME Typed, NEW p \in Procs, KeptOK(p), pc[p] \in WithTurn,
           NEW R, local'[p] = R, SameBut(R, local[p]) \/ R = local[p], disk' = disk,
           pc'[p] \notin Saving \cup {"saveTurn"},
           pc'[p] \in WithTurn => Last(R).state \in Unsettled
    PROVE  KeptOK(p)'
<1>1. HasCurrent(disk) /\ AllBut(local[p], disk)
  BY DEF KeptOK, OnTurn
<1>2. AllBut(local'[p], disk')
  BY <1>1, AllButTrans DEF SameBut
<1> QED
  BY <1>1, <1>2 DEF KeptOK, HasCurrent, Last

LEMMA KeptMove ==
    ASSUME Typed, NEW p \in Procs, KeptOK(p), Coordinate(p) \/ Crash(p) \/ Restart(p)
    PROVE  KeptOK(p)'
<1> USE DEF coordVars, stopVars, worksVars, worldVars, Typed, PlacesOK, CopiesOK, Goto,
        Copy, Save
<1>1. ASSUME Acquire(p) PROVE KeptOK(p)'
  <2>1. pc'[p] \notin Saving \cup OnTurn \cup {"saveTurn"}
    BY <1>1 DEF Acquire, Saving, OnTurn, WithTurn
  <2> QED
    BY <2>1 DEF KeptOK, OnTurn
<1>2. ASSUME Top(p) PROVE KeptOK(p)'
  <2>1. pc'[p] \notin Saving \cup OnTurn \cup {"saveTurn"}
    BY <1>2 DEF Top, Saving, OnTurn, WithTurn
  <2> QED
    BY <2>1 DEF KeptOK, OnTurn
<1>3. ASSUME Attempt(p) PROVE KeptOK(p)'
  <2>1. /\ disk' = disk
        /\ \/ pc'[p] = "teardown" /\ local'[p] = disk
           \/ pc'[p] = "idle"
    BY <1>3 DEF Attempt
  <2> QED
    BY <2>1 DEF KeptOK, Saving, OnTurn, WithTurn
<1>4. ASSUME Prepare(p) PROVE KeptOK(p)'
  <2>1. /\ disk' = disk /\ pc'[p] = "savePrepared"
        /\ local'[p] \in {Hold(disk, "PREPARED"), Hold(disk, "FAILED")}
    BY <1>4 DEF Prepare
  <2> QED
    BY <2>1, Holding DEF KeptOK, Saving, OnTurn, WithTurn, CopiesOK, Residency
<1>5. ASSUME SavePrepared(p) PROVE KeptOK(p)'
  <2>1. pc'[p] \notin Saving \cup OnTurn \cup {"saveTurn"}
    BY <1>5 DEF SavePrepared, Save, Saving, OnTurn, WithTurn
  <2> QED
    BY <2>1 DEF KeptOK, OnTurn
<1>6. ASSUME PrepareFailed(p) PROVE KeptOK(p)'
  <2>1. disk' = disk /\ pc'[p] = "saveTerminal" /\ local'[p] = Mark(disk, "FAILED")
    BY <1>6 DEF PrepareFailed
  <2> QED
    BY <2>1, Holding, Marking DEF KeptOK, Saving, OnTurn, WithTurn, CopiesOK, Terminal,
                                  Residency
<1>7. ASSUME Begin(p) PROVE KeptOK(p)'
  <2>1. disk' = disk /\ pc'[p] = "saveBegin" /\ local'[p] = Mark(disk, "RUNNING")
    BY <1>7 DEF Begin
  <2> QED
    BY <2>1, Holding, Marking DEF KeptOK, Saving, OnTurn, WithTurn, CopiesOK, Terminal,
                                  Residency
<1>8. ASSUME SaveBegin(p) PROVE KeptOK(p)'
  <2>1. pc'[p] \notin Saving \cup OnTurn \cup {"saveTurn"}
    BY <1>8 DEF SaveBegin, Save, Saving, OnTurn, WithTurn
  <2> QED
    BY <2>1 DEF KeptOK, OnTurn
<1>9. ASSUME LoopStop(p) PROVE KeptOK(p)'
  <2>1. disk' = disk /\ pc'[p] = "saveTerminal" /\ local'[p] = Mark(disk, "STOPPED")
    BY <1>9 DEF LoopStop
  <2> QED
    BY <2>1, Holding, Marking DEF KeptOK, Saving, OnTurn, WithTurn, CopiesOK, Terminal,
                                  Residency
<1>10. ASSUME LoopCurrent(p) PROVE KeptOK(p)'
  <2>1. /\ disk' = disk /\ pc'[p] \in {"submit", "poll"} /\ local'[p] = disk
        /\ HasCurrent(disk)
    BY <1>10 DEF LoopCurrent
  <2> QED
    BY <2>1, AllButSame DEF KeptOK, Saving, OnTurn, WithTurn, HasCurrent
<1>11. ASSUME LoopComplete(p) PROVE KeptOK(p)'
  <2>1. disk' = disk /\ pc'[p] = "saveTerminal" /\ local'[p] = Mark(disk, "COMPLETED")
    BY <1>11 DEF LoopComplete
  <2> QED
    BY <2>1, Holding, Marking DEF KeptOK, Saving, OnTurn, WithTurn, CopiesOK, Terminal,
                                  Residency
<1>12. ASSUME LoopNewTurn(p) PROVE KeptOK(p)'
  <2>1. /\ disk' = disk /\ pc'[p] = "saveTurn" /\ local'[p] = AddTurn(disk)
        /\ ~HasCurrent(disk) /\ Len(disk.turns) < MaxTurns
    BY <1>12 DEF LoopNewTurn
  <2> QED
    BY <2>1, Adding DEF KeptOK, Saving, OnTurn, WithTurn, HasCurrent, Last, CopiesOK
<1>13. ASSUME SaveTurn(p) PROVE KeptOK(p)'
  <2>1. pc'[p] \notin Saving \cup OnTurn \cup {"saveTurn"}
    BY <1>13 DEF SaveTurn, Save, Saving, OnTurn, WithTurn
  <2> QED
    BY <2>1 DEF KeptOK, OnTurn
<1>14. ASSUME Submit(p) PROVE KeptOK(p)'
  <2>1. /\ disk' = disk /\ pc[p] = "submit" /\ pc'[p] \in {"saveSubmit"}
        /\ local'[p] \in {Become(local[p], "SUBMITTED")}
    BY <1>14 DEF Submit, Accept
  <2> QED
    BY <2>1, Becoming, KeptTurn
    DEF KeptOK, Saving, WithTurn, CopiesOK, PlaceOK, Unsettled, Settled
<1>15. ASSUME SubmitFails(p) PROVE KeptOK(p)'
  <2>1. /\ disk' = disk /\ pc[p] = "submit" /\ pc'[p] \in {"saveRefused"}
        /\ local'[p] \in {Become(local[p], "FAILED")}
    BY <1>15 DEF SubmitFails, Reject, Accept
  <2> QED
    BY <2>1, Becoming, KeptTurn
    DEF KeptOK, Saving, WithTurn, CopiesOK, PlaceOK, Unsettled, Settled
<1>16. ASSUME SaveSubmit(p) PROVE KeptOK(p)'
  <2>1. /\ disk' = Merged(local[p]) /\ local'[p] = disk'
        /\ pc[p] = "saveSubmit" /\ pc'[p] = "poll"
    BY <1>16 DEF SaveSubmit, Save
  <2>2. HasCurrent(disk') /\ Last(local'[p]).state \in Unsettled
    BY <2>1, Saved DEF KeptOK, WithTurn, PlaceOK, HasCurrent
  <2> QED
    BY <2>1, <2>2, Saved DEF KeptOK, Saving, OnTurn, WithTurn
<1>17. ASSUME SaveRefused(p) PROVE KeptOK(p)'
  <2>1. /\ disk' = Merged(local[p]) /\ pc'[p] \in {"saveTerminal", "loop"}
        /\ local'[p] \in {disk', Mark(disk', "FAILED")}
    BY <1>17 DEF SaveRefused
  <2>2. local'[p].turns = disk'.turns
    BY <2>1, Merging, Marking DEF CopiesOK, Terminal
  <2> QED
    BY <2>1, <2>2 DEF KeptOK, Saving, OnTurn, WithTurn
<1>18. ASSUME Poll(p) PROVE KeptOK(p)'
  <2>1. /\ disk' = disk /\ pc[p] = "poll"
        /\ \/ pc'[p] = "saveStopped" /\ local'[p] = Mark(disk, "STOPPED")
           \/ pc'[p] = "ask" /\ local'[p] = local[p]
    BY <1>18 DEF Poll
  <2> QED
    BY <2>1, Marking, KeptTurn DEF KeptOK, Saving, OnTurn, WithTurn, CopiesOK, Terminal
<1>19. ASSUME AskActive(p) PROVE KeptOK(p)'
  <2>1. /\ disk' = disk /\ pc[p] = "ask" /\ pc'[p] \in {"savePoll"}
        /\ local'[p] \in {local[p], Become(local[p], "RUNNING")}
    BY <1>19 DEF AskActive
  <2> QED
    BY <2>1, Becoming, KeptTurn
    DEF KeptOK, Saving, WithTurn, CopiesOK, PlaceOK, Unsettled, Settled
<1>20. ASSUME SavePoll(p) PROVE KeptOK(p)'
  <2>1. /\ disk' = Merged(local[p]) /\ local'[p] = disk'
        /\ pc[p] = "savePoll" /\ pc'[p] = "afterPoll"
    BY <1>20 DEF SavePoll, Save
  <2>2. HasCurrent(disk') /\ Last(local'[p]).state \in Unsettled
    BY <2>1, Saved DEF KeptOK, WithTurn, PlaceOK, HasCurrent
  <2> QED
    BY <2>1, <2>2, Saved DEF KeptOK, Saving, OnTurn, WithTurn
<1>21. ASSUME PollAgain(p) PROVE KeptOK(p)'
  <2>1. /\ disk' = disk /\ pc[p] = "afterPoll" /\ pc'[p] \in {"poll"}
        /\ local'[p] \in {local[p]}
    BY <1>21 DEF PollAgain
  <2> QED
    BY <2>1, Becoming, KeptTurn
    DEF KeptOK, Saving, WithTurn, CopiesOK, PlaceOK, Unsettled, Settled
<1>22. ASSUME PollTimeout(p) PROVE KeptOK(p)'
  <2>1. /\ disk' = disk /\ pc[p] = "afterPoll" /\ pc'[p] \in {"saveFailed"}
        /\ local'[p] \in {Become(local[p], "FAILED")}
    BY <1>22 DEF PollTimeout
  <2> QED
    BY <2>1, Becoming, KeptTurn
    DEF KeptOK, Saving, WithTurn, CopiesOK, PlaceOK, Unsettled, Settled
<1>23. ASSUME AskBad(p) PROVE KeptOK(p)'
  <2>1. /\ disk' = disk /\ pc[p] = "ask" /\ pc'[p] \in {"saveFailed"}
        /\ local'[p] \in {Become(local[p], "FAILED")}
    BY <1>23 DEF AskBad
  <2> QED
    BY <2>1, Becoming, KeptTurn
    DEF KeptOK, Saving, WithTurn, CopiesOK, PlaceOK, Unsettled, Settled
<1>24. ASSUME AskTools(p) PROVE KeptOK(p)'
  <2>1. /\ disk' = disk /\ pc[p] = "ask" /\ pc'[p] \in {"tools"}
        /\ local'[p] \in {local[p]}
    BY <1>24 DEF AskTools
  <2> QED
    BY <2>1, Becoming, KeptTurn
    DEF KeptOK, Saving, WithTurn, CopiesOK, PlaceOK, Unsettled, Settled
<1>25. ASSUME Tools(p) PROVE KeptOK(p)'
  <2>1. /\ disk' = disk /\ pc[p] = "tools" /\ pc'[p] = "followup"
        /\ local'[p] = FollowUp(local[p])
    BY <1>25 DEF Tools
  <2>2. SameBut(local'[p], local[p]) /\ Last(local'[p]).state = Last(local[p]).state
    BY <2>1, Following DEF CopiesOK, PlaceOK, WithTurn
  <2> QED
    BY <2>1, <2>2, KeptTurn DEF KeptOK, Saving, WithTurn
<1>26. ASSUME Followup(p) PROVE KeptOK(p)'
  <2>1. /\ disk' = disk /\ pc[p] = "followup" /\ pc'[p] \in {"saveSubmit"}
        /\ local'[p] \in {Become(local[p], "SUBMITTED")}
    BY <1>26 DEF Followup, Accept
  <2> QED
    BY <2>1, Becoming, KeptTurn
    DEF KeptOK, Saving, WithTurn, CopiesOK, PlaceOK, Unsettled, Settled
<1>27. ASSUME FollowupFails(p) PROVE KeptOK(p)'
  <2>1. pc'[p] \notin Saving \cup OnTurn \cup {"saveTurn"}
    BY <1>27 DEF FollowupFails, Reject, Accept, Saving, OnTurn, WithTurn
  <2> QED
    BY <2>1 DEF KeptOK, OnTurn
<1>28. ASSUME AskDone(p) PROVE KeptOK(p)'
  <2>1. /\ disk' = disk /\ pc[p] = "ask" /\ pc'[p] \in {"saveDone", "raised"}
        /\ local'[p] \in {local[p], Become(local[p], "COMPLETED")}
    BY <1>28 DEF AskDone
  <2> QED
    BY <2>1, Becoming, KeptTurn
    DEF KeptOK, Saving, WithTurn, CopiesOK, PlaceOK, Unsettled, Settled
<1>29. ASSUME SaveDone(p) PROVE KeptOK(p)'
  <2>1. pc'[p] \notin Saving \cup OnTurn \cup {"saveTurn"}
    BY <1>29 DEF SaveDone, Save, Saving, OnTurn, WithTurn
  <2> QED
    BY <2>1 DEF KeptOK, OnTurn
<1>30. ASSUME SaveFailed(p) PROVE KeptOK(p)'
  <2>1. pc'[p] \notin Saving \cup OnTurn \cup {"saveTurn"}
    BY <1>30 DEF SaveFailed, Save, Saving, OnTurn, WithTurn
  <2> QED
    BY <2>1 DEF KeptOK, OnTurn
<1>31. ASSUME SaveStopped(p) PROVE KeptOK(p)'
  <2>1. pc'[p] \notin Saving \cup OnTurn \cup {"saveTurn"}
    BY <1>31 DEF SaveStopped, Save, Saving, OnTurn, WithTurn
  <2> QED
    BY <2>1 DEF KeptOK, OnTurn
<1>32. ASSUME AfterFailed(p) PROVE KeptOK(p)'
  <2>1. /\ disk' = disk
        /\ \/ pc'[p] = "saveTerminal" /\ local'[p] = Mark(disk, "FAILED")
           \/ pc'[p] \in {"finally", "loop"}
    BY <1>32 DEF AfterFailed
  <2> QED
    BY <2>1, Marking DEF KeptOK, Saving, OnTurn, WithTurn, CopiesOK, Terminal
<1>33. ASSUME SaveTerminal(p) PROVE KeptOK(p)'
  <2>1. pc'[p] \notin Saving \cup OnTurn \cup {"saveTurn"}
    BY <1>33 DEF SaveTerminal, Save, Saving, OnTurn, WithTurn
  <2> QED
    BY <2>1 DEF KeptOK, OnTurn
<1>34. ASSUME Finally(p) PROVE KeptOK(p)'
  <2>1. /\ disk' = disk
        /\ \/ pc'[p] = "teardown" /\ local'[p] = disk
           \/ pc'[p] = "release"
    BY <1>34 DEF Finally
  <2> QED
    BY <2>1 DEF KeptOK, Saving, OnTurn, WithTurn
<1>35. ASSUME Teardown(p) PROVE KeptOK(p)'
  <2>1. /\ disk' = disk /\ pc[p] = "teardown" /\ pc'[p] = "saveTeardown"
        /\ local'[p] \in {Hold(local[p], "RELEASED"), Hold(local[p], "DEGRADED")}
    BY <1>35 DEF Teardown
  <2>2. local'[p].turns = disk.turns
    BY <2>1, Holding DEF KeptOK, Saving, CopiesOK, Residency
  <2> QED
    BY <2>1, <2>2 DEF KeptOK, Saving, OnTurn, WithTurn
<1>36. ASSUME SaveTeardown(p) PROVE KeptOK(p)'
  <2>1. pc'[p] \notin Saving \cup OnTurn \cup {"saveTurn"}
    BY <1>36 DEF SaveTeardown, Save, Saving, OnTurn, WithTurn
  <2> QED
    BY <2>1 DEF KeptOK, OnTurn
<1>37. ASSUME Release(p) PROVE KeptOK(p)'
  <2>1. pc'[p] \notin Saving \cup OnTurn \cup {"saveTurn"}
    BY <1>37 DEF Release, Forget, Saving, OnTurn, WithTurn
  <2> QED
    BY <2>1 DEF KeptOK, OnTurn
<1>38. ASSUME Handle(p) PROVE KeptOK(p)'
  <2>1. disk' = disk /\ pc'[p] = "saveError" /\ local'[p] = disk
    BY <1>38 DEF Handle
  <2> QED
    BY <2>1, Holding, Marking DEF KeptOK, Saving, OnTurn, WithTurn, CopiesOK, Terminal,
                                  Residency
<1>39. ASSUME SaveError(p) PROVE KeptOK(p)'
  <2>1. /\ disk' = Merged(local[p]) /\ pc'[p] \in {"giveUp", "top"}
        /\ local'[p] \in {disk', Mark(disk', "FAILED")}
    BY <1>39 DEF SaveError
  <2>2. local'[p].turns = disk'.turns
    BY <2>1, Merging, Marking DEF CopiesOK, Terminal
  <2> QED
    BY <2>1, <2>2 DEF KeptOK, Saving, OnTurn, WithTurn
<1>40. ASSUME GiveUp(p) PROVE KeptOK(p)'
  <2>1. pc'[p] \notin Saving \cup OnTurn \cup {"saveTurn"}
    BY <1>40 DEF GiveUp, Forget, Saving, OnTurn, WithTurn
  <2> QED
    BY <2>1 DEF KeptOK, OnTurn
<1>41. ASSUME Raise(p) PROVE KeptOK(p)'
  <2>1. pc'[p] \notin Saving \cup OnTurn \cup {"saveTurn"}
    BY <1>41 DEF Raise, Raises, Saving, OnTurn, WithTurn
  <2> QED
    BY <2>1 DEF KeptOK, OnTurn
<1>42. ASSUME Crash(p) PROVE KeptOK(p)'
  <2>1. pc'[p] \notin Saving \cup OnTurn \cup {"saveTurn"}
    BY <1>42 DEF Crash, Forget, Saving, OnTurn, WithTurn
  <2> QED
    BY <2>1 DEF KeptOK, OnTurn
<1>43. ASSUME Restart(p) PROVE KeptOK(p)'
  <2>1. pc'[p] \notin Saving \cup OnTurn \cup {"saveTurn"}
    BY <1>43 DEF Restart, Saving, OnTurn, WithTurn
  <2> QED
    BY <2>1 DEF KeptOK, OnTurn
<1> QED
  BY <1>1, <1>2, <1>3, <1>4, <1>5, <1>6, <1>7, <1>8, <1>9, <1>10, <1>11,
     <1>12, <1>13, <1>14, <1>15, <1>16, <1>17, <1>18, <1>19, <1>20, <1>21,
     <1>22, <1>23, <1>24, <1>25, <1>26, <1>27, <1>28, <1>29, <1>30, <1>31,
     <1>32, <1>33, <1>34, <1>35, <1>36, <1>37, <1>38, <1>39, <1>40, <1>41,
     <1>42, <1>43 DEF Coordinate

(* A thread writes the document only from its copy, at a place of saving.  *)
LEMMA Writing ==
    ASSUME Typed, NEW p \in Procs, Coordinate(p) \/ Crash(p) \/ Restart(p)
    PROVE  \/ disk' = disk
           \/ /\ disk' = Merged(local[p])
              /\ pc[p] \in Saving \cup {"saveTurn"} \cup OnTurn
  BY DEF Coordinate, Acquire, Top, Attempt, Prepare, SavePrepared, PrepareFailed, Begin,
         SaveBegin, LoopStop, LoopCurrent, LoopComplete, LoopNewTurn, SaveTurn, Submit,
         SubmitFails, SaveSubmit, SaveRefused, Poll, AskActive, SavePoll, PollAgain,
         PollTimeout, AskBad, AskTools, Tools, Followup, FollowupFails, AskDone, SaveDone,
         SaveFailed, SaveStopped, AfterFailed, SaveTerminal, Finally, Teardown,
         SaveTeardown, Release, Handle, SaveError, GiveUp, Raise, Raises, Crash, Restart,
         Save, Goto, Saving, OnTurn, WithTurn

(* Only the thread at work has a copy that matters, and nothing but its    *)
(* own steps changes the copy or the document.                             *)
TurnsInv == \A p \in Procs : KeptOK(p)

LEMMA TurnsStep ==
    ASSUME Stops = {}, Typed, TurnsInv, [Next]_vars
    PROVE  TurnsInv'
<1>1. ASSUME NEW p \in Procs, Coordinate(p) \/ Crash(p) \/ Restart(p) PROVE TurnsInv'
  <2>1. KeptOK(p)' /\ Alone(p)
    BY <1>1, KeptMove, Moving DEF TurnsInv, Typed
  <2>2. ASSUME NEW q \in Procs \ {p} PROVE KeptOK(q)'
    <3>1. CASE disk' = disk
      BY <2>1, <3>1 DEF TurnsInv, KeptOK, Alone, HasCurrent, Last
    <3>2. CASE disk' # disk
      <4>1. pc[p] \notin Outside
        BY <1>1, <3>2, Writing DEF Outside, Saving, OnTurn, WithTurn
      <4>2. pc'[q] \in Outside
        BY <2>1, <4>1, Apart DEF Alone, Typed
      <4> QED
        BY <4>2 DEF KeptOK, Outside, Saving, OnTurn, WithTurn
    <3> QED
      BY <3>1, <3>2
  <2> QED
    BY <2>1, <2>2 DEF TurnsInv
<1>2. ASSUME UNCHANGED <<disk, pc, local>> PROVE TurnsInv'
  BY <1>2 DEF TurnsInv, KeptOK, HasCurrent, Last
<1> QED
  BY <1>1, <1>2
  DEF Next, Work, Deadline, vars, coordVars

LEMMA TurnsInit == Init => TurnsInv
<1> SUFFICES ASSUME Init, NEW p \in Procs PROVE KeptOK(p)
  BY DEF TurnsInv
<1>1. pc[p] \in Outside
  BY DEF Init, Outside
<1> QED
  BY <1>1 DEF KeptOK, Outside, Saving, OnTurn, WithTurn

(* A save of the copy keeps the settled turns of the document.             *)
LEMMA SettledKept ==
    ASSUME Typed, NEW p \in Procs, KeptOK(p), disk' = Merged(local[p]),
           pc[p] \in Saving \cup {"saveTurn"} \cup OnTurn,
           NEW n \in 1 .. Len(disk.turns), disk.turns[n].state \in Settled
    PROVE  n <= Len(disk'.turns) /\ disk'.turns[n] = disk.turns[n]
<1>1. disk'.turns = local[p].turns
  BY Merging DEF Typed, CopiesOK
<1>2. disk.turns \in Seq(Turn) /\ Len(disk.turns) \in Nat
  BY DEF Typed, CopiesOK, State
<1>3. CASE pc[p] \in Saving
  BY <1>1, <1>2, <1>3 DEF KeptOK
<1>4. CASE pc[p] = "saveTurn"
  <2>1. Prepared \in Turn
    BY BoundsAssumption DEF Prepared, Turn, Unsettled
  <2>2. local[p].turns = Append(disk.turns, Prepared)
    BY <1>4 DEF KeptOK
  <2> QED
    BY <1>1, <1>2, <2>1, <2>2, AppendProperties
<1>5. CASE pc[p] \in OnTurn
  <2>1. HasCurrent(disk) /\ AllBut(local[p], disk)
    BY <1>5 DEF KeptOK
  <2>2. n # Len(disk.turns)
    BY <2>1 DEF HasCurrent, Last, Unsettled, Settled
  <2> QED
    BY <1>1, <1>2, <2>1, <2>2 DEF AllBut
<1> QED
  BY <1>3, <1>4, <1>5

(* Without a stop call, which saves an old copy of the document, history   *)
(* is append-only, whichever processes coordinate, crash and resume: the   *)
(* merge of _save is not needed for it, the coordinator lock is.           *)
THEOREM ThmSettledTurnsAreKept ==
    ASSUME Stops = {} PROVE Spec => SettledTurnsAreKept
<1> DEFINE Kept == \A n \in 1 .. Len(disk.turns) : disk.turns[n].state \in Settled =>
                       /\ n <= Len(disk'.turns)
                       /\ disk'.turns[n] = disk.turns[n]
<1>1. Typed /\ TurnsInv /\ [Next]_vars => Kept
  <2> SUFFICES ASSUME Typed, TurnsInv, [Next]_vars PROVE Kept
    OBVIOUS
  <2>1. ASSUME disk' = disk PROVE Kept
    BY <2>1 DEF Typed, CopiesOK, State
  <2>2. ASSUME NEW p \in Procs, Coordinate(p) \/ Crash(p) \/ Restart(p) PROVE Kept
    BY <2>1, <2>2, Writing, SettledKept DEF TurnsInv
  <2> QED
    BY <2>1, <2>2 DEF Next, Work, Deadline, vars, coordVars
<1>2. Spec => [](Typed /\ TurnsInv)
  <2>1. Init => Typed /\ TurnsInv
    BY TypedInit, TurnsInit
  <2>2. Typed /\ TurnsInv /\ [Next]_vars => (Typed /\ TurnsInv)'
    BY TypedStep, TurnsStep
  <2> QED
    BY <2>1, <2>2, PTL DEF Spec
<1> QED
  BY <1>1, <1>2, PTL DEF Spec, SettledTurnsAreKept

-----------------------------------------------------------------------------
(* A work that Fabric accepted is on record, or it is pending: it is the   *)
(* first work of the prepared turn, or the follow-up of a work that asked  *)
(* for tools, so that every coordinator that takes over submits it again.  *)
Pending(k) ==
    /\ HasCurrent(disk) /\ k = NextKey(disk)
    /\ Last(disk).state # "PREPARING" =>
          fabric[Key(disk)] = "tools" /\ Last(disk).step < MaxToolSteps

AllRecorded == \A k \in Keys : fabric[k] # "none" => Recorded(k, disk)

WorksInv ==
    /\ HasCurrent(disk) /\ Last(disk).state = "PREPARING" => Last(disk).step = 0
    /\ \A k \in Keys : fabric[k] # "none" => Recorded(k, disk) \/ Pending(k)

(* Where the thread works on a turn it knows what is on record of it, and  *)
(* where the turn may be about to end nothing of it is pending.            *)
WorkOK(p) ==
    /\ pc[p] # "saveRefused"
    /\ pc[p] \in {"submit", "poll", "ask", "afterPoll", "tools"} =>
          local[p].turns = disk.turns
    /\ pc[p] = "submit" => Last(disk).state = "PREPARING"
    /\ pc[p] = "saveSubmit" =>
          Last(local[p]).state = "SUBMITTED" /\ Last(local[p]).step = NextKey(disk)[2]
    /\ pc[p] \in OnTurn \ {"submit", "saveSubmit"} => Last(disk).state # "PREPARING"
    /\ pc[p] \in {"savePoll", "saveDone", "saveFailed"} =>
          Last(local[p]).step = Last(disk).step /\ Last(local[p]).state # "PREPARING"
    /\ pc[p] \in {"tools", "followup"} =>
          fabric[Key(disk)] = "tools" /\ Last(disk).step < MaxToolSteps
    /\ pc[p] = "followup" => Last(local[p]).step = Last(disk).step + 1
    /\ pc[p] \in {"savePoll", "afterPoll", "saveDone", "saveFailed"} => AllRecorded

(* Only a submission has Fabric accept a work.                             *)
LEMMA Submitting ==
    ASSUME Typed, NEW p \in Procs, Coordinate(p) \/ Crash(p) \/ Restart(p)
    PROVE  fabric' = fabric \/ pc[p] \in {"submit", "followup"}
  BY DEF Coordinate, Acquire, Top, Attempt, Prepare, SavePrepared, PrepareFailed, Begin,
         SaveBegin, LoopStop, LoopCurrent, LoopComplete, LoopNewTurn, SaveTurn, Submit,
         SubmitFails, SaveSubmit, SaveRefused, Poll, AskActive, SavePoll, PollAgain,
         PollTimeout, AskBad, AskTools, Tools, Followup, FollowupFails, AskDone, SaveDone,
         SaveFailed, SaveStopped, AfterFailed, SaveTerminal, Finally, Teardown,
         SaveTeardown, Release, Handle, SaveError, GiveUp, Raise, Raises, Crash, Restart,
         Save, Goto, coordVars, stopVars, worksVars, worldVars

LEMMA Accepts ==
    ASSUME Typed, NEW k \in Keys, Accept(k)
    PROVE  \A j \in Keys : fabric'[j] # fabric[j] => j = k /\ fabric[j] = "none"
  BY DEF Accept, worksVars, Typed, WorldOK

(* What is on record stays so when the last turn moves on.                 *)
LEMMA RecordedOn ==
    ASSUME NEW R, NEW S, Bounded(S), Bounded(R), S.turns # <<>>, AllBut(R, S),
           Last(R).step >= Last(S).step, Last(R).state # "PREPARING",
           NEW k \in Keys, Recorded(k, S)
    PROVE  Recorded(k, R)
<1>1. Last(S).step \in Nat /\ Last(R).step \in Nat /\ k[2] \in Nat /\ k[1] \in 1 .. MaxTurns
  <2>1. Len(R.turns) = Len(S.turns) /\ R.turns # <<>>
    BY EmptySeq DEF AllBut, Bounded, State
  <2> QED
    BY <2>1, Lasts, BoundsAssumption DEF Turn, Keys
<1>2. k[1] <= Len(S.turns) /\ Len(R.turns) = Len(S.turns) /\ Len(S.turns) \in Nat
  BY DEF Recorded, AllBut, Bounded, State
<1>3. CASE k[1] = Len(S.turns)
  BY <1>1, <1>2, <1>3 DEF Recorded, Last
<1>4. CASE k[1] # Len(S.turns)
  BY <1>1, <1>2, <1>4 DEF Recorded, AllBut
<1> QED
  BY <1>3, <1>4

(* The same turns on record and the same works.                            *)
LEMMA WorkAway ==
    ASSUME Typed, WorksInv, NEW p \in Procs, disk'.turns = disk.turns, fabric' = fabric,
           pc'[p] \notin OnTurn
    PROVE  WorksInv' /\ WorkOK(p)'
<1>1. /\ HasCurrent(disk') <=> HasCurrent(disk)
      /\ Last(disk') = Last(disk) /\ NextKey(disk') = NextKey(disk)
      /\ Key(disk') = Key(disk)
      /\ \A k \in Keys : Recorded(k, disk') <=> Recorded(k, disk)
  BY DEF HasCurrent, Last, NextKey, Key, Recorded
<1>2. WorksInv'
  BY <1>1 DEF WorksInv, Pending
<1>3. WorkOK(p)'
  BY DEF WorkOK, OnTurn, WithTurn
<1> QED
  BY <1>2, <1>3

(* A save of a turn none of whose works is pending, or that was submitted  *)
(* under the pending key, has all of them on record.                       *)
LEMMA WorkSaved ==
    ASSUME Typed, NEW p \in Procs, KeptOK(p), pc[p] \in OnTurn, fabric' = fabric,
           disk' = Merged(local[p]), local'[p] = disk',
           Last(local[p]).state # "PREPARING", Last(local[p]).step >= Last(disk).step,
           \A k \in Keys : fabric[k] # "none" => Recorded(k, disk) \/ k = Key(local[p])
    PROVE  /\ AllRecorded' /\ WorksInv' /\ local'[p].turns = disk'.turns
           /\ Last(local'[p]) = Last(disk') /\ Last(disk').state # "PREPARING"
<1>1. /\ disk'.turns = local[p].turns /\ local'[p].turns = disk'.turns
      /\ Last(disk') = Last(local[p]) /\ Last(local'[p]) = Last(disk')
      /\ Bounded(disk') /\ Bounded(disk)
  BY Saved, Merging DEF Typed, CopiesOK
<1>2. disk.turns # <<>> /\ AllBut(disk', disk)
  BY <1>1 DEF KeptOK, HasCurrent, AllBut
<1>3. disk'.turns # <<>> /\ Len(disk'.turns) \in Nat
  BY <1>1, <1>2, EmptySeq DEF AllBut, Bounded, State
<1>4. Last(disk').step \in Nat
  BY <1>1, <1>3, Lasts, BoundsAssumption DEF Turn
<1>5. Recorded(Key(local[p]), disk')
  BY <1>1, <1>3, <1>4 DEF Recorded, Key, Last
<1>6. AllRecorded'
  BY <1>1, <1>2, <1>5, RecordedOn DEF AllRecorded
<1> QED
  BY <1>1, <1>6 DEF WorksInv, AllRecorded

(* A step of a turn that leaves Fabric and the document alone.             *)
LEMMA WorkWait ==
    ASSUME Typed, WorksInv, disk' = disk, fabric' = fabric
    PROVE  WorksInv' /\ (AllRecorded' <=> AllRecorded)
  BY DEF WorksInv, AllRecorded, Pending

(* Where the work of the current key is not one that asks for a follow-up, *)
(* nothing is pending.                                                     *)
LEMMA NotPending ==
    ASSUME WorksInv, Last(disk).state # "PREPARING",
           fabric[Key(disk)] # "tools" \/ ~(Last(disk).step < MaxToolSteps)
    PROVE  AllRecorded
  BY DEF WorksInv, AllRecorded, Pending

LEMMA WorkMove ==
    ASSUME SubmitFaults = {}, "call" \notin RuntimeFaults,
           Typed, WorksInv, NEW p \in Procs, KeptOK(p), WorkOK(p),
           Coordinate(p) \/ Crash(p) \/ Restart(p)
    PROVE  WorksInv' /\ WorkOK(p)'
<1> DEFINE Goal == WorksInv' /\ WorkOK(p)'
<1> USE DEF coordVars, stopVars, worksVars, worldVars, Typed, PlacesOK, CopiesOK, Goto,
        Copy, Save
<1>1. ASSUME Acquire(p) PROVE Goal
  <2>1. pc'[p] \notin OnTurn /\ fabric' = fabric /\ (disk' = disk \/ pc[p] \in Saving)
    BY <1>1 DEF Acquire, OnTurn, WithTurn, Saving
  <2> QED
    BY <1>1, <2>1, Writing, Merging, WorkAway DEF Coordinate, KeptOK, CopiesOK
<1>2. ASSUME Top(p) PROVE Goal
  <2>1. pc'[p] \notin OnTurn /\ fabric' = fabric /\ (disk' = disk \/ pc[p] \in Saving)
    BY <1>2 DEF Top, OnTurn, WithTurn, Saving
  <2> QED
    BY <1>2, <2>1, Writing, Merging, WorkAway DEF Coordinate, KeptOK, CopiesOK
<1>3. ASSUME Attempt(p) PROVE Goal
  <2>1. pc'[p] \notin OnTurn /\ fabric' = fabric /\ (disk' = disk \/ pc[p] \in Saving)
    BY <1>3 DEF Attempt, Forget, OnTurn, WithTurn, Saving
  <2> QED
    BY <1>3, <2>1, Writing, Merging, WorkAway DEF Coordinate, KeptOK, CopiesOK
<1>4. ASSUME Prepare(p) PROVE Goal
  <2>1. pc'[p] \notin OnTurn /\ fabric' = fabric /\ (disk' = disk \/ pc[p] \in Saving)
    BY <1>4 DEF Prepare, OnTurn, WithTurn, Saving
  <2> QED
    BY <1>4, <2>1, Writing, Merging, WorkAway DEF Coordinate, KeptOK, CopiesOK
<1>5. ASSUME SavePrepared(p) PROVE Goal
  <2>1. pc'[p] \notin OnTurn /\ fabric' = fabric /\ (disk' = disk \/ pc[p] \in Saving)
    BY <1>5 DEF SavePrepared, Save, OnTurn, WithTurn, Saving
  <2> QED
    BY <1>5, <2>1, Writing, Merging, WorkAway DEF Coordinate, KeptOK, CopiesOK
<1>6. ASSUME PrepareFailed(p) PROVE Goal
  <2>1. pc'[p] \notin OnTurn /\ fabric' = fabric /\ (disk' = disk \/ pc[p] \in Saving)
    BY <1>6 DEF PrepareFailed, OnTurn, WithTurn, Saving
  <2> QED
    BY <1>6, <2>1, Writing, Merging, WorkAway DEF Coordinate, KeptOK, CopiesOK
<1>7. ASSUME Begin(p) PROVE Goal
  <2>1. pc'[p] \notin OnTurn /\ fabric' = fabric /\ (disk' = disk \/ pc[p] \in Saving)
    BY <1>7 DEF Begin, OnTurn, WithTurn, Saving
  <2> QED
    BY <1>7, <2>1, Writing, Merging, WorkAway DEF Coordinate, KeptOK, CopiesOK
<1>8. ASSUME SaveBegin(p) PROVE Goal
  <2>1. pc'[p] \notin OnTurn /\ fabric' = fabric /\ (disk' = disk \/ pc[p] \in Saving)
    BY <1>8 DEF SaveBegin, Save, OnTurn, WithTurn, Saving
  <2> QED
    BY <1>8, <2>1, Writing, Merging, WorkAway DEF Coordinate, KeptOK, CopiesOK
<1>9. ASSUME LoopStop(p) PROVE Goal
  <2>1. pc'[p] \notin OnTurn /\ fabric' = fabric /\ (disk' = disk \/ pc[p] \in Saving)
    BY <1>9 DEF LoopStop, OnTurn, WithTurn, Saving
  <2> QED
    BY <1>9, <2>1, Writing, Merging, WorkAway DEF Coordinate, KeptOK, CopiesOK
<1>10. ASSUME LoopCurrent(p) PROVE Goal
  <2>1. /\ disk' = disk /\ fabric' = fabric /\ local'[p] = disk
        /\ pc'[p] = IF Last(disk).state = "PREPARING" THEN "submit" ELSE "poll"
    BY <1>10 DEF LoopCurrent
  <2> QED
    BY <2>1, WorkWait DEF WorkOK, OnTurn, WithTurn
<1>11. ASSUME LoopComplete(p) PROVE Goal
  <2>1. pc'[p] \notin OnTurn /\ fabric' = fabric /\ (disk' = disk \/ pc[p] \in Saving)
    BY <1>11 DEF LoopComplete, OnTurn, WithTurn, Saving
  <2> QED
    BY <1>11, <2>1, Writing, Merging, WorkAway DEF Coordinate, KeptOK, CopiesOK
<1>12. ASSUME LoopNewTurn(p) PROVE Goal
  <2>1. pc'[p] \notin OnTurn /\ fabric' = fabric /\ (disk' = disk \/ pc[p] \in Saving)
    BY <1>12 DEF LoopNewTurn, OnTurn, WithTurn, Saving
  <2> QED
    BY <1>12, <2>1, Writing, Merging, WorkAway DEF Coordinate, KeptOK, CopiesOK
<1>13. ASSUME SaveTurn(p) PROVE Goal
  <2>1. /\ disk' = Merged(local[p]) /\ fabric' = fabric
        /\ pc[p] = "saveTurn" /\ pc'[p] = "loop"
    BY <1>13 DEF SaveTurn
  <2>2. ~HasCurrent(disk) /\ disk'.turns = Append(disk.turns, Prepared)
    BY <2>1, Merging DEF KeptOK, CopiesOK
  <2>3. /\ disk.turns \in Seq(Turn) /\ Len(disk.turns) \in Nat /\ Prepared \in Turn
    BY BoundsAssumption DEF CopiesOK, State, Prepared, Turn, Unsettled
  <2>4. /\ Len(disk'.turns) = Len(disk.turns) + 1 /\ Last(disk') = Prepared
        /\ \A n \in 1 .. Len(disk.turns) : disk'.turns[n] = disk.turns[n]
    BY <2>2, <2>3, AppendProperties DEF Last
  <2>5. \A k \in Keys : k[1] \in Nat \ {0}
    BY BoundsAssumption DEF Keys
  <2>6. \A k \in Keys : fabric[k] # "none" => Recorded(k, disk')
    BY <2>2, <2>3, <2>4, <2>5 DEF WorksInv, Pending, Recorded
  <2> QED
    BY <2>1, <2>4, <2>6 DEF WorksInv, WorkOK, OnTurn, WithTurn, Prepared
<1>14. ASSUME Submit(p) PROVE Goal
  <2>1. /\ disk' = disk /\ Accept(Key(local[p])) /\ pc[p] = "submit"
        /\ pc'[p] = "saveSubmit" /\ local'[p] = Become(local[p], "SUBMITTED")
    BY <1>14 DEF Submit
  <2>2. HasCurrent(disk) /\ AllBut(local[p], disk) /\ local[p].turns # <<>>
    BY <2>1 DEF KeptOK, OnTurn, WithTurn, PlaceOK
  <2>3. Key(local[p]) \in Keys
    BY <2>2, Lasts DEF CopiesOK
  <2>4. Key(local[p]) = NextKey(disk)
    BY <2>1, <2>2 DEF WorkOK, WorksInv, Key, NextKey, Last, AllBut
  <2>5. Last(local'[p]) = [state |-> "SUBMITTED", step |-> Last(local[p]).step]
    BY <2>1, <2>2, Becoming DEF CopiesOK, Unsettled
  <2>6. \A j \in Keys : fabric'[j] # fabric[j] => j = NextKey(disk) /\ fabric[j] = "none"
    BY <2>1, <2>3, <2>4, Accepts
  <2>7. Key(disk) \in Keys
    BY <2>2, Lasts DEF HasCurrent, CopiesOK
  <2>8. WorksInv'
    BY <2>1, <2>2, <2>6, <2>7 DEF WorksInv, Pending, WorkOK
  <2> QED
    BY <2>1, <2>4, <2>5, <2>8 DEF WorkOK, Key, OnTurn, WithTurn
<1>15. ASSUME SubmitFails(p) PROVE Goal
  BY <1>15 DEF SubmitFails, Reject
<1>16. ASSUME SaveSubmit(p) PROVE Goal
  <2>1. /\ disk' = Merged(local[p]) /\ local'[p] = disk' /\ fabric' = fabric
        /\ pc[p] = "saveSubmit" /\ pc'[p] = "poll"
    BY <1>16 DEF SaveSubmit
  <2>2. HasCurrent(disk) /\ AllBut(local[p], disk)
    BY <2>1 DEF KeptOK, OnTurn, WithTurn
  <2>3. Last(local[p]).state = "SUBMITTED" /\ Last(local[p]).step = NextKey(disk)[2]
    BY <2>1 DEF WorkOK
  <2>4. Last(disk).step \in Nat
    BY <2>2, Lasts, BoundsAssumption DEF HasCurrent, CopiesOK, Turn
  <2>5. Key(local[p]) = NextKey(disk) /\ Last(local[p]).step >= Last(disk).step
    BY <2>2, <2>3, <2>4 DEF WorksInv, Key, NextKey, AllBut
  <2>6. /\ WorksInv' /\ local'[p].turns = disk'.turns /\ Last(disk').state # "PREPARING"
    BY <2>1, <2>3, <2>5, WorkSaved DEF WorksInv, Pending, OnTurn, WithTurn
  <2> QED
    BY <2>1, <2>6 DEF WorkOK, OnTurn, WithTurn
<1>17. ASSUME SaveRefused(p) PROVE Goal
  BY <1>17 DEF SaveRefused, WorkOK
<1>18. ASSUME Poll(p) PROVE Goal
  <2>1. /\ disk' = disk /\ fabric' = fabric /\ pc[p] = "poll"
        /\ \/ pc'[p] = "saveStopped"
           \/ pc'[p] = "ask" /\ local'[p] = local[p]
    BY <1>18 DEF Poll
  <2> QED
    BY <2>1, WorkWait DEF WorkOK, OnTurn, WithTurn
<1>19. ASSUME AskActive(p) PROVE Goal
  <2>1. /\ disk' = disk /\ fabric' = fabric /\ pc[p] = "ask"
        /\ pc'[p] = "savePoll"
        /\ local'[p] = Become(local[p], "RUNNING")
        /\ fabric[Key(local[p])] = "active"
    BY <1>19 DEF AskActive
  <2>2. /\ local[p].turns = disk.turns /\ Last(disk).state # "PREPARING"
        /\ local[p].turns # <<>>
    BY <2>1 DEF WorkOK, OnTurn, WithTurn, PlaceOK
  <2>3. AllRecorded
    BY <2>1, <2>2, NotPending DEF Key, Last
  <2>4. /\ Last(local'[p]).step = Last(disk).step
        /\ Last(local'[p]).state # "PREPARING"
    <3>1. Last(local[p]) = Last(disk)
      BY <2>2 DEF Last
    <3> QED
      BY <2>1, <2>2, <3>1, Becoming DEF CopiesOK, Unsettled, Settled
  <2> QED
    BY <2>1, <2>2, <2>3, <2>4, WorkWait DEF WorkOK, OnTurn, WithTurn
<1>20. ASSUME SavePoll(p) PROVE Goal
  <2>1. /\ disk' = Merged(local[p]) /\ local'[p] = disk' /\ fabric' = fabric
        /\ pc[p] = "savePoll" /\ pc'[p] = "afterPoll"
    BY <1>20 DEF SavePoll
  <2>2. /\ Last(local[p]).state # "PREPARING"
        /\ Last(local[p]).step = Last(disk).step /\ AllRecorded
    BY <2>1 DEF WorkOK
  <2>3. Last(disk).step \in Nat
    BY <2>1, Lasts, BoundsAssumption DEF KeptOK, HasCurrent, OnTurn, WithTurn, CopiesOK, Turn
  <2>4. /\ AllRecorded' /\ WorksInv' /\ local'[p].turns = disk'.turns
        /\ Last(disk').state # "PREPARING"
    BY <2>1, <2>2, <2>3, WorkSaved DEF AllRecorded, OnTurn, WithTurn
  <2> QED
    BY <2>1, <2>4 DEF WorkOK, OnTurn, WithTurn
<1>21. ASSUME PollAgain(p) PROVE Goal
  <2>1. /\ disk' = disk /\ fabric' = fabric /\ local'[p] = local[p]
        /\ pc[p] = "afterPoll" /\ pc'[p] = "poll"
    BY <1>21 DEF PollAgain
  <2> QED
    BY <2>1, WorkWait DEF WorkOK, OnTurn, WithTurn
<1>22. ASSUME PollTimeout(p) PROVE Goal
  <2>1. /\ disk' = disk /\ fabric' = fabric /\ pc[p] = "afterPoll"
        /\ pc'[p] = "saveFailed" /\ local'[p] = Become(local[p], "FAILED")
    BY <1>22 DEF PollTimeout
  <2>2. /\ local[p].turns = disk.turns /\ Last(disk).state # "PREPARING"
        /\ local[p].turns # <<>> /\ AllRecorded
    BY <2>1 DEF WorkOK, OnTurn, WithTurn, PlaceOK
  <2>3. /\ Last(local'[p]).step = Last(disk).step
        /\ Last(local'[p]).state # "PREPARING"
    <3>1. Last(local[p]) = Last(disk)
      BY <2>2 DEF Last
    <3> QED
      BY <2>1, <2>2, <3>1, Becoming DEF CopiesOK, Unsettled, Settled
  <2> QED
    BY <2>1, <2>2, <2>3, WorkWait DEF WorkOK, OnTurn, WithTurn
<1>23. ASSUME AskBad(p) PROVE Goal
  <2>1. /\ disk' = disk /\ fabric' = fabric /\ pc[p] = "ask"
        /\ pc'[p] = "saveFailed"
        /\ local'[p] = Become(local[p], "FAILED")
        /\ fabric[Key(local[p])] = "bad"
    BY <1>23 DEF AskBad
  <2>2. /\ local[p].turns = disk.turns /\ Last(disk).state # "PREPARING"
        /\ local[p].turns # <<>>
    BY <2>1 DEF WorkOK, OnTurn, WithTurn, PlaceOK
  <2>3. AllRecorded
    BY <2>1, <2>2, NotPending DEF Key, Last
  <2>4. /\ Last(local'[p]).step = Last(disk).step
        /\ Last(local'[p]).state # "PREPARING"
    <3>1. Last(local[p]) = Last(disk)
      BY <2>2 DEF Last
    <3> QED
      BY <2>1, <2>2, <3>1, Becoming DEF CopiesOK, Unsettled, Settled
  <2> QED
    BY <2>1, <2>2, <2>3, <2>4, WorkWait DEF WorkOK, OnTurn, WithTurn
<1>24. ASSUME AskTools(p) PROVE Goal
  <2>1. /\ disk' = disk /\ fabric' = fabric /\ local'[p] = local[p]
        /\ pc[p] = "ask" /\ pc'[p] = "tools"
        /\ fabric[Key(local[p])] = "tools" /\ Last(local[p]).step < MaxToolSteps
    BY <1>24 DEF AskTools
  <2> QED
    BY <2>1, WorkWait DEF WorkOK, OnTurn, WithTurn, Key, Last
<1>25. ASSUME Tools(p) PROVE Goal
  <2>1. /\ disk' = disk /\ fabric' = fabric /\ local'[p] = FollowUp(local[p])
        /\ pc[p] = "tools" /\ pc'[p] = "followup"
    BY <1>25 DEF Tools
  <2>2. /\ local[p].turns = disk.turns /\ local[p].turns # <<>>
        /\ Last(local[p]).step < MaxToolSteps
    BY <2>1 DEF WorkOK, WithTurn, PlaceOK
  <2>3. Last(local'[p]).step = Last(disk).step + 1
    <3>1. Last(local[p]) = Last(disk)
      BY <2>2 DEF Last
    <3> QED
      BY <2>1, <2>2, <3>1, Following DEF CopiesOK
  <2> QED
    BY <2>1, <2>2, <2>3, WorkWait DEF WorkOK, OnTurn, WithTurn
<1>26. ASSUME Followup(p) PROVE Goal
  <2>1. /\ disk' = disk /\ Accept(Key(local[p])) /\ pc[p] = "followup"
        /\ pc'[p] = "saveSubmit" /\ local'[p] = Become(local[p], "SUBMITTED")
    BY <1>26 DEF Followup
  <2>2. HasCurrent(disk) /\ AllBut(local[p], disk) /\ local[p].turns # <<>>
    BY <2>1 DEF KeptOK, OnTurn, WithTurn, PlaceOK
  <2>3. Key(local[p]) \in Keys
    BY <2>2, Lasts DEF CopiesOK
  <2>4. Key(local[p]) = NextKey(disk)
    BY <2>1, <2>2 DEF WorkOK, WorksInv, Key, NextKey, Last, AllBut, OnTurn, WithTurn
  <2>5. Last(local'[p]) = [state |-> "SUBMITTED", step |-> Last(local[p]).step]
    BY <2>1, <2>2, Becoming DEF CopiesOK, Unsettled
  <2>6. \A j \in Keys : fabric'[j] # fabric[j] => j = NextKey(disk) /\ fabric[j] = "none"
    BY <2>1, <2>3, <2>4, Accepts
  <2>7. Key(disk) \in Keys
    BY <2>2, Lasts DEF HasCurrent, CopiesOK
  <2>8. WorksInv'
    BY <2>1, <2>2, <2>6, <2>7 DEF WorksInv, Pending, WorkOK
  <2> QED
    BY <2>1, <2>4, <2>5, <2>8 DEF WorkOK, Key, OnTurn, WithTurn
<1>27. ASSUME FollowupFails(p) PROVE Goal
  BY <1>27 DEF FollowupFails, Reject
<1>28. ASSUME AskDone(p) PROVE Goal
  <2>1. /\ disk' = disk /\ fabric' = fabric /\ pc[p] = "ask"
        /\ \/ pc'[p] = "saveDone" /\ local'[p] = Become(local[p], "COMPLETED")
           \/ pc'[p] = "raised"
        /\ \/ fabric[Key(local[p])] \in {"text", "empty"}
           \/ Last(local[p]).step >= MaxToolSteps
    BY <1>28 DEF AskDone
  <2>2. /\ local[p].turns = disk.turns /\ Last(disk).state # "PREPARING"
        /\ local[p].turns # <<>>
    BY <2>1 DEF WorkOK, OnTurn, WithTurn, PlaceOK
  <2>3. Last(disk).step \in Nat
    BY <2>2, Lasts, BoundsAssumption DEF CopiesOK, Turn
  <2>4. AllRecorded
    BY <2>1, <2>2, <2>3, NotPending, BoundsAssumption DEF Key, Last
  <2>5. pc'[p] = "saveDone" =>
           /\ Last(local'[p]).step = Last(disk).step
           /\ Last(local'[p]).state # "PREPARING"
    <3>1. Last(local[p]) = Last(disk)
      BY <2>2 DEF Last
    <3> QED
      BY <2>1, <2>2, <3>1, Becoming DEF CopiesOK, Unsettled, Settled
  <2> QED
    BY <2>1, <2>2, <2>4, <2>5, WorkWait DEF WorkOK, OnTurn, WithTurn
<1>29. ASSUME SaveDone(p) PROVE Goal
  <2>1. /\ disk' = Merged(local[p]) /\ local'[p] = disk' /\ fabric' = fabric
        /\ pc[p] = "saveDone" /\ pc'[p] = "loop"
    BY <1>29 DEF SaveDone
  <2>2. /\ Last(local[p]).state # "PREPARING"
        /\ Last(local[p]).step = Last(disk).step /\ AllRecorded
    BY <2>1 DEF WorkOK
  <2>3. Last(disk).step \in Nat
    BY <2>1, Lasts, BoundsAssumption DEF KeptOK, HasCurrent, OnTurn, WithTurn, CopiesOK, Turn
  <2>4. /\ AllRecorded' /\ WorksInv' /\ local'[p].turns = disk'.turns
        /\ Last(disk').state # "PREPARING"
    BY <2>1, <2>2, <2>3, WorkSaved DEF AllRecorded, OnTurn, WithTurn
  <2> QED
    BY <2>1, <2>4 DEF WorkOK, OnTurn, WithTurn
<1>30. ASSUME SaveFailed(p) PROVE Goal
  <2>1. /\ disk' = Merged(local[p]) /\ local'[p] = disk' /\ fabric' = fabric
        /\ pc[p] = "saveFailed" /\ pc'[p] = "afterFailed"
    BY <1>30 DEF SaveFailed
  <2>2. /\ Last(local[p]).state # "PREPARING"
        /\ Last(local[p]).step = Last(disk).step /\ AllRecorded
    BY <2>1 DEF WorkOK
  <2>3. Last(disk).step \in Nat
    BY <2>1, Lasts, BoundsAssumption DEF KeptOK, HasCurrent, OnTurn, WithTurn, CopiesOK, Turn
  <2>4. /\ AllRecorded' /\ WorksInv' /\ local'[p].turns = disk'.turns
        /\ Last(disk').state # "PREPARING"
    BY <2>1, <2>2, <2>3, WorkSaved DEF AllRecorded, OnTurn, WithTurn
  <2> QED
    BY <2>1, <2>4 DEF WorkOK, OnTurn, WithTurn
<1>31. ASSUME SaveStopped(p) PROVE Goal
  <2>1. pc'[p] \notin OnTurn /\ fabric' = fabric /\ (disk' = disk \/ pc[p] \in Saving)
    BY <1>31 DEF SaveStopped, Save, OnTurn, WithTurn, Saving
  <2> QED
    BY <1>31, <2>1, Writing, Merging, WorkAway DEF Coordinate, KeptOK, CopiesOK
<1>32. ASSUME AfterFailed(p) PROVE Goal
  <2>1. pc'[p] \notin OnTurn /\ fabric' = fabric /\ (disk' = disk \/ pc[p] \in Saving)
    BY <1>32 DEF AfterFailed, OnTurn, WithTurn, Saving
  <2> QED
    BY <1>32, <2>1, Writing, Merging, WorkAway DEF Coordinate, KeptOK, CopiesOK
<1>33. ASSUME SaveTerminal(p) PROVE Goal
  <2>1. pc'[p] \notin OnTurn /\ fabric' = fabric /\ (disk' = disk \/ pc[p] \in Saving)
    BY <1>33 DEF SaveTerminal, Save, OnTurn, WithTurn, Saving
  <2> QED
    BY <1>33, <2>1, Writing, Merging, WorkAway DEF Coordinate, KeptOK, CopiesOK
<1>34. ASSUME Finally(p) PROVE Goal
  <2>1. pc'[p] \notin OnTurn /\ fabric' = fabric /\ (disk' = disk \/ pc[p] \in Saving)
    BY <1>34 DEF Finally, OnTurn, WithTurn, Saving
  <2> QED
    BY <1>34, <2>1, Writing, Merging, WorkAway DEF Coordinate, KeptOK, CopiesOK
<1>35. ASSUME Teardown(p) PROVE Goal
  <2>1. pc'[p] \notin OnTurn /\ fabric' = fabric /\ (disk' = disk \/ pc[p] \in Saving)
    BY <1>35 DEF Teardown, OnTurn, WithTurn, Saving
  <2> QED
    BY <1>35, <2>1, Writing, Merging, WorkAway DEF Coordinate, KeptOK, CopiesOK
<1>36. ASSUME SaveTeardown(p) PROVE Goal
  <2>1. pc'[p] \notin OnTurn /\ fabric' = fabric /\ (disk' = disk \/ pc[p] \in Saving)
    BY <1>36 DEF SaveTeardown, Save, OnTurn, WithTurn, Saving
  <2> QED
    BY <1>36, <2>1, Writing, Merging, WorkAway DEF Coordinate, KeptOK, CopiesOK
<1>37. ASSUME Release(p) PROVE Goal
  <2>1. pc'[p] \notin OnTurn /\ fabric' = fabric /\ (disk' = disk \/ pc[p] \in Saving)
    BY <1>37 DEF Release, Forget, OnTurn, WithTurn, Saving
  <2> QED
    BY <1>37, <2>1, Writing, Merging, WorkAway DEF Coordinate, KeptOK, CopiesOK
<1>38. ASSUME Handle(p) PROVE Goal
  <2>1. pc'[p] \notin OnTurn /\ fabric' = fabric /\ (disk' = disk \/ pc[p] \in Saving)
    BY <1>38 DEF Handle, OnTurn, WithTurn, Saving
  <2> QED
    BY <1>38, <2>1, Writing, Merging, WorkAway DEF Coordinate, KeptOK, CopiesOK
<1>39. ASSUME SaveError(p) PROVE Goal
  <2>1. pc'[p] \notin OnTurn /\ fabric' = fabric /\ (disk' = disk \/ pc[p] \in Saving)
    BY <1>39 DEF SaveError, OnTurn, WithTurn, Saving
  <2> QED
    BY <1>39, <2>1, Writing, Merging, WorkAway DEF Coordinate, KeptOK, CopiesOK
<1>40. ASSUME GiveUp(p) PROVE Goal
  <2>1. pc'[p] \notin OnTurn /\ fabric' = fabric /\ (disk' = disk \/ pc[p] \in Saving)
    BY <1>40 DEF GiveUp, Forget, OnTurn, WithTurn, Saving
  <2> QED
    BY <1>40, <2>1, Writing, Merging, WorkAway DEF Coordinate, KeptOK, CopiesOK
<1>41. ASSUME Raise(p) PROVE Goal
  BY <1>41 DEF Raise, Raises
<1>42. ASSUME Crash(p) PROVE Goal
  <2>1. pc'[p] \notin OnTurn /\ fabric' = fabric /\ (disk' = disk \/ pc[p] \in Saving)
    BY <1>42 DEF Crash, Forget, OnTurn, WithTurn, Saving
  <2> QED
    BY <1>42, <2>1, Writing, Merging, WorkAway DEF KeptOK, CopiesOK
<1>43. ASSUME Restart(p) PROVE Goal
  <2>1. pc'[p] \notin OnTurn /\ fabric' = fabric /\ (disk' = disk \/ pc[p] \in Saving)
    BY <1>43 DEF Restart, OnTurn, WithTurn, Saving
  <2> QED
    BY <1>43, <2>1, Writing, Merging, WorkAway DEF KeptOK, CopiesOK
<1> QED
  BY <1>1, <1>2, <1>3, <1>4, <1>5, <1>6, <1>7, <1>8, <1>9, <1>10, <1>11,
     <1>12, <1>13, <1>14, <1>15, <1>16, <1>17, <1>18, <1>19, <1>20, <1>21,
     <1>22, <1>23, <1>24, <1>25, <1>26, <1>27, <1>28, <1>29, <1>30, <1>31,
     <1>32, <1>33, <1>34, <1>35, <1>36, <1>37, <1>38, <1>39, <1>40, <1>41,
     <1>42, <1>43 DEF Coordinate

AtWork == WorksInv /\ \A p \in Procs : WorkOK(p)

LEMMA WorkInit == Init => AtWork
<1> SUFFICES ASSUME Init PROVE AtWork
  OBVIOUS
<1>1. WorksInv
  BY Fresh DEF Init, WorksInv, HasCurrent
<1>2. ASSUME NEW p \in Procs PROVE WorkOK(p)
  <2>1. pc[p] \in Outside
    BY DEF Init, Outside
  <2> QED
    BY <2>1 DEF WorkOK, Outside, OnTurn, WithTurn
<1> QED
  BY <1>1, <1>2 DEF AtWork

LEMMA WorkStep ==
    ASSUME Stops = {}, SubmitFaults = {}, "call" \notin RuntimeFaults,
           Typed, TurnsInv, AtWork, [Next]_vars
    PROVE  AtWork'
<1>1. ASSUME NEW p \in Procs, Coordinate(p) \/ Crash(p) \/ Restart(p) PROVE AtWork'
  <2>1. WorksInv' /\ WorkOK(p)' /\ Alone(p)
    BY <1>1, WorkMove, Moving DEF AtWork, TurnsInv, Typed
  <2>2. ASSUME NEW q \in Procs \ {p} PROVE WorkOK(q)'
    <3>1. CASE disk' = disk /\ fabric' = fabric
      BY <2>1, <3>1 DEF AtWork, WorkOK, Alone, AllRecorded
    <3>2. CASE disk' # disk \/ fabric' # fabric
      <4>1. pc[p] \notin Outside
        BY <1>1, <3>2, Writing, Submitting DEF Outside, Saving, OnTurn, WithTurn
      <4>2. pc'[q] \in Outside
        BY <2>1, <4>1, Apart DEF Alone, Typed
      <4> QED
        BY <4>2 DEF WorkOK, Outside, OnTurn, WithTurn
    <3> QED
      BY <3>1, <3>2
  <2> QED
    BY <2>1, <2>2 DEF AtWork
<1>2. ASSUME NEW k \in Keys, Work(k) PROVE AtWork'
  <2>1. /\ UNCHANGED <<disk, pc, local>>
        /\ \A j \in Keys : /\ fabric'[j] # "none" => fabric[j] # "none"
                           /\ fabric[j] = "tools" => fabric'[j] = "tools"
    BY <1>2 DEF Work, coordVars, Typed, WorldOK
  <2>2. HasCurrent(disk) => Key(disk) \in Keys
    BY Lasts DEF Typed, CopiesOK, HasCurrent
  <2>3. WorksInv'
    BY <2>1, <2>2 DEF AtWork, WorksInv, Pending
  <2>4. ASSUME NEW p \in Procs PROVE WorkOK(p)'
    <3>1. pc[p] \in OnTurn => HasCurrent(disk)
      BY DEF TurnsInv, KeptOK
    <3>2. WorkOK(p)
      BY DEF AtWork
    <3> QED
      BY <2>1, <2>2, <3>1, <3>2 DEF WorkOK, AllRecorded, OnTurn, WithTurn
  <2> QED
    BY <2>3, <2>4 DEF AtWork
<1>3. ASSUME UNCHANGED <<disk, pc, local, fabric>> PROVE AtWork'
  BY <1>3 DEF AtWork, WorksInv, WorkOK, AllRecorded, Pending
<1> QED
  BY <1>1, <1>2, <1>3 DEF Next, Deadline, vars, coordVars, worksVars, worldVars

(* As long as Fabric answers submissions and the runtime's calls do not    *)
(* fail, no crash, at any step of any coordinator, and no other process    *)
(* that takes over orphans a work that Fabric accepted: it is on record,   *)
(* or the next submission repeats its idempotency key.                     *)
THEOREM ThmNoOrphanedWork ==
    ASSUME Stops = {}, SubmitFaults = {}, "call" \notin RuntimeFaults
    PROVE  Spec => []NoOrphanedWork
<1>1. Init => Typed /\ TurnsInv /\ AtWork
  BY TypedInit, TurnsInit, WorkInit
<1>2. Typed /\ TurnsInv /\ AtWork /\ [Next]_vars => (Typed /\ TurnsInv /\ AtWork)'
  BY TypedStep, TurnsStep, WorkStep
<1>3. Typed /\ AtWork => NoOrphanedWork
  BY TypedMeans DEF NoOrphanedWork, AtWork, WorksInv, Pending, HasCurrent
<1> QED
  BY <1>1, <1>2, <1>3, PTL DEF Spec
=============================================================================
