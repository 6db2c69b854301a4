------------------------ MODULE ExternalWork_proofs ------------------------
(***************************************************************************)
(* What is proved of the work that leaves the runtime: PC jobs             *)
(* (PCJobs), coordination commands (CoordinationCommands) and invocations  *)
(* of a model provider (InferenceBoundary).                                *)
(***************************************************************************)
EXTENDS PCJobs, CoordinationCommands, InferenceBoundary, FiniteSetTheorems, TLAPS

----------------------------------------------------------------------------
(* PC jobs: the inductive invariant.                                       *)

ExecSteps == {"idle", "assess", "claim", "prepare", "reserve", "dispatch", "running", "record",
              "raised", "recover", "cancel", "abandon"}

ExecRecord == [step : ExecSteps, a : JobAttempts \cup {0}, seen : JournalStates]

RowStates == RowSuccess \cup RowAmbiguous
             \cup {"ABSENT", "RESERVED", "RECONCILED_NO_EFFECT", "CANCELLED_PRE_DISPATCH"}

\* Rows whose effect was never claimed.
RowUnclaimed == {"ABSENT", "RESERVED", "CANCELLED_PRE_DISPATCH"}

\* PCTypeOK, with what the executors hold.
PCTyped ==
    /\ effectClass \in {"READ", "WRITE"}
    /\ pcJob \in JobStates
    /\ pcAttempt \in [JobAttempts -> AttemptStates]
    /\ pcCancel \in {"NONE", "REQUESTED", "OBSERVED", "STOPPING", "ACKNOWLEDGED"}
    /\ leased \in BOOLEAN /\ inWindow \in BOOLEAN
    /\ pcJournal \in [JobAttempts -> JournalStates]
    /\ pcRow \in RowStates
    /\ pcRuns \in [JobAttempts -> Nat]
    /\ pcExec \in [Executors -> ExecRecord]

\* A claimed row is the only way to the machine for a READ operation, an
\* attempt past its start the only way for a WRITE operation.
RunsInv ==
    /\ \A a \in JobAttempts : pcRuns[a] <= 1
    /\ effectClass = "READ" =>
           /\ \A a, b \in JobAttempts : pcRuns[a] > 0 /\ pcRuns[b] > 0 => a = b
           /\ pcRow \in RowUnclaimed => \A a \in JobAttempts : pcRuns[a] = 0
           /\ pcRow \notin RowUnclaimed => \E a \in JobAttempts : pcRuns[a] = 1
    /\ effectClass = "WRITE" =>
           \A a \in JobAttempts :
               pcJournal[a] \in {"NONE", "CLAIMED", "PREPARING"} => pcRuns[a] = 0

\* What a call has reached so far.
ExecInv ==
    \A x \in Executors :
        LET c == pcExec[x] IN
        /\ c.step # "idle" => effectClass = "READ" /\ c.a \in JobAttempts
        /\ c.step = "running" => pcRuns[c.a] = 1 /\ pcRow \notin RowUnclaimed
        /\ c.step = "record" => pcRuns[c.a] = 1 /\ pcRow = "COMMITTED"
        /\ c.step = "abandon" => pcRow = "CANCELLED_PRE_DISPATCH"

\* The server's job is in the hands of an attempt.
ClaimedInv == pcJob \in {"CLAIMED", "RUNNING"} => \E a \in JobAttempts : pcAttempt[a] # "NONE"

PCInv == PCTyped /\ RunsInv /\ ExecInv /\ ClaimedInv /\ AttemptTruthful

\* A job that some attempt has claimed has a newest attempt, one of those the
\* envelope allows.
LEMMA NewestInRange ==
    ASSUME \E a \in JobAttempts : pcAttempt[a] # "NONE"
    PROVE  NewestAttempt \in JobAttempts
<1> DEFINE S == {a \in JobAttempts : pcAttempt[a] # "NONE"}
<1>1. MaxAttempts \in Nat
  BY PCJobsAssumption
<1>2. IsFiniteSet(JobAttempts) /\ Cardinality(JobAttempts) = MaxAttempts
  BY <1>1, FS_Interval DEF JobAttempts
<1>3. IsFiniteSet(S) /\ Cardinality(S) <= MaxAttempts
  BY <1>2, FS_Subset
<1>4. Cardinality(S) \in Nat /\ Cardinality(S) # 0
  BY <1>3, FS_CardinalityType, FS_EmptySet
<1> QED
  BY <1>1, <1>3, <1>4 DEF NewestAttempt, JobAttempts

\* The number of attempts, when none has been claimed yet too.
LEMMA NewestBounded == NewestAttempt \in Nat
<1>1. IsFiniteSet(JobAttempts)
  BY PCJobsAssumption, FS_Interval DEF JobAttempts
<1>2. IsFiniteSet({a \in JobAttempts : pcAttempt[a] # "NONE"})
  BY <1>1, FS_Subset
<1> QED
  BY <1>2, FS_CardinalityType DEF NewestAttempt

\* What transition_job returns is a job state or a refusal.
LEMMA TransitionJobType ==
    ASSUME pcJob \in JobStates, NEW e \in JobEvents, NEW g
    PROVE  TransitionJob(pcJob, e, g) \in JobStates \cup {Illegal}
BY DEF TransitionJob, Direct, Leased, Retried, Recovered, Ended, BusyJobStates, JobStates,
       JobEvents, TerminalJobStates, Illegal

\* transition_attempt keeps to the attempt states and forgets no attempt.
LEMMA TransitionAttemptType ==
    ASSUME NEW s \in AttemptStates, NEW e
    PROVE  /\ TransitionAttempt(s, e) \in AttemptStates
           /\ s # "NONE" => TransitionAttempt(s, e) # "NONE"
BY DEF TransitionAttempt, AttemptStates

\* Which events lead to success, and which leave a job with an attempt.
LEMMA TransitionJobSources ==
    ASSUME pcJob \in JobStates \ TerminalJobStates, NEW e \in JobEvents, NEW g
    PROVE  /\ TransitionJob(pcJob, e, g) = "SUCCEEDED" =>
                  e = "COMPLETE" \/ (e = "RECOVER_SUCCESS" /\ g.effect = "CONFIRMED")
           /\ TransitionJob(pcJob, e, g) \in {"CLAIMED", "RUNNING"} =>
                  e = "CLAIM" \/ pcJob \in {"CLAIMED", "RUNNING"}
           /\ e = "COMPLETE" /\ TransitionJob(pcJob, e, g) # Illegal => pcJob = "RUNNING"
BY DEF TransitionJob, Direct, Leased, Retried, Recovered, Ended, BusyJobStates, JobStates,
       JobEvents, TerminalJobStates, Illegal

\* What may truly be said of an effect: CONFIRMED only when an attempt ran.
LEMMA ConfirmedRan ==
    ASSUME PCInv, "CONFIRMED" \in EffectStatus
    PROVE  \E a \in JobAttempts : pcRuns[a] = 1
<1>1. CASE effectClass = "READ"
  <2>1. pcRow \in RowSuccess
    BY <1>1 DEF EffectStatus
  <2> QED
    BY <1>1, <2>1 DEF PCInv, RunsInv, RowSuccess, RowUnclaimed
<1>2. CASE effectClass = "WRITE"
  <2>1. \E a \in JobAttempts : pcJournal[a] \in HasResult
    BY <1>2 DEF EffectStatus
  <2> QED
    BY <2>1 DEF PCInv, AttemptTruthful, ResultBacked
<1> QED
  BY <1>1, <1>2 DEF PCInv, PCTyped

\* A step of the server: transition_job and transition_attempt.
LEMMA ServerAppliesStep ==
    ASSUME PCInv, NEW e \in JobEvents, ServerApplies(e)
    PROVE  PCInv'
<1>1. PICK effect \in EffectStatus :
          LET next == TransitionJob(pcJob, e, Guards(effect)) IN
          /\ next # Illegal
          /\ e = "COMPLETE" => pcJournal[NewestAttempt] = "COMPLETING"
          /\ e = "CLAIM" => NewestAttempt < MaxAttempts
          /\ pcJob' = next
          /\ pcAttempt' = IF e = "CLAIM" THEN [pcAttempt EXCEPT ![NewestAttempt + 1] = "CLAIMED"]
                         ELSE IF NewestAttempt = 0 THEN pcAttempt
                         ELSE [pcAttempt EXCEPT ![NewestAttempt] = TransitionAttempt(@, e)]
          /\ leased' = (e = "CLAIM" \/ (leased /\ next \in {"CLAIMED", "RUNNING"}))
          /\ pcCancel' = IF e = "REQUEST_CANCEL" /\ pcCancel = "NONE" THEN "REQUESTED" ELSE pcCancel
  BY DEF ServerApplies
<1>2. pcJob \in JobStates \ TerminalJobStates
  BY DEF ServerApplies, PCInv, PCTyped
<1> DEFINE g == Guards(effect)
           next == TransitionJob(pcJob, e, g)
<1>3. next \in JobStates
  BY <1>1, <1>2, TransitionJobType
<1>4. /\ next = "SUCCEEDED" => e = "COMPLETE" \/ effect = "CONFIRMED"
      /\ next \in {"CLAIMED", "RUNNING"} => e = "CLAIM" \/ pcJob \in {"CLAIMED", "RUNNING"}
      /\ e = "COMPLETE" => pcJob = "RUNNING"
  <2>1. g.effect = effect
    BY DEF Guards
  <2> HIDE DEF g
  <2> QED
    BY <1>1, <1>2, <2>1, TransitionJobSources
<1> HIDE DEF next
<1>5. pcAttempt \in [JobAttempts -> AttemptStates]
  BY DEF PCInv, PCTyped
<1>6. /\ pcAttempt' \in [JobAttempts -> AttemptStates]
      /\ \A a \in JobAttempts : pcAttempt[a] # "NONE" => pcAttempt'[a] # "NONE"
  <2>1. CASE e = "CLAIM"
    BY <1>1, <1>5, <2>1 DEF AttemptStates
  <2>2. CASE e # "CLAIM" /\ NewestAttempt = 0
    BY <1>1, <1>5, <2>2
  <2>3. CASE e # "CLAIM" /\ NewestAttempt # 0
    <3>1. pcAttempt' = [pcAttempt EXCEPT ![NewestAttempt] = TransitionAttempt(pcAttempt[NewestAttempt], e)]
      BY <1>1, <2>3
    <3>2. CASE NewestAttempt \in JobAttempts
      <4> DEFINE s == pcAttempt[NewestAttempt]
                 t == TransitionAttempt(s, e)
      <4>1. s \in AttemptStates
        BY <1>5, <3>2
      <4>2. t \in AttemptStates /\ (s # "NONE" => t # "NONE")
        BY <4>1, TransitionAttemptType
      <4>3. pcAttempt' = [pcAttempt EXCEPT ![NewestAttempt] = t]
        BY <3>1
      <4> HIDE DEF t
      <4> QED
        BY <1>5, <3>2, <4>2, <4>3
    <3>3. CASE NewestAttempt \notin JobAttempts
      BY <1>5, <3>1, <3>3
    <3> QED
      BY <3>2, <3>3
  <2> QED
    BY <2>1, <2>2, <2>3
<1>7. UNCHANGED <<effectClass, inWindow, pcJournal, pcRow, pcRuns, pcExec>>
  BY DEF ServerApplies
<1>8. PCTyped'
  <2>1. leased' \in BOOLEAN
    BY <1>1
  <2>2. pcCancel' \in {"NONE", "REQUESTED", "OBSERVED", "STOPPING", "ACKNOWLEDGED"}
    BY <1>1 DEF PCInv, PCTyped
  <2>3. pcJob' \in JobStates
    BY <1>1, <1>3 DEF next
  <2> QED
    BY <1>6, <1>7, <2>1, <2>2, <2>3 DEF PCInv, PCTyped
<1>9. RunsInv' /\ ExecInv'
  BY <1>7 DEF PCInv, RunsInv, ExecInv
<1>10. ClaimedInv'
  <2>1. ASSUME e = "CLAIM" PROVE \E a \in JobAttempts : pcAttempt'[a] # "NONE"
    BY <1>1, <1>5, <2>1, NewestBounded, PCJobsAssumption DEF JobAttempts
  <2> QED
    BY <1>1, <1>4, <1>6, <2>1 DEF PCInv, ClaimedInv, next
<1>11. AttemptTruthful'
  <2>1. ASSUME pcJob' = "SUCCEEDED" PROVE \E a \in JobAttempts : pcRuns[a] = 1
    <3>1. CASE e = "COMPLETE"
      <4>1. NewestAttempt \in JobAttempts
        BY <1>4, <3>1, NewestInRange DEF PCInv, ClaimedInv
      <4> QED
        BY <1>1, <3>1, <4>1 DEF PCInv, AttemptTruthful, ResultBacked, HasResult
    <3>2. CASE effect = "CONFIRMED"
      BY <3>2, ConfirmedRan
    <3> QED
      BY <1>1, <1>4, <2>1, <3>1, <3>2 DEF next
  <2> QED
    BY <1>7, <2>1 DEF PCInv, AttemptTruthful, ResultBacked, AbandonedNeverRan
<1> QED
  BY <1>8, <1>9, <1>10, <1>11 DEF PCInv

\* An assessment sends the call to one of five places.
LEMMA AssessedType ==
    ASSUME NEW seen
    PROVE  Assessed(seen) \in {"idle", "claim", "prepare", "reserve", "recover"}
BY DEF Assessed

\* Every step of execute() and cancel_reserved_attempt, and the death of the
\* process in between.
LEMMA ExecutorStep ==
    ASSUME PCInv, NEW x \in Executors,
           \/ \E a \in JobAttempts : ExecuteBegin(x, a) \/ CancelReservedBegin(x, a)
           \/ ExecuteAssess(x) \/ ExecuteRecover(x) \/ ExecuteClaim(x) \/ ExecutePrepare(x)
           \/ ExecuteReserve(x) \/ ExecuteDispatch(x) \/ ExecuteRaised(x) \/ ExecuteRecord(x)
           \/ \E known \in BOOLEAN : ExecuteSettle(x, known)
           \/ CancelFence(x) \/ CancelAbandon(x) \/ ExecutorDies(x)
    PROVE  PCInv'
<1> USE DEF PCInv, PCTyped, RunsInv, ExecInv, ClaimedInv, AttemptTruthful, ResultBacked,
        AbandonedNeverRan, ExecRecord, ExecSteps, RowStates, RowUnclaimed, RowSuccess,
        RowAmbiguous, HasResult, JournalStates, JournalTerminal, ExecIdle, serverVars
<1>1. ASSUME NEW a \in JobAttempts, ExecuteBegin(x, a) PROVE PCInv'
  BY <1>1 DEF ExecuteBegin
<1>2. ASSUME NEW a \in JobAttempts, CancelReservedBegin(x, a) PROVE PCInv'
  BY <1>2 DEF CancelReservedBegin
<1>3. CASE ExecuteAssess(x)
  <2> DEFINE to == Assessed(pcExec[x].seen)
  <2>1. to \in {"idle", "claim", "prepare", "reserve", "recover"}
    BY AssessedType
  <2>2. pcExec[x].step = "assess" /\ (IF to = "idle" THEN ExecReturn(x) ELSE ExecStep(x, to))
    BY <1>3 DEF ExecuteAssess
  <2>3. UNCHANGED <<effectClass, serverVars, inWindow, pcJournal, pcRow, pcRuns>>
    BY <1>3 DEF ExecuteAssess
  <2> HIDE DEF to
  <2> QED
    BY <2>1, <2>2, <2>3 DEF ExecReturn, ExecStep
<1>4. CASE ExecuteRecover(x)
  BY <1>4 DEF ExecuteRecover, ExecReturn, TryRequireRecovery, RecoverableStates
<1>5. CASE ExecuteClaim(x)
  BY <1>5 DEF ExecuteClaim, ExecStep
<1>6. CASE ExecutePrepare(x)
  <2>1. CASE pcJournal[pcExec[x].a] = "CLAIMED"
    <3> DEFINE a == pcExec[x].a
    <3>1. /\ a \in JobAttempts
          /\ pcJournal' = [pcJournal EXCEPT ![a] = "PREPARING"]
          /\ pcExec' = [pcExec EXCEPT ![x] = [step |-> "reserve", a |-> a, seen |-> "NONE"]]
          /\ UNCHANGED <<effectClass, serverVars, inWindow, pcRow, pcRuns>>
      BY <1>6, <2>1 DEF ExecutePrepare, ExecStep, JournalTo
    <3>2. pcJournal[a] = "CLAIMED"
      BY <2>1
    <3> HIDE DEF a
    <3>3. PCTyped' /\ ClaimedInv'
      BY <3>1
    <3>4. /\ pcJournal'[a] = "PREPARING" /\ \A b \in JobAttempts \ {a} : pcJournal'[b] = pcJournal[b]
          /\ pcExec'[x].step = "reserve" /\ pcExec'[x].a = a
          /\ \A y \in Executors \ {x} : pcExec'[y] = pcExec[y]
      BY <3>1
    <3>5. RunsInv'
      BY <3>1, <3>2, <3>4
    <3>6. ExecInv'
      BY <3>1, <3>4, <1>6 DEF ExecutePrepare
    <3>7. AttemptTruthful'
      BY <3>1, <3>4
    <3> QED
      BY <3>3, <3>5, <3>6, <3>7
  <2>2. CASE pcJournal[pcExec[x].a] # "CLAIMED"
    <3>1. /\ pcExec' = [pcExec EXCEPT ![x] = ExecIdle]
          /\ UNCHANGED <<effectClass, serverVars, inWindow, pcJournal, pcRow, pcRuns>>
      BY <1>6, <2>2 DEF ExecutePrepare, ExecReturn
    <3> QED
      BY <3>1
  <2> QED
    BY <2>1, <2>2
<1>7. CASE ExecuteReserve(x)
  BY <1>7 DEF ExecuteReserve, ExecStep
<1>8. CASE ExecuteDispatch(x)
  BY <1>8 DEF ExecuteDispatch, ExecStep, Claimable
<1>9. CASE ExecuteRaised(x)
  BY <1>9 DEF ExecuteRaised, ExecReturn, TryRequireRecovery, RecoverableStates
<1>10. CASE ExecuteRecord(x)
  BY <1>10 DEF ExecuteRecord, ExecReturn, JournalTo
<1>11. ASSUME NEW known \in BOOLEAN, ExecuteSettle(x, known) PROVE PCInv'
  BY <1>11 DEF ExecuteSettle, ExecStep
<1>12. CASE CancelFence(x)
  BY <1>12 DEF CancelFence, ExecStep, ExecReturn
<1>13. CASE CancelAbandon(x)
  BY <1>13 DEF CancelAbandon, ExecReturn
<1>14. CASE ExecutorDies(x)
  BY <1>14 DEF ExecutorDies, ExecReturn
<1> QED
  BY <1>1, <1>2, <1>3, <1>4, <1>5, <1>6, <1>7, <1>8, <1>9, <1>10, <1>11, <1>12, <1>13, <1>14

\* The rest of the world: the host agent, completion, reconciliation by an
\* operator, and what the server does beside transition_job.
LEMMA SurroundingStep ==
    ASSUME PCInv,
           \/ ServerPreparing \/ ServerCancellation \/ WindowCloses
           \/ \E occurred \in BOOLEAN : ReconcileRow(occurred)
           \/ \E a \in JobAttempts :
                  \/ SubmitCompletion(a) \/ ConfirmTerminalReadback(a)
                  \/ HostClaims(a) \/ HostPrepares(a) \/ HostStarts(a) \/ HostRecords(a)
                  \/ HostRestarts(a) \/ HostAbandons(a)
    PROVE  PCInv'
<1> USE DEF PCInv, PCTyped, RunsInv, ExecInv, ClaimedInv, AttemptTruthful, ResultBacked,
        AbandonedNeverRan, ExecRecord, ExecSteps, RowStates, RowUnclaimed, RowSuccess,
        RowAmbiguous, HasResult, JournalStates, JournalTerminal, serverVars, HostQuiet, JournalTo
<1>1. CASE ServerPreparing
  <2>1. pcAttempt' = [pcAttempt EXCEPT ![NewestAttempt] = "STARTING"]
    BY <1>1 DEF ServerPreparing
  <2>2. pcAttempt' \in [JobAttempts -> AttemptStates]
    BY <2>1 DEF AttemptStates
  <2>3. \A a \in JobAttempts : pcAttempt[a] # "NONE" => pcAttempt'[a] # "NONE"
    BY <2>1
  <2>4. UNCHANGED <<effectClass, pcJob, pcCancel, leased, inWindow, pcJournal, pcRow, pcRuns, pcExec>>
    BY <1>1 DEF ServerPreparing
  <2>5. ClaimedInv'
    BY <2>3, <2>4
  <2> QED
    BY <2>2, <2>4, <2>5
<1>2. CASE ServerCancellation
  <2>1. CancellationNext(pcCancel) \subseteq {"REQUESTED", "OBSERVED", "STOPPING", "ACKNOWLEDGED"}
    BY DEF CancellationNext
  <2> QED
    BY <1>2, <2>1 DEF ServerCancellation
<1>3. CASE WindowCloses
  <2>1. inWindow' \in BOOLEAN
    BY <1>3 DEF WindowCloses
  <2>2. UNCHANGED <<effectClass, pcJob, pcAttempt, pcCancel, leased, pcJournal, pcRow, pcRuns, pcExec>>
    BY <1>3 DEF WindowCloses
  <2> QED
    BY <2>1, <2>2
<1>4. ASSUME NEW occurred \in BOOLEAN, ReconcileRow(occurred) PROVE PCInv'
  BY <1>4 DEF ReconcileRow
<1>5. ASSUME NEW a \in JobAttempts,
             SubmitCompletion(a) \/ ConfirmTerminalReadback(a)
      PROVE  PCInv'
  <2>1. CASE SubmitCompletion(a)
    BY <2>1 DEF SubmitCompletion
  <2>2. CASE ConfirmTerminalReadback(a)
    BY <2>2 DEF ConfirmTerminalReadback
  <2> QED
    BY <1>5, <2>1, <2>2
<1>6. ASSUME NEW a \in JobAttempts, HostClaims(a) \/ HostPrepares(a) PROVE PCInv'
  <2>1. CASE HostClaims(a)
    BY <2>1 DEF HostClaims
  <2>2. CASE HostPrepares(a)
    BY <2>2 DEF HostPrepares
  <2> QED
    BY <1>6, <2>1, <2>2
<1>7. ASSUME NEW a \in JobAttempts, HostStarts(a) PROVE PCInv'
  BY <1>7 DEF HostStarts, StartableStates
<1>8. ASSUME NEW a \in JobAttempts, HostRecords(a) PROVE PCInv'
  BY <1>8 DEF HostRecords
<1>9. ASSUME NEW a \in JobAttempts, HostRestarts(a) \/ HostAbandons(a) PROVE PCInv'
  <2>1. CASE HostRestarts(a)
    BY <2>1 DEF HostRestarts, RecoverableStates
  <2>2. CASE HostAbandons(a)
    BY <2>2 DEF HostAbandons
  <2> QED
    BY <1>9, <2>1, <2>2
<1> QED
  BY <1>1, <1>2, <1>3, <1>4, <1>5, <1>6, <1>7, <1>8, <1>9

\* The invariant holds of every PC job, for any executors and any max_attempts.
LEMMA PCInductive == PCSpec => []PCInv
<1>1. PCInit => PCInv
  <2> SUFFICES ASSUME PCInit PROVE PCInv
    OBVIOUS
  <2>1. leased \in BOOLEAN /\ inWindow \in BOOLEAN
    BY DEF PCInit
  <2>2. \A x \in Executors : pcExec[x] = ExecIdle
    BY DEF PCInit
  <2>3. pcExec \in [Executors -> ExecRecord]
    BY DEF PCInit, ExecRecord, ExecSteps, ExecIdle, JournalStates
  <2> QED
    BY <2>1, <2>2, <2>3
  DEF PCInit, PCInv, PCTyped, RunsInv, ExecInv, ClaimedInv, AttemptTruthful, ResultBacked,
      AbandonedNeverRan, ExecRecord, ExecSteps, RowStates, RowUnclaimed, RowSuccess, RowAmbiguous,
      HasResult, JournalStates, ExecIdle, AttemptStates, JobStates
<1>2. PCInv /\ [PCNext]_pcVars => PCInv'
  <2> SUFFICES ASSUME PCInv, [PCNext]_pcVars PROVE PCInv'
    OBVIOUS
  <2>1. CASE UNCHANGED pcVars
    BY <2>1 DEF pcVars, serverVars, PCInv, PCTyped, RunsInv, ExecInv, ClaimedInv, AttemptTruthful,
                ResultBacked, AbandonedNeverRan
  <2>2. CASE PCNext
    BY <2>2, ServerAppliesStep, ExecutorStep, SurroundingStep DEF PCNext
  <2> QED
    BY <2>1, <2>2
<1> QED
  BY <1>1, <1>2, PTL DEF PCSpec

\* Every row of the attempt journal, the fence and the server keeps its type
\* (journal.py, state_machine.py).
THEOREM PCTypeCorrect == PCSpec => []PCTypeOK
<1>1. PCInv => PCTypeOK
  BY DEF PCInv, PCTyped, PCTypeOK, ExecRecord, RowStates
<1> QED
  BY <1>1, PCInductive, PTL

\* A PC job reaches the machine at most once: over all attempts through the
\* adapter (one fence row per envelope, qualified_pc.py), and per attempt
\* through a host handler (journal.py), for any number of executors.
THEOREM PCRunsOnce == PCSpec => []RunsOnce
<1>1. PCInv => RunsOnce
  BY DEF PCInv, RunsInv, RunsOnce
<1> QED
  BY <1>1, PCInductive, PTL

\* What the attempt journal reports of an attempt is what happened to it: a
\* result is backed by a run and a committed row, an abandoned attempt never
\* ran (journal.py, qualified_pc.py).
THEOREM PCAttemptTruthful == PCSpec => []AttemptTruthful
<1>1. PCInv => AttemptTruthful
  BY DEF PCInv
<1> QED
  BY <1>1, PCInductive, PTL

----------------------------------------------------------------------------
(* The fence row of a PC job implements module EffectFence.                *)

\* The states of the row are those of the fence.
LEMMA RowFenceStates ==
    /\ \A b \in BOOLEAN : RowFence!SettledState(b) = IF b THEN "COMMITTED" ELSE "ATTEMPTED_UNKNOWN"
    /\ \A b \in BOOLEAN : RowFence!ReconciledState(b) =
           IF b THEN "RECONCILED_COMMITTED" ELSE "RECONCILED_NO_EFFECT"
    /\ RowFence!AmbiguousStates = RowAmbiguous
BY DEF RowFence!SettledState, RowFence!ReconciledState, RowFence!AmbiguousStates, RowAmbiguous

\* What a step does to the row and to the runs that were granted under it.
LEMMA RowCases ==
    ASSUME PCInv, [PCNext]_pcVars
    PROVE  /\ effectClass' = effectClass
           /\ \/ pcRow' = pcRow /\ (pcRuns' = pcRuns \/ effectClass = "WRITE")
              \/ pcRow = "ABSENT" /\ pcRow' = "RESERVED" /\ pcRuns' = pcRuns
              \/ /\ pcRow = "RESERVED" /\ pcRow' = "EXECUTING" /\ effectClass = "READ"
                 /\ \E a \in JobAttempts : pcRuns' = [pcRuns EXCEPT ![a] = @ + 1]
              \/ /\ pcRow = "EXECUTING" /\ pcRuns' = pcRuns
                 /\ \E known \in BOOLEAN : pcRow' = IF known THEN "COMMITTED" ELSE "ATTEMPTED_UNKNOWN"
              \/ pcRow = "RESERVED" /\ pcRow' = "CANCELLED_PRE_DISPATCH" /\ pcRuns' = pcRuns
              \/ /\ pcRow \in RowAmbiguous /\ pcRuns' = pcRuns
                 /\ \E occurred \in BOOLEAN :
                        pcRow' = IF occurred THEN "RECONCILED_COMMITTED" ELSE "RECONCILED_NO_EFFECT"
<1>1. CASE UNCHANGED pcVars
  BY <1>1 DEF pcVars
<1>2. ASSUME NEW e \in JobEvents, ServerApplies(e) PROVE UNCHANGED <<effectClass, pcRow, pcRuns>>
  BY <1>2 DEF ServerApplies
<1>3. CASE ServerPreparing \/ ServerCancellation \/ WindowCloses
  BY <1>3 DEF ServerPreparing, ServerCancellation, WindowCloses
<1>4. ASSUME NEW x \in Executors,
             \/ \E a \in JobAttempts : ExecuteBegin(x, a) \/ CancelReservedBegin(x, a)
             \/ ExecuteAssess(x) \/ ExecuteRecover(x) \/ ExecuteClaim(x) \/ ExecutePrepare(x)
             \/ ExecuteRaised(x) \/ ExecuteRecord(x) \/ CancelAbandon(x) \/ ExecutorDies(x)
      PROVE  UNCHANGED <<effectClass, pcRow, pcRuns>>
  BY <1>4 DEF ExecuteBegin, CancelReservedBegin, ExecuteAssess, ExecuteRecover, ExecuteClaim,
              ExecutePrepare, ExecuteRaised, ExecuteRecord, CancelAbandon, ExecutorDies
<1>5. ASSUME NEW x \in Executors, ExecuteReserve(x)
      PROVE  /\ UNCHANGED <<effectClass, pcRuns>>
             /\ pcRow' = pcRow \/ (pcRow = "ABSENT" /\ pcRow' = "RESERVED")
  BY <1>5 DEF ExecuteReserve
<1>6. ASSUME NEW x \in Executors, ExecuteDispatch(x)
      PROVE  /\ UNCHANGED effectClass
             /\ \/ UNCHANGED <<pcRow, pcRuns>>
                \/ /\ pcRow = "RESERVED" /\ pcRow' = "EXECUTING" /\ effectClass = "READ"
                   /\ \E a \in JobAttempts : pcRuns' = [pcRuns EXCEPT ![a] = @ + 1]
  <2>1. effectClass = "READ" /\ pcExec[x].a \in JobAttempts
    BY <1>6 DEF ExecuteDispatch, PCInv, ExecInv
  <2> QED
    BY <1>6, <2>1 DEF ExecuteDispatch, Claimable
<1>7. ASSUME NEW x \in Executors, NEW known \in BOOLEAN, ExecuteSettle(x, known)
      PROVE  /\ UNCHANGED <<effectClass, pcRuns>>
             /\ \/ pcRow' = pcRow
                \/ pcRow = "EXECUTING" /\ pcRow' = IF known THEN "COMMITTED" ELSE "ATTEMPTED_UNKNOWN"
  BY <1>7 DEF ExecuteSettle
<1>8. ASSUME NEW x \in Executors, CancelFence(x)
      PROVE  /\ UNCHANGED <<effectClass, pcRuns>>
             /\ pcRow' = pcRow \/ (pcRow = "RESERVED" /\ pcRow' = "CANCELLED_PRE_DISPATCH")
  BY <1>8 DEF CancelFence
<1>9. ASSUME NEW occurred \in BOOLEAN, ReconcileRow(occurred)
      PROVE  /\ UNCHANGED <<effectClass, pcRuns>> /\ pcRow \in RowAmbiguous
             /\ pcRow' = IF occurred THEN "RECONCILED_COMMITTED" ELSE "RECONCILED_NO_EFFECT"
  BY <1>9 DEF ReconcileRow
<1>10. ASSUME NEW a \in JobAttempts,
              \/ SubmitCompletion(a) \/ ConfirmTerminalReadback(a) \/ HostClaims(a) \/ HostPrepares(a)
              \/ HostStarts(a) \/ HostRecords(a) \/ HostRestarts(a) \/ HostAbandons(a)
       PROVE  UNCHANGED <<effectClass, pcRow>> /\ (pcRuns' = pcRuns \/ effectClass = "WRITE")
  BY <1>10 DEF SubmitCompletion, ConfirmTerminalReadback, HostClaims, HostPrepares, HostStarts,
               HostRecords, HostRestarts, HostAbandons, HostQuiet
<1>11. CASE PCNext
  <2>1. \/ UNCHANGED <<effectClass, pcRow, pcRuns>>
        \/ \E x \in Executors : ExecuteReserve(x) \/ ExecuteDispatch(x) \/ CancelFence(x)
        \/ \E x \in Executors, known \in BOOLEAN : ExecuteSettle(x, known)
        \/ \E occurred \in BOOLEAN : ReconcileRow(occurred)
        \/ UNCHANGED <<effectClass, pcRow>> /\ (pcRuns' = pcRuns \/ effectClass = "WRITE")
    BY <1>2, <1>3, <1>4, <1>10, <1>11 DEF PCNext, ServerPreparing, ServerCancellation, WindowCloses
  <2> QED
    BY <2>1, <1>5, <1>6, <1>7, <1>8, <1>9
<1> QED
  BY <1>1, <1>11

LEMMA RowFenceStep ==
    ASSUME PCInv, [PCNext]_pcVars
    PROVE  [RowFence!Next]_(RowFence!fenceVars)
<1> DEFINE env == "envelope"
<1>0. effectClass' = effectClass /\ env \in Envelope /\ Envelope = {env}
  BY RowCases DEF Envelope
<1>1. rowFence' = [rowFence EXCEPT ![env] = pcRow'] /\ rowFence[env] = pcRow
  BY <1>0 DEF rowFence
<1>2. pcRow # "ABSENT" /\ pcRow' # "ABSENT" => rowBound' = rowBound
  BY <1>0 DEF rowBound
<1>3. pcRuns' = pcRuns \/ effectClass = "WRITE" => rowGranted' = rowGranted
  BY <1>0 DEF rowGranted
<1> HIDE DEF env
<1>4. CASE pcRow' = pcRow /\ (pcRuns' = pcRuns \/ effectClass = "WRITE")
  <2>1. rowFence' = rowFence /\ rowBound' = rowBound
    BY <1>4, <1>0 DEF rowFence, rowBound
  <2> QED
    BY <1>3, <1>4, <2>1 DEF RowFence!fenceVars
<1>5. CASE pcRow = "ABSENT" /\ pcRow' = "RESERVED" /\ pcRuns' = pcRuns
  <2>1. rowBound' = [rowBound EXCEPT ![env] = "request"]
    BY <1>0, <1>5 DEF rowBound
  <2>2. RowFence!Reserve(env, "request")
    BY <1>1, <1>3, <1>5, <2>1 DEF RowFence!Reserve
  <2> QED
    BY <1>0, <2>2 DEF RowFence!Next
<1>6. CASE /\ pcRow = "RESERVED" /\ pcRow' = "EXECUTING" /\ effectClass = "READ"
           /\ \E a \in JobAttempts : pcRuns' = [pcRuns EXCEPT ![a] = @ + 1]
  <2>1. PICK a \in JobAttempts : pcRuns' = [pcRuns EXCEPT ![a] = @ + 1]
    BY <1>6
  <2>2. \A b \in JobAttempts : pcRuns[b] = 0
    BY <1>6 DEF PCInv, RunsInv, RowUnclaimed
  <2>3. {b \in JobAttempts : pcRuns[b] > 0} = {}
    BY <2>2
  <2>4. {b \in JobAttempts : pcRuns'[b] > 0} = {a}
    BY <2>1, <2>2 DEF PCInv, PCTyped
  <2>5. Cardinality({b \in JobAttempts : pcRuns[b] > 0}) = 0
    BY <2>3, FS_EmptySet
  <2>6. Cardinality({b \in JobAttempts : pcRuns'[b] > 0}) = 1
    BY <2>4, FS_Singleton
  <2>7. rowGranted = [e \in Envelope |-> 0] /\ rowGranted' = [e \in Envelope |-> 1]
    BY <1>0, <1>6, <2>5, <2>6 DEF rowGranted
  <2>8. rowGranted' = [rowGranted EXCEPT ![env] = @ + 1]
    BY <1>0, <2>7
  <2>9. RowFence!ClaimDispatch(env)
    BY <1>1, <1>2, <1>6, <2>8 DEF RowFence!ClaimDispatch
  <2> QED
    BY <1>0, <2>9 DEF RowFence!Next
<1>7. ASSUME NEW known \in BOOLEAN, pcRow = "EXECUTING", pcRuns' = pcRuns,
             pcRow' = IF known THEN "COMMITTED" ELSE "ATTEMPTED_UNKNOWN"
      PROVE  RowFence!Next
  <2>1. RowFence!Settle(env, known)
    BY <1>1, <1>2, <1>3, <1>7, RowFenceStates DEF RowFence!Settle
  <2> QED
    BY <1>0, <2>1 DEF RowFence!Next
<1>8. CASE pcRow = "RESERVED" /\ pcRow' = "CANCELLED_PRE_DISPATCH" /\ pcRuns' = pcRuns
  <2>1. RowFence!CancelBeforeDispatch(env)
    BY <1>1, <1>2, <1>3, <1>8 DEF RowFence!CancelBeforeDispatch
  <2> QED
    BY <1>0, <2>1 DEF RowFence!Next
<1>9. ASSUME NEW occurred \in BOOLEAN, pcRow \in RowAmbiguous, pcRuns' = pcRuns,
             pcRow' = IF occurred THEN "RECONCILED_COMMITTED" ELSE "RECONCILED_NO_EFFECT"
      PROVE  RowFence!Next
  <2>1. pcRow # "ABSENT" /\ pcRow' # "ABSENT"
    BY <1>9 DEF RowAmbiguous
  <2>2. RowFence!ReconcileUnknown(env, occurred)
    BY <1>1, <1>2, <1>3, <1>9, <2>1, RowFenceStates DEF RowFence!ReconcileUnknown
  <2> QED
    BY <1>0, <2>2 DEF RowFence!Next
<1> QED
  BY <1>4, <1>5, <1>6, <1>7, <1>8, <1>9, RowCases

(***************************************************************************)
(* Executors of any attempts of a PC job use the one fence row of its      *)
(* envelope as module EffectFence describes it, and every receipt the row  *)
(* grants is one run on the machine: what is proved of the fence holds of  *)
(* the row (qualified_pc.py over effect_fence.py).                         *)
(***************************************************************************)
THEOREM PCRefinesFence == PCSpec => RowFenceSpec
<1>1. PCInit => RowFence!Init
  <2> SUFFICES ASSUME PCInit PROVE RowFence!Init
    OBVIOUS
  <2>1. {a \in JobAttempts : pcRuns[a] > 0} = {}
    BY DEF PCInit
  <2>2. Cardinality({a \in JobAttempts : pcRuns[a] > 0}) = 0
    BY <2>1, FS_EmptySet
  <2> QED
    BY <2>2 DEF RowFence!Init, rowFence, rowBound, rowGranted, PCInit
<1>2. PCInv /\ [PCNext]_pcVars => [RowFence!Next]_(RowFence!fenceVars)
  BY RowFenceStep
<1> QED
  BY <1>1, <1>2, PCInductive, PTL DEF PCSpec, RowFenceSpec, RowFence!Spec

----------------------------------------------------------------------------
(* Coordination commands: the inductive invariant.                         *)

FenceRows == CmdUnresolved \cup {"NONE", "COMMITTED", "RECONCILED_COMMITTED", "RECONCILED_NO_EFFECT",
                                 "CANCELLED_PRE_DISPATCH"}
CmdResults == {"NONE", "WRITTEN", "REFUSED"}
Verdicts == {"TERMINAL", "RECOVERY", "RETRY", "STALE", "CANCEL"}

\* The steps of a dispatch under the action lock, and after it.
LockedSteps == {"reserved", "executing", "wrote", "refused"}
RecordSteps == {"recordWritten", "recordRefused"}

CallIdle == [at : {"idle"}]
CallRun == [at : LockedSteps \cup RecordSteps \cup {"bound"}, cmd : CommandIds, permit : 1..MaxPermit]
CallAssessing == [at : {"assessing"}, cmd : CommandIds, result : CmdResults]
CallAssessed == [at : {"assessed"}, cmd : CommandIds, verdict : Verdicts, ran : BOOLEAN,
                 fence : FenceRows]

CmdTyped ==
    /\ permitNow \in 1..MaxPermit /\ actionLock \in Callers \cup {"free"}
    /\ cmdBinding \in [CommandIds -> 0..MaxPermit]
    /\ cmdFence \in [CommandIds -> FenceRows]
    /\ cmdWritten \in [CommandIds -> Nat]
    /\ cmdResult \in [CommandIds -> CmdResults]
    /\ cmdCall \in [Callers -> CallIdle \cup CallRun \cup CallAssessing \cup CallAssessed]

\* The holder of the action lock is the caller in the middle of a dispatch.
LockInv == \A x \in Callers : actionLock = x <=> cmdCall[x].at \in LockedSteps

\* What the three stores say of a command agrees.
StoresInv ==
    \A c \in CommandIds :
        /\ cmdWritten[c] <= 1
        /\ cmdFence[c] \in {"NONE", "RESERVED", "CANCELLED_PRE_DISPATCH"} => cmdWritten[c] = 0
        /\ cmdResult[c] # "NONE" => cmdFence[c] = "COMMITTED"
        /\ cmdResult[c] = "WRITTEN" => cmdWritten[c] = 1
        /\ cmdResult[c] = "REFUSED" => cmdWritten[c] = 0

\* Where a dispatch is tells what its command has done; a row that was
\* reconciled under a running command stays reconciled.
DispatchInv ==
    \A x \in Callers :
        LET c == cmdCall[x].cmd IN
        /\ cmdCall[x].at = "reserved" => cmdFence[c] = "RESERVED"
        /\ cmdCall[x].at \in {"executing", "wrote", "refused"} =>
               cmdFence[c] \in {"EXECUTING", "RECONCILED_COMMITTED", "RECONCILED_NO_EFFECT"}
        /\ cmdCall[x].at \in RecordSteps => cmdFence[c] = "COMMITTED"
        /\ cmdCall[x].at \in {"executing", "refused", "recordRefused"} => cmdWritten[c] = 0
        /\ cmdCall[x].at \in {"wrote", "recordWritten"} => cmdWritten[c] = 1

\* A command id has one dispatch at most.
DispatchOnce ==
    \A x, y \in Callers :
        /\ cmdCall[x].at \in LockedSteps \cup RecordSteps
        /\ cmdCall[y].at \in LockedSteps \cup RecordSteps
        /\ cmdCall[x].cmd = cmdCall[y].cmd
        => x = y

CmdInv == CmdTyped /\ LockInv /\ StoresInv /\ DispatchInv /\ DispatchOnce /\ AssessmentSound

\* A call is of the kind its step says.
LEMMA CallKinds ==
    ASSUME NEW r \in CallIdle \cup CallRun \cup CallAssessing \cup CallAssessed
    PROVE  /\ r.at \in LockedSteps \cup RecordSteps \cup {"bound"} => r \in CallRun
           /\ r.at = "assessing" => r \in CallAssessing
           /\ r.at = "assessed" => r \in CallAssessed
BY DEF CallIdle, CallRun, CallAssessing, CallAssessed, LockedSteps, RecordSteps

\* CmdStep moves a call that runs to another step of the same call.
LEMMA CmdStepType ==
    ASSUME CmdTyped, NEW x \in Callers, NEW s \in LockedSteps \cup RecordSteps,
           cmdCall[x].at \in LockedSteps \cup RecordSteps \cup {"bound"}, CmdStep(x, s)
    PROVE  /\ cmdCall[x] \in CallRun
           /\ cmdCall' \in [Callers -> CallIdle \cup CallRun \cup CallAssessing \cup CallAssessed]
           /\ cmdCall'[x].at = s /\ cmdCall'[x].cmd = cmdCall[x].cmd
           /\ \A y \in Callers \ {x} : cmdCall'[y] = cmdCall[y]
<1>1. cmdCall[x] \in CallRun
  BY CallKinds DEF CmdTyped
<1>2. [cmdCall[x] EXCEPT !.at = s] \in CallRun
  BY <1>1 DEF CallRun
<1> QED
  BY <1>1, <1>2 DEF CmdStep, CmdTyped, CallRun

\* CmdReturn: the call is over.
LEMMA CmdReturnType ==
    ASSUME CmdTyped, NEW x \in Callers, CmdReturn(x)
    PROVE  /\ cmdCall' \in [Callers -> CallIdle \cup CallRun \cup CallAssessing \cup CallAssessed]
           /\ cmdCall'[x].at = "idle"
           /\ \A y \in Callers \ {x} : cmdCall'[y] = cmdCall[y]
BY DEF CmdReturn, CmdTyped, CmdIdle, CallIdle

\* What assess_command concludes from a result it read and the row it reads.
LEMMA VerdictMeaning ==
    ASSUME NEW c \in CommandIds, cmdFence[c] \in FenceRows, NEW result \in CmdResults
    PROVE  /\ Verdict(c, result) \in Verdicts
           /\ Verdict(c, result) = "TERMINAL" => cmdFence[c] \notin CmdUnresolved \cup {"NONE"}
           /\ Verdict(c, result) \in {"RETRY", "CANCEL", "STALE"} => cmdFence[c] \in {"NONE", "RESERVED"}
BY DEF Verdict, Verdicts, FenceRows, CmdResults, CmdUnresolved

\* The steps of a dispatch: binding, reservation, claim, execution, settlement
\* and the record of its result.
LEMMA DispatchStep ==
    ASSUME CmdInv, NEW x \in Callers,
           \/ ReserveCommand(x) \/ ClaimCommand(x) \/ RecordResult(x)
           \/ \E b \in BOOLEAN : ExecuteCommand(x, b) \/ SettleCommand(x, b)
           \/ \E c \in CommandIds : \E permit \in 1..permitNow : Bind(x, c, permit)
    PROVE  CmdInv'
<1> DEFINE c == cmdCall[x].cmd
<1> USE DEF CmdInv, LockInv, StoresInv, DispatchInv, DispatchOnce, AssessmentSound
<1>1. CmdTyped /\ permitNow \in Nat /\ MaxPermit \in Nat /\ "free" \notin Callers
  BY CommandsAssumption DEF CmdTyped
<1>2. CASE ReserveCommand(x)
  <2>1. CASE CmdReturn(x) /\ UNCHANGED <<cmdFence, actionLock>>
    BY <1>1, <1>2, <2>1, CmdReturnType DEF ReserveCommand, CmdTyped, LockedSteps, RecordSteps
  <2>2. CASE /\ Reservable(c) /\ cmdFence' = [cmdFence EXCEPT ![c] = "RESERVED"]
             /\ actionLock' = x /\ CmdStep(x, "reserved")
    <3>1. /\ cmdCall[x].at = "bound" /\ actionLock = "free"
          /\ UNCHANGED <<permitNow, cmdBinding, cmdWritten, cmdResult>>
      BY <1>2 DEF ReserveCommand
    <3>2. /\ cmdCall[x] \in CallRun
          /\ cmdCall' \in [Callers -> CallIdle \cup CallRun \cup CallAssessing \cup CallAssessed]
          /\ cmdCall'[x].at = "reserved" /\ cmdCall'[x].cmd = c
          /\ \A y \in Callers \ {x} : cmdCall'[y] = cmdCall[y]
      BY <1>1, <2>2, <3>1, CmdStepType DEF LockedSteps
    <3> QED
      BY <1>1, <2>2, <3>1, <3>2
      DEF CmdTyped, CallRun, LockedSteps, RecordSteps, FenceRows, CmdUnresolved, Reservable
  <2> QED
    BY <1>2, <2>1, <2>2 DEF ReserveCommand
<1>3. CASE ClaimCommand(x)
  <2>1. /\ cmdCall[x] \in CallRun
        /\ cmdCall' \in [Callers -> CallIdle \cup CallRun \cup CallAssessing \cup CallAssessed]
        /\ cmdCall'[x].at = "executing" /\ cmdCall'[x].cmd = c
        /\ \A y \in Callers \ {x} : cmdCall'[y] = cmdCall[y]
    BY <1>1, <1>3, CmdStepType DEF ClaimCommand, LockedSteps
  <2> QED
    BY <1>1, <1>3, <2>1
    DEF ClaimCommand, CmdTyped, CallRun, LockedSteps, RecordSteps, FenceRows, CmdUnresolved
<1>4. CASE RecordResult(x)
  <2>1. cmdCall[x] \in CallRun
    BY <1>1, <1>4, CallKinds DEF RecordResult, RecordSteps, CmdTyped
  <2> QED
    BY <1>1, <1>4, <2>1, CmdReturnType
    DEF RecordResult, CmdTyped, CallRun, LockedSteps, RecordSteps, CmdResults
<1>5. ASSUME NEW b \in BOOLEAN, ExecuteCommand(x, b) PROVE CmdInv'
  <2> DEFINE to == IF b THEN "wrote" ELSE "refused"
  <2>1. to \in {"wrote", "refused"} /\ cmdCall[x].at = "executing" /\ CmdStep(x, to)
    BY <1>5 DEF ExecuteCommand
  <2>2. cmdWritten' = [cmdWritten EXCEPT ![c] = @ + (IF to = "wrote" THEN 1 ELSE 0)]
    BY <1>5 DEF ExecuteCommand
  <2>3. UNCHANGED <<permitNow, cmdBinding, cmdFence, cmdResult, actionLock>>
    BY <1>5 DEF ExecuteCommand
  <2> HIDE DEF to
  <2>4. /\ cmdCall[x] \in CallRun
        /\ cmdCall' \in [Callers -> CallIdle \cup CallRun \cup CallAssessing \cup CallAssessed]
        /\ cmdCall'[x].at = to /\ cmdCall'[x].cmd = c
        /\ \A y \in Callers \ {x} : cmdCall'[y] = cmdCall[y]
    BY <1>1, <2>1, CmdStepType DEF LockedSteps
  <2> QED
    BY <1>1, <2>1, <2>2, <2>3, <2>4
    DEF CmdTyped, CallRun, LockedSteps, RecordSteps
<1>6. ASSUME NEW b \in BOOLEAN, SettleCommand(x, b) PROVE CmdInv'
  <2>1. cmdCall[x].at \in {"wrote", "refused"} /\ cmdCall[x] \in CallRun
    BY <1>1, <1>6, CallKinds DEF SettleCommand, LockedSteps, CmdTyped
  <2>2. actionLock' = "free" /\ UNCHANGED <<permitNow, cmdBinding, cmdWritten, cmdResult>>
    BY <1>6 DEF SettleCommand
  <2>3. CASE cmdFence[c] # "EXECUTING"
    <3>1. CmdReturn(x) /\ cmdFence' = cmdFence
      BY <1>1, <1>6, <2>1, <2>3 DEF SettleCommand, CmdTyped, CallRun
    <3> QED
      BY <1>1, <2>1, <2>2, <3>1, CmdReturnType DEF CmdTyped, LockedSteps, RecordSteps
  <2>4. CASE cmdFence[c] = "EXECUTING" /\ b
    <3>1. CmdReturn(x) /\ cmdFence' = [cmdFence EXCEPT ![c] = "ATTEMPTED_UNKNOWN"]
      BY <1>1, <1>6, <2>1, <2>4 DEF SettleCommand, CmdTyped, CallRun
    <3> QED
      BY <1>1, <2>1, <2>2, <2>4, <3>1, CmdReturnType
      DEF CmdTyped, LockedSteps, RecordSteps, CallRun, FenceRows, CmdUnresolved
  <2>5. CASE cmdFence[c] = "EXECUTING" /\ ~b
    <3> DEFINE to == IF cmdCall[x].at = "wrote" THEN "recordWritten" ELSE "recordRefused"
    <3>1. CmdStep(x, to) /\ cmdFence' = [cmdFence EXCEPT ![c] = "COMMITTED"]
      BY <1>1, <1>6, <2>1, <2>5 DEF SettleCommand, CmdTyped, CallRun
    <3>2. \/ to = "recordWritten" /\ cmdCall[x].at = "wrote"
          \/ to = "recordRefused" /\ cmdCall[x].at = "refused"
      BY <2>1
    <3> HIDE DEF to
    <3>3. /\ cmdCall' \in [Callers -> CallIdle \cup CallRun \cup CallAssessing \cup CallAssessed]
          /\ cmdCall'[x].at = to /\ cmdCall'[x].cmd = c
          /\ \A y \in Callers \ {x} : cmdCall'[y] = cmdCall[y]
      BY <1>1, <2>1, <3>1, <3>2, CmdStepType DEF LockedSteps, RecordSteps
    <3> QED
      BY <1>1, <2>1, <2>2, <2>5, <3>1, <3>2, <3>3
      DEF CmdTyped, LockedSteps, RecordSteps, CallRun, FenceRows, CmdUnresolved
  <2> QED
    BY <2>3, <2>4, <2>5
<1>7. ASSUME NEW d \in CommandIds, NEW permit \in 1..permitNow, Bind(x, d, permit) PROVE CmdInv'
  <2>1. [at |-> "bound", cmd |-> d, permit |-> permit] \in CallRun
    BY <1>1 DEF CallRun, CmdTyped
  <2> QED
    BY <1>1, <1>7, <2>1 DEF Bind, CmdTyped, LockedSteps, RecordSteps, CmdIdle
<1> QED
  BY <1>2, <1>3, <1>4, <1>5, <1>6, <1>7

\* The assessment, the cancellation it allows, reconciliation, a crash of the
\* caller and a new generation of the permit.
LEMMA AssessmentStep ==
    ASSUME CmdInv,
           \/ PermitMoves
           \/ \E d \in CommandIds : ReconcileCommand(d)
           \/ \E x \in Callers :
                  \/ AssessFence(x) \/ AssessDone(x) \/ CancelCommand(x) \/ CmdCrash(x)
                  \/ \E d \in CommandIds : AssessJournal(x, d)
    PROVE  CmdInv'
<1> USE DEF CmdInv, LockInv, StoresInv, DispatchInv, DispatchOnce, AssessmentSound
<1>1. CmdTyped /\ permitNow \in Nat /\ MaxPermit \in Nat /\ "free" \notin Callers
  BY CommandsAssumption DEF CmdTyped
<1>2. CASE PermitMoves
  BY <1>1, <1>2 DEF PermitMoves, CmdTyped, cmdStore
<1>3. ASSUME NEW d \in CommandIds, ReconcileCommand(d) PROVE CmdInv'
  <2> DEFINE to == IF cmdWritten[d] > 0 THEN "RECONCILED_COMMITTED" ELSE "RECONCILED_NO_EFFECT"
  <2>1. to \in {"RECONCILED_COMMITTED", "RECONCILED_NO_EFFECT"}
    OBVIOUS
  <2>2. /\ cmdFence[d] \in {"EXECUTING", "ATTEMPTED_UNKNOWN"}
        /\ cmdFence' = [cmdFence EXCEPT ![d] = to]
        /\ UNCHANGED <<permitNow, cmdBinding, cmdWritten, cmdResult, actionLock, cmdCall>>
    BY <1>3 DEF ReconcileCommand
  <2> HIDE DEF to
  <2> QED
    BY <1>1, <2>1, <2>2 DEF CmdTyped, FenceRows, CmdUnresolved, LockedSteps, RecordSteps
<1>4. ASSUME NEW x \in Callers, AssessFence(x) PROVE CmdInv'
  <2> DEFINE c == cmdCall[x].cmd
             v == Verdict(c, cmdCall[x].result)
             ran == cmdWritten[c] > 0
             r == [at |-> "assessed", cmd |-> c, verdict |-> v, ran |-> ran, fence |-> cmdFence[c]]
  <2>1. cmdCall[x] \in CallAssessing
    BY <1>1, <1>4, CallKinds DEF AssessFence, CmdTyped
  <2>2. c \in CommandIds /\ cmdCall[x].result \in CmdResults /\ cmdFence[c] \in FenceRows
    BY <1>1, <2>1 DEF CallAssessing, CmdTyped
  <2>3. /\ v \in Verdicts
        /\ v = "TERMINAL" => cmdFence[c] \notin CmdUnresolved \cup {"NONE"}
        /\ v \in {"RETRY", "CANCEL", "STALE"} => cmdFence[c] \in {"NONE", "RESERVED"}
    BY <2>2, VerdictMeaning
  <2>4. cmdCall' = [cmdCall EXCEPT ![x] = r] /\ UNCHANGED <<permitNow, cmdStore, actionLock>>
    BY <1>4 DEF AssessFence
  <2>5. ran \in BOOLEAN
    OBVIOUS
  <2>6. cmdFence[c] \in {"NONE", "RESERVED"} => ~ran
    BY <2>2
  <2> HIDE DEF v, ran
  <2>7. r \in CallAssessed
    BY <2>2, <2>3, <2>5 DEF CallAssessed
  <2>8. r.at = "assessed" /\ r.cmd = c /\ r.verdict = v /\ r.fence = cmdFence[c] /\ r.ran = ran
    OBVIOUS
  <2> HIDE DEF r
  <2>9. v \in {"RETRY", "CANCEL", "STALE"} => ~r.ran
    BY <2>3, <2>6, <2>8
  <2>10. cmdCall'[x] = r /\ \A y \in Callers \ {x} : cmdCall'[y] = cmdCall[y]
    BY <1>1, <2>4 DEF CmdTyped
  <2>11. UNCHANGED <<permitNow, cmdBinding, cmdFence, cmdWritten, cmdResult, actionLock>>
    BY <2>4 DEF cmdStore
  <2>12. CmdTyped'
    BY <1>1, <2>4, <2>7, <2>11 DEF CmdTyped
  <2>13. AssessmentSound'
    BY <2>3, <2>8, <2>9, <2>10, <2>11
  <2>14. (LockInv /\ DispatchInv /\ DispatchOnce)'
    BY <1>4, <2>8, <2>10, <2>11 DEF AssessFence, LockedSteps, RecordSteps
  <2> QED
    BY <2>11, <2>12, <2>13, <2>14
<1>5. ASSUME NEW x \in Callers, AssessDone(x) PROVE CmdInv'
  BY <1>1, <1>5, CmdReturnType DEF AssessDone, cmdStore, CmdTyped, LockedSteps, RecordSteps
<1>6. ASSUME NEW x \in Callers, CancelCommand(x) PROVE CmdInv'
  <2>1. cmdCall[x].cmd \in CommandIds
    BY <1>1, <1>6, CallKinds DEF CancelCommand, CmdTyped, CallAssessed
  <2> QED
    BY <1>1, <1>6, <2>1, CmdReturnType
    DEF CancelCommand, Cancellable, CmdTyped, LockedSteps, RecordSteps, FenceRows, CmdUnresolved
<1>7. ASSUME NEW x \in Callers, CmdCrash(x) PROVE CmdInv'
  BY <1>1, <1>7, CmdReturnType DEF CmdCrash, cmdStore, CmdTyped, LockedSteps, RecordSteps
<1>8. ASSUME NEW x \in Callers, NEW d \in CommandIds, AssessJournal(x, d) PROVE CmdInv'
  <2>1. [at |-> "assessing", cmd |-> d, result |-> cmdResult[d]] \in CallAssessing
    BY <1>1 DEF CallAssessing, CmdTyped
  <2> QED
    BY <1>1, <1>8, <2>1 DEF AssessJournal, CmdTyped, cmdStore, LockedSteps, RecordSteps, CmdIdle
<1> QED
  BY <1>2, <1>3, <1>4, <1>5, <1>6, <1>7, <1>8

\* The invariant holds of any number of commands and callers.
LEMMA CmdInductive == CmdSpec => []CmdInv
<1>1. CmdInit => CmdInv
  BY CommandsAssumption
  DEF CmdInit, CmdInv, CmdTyped, LockInv, StoresInv, DispatchInv, DispatchOnce, AssessmentSound,
      FenceRows, CmdResults, CallIdle, CmdIdle, LockedSteps, RecordSteps
<1>2. CmdInv /\ [CmdNext]_cmdVars => CmdInv'
  <2> SUFFICES ASSUME CmdInv, [CmdNext]_cmdVars PROVE CmdInv'
    OBVIOUS
  <2>1. CASE UNCHANGED cmdVars
    BY <2>1 DEF cmdVars, cmdStore, CmdInv, CmdTyped, LockInv, StoresInv, DispatchInv, DispatchOnce,
                AssessmentSound
  <2>2. CASE CmdNext
    BY <2>2, DispatchStep, AssessmentStep DEF CmdNext
  <2> QED
    BY <2>1, <2>2
<1> QED
  BY <1>1, <1>2, PTL DEF CmdSpec

\* Bindings, results and the action lock keep their types
\* (coordination_command_journal.py).
THEOREM CmdTypeCorrect == CmdSpec => []CmdTypeOK
<1>1. CmdInv => CmdTypeOK
  BY DEF CmdInv, CmdTyped, CmdTypeOK, CmdResults
<1> QED
  BY <1>1, CmdInductive, PTL

\* A coordination command takes effect once, and what assess_command says of
\* it is so, though it reads journal and fence under no lock while callers
\* dispatch, die and are reconciled (coordination_command_journal.py,
\* action_gate.py).
THEOREM CmdTruthful == CmdSpec => []CommandsTruthful
<1>1. CmdInv => CommandsTruthful
  BY DEF CmdInv, StoresInv, CommandsTruthful, CommandOnce
<1> QED
  BY <1>1, CmdInductive, PTL

----------------------------------------------------------------------------
(* The rows of the commands implement module EffectFence.                  *)

\* A command that someone dispatches, or that has a row, is bound in the
\* journal.
BindingInv ==
    /\ \A x \in Callers : cmdCall[x].at \in LockedSteps \cup {"bound"} => cmdBinding[cmdCall[x].cmd] # 0
    /\ \A c \in CommandIds : cmdFence[c] # "NONE" => cmdBinding[c] # 0

\* What a step does to the rows: at most one moves, as a method of the fence.
CommandRowMoves(c, from, to) ==
    /\ c \in CommandIds /\ cmdFence[c] = from
    /\ cmdFence' = [cmdFence EXCEPT ![c] = to]
    /\ UNCHANGED cmdBinding

\* The calls of a step, each against the row it changes.
LEMMA CommandCases ==
    ASSUME CmdInv, [CmdNext]_cmdVars
    PROVE  \/ UNCHANGED <<cmdFence, cmdBinding>>
           \/ \E x \in Callers, c \in CommandIds, permit \in 1..permitNow : Bind(x, c, permit)
           \/ \E x \in Callers :
                  /\ cmdCall[x].at = "bound"
                  /\ CommandRowMoves(cmdCall[x].cmd, "NONE", "RESERVED")
           \/ \E c \in CommandIds :
                  \/ CommandRowMoves(c, "RESERVED", "EXECUTING")
                  \/ \E known \in BOOLEAN :
                         CommandRowMoves(c, "EXECUTING", IF known THEN "COMMITTED" ELSE "ATTEMPTED_UNKNOWN")
                  \/ CommandRowMoves(c, "RESERVED", "CANCELLED_PRE_DISPATCH")
                  \/ \E occurred \in BOOLEAN, from \in {"EXECUTING", "ATTEMPTED_UNKNOWN"} :
                         CommandRowMoves(c, from, IF occurred THEN "RECONCILED_COMMITTED"
                                                  ELSE "RECONCILED_NO_EFFECT")
<1>0. CmdTyped
  BY DEF CmdInv
<1>k. \A x \in Callers : cmdCall[x].at \in LockedSteps \cup RecordSteps \cup {"bound", "assessed"} =>
                             cmdCall[x].cmd \in CommandIds
  BY <1>0, CallKinds DEF CmdTyped, CallRun, CallAssessed
<1>1. CASE UNCHANGED cmdVars
  BY <1>1 DEF cmdVars, cmdStore
<1>2. CASE PermitMoves
  BY <1>2 DEF PermitMoves, cmdStore
<1>3. ASSUME NEW x \in Callers,
             \/ RecordResult(x) \/ AssessFence(x) \/ AssessDone(x) \/ CmdCrash(x)
             \/ \E b \in BOOLEAN : ExecuteCommand(x, b)
             \/ \E c \in CommandIds : AssessJournal(x, c)
      PROVE  UNCHANGED <<cmdFence, cmdBinding>>
  BY <1>3 DEF RecordResult, AssessFence, AssessDone, CmdCrash, ExecuteCommand, AssessJournal, cmdStore
<1>4. ASSUME NEW x \in Callers, ReserveCommand(x)
      PROVE  \/ UNCHANGED <<cmdFence, cmdBinding>>
             \/ /\ cmdCall[x].at = "bound"
                /\ CommandRowMoves(cmdCall[x].cmd, "NONE", "RESERVED")
  BY <1>4, <1>k DEF ReserveCommand, Reservable, CommandRowMoves
<1>5. ASSUME NEW x \in Callers, ClaimCommand(x)
      PROVE  \E c \in CommandIds : CommandRowMoves(c, "RESERVED", "EXECUTING")
  <2>1. cmdCall[x].cmd \in CommandIds
    BY <1>5, <1>k DEF ClaimCommand, LockedSteps
  <2>2. CommandRowMoves(cmdCall[x].cmd, "RESERVED", "EXECUTING")
    BY <1>5, <2>1 DEF ClaimCommand, CommandRowMoves, CmdInv, DispatchInv
  <2> QED
    BY <2>1, <2>2
<1>6. ASSUME NEW x \in Callers, NEW raised \in BOOLEAN, SettleCommand(x, raised)
      PROVE  \/ UNCHANGED <<cmdFence, cmdBinding>>
             \/ \E c \in CommandIds, known \in BOOLEAN :
                    CommandRowMoves(c, "EXECUTING", IF known THEN "COMMITTED" ELSE "ATTEMPTED_UNKNOWN")
  <2> DEFINE c == cmdCall[x].cmd
  <2>1. c \in CommandIds /\ UNCHANGED cmdBinding
    BY <1>6, <1>k DEF SettleCommand, LockedSteps
  <2>2. cmdFence' = [cmdFence EXCEPT ![c] = IF @ # "EXECUTING" THEN @
                                            ELSE IF raised THEN "ATTEMPTED_UNKNOWN" ELSE "COMMITTED"]
    BY <1>6 DEF SettleCommand
  <2> HIDE DEF c
  <2>3. ASSUME cmdFence[c] # "EXECUTING" PROVE UNCHANGED cmdFence
    BY <1>0, <2>1, <2>2, <2>3 DEF CmdTyped
  <2>4. ASSUME cmdFence[c] = "EXECUTING", raised
        PROVE  CommandRowMoves(c, "EXECUTING", IF FALSE THEN "COMMITTED" ELSE "ATTEMPTED_UNKNOWN")
    BY <2>1, <2>2, <2>4 DEF CommandRowMoves
  <2>5. ASSUME cmdFence[c] = "EXECUTING", ~raised
        PROVE  CommandRowMoves(c, "EXECUTING", IF TRUE THEN "COMMITTED" ELSE "ATTEMPTED_UNKNOWN")
    BY <2>1, <2>2, <2>5 DEF CommandRowMoves
  <2> QED
    BY <2>1, <2>3, <2>4, <2>5
<1>7. ASSUME NEW x \in Callers, CancelCommand(x)
      PROVE  \E c \in CommandIds : CommandRowMoves(c, "RESERVED", "CANCELLED_PRE_DISPATCH")
  <2>1. cmdCall[x].cmd \in CommandIds
    BY <1>7, <1>k DEF CancelCommand
  <2>2. CommandRowMoves(cmdCall[x].cmd, "RESERVED", "CANCELLED_PRE_DISPATCH")
    BY <1>7, <2>1 DEF CancelCommand, Cancellable, CommandRowMoves
  <2> QED
    BY <2>1, <2>2
<1>8. ASSUME NEW c \in CommandIds, ReconcileCommand(c)
      PROVE  \E occurred \in BOOLEAN, from \in {"EXECUTING", "ATTEMPTED_UNKNOWN"} :
                 CommandRowMoves(c, from, IF occurred THEN "RECONCILED_COMMITTED"
                                          ELSE "RECONCILED_NO_EFFECT")
  <2> DEFINE occurred == cmdWritten[c] > 0
             from == cmdFence[c]
  <2>1. occurred \in BOOLEAN /\ from \in {"EXECUTING", "ATTEMPTED_UNKNOWN"}
    BY <1>8 DEF ReconcileCommand
  <2>2. CommandRowMoves(c, from, IF occurred THEN "RECONCILED_COMMITTED" ELSE "RECONCILED_NO_EFFECT")
    BY <1>8 DEF ReconcileCommand, CommandRowMoves
  <2> HIDE DEF occurred, from
  <2> QED
    BY <2>1, <2>2
<1> QED
  BY <1>1, <1>2, <1>3, <1>4, <1>5, <1>6, <1>7, <1>8 DEF CmdNext

\* A caller is bound to a command by Bind, and dispatches the one it is bound to.
LEMMA CallMoves ==
    ASSUME CmdInv, [CmdNext]_cmdVars, NEW x \in Callers,
           cmdCall'[x].at \in LockedSteps \cup {"bound"}
    PROVE  \/ \E c \in CommandIds, permit \in 1..permitNow : Bind(x, c, permit)
           \/ cmdCall[x].at \in LockedSteps \cup {"bound"} /\ cmdCall'[x].cmd = cmdCall[x].cmd
<1> DEFINE Same == cmdCall[x].at \in LockedSteps \cup {"bound"} /\ cmdCall'[x].cmd = cmdCall[x].cmd
<1>0. CmdTyped
  BY DEF CmdInv
<1>s. cmdCall'[x] = cmdCall[x] => Same
  OBVIOUS
<1>2. ASSUME NEW y \in Callers, CmdReturn(y) PROVE cmdCall'[x] = cmdCall[x]
  BY <1>0, <1>2, CmdReturnType DEF LockedSteps
<1>3. ASSUME NEW y \in Callers, NEW s \in LockedSteps \cup RecordSteps, CmdStep(y, s),
             cmdCall[y].at \in LockedSteps \cup {"bound"}
      PROVE  Same
  BY <1>0, <1>3, CmdStepType
<1>4. ASSUME NEW y \in Callers, NEW r, cmdCall' = [cmdCall EXCEPT ![y] = r],
             r.at \in {"assessing", "assessed"}
      PROVE  cmdCall'[x] = cmdCall[x]
  BY <1>0, <1>4 DEF LockedSteps, CmdTyped
<1> HIDE DEF Same
<1>5. CASE UNCHANGED cmdVars
  BY <1>5, <1>s DEF cmdVars, Same
<1>6. CASE PermitMoves \/ \E c \in CommandIds : ReconcileCommand(c)
  BY <1>6, <1>s DEF Same, PermitMoves, ReconcileCommand
<1>7. ASSUME NEW y \in Callers, RecordResult(y) \/ AssessDone(y) \/ CancelCommand(y) \/ CmdCrash(y)
      PROVE  Same
  BY <1>2, <1>7, <1>s DEF RecordResult, AssessDone, CancelCommand, CmdCrash
<1>8. ASSUME NEW y \in Callers, AssessFence(y) PROVE Same
  <2> DEFINE c == cmdCall[y].cmd
             r == [at |-> "assessed", cmd |-> c, verdict |-> Verdict(c, cmdCall[y].result),
                   ran |-> cmdWritten[c] > 0, fence |-> cmdFence[c]]
  <2>1. cmdCall' = [cmdCall EXCEPT ![y] = r]
    BY <1>8 DEF AssessFence
  <2>2. r.at = "assessed"
    OBVIOUS
  <2> HIDE DEF r
  <2> QED
    BY <1>4, <1>s, <2>1, <2>2
<1>9. ASSUME NEW y \in Callers, NEW c \in CommandIds, AssessJournal(y, c) PROVE Same
  <2> DEFINE r == [at |-> "assessing", cmd |-> c, result |-> cmdResult[c]]
  <2>1. cmdCall' = [cmdCall EXCEPT ![y] = r]
    BY <1>9 DEF AssessJournal
  <2>2. r.at = "assessing"
    OBVIOUS
  <2> HIDE DEF r
  <2> QED
    BY <1>4, <1>s, <2>1, <2>2
<1>10. ASSUME NEW y \in Callers, ReserveCommand(y) PROVE Same
  <2>1. cmdCall[y].at = "bound" /\ (CmdStep(y, "reserved") \/ CmdReturn(y))
    BY <1>10 DEF ReserveCommand
  <2> QED
    BY <1>2, <1>3, <1>s, <2>1 DEF LockedSteps
<1>11. ASSUME NEW y \in Callers, ClaimCommand(y) PROVE Same
  <2>1. cmdCall[y].at = "reserved" /\ CmdStep(y, "executing")
    BY <1>11 DEF ClaimCommand
  <2> QED
    BY <1>3, <2>1 DEF LockedSteps
<1>12. ASSUME NEW y \in Callers, NEW b \in BOOLEAN, ExecuteCommand(y, b) PROVE Same
  <2>1. cmdCall[y].at = "executing" /\ (CmdStep(y, "wrote") \/ CmdStep(y, "refused"))
    BY <1>12 DEF ExecuteCommand
  <2> QED
    BY <1>3, <2>1 DEF LockedSteps
<1>13. ASSUME NEW y \in Callers, NEW b \in BOOLEAN, SettleCommand(y, b) PROVE Same
  <2>1. /\ cmdCall[y].at \in {"wrote", "refused"}
        /\ CmdReturn(y) \/ CmdStep(y, "recordWritten") \/ CmdStep(y, "recordRefused")
    BY <1>13 DEF SettleCommand
  <2> QED
    BY <1>2, <1>3, <1>s, <2>1 DEF LockedSteps, RecordSteps
<1>14. ASSUME NEW y \in Callers, NEW c \in CommandIds, NEW permit \in 1..permitNow, Bind(y, c, permit)
       PROVE  Same \/ Bind(x, c, permit)
  <2>1. y # x => cmdCall'[x] = cmdCall[x]
    BY <1>0, <1>14 DEF Bind, CmdTyped
  <2> QED
    BY <1>14, <1>s, <2>1
<1> QED
  BY <1>5, <1>6, <1>7, <1>8, <1>9, <1>10, <1>11, <1>12, <1>13, <1>14 DEF CmdNext, Same

\* A binding is written once.
LEMMA BoundOnce ==
    ASSUME CmdInv, NEW x \in Callers, NEW c \in CommandIds, NEW permit \in 1..permitNow,
           Bind(x, c, permit)
    PROVE  /\ cmdFence' = cmdFence
           /\ cmdBinding'[c] # 0
           /\ \A d \in CommandIds : cmdBinding[d] # 0 => cmdBinding'[d] = cmdBinding[d]
<1>1. permitNow \in Nat /\ permit # 0 /\ cmdBinding \in [CommandIds -> 0..MaxPermit]
  BY CommandsAssumption DEF CmdInv, CmdTyped
<1> QED
  BY <1>1 DEF Bind

LEMMA BindingStep ==
    ASSUME CmdInv, BindingInv, [CmdNext]_cmdVars
    PROVE  BindingInv'
<1>0. CmdTyped
  BY DEF CmdInv
<1>1. /\ \A d \in CommandIds : cmdBinding[d] # 0 => cmdBinding'[d] = cmdBinding[d]
      /\ \A d \in CommandIds : cmdFence'[d] # "NONE" =>
             cmdFence[d] # "NONE" \/ \E x \in Callers : cmdCall[x].at = "bound" /\ cmdCall[x].cmd = d
  <2>1. ASSUME NEW c \in CommandIds, NEW from, NEW to, from # "NONE", CommandRowMoves(c, from, to)
        PROVE  UNCHANGED cmdBinding /\ \A d \in CommandIds : cmdFence'[d] # "NONE" => cmdFence[d] # "NONE"
    BY <1>0, <2>1 DEF CommandRowMoves, CmdTyped
  <2>2. ASSUME NEW x \in Callers, cmdCall[x].at = "bound",
               CommandRowMoves(cmdCall[x].cmd, "NONE", "RESERVED")
        PROVE  /\ UNCHANGED cmdBinding
               /\ \A d \in CommandIds : cmdFence'[d] # "NONE" => cmdFence[d] # "NONE" \/ cmdCall[x].cmd = d
    BY <1>0, <2>2 DEF CommandRowMoves, CmdTyped
  <2>3. ASSUME NEW x \in Callers, NEW c \in CommandIds, NEW permit \in 1..permitNow, Bind(x, c, permit)
        PROVE  /\ cmdFence' = cmdFence
               /\ \A d \in CommandIds : cmdBinding[d] # 0 => cmdBinding'[d] = cmdBinding[d]
    BY <2>3, BoundOnce
  <2> QED
    BY <2>1, <2>2, <2>3, CommandCases
<1>2. ASSUME NEW x \in Callers, cmdCall'[x].at \in LockedSteps \cup {"bound"}
      PROVE  cmdBinding'[cmdCall'[x].cmd] # 0
  <2>1. \/ \E c \in CommandIds, permit \in 1..permitNow : Bind(x, c, permit)
        \/ cmdCall[x].at \in LockedSteps \cup {"bound"} /\ cmdCall'[x].cmd = cmdCall[x].cmd
    BY <1>2, CallMoves
  <2>2. ASSUME NEW c \in CommandIds, NEW permit \in 1..permitNow, Bind(x, c, permit)
        PROVE  cmdBinding'[cmdCall'[x].cmd] # 0
    <3>1. cmdCall'[x].cmd = c
      BY <1>0, <2>2 DEF Bind, CmdTyped
    <3> QED
      BY <2>2, <3>1, BoundOnce
  <2>3. ASSUME cmdCall[x].at \in LockedSteps \cup {"bound"}, cmdCall'[x].cmd = cmdCall[x].cmd
        PROVE  cmdBinding'[cmdCall'[x].cmd] # 0
    <3>1. cmdCall[x].cmd \in CommandIds
      BY <1>0, <2>3, CallKinds DEF CmdTyped, CallRun
    <3> QED
      BY <1>1, <2>3, <3>1 DEF BindingInv
  <2> QED
    BY <2>1, <2>2, <2>3
<1>3. \A c \in CommandIds : cmdFence'[c] # "NONE" => cmdBinding'[c] # 0
  BY <1>1 DEF BindingInv
<1> QED
  BY <1>2, <1>3 DEF BindingInv

LEMMA CommandFenceStates ==
    /\ \A b \in BOOLEAN : CommandFence!SettledState(b) = IF b THEN "COMMITTED" ELSE "ATTEMPTED_UNKNOWN"
    /\ \A b \in BOOLEAN : CommandFence!ReconciledState(b) =
           IF b THEN "RECONCILED_COMMITTED" ELSE "RECONCILED_NO_EFFECT"
    /\ CommandFence!AmbiguousStates = {"EXECUTING", "ATTEMPTED_UNKNOWN"}
BY DEF CommandFence!SettledState, CommandFence!ReconciledState, CommandFence!AmbiguousStates

\* A row that moves under an unchanged binding, seen as the fence sees it.
LEMMA CommandRowSeen ==
    ASSUME CmdTyped, NEW c \in CommandIds, NEW from, NEW to, CommandRowMoves(c, from, to), to # "NONE"
    PROVE  /\ commandFence[c] = IF from = "NONE" THEN "ABSENT" ELSE from
           /\ commandFence' = [commandFence EXCEPT ![c] = to]
           /\ commandBound' = [commandBound EXCEPT ![c] = cmdBinding[c]]
           /\ from # "NONE" => commandBound' = commandBound
           /\ (from \in {"NONE", "RESERVED", "CANCELLED_PRE_DISPATCH"}
                   <=> to \in {"NONE", "RESERVED", "CANCELLED_PRE_DISPATCH"})
                  => commandGranted' = commandGranted
           /\ from = "RESERVED" /\ to = "EXECUTING" =>
                  commandGranted' = [commandGranted EXCEPT ![c] = @ + 1]
<1>1. /\ cmdFence \in [CommandIds -> FenceRows] /\ cmdFence[c] = from
      /\ cmdFence' = [cmdFence EXCEPT ![c] = to] /\ UNCHANGED cmdBinding
  BY DEF CmdTyped, CommandRowMoves
<1>2. commandFence' = [commandFence EXCEPT ![c] = to]
  BY <1>1 DEF commandFence
<1>3. commandBound' = [commandBound EXCEPT ![c] = cmdBinding[c]]
  BY <1>1 DEF commandBound
<1>4. from # "NONE" => commandBound' = commandBound
  BY <1>1 DEF commandBound
<1>5. (from \in {"NONE", "RESERVED", "CANCELLED_PRE_DISPATCH"}
          <=> to \in {"NONE", "RESERVED", "CANCELLED_PRE_DISPATCH"})
         => commandGranted' = commandGranted
  BY <1>1 DEF commandGranted
<1>6. ASSUME from = "RESERVED", to = "EXECUTING"
      PROVE  commandGranted' = [commandGranted EXCEPT ![c] = @ + 1]
  <2>1. commandGranted[c] + 1 = 1
    BY <1>1, <1>6 DEF commandGranted
  <2>2. commandGranted' = [commandGranted EXCEPT ![c] = 1]
    BY <1>1, <1>6 DEF commandGranted
  <2> QED
    BY <2>1, <2>2
<1> QED
  BY <1>1, <1>2, <1>3, <1>4, <1>5, <1>6 DEF commandFence

LEMMA CommandFenceStep ==
    ASSUME CmdInv, BindingInv, [CmdNext]_cmdVars
    PROVE  [CommandFence!Next]_(CommandFence!fenceVars)
<1>0. CmdTyped
  BY DEF CmdInv
<1>1. CASE UNCHANGED <<cmdFence, cmdBinding>>
  BY <1>1 DEF CommandFence!fenceVars, commandFence, commandBound, commandGranted
<1>2. ASSUME NEW x \in Callers, NEW c \in CommandIds, NEW permit \in 1..permitNow, Bind(x, c, permit)
      PROVE  UNCHANGED CommandFence!fenceVars
  <2>1. /\ cmdFence' = cmdFence
        /\ \A d \in CommandIds : cmdFence[d] # "NONE" => cmdBinding'[d] = cmdBinding[d]
    BY <1>2, BoundOnce DEF BindingInv
  <2> QED
    BY <2>1 DEF CommandFence!fenceVars, commandFence, commandBound, commandGranted
<1>3. ASSUME NEW x \in Callers, cmdCall[x].at = "bound",
             CommandRowMoves(cmdCall[x].cmd, "NONE", "RESERVED")
      PROVE  CommandFence!Next
  <2> DEFINE c == cmdCall[x].cmd
             permit == cmdBinding[c]
  <2>1. c \in CommandIds
    BY <1>0, <1>3, CallKinds DEF CmdTyped, CallRun
  <2>2. permit \in 1..MaxPermit
    BY <1>0, <1>3, <2>1, CommandsAssumption DEF CmdTyped, BindingInv
  <2>3. CommandRowMoves(c, "NONE", "RESERVED")
    BY <1>3
  <2> HIDE DEF c
  <2>4. CommandFence!Reserve(c, permit)
    BY <1>0, <2>1, <2>3, CommandRowSeen DEF CommandFence!Reserve
  <2> QED
    BY <2>1, <2>2, <2>4 DEF CommandFence!Next
<1>4. ASSUME NEW c \in CommandIds, CommandRowMoves(c, "RESERVED", "EXECUTING")
      PROVE  CommandFence!Next
  <2>1. CommandFence!ClaimDispatch(c)
    BY <1>0, <1>4, CommandRowSeen DEF CommandFence!ClaimDispatch
  <2> QED
    BY <2>1 DEF CommandFence!Next
<1>5. ASSUME NEW c \in CommandIds, NEW known \in BOOLEAN,
             CommandRowMoves(c, "EXECUTING", IF known THEN "COMMITTED" ELSE "ATTEMPTED_UNKNOWN")
      PROVE  CommandFence!Next
  <2> DEFINE to == IF known THEN "COMMITTED" ELSE "ATTEMPTED_UNKNOWN"
  <2>1. to \in {"COMMITTED", "ATTEMPTED_UNKNOWN"} /\ to = CommandFence!SettledState(known)
    BY CommandFenceStates
  <2>2. CommandRowMoves(c, "EXECUTING", to)
    BY <1>5
  <2> HIDE DEF to
  <2>3. CommandFence!Settle(c, known)
    BY <1>0, <2>1, <2>2, CommandRowSeen DEF CommandFence!Settle
  <2> QED
    BY <2>3 DEF CommandFence!Next
<1>6. ASSUME NEW c \in CommandIds, CommandRowMoves(c, "RESERVED", "CANCELLED_PRE_DISPATCH")
      PROVE  CommandFence!Next
  <2>1. CommandFence!CancelBeforeDispatch(c)
    BY <1>0, <1>6, CommandRowSeen DEF CommandFence!CancelBeforeDispatch
  <2> QED
    BY <2>1 DEF CommandFence!Next
<1>7. ASSUME NEW c \in CommandIds, NEW occurred \in BOOLEAN, NEW from \in {"EXECUTING", "ATTEMPTED_UNKNOWN"},
             CommandRowMoves(c, from, IF occurred THEN "RECONCILED_COMMITTED" ELSE "RECONCILED_NO_EFFECT")
      PROVE  CommandFence!Next
  <2> DEFINE to == IF occurred THEN "RECONCILED_COMMITTED" ELSE "RECONCILED_NO_EFFECT"
  <2>1. /\ to \in {"RECONCILED_COMMITTED", "RECONCILED_NO_EFFECT"}
        /\ to = CommandFence!ReconciledState(occurred)
    BY CommandFenceStates
  <2>2. CommandRowMoves(c, from, to)
    BY <1>7
  <2> HIDE DEF to
  <2>3. CommandFence!ReconcileUnknown(c, occurred)
    BY <1>0, <2>1, <2>2, CommandRowSeen, CommandFenceStates DEF CommandFence!ReconcileUnknown
  <2> QED
    BY <2>3 DEF CommandFence!Next
<1> QED
  BY <1>1, <1>2, <1>3, <1>4, <1>5, <1>6, <1>7, CommandCases

(***************************************************************************)
(* Commands, their cancellation and their recovery use the effect fence as *)
(* module EffectFence describes it: each row is reserved once, under the   *)
(* permit its command is bound to in the journal, keeps that binding, and  *)
(* is claimed once (action_gate.py, coordination_command_journal.py over   *)
(* effect_fence.py).                                                       *)
(***************************************************************************)
THEOREM CommandsRefineFence == CmdSpec => CommandFenceSpec
<1>1. CmdInit => CommandFence!Init
  BY DEF CmdInit, CommandFence!Init, commandFence, commandBound, commandGranted
<1>2. CmdInit => BindingInv
  BY DEF CmdInit, BindingInv, CmdIdle, LockedSteps
<1>3. CmdInv /\ BindingInv /\ [CmdNext]_cmdVars => BindingInv'
  BY BindingStep
<1>4. CmdInv /\ BindingInv /\ [CmdNext]_cmdVars => [CommandFence!Next]_(CommandFence!fenceVars)
  BY CommandFenceStep
<1> QED
  BY <1>1, <1>2, <1>3, <1>4, CmdInductive, PTL DEF CmdSpec, CommandFenceSpec, CommandFence!Spec

----------------------------------------------------------------------------
(* The inference boundary: the inductive invariant.                        *)

AdmissionSet == [chosen : SUBSET Components, scope : Scopes, seen : Nat]
CapabilitySet == [admitted : AdmissionSet, scope : Scopes]
ProjectionSet == [admitted : AdmissionSet, capability : CapabilitySet, material : SUBSET Components]
RecordSet == [state : LedgerStates, projection : ProjectionSet, key : BOOLEAN,
              retryOf : SUBSET Generations, retries : 0..MaxRetries]

InvTyped ==
  /\ sourceMoves \in Nat
  /\ admissions \subseteq AdmissionSet
  /\ capabilities \subseteq CapabilitySet
  /\ projections \subseteq ProjectionSet
  /\ Reserved \subseteq Generations /\ DOMAIN disk \subseteq Generations
  /\ ledger \in [DOMAIN ledger -> RecordSet]
  /\ disk \in [DOMAIN disk -> LedgerStates]
  /\ sending \in [HostThreads -> SUBSET Generations]
  /\ provider \in [Generations -> {"unseen", "ran", "refused"}]
  /\ executions \in [Generations -> Nat]
  /\ unfounded \subseteq Generations

\* What was admitted and projected may leave for its scope.
Projected(p) ==
  /\ \A c \in p.material : p.capability.scope \in c.scopes /\ c.domain \notin ForbiddenDomains
  /\ Mandatory(Components) \subseteq p.material

BoundaryInv ==
  /\ \A a \in admissions : Mandatory(Components) \subseteq a.chosen
  /\ \A p \in projections : Projected(p)
  /\ \A g \in Reserved : Projected(ledger[g].projection)

\* The provider ran a generation once or not at all.
RanOnce == \A g \in Generations : executions[g] = IF provider[g] = "ran" THEN 1 ELSE 0

\* The provider has seen only what was sent, and what is past its reservation
\* in memory is so on the disk.  Without an idempotency key there is one
\* sender, and the provider has not answered it.
SendingInv ==
  /\ \A g \in Generations :
       (g \in Reserved => ledger[g].state = "RESERVED") => provider[g] = "unseen"
  /\ \A g \in Reserved : g \in DOMAIN disk /\ (disk[g] = "RESERVED" => ledger[g].state = "RESERVED")
  /\ \A t \in HostThreads : \A g \in sending[t] :
       /\ g \in Reserved /\ ledger[g].state # "RESERVED"
       /\ ~ledger[g].key =>
            /\ provider[g] = "unseen"
            /\ \A u \in HostThreads : g \in sending[u] => u = t

\* The provider has not run a failed generation and will not: it refused, or
\* nothing was sent.
Settled(g) == provider[g] = "refused" \/ (provider[g] = "unseen" /\ \A t \in HostThreads : g \notin sending[t])

\* The state of a record is what the provider is known to have done, unless
\* the host recorded it without foundation; what was retried has failed.
StateInv ==
  \A g \in Reserved :
    /\ g \notin unfounded =>
         /\ ledger[g].state \in {"SUBMITTED", "ACKNOWLEDGED", "RESPONSE_BOUND"} => provider[g] = "ran"
         /\ ledger[g].state = "FAILED" => Settled(g)
    /\ \A p \in ledger[g].retryOf : p \in Reserved /\ ledger[p].state = "FAILED"

BoundInv == InvTyped /\ BoundaryInv /\ RanOnce /\ SendingInv /\ StateInv

\* _persist_then_store: the record reaches the disk, and memory only when the
\* write returned.
LEMMA PersistedMeaning ==
  ASSUME InvTyped, NEW g \in Generations, NEW r \in RecordSet, Persisted(g, r)
  PROVE  /\ ledger' \in [DOMAIN ledger' -> RecordSet] /\ disk' \in [DOMAIN disk' -> LedgerStates]
         /\ DOMAIN disk' = DOMAIN disk \cup {g} /\ disk'[g] = r.state
         /\ \A h \in DOMAIN disk \ {g} : disk'[h] = disk[h]
         /\ \/ ledger' = ledger
            \/ /\ DOMAIN ledger' = DOMAIN ledger \cup {g}
               /\ ledger'[g] = r
               /\ \A h \in DOMAIN ledger \ {g} : ledger'[h] = ledger[h]
<1>1. r.state \in LedgerStates
  BY DEF RecordSet
<1>2. /\ With(disk, g, r.state) \in [DOMAIN disk \cup {g} -> LedgerStates]
      /\ With(ledger, g, r) \in [DOMAIN ledger \cup {g} -> RecordSet]
  BY <1>1 DEF With, InvTyped
<1>3. disk' = With(disk, g, r.state) /\ (ledger' = ledger \/ ledger' = With(ledger, g, r))
  BY DEF Persisted
<1>4. /\ With(ledger, g, r)[g] = r /\ With(disk, g, r.state)[g] = r.state
      /\ \A h \in DOMAIN disk \ {g} : With(disk, g, r.state)[h] = disk[h]
      /\ \A h \in DOMAIN ledger \ {g} : With(ledger, g, r)[h] = ledger[h]
  BY DEF With
<1> QED
  BY <1>2, <1>3, <1>4 DEF InvTyped

\* A record moves to another state; a thread may start to send it, with its
\* key or for the first time.
LEMMA RecordMoves ==
  ASSUME BoundInv, NEW g \in Reserved, NEW r \in RecordSet, NEW t,
         r.projection = ledger[g].projection, r.retryOf = ledger[g].retryOf,
         r.key = ledger[g].key \/ ledger[g].state = "RESERVED",
         ledger[g].state # "FAILED", r.state # "RESERVED",
         unfounded \subseteq unfounded', unfounded' \subseteq Generations,
         g \notin unfounded' =>
            /\ r.state \in {"SUBMITTED", "ACKNOWLEDGED", "RESPONSE_BOUND"} => provider[g] = "ran"
            /\ r.state = "FAILED" => provider[g] = "refused" \/ ledger[g].state = "RESERVED",
         Persisted(g, r), UNCHANGED <<bindVars, provider, executions>>,
         sending' \in [HostThreads -> SUBSET Generations],
         \A u \in HostThreads : \A h \in sending'[u] :
            \/ h \in sending[u]
            \/ /\ h = g /\ u = t /\ ledger' # ledger /\ r.state = "SUBMISSION_INTENT"
               /\ ledger[g].key \/ ledger[g].state = "RESERVED"
  PROVE  BoundInv'
<1> USE DEF BoundInv, Reserved
<1>1. g \in Generations
  BY DEF InvTyped
<1>2. /\ ledger' \in [DOMAIN ledger' -> RecordSet] /\ disk' \in [DOMAIN disk' -> LedgerStates]
      /\ DOMAIN disk' = DOMAIN disk \cup {g} /\ disk'[g] = r.state
      /\ \A h \in DOMAIN disk \ {g} : disk'[h] = disk[h]
      /\ DOMAIN ledger' = DOMAIN ledger
      /\ \A h \in DOMAIN ledger \ {g} : ledger'[h] = ledger[h]
      /\ ledger' = ledger \/ ledger'[g] = r
  BY <1>1, PersistedMeaning
<1>3. InvTyped'
  BY <1>1, <1>2 DEF InvTyped, bindVars
<1>4. BoundaryInv'
  BY <1>2 DEF BoundaryInv, bindVars, Projected
<1>5. RanOnce'
  BY DEF RanOnce
<1>6. ledger[g].state = "RESERVED" =>
        provider[g] = "unseen" /\ \A u \in HostThreads : g \notin sending[u]
  BY <1>1 DEF SendingInv
<1>7. StateInv'
  <2>1. ASSUME NEW h \in DOMAIN ledger', h \notin unfounded'
        PROVE  /\ ledger'[h].state \in {"SUBMITTED", "ACKNOWLEDGED", "RESPONSE_BOUND"}
                    => provider'[h] = "ran"
               /\ ledger'[h].state = "FAILED" => Settled(h)'
    <3>1. h \in DOMAIN ledger /\ h \notin unfounded
      BY <1>2, <2>1
    <3>2. CASE ledger'[h] = ledger[h]
      <4>1. ledger[h].state = "FAILED" => h # g
        OBVIOUS
      <4> QED
        BY <3>1, <3>2, <4>1 DEF StateInv, Settled
    <3>3. CASE h = g /\ ledger'[h] = r
      <4>1. r.state = "FAILED" => \A u \in HostThreads : g \in sending'[u] => g \in sending[u]
        OBVIOUS
      <4> QED
        BY <1>6, <2>1, <3>3, <4>1 DEF Settled
    <3> QED
      BY <1>2, <3>1, <3>2, <3>3
  <2>2. ASSUME NEW h \in DOMAIN ledger', NEW p \in ledger'[h].retryOf
        PROVE  p \in DOMAIN ledger' /\ ledger'[p].state = "FAILED"
    BY <1>2, <2>2 DEF StateInv
  <2> QED
    BY <2>1, <2>2 DEF StateInv
<1>8. SendingInv'
  <2>1. ASSUME NEW h \in Generations, h \in DOMAIN ledger' => ledger'[h].state = "RESERVED"
        PROVE  provider'[h] = "unseen"
    BY <1>2, <2>1 DEF SendingInv
  <2>2. \A h \in DOMAIN ledger : ledger[h].state # "RESERVED" => ledger'[h].state # "RESERVED"
    BY <1>2
  <2>3. \A h \in DOMAIN ledger : ledger'[h].key = ledger[h].key \/ (h = g /\ ledger[g].state = "RESERVED")
    BY <1>2
  <2>4. ASSUME NEW u \in HostThreads, NEW h \in sending'[u]
        PROVE  h \in DOMAIN ledger' /\ ledger'[h].state # "RESERVED"
    BY <1>2, <2>2, <2>4 DEF SendingInv
  <2>5. ASSUME NEW u \in HostThreads, NEW h \in sending'[u], ~ledger'[h].key
        PROVE  provider'[h] = "unseen" /\ \A w \in HostThreads : h \in sending'[w] => w = u
    <3>1. CASE h = g /\ ledger[g].state = "RESERVED"
      <4>1. \A w \in HostThreads : g \in sending'[w] => w = t
        BY <1>6, <3>1
      <4> QED
        BY <1>6, <2>5, <3>1, <4>1
    <3>2. CASE ~(h = g /\ ledger[g].state = "RESERVED")
      <4>1. h \in DOMAIN ledger /\ ~ledger[h].key
        BY <1>2, <2>3, <2>4, <2>5, <3>2
      <4> QED
        BY <2>5, <3>2, <4>1 DEF SendingInv
    <3> QED
      BY <3>1, <3>2
  <2>6. ASSUME NEW h \in DOMAIN ledger'
        PROVE  h \in DOMAIN disk' /\ (disk'[h] = "RESERVED" => ledger'[h].state = "RESERVED")
    BY <1>2, <2>6 DEF SendingInv
  <2> QED
    BY <2>1, <2>4, <2>5, <2>6 DEF SendingInv
<1> QED
  BY <1>3, <1>4, <1>5, <1>7, <1>8

\* Admission, capability, projection and the sources: the way to a frontier.
LEMMA BoundaryStep ==
  ASSUME BoundInv, AdmitState \/ BindCapability \/ ProjectContext \/ SourcesMove
  PROVE  BoundInv'
<1> USE DEF BoundInv
<1>1. UNCHANGED <<ledger, disk, callVars>>
  BY DEF AdmitState, BindCapability, ProjectContext, SourcesMove
<1>2. (RanOnce /\ SendingInv /\ StateInv)'
  BY <1>1 DEF RanOnce, SendingInv, StateInv, Settled, callVars, Reserved
<1>3. CASE AdmitState
  <2>1. PICK chosen \in SUBSET Components, scope \in Scopes :
            /\ Admits(Components, chosen, scope)
            /\ admissions' = admissions \cup {[chosen |-> chosen, scope |-> scope, seen |-> sourceMoves]}
    BY <1>3 DEF AdmitState
  <2> QED
    BY <1>1, <1>2, <1>3, <2>1
    DEF AdmitState, InvTyped, BoundaryInv, Admits, AdmissionSet, callVars, Reserved
<1>4. CASE BindCapability
  BY <1>1, <1>2, <1>4 DEF BindCapability, InvTyped, BoundaryInv, CapabilitySet, callVars, Reserved
<1>5. CASE ProjectContext
  <2>1. PICK a \in admissions, c \in capabilities :
            /\ Projectable(a, c)
            /\ projections' = projections
                              \cup {[admitted |-> a, capability |-> c, material |-> a.chosen]}
    BY <1>5 DEF ProjectContext
  <2>2. a \in AdmissionSet /\ c \in CapabilitySet
    BY DEF InvTyped
  <2>3. [admitted |-> a, capability |-> c, material |-> a.chosen] \in ProjectionSet
    BY <2>2 DEF ProjectionSet, AdmissionSet
  <2>4. Projected([admitted |-> a, capability |-> c, material |-> a.chosen])
    BY <2>1 DEF Projectable, Projected, BoundaryInv
  <2> QED
    BY <1>1, <1>2, <1>5, <2>1, <2>3, <2>4
    DEF ProjectContext, InvTyped, BoundaryInv, callVars, Reserved
<1>6. CASE SourcesMove
  BY <1>1, <1>2, <1>6 DEF SourcesMove, InvTyped, BoundaryInv, callVars, Reserved
<1> QED
  BY <1>3, <1>4, <1>5, <1>6

\* reserve: a new generation, bound to a projection and to failed generations.
LEMMA ReserveStep ==
  ASSUME BoundInv, NEW g \in Generations, ReserveGeneration(g)
  PROVE  BoundInv'
<1> USE DEF BoundInv, Reserved
<1>1. PICK p \in projections, prior \in SUBSET (Generations \ {g}) :
        /\ g \notin Reserved
        /\ \A q \in prior : Retryable(q)
        /\ Persisted(g, [state |-> "RESERVED", projection |-> p, key |-> FALSE,
                         retryOf |-> prior, retries |-> 0])
        /\ UNCHANGED <<bindVars, callVars>>
  BY DEF ReserveGeneration
<1> DEFINE r == [state |-> "RESERVED", projection |-> p, key |-> FALSE, retryOf |-> prior, retries |-> 0]
<1>2. r \in RecordSet
  BY InferenceAssumption DEF RecordSet, LedgerStates, InvTyped
<1>3. r.state = "RESERVED" /\ r.projection = p /\ r.retryOf = prior
  OBVIOUS
<1>4. Persisted(g, r)
  BY <1>1
<1> HIDE DEF r
<1>5. /\ ledger' \in [DOMAIN ledger' -> RecordSet] /\ disk' \in [DOMAIN disk' -> LedgerStates]
      /\ DOMAIN disk' = DOMAIN disk \cup {g} /\ \A h \in DOMAIN disk \ {g} : disk'[h] = disk[h]
      /\ \/ ledger' = ledger
         \/ /\ DOMAIN ledger' = DOMAIN ledger \cup {g}
            /\ ledger'[g] = r
            /\ \A h \in DOMAIN ledger \ {g} : ledger'[h] = ledger[h]
  BY <1>2, <1>4, PersistedMeaning
<1>6. InvTyped'
  BY <1>1, <1>5 DEF InvTyped, bindVars, callVars
<1>7. BoundaryInv'
  BY <1>1, <1>3, <1>5 DEF BoundaryInv, bindVars
<1>8. RanOnce'
  BY <1>1 DEF RanOnce, callVars
<1>9. StateInv'
  BY <1>1, <1>3, <1>5 DEF StateInv, Settled, callVars, Retryable
<1>10. SendingInv'
  BY <1>1, <1>3, <1>5 DEF SendingInv, callVars
<1> QED
  BY <1>6, <1>7, <1>8, <1>9, <1>10

\* The other steps of the frontier, and the provider's.
LEMMA FrontierStep ==
  ASSUME BoundInv, NEW g \in Generations,
         \/ MarkSubmitted(g) \/ Acknowledge(g) \/ BindResponse(g) \/ RecoverAmbiguous(g)
         \/ MarkFailed(g)
  PROVE  BoundInv'
<1>1. PICK from \in SUBSET {"RESERVED", "SUBMISSION_INTENT", "SUBMITTED", "ACKNOWLEDGED"},
           to \in LedgerStates \ {"RESERVED"} :
        /\ Moved(g, from, to)
        /\ g \notin unfounded' =>
             /\ to \in {"SUBMITTED", "ACKNOWLEDGED", "RESPONSE_BOUND"} => provider[g] = "ran"
             /\ to = "FAILED" => provider[g] = "refused" \/ ledger[g].state = "RESERVED"
        /\ unfounded' = unfounded \/ unfounded' = unfounded \cup {g}
        /\ UNCHANGED <<sending, provider, executions>>
  BY DEF MarkSubmitted, Acknowledge, BindResponse, RecoverAmbiguous, MarkFailed, LedgerStates, Said,
         callVars
<1> DEFINE r == [ledger[g] EXCEPT !.state = to]
<1>2. g \in Reserved /\ ledger[g] \in RecordSet /\ ledger[g].state # "FAILED"
  BY <1>1 DEF Moved, Reserved, BoundInv, InvTyped
<1>3. /\ r \in RecordSet /\ r.state = to /\ r.projection = ledger[g].projection
      /\ r.key = ledger[g].key /\ r.retryOf = ledger[g].retryOf
  BY <1>2 DEF RecordSet
<1>4. Persisted(g, r) /\ UNCHANGED <<bindVars, provider, executions, sending>>
  BY <1>1 DEF Moved
<1> HIDE DEF r
<1>5. /\ sending' \in [HostThreads -> SUBSET Generations]
      /\ unfounded \subseteq unfounded' /\ unfounded' \subseteq Generations
  BY <1>1, <1>4 DEF BoundInv, InvTyped
<1> QED
  BY <1>1, <1>2, <1>3, <1>4, <1>5, RecordMoves

\* submission_intent and authorize_transport_retry: a thread starts to send.
LEMMA SendStep ==
  ASSUME BoundInv, NEW t \in HostThreads, NEW g \in Generations,
         SubmissionIntent(t, g) \/ AuthorizeTransportRetry(t, g)
  PROVE  BoundInv'
<1>1. sending \in [HostThreads -> SUBSET Generations] /\ sending[t] = {}
  <2>1. sending[t] = {}
    BY Zenon DEF SubmissionIntent, AuthorizeTransportRetry
  <2> QED
    BY <2>1 DEF BoundInv, InvTyped
<1>2. PICK r \in RecordSet :
        /\ g \in Reserved /\ ledger[g].state # "FAILED"
        /\ r.projection = ledger[g].projection
        /\ r.key = ledger[g].key \/ ledger[g].state = "RESERVED"
        /\ r.retryOf = ledger[g].retryOf /\ r.state = "SUBMISSION_INTENT"
        /\ ledger[g].key \/ ledger[g].state = "RESERVED"
        /\ Persisted(g, r)
  <2>1. CASE SubmissionIntent(t, g)
    <3>1. /\ g \in Reserved /\ ledger[g].state = "RESERVED"
          /\ \E key \in BOOLEAN :
               Persisted(g, [ledger[g] EXCEPT !.state = "SUBMISSION_INTENT", !.key = key])
      BY <2>1, Zenon DEF SubmissionIntent
    <3>2. PICK key \in BOOLEAN :
            Persisted(g, [ledger[g] EXCEPT !.state = "SUBMISSION_INTENT", !.key = key])
      BY <3>1, Zenon
    <3>4. ledger[g] \in RecordSet
      BY <3>1 DEF Reserved, BoundInv, InvTyped
    <3>3. [ledger[g] EXCEPT !.state = "SUBMISSION_INTENT", !.key = key] \in RecordSet
      BY <3>4 DEF RecordSet, LedgerStates
    <3> QED
      BY <3>1, <3>2, <3>3, <3>4 DEF RecordSet
  <2>2. CASE AuthorizeTransportRetry(t, g)
    <3>1. /\ g \in Reserved /\ ledger[g].state = "OUTCOME_UNKNOWN" /\ ledger[g].key
          /\ ledger[g].retries < MaxRetries /\ ledger[g] \in RecordSet
      BY <2>2 DEF AuthorizeTransportRetry, TransportRetriable, Reserved, BoundInv, InvTyped
    <3> DEFINE r == [ledger[g] EXCEPT !.state = "SUBMISSION_INTENT", !.retries = @ + 1]
    <3> DEFINE q == ledger[g].retries + 1
    <3>2. q \in 0..MaxRetries
      BY <3>1, InferenceAssumption DEF RecordSet
    <3>3. r = [ledger[g] EXCEPT !.state = "SUBMISSION_INTENT", !.retries = q]
      BY <3>1 DEF RecordSet
    <3>4. r \in RecordSet
      <4> HIDE DEF q, r
      <4> QED
        BY <3>1, <3>2, <3>3 DEF RecordSet, LedgerStates
    <3>5. /\ r.projection = ledger[g].projection /\ r.key = ledger[g].key
          /\ r.retryOf = ledger[g].retryOf /\ r.state = "SUBMISSION_INTENT"
      BY <3>1 DEF RecordSet
    <3>6. Persisted(g, r)
      BY <2>2 DEF AuthorizeTransportRetry
    <3> HIDE DEF r
    <3> QED
      BY <3>1, <3>4, <3>5, <3>6
  <2> QED
    BY <2>1, <2>2
<1>3. /\ UNCHANGED <<bindVars, provider, executions, unfounded>>
      /\ sending' = [sending EXCEPT ![t] = IF Stored(g) THEN {g} ELSE {}]
  BY Zenon DEF SubmissionIntent, AuthorizeTransportRetry
<1>4. /\ sending' \in [HostThreads -> SUBSET Generations]
      /\ \A u \in HostThreads : \A h \in sending'[u] :
            h \in sending[u] \/ (h = g /\ u = t /\ ledger' # ledger)
      /\ unfounded' \subseteq Generations
  BY <1>1, <1>3 DEF Stored, BoundInv, InvTyped
<1> QED
  BY <1>2, <1>3, <1>4, RecordMoves

\* A request reaches the provider, or is lost on the way.
LEMMA DeliverStep ==
  ASSUME BoundInv, NEW t \in HostThreads, NEW g \in Generations, Deliver(t, g)
  PROVE  BoundInv'
<1> USE DEF BoundInv, Reserved
<1>1. /\ g \in sending[t] /\ g \in Reserved /\ ledger[g].state # "RESERVED"
      /\ sending' = [sending EXCEPT ![t] = {}]
      /\ UNCHANGED <<bindVars, ledger, disk, unfounded>>
  BY DEF Deliver, SendingInv
<1>2. \/ UNCHANGED <<provider, executions>>
      \/ /\ provider[g] = "unseen"
         /\ provider' = [provider EXCEPT ![g] = "ran"]
         /\ executions' = [executions EXCEPT ![g] = @ + 1]
      \/ /\ provider[g] = "unseen"
         /\ provider' = [provider EXCEPT ![g] = "refused"]
         /\ UNCHANGED executions
  BY <1>1 DEF Deliver, SendingInv
<1>3. sending' \in [HostThreads -> SUBSET Generations]
  BY <1>1 DEF InvTyped
<1>4. \A u \in HostThreads : sending'[u] = IF u = t THEN {} ELSE sending[u]
  BY <1>1 DEF InvTyped
<1>5. InvTyped' /\ BoundaryInv'
  BY <1>1, <1>2, <1>3 DEF InvTyped, BoundaryInv, bindVars
<1>6. RanOnce'
  BY <1>2 DEF RanOnce, InvTyped
<1>7. StateInv'
  <2>1. ASSUME NEW h \in DOMAIN ledger, Settled(h) PROVE Settled(h)'
    BY <1>1, <1>2, <1>4, <2>1 DEF Settled, InvTyped
  <2>2. ASSUME NEW h \in DOMAIN ledger, provider[h] = "ran" PROVE provider'[h] = "ran"
    BY <1>2, <2>2 DEF InvTyped
  <2> QED
    BY <1>1, <2>1, <2>2 DEF StateInv
<1>8. SendingInv'
  <2>1. \A h \in Generations \ {g} : provider'[h] = provider[h]
    BY <1>2 DEF InvTyped
  <2>2. ASSUME NEW h \in Generations, h \in DOMAIN ledger' => ledger'[h].state = "RESERVED"
        PROVE  provider'[h] = "unseen"
    BY <1>1, <2>1, <2>2 DEF SendingInv
  <2>3. ASSUME NEW u \in HostThreads, NEW h \in sending'[u]
        PROVE  /\ h \in DOMAIN ledger' /\ ledger'[h].state # "RESERVED"
               /\ ~ledger'[h].key =>
                    /\ provider'[h] = "unseen"
                    /\ \A w \in HostThreads : h \in sending'[w] => w = u
    <3>1. u # t /\ h \in sending[u] /\ h \in Generations
      BY <1>3, <1>4, <2>3 DEF InvTyped
    <3>2. ~ledger[h].key => h # g
      BY <1>1, <3>1 DEF SendingInv
    <3> QED
      BY <1>1, <1>4, <2>1, <3>1, <3>2 DEF SendingInv
  <2> QED
    BY <1>1, <2>2, <2>3 DEF SendingInv
<1> QED
  BY <1>5, <1>6, <1>7, <1>8

\* The invariant holds of any components, generations and threads.
LEMMA BoundInductive == InvSpec => []BoundInv
<1>1. InvInit => BoundInv
  BY DEF InvInit, BoundInv, InvTyped, BoundaryInv, RanOnce, SendingInv, StateInv, Settled, Reserved
<1>2. BoundInv /\ [InvNext]_invVars => BoundInv'
  <2> SUFFICES ASSUME BoundInv, [InvNext]_invVars PROVE BoundInv'
    OBVIOUS
  <2>1. CASE UNCHANGED invVars
    BY <2>1 DEF invVars, BoundInv, InvTyped, BoundaryInv, RanOnce, SendingInv, StateInv, Settled,
                Reserved
  <2>2. CASE InvNext
    BY <2>2, BoundaryStep, ReserveStep, FrontierStep, SendStep, DeliverStep DEF InvNext
  <2> QED
    BY <2>1, <2>2
<1> QED
  BY <1>1, <1>2, PTL DEF InvSpec

\* The frontier's records, the write-ahead copy and the provider's view keep
\* their types (inference_boundary.py).
THEOREM InvocationTypeCorrect == InvSpec => []InvTypeOK
<1>1. BoundInv => InvTypeOK
  BY InferenceAssumption DEF BoundInv, InvTyped, InvTypeOK, RecordSet, Reserved
<1> QED
  BY <1>1, BoundInductive, PTL

\* What a receipt claims of the provider is in the state of its record.
LEMMA EvidenceMeaning ==
  ASSUME NEW s, EvidenceLevel(s) # "REQUEST_CONSTRUCTED"
  PROVE  s \in {"SUBMITTED", "ACKNOWLEDGED", "RESPONSE_BOUND"}
BY DEF EvidenceLevel

\* An invocation runs at most once, is written ahead of being sent and
\* carries only what may leave for its scope, for any set of components and
\* any number of threads that stall and retry, and its receipts are true of
\* the provider unless the host recorded what the provider had not said
\* (inference_boundary.py).
THEOREM InvocationIsSound == InvSpec => []InvocationSound
<1>1. BoundInv => InvocationSound
  <2> SUFFICES ASSUME BoundInv PROVE InvocationSound
    OBVIOUS
  <2>1. \A g \in Generations : executions[g] <= 1
    BY DEF BoundInv, RanOnce
  <2>2. \A g \in Reserved \ unfounded : ledger[g].state = "FAILED" => executions[g] = 0
    BY DEF BoundInv, RanOnce, StateInv, Settled, InvTyped
  <2>3. \A g \in Generations :
          executions[g] > 0 \/ (\E t \in HostThreads : g \in sending[t]) =>
            g \in DOMAIN disk /\ disk[g] # "RESERVED"
    <3>1. \A g \in Generations : executions[g] > 0 => provider[g] # "unseen"
      BY DEF BoundInv, RanOnce
    <3> QED
      BY <3>1 DEF BoundInv, SendingInv
  <2>4. EgressKept
    BY DEF BoundInv, BoundaryInv, Projected, EgressKept
  <2>5. ReceiptsTruthful
    BY <2>2, EvidenceMeaning DEF BoundInv, RanOnce, StateInv, InvTyped, ReceiptsTruthful
  <2>6. \A g \in Reserved : \A p \in ledger[g].retryOf :
          /\ p \in Reserved /\ ledger[p].state = "FAILED"
          /\ p \notin unfounded => executions[p] = 0
    BY <2>2 DEF BoundInv, StateInv
  <2> QED
    BY <2>1, <2>3, <2>4, <2>5, <2>6 DEF InvocationSound, InvocationOnce
<1> QED
  BY <1>1, BoundInductive, PTL
=============================================================================
