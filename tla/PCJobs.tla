------------------------------- MODULE PCJobs -------------------------------
(***************************************************************************)
(* One PC job: the job, attempt and cancellation state machines of         *)
(* vera_pc_connection (state_machine.py), the local attempt journal        *)
(* (journal.py), and the qualified execution adapter of vera_core          *)
(* (qualified_pc.py), which runs an attempt under the effect fence.        *)
(*                                                                         *)
(* The server that keeps the job is not in the repository: it applies the  *)
(* transition functions, one step each, with guards that are true of the   *)
(* state.  Journal and fence are two SQLite files.  execute() reads one,   *)
(* then the other, and writes them in further transactions; executors of   *)
(* the same or of another attempt run in between and may die at any step.  *)
(* An operation that changes nothing outside ("READ") runs through the     *)
(* adapter; one that does ("WRITE") is run by the host agent, from the     *)
(* journal alone.                                                          *)
(***************************************************************************)
EXTENDS Naturals, FiniteSets

CONSTANTS Executors,     \* processes that call the adapter
          MaxAttempts    \* bound: JobEnvelope.max_attempts

ASSUME PCJobsAssumption == MaxAttempts \in Nat \ {0}

JobAttempts == 1..MaxAttempts

VARIABLES
    effectClass,  \* "READ" (side_effect_class NONE) or "WRITE"
    pcJob,        \* the server's job state
    pcAttempt,    \* pcAttempt[a]: the server's attempt state, "NONE" before the claim
    pcCancel,     \* the server's cancellation state
    leased,       \* the lease and fence of the newest attempt are current
    inWindow,     \* the job's and the authorization's time windows are open
    pcJournal,    \* pcJournal[a]: local_state of the attempt's row, "NONE" without one
    pcRow,        \* the effect fence row of pc:<envelope_id>
    pcRuns,       \* pcRuns[a]: how often attempt a reached the machine
    pcExec        \* pcExec[x]: the call executor x is in the middle of

serverVars == <<pcJob, pcAttempt, pcCancel, leased>>
pcVars == <<effectClass, serverVars, inWindow, pcJournal, pcRow, pcRuns, pcExec>>

----------------------------------------------------------------------------
(* state_machine.py                                                        *)

JobStates == {"SUBMITTED", "PENDING_AUTHORIZATION", "AUTHORIZED", "QUEUED", "CLAIMED", "RUNNING",
              "RECOVERY_REQUIRED", "SUCCEEDED", "FAILED", "CANCELLED", "REJECTED", "EXPIRED"}
TerminalJobStates == {"SUCCEEDED", "FAILED", "CANCELLED", "REJECTED", "EXPIRED"}

JobEvents == {"REQUEST_AUTHORIZATION", "AUTHORIZE", "REJECT", "QUEUE", "CLAIM", "START", "COMPLETE",
              "FAIL_TERMINAL", "FAIL_RETRYABLE", "LEASE_EXPIRE", "RECOVER_NO_EFFECT",
              "RECOVER_SUCCESS", "RECOVER_FAILURE", "REQUEST_CANCEL", "ACK_CANCEL", "EXPIRE"}

AttemptStates == {"NONE", "CLAIMED", "STARTING", "RUNNING", "SUCCEEDED", "FAILED", "CANCELLED",
                  "LEASE_EXPIRED", "ABANDONED"}

Illegal == "ILLEGAL"    \* StateTransitionError

\* Transitions that ask for nothing.
Direct(s, e) ==
    CASE s = "SUBMITTED" /\ e = "REQUEST_AUTHORIZATION" -> "PENDING_AUTHORIZATION"
      [] s = "PENDING_AUTHORIZATION" /\ e = "AUTHORIZE" -> "AUTHORIZED"
      [] s = "PENDING_AUTHORIZATION" /\ e = "REJECT" -> "REJECTED"
      [] s = "AUTHORIZED" /\ e = "QUEUE" -> "QUEUED"
      [] s = "QUEUED" /\ e = "CLAIM" -> "CLAIMED"
      [] OTHER -> Illegal

\* An attempt is over: try again, give up, or find out what it did.
Retried(g) ==
    IF g.effect # "NONE" THEN "RECOVERY_REQUIRED"
    ELSE IF g.remaining THEN "QUEUED" ELSE "FAILED"

\* Progress and failure of the attempt that holds the lease.
Leased(s, e, g) ==
    CASE e = "START" /\ s = "CLAIMED" /\ g.fence -> "RUNNING"
      [] e = "COMPLETE" /\ s = "RUNNING" /\ g.fence -> "SUCCEEDED"
      [] e = "FAIL_TERMINAL" /\ s \in {"CLAIMED", "RUNNING"} /\ g.fence -> "FAILED"
      [] e = "FAIL_TERMINAL" /\ s = "RECOVERY_REQUIRED" -> "FAILED"
      [] e = "FAIL_RETRYABLE" /\ s \in {"CLAIMED", "RUNNING"} /\ g.fence -> Retried(g)
      [] e = "LEASE_EXPIRE" /\ s \in {"CLAIMED", "RUNNING"} -> Retried(g)
      [] OTHER -> Illegal

\* Resolution of RECOVERY_REQUIRED by an independent readback.
Recovered(s, e, g) ==
    CASE s # "RECOVERY_REQUIRED" \/ ~g.readback -> Illegal
      [] e = "RECOVER_NO_EFFECT" /\ g.effect = "NONE" -> IF g.remaining THEN "QUEUED" ELSE "FAILED"
      [] e = "RECOVER_SUCCESS" /\ g.effect = "CONFIRMED" -> "SUCCEEDED"
      [] e = "RECOVER_FAILURE" -> "FAILED"
      [] OTHER -> Illegal

BusyJobStates == {"CLAIMED", "RUNNING", "RECOVERY_REQUIRED"}

\* Cancellation and expiry.
Ended(s, e, g) ==
    CASE e = "REQUEST_CANCEL" -> IF s \in BusyJobStates THEN s ELSE "CANCELLED"
      [] e = "ACK_CANCEL" /\ s \in BusyJobStates /\ g.cancel \in {"REQUESTED", "OBSERVED", "STOPPING"}
            /\ (g.fence \/ s = "RECOVERY_REQUIRED") -> "CANCELLED"
      [] e = "EXPIRE" /\ s \in {"RUNNING", "RECOVERY_REQUIRED"}
            /\ (~g.safe \/ g.effect \in {"POSSIBLE", "UNKNOWN"}) -> "RECOVERY_REQUIRED"
      [] e = "EXPIRE" /\ g.safe -> "EXPIRED"
      [] OTHER -> Illegal

\* transition_job
TransitionJob(s, e, g) ==
    IF s \in TerminalJobStates THEN Illegal
    ELSE CASE e \in {"REQUEST_AUTHORIZATION", "AUTHORIZE", "REJECT", "QUEUE", "CLAIM"} -> Direct(s, e)
           [] e \in {"START", "COMPLETE", "FAIL_TERMINAL", "FAIL_RETRYABLE", "LEASE_EXPIRE"} ->
                  Leased(s, e, g)
           [] e \in {"RECOVER_NO_EFFECT", "RECOVER_SUCCESS", "RECOVER_FAILURE"} -> Recovered(s, e, g)
           [] OTHER -> Ended(s, e, g)

\* transition_attempt, for the job event the server is applying.
TransitionAttempt(s, e) ==
    CASE e = "START" /\ s = "STARTING" -> "RUNNING"
      [] e = "COMPLETE" /\ s = "RUNNING" -> "SUCCEEDED"
      [] e \in {"FAIL_TERMINAL", "FAIL_RETRYABLE"} /\ s \in {"CLAIMED", "STARTING", "RUNNING"} -> "FAILED"
      [] e = "ACK_CANCEL" /\ s \in {"CLAIMED", "STARTING", "RUNNING"} -> "CANCELLED"
      [] e = "LEASE_EXPIRE" /\ s \in {"CLAIMED", "STARTING", "RUNNING"} -> "LEASE_EXPIRED"
      [] OTHER -> s

\* transition_cancellation
CancellationNext(s) ==
    CASE s = "NONE" -> {"REQUESTED"}
      [] s = "REQUESTED" -> {"OBSERVED", "ACKNOWLEDGED"}
      [] s = "OBSERVED" -> {"STOPPING", "ACKNOWLEDGED"}
      [] s = "STOPPING" -> {"ACKNOWLEDGED"}
      [] OTHER -> {}

----------------------------------------------------------------------------
(* The server.                                                             *)

JournalStates == {"NONE", "CLAIMED", "PREPARING", "EFFECT_STARTED", "RESULT_OBSERVED",
                  "RECOVERY_REQUIRED", "COMPLETING", "TERMINAL_CONFIRMED", "ABANDONED"}
JournalTerminal == {"TERMINAL_CONFIRMED", "ABANDONED"}
HasResult == {"RESULT_OBSERVED", "COMPLETING", "TERMINAL_CONFIRMED"}

RowSuccess == {"COMMITTED", "RECONCILED_COMMITTED"}
RowAmbiguous == {"EXECUTING", "ATTEMPTED_UNKNOWN"}

\* Attempts are numbered from 1, one claim after the other.
NewestAttempt == Cardinality({a \in JobAttempts : pcAttempt[a] # "NONE"})

\* What can truly be said of the job's side effect.
EffectStatus ==
    IF effectClass = "READ"
    THEN CASE pcRow \in RowSuccess -> {"CONFIRMED"}
           [] pcRow \in RowAmbiguous -> {"POSSIBLE", "UNKNOWN"}
           [] OTHER -> {"NONE"}
    ELSE CASE \E a \in JobAttempts : pcJournal[a] \in HasResult -> {"CONFIRMED"}
           [] \E a \in JobAttempts : pcRuns[a] > 0 -> {"POSSIBLE", "UNKNOWN"}
           [] OTHER -> {"NONE"}

Guards(effect) ==
    [fence |-> leased, remaining |-> NewestAttempt < MaxAttempts, effect |-> effect,
     readback |-> TRUE, cancel |-> pcCancel, safe |-> ~inWindow]

ServerApplies(e) ==
    /\ pcJob \notin TerminalJobStates
    /\ \E effect \in EffectStatus :
           LET next == TransitionJob(pcJob, e, Guards(effect)) IN
           /\ next # Illegal
           /\ e = "COMPLETE" => pcJournal[NewestAttempt] = "COMPLETING" /\ pcAttempt[NewestAttempt] = "RUNNING"
           /\ e = "START" => pcAttempt[NewestAttempt] = "STARTING"
           /\ e = "CLAIM" => NewestAttempt < MaxAttempts
           /\ pcJob' = next
           /\ pcAttempt' = IF e = "CLAIM" THEN [pcAttempt EXCEPT ![NewestAttempt + 1] = "CLAIMED"]
                         ELSE IF NewestAttempt = 0 THEN pcAttempt
                         ELSE [pcAttempt EXCEPT ![NewestAttempt] = TransitionAttempt(@, e)]
           /\ leased' = (e = "CLAIM" \/ (leased /\ next \in {"CLAIMED", "RUNNING"}))
           /\ pcCancel' = IF e = "REQUEST_CANCEL" /\ pcCancel = "NONE" THEN "REQUESTED" ELSE pcCancel
           /\ UNCHANGED <<effectClass, inWindow, pcJournal, pcRow, pcRuns, pcExec>>

\* The host tells the server that it begins; PREPARE_START.
ServerPreparing ==
    /\ NewestAttempt # 0 /\ leased
    /\ pcAttempt[NewestAttempt] = "CLAIMED"
    /\ pcAttempt' = [pcAttempt EXCEPT ![NewestAttempt] = "STARTING"]
    /\ UNCHANGED <<effectClass, pcJob, pcCancel, leased, inWindow, pcJournal, pcRow, pcRuns, pcExec>>

ServerCancellation ==
    /\ pcCancel # "NONE" /\ pcJob \in BusyJobStates
    /\ \E s \in CancellationNext(pcCancel) : pcCancel' = s
    /\ UNCHANGED <<effectClass, pcJob, pcAttempt, leased, inWindow, pcJournal, pcRow, pcRuns, pcExec>>

WindowCloses ==
    /\ inWindow
    /\ inWindow' = FALSE
    /\ UNCHANGED <<effectClass, serverVars, pcJournal, pcRow, pcRuns, pcExec>>

----------------------------------------------------------------------------
(* The journal: _transition checks the state and writes row and event in   *)
(* one transaction, or raises.                                             *)

ExecIdle == [step |-> "idle", a |-> 0, seen |-> "NONE"]

JournalTo(a, from, to) ==
    /\ pcJournal[a] \in from
    /\ pcJournal' = [pcJournal EXCEPT ![a] = to]

\* require_recovery; it raises in a terminal state and in RECOVERY_REQUIRED.
RecoverableStates == {"CLAIMED", "PREPARING", "EFFECT_STARTED", "RESULT_OBSERVED", "COMPLETING"}

TryRequireRecovery(a) ==
    pcJournal' = IF pcJournal[a] \in RecoverableStates
               THEN [pcJournal EXCEPT ![a] = "RECOVERY_REQUIRED"] ELSE pcJournal

ExecReturn(x) == pcExec' = [pcExec EXCEPT ![x] = ExecIdle]
ExecStep(x, s) == pcExec' = [pcExec EXCEPT ![x] = [step |-> s, a |-> @.a, seen |-> "NONE"]]

PCInit ==
    /\ effectClass \in {"READ", "WRITE"}
    /\ pcJob = "SUBMITTED" /\ pcCancel = "NONE" /\ leased = FALSE /\ inWindow = TRUE
    /\ pcAttempt = [a \in JobAttempts |-> "NONE"]
    /\ pcJournal = [a \in JobAttempts |-> "NONE"]
    /\ pcRow = "ABSENT"
    /\ pcRuns = [a \in JobAttempts |-> 0]
    /\ pcExec = [x \in Executors |-> ExecIdle]

----------------------------------------------------------------------------
(* execute(): bind, assess, claim, prepare, dispatch, record.              *)

\* The lease of the attempt is in the caller's hands; assess reads the journal.
ExecuteBegin(x, a) ==
    /\ effectClass = "READ"
    /\ pcExec[x].step = "idle"
    /\ pcAttempt[a] # "NONE"
    /\ pcExec' = [pcExec EXCEPT ![x] = [step |-> "assess", a |-> a, seen |-> pcJournal[a]]]
    /\ UNCHANGED <<effectClass, serverVars, inWindow, pcJournal, pcRow, pcRuns>>

\* assess: what the journal said and what the fence says now.
Assessed(seen) ==
    CASE seen = "NONE" -> "claim"
      [] seen \in JournalTerminal -> "idle"
      [] seen = "CLAIMED" /\ pcRow = "ABSENT" -> "prepare"
      [] seen = "PREPARING" /\ pcRow = "ABSENT" -> "reserve"
      [] seen = "RESULT_OBSERVED" /\ pcRow \in RowSuccess -> "idle"
      [] pcRow = "RESERVED" -> "idle"
      [] seen = "RECOVERY_REQUIRED" -> "idle"
      [] OTHER -> "recover"

ExecuteAssess(x) ==
    /\ pcExec[x].step = "assess"
    /\ IF Assessed(pcExec[x].seen) = "idle" THEN ExecReturn(x) ELSE ExecStep(x, Assessed(pcExec[x].seen))
    /\ UNCHANGED <<effectClass, serverVars, inWindow, pcJournal, pcRow, pcRuns>>

ExecuteRecover(x) ==
    /\ pcExec[x].step = "recover"
    /\ TryRequireRecovery(pcExec[x].a)
    /\ ExecReturn(x)
    /\ UNCHANGED <<effectClass, serverVars, inWindow, pcRow, pcRuns>>

\* record_claim; the replay of an identical claim returns the row as it is.
ExecuteClaim(x) ==
    LET a == pcExec[x].a
        now == IF pcJournal[a] = "NONE" THEN "CLAIMED" ELSE pcJournal[a]
    IN
    /\ pcExec[x].step = "claim"
    /\ pcJournal' = [pcJournal EXCEPT ![a] = now]
    /\ ExecStep(x, IF now = "CLAIMED" THEN "prepare" ELSE "reserve")
    /\ UNCHANGED <<effectClass, serverVars, inWindow, pcRow, pcRuns>>

ExecutePrepare(x) ==
    /\ pcExec[x].step = "prepare"
    /\ IF pcJournal[pcExec[x].a] = "CLAIMED"
       THEN JournalTo(pcExec[x].a, {"CLAIMED"}, "PREPARING") /\ ExecStep(x, "reserve")
       ELSE ExecReturn(x) /\ UNCHANGED pcJournal
    /\ UNCHANGED <<effectClass, serverVars, inWindow, pcRow, pcRuns>>

\* dispatch_pc_job up to the reservation: the windows are open and the fence
\* has no row, or the same request's.
ExecuteReserve(x) ==
    /\ pcExec[x].step = "reserve"
    /\ IF inWindow
       THEN pcRow' = (IF pcRow = "ABSENT" THEN "RESERVED" ELSE pcRow) /\ ExecStep(x, "dispatch")
       ELSE UNCHANGED pcRow /\ ExecStep(x, "raised")
    /\ UNCHANGED <<effectClass, serverVars, inWindow, pcJournal, pcRuns>>

\* Mutation: the claim does not look at the state of the row.
Claimable_Any == {"RESERVED", "EXECUTING", "ATTEMPTED_UNKNOWN", "COMMITTED"}

Claimable == {"RESERVED"}

\* The single-use claim; then execute() is called.
ExecuteDispatch(x) ==
    /\ pcExec[x].step = "dispatch"
    /\ IF pcRow \in Claimable
       THEN /\ pcRow' = "EXECUTING"
            /\ pcRuns' = [pcRuns EXCEPT ![pcExec[x].a] = @ + 1]
            /\ ExecStep(x, "running")
       ELSE ExecStep(x, "raised") /\ UNCHANGED <<pcRow, pcRuns>>
    /\ UNCHANGED <<effectClass, serverVars, inWindow, pcJournal>>

\* The transport returns, or raises with the outcome not known.
ExecuteSettle(x, known) ==
    /\ pcExec[x].step = "running"
    /\ IF pcRow = "EXECUTING"
       THEN pcRow' = IF known THEN "COMMITTED" ELSE "ATTEMPTED_UNKNOWN"
       ELSE UNCHANGED pcRow
    /\ ExecStep(x, IF known /\ pcRow = "EXECUTING" THEN "record" ELSE "raised")
    /\ UNCHANGED <<effectClass, serverVars, inWindow, pcJournal, pcRuns>>

\* Mutation: a raised dispatch is journaled like one that returned.
ExecuteRaised_Result(x) ==
    /\ pcExec[x].step = "raised"
    /\ JournalTo(pcExec[x].a, {"PREPARING"}, "RESULT_OBSERVED")
    /\ ExecReturn(x)
    /\ UNCHANGED <<effectClass, serverVars, inWindow, pcRow, pcRuns>>

\* The except clause: evidence of a dispatch is kept as RECOVERY_REQUIRED.
ExecuteRaised(x) ==
    /\ pcExec[x].step = "raised"
    /\ IF pcRow \in RowSuccess \cup RowAmbiguous THEN TryRequireRecovery(pcExec[x].a) ELSE UNCHANGED pcJournal
    /\ ExecReturn(x)
    /\ UNCHANGED <<effectClass, serverVars, inWindow, pcRow, pcRuns>>

\* record_result of a side-effect-free operation: only while PREPARING.
ExecuteRecord(x) ==
    LET a == pcExec[x].a IN
    /\ pcExec[x].step = "record"
    /\ IF pcJournal[a] = "PREPARING"
       THEN JournalTo(a, {"PREPARING"}, "RESULT_OBSERVED") ELSE UNCHANGED pcJournal
    /\ ExecReturn(x)
    /\ UNCHANGED <<effectClass, serverVars, inWindow, pcRow, pcRuns>>

\* Mutation: the reservation is not looked at again when the attempt is cancelled.
CancelFence_Stale(x) ==
    /\ pcExec[x].step = "cancel"
    /\ pcRow' = "CANCELLED_PRE_DISPATCH"
    /\ ExecStep(x, "abandon")
    /\ UNCHANGED <<effectClass, serverVars, inWindow, pcJournal, pcRuns>>

\* cancel_reserved_attempt: assess, cancel the reservation, abandon the attempt.
CancelReservedBegin(x, a) ==
    /\ effectClass = "READ"
    /\ pcExec[x].step = "idle"
    /\ pcAttempt[a] # "NONE"
    /\ pcJournal[a] \notin JournalTerminal \cup {"NONE"}
    /\ pcRow = "RESERVED"
    /\ pcExec' = [pcExec EXCEPT ![x] = [step |-> "cancel", a |-> a, seen |-> "NONE"]]
    /\ UNCHANGED <<effectClass, serverVars, inWindow, pcJournal, pcRow, pcRuns>>

CancelFence(x) ==
    /\ pcExec[x].step = "cancel"
    /\ IF pcRow = "RESERVED"
       THEN pcRow' = "CANCELLED_PRE_DISPATCH" /\ ExecStep(x, "abandon")
       ELSE ExecReturn(x) /\ UNCHANGED pcRow
    /\ UNCHANGED <<effectClass, serverVars, inWindow, pcJournal, pcRuns>>

CancelAbandon(x) ==
    LET a == pcExec[x].a IN
    /\ pcExec[x].step = "abandon"
    /\ IF pcJournal[a] \notin JournalTerminal
       THEN pcJournal' = [pcJournal EXCEPT ![a] = "ABANDONED"] ELSE UNCHANGED pcJournal
    /\ ExecReturn(x)
    /\ UNCHANGED <<effectClass, serverVars, inWindow, pcRow, pcRuns>>

ExecutorDies(x) ==
    /\ pcExec[x].step # "idle"
    /\ ExecReturn(x)
    /\ UNCHANGED <<effectClass, serverVars, inWindow, pcJournal, pcRow, pcRuns>>

\* reconcile_unknown of the effect fence, by an operator.
ReconcileRow(occurred) ==
    /\ pcRow \in RowAmbiguous
    /\ pcRow' = IF occurred THEN "RECONCILED_COMMITTED" ELSE "RECONCILED_NO_EFFECT"
    /\ UNCHANGED <<effectClass, serverVars, inWindow, pcJournal, pcRuns, pcExec>>

----------------------------------------------------------------------------
(* Completion, and the host agent that runs a WRITE operation.             *)

HostQuiet == UNCHANGED <<effectClass, serverVars, inWindow, pcRow, pcExec>>

SubmitCompletion(a) ==
    JournalTo(a, {"RESULT_OBSERVED"}, "COMPLETING") /\ UNCHANGED pcRuns /\ HostQuiet

\* Result and receipt are the ones submitted, as the server read them back.
ConfirmTerminalReadback(a) ==
    /\ pcJob = "SUCCEEDED"
    /\ JournalTo(a, {"COMPLETING"}, "TERMINAL_CONFIRMED") /\ UNCHANGED pcRuns /\ HostQuiet

\* record_claim, for an attempt with side effects.  AttemptIdentity.validate admits
\* none while phase one lasts (journal.py:194), so the WRITE steps from here on are
\* what the other journal operations do for the classes they already handle.
HostClaims(a) ==
    /\ effectClass = "WRITE" /\ pcAttempt[a] # "NONE"
    /\ JournalTo(a, {"NONE"}, "CLAIMED") /\ UNCHANGED pcRuns /\ HostQuiet

HostPrepares(a) ==
    /\ effectClass = "WRITE"
    /\ JournalTo(a, {"CLAIMED"}, "PREPARING") /\ UNCHANGED pcRuns /\ HostQuiet

\* Mutation: an attempt that needs recovery may be started.
StartableStates_Recovery == {"PREPARING", "RECOVERY_REQUIRED"}

StartableStates == {"PREPARING"}

\* commit_effect_start, after which the handler runs.
HostStarts(a) ==
    /\ effectClass = "WRITE"
    /\ JournalTo(a, StartableStates, "EFFECT_STARTED")
    /\ pcRuns' = [pcRuns EXCEPT ![a] = @ + 1]
    /\ HostQuiet

\* record_result, also for an attempt that was found interrupted.
HostRecords(a) ==
    /\ effectClass = "WRITE" /\ pcRuns[a] > 0
    /\ JournalTo(a, {"EFFECT_STARTED", "RECOVERY_REQUIRED"}, "RESULT_OBSERVED")
    /\ UNCHANGED pcRuns /\ HostQuiet

\* A restarted host goes through recover_incomplete.
HostRestarts(a) ==
    /\ effectClass = "WRITE"
    /\ JournalTo(a, RecoverableStates, "RECOVERY_REQUIRED") /\ UNCHANGED pcRuns /\ HostQuiet

HostAbandons(a) ==
    /\ effectClass = "WRITE" /\ pcJournal[a] \notin JournalTerminal \cup {"NONE"}
    /\ pcJournal' = [pcJournal EXCEPT ![a] = "ABANDONED"] /\ UNCHANGED pcRuns /\ HostQuiet

PCNext ==
    \/ \E e \in JobEvents : ServerApplies(e)
    \/ ServerPreparing \/ ServerCancellation \/ WindowCloses
    \/ \E x \in Executors :
           \/ \E a \in JobAttempts : ExecuteBegin(x, a) \/ CancelReservedBegin(x, a)
           \/ ExecuteAssess(x) \/ ExecuteRecover(x) \/ ExecuteClaim(x) \/ ExecutePrepare(x)
           \/ ExecuteReserve(x) \/ ExecuteDispatch(x) \/ ExecuteRaised(x) \/ ExecuteRecord(x)
           \/ \E known \in BOOLEAN : ExecuteSettle(x, known)
           \/ CancelFence(x) \/ CancelAbandon(x) \/ ExecutorDies(x)
    \/ \E occurred \in BOOLEAN : ReconcileRow(occurred)
    \/ \E a \in JobAttempts :
           \/ SubmitCompletion(a) \/ ConfirmTerminalReadback(a)
           \/ HostClaims(a) \/ HostPrepares(a) \/ HostStarts(a) \/ HostRecords(a)
           \/ HostRestarts(a) \/ HostAbandons(a)

PCSpec == PCInit /\ [][PCNext]_pcVars

----------------------------------------------------------------------------
PCTypeOK ==
    /\ effectClass \in {"READ", "WRITE"}
    /\ pcJob \in JobStates
    /\ pcAttempt \in [JobAttempts -> AttemptStates]
    /\ pcCancel \in {"NONE", "REQUESTED", "OBSERVED", "STOPPING", "ACKNOWLEDGED"}
    /\ leased \in BOOLEAN /\ inWindow \in BOOLEAN
    /\ pcJournal \in [JobAttempts -> JournalStates]
    /\ pcRow \in RowSuccess \cup RowAmbiguous
               \cup {"ABSENT", "RESERVED", "RECONCILED_NO_EFFECT", "CANCELLED_PRE_DISPATCH"}
    /\ pcRuns \in [JobAttempts -> Nat]
    /\ \A x \in Executors : pcExec[x].a \in JobAttempts \cup {0} /\ pcExec[x].seen \in JournalStates

(***************************************************************************)
(* However executors, crashes and retries interleave, an adapter-run job   *)
(* reaches the machine at most once over all its attempts (they share the  *)
(* fence row of the envelope), and a host handler at most once per attempt *)
(* ("ALREADY_STARTED_REQUIRES_RECONCILIATION", journal.py).                *)
(***************************************************************************)
RunsOnce ==
    /\ \A a \in JobAttempts : pcRuns[a] <= 1
    /\ effectClass = "READ" => \A a, b \in JobAttempts : pcRuns[a] > 0 /\ pcRuns[b] > 0 => a = b

(***************************************************************************)
(* Results are backed by evidence in the other store: an attempt whose     *)
(* journal shows a result has reached the machine, for the adapter with a  *)
(* committed fence row; a job the server calls SUCCEEDED did so in some    *)
(* attempt.                                                                *)
(***************************************************************************)
ResultBacked ==
    /\ \A a \in JobAttempts : pcJournal[a] \in HasResult =>
           pcRuns[a] = 1 /\ (effectClass = "READ" => pcRow = "COMMITTED")
    /\ pcJob = "SUCCEEDED" =>
           \E a \in JobAttempts : pcRuns[a] = 1

(***************************************************************************)
(* cancel_reserved_attempt abandons only what was "proven" not dispatched: *)
(* an abandoned adapter attempt means the row was cancelled before any     *)
(* claim, and no attempt of the job has reached the machine or will.       *)
(***************************************************************************)
AbandonedNeverRan ==
    effectClass = "READ" =>
        \A a \in JobAttempts : pcJournal[a] = "ABANDONED" =>
            pcRow = "CANCELLED_PRE_DISPATCH" /\ \A b \in JobAttempts : pcRuns[b] = 0

(***************************************************************************)
(* What the attempt journal says of an attempt is what happened to it on   *)
(* the machine, when it reports a result and when it reports an            *)
(* abandonment (journal.py, qualified_pc.py).                              *)
(***************************************************************************)
AttemptTruthful == ResultBacked /\ AbandonedNeverRan

----------------------------------------------------------------------------
\* The fence row as module EffectFence describes it: one effect for all
\* attempts of the job, claimed once for each run of the adapter.
Envelope == {"envelope"}
rowFence == [e \in Envelope |-> pcRow]
rowBound == [e \in Envelope |-> IF pcRow = "ABSENT" THEN "none" ELSE "request"]
rowGranted ==
    [e \in Envelope |-> IF effectClass = "READ"
                        THEN Cardinality({a \in JobAttempts : pcRuns[a] > 0}) ELSE 0]

RowFence == INSTANCE EffectFence WITH
    Effects <- Envelope, Bindings <- {"request"}, NoBinding <- "none",
    fence <- rowFence, bound <- rowBound, granted <- rowGranted

(***************************************************************************)
(* All executors and attempts of a job use its one fence row as module     *)
(* EffectFence describes it, and every receipt it grants is one run on the *)
(* machine (qualified_pc.py over effect_fence.py).                         *)
(***************************************************************************)
RowFenceSpec == RowFence!Spec
=============================================================================
