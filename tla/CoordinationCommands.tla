------------------------- MODULE CoordinationCommands -------------------------
(***************************************************************************)
(* Coordination commands of the qualified runtime: the lifecycle-bound     *)
(* facade over the bus (action_gate.py, LifecycleBoundCoordinationBus) and *)
(* the command journal (coordination_command_journal.py).                  *)
(*                                                                         *)
(* A command is bound in the journal, dispatched as an effect under the    *)
(* action lock, and its result recorded after the lock is released: three  *)
(* SQLite files and a crash possible between any two writes.  The          *)
(* assessment that decides whether a command may be sent again reads the   *)
(* journal and then the fence, under no lock.                              *)
(***************************************************************************)
EXTENDS Naturals, FiniteSets

CONSTANTS CommandIds,   \* command ids of write-capable commands
          Callers,      \* processes that share the state directory
          MaxPermit     \* bound on lifecycle generations

ASSUME CommandsAssumption == MaxPermit \in Nat \ {0} /\ "free" \notin Callers

VARIABLES permitNow,    \* generation of the accepted lifecycle permit
          cmdBinding,   \* cmdBinding[c]: permit the command is bound under, 0 unbound
          cmdFence,     \* cmdFence[c]: the fence row of effect coordination:<c>
          cmdWritten,   \* cmdWritten[c]: events the command has written
          cmdResult,    \* cmdResult[c]: "NONE", "WRITTEN" or "REFUSED"
          actionLock,   \* the caller that holds the action lock, or "free"
          cmdCall       \* cmdCall[x]: what caller x is doing

cmdStore == <<cmdBinding, cmdFence, cmdWritten, cmdResult>>
cmdVars == <<permitNow, cmdStore, actionLock, cmdCall>>

CmdIdle == [at |-> "idle"]
CmdUnresolved == {"RESERVED", "EXECUTING", "ATTEMPTED_UNKNOWN"}

CmdInit ==
    /\ permitNow = 1
    /\ cmdBinding = [c \in CommandIds |-> 0]
    /\ cmdFence = [c \in CommandIds |-> "NONE"]
    /\ cmdWritten = [c \in CommandIds |-> 0]
    /\ cmdResult = [c \in CommandIds |-> "NONE"]
    /\ actionLock = "free"
    /\ cmdCall = [x \in Callers |-> CmdIdle]

CmdReturn(x) == cmdCall' = [cmdCall EXCEPT ![x] = CmdIdle]
CmdStep(x, at) == cmdCall' = [cmdCall EXCEPT ![x] = [@ EXCEPT !.at = at]]

\* The lifecycle is reaccepted under another cut.
PermitMoves ==
    /\ actionLock = "free" /\ permitNow < MaxPermit
    /\ permitNow' = permitNow + 1
    /\ UNCHANGED <<cmdStore, actionLock, cmdCall>>

\* bind: the same invocation again is a replay, another one raises.  The
\* caller presents a permit it was given at some time.
Bind(x, c, permit) ==
    /\ cmdCall[x] = CmdIdle
    /\ cmdBinding[c] \in {0, permit}
    /\ cmdBinding' = [cmdBinding EXCEPT ![c] = permit]
    /\ cmdCall' = [cmdCall EXCEPT ![x] = [at |-> "bound", cmd |-> c, permit |-> permit]]
    /\ UNCHANGED <<permitNow, cmdFence, cmdWritten, cmdResult, actionLock>>

\* Mutation: the fence is not asked for unresolved effects, and a row that is
\* there already is taken for a reservation.
Reservable_Replayed(c) == TRUE

\* assert_clear, and reserve: a row that is there keeps its state.
Reservable(c) ==
    /\ \A d \in CommandIds : cmdFence[d] \notin CmdUnresolved
    /\ cmdFence[c] = "NONE"

\* _dispatch_verified up to the reservation, under the action lock; a fence
\* that is not clear, a spent effect or a stale permit raises.
ReserveCommand(x) ==
    LET c == cmdCall[x].cmd IN
    /\ cmdCall[x].at = "bound" /\ actionLock = "free"
    /\ IF Reservable(c) /\ cmdCall[x].permit = permitNow
       THEN /\ cmdFence' = [cmdFence EXCEPT ![c] = "RESERVED"]
            /\ actionLock' = x /\ CmdStep(x, "reserved")
       ELSE CmdReturn(x) /\ UNCHANGED <<cmdFence, actionLock>>
    /\ UNCHANGED <<permitNow, cmdBinding, cmdWritten, cmdResult>>

ClaimCommand(x) ==
    /\ cmdCall[x].at = "reserved"
    /\ cmdFence' = [cmdFence EXCEPT ![cmdCall[x].cmd] = "EXECUTING"]
    /\ CmdStep(x, "executing")
    /\ UNCHANGED <<permitNow, cmdBinding, cmdWritten, cmdResult, actionLock>>

\* The bus method: it writes an event, or its receipt says it wrote none.
ExecuteCommand(x, writes) ==
    LET c == cmdCall[x].cmd IN
    /\ cmdCall[x].at = "executing"
    /\ cmdWritten' = [cmdWritten EXCEPT ![c] = @ + (IF writes THEN 1 ELSE 0)]
    /\ CmdStep(x, IF writes THEN "wrote" ELSE "refused")
    /\ UNCHANGED <<permitNow, cmdBinding, cmdFence, cmdResult, actionLock>>

\* settle: committed, or unknown when the method raised, written or not; a
\* row that was reconciled meanwhile is left as it is and the call raises.
SettleCommand(x, raised) ==
    LET c == cmdCall[x].cmd IN
    /\ cmdCall[x].at \in {"wrote", "refused"}
    /\ cmdFence' = [cmdFence EXCEPT ![c] = IF @ # "EXECUTING" THEN @
                                           ELSE IF raised THEN "ATTEMPTED_UNKNOWN" ELSE "COMMITTED"]
    /\ actionLock' = "free"
    /\ IF raised \/ cmdFence[c] # "EXECUTING" THEN CmdReturn(x)
       ELSE CmdStep(x, IF cmdCall[x].at = "wrote" THEN "recordWritten" ELSE "recordRefused")
    /\ UNCHANGED <<permitNow, cmdBinding, cmdWritten, cmdResult>>

\* record_result
RecordResult(x) ==
    /\ cmdCall[x].at \in {"recordWritten", "recordRefused"}
    /\ cmdResult' = [cmdResult EXCEPT ![cmdCall[x].cmd] =
           IF cmdCall[x].at = "recordWritten" THEN "WRITTEN" ELSE "REFUSED"]
    /\ CmdReturn(x)
    /\ UNCHANGED <<permitNow, cmdBinding, cmdFence, cmdWritten, actionLock>>

----------------------------------------------------------------------------
\* assess_command, first the journal ...
AssessJournal(x, c) ==
    /\ cmdCall[x] = CmdIdle /\ cmdBinding[c] # 0
    /\ cmdCall' = [cmdCall EXCEPT ![x] = [at |-> "assessing", cmd |-> c, result |-> cmdResult[c]]]
    /\ UNCHANGED <<permitNow, cmdStore, actionLock>>

\* Mutation: a result in the journal is terminal whatever the fence says, a
\* missing one is never an obstacle to a retry.
Verdict_Journal(c, result) ==
    CASE result # "NONE" -> "TERMINAL"
      [] result = "NONE" /\ cmdBinding[c] = permitNow -> "RETRY"
      [] OTHER -> "STALE"

\* ... then the fence and the permit: what the assessment says.  A recorded
\* result agrees with the repository when its event is there.
Verdict(c, result) ==
    CASE result # "NONE" ->
             IF cmdFence[c] \in {"COMMITTED", "RECONCILED_COMMITTED"}
                /\ (result = "WRITTEN" => cmdWritten[c] > 0) THEN "TERMINAL" ELSE "RECOVERY"
      [] result = "NONE" /\ cmdFence[c] = "NONE" ->
             IF cmdBinding[c] = permitNow THEN "RETRY" ELSE "STALE"
      [] result = "NONE" /\ cmdFence[c] = "RESERVED" -> "CANCEL"
      [] result = "NONE" /\ cmdFence[c] \in {"EXECUTING", "ATTEMPTED_UNKNOWN", "COMMITTED",
                                             "RECONCILED_COMMITTED"} -> "RECOVERY"
      [] OTHER -> "TERMINAL"

AssessFence(x) ==
    LET c == cmdCall[x].cmd IN
    /\ cmdCall[x].at = "assessing"
    /\ cmdCall' = [cmdCall EXCEPT ![x] =
           [at |-> "assessed", cmd |-> c, verdict |-> Verdict(c, cmdCall[x].result),
            ran |-> cmdWritten[c] > 0, fence |-> cmdFence[c]]]
    /\ UNCHANGED <<permitNow, cmdStore, actionLock>>

AssessDone(x) ==
    /\ cmdCall[x].at = "assessed"
    /\ CmdReturn(x)
    /\ UNCHANGED <<permitNow, cmdStore, actionLock>>

\* Mutation: what the assessment said is not looked at again.
Cancellable_Assessed(c) == TRUE

\* cancel_before_dispatch
Cancellable(c) == cmdFence[c] = "RESERVED"

\* cancel_reserved_command: the assessment, then the lock and the fence.
CancelCommand(x) ==
    LET c == cmdCall[x].cmd IN
    /\ cmdCall[x].at = "assessed" /\ cmdCall[x].verdict = "CANCEL"
    /\ actionLock = "free"
    /\ Cancellable(c)
    /\ cmdFence' = [cmdFence EXCEPT ![c] = "CANCELLED_PRE_DISPATCH"]
    /\ CmdReturn(x)
    /\ UNCHANGED <<permitNow, cmdBinding, cmdWritten, cmdResult, actionLock>>

\* LifecycleEffectRecovery.reconcile, from evidence of what has happened so
\* far: it takes no action lock, so the command may still be running.
ReconcileCommand(c) ==
    /\ cmdFence[c] \in {"EXECUTING", "ATTEMPTED_UNKNOWN"}
    /\ cmdFence' = [cmdFence EXCEPT ![c] =
           IF cmdWritten[c] > 0 THEN "RECONCILED_COMMITTED" ELSE "RECONCILED_NO_EFFECT"]
    /\ UNCHANGED <<permitNow, cmdBinding, cmdWritten, cmdResult, actionLock, cmdCall>>

\* A caller dies; the operating system releases its lock.
CmdCrash(x) ==
    /\ cmdCall[x] # CmdIdle
    /\ CmdReturn(x)
    /\ actionLock' = IF actionLock = x THEN "free" ELSE actionLock
    /\ UNCHANGED <<permitNow, cmdStore>>

CmdNext ==
    \/ PermitMoves
    \/ \E c \in CommandIds : ReconcileCommand(c)
    \/ \E x \in Callers :
           \/ ReserveCommand(x) \/ ClaimCommand(x) \/ RecordResult(x)
           \/ AssessFence(x) \/ AssessDone(x) \/ CancelCommand(x) \/ CmdCrash(x)
           \/ \E b \in BOOLEAN : ExecuteCommand(x, b) \/ SettleCommand(x, b)
           \/ \E c \in CommandIds :
                  AssessJournal(x, c) \/ \E permit \in 1..permitNow : Bind(x, c, permit)

CmdSpec == CmdInit /\ [][CmdNext]_cmdVars

----------------------------------------------------------------------------
CmdTypeOK ==
    /\ permitNow \in 1..MaxPermit /\ actionLock \in Callers \cup {"free"}
    /\ \A c \in CommandIds : cmdBinding[c] \in 0..MaxPermit /\ cmdResult[c] \in {"NONE", "WRITTEN", "REFUSED"}

(***************************************************************************)
(* A command id writes one event at most, in one generation of the         *)
(* lifecycle; a cancelled one wrote none; a recorded result tells what was *)
(* written.                                                                *)
(***************************************************************************)
CommandOnce ==
    \A c \in CommandIds :
        /\ cmdWritten[c] <= 1
        /\ cmdFence[c] = "CANCELLED_PRE_DISPATCH" => cmdWritten[c] = 0
        /\ cmdResult[c] = "WRITTEN" => cmdWritten[c] = 1
        /\ cmdResult[c] = "REFUSED" => cmdWritten[c] = 0

(***************************************************************************)
(* assess_command, though it reads journal and fence at different moments, *)
(* allows a retry only of a command that has not been dispatched, and      *)
(* calls a command terminal only when no dispatch of it is in doubt.       *)
(***************************************************************************)
AssessmentSound ==
    \A x \in Callers :
        cmdCall[x].at = "assessed" =>
            /\ cmdCall[x].verdict \in {"RETRY", "CANCEL", "STALE"} =>
                   ~cmdCall[x].ran /\ cmdCall[x].fence \in {"NONE", "RESERVED"}
            /\ cmdCall[x].verdict = "TERMINAL" => cmdFence[cmdCall[x].cmd] \notin CmdUnresolved \cup {"NONE"}

(***************************************************************************)
(* A coordination command takes effect once, and what assess_command says  *)
(* of it is so (coordination_command_journal.py, action_gate.py).          *)
(***************************************************************************)
CommandsTruthful == CommandOnce /\ AssessmentSound

----------------------------------------------------------------------------
\* The rows of the commands as module EffectFence describes them: bound to the
\* permit of the journal's binding, claimed by whoever is past ClaimCommand.
commandFence == [c \in CommandIds |-> IF cmdFence[c] = "NONE" THEN "ABSENT" ELSE cmdFence[c]]
commandBound == [c \in CommandIds |-> IF cmdFence[c] = "NONE" THEN 0 ELSE cmdBinding[c]]
commandGranted ==
    [c \in CommandIds |->
        IF cmdFence[c] \in {"NONE", "RESERVED", "CANCELLED_PRE_DISPATCH"} THEN 0 ELSE 1]

CommandFence == INSTANCE EffectFence WITH
    Effects <- CommandIds, Bindings <- 1..MaxPermit, NoBinding <- 0,
    fence <- commandFence, bound <- commandBound, granted <- commandGranted

(***************************************************************************)
(* Commands, their cancellation and their recovery use the effect fence as *)
(* module EffectFence describes it, each row under the permit its command  *)
(* is bound to in the journal, which never changes afterwards              *)
(* (action_gate.py, coordination_command_journal.py over effect_fence.py). *)
(***************************************************************************)
CommandFenceSpec == CommandFence!Spec
=============================================================================
