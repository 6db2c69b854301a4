--------------------------- MODULE EffectGateway ---------------------------
(***************************************************************************)
(* The lifecycle-bound outbound path of vera_core: several runtime         *)
(* processes that share one state directory dispatch, cancel and reconcile *)
(* external effects, mint permits, checkpoint the lifecycle, mutate the    *)
(* outbound trust registry, crash and reopen.                              *)
(*                                                                         *)
(*   action_gate.py            LifecycleEffectGateway._dispatch_verified   *)
(*   outbound_audit.py         OutboundExecutionAudit                      *)
(*   effect_recovery.py        LifecycleEffectRecovery.reconcile           *)
(*   qualified_runtime.py      cancel_reserved_effect                      *)
(*   lifecycle.py              permits, checkpoint, action lock            *)
(*   outbound_trust.py         registry mutations, trust lock              *)
(*   state.py                  open(): repair_from_fence                   *)
(*                                                                         *)
(* The fence itself is module EffectFence: every fence transaction below   *)
(* is one of its actions.  Fence, audit, lifecycle and trust registry are  *)
(* separate SQLite files, so a dispatch is a sequence of durable steps and *)
(* a crash may fall between any two; reads between two durable steps are   *)
(* merged with the step they guard.  The two portable file locks (the      *)
(* lifecycle action lock and the trust lock) are released by process death.*)
(***************************************************************************)
EXTENDS Integers, Sequences

CONSTANTS
    Runtimes,        \* processes opened on the same state directory
    Effects,         \* outbound effect identities
    CoordEffects,    \* the coordination-bus writes among them
    Nil,             \* no runtime (a free lock), no effect
    MaxEpoch,        \* bound: accepted lifecycle cuts published
    MaxMemory,       \* bound: memory admissions
    MaxTrust,        \* bound: trust registry mutations
    MaxCrashes       \* bound: process deaths

ASSUME GatewayAssumption ==
    /\ CoordEffects \subseteq Effects
    /\ Nil \notin Runtimes \cup Effects
    /\ MaxEpoch \in Nat /\ MaxMemory \in Nat
    /\ MaxTrust \in Nat /\ MaxCrashes \in Nat

VARIABLES
    fence, bound, granted,     \* the effect fence (module EffectFence)
    audit,        \* audit[e]: the effect's events, in the order of their sequence
    cut,          \* the accepted lifecycle cut: its epoch and its memory head
    candidate,    \* memory head of a checkpoint newer than the cut, or NoCandidate
    memory,       \* head of the memory ledger
    minted,       \* epochs a permit was minted for (kept by the caller, or on disk)
    trustGen,     \* generation of the outbound trust registry
    enabled,      \* the effect's authority is registered and not revoked
    lifeLock, trustLock,       \* holder of each portable lock, or Nil
    pc,           \* pc[r]: what runtime r does next
    cur,          \* cur[r]: the effect r works on
    permit,       \* permit[r]: the epoch of the permit r dispatches under
    evidence,     \* evidence[r]: the trust cut r verified the authority at
    snap,         \* snap[r]: the fence rows repair_from_fence read
    executed,     \* executed[e]: calls of execute() (history)
    occurred,     \* occurred[e]: the external effect took place (environment)
    crashes

fenceVars == <<fence, bound, granted>>
lifecycleVars == <<cut, candidate, memory, minted>>
trustVars == <<trustGen, enabled>>
lockVars == <<lifeLock, trustLock>>
localVars == <<cur, permit, evidence, snap>>
worldVars == <<executed, occurred>>
vars == <<fenceVars, audit, lifecycleVars, trustVars, lockVars, pc, localVars,
          worldVars, crashes>>

\* The digests a reservation binds: the lifecycle permit (through the request
\* and mechanical-permit digests) and the authority evidence.
Binding == [permit : 0..MaxEpoch, evidence : 0..MaxTrust]
NoBinding == [permit |-> -1, evidence |-> -1]

Fence == INSTANCE EffectFence WITH Bindings <- Binding, NoBinding <- NoBinding

NoCandidate == -1

----------------------------------------------------------------------------
(* The outbound execution audit.                                           *)

EventType == {"AUTHORITY_VERIFIED"} \cup Fence!EffectState
Event == [type : EventType, binding : Binding, restart : BOOLEAN]

AuditEvent(type, binding, restart) ==
    [type |-> type, binding |-> binding, restart |-> restart]

\* append: (effect_id, event_type) is unique.  A replay of the stored payload
\* returns the stored event, a replay with another payload raises.
AuditAccepts(e, ev) ==
    \A i \in DOMAIN audit[e] : audit[e][i].type = ev.type => audit[e][i] = ev

AuditAppend(e, ev) ==
    audit' = IF \E i \in DOMAIN audit[e] : audit[e][i].type = ev.type
             THEN audit
             ELSE [audit EXCEPT ![e] = Append(@, ev)]

AllowedNext(prior) ==
    CASE prior = "NONE"               -> {"AUTHORITY_VERIFIED"}
      [] prior = "AUTHORITY_VERIFIED" -> {"RESERVED"}
      [] prior = "RESERVED"           -> {"EXECUTING", "CANCELLED_PRE_DISPATCH"}
      [] prior = "EXECUTING"          -> {"COMMITTED", "ATTEMPTED_UNKNOWN",
                                          "RECONCILED_COMMITTED", "RECONCILED_NO_EFFECT"}
      [] prior = "ATTEMPTED_UNKNOWN"  -> {"RECONCILED_COMMITTED", "RECONCILED_NO_EFFECT"}
      [] OTHER                        -> {}

Stage(events, i) == IF i = 0 THEN "NONE" ELSE events[i].type

\* verify_chain: the stage order of every effect's events.
ChainValid ==
    \A e \in Effects : \A i \in DOMAIN audit[e] :
        audit[e][i].type \in AllowedNext(Stage(audit[e], i - 1))

LatestType(e) == Stage(audit[e], Len(audit[e]))

\* verify_fence_consistency: chain, then every effect's first and latest event
\* against its fence row; a verified authority alone needs no row.
FenceConsistent ==
    /\ ChainValid
    /\ \A e \in Effects :
           IF fence[e] = "ABSENT"
           THEN Len(audit[e]) <= 1
           ELSE /\ LatestType(e) = fence[e]
                /\ audit[e][1].binding = bound[e]
                /\ audit[e][Len(audit[e])].binding = bound[e]

\* The stage _append_missing_mechanical_stages adds after `latest` on the way
\* to `target`; "NONE" where it raises.
RepairStage(latest, target) ==
    CASE latest = "AUTHORITY_VERIFIED" -> "RESERVED"
      [] latest = "RESERVED" -> IF target = "CANCELLED_PRE_DISPATCH"
                                THEN target ELSE "EXECUTING"
      [] latest \in {"EXECUTING", "ATTEMPTED_UNKNOWN"}
             /\ target \in AllowedNext(latest) -> target
      [] OTHER -> "NONE"

----------------------------------------------------------------------------
(* The lifecycle gate.                                                     *)

Unresolved == {e \in Effects : fence[e] \in Fence!UnresolvedStates}

\* Mutation: the barrier forgets the ambiguous effects.
AssertClear_NotUnknown == \A e \in Effects : fence[e] \notin {"RESERVED", "EXECUTING"}

\* assert_clear: the unresolved-effect barrier.
AssertClear == Unresolved = {}

\* reconstruct() answers ACCEPTED_CURRENT.
AcceptedCurrent == candidate = NoCandidate /\ memory = cut.memory

\* validate_action_permit.
PermitValid(p) == FenceConsistent /\ AcceptedCurrent /\ p = cut.epoch

----------------------------------------------------------------------------
NoRows == [e \in Effects |-> "ABSENT"]

Init ==
    /\ Fence!Init
    /\ audit = [e \in Effects |-> <<>>]
    /\ cut = [epoch |-> 0, memory |-> 0]
    /\ candidate = NoCandidate
    /\ memory = 0
    /\ minted = {}
    /\ trustGen = 0
    /\ enabled = TRUE
    /\ lifeLock = Nil
    /\ trustLock = Nil
    /\ pc = [r \in Runtimes |-> "closed"]
    /\ cur = [r \in Runtimes |-> Nil]
    /\ permit = [r \in Runtimes |-> 0]
    /\ evidence = [r \in Runtimes |-> 0]
    /\ snap = [r \in Runtimes |-> NoRows]
    /\ executed = [e \in Effects |-> 0]
    /\ occurred = [e \in Effects |-> FALSE]
    /\ crashes = 0

Goto(r, label) == pc' = [pc EXCEPT ![r] = label]

Release(lock, r) == IF lock = r THEN Nil ELSE lock

\* The end of an operation, by return or by exception: its `with` blocks release
\* the locks, its local values are forgotten.
Finish(r, label) ==
    /\ Goto(r, label)
    /\ lifeLock' = Release(lifeLock, r)
    /\ trustLock' = Release(trustLock, r)
    /\ cur' = [cur EXCEPT ![r] = Nil]
    /\ permit' = [permit EXCEPT ![r] = 0]
    /\ evidence' = [evidence EXCEPT ![r] = 0]
    /\ snap' = [snap EXCEPT ![r] = NoRows]

\* An exception: the operation ends and what it already stored stays stored.
Raise(r) ==
    /\ Finish(r, "idle")
    /\ UNCHANGED <<fenceVars, audit, lifecycleVars, trustVars, worldVars, crashes>>

----------------------------------------------------------------------------
(* Opening a state directory: VeraStateDirectory.open().                   *)

\* Mutation: open() does not repair.
OpenBegin_NoRepair(r) ==
    /\ pc[r] = "closed"
    /\ lifeLock = Nil
    /\ Goto(r, "idle")
    /\ UNCHANGED <<fenceVars, audit, lifecycleVars, trustVars, lockVars, localVars,
                   worldVars, crashes>>

\* repair_from_fence: verify_chain, then one read of all fence rows.
OpenBegin(r) ==
    /\ pc[r] = "closed"
    /\ lifeLock = Nil
    /\ ChainValid
    /\ lifeLock' = r
    /\ snap' = [snap EXCEPT ![r] = fence]
    /\ Goto(r, "repair")
    /\ UNCHANGED <<fenceVars, audit, lifecycleVars, trustVars, trustLock, cur,
                   permit, evidence, worldVars, crashes>>

Unrepaired(r, e) == snap[r][e] # "ABSENT" /\ LatestType(e) # snap[r][e]

\* One iteration of _append_missing_mechanical_stages.
RepairStep(r, e) ==
    LET stage == RepairStage(LatestType(e), snap[r][e])
        ev == AuditEvent(stage, bound[e], TRUE)
    IN  /\ pc[r] = "repair"
        /\ Unrepaired(r, e)
        /\ stage # "NONE"
        /\ AuditAccepts(e, ev)
        /\ AuditAppend(e, ev)
        /\ UNCHANGED <<fenceVars, lifecycleVars, trustVars, lockVars, pc,
                       localVars, worldVars, crashes>>

\* open() returns when the repaired audit agrees with the live fence rows.
OpenEnd(r) ==
    /\ pc[r] = "repair"
    /\ \A e \in Effects : ~Unrepaired(r, e)
    /\ Finish(r, IF FenceConsistent THEN "idle" ELSE "closed")
    /\ UNCHANGED <<fenceVars, audit, lifecycleVars, trustVars, worldVars, crashes>>

\* open() raises: the audit holds a stage that the rows read do not explain.
OpenFails(r) ==
    /\ pc[r] = "repair"
    /\ \E e \in Effects :
           /\ Unrepaired(r, e)
           /\ LET stage == RepairStage(LatestType(e), snap[r][e])
              IN  stage = "NONE" \/ ~AuditAccepts(e, AuditEvent(stage, bound[e], TRUE))
    /\ Finish(r, "closed")
    /\ UNCHANGED <<fenceVars, audit, lifecycleVars, trustVars, worldVars, crashes>>

\* The process dies: SQLite drops its locks, its local state is gone.
Crash(r) ==
    /\ pc[r] # "closed"
    /\ crashes < MaxCrashes
    /\ crashes' = crashes + 1
    /\ Finish(r, "closed")
    /\ UNCHANGED <<fenceVars, audit, lifecycleVars, trustVars, worldVars>>

----------------------------------------------------------------------------
(* Lifecycle: permits, checkpoints, memory.                                *)

\* Mutation: the permit names the pending candidate instead of the accepted cut.
MintPermit_Candidate(r) ==
    /\ pc[r] = "idle"
    /\ lifeLock = Nil
    /\ AssertClear
    /\ FenceConsistent
    /\ minted' = minted \cup {candidate}
    /\ UNCHANGED <<fenceVars, audit, cut, candidate, memory, trustVars, lockVars,
                   pc, localVars, worldVars, crashes>>

\* accepted_action_permit, whole under the action lock.
MintPermit(r) ==
    /\ pc[r] = "idle"
    /\ lifeLock = Nil
    /\ AssertClear
    /\ FenceConsistent
    /\ AcceptedCurrent
    /\ minted' = minted \cup {cut.epoch}
    /\ UNCHANGED <<fenceVars, audit, cut, candidate, memory, trustVars, lockVars,
                   pc, localVars, worldVars, crashes>>

\* Mutation: a checkpoint starts although an effect is unresolved.
CheckpointBegin_NotClear(r) ==
    /\ pc[r] = "idle"
    /\ lifeLock = Nil
    /\ FenceConsistent
    /\ cut.epoch < MaxEpoch
    /\ lifeLock' = r
    /\ candidate' = memory
    /\ Goto(r, "publish")
    /\ UNCHANGED <<fenceVars, audit, cut, memory, minted, trustVars, trustLock,
                   localVars, worldVars, crashes>>

\* checkpoint, up to the appended recovery checkpoint.
CheckpointBegin(r) ==
    /\ pc[r] = "idle"
    /\ lifeLock = Nil
    /\ AssertClear
    /\ FenceConsistent
    /\ cut.epoch < MaxEpoch
    /\ lifeLock' = r
    /\ candidate' = memory
    /\ Goto(r, "publish")
    /\ UNCHANGED <<fenceVars, audit, cut, memory, minted, trustVars, trustLock,
                   localVars, worldVars, crashes>>

\* checkpoint, the currentness publication.
CheckpointPublish(r) ==
    /\ pc[r] = "publish"
    /\ cut' = [epoch |-> cut.epoch + 1, memory |-> candidate]
    /\ candidate' = NoCandidate
    /\ Finish(r, "idle")
    /\ UNCHANGED <<fenceVars, audit, memory, minted, trustVars, worldVars, crashes>>

\* checkpoint, drift assurance blocks the candidate or the publication loses.
CheckpointBlocked(r) == pc[r] = "publish" /\ Raise(r)

\* NativeMemoryLedger.admit takes neither lock.
MemoryAdmit ==
    /\ memory < MaxMemory
    /\ memory' = memory + 1
    /\ UNCHANGED <<fenceVars, audit, cut, candidate, minted, trustVars, lockVars,
                   pc, localVars, worldVars, crashes>>

----------------------------------------------------------------------------
(* Trust registry mutations, each whole under the trust lock.              *)

TrustMutation(enabledAfter) ==
    /\ trustLock = Nil
    /\ trustGen < MaxTrust
    /\ trustGen' = trustGen + 1
    /\ enabled' = enabledAfter
    /\ UNCHANGED <<fenceVars, audit, lifecycleVars, lockVars, pc, localVars,
                   worldVars, crashes>>

TrustRotate == enabled /\ TrustMutation(TRUE)
TrustRevoke == enabled /\ TrustMutation(FALSE)
TrustReactivate == ~enabled /\ TrustMutation(TRUE)

----------------------------------------------------------------------------
(* LifecycleEffectGateway._dispatch_verified, one action per durable step. *)

RequestBinding(r) == [permit |-> permit[r], evidence |-> evidence[r]]

\* Mutation: no gateway takes the trust lock.
DispatchBegin_NoTrustLock(r, e, p) ==
    /\ pc[r] = "idle"
    /\ lifeLock = Nil
    /\ lifeLock' = r
    /\ cur' = [cur EXCEPT ![r] = e]
    /\ permit' = [permit EXCEPT ![r] = p]
    /\ Goto(r, "check")
    /\ UNCHANGED <<fenceVars, audit, lifecycleVars, trustVars, trustLock,
                   evidence, snap, worldVars, crashes>>

DispatchBegin(r, e, p) ==
    /\ pc[r] = "idle"
    /\ lifeLock = Nil
    /\ lifeLock' = r
    /\ cur' = [cur EXCEPT ![r] = e]
    /\ permit' = [permit EXCEPT ![r] = p]
    /\ Goto(r, IF e \in CoordEffects THEN "check" ELSE "lock_trust")
    /\ UNCHANGED <<fenceVars, audit, lifecycleVars, trustVars, trustLock,
                   evidence, snap, worldVars, crashes>>

\* Only a gateway built with a trust registry takes the trust lock; the
\* coordination bus builds its gateway without one.
DispatchLockTrust(r) ==
    /\ pc[r] = "lock_trust"
    /\ trustLock = Nil
    /\ trustLock' = r
    /\ Goto(r, "check")
    /\ UNCHANGED <<fenceVars, audit, lifecycleVars, trustVars, lifeLock,
                   localVars, worldVars, crashes>>

\* PortableFileLock gives up after its timeout.
LockTimeout(r) ==
    /\ pc[r] = "lock_trust"
    /\ trustLock # Nil
    /\ Raise(r)

\* assert_clear, validate_action_permit, verify_authority, AUTHORITY_VERIFIED.
DispatchCheck(r) ==
    LET e == cur[r]
        seen == IF e \in CoordEffects THEN 0 ELSE trustGen
        ev == AuditEvent("AUTHORITY_VERIFIED", [permit |-> permit[r], evidence |-> seen], FALSE)
    IN  /\ pc[r] = "check"
        /\ AssertClear
        /\ PermitValid(permit[r])
        /\ e \in CoordEffects \/ enabled
        /\ AuditAccepts(e, ev)
        /\ AuditAppend(e, ev)
        /\ evidence' = [evidence EXCEPT ![r] = seen]
        /\ Goto(r, "reserve")
        /\ UNCHANGED <<fenceVars, lifecycleVars, trustVars, lockVars, cur, permit,
                       snap, worldVars, crashes>>

\* The barrier, the permit, the authority proof or the audit replay refuses;
\* a proof or a time window may always fail.
DispatchRefused(r) == pc[r] = "check" /\ Raise(r)

\* fence.reserve of a new row.
DispatchReserve(r) ==
    /\ pc[r] = "reserve"
    /\ Fence!Reserve(cur[r], RequestBinding(r))
    /\ Goto(r, "audit_reserved")
    /\ UNCHANGED <<audit, lifecycleVars, trustVars, lockVars, localVars,
                   worldVars, crashes>>

\* fence.reserve of the same binding again returns the stored receipt.  A row
\* with another binding would raise, but its AUTHORITY_VERIFIED event already did.
ReserveReplay(r) ==
    /\ pc[r] = "reserve"
    /\ fence[cur[r]] # "ABSENT"
    /\ bound[cur[r]] = RequestBinding(r)
    /\ Goto(r, "audit_reserved")
    /\ UNCHANGED <<fenceVars, audit, lifecycleVars, trustVars, lockVars, localVars,
                   worldVars, crashes>>

\* The fence state of the receipt whose audit event is appended at each label.
AuditedState == [audit_reserved  |-> "RESERVED",
                 audit_executing |-> "EXECUTING",
                 audit_committed |-> "COMMITTED",
                 audit_unknown   |-> "ATTEMPTED_UNKNOWN",
                 audit_cancelled |-> "CANCELLED_PRE_DISPATCH",
                 audit_occurred  |-> "RECONCILED_COMMITTED",
                 audit_no_effect |-> "RECONCILED_NO_EFFECT"]

\* Mutation: the event carries the digests of the caller, not of the receipt.
StageEvent_Caller(r) == AuditEvent(AuditedState[pc[r]], RequestBinding(r), FALSE)

StageEvent(r) == AuditEvent(AuditedState[pc[r]], bound[cur[r]], FALSE)

AuditStage(r) ==
    /\ AuditAccepts(cur[r], StageEvent(r))
    /\ AuditAppend(cur[r], StageEvent(r))

DispatchAuditReserved(r) ==
    /\ pc[r] = "audit_reserved"
    /\ AuditStage(r)
    /\ Goto(r, "claim")
    /\ UNCHANGED <<fenceVars, lifecycleVars, trustVars, lockVars, localVars,
                   worldVars, crashes>>

\* Re-validation of the permit, then the single-use claim.
DispatchClaim(r) ==
    /\ pc[r] = "claim"
    /\ PermitValid(permit[r])
    /\ bound[cur[r]] = RequestBinding(r)
    /\ Fence!ClaimDispatch(cur[r])
    /\ Goto(r, "audit_executing")
    /\ UNCHANGED <<audit, lifecycleVars, trustVars, lockVars, localVars,
                   worldVars, crashes>>

ClaimRefused(r) ==
    /\ pc[r] = "claim"
    /\ ~PermitValid(permit[r]) \/ fence[cur[r]] # "RESERVED"
    /\ Raise(r)

DispatchAuditExecuting(r) ==
    /\ pc[r] = "audit_executing"
    /\ AuditStage(r)
    /\ Goto(r, "execute")
    /\ UNCHANGED <<fenceVars, lifecycleVars, trustVars, lockVars, localVars,
                   worldVars, crashes>>

\* execute() returns a result.
ExecuteReturns(r) ==
    /\ pc[r] = "execute"
    /\ executed' = [executed EXCEPT ![cur[r]] = @ + 1]
    /\ occurred' = [occurred EXCEPT ![cur[r]] = TRUE]
    /\ Goto(r, "settle_known")
    /\ UNCHANGED <<fenceVars, audit, lifecycleVars, trustVars, lockVars,
                   localVars, crashes>>

\* Mutation: an exception of execute() is settled as a known completion.
ExecuteRaises_Swallow(r, done) ==
    /\ pc[r] = "execute"
    /\ executed' = [executed EXCEPT ![cur[r]] = @ + 1]
    /\ occurred' = [occurred EXCEPT ![cur[r]] = @ \/ done]
    /\ Goto(r, "settle_known")
    /\ UNCHANGED <<fenceVars, audit, lifecycleVars, trustVars, lockVars,
                   localVars, crashes>>

\* execute() raises, after (done) or before the external effect happened.
ExecuteRaises(r, done) ==
    /\ pc[r] = "execute"
    /\ executed' = [executed EXCEPT ![cur[r]] = @ + 1]
    /\ occurred' = [occurred EXCEPT ![cur[r]] = @ \/ done]
    /\ Goto(r, "settle_unknown")
    /\ UNCHANGED <<fenceVars, audit, lifecycleVars, trustVars, lockVars,
                   localVars, crashes>>

DispatchSettle(r, known) ==
    /\ pc[r] = IF known THEN "settle_known" ELSE "settle_unknown"
    /\ Fence!Settle(cur[r], known)
    /\ Goto(r, IF known THEN "audit_committed" ELSE "audit_unknown")
    /\ UNCHANGED <<audit, lifecycleVars, trustVars, lockVars, localVars,
                   worldVars, crashes>>

\* settle raises: only EXECUTING effects may settle.
SettleRefused(r) ==
    /\ pc[r] \in {"settle_known", "settle_unknown"}
    /\ fence[cur[r]] # "EXECUTING"
    /\ Raise(r)

----------------------------------------------------------------------------
(* Cancellation and reconciliation.                                        *)

\* cancel_reserved_effect under the action lock: the fence row first.
CancelReserved(r, e) ==
    /\ pc[r] = "idle"
    /\ lifeLock = Nil
    /\ lifeLock' = r
    /\ Fence!CancelBeforeDispatch(e)
    /\ cur' = [cur EXCEPT ![r] = e]
    /\ Goto(r, "audit_cancelled")
    /\ UNCHANGED <<audit, lifecycleVars, trustVars, trustLock, permit, evidence,
                   snap, worldVars, crashes>>

\* Mutation: reconciliation does not take the trust lock.
Reconcile_NoTrustLock(r, e) ==
    /\ pc[r] = "idle"
    /\ Fence!ReconcileUnknown(e, occurred[e])
    /\ cur' = [cur EXCEPT ![r] = e]
    /\ Goto(r, IF occurred[e] THEN "audit_occurred" ELSE "audit_no_effect")
    /\ UNCHANGED <<audit, lifecycleVars, trustVars, lockVars, permit, evidence,
                   snap, worldVars, crashes>>

\* LifecycleEffectRecovery.reconcile under the trust lock alone: the fence row
\* first.  The proof the verifier accepts states what did happen.
Reconcile(r, e) ==
    /\ pc[r] = "idle"
    /\ trustLock = Nil
    /\ trustLock' = r
    /\ Fence!ReconcileUnknown(e, occurred[e])
    /\ cur' = [cur EXCEPT ![r] = e]
    /\ Goto(r, IF occurred[e] THEN "audit_occurred" ELSE "audit_no_effect")
    /\ UNCHANGED <<audit, lifecycleVars, trustVars, lifeLock, permit, evidence,
                   snap, worldVars, crashes>>

\* The last audit event of a dispatch, a cancellation or a reconciliation.
LastAuditLabels == {"audit_committed", "audit_unknown", "audit_cancelled",
                    "audit_occurred", "audit_no_effect"}

AuditLast(r) ==
    /\ pc[r] \in LastAuditLabels
    /\ AuditStage(r)
    /\ Finish(r, "idle")
    /\ UNCHANGED <<fenceVars, lifecycleVars, trustVars, worldVars, crashes>>

\* The audit holds this stage with another payload: append raises.
AuditRefused(r) ==
    /\ pc[r] \in LastAuditLabels \cup {"audit_reserved", "audit_executing"}
    /\ ~AuditAccepts(cur[r], StageEvent(r))
    /\ Raise(r)

----------------------------------------------------------------------------
Dispatch(r) ==
    \/ DispatchLockTrust(r)     \/ LockTimeout(r)
    \/ DispatchCheck(r)         \/ DispatchRefused(r)
    \/ DispatchReserve(r)       \/ ReserveReplay(r)
    \/ DispatchAuditReserved(r)
    \/ DispatchClaim(r)         \/ ClaimRefused(r)
    \/ DispatchAuditExecuting(r)
    \/ ExecuteReturns(r)
    \/ \E done \in BOOLEAN : ExecuteRaises(r, done)
    \/ \E known \in BOOLEAN : DispatchSettle(r, known)
    \/ SettleRefused(r)

\* The steps of an operation that has begun.
Continue(r) ==
    \/ Dispatch(r)
    \/ AuditLast(r)             \/ AuditRefused(r)
    \/ CheckpointPublish(r)     \/ CheckpointBlocked(r)
    \/ \E e \in Effects : RepairStep(r, e)
    \/ OpenEnd(r)               \/ OpenFails(r)

\* A caller or an operator starts an operation.
Begin(r) ==
    \/ OpenBegin(r)
    \/ MintPermit(r)
    \/ CheckpointBegin(r)
    \/ \E e \in Effects :
           \/ \E p \in minted : DispatchBegin(r, e, p)
           \/ CancelReserved(r, e)
           \/ Reconcile(r, e)

Next ==
    \/ \E r \in Runtimes : Begin(r) \/ Continue(r) \/ Crash(r)
    \/ MemoryAdmit
    \/ TrustRotate \/ TrustRevoke \/ TrustReactivate

Spec == Init /\ [][Next]_vars

\* A process that has begun an operation goes on with it.
FairSpec == Spec /\ \A r \in Runtimes : WF_vars(Continue(r))

\* Beside that, somebody reopens a dead runtime and an operator who sees an
\* unresolved effect in the resume context keeps trying to resolve it.
OperatedSpec ==
    /\ FairSpec
    /\ \A r \in Runtimes :
           /\ WF_vars(OpenBegin(r))
           /\ \A e \in Effects :
                  SF_vars(CancelReserved(r, e)) /\ SF_vars(Reconcile(r, e))
----------------------------------------------------------------------------
(* Properties.                                                             *)

Labels == {"closed", "repair", "idle", "publish", "lock_trust", "check",
           "reserve", "audit_reserved", "claim", "audit_executing", "execute",
           "settle_known", "settle_unknown"} \cup LastAuditLabels

TypeOK ==
    /\ Fence!TypeOK
    /\ audit \in [Effects -> Seq(Event)]
    /\ cut \in [epoch : 0..MaxEpoch, memory : 0..MaxMemory]
    /\ candidate \in 0..MaxMemory \cup {NoCandidate}
    /\ memory \in 0..MaxMemory
    /\ minted \subseteq 0..MaxEpoch
    /\ trustGen \in 0..MaxTrust
    /\ enabled \in BOOLEAN
    /\ lifeLock \in Runtimes \cup {Nil}
    /\ trustLock \in Runtimes \cup {Nil}
    /\ pc \in [Runtimes -> Labels]
    /\ cur \in [Runtimes -> Effects \cup {Nil}]
    /\ permit \in [Runtimes -> 0..MaxEpoch]
    /\ evidence \in [Runtimes -> 0..MaxTrust]
    /\ snap \in [Runtimes -> [Effects -> Fence!FenceState]]
    /\ executed \in [Effects -> Nat]
    /\ occurred \in [Effects -> BOOLEAN]
    /\ crashes \in 0..MaxCrashes

(***************************************************************************)
(* The external effect behind an identity is executed at most once, across *)
(* retries, crashes at any step, restarts and cancellations, and never     *)
(* after its reservation was cancelled.                                    *)
(***************************************************************************)
AtMostOnce ==
    \A e \in Effects :
        /\ executed[e] <= 1
        /\ fence[e] \in {"ABSENT", "RESERVED", "CANCELLED_PRE_DISPATCH"} => executed[e] = 0

(***************************************************************************)
(* The unresolved-effect barrier: no runtime gets a second effect past     *)
(* assert_clear while one is reserved, executing or ambiguous.             *)
(***************************************************************************)
OneUnresolved ==
    \A e, f \in Unresolved : e = f

Frozen ==
    \A e \in Unresolved :
        /\ cut' = cut
        /\ minted' = minted
        /\ \A f \in Effects \ {e} : executed'[f] = executed[f]

(***************************************************************************)
(* "An effect with unknown external outcome freezes outbound mutation and  *)
(* lifecycle advancement until separately evidenced reconciliation         *)
(* resolves the ambiguity" (VERA_EFFECT_RECOVERY_BARRIER_V1): while an     *)
(* effect is unresolved no step publishes a cut or mints a permit, and     *)
(* execute() is never called for another effect.                           *)
(***************************************************************************)
UnresolvedFreezes == [][Frozen]_vars

(***************************************************************************)
(* At the moment execute() is called the permit is still the accepted cut, *)
(* and for PC and provider effects the authority is still trusted at the   *)
(* registry generation it was verified at: "rotation/revocation cannot     *)
(* interleave halfway through a verified external effect" (README).        *)
(***************************************************************************)
ExecutesUnderCurrentCut ==
    \A r \in Runtimes :
        pc[r] = "execute" =>
            /\ permit[r] = cut.epoch
            /\ cur[r] \notin CoordEffects => enabled /\ evidence[r] = trustGen

(***************************************************************************)
(* The audit chain is always one that verify_chain accepts, so that open() *)
(* can repair every crash window between fence and audit.                  *)
(***************************************************************************)
AuditRepairable == ChainValid

(***************************************************************************)
(* A terminal fence state tells the truth about the outside world: a       *)
(* committed effect happened; one reconciled as NO_EFFECT, or cancelled,   *)
(* did not happen and will not happen later.                               *)
(***************************************************************************)
Truthful(E) ==
    \A e \in E :
        /\ fence[e] \in {"COMMITTED", "RECONCILED_COMMITTED"} => occurred[e]
        /\ fence[e] \in {"RECONCILED_NO_EFFECT", "CANCELLED_PRE_DISPATCH"} => ~occurred[e]

TerminalTruthful == Truthful(Effects)

(***************************************************************************)
(* The same for the PC and provider effects alone, whose dispatch holds    *)
(* the trust lock that reconciliation takes.                               *)
(***************************************************************************)
ExternalTruthful == Truthful(Effects \ CoordEffects)

\* What the audit alone says of an effect: the fence row its last event records,
\* the digests that event carries, and whether a dispatch claim was recorded.
Recorded(e) == LatestType(e) \notin {"NONE", "AUTHORITY_VERIFIED"}

auditFence == [e \in Effects |-> IF Recorded(e) THEN LatestType(e) ELSE "ABSENT"]
auditBound == [e \in Effects |-> IF Recorded(e) THEN audit[e][Len(audit[e])].binding
                                               ELSE NoBinding]
auditGranted == [e \in Effects |->
    IF \E i \in DOMAIN audit[e] : audit[e][i].type = "EXECUTING" THEN 1 ELSE 0]

AuditFence == INSTANCE EffectFence WITH
    Bindings <- Binding, NoBinding <- NoBinding,
    fence <- auditFence, bound <- auditBound, granted <- auditGranted

(***************************************************************************)
(* The audit, read without the fence, is the history of a single-use       *)
(* fence: appended by the dispatch, the cancellation, the reconciliation   *)
(* and, after a crash, by the repair of the next open(), its events take   *)
(* every effect through fence transactions in an order EffectFence allows, *)
(* one claim each, all under the digests of the reservation.               *)
(***************************************************************************)
AuditFenceSpec == AuditFence!Spec

(***************************************************************************)
(* The freeze lifts: whatever a crash leaves behind, once the runtime is   *)
(* reopened and the operator resolves what is unresolved, the gateway is   *)
(* clear and consistent again, so that permits can be minted.              *)
(***************************************************************************)
FreezeLifts == Unresolved # {} ~> AssertClear /\ FenceConsistent
=============================================================================
