----------------------- MODULE EffectGateway_proofs -----------------------
(***************************************************************************)
(* The safety of the outbound path for every number of runtimes, effects,  *)
(* crashes and lifecycle or trust transitions, by one inductive invariant  *)
(* (IInv).  What the code keeps only while one process at a time has the   *)
(* state directory open, a repairable audit and terminal rows that are     *)
(* true of coordination writes too, by a second one relative to it         *)
(* (AloneInv), in the last part.                                           *)
(***************************************************************************)
EXTENDS EffectGateway, TLAPS

\* Labels at which a runtime is inside the lifecycle action lock.
LifeLabels == {"repair", "publish", "lock_trust", "check", "reserve",
               "audit_reserved", "claim", "audit_executing", "execute",
               "settle_known", "settle_unknown", "audit_committed",
               "audit_unknown", "audit_cancelled"}

\* Labels of a dispatch that passed the barrier, the permit and the authority.
VerifiedLabels == {"reserve", "audit_reserved", "claim", "audit_executing",
                   "execute", "settle_known", "settle_unknown",
                   "audit_committed", "audit_unknown"}

\* Labels after the dispatch claim, and those at which execute() is still to come.
ClaimedLabels == {"audit_executing", "execute", "settle_known", "settle_unknown",
                  "audit_committed", "audit_unknown", "audit_occurred",
                  "audit_no_effect"}
InFlightLabels == {"audit_executing", "execute", "settle_known", "settle_unknown"}
PreExecuteLabels == {"audit_executing", "execute"}

\* Labels of an operation on one effect, and those at which the effect has a row.
EffectLabels == Labels \ {"closed", "repair", "idle", "publish"}
RowLabels == EffectLabels \ {"lock_trust", "check", "reserve"}

PreDispatchStates == {"ABSENT", "RESERVED", "CANCELLED_PRE_DISPATCH"}

LockInv ==
    \A r \in Runtimes :
        /\ pc[r] \in LifeLabels => lifeLock = r
        /\ pc[r] \in VerifiedLabels \cup {"check"} /\ cur[r] \notin CoordEffects
               => trustLock = r

LocalInv ==
    \A r \in Runtimes :
        /\ pc[r] \in EffectLabels => cur[r] \in Effects
        /\ pc[r] \in RowLabels => fence[cur[r]] # "ABSENT"
        /\ pc[r] = "publish" => cut.epoch < MaxEpoch /\ candidate \in 0..MaxMemory
        /\ \A e \in Effects : snap[r][e] # "ABSENT" => fence[e] # "ABSENT"

RowInv == \A e \in Effects : fence[e] # "ABSENT" => bound[e] \in Binding

BarrierInv ==
    \A r \in Runtimes :
        /\ pc[r] \in VerifiedLabels =>
               \A e \in Effects : fence[e] \in Fence!UnresolvedStates => e = cur[r]
        /\ pc[r] = "publish" => \A e \in Effects : fence[e] \notin Fence!UnresolvedStates

CutInv ==
    \A r \in Runtimes :
        pc[r] \in VerifiedLabels =>
            /\ permit[r] = cut.epoch
            /\ cur[r] \notin CoordEffects => enabled /\ evidence[r] = trustGen

DispatchInv ==
    \A r \in Runtimes :
        /\ pc[r] \in ClaimedLabels => fence[cur[r]] \notin PreDispatchStates
        /\ pc[r] \in PreExecuteLabels => executed[cur[r]] = 0
        /\ pc[r] \in InFlightLabels /\ cur[r] \notin CoordEffects
               => fence[cur[r]] = "EXECUTING"
        /\ pc[r] = "settle_known" => occurred[cur[r]]

WorldInv == \A e \in Effects : executed[e] = 0 => ~occurred[e]

StateInv ==
    /\ TypeOK /\ LocalInv /\ RowInv

SafetyInv ==
    /\ LockInv /\ BarrierInv /\ CutInv /\ DispatchInv /\ WorldInv
    /\ AtMostOnce /\ OneUnresolved /\ ExternalTruthful

IInv == StateInv /\ SafetyInv

\* The steps that touch the fence.
LEMMA FenceFrame ==
    [Next]_vars =>
        \/ UNCHANGED fenceVars
        \/ \E r \in Runtimes :
               \/ DispatchReserve(r)
               \/ DispatchClaim(r)
               \/ \E known \in BOOLEAN : DispatchSettle(r, known)
               \/ \E e \in Effects : CancelReserved(r, e) \/ Reconcile(r, e)
<1> DEFINE Goal ==
        \/ UNCHANGED fenceVars
        \/ \E r \in Runtimes :
               \/ DispatchReserve(r)
               \/ DispatchClaim(r)
               \/ \E known \in BOOLEAN : DispatchSettle(r, known)
               \/ \E e \in Effects : CancelReserved(r, e) \/ Reconcile(r, e)
<1>1. ASSUME NEW r \in Runtimes, Begin(r) PROVE Goal
  BY <1>1 DEF Begin, OpenBegin, CheckpointBegin, DispatchBegin, MintPermit
<1>2. ASSUME NEW r \in Runtimes, Dispatch(r) PROVE Goal
  BY <1>2 DEF Dispatch, DispatchLockTrust, LockTimeout, DispatchCheck,
     DispatchRefused, ReserveReplay, DispatchAuditReserved, ClaimRefused,
     DispatchAuditExecuting, ExecuteReturns, ExecuteRaises, SettleRefused, Raise
<1>3. ASSUME NEW r \in Runtimes, Continue(r), ~Dispatch(r) PROVE Goal
  BY <1>3 DEF Continue, AuditLast, AuditRefused, CheckpointPublish,
     CheckpointBlocked, RepairStep, OpenEnd, OpenFails, Raise
<1>4. ASSUME NEW r \in Runtimes, Crash(r) PROVE Goal
  BY <1>4 DEF Crash
<1>5. ASSUME MemoryAdmit \/ TrustRotate \/ TrustRevoke \/ TrustReactivate
      PROVE  Goal
  BY <1>5 DEF MemoryAdmit, TrustRotate, TrustRevoke, TrustReactivate, TrustMutation
<1>6. ASSUME UNCHANGED vars PROVE Goal
  BY <1>6 DEF vars
<1> HIDE DEF Goal
<1>7. [Next]_vars => Goal
  BY <1>1, <1>2, <1>3, <1>4, <1>5, <1>6 DEF Next
<1> QED
  BY <1>7 DEF Goal

\* The steps that touch the outside world: execute().
LEMMA WorldFrame ==
    [Next]_vars =>
        \/ UNCHANGED worldVars
        \/ \E r \in Runtimes :
               ExecuteReturns(r) \/ \E done \in BOOLEAN : ExecuteRaises(r, done)
<1> DEFINE Goal ==
        \/ UNCHANGED worldVars
        \/ \E r \in Runtimes :
               ExecuteReturns(r) \/ \E done \in BOOLEAN : ExecuteRaises(r, done)
<1>1. ASSUME NEW r \in Runtimes, Begin(r) PROVE Goal
  BY <1>1 DEF Begin, OpenBegin, CheckpointBegin, DispatchBegin, MintPermit,
     CancelReserved, Reconcile
<1>2. ASSUME NEW r \in Runtimes, Dispatch(r) PROVE Goal
  BY <1>2 DEF Dispatch, DispatchLockTrust, LockTimeout, DispatchCheck,
     DispatchRefused, DispatchReserve, ReserveReplay, DispatchAuditReserved,
     DispatchClaim, ClaimRefused, DispatchAuditExecuting, DispatchSettle,
     SettleRefused, Raise
<1>3. ASSUME NEW r \in Runtimes, Continue(r), ~Dispatch(r) PROVE Goal
  BY <1>3 DEF Continue, AuditLast, AuditRefused, CheckpointPublish,
     CheckpointBlocked, RepairStep, OpenEnd, OpenFails, Raise
<1>4. ASSUME NEW r \in Runtimes, Crash(r) PROVE Goal
  BY <1>4 DEF Crash
<1>5. ASSUME MemoryAdmit \/ TrustRotate \/ TrustRevoke \/ TrustReactivate
      PROVE  Goal
  BY <1>5 DEF MemoryAdmit, TrustRotate, TrustRevoke, TrustReactivate, TrustMutation
<1>6. ASSUME UNCHANGED vars PROVE Goal
  BY <1>6 DEF vars
<1> HIDE DEF Goal
<1>7. [Next]_vars => Goal
  BY <1>1, <1>2, <1>3, <1>4, <1>5, <1>6 DEF Next
<1> QED
  BY <1>7 DEF Goal

\* The steps that advance the lifecycle: a minted permit, a published cut.
LEMMA CutFrame ==
    [Next]_vars =>
        \/ UNCHANGED <<cut, minted>>
        \/ \E r \in Runtimes : MintPermit(r) \/ CheckpointPublish(r)
<1> DEFINE Goal ==
        \/ UNCHANGED <<cut, minted>>
        \/ \E r \in Runtimes : MintPermit(r) \/ CheckpointPublish(r)
<1>1. ASSUME NEW r \in Runtimes, Begin(r) PROVE Goal
  BY <1>1 DEF Begin, lifecycleVars, OpenBegin, CheckpointBegin, DispatchBegin,
     CancelReserved, Reconcile
<1>2. ASSUME NEW r \in Runtimes, Dispatch(r) PROVE Goal
  BY <1>2 DEF Dispatch, lifecycleVars, DispatchLockTrust, LockTimeout,
     DispatchCheck, DispatchRefused, DispatchReserve, ReserveReplay,
     DispatchAuditReserved, DispatchClaim, ClaimRefused, DispatchAuditExecuting,
     ExecuteReturns, ExecuteRaises, DispatchSettle, SettleRefused, Raise
<1>3. ASSUME NEW r \in Runtimes, Continue(r), ~Dispatch(r) PROVE Goal
  BY <1>3 DEF Continue, lifecycleVars, AuditLast, AuditRefused, CheckpointBlocked,
     RepairStep, OpenEnd, OpenFails, Raise
<1>4. ASSUME NEW r \in Runtimes, Crash(r) PROVE Goal
  BY <1>4 DEF lifecycleVars, Crash
<1>5. ASSUME MemoryAdmit \/ TrustRotate \/ TrustRevoke \/ TrustReactivate
      PROVE  Goal
  BY <1>5 DEF lifecycleVars, MemoryAdmit, TrustRotate, TrustRevoke, TrustReactivate,
     TrustMutation
<1>6. ASSUME UNCHANGED vars PROVE Goal
  BY <1>6 DEF lifecycleVars, vars
<1> HIDE DEF Goal
<1>7. [Next]_vars => Goal
  BY <1>1, <1>2, <1>3, <1>4, <1>5, <1>6 DEF Next
<1> QED
  BY <1>7 DEF Goal

\* A lock taken at the start of an operation is held to its end: only the holder
\* releases it.
LEMMA LockStep == IInv /\ [Next]_vars => LockInv'
<1> SUFFICES ASSUME IInv, [Next]_vars PROVE LockInv'
  OBVIOUS
<1> USE GatewayAssumption
<1> USE DEF IInv, StateInv, SafetyInv, TypeOK, Fence!TypeOK, LockInv,
        LifeLabels, VerifiedLabels, fenceVars, lifecycleVars, trustVars,
        lockVars, localVars, worldVars
<1>1. ASSUME NEW r \in Runtimes, OpenBegin(r)
      PROVE  LockInv'
  BY <1>1 DEF OpenBegin, Goto
<1>2. ASSUME NEW r \in Runtimes, NEW e \in Effects, RepairStep(r, e)
      PROVE  LockInv'
  BY <1>2 DEF RepairStep
<1>3. ASSUME NEW r \in Runtimes, OpenEnd(r)
      PROVE  LockInv'
  BY <1>3 DEF OpenEnd, Finish, Goto, Release
<1>4. ASSUME NEW r \in Runtimes, OpenFails(r)
      PROVE  LockInv'
  BY <1>4 DEF OpenFails, Finish, Goto, Release
<1>5. ASSUME NEW r \in Runtimes, Crash(r)
      PROVE  LockInv'
  BY <1>5 DEF Crash, Finish, Goto, Release
<1>6. ASSUME NEW r \in Runtimes, MintPermit(r)
      PROVE  LockInv'
  BY <1>6 DEF MintPermit
<1>7. ASSUME NEW r \in Runtimes, CheckpointBegin(r)
      PROVE  LockInv'
  BY <1>7 DEF CheckpointBegin, AssertClear, Unresolved, Goto
<1>8. ASSUME NEW r \in Runtimes, CheckpointPublish(r)
      PROVE  LockInv'
  BY <1>8 DEF CheckpointPublish, Finish, Goto, Release
<1>9. ASSUME NEW r \in Runtimes, Raise(r)
      PROVE  LockInv'
  BY <1>9 DEF Raise, Finish, Goto, Release
<1>10. ASSUME NEW r \in Runtimes, NEW e \in Effects, NEW p \in minted, DispatchBegin(r, e, p)
      PROVE  LockInv'
  BY <1>10 DEF DispatchBegin, Goto
<1>11. ASSUME NEW r \in Runtimes, DispatchLockTrust(r)
      PROVE  LockInv'
  BY <1>11 DEF DispatchLockTrust, Goto
<1>12. ASSUME NEW r \in Runtimes, DispatchCheck(r)
      PROVE  LockInv'
  BY <1>12 DEF DispatchCheck, AssertClear, Unresolved, PermitValid, Goto
<1>13. ASSUME NEW r \in Runtimes, DispatchReserve(r)
      PROVE  LockInv'
  BY <1>13 DEF DispatchReserve, Fence!Reserve, RequestBinding, Goto
<1>14. ASSUME NEW r \in Runtimes, ReserveReplay(r)
      PROVE  LockInv'
  BY <1>14 DEF ReserveReplay, Goto
<1>15. ASSUME NEW r \in Runtimes, DispatchAuditReserved(r)
      PROVE  LockInv'
  BY <1>15 DEF DispatchAuditReserved, Goto
<1>16. ASSUME NEW r \in Runtimes, DispatchClaim(r)
      PROVE  LockInv'
  BY <1>16 DEF DispatchClaim, Fence!ClaimDispatch, Goto
<1>17. ASSUME NEW r \in Runtimes, DispatchAuditExecuting(r)
      PROVE  LockInv'
  BY <1>17 DEF DispatchAuditExecuting, Goto
<1>18. ASSUME NEW r \in Runtimes, ExecuteReturns(r)
      PROVE  LockInv'
  BY <1>18 DEF ExecuteReturns, Goto
<1>19. ASSUME NEW r \in Runtimes, NEW done \in BOOLEAN, ExecuteRaises(r, done)
      PROVE  LockInv'
  BY <1>19 DEF ExecuteRaises, Goto
<1>20. ASSUME NEW r \in Runtimes, NEW known \in BOOLEAN, DispatchSettle(r, known)
      PROVE  LockInv'
  BY <1>20 DEF DispatchSettle, Fence!Settle, Fence!SettledState, Goto
<1>21. ASSUME NEW r \in Runtimes, NEW e \in Effects, CancelReserved(r, e)
      PROVE  LockInv'
  BY <1>21 DEF CancelReserved, Fence!CancelBeforeDispatch, Goto
<1>22. ASSUME NEW r \in Runtimes, NEW e \in Effects, Reconcile(r, e)
      PROVE  LockInv'
  BY <1>22 DEF Reconcile, Fence!ReconcileUnknown, Fence!ReconciledState,
     Fence!AmbiguousStates, Goto
<1>23. ASSUME NEW r \in Runtimes, AuditLast(r)
      PROVE  LockInv'
  BY <1>23 DEF AuditLast, LastAuditLabels, Finish, Goto, Release
<1>24. CASE MemoryAdmit
  BY <1>24 DEF MemoryAdmit
<1>25. CASE TrustRotate
  BY <1>25 DEF TrustRotate, TrustMutation
<1>26. CASE TrustRevoke
  BY <1>26 DEF TrustRevoke, TrustMutation
<1>27. CASE TrustReactivate
  BY <1>27 DEF TrustReactivate, TrustMutation
<1>28. CASE UNCHANGED vars
  BY <1>28 DEF vars
<1> HIDE DEF IInv, StateInv, SafetyInv, TypeOK, Fence!TypeOK, LockInv,
        LifeLabels, VerifiedLabels, fenceVars, lifecycleVars, trustVars,
        lockVars, localVars, worldVars
<1> QED
  BY <1>1, <1>2, <1>3, <1>4, <1>5, <1>6, <1>7, <1>8, <1>9, <1>10,
     <1>11, <1>12, <1>13, <1>14, <1>15, <1>16, <1>17, <1>18, <1>19,
     <1>20, <1>21, <1>22, <1>23, <1>24, <1>25, <1>26, <1>27, <1>28
  DEF Next, Begin, Continue, Dispatch, CheckpointBlocked, LockTimeout, DispatchRefused, ClaimRefused,
     SettleRefused, AuditRefused

\* A runtime's local values stay meaningful: the action lock keeps the candidate
\* and the cut of a checkpoint in progress, and a fence row never disappears.
LEMMA LocalStep == IInv /\ [Next]_vars => LocalInv'
<1> SUFFICES ASSUME IInv, [Next]_vars PROVE LocalInv'
  OBVIOUS
<1> USE GatewayAssumption
<1> USE DEF IInv, StateInv, SafetyInv, TypeOK, Fence!TypeOK, LocalInv,
        LockInv, LifeLabels, EffectLabels, Labels, LastAuditLabels,
        RowLabels, NoRows, fenceVars, lifecycleVars, trustVars, lockVars,
        localVars, worldVars
<1>1. ASSUME NEW r \in Runtimes, OpenBegin(r)
      PROVE  LocalInv'
  BY <1>1 DEF OpenBegin, Goto
<1>2. ASSUME NEW r \in Runtimes, NEW e \in Effects, RepairStep(r, e)
      PROVE  LocalInv'
  BY <1>2 DEF RepairStep
<1>3. ASSUME NEW r \in Runtimes, OpenEnd(r)
      PROVE  LocalInv'
  BY <1>3 DEF OpenEnd, Finish, Goto, Release
<1>4. ASSUME NEW r \in Runtimes, OpenFails(r)
      PROVE  LocalInv'
  BY <1>4 DEF OpenFails, Finish, Goto, Release
<1>5. ASSUME NEW r \in Runtimes, Crash(r)
      PROVE  LocalInv'
  BY <1>5 DEF Crash, Finish, Goto, Release
<1>6. ASSUME NEW r \in Runtimes, MintPermit(r)
      PROVE  LocalInv'
  BY <1>6 DEF MintPermit
<1>7. ASSUME NEW r \in Runtimes, CheckpointBegin(r)
      PROVE  LocalInv'
  BY <1>7 DEF CheckpointBegin, AssertClear, Unresolved, Goto
<1>8. ASSUME NEW r \in Runtimes, CheckpointPublish(r)
      PROVE  LocalInv'
  BY <1>8 DEF CheckpointPublish, Finish, Goto, Release
<1>9. ASSUME NEW r \in Runtimes, Raise(r)
      PROVE  LocalInv'
  BY <1>9 DEF Raise, Finish, Goto, Release
<1>10. ASSUME NEW r \in Runtimes, NEW e \in Effects, NEW p \in minted, DispatchBegin(r, e, p)
      PROVE  LocalInv'
  BY <1>10 DEF DispatchBegin, Goto
<1>11. ASSUME NEW r \in Runtimes, DispatchLockTrust(r)
      PROVE  LocalInv'
  BY <1>11 DEF DispatchLockTrust, Goto
<1>12. ASSUME NEW r \in Runtimes, DispatchCheck(r)
      PROVE  LocalInv'
  BY <1>12 DEF DispatchCheck, AssertClear, Unresolved, PermitValid, Goto
<1>13. ASSUME NEW r \in Runtimes, DispatchReserve(r)
      PROVE  LocalInv'
  BY <1>13 DEF DispatchReserve, Fence!Reserve, RequestBinding, Goto
<1>14. ASSUME NEW r \in Runtimes, ReserveReplay(r)
      PROVE  LocalInv'
  BY <1>14 DEF ReserveReplay, Goto
<1>15. ASSUME NEW r \in Runtimes, DispatchAuditReserved(r)
      PROVE  LocalInv'
  BY <1>15 DEF DispatchAuditReserved, Goto
<1>16. ASSUME NEW r \in Runtimes, DispatchClaim(r)
      PROVE  LocalInv'
  BY <1>16 DEF DispatchClaim, Fence!ClaimDispatch, Goto
<1>17. ASSUME NEW r \in Runtimes, DispatchAuditExecuting(r)
      PROVE  LocalInv'
  BY <1>17 DEF DispatchAuditExecuting, Goto
<1>18. ASSUME NEW r \in Runtimes, ExecuteReturns(r)
      PROVE  LocalInv'
  BY <1>18 DEF ExecuteReturns, Goto
<1>19. ASSUME NEW r \in Runtimes, NEW done \in BOOLEAN, ExecuteRaises(r, done)
      PROVE  LocalInv'
  BY <1>19 DEF ExecuteRaises, Goto
<1>20. ASSUME NEW r \in Runtimes, NEW known \in BOOLEAN, DispatchSettle(r, known)
      PROVE  LocalInv'
  BY <1>20 DEF DispatchSettle, Fence!Settle, Fence!SettledState, Goto
<1>21. ASSUME NEW r \in Runtimes, NEW e \in Effects, CancelReserved(r, e)
      PROVE  LocalInv'
  BY <1>21 DEF CancelReserved, Fence!CancelBeforeDispatch, Goto
<1>22. ASSUME NEW r \in Runtimes, NEW e \in Effects, Reconcile(r, e)
      PROVE  LocalInv'
  <2>1. fence[e] \in Fence!FenceState /\ fence[e] # "ABSENT"
    BY <1>22 DEF Reconcile, Fence!ReconcileUnknown, Fence!AmbiguousStates
  <2>2. \A f \in Effects : fence[f] # "ABSENT" => fence'[f] # "ABSENT"
    BY <1>22 DEF Reconcile, Fence!ReconcileUnknown, Fence!ReconciledState
  <2>3. fence'[e] # "ABSENT"
    BY <2>1, <2>2
  <2>4. CASE occurred[e] = TRUE
    BY <1>22, <2>2, <2>3, <2>4 DEF Reconcile, Goto
  <2>5. CASE occurred[e] = FALSE
    BY <1>22, <2>2, <2>3, <2>5 DEF Reconcile, Goto
  <2> QED
    BY <2>4, <2>5
<1>23. ASSUME NEW r \in Runtimes, AuditLast(r)
      PROVE  LocalInv'
  BY <1>23 DEF AuditLast, LastAuditLabels, Finish, Goto, Release
<1>24. CASE MemoryAdmit
  BY <1>24 DEF MemoryAdmit
<1>25. CASE TrustRotate
  BY <1>25 DEF TrustRotate, TrustMutation
<1>26. CASE TrustRevoke
  BY <1>26 DEF TrustRevoke, TrustMutation
<1>27. CASE TrustReactivate
  BY <1>27 DEF TrustReactivate, TrustMutation
<1>28. CASE UNCHANGED vars
  BY <1>28 DEF vars
<1> HIDE DEF IInv, StateInv, SafetyInv, TypeOK, Fence!TypeOK, LocalInv,
        LockInv, LifeLabels, EffectLabels, Labels, LastAuditLabels,
        RowLabels, NoRows, fenceVars, lifecycleVars, trustVars, lockVars,
        localVars, worldVars
<1> QED
  BY <1>1, <1>2, <1>3, <1>4, <1>5, <1>6, <1>7, <1>8, <1>9, <1>10,
     <1>11, <1>12, <1>13, <1>14, <1>15, <1>16, <1>17, <1>18, <1>19,
     <1>20, <1>21, <1>22, <1>23, <1>24, <1>25, <1>26, <1>27, <1>28
  DEF Next, Begin, Continue, Dispatch, CheckpointBlocked, LockTimeout, DispatchRefused, ClaimRefused,
     SettleRefused, AuditRefused

\* A fence row always carries the digests it was reserved with.
LEMMA RowStep == IInv /\ [Next]_vars => RowInv'
<1> SUFFICES ASSUME IInv, [Next]_vars PROVE RowInv'
  OBVIOUS
<1> USE GatewayAssumption
<1> USE DEF IInv, StateInv, SafetyInv, TypeOK, Fence!TypeOK, LocalInv,
        RowInv, EffectLabels, Labels, LastAuditLabels, Binding, fenceVars,
        lifecycleVars, trustVars, lockVars, localVars, worldVars
<1>1. ASSUME NEW r \in Runtimes, DispatchReserve(r)
      PROVE  RowInv'
  BY <1>1 DEF DispatchReserve, Fence!Reserve, RequestBinding, Goto
<1>2. ASSUME NEW r \in Runtimes, DispatchClaim(r)
      PROVE  RowInv'
  BY <1>2 DEF DispatchClaim, Fence!ClaimDispatch, Goto
<1>3. ASSUME NEW r \in Runtimes, NEW known \in BOOLEAN, DispatchSettle(r, known)
      PROVE  RowInv'
  BY <1>3 DEF DispatchSettle, Fence!Settle, Fence!SettledState, Goto
<1>4. ASSUME NEW r \in Runtimes, NEW e \in Effects, CancelReserved(r, e)
      PROVE  RowInv'
  BY <1>4 DEF CancelReserved, Fence!CancelBeforeDispatch, Goto
<1>5. ASSUME NEW r \in Runtimes, NEW e \in Effects, Reconcile(r, e)
      PROVE  RowInv'
  BY <1>5 DEF Reconcile, Fence!ReconcileUnknown, Fence!ReconciledState,
     Fence!AmbiguousStates, Goto
<1>6. CASE UNCHANGED <<fenceVars>>
  BY <1>6
<1> HIDE DEF IInv, StateInv, SafetyInv, TypeOK, Fence!TypeOK, LocalInv,
        RowInv, EffectLabels, Labels, LastAuditLabels, Binding, fenceVars,
        lifecycleVars, trustVars, lockVars, localVars, worldVars
<1> QED
  BY <1>1, <1>2, <1>3, <1>4, <1>5, <1>6, FenceFrame

\* Only the holder of the action lock reserves, so what assert_clear saw stays
\* true for the rest of a dispatch and of a checkpoint.
LEMMA BarrierStep == IInv /\ [Next]_vars => BarrierInv'
<1> SUFFICES ASSUME IInv, [Next]_vars PROVE BarrierInv'
  OBVIOUS
<1> USE GatewayAssumption
<1> USE DEF IInv, StateInv, SafetyInv, TypeOK, Fence!TypeOK, LocalInv,
        LockInv, BarrierInv, LifeLabels, VerifiedLabels, EffectLabels,
        Labels, LastAuditLabels, Fence!UnresolvedStates, fenceVars,
        lifecycleVars, trustVars, lockVars, localVars, worldVars
<1>1. ASSUME NEW r \in Runtimes, OpenBegin(r)
      PROVE  BarrierInv'
  BY <1>1 DEF OpenBegin, Goto
<1>2. ASSUME NEW r \in Runtimes, NEW e \in Effects, RepairStep(r, e)
      PROVE  BarrierInv'
  BY <1>2 DEF RepairStep
<1>3. ASSUME NEW r \in Runtimes, OpenEnd(r)
      PROVE  BarrierInv'
  BY <1>3 DEF OpenEnd, Finish, Goto, Release
<1>4. ASSUME NEW r \in Runtimes, OpenFails(r)
      PROVE  BarrierInv'
  BY <1>4 DEF OpenFails, Finish, Goto, Release
<1>5. ASSUME NEW r \in Runtimes, Crash(r)
      PROVE  BarrierInv'
  BY <1>5 DEF Crash, Finish, Goto, Release
<1>6. ASSUME NEW r \in Runtimes, MintPermit(r)
      PROVE  BarrierInv'
  BY <1>6 DEF MintPermit
<1>7. ASSUME NEW r \in Runtimes, CheckpointBegin(r)
      PROVE  BarrierInv'
  BY <1>7 DEF CheckpointBegin, AssertClear, Unresolved, Goto
<1>8. ASSUME NEW r \in Runtimes, CheckpointPublish(r)
      PROVE  BarrierInv'
  BY <1>8 DEF CheckpointPublish, Finish, Goto, Release
<1>9. ASSUME NEW r \in Runtimes, Raise(r)
      PROVE  BarrierInv'
  BY <1>9 DEF Raise, Finish, Goto, Release
<1>10. ASSUME NEW r \in Runtimes, NEW e \in Effects, NEW p \in minted, DispatchBegin(r, e, p)
      PROVE  BarrierInv'
  BY <1>10 DEF DispatchBegin, Goto
<1>11. ASSUME NEW r \in Runtimes, DispatchLockTrust(r)
      PROVE  BarrierInv'
  BY <1>11 DEF DispatchLockTrust, Goto
<1>12. ASSUME NEW r \in Runtimes, DispatchCheck(r)
      PROVE  BarrierInv'
  BY <1>12 DEF DispatchCheck, AssertClear, Unresolved, PermitValid, Goto
<1>13. ASSUME NEW r \in Runtimes, DispatchReserve(r)
      PROVE  BarrierInv'
  BY <1>13 DEF DispatchReserve, Fence!Reserve, RequestBinding, Goto
<1>14. ASSUME NEW r \in Runtimes, ReserveReplay(r)
      PROVE  BarrierInv'
  BY <1>14 DEF ReserveReplay, Goto
<1>15. ASSUME NEW r \in Runtimes, DispatchAuditReserved(r)
      PROVE  BarrierInv'
  BY <1>15 DEF DispatchAuditReserved, Goto
<1>16. ASSUME NEW r \in Runtimes, DispatchClaim(r)
      PROVE  BarrierInv'
  BY <1>16 DEF DispatchClaim, Fence!ClaimDispatch, Goto
<1>17. ASSUME NEW r \in Runtimes, DispatchAuditExecuting(r)
      PROVE  BarrierInv'
  BY <1>17 DEF DispatchAuditExecuting, Goto
<1>18. ASSUME NEW r \in Runtimes, ExecuteReturns(r)
      PROVE  BarrierInv'
  BY <1>18 DEF ExecuteReturns, Goto
<1>19. ASSUME NEW r \in Runtimes, NEW done \in BOOLEAN, ExecuteRaises(r, done)
      PROVE  BarrierInv'
  BY <1>19 DEF ExecuteRaises, Goto
<1>20. ASSUME NEW r \in Runtimes, NEW known \in BOOLEAN, DispatchSettle(r, known)
      PROVE  BarrierInv'
  BY <1>20 DEF DispatchSettle, Fence!Settle, Fence!SettledState, Goto
<1>21. ASSUME NEW r \in Runtimes, NEW e \in Effects, CancelReserved(r, e)
      PROVE  BarrierInv'
  BY <1>21 DEF CancelReserved, Fence!CancelBeforeDispatch, Goto
<1>22. ASSUME NEW r \in Runtimes, NEW e \in Effects, Reconcile(r, e)
      PROVE  BarrierInv'
  BY <1>22 DEF Reconcile, Fence!ReconcileUnknown, Fence!ReconciledState,
     Fence!AmbiguousStates, Goto
<1>23. ASSUME NEW r \in Runtimes, AuditLast(r)
      PROVE  BarrierInv'
  BY <1>23 DEF AuditLast, LastAuditLabels, Finish, Goto, Release
<1>24. CASE MemoryAdmit
  BY <1>24 DEF MemoryAdmit
<1>25. CASE TrustRotate
  BY <1>25 DEF TrustRotate, TrustMutation
<1>26. CASE TrustRevoke
  BY <1>26 DEF TrustRevoke, TrustMutation
<1>27. CASE TrustReactivate
  BY <1>27 DEF TrustReactivate, TrustMutation
<1>28. CASE UNCHANGED vars
  BY <1>28 DEF vars
<1> HIDE DEF IInv, StateInv, SafetyInv, TypeOK, Fence!TypeOK, LocalInv,
        LockInv, BarrierInv, LifeLabels, VerifiedLabels, EffectLabels,
        Labels, LastAuditLabels, Fence!UnresolvedStates, fenceVars,
        lifecycleVars, trustVars, lockVars, localVars, worldVars
<1> QED
  BY <1>1, <1>2, <1>3, <1>4, <1>5, <1>6, <1>7, <1>8, <1>9, <1>10,
     <1>11, <1>12, <1>13, <1>14, <1>15, <1>16, <1>17, <1>18, <1>19,
     <1>20, <1>21, <1>22, <1>23, <1>24, <1>25, <1>26, <1>27, <1>28
  DEF Next, Begin, Continue, Dispatch, CheckpointBlocked, LockTimeout, DispatchRefused, ClaimRefused,
     SettleRefused, AuditRefused

\* The permit and the authority a dispatch verified stay current until it ends.
LEMMA CutStep == IInv /\ [Next]_vars => CutInv'
<1> SUFFICES ASSUME IInv, [Next]_vars PROVE CutInv'
  OBVIOUS
<1> USE GatewayAssumption
<1> USE DEF IInv, StateInv, SafetyInv, TypeOK, Fence!TypeOK, LocalInv,
        LockInv, CutInv, LifeLabels, VerifiedLabels, EffectLabels, Labels,
        LastAuditLabels, fenceVars, lifecycleVars, trustVars, lockVars,
        localVars, worldVars
<1>1. ASSUME NEW r \in Runtimes, OpenBegin(r)
      PROVE  CutInv'
  BY <1>1 DEF OpenBegin, Goto
<1>2. ASSUME NEW r \in Runtimes, NEW e \in Effects, RepairStep(r, e)
      PROVE  CutInv'
  BY <1>2 DEF RepairStep
<1>3. ASSUME NEW r \in Runtimes, OpenEnd(r)
      PROVE  CutInv'
  BY <1>3 DEF OpenEnd, Finish, Goto, Release
<1>4. ASSUME NEW r \in Runtimes, OpenFails(r)
      PROVE  CutInv'
  BY <1>4 DEF OpenFails, Finish, Goto, Release
<1>5. ASSUME NEW r \in Runtimes, Crash(r)
      PROVE  CutInv'
  BY <1>5 DEF Crash, Finish, Goto, Release
<1>6. ASSUME NEW r \in Runtimes, MintPermit(r)
      PROVE  CutInv'
  BY <1>6 DEF MintPermit
<1>7. ASSUME NEW r \in Runtimes, CheckpointBegin(r)
      PROVE  CutInv'
  BY <1>7 DEF CheckpointBegin, AssertClear, Unresolved, Goto
<1>8. ASSUME NEW r \in Runtimes, CheckpointPublish(r)
      PROVE  CutInv'
  BY <1>8 DEF CheckpointPublish, Finish, Goto, Release
<1>9. ASSUME NEW r \in Runtimes, Raise(r)
      PROVE  CutInv'
  BY <1>9 DEF Raise, Finish, Goto, Release
<1>10. ASSUME NEW r \in Runtimes, NEW e \in Effects, NEW p \in minted, DispatchBegin(r, e, p)
      PROVE  CutInv'
  BY <1>10 DEF DispatchBegin, Goto
<1>11. ASSUME NEW r \in Runtimes, DispatchLockTrust(r)
      PROVE  CutInv'
  BY <1>11 DEF DispatchLockTrust, Goto
<1>12. ASSUME NEW r \in Runtimes, DispatchCheck(r)
      PROVE  CutInv'
  BY <1>12 DEF DispatchCheck, AssertClear, Unresolved, PermitValid, Goto
<1>13. ASSUME NEW r \in Runtimes, DispatchReserve(r)
      PROVE  CutInv'
  BY <1>13 DEF DispatchReserve, Fence!Reserve, RequestBinding, Goto
<1>14. ASSUME NEW r \in Runtimes, ReserveReplay(r)
      PROVE  CutInv'
  BY <1>14 DEF ReserveReplay, Goto
<1>15. ASSUME NEW r \in Runtimes, DispatchAuditReserved(r)
      PROVE  CutInv'
  BY <1>15 DEF DispatchAuditReserved, Goto
<1>16. ASSUME NEW r \in Runtimes, DispatchClaim(r)
      PROVE  CutInv'
  BY <1>16 DEF DispatchClaim, Fence!ClaimDispatch, Goto
<1>17. ASSUME NEW r \in Runtimes, DispatchAuditExecuting(r)
      PROVE  CutInv'
  BY <1>17 DEF DispatchAuditExecuting, Goto
<1>18. ASSUME NEW r \in Runtimes, ExecuteReturns(r)
      PROVE  CutInv'
  BY <1>18 DEF ExecuteReturns, Goto
<1>19. ASSUME NEW r \in Runtimes, NEW done \in BOOLEAN, ExecuteRaises(r, done)
      PROVE  CutInv'
  BY <1>19 DEF ExecuteRaises, Goto
<1>20. ASSUME NEW r \in Runtimes, NEW known \in BOOLEAN, DispatchSettle(r, known)
      PROVE  CutInv'
  BY <1>20 DEF DispatchSettle, Fence!Settle, Fence!SettledState, Goto
<1>21. ASSUME NEW r \in Runtimes, NEW e \in Effects, CancelReserved(r, e)
      PROVE  CutInv'
  BY <1>21 DEF CancelReserved, Fence!CancelBeforeDispatch, Goto
<1>22. ASSUME NEW r \in Runtimes, NEW e \in Effects, Reconcile(r, e)
      PROVE  CutInv'
  BY <1>22 DEF Reconcile, Fence!ReconcileUnknown, Fence!ReconciledState,
     Fence!AmbiguousStates, Goto
<1>23. ASSUME NEW r \in Runtimes, AuditLast(r)
      PROVE  CutInv'
  BY <1>23 DEF AuditLast, LastAuditLabels, Finish, Goto, Release
<1>24. CASE MemoryAdmit
  BY <1>24 DEF MemoryAdmit
<1>25. CASE TrustRotate
  BY <1>25 DEF TrustRotate, TrustMutation
<1>26. CASE TrustRevoke
  BY <1>26 DEF TrustRevoke, TrustMutation
<1>27. CASE TrustReactivate
  BY <1>27 DEF TrustReactivate, TrustMutation
<1>28. CASE UNCHANGED vars
  BY <1>28 DEF vars
<1> HIDE DEF IInv, StateInv, SafetyInv, TypeOK, Fence!TypeOK, LocalInv,
        LockInv, CutInv, LifeLabels, VerifiedLabels, EffectLabels, Labels,
        LastAuditLabels, fenceVars, lifecycleVars, trustVars, lockVars,
        localVars, worldVars
<1> QED
  BY <1>1, <1>2, <1>3, <1>4, <1>5, <1>6, <1>7, <1>8, <1>9, <1>10,
     <1>11, <1>12, <1>13, <1>14, <1>15, <1>16, <1>17, <1>18, <1>19,
     <1>20, <1>21, <1>22, <1>23, <1>24, <1>25, <1>26, <1>27, <1>28
  DEF Next, Begin, Continue, Dispatch, CheckpointBlocked, LockTimeout, DispatchRefused, ClaimRefused,
     SettleRefused, AuditRefused

\* A claimed effect stays claimed, is executed by its claimer alone, and for an
\* external effect the trust lock keeps reconciliation out until it is settled.
LEMMA DispatchStep == IInv /\ [Next]_vars => DispatchInv'
<1> SUFFICES ASSUME IInv, [Next]_vars PROVE DispatchInv'
  OBVIOUS
<1> USE GatewayAssumption
<1> USE DEF IInv, StateInv, SafetyInv, TypeOK, Fence!TypeOK, LocalInv,
        LockInv, DispatchInv, AtMostOnce, LifeLabels, VerifiedLabels,
        EffectLabels, Labels, LastAuditLabels, ClaimedLabels,
        InFlightLabels, PreExecuteLabels, PreDispatchStates, fenceVars,
        lifecycleVars, trustVars, lockVars, localVars, worldVars
<1>1. ASSUME NEW r \in Runtimes, OpenBegin(r)
      PROVE  DispatchInv'
  BY <1>1 DEF OpenBegin, Goto
<1>2. ASSUME NEW r \in Runtimes, NEW e \in Effects, RepairStep(r, e)
      PROVE  DispatchInv'
  BY <1>2 DEF RepairStep
<1>3. ASSUME NEW r \in Runtimes, OpenEnd(r)
      PROVE  DispatchInv'
  BY <1>3 DEF OpenEnd, Finish, Goto, Release
<1>4. ASSUME NEW r \in Runtimes, OpenFails(r)
      PROVE  DispatchInv'
  BY <1>4 DEF OpenFails, Finish, Goto, Release
<1>5. ASSUME NEW r \in Runtimes, Crash(r)
      PROVE  DispatchInv'
  BY <1>5 DEF Crash, Finish, Goto, Release
<1>6. ASSUME NEW r \in Runtimes, MintPermit(r)
      PROVE  DispatchInv'
  BY <1>6 DEF MintPermit
<1>7. ASSUME NEW r \in Runtimes, CheckpointBegin(r)
      PROVE  DispatchInv'
  BY <1>7 DEF CheckpointBegin, AssertClear, Unresolved, Goto
<1>8. ASSUME NEW r \in Runtimes, CheckpointPublish(r)
      PROVE  DispatchInv'
  BY <1>8 DEF CheckpointPublish, Finish, Goto, Release
<1>9. ASSUME NEW r \in Runtimes, Raise(r)
      PROVE  DispatchInv'
  BY <1>9 DEF Raise, Finish, Goto, Release
<1>10. ASSUME NEW r \in Runtimes, NEW e \in Effects, NEW p \in minted, DispatchBegin(r, e, p)
      PROVE  DispatchInv'
  BY <1>10 DEF DispatchBegin, Goto
<1>11. ASSUME NEW r \in Runtimes, DispatchLockTrust(r)
      PROVE  DispatchInv'
  BY <1>11 DEF DispatchLockTrust, Goto
<1>12. ASSUME NEW r \in Runtimes, DispatchCheck(r)
      PROVE  DispatchInv'
  BY <1>12 DEF DispatchCheck, AssertClear, Unresolved, PermitValid, Goto
<1>13. ASSUME NEW r \in Runtimes, DispatchReserve(r)
      PROVE  DispatchInv'
  BY <1>13 DEF DispatchReserve, Fence!Reserve, RequestBinding, Goto
<1>14. ASSUME NEW r \in Runtimes, ReserveReplay(r)
      PROVE  DispatchInv'
  BY <1>14 DEF ReserveReplay, Goto
<1>15. ASSUME NEW r \in Runtimes, DispatchAuditReserved(r)
      PROVE  DispatchInv'
  BY <1>15 DEF DispatchAuditReserved, Goto
<1>16. ASSUME NEW r \in Runtimes, DispatchClaim(r)
      PROVE  DispatchInv'
  BY <1>16 DEF DispatchClaim, Fence!ClaimDispatch, Goto
<1>17. ASSUME NEW r \in Runtimes, DispatchAuditExecuting(r)
      PROVE  DispatchInv'
  BY <1>17 DEF DispatchAuditExecuting, Goto
<1>18. ASSUME NEW r \in Runtimes, ExecuteReturns(r)
      PROVE  DispatchInv'
  BY <1>18 DEF ExecuteReturns, Goto
<1>19. ASSUME NEW r \in Runtimes, NEW done \in BOOLEAN, ExecuteRaises(r, done)
      PROVE  DispatchInv'
  BY <1>19 DEF ExecuteRaises, Goto
<1>20. ASSUME NEW r \in Runtimes, NEW known \in BOOLEAN, DispatchSettle(r, known)
      PROVE  DispatchInv'
  <2>1. CASE known = TRUE
    BY <1>20, <2>1 DEF DispatchSettle, Fence!Settle, Fence!SettledState, Goto
  <2>2. CASE known = FALSE
    <3>1. fence' = [fence EXCEPT ![cur[r]] = "ATTEMPTED_UNKNOWN"]
      BY <1>20, <2>2 DEF DispatchSettle, Fence!Settle, Fence!SettledState
    <3>2. pc' = [pc EXCEPT ![r] = "audit_unknown"] /\ pc[r] = "settle_unknown"
      BY <1>20, <2>2 DEF DispatchSettle, Goto
    <3>3. UNCHANGED <<cur, executed, occurred>>
      BY <1>20 DEF DispatchSettle
    <3>4. ASSUME NEW s \in Runtimes, s # r, pc[s] \in InFlightLabels,
                 cur[s] \notin CoordEffects
          PROVE  cur[s] # cur[r]
      BY <1>20, <3>2, <3>4
    <3> QED
      BY <3>1, <3>2, <3>3, <3>4
  <2> QED
    BY <2>1, <2>2
<1>21. ASSUME NEW r \in Runtimes, NEW e \in Effects, CancelReserved(r, e)
      PROVE  DispatchInv'
  BY <1>21 DEF CancelReserved, Fence!CancelBeforeDispatch, Goto
<1>22. ASSUME NEW r \in Runtimes, NEW e \in Effects, Reconcile(r, e)
      PROVE  DispatchInv'
  BY <1>22 DEF Reconcile, Fence!ReconcileUnknown, Fence!ReconciledState,
     Fence!AmbiguousStates, Goto
<1>23. ASSUME NEW r \in Runtimes, AuditLast(r)
      PROVE  DispatchInv'
  BY <1>23 DEF AuditLast, LastAuditLabels, Finish, Goto, Release
<1>24. CASE MemoryAdmit
  BY <1>24 DEF MemoryAdmit
<1>25. CASE TrustRotate
  BY <1>25 DEF TrustRotate, TrustMutation
<1>26. CASE TrustRevoke
  BY <1>26 DEF TrustRevoke, TrustMutation
<1>27. CASE TrustReactivate
  BY <1>27 DEF TrustReactivate, TrustMutation
<1>28. CASE UNCHANGED vars
  BY <1>28 DEF vars
<1> HIDE DEF IInv, StateInv, SafetyInv, TypeOK, Fence!TypeOK, LocalInv,
        LockInv, DispatchInv, AtMostOnce, LifeLabels, VerifiedLabels,
        EffectLabels, Labels, LastAuditLabels, ClaimedLabels,
        InFlightLabels, PreExecuteLabels, PreDispatchStates, fenceVars,
        lifecycleVars, trustVars, lockVars, localVars, worldVars
<1> QED
  BY <1>1, <1>2, <1>3, <1>4, <1>5, <1>6, <1>7, <1>8, <1>9, <1>10,
     <1>11, <1>12, <1>13, <1>14, <1>15, <1>16, <1>17, <1>18, <1>19,
     <1>20, <1>21, <1>22, <1>23, <1>24, <1>25, <1>26, <1>27, <1>28
  DEF Next, Begin, Continue, Dispatch, CheckpointBlocked, LockTimeout, DispatchRefused, ClaimRefused,
     SettleRefused, AuditRefused

\* An effect that was never executed did not happen.
LEMMA WorldStep == IInv /\ [Next]_vars => WorldInv'
<1> SUFFICES ASSUME IInv, [Next]_vars PROVE WorldInv'
  OBVIOUS
<1> USE GatewayAssumption
<1> USE DEF IInv, StateInv, SafetyInv, TypeOK, Fence!TypeOK, LocalInv,
        WorldInv, EffectLabels, Labels, LastAuditLabels, fenceVars,
        lifecycleVars, trustVars, lockVars, localVars, worldVars
<1>1. ASSUME NEW r \in Runtimes, ExecuteReturns(r)
      PROVE  WorldInv'
  BY <1>1 DEF ExecuteReturns, Goto
<1>2. ASSUME NEW r \in Runtimes, NEW done \in BOOLEAN, ExecuteRaises(r, done)
      PROVE  WorldInv'
  BY <1>2 DEF ExecuteRaises, Goto
<1>3. CASE UNCHANGED <<worldVars>>
  BY <1>3
<1> HIDE DEF IInv, StateInv, SafetyInv, TypeOK, Fence!TypeOK, LocalInv,
        WorldInv, EffectLabels, Labels, LastAuditLabels, fenceVars,
        lifecycleVars, trustVars, lockVars, localVars, worldVars
<1> QED
  BY <1>1, <1>2, <1>3, WorldFrame

\* The execution of an effect is its first.
LEMMA OnceStep == IInv /\ [Next]_vars => AtMostOnce'
<1> SUFFICES ASSUME IInv, [Next]_vars PROVE AtMostOnce'
  OBVIOUS
<1> USE GatewayAssumption
<1> USE DEF IInv, StateInv, SafetyInv, TypeOK, Fence!TypeOK, LocalInv,
        DispatchInv, AtMostOnce, ClaimedLabels, PreExecuteLabels,
        PreDispatchStates, EffectLabels, Labels, LastAuditLabels, fenceVars,
        lifecycleVars, trustVars, lockVars, localVars, worldVars
<1>1. ASSUME NEW r \in Runtimes, DispatchReserve(r)
      PROVE  AtMostOnce'
  BY <1>1 DEF DispatchReserve, Fence!Reserve, RequestBinding, Goto
<1>2. ASSUME NEW r \in Runtimes, DispatchClaim(r)
      PROVE  AtMostOnce'
  BY <1>2 DEF DispatchClaim, Fence!ClaimDispatch, Goto
<1>3. ASSUME NEW r \in Runtimes, ExecuteReturns(r)
      PROVE  AtMostOnce'
  BY <1>3 DEF ExecuteReturns, Goto
<1>4. ASSUME NEW r \in Runtimes, NEW done \in BOOLEAN, ExecuteRaises(r, done)
      PROVE  AtMostOnce'
  BY <1>4 DEF ExecuteRaises, Goto
<1>5. ASSUME NEW r \in Runtimes, NEW known \in BOOLEAN, DispatchSettle(r, known)
      PROVE  AtMostOnce'
  BY <1>5 DEF DispatchSettle, Fence!Settle, Fence!SettledState, Goto
<1>6. ASSUME NEW r \in Runtimes, NEW e \in Effects, CancelReserved(r, e)
      PROVE  AtMostOnce'
  BY <1>6 DEF CancelReserved, Fence!CancelBeforeDispatch, Goto
<1>7. ASSUME NEW r \in Runtimes, NEW e \in Effects, Reconcile(r, e)
      PROVE  AtMostOnce'
  BY <1>7 DEF Reconcile, Fence!ReconcileUnknown, Fence!ReconciledState,
     Fence!AmbiguousStates, Goto
<1>8. CASE UNCHANGED <<fenceVars, worldVars>>
  BY <1>8
<1> HIDE DEF IInv, StateInv, SafetyInv, TypeOK, Fence!TypeOK, LocalInv,
        DispatchInv, AtMostOnce, ClaimedLabels, PreExecuteLabels,
        PreDispatchStates, EffectLabels, Labels, LastAuditLabels, fenceVars,
        lifecycleVars, trustVars, lockVars, localVars, worldVars
<1> QED
  BY <1>1, <1>2, <1>3, <1>4, <1>5, <1>6, <1>7, <1>8, FenceFrame,
     WorldFrame

\* A new reservation is the only unresolved effect.
LEMMA OneStep == IInv /\ [Next]_vars => OneUnresolved'
<1> SUFFICES ASSUME IInv, [Next]_vars PROVE OneUnresolved'
  OBVIOUS
<1> USE GatewayAssumption
<1> USE DEF IInv, StateInv, SafetyInv, TypeOK, Fence!TypeOK, LocalInv,
        BarrierInv, OneUnresolved, Unresolved, VerifiedLabels, EffectLabels,
        Labels, LastAuditLabels, Fence!UnresolvedStates, fenceVars,
        lifecycleVars, trustVars, lockVars, localVars, worldVars
<1>1. ASSUME NEW r \in Runtimes, DispatchReserve(r)
      PROVE  OneUnresolved'
  <2>1. \A e \in Effects : fence[e] \in Fence!UnresolvedStates => e = cur[r]
    BY <1>1 DEF DispatchReserve
  <2>2. cur[r] \in Effects
    BY <1>1 DEF DispatchReserve
  <2>3. \A e \in Effects : e # cur[r] => fence'[e] = fence[e]
    BY <1>1, <2>2 DEF DispatchReserve, Fence!Reserve
  <2>4. \A e \in Unresolved' : e = cur[r]
    BY <2>1, <2>3
  <2> QED
    BY <2>4
<1>2. ASSUME NEW r \in Runtimes, DispatchClaim(r)
      PROVE  OneUnresolved'
  BY <1>2 DEF DispatchClaim, Fence!ClaimDispatch, Goto
<1>3. ASSUME NEW r \in Runtimes, NEW known \in BOOLEAN, DispatchSettle(r, known)
      PROVE  OneUnresolved'
  BY <1>3 DEF DispatchSettle, Fence!Settle, Fence!SettledState, Goto
<1>4. ASSUME NEW r \in Runtimes, NEW e \in Effects, CancelReserved(r, e)
      PROVE  OneUnresolved'
  BY <1>4 DEF CancelReserved, Fence!CancelBeforeDispatch, Goto
<1>5. ASSUME NEW r \in Runtimes, NEW e \in Effects, Reconcile(r, e)
      PROVE  OneUnresolved'
  <2>1. fence' \in [Effects -> Fence!FenceState]
        /\ \A f \in Effects : f # e => fence'[f] = fence[f]
    BY <1>5 DEF Reconcile, Fence!ReconcileUnknown, Fence!ReconciledState,
       Fence!FenceState, Fence!EffectState
  <2>2. fence[e] \in Fence!UnresolvedStates
    BY <1>5 DEF Reconcile, Fence!ReconcileUnknown, Fence!AmbiguousStates
  <2>3. Unresolved' \subseteq Unresolved
    BY <2>1, <2>2
  <2> QED
    BY <2>3
<1>6. CASE UNCHANGED <<fenceVars>>
  BY <1>6
<1> HIDE DEF IInv, StateInv, SafetyInv, TypeOK, Fence!TypeOK, LocalInv,
        BarrierInv, OneUnresolved, Unresolved, VerifiedLabels, EffectLabels,
        Labels, LastAuditLabels, Fence!UnresolvedStates, fenceVars,
        lifecycleVars, trustVars, lockVars, localVars, worldVars
<1> QED
  BY <1>1, <1>2, <1>3, <1>4, <1>5, <1>6, FenceFrame

\* An external effect is reconciled only when nobody is about to execute it.
LEMMA TruthStep == IInv /\ [Next]_vars => ExternalTruthful'
<1> SUFFICES ASSUME IInv, [Next]_vars PROVE ExternalTruthful'
  OBVIOUS
<1> USE GatewayAssumption
<1> USE DEF IInv, StateInv, SafetyInv, TypeOK, Fence!TypeOK, LocalInv,
        LockInv, DispatchInv, WorldInv, AtMostOnce, ExternalTruthful,
        Truthful, VerifiedLabels, ClaimedLabels, InFlightLabels,
        PreExecuteLabels, PreDispatchStates, EffectLabels, Labels,
        LastAuditLabels, fenceVars, lifecycleVars, trustVars, lockVars,
        localVars, worldVars
<1>1. ASSUME NEW r \in Runtimes, DispatchReserve(r)
      PROVE  ExternalTruthful'
  BY <1>1 DEF DispatchReserve, Fence!Reserve, RequestBinding, Goto
<1>2. ASSUME NEW r \in Runtimes, DispatchClaim(r)
      PROVE  ExternalTruthful'
  BY <1>2 DEF DispatchClaim, Fence!ClaimDispatch, Goto
<1>3. ASSUME NEW r \in Runtimes, ExecuteReturns(r)
      PROVE  ExternalTruthful'
  BY <1>3 DEF ExecuteReturns, Goto
<1>4. ASSUME NEW r \in Runtimes, NEW done \in BOOLEAN, ExecuteRaises(r, done)
      PROVE  ExternalTruthful'
  BY <1>4 DEF ExecuteRaises, Goto
<1>5. ASSUME NEW r \in Runtimes, NEW known \in BOOLEAN, DispatchSettle(r, known)
      PROVE  ExternalTruthful'
  BY <1>5 DEF DispatchSettle, Fence!Settle, Fence!SettledState, Goto
<1>6. ASSUME NEW r \in Runtimes, NEW e \in Effects, CancelReserved(r, e)
      PROVE  ExternalTruthful'
  BY <1>6 DEF CancelReserved, Fence!CancelBeforeDispatch, Goto
<1>7. ASSUME NEW r \in Runtimes, NEW e \in Effects, Reconcile(r, e)
      PROVE  ExternalTruthful'
  <2>1. CASE occurred[e] = TRUE
    BY <1>7, <2>1 DEF Reconcile, Fence!ReconcileUnknown, Fence!ReconciledState
  <2>2. CASE occurred[e] = FALSE
    BY <1>7, <2>2 DEF Reconcile, Fence!ReconcileUnknown, Fence!ReconciledState
  <2>3. occurred[e] \in BOOLEAN
    BY <1>7
  <2> QED
    BY <2>1, <2>2, <2>3
<1>8. CASE UNCHANGED <<fenceVars, worldVars>>
  BY <1>8
<1> HIDE DEF IInv, StateInv, SafetyInv, TypeOK, Fence!TypeOK, LocalInv,
        LockInv, DispatchInv, WorldInv, AtMostOnce, ExternalTruthful,
        Truthful, VerifiedLabels, ClaimedLabels, InFlightLabels,
        PreExecuteLabels, PreDispatchStates, EffectLabels, Labels,
        LastAuditLabels, fenceVars, lifecycleVars, trustVars, lockVars,
        localVars, worldVars
<1> QED
  BY <1>1, <1>2, <1>3, <1>4, <1>5, <1>6, <1>7, <1>8, FenceFrame,
     WorldFrame

\* An audit append keeps the audit a function of event sequences.
LEMMA AuditAppendType ==
    ASSUME audit \in [Effects -> Seq(Event)],
           NEW e \in Effects, NEW ev \in Event, AuditAppend(e, ev)
    PROVE  audit' \in [Effects -> Seq(Event)]
BY DEF AuditAppend

\* The end of an operation keeps the locks and the local values typed.
LEMMA FinishType ==
    ASSUME TypeOK, NEW r \in Runtimes, NEW label \in Labels, Finish(r, label)
    PROVE  /\ lifeLock' \in Runtimes \cup {Nil}
           /\ trustLock' \in Runtimes \cup {Nil}
           /\ pc' \in [Runtimes -> Labels]
           /\ cur' \in [Runtimes -> Effects \cup {Nil}]
           /\ permit' \in [Runtimes -> 0..MaxEpoch]
           /\ evidence' \in [Runtimes -> 0..MaxTrust]
           /\ snap' \in [Runtimes -> [Effects -> Fence!FenceState]]
BY GatewayAssumption DEF TypeOK, Finish, Goto, Release, NoRows, Fence!FenceState

\* The event of an audit step is well formed: its label names a fence state and
\* its effect has a row.
LEMMA StageEventType ==
    ASSUME LocalInv, RowInv, NEW r \in Runtimes,
           pc[r] \in LastAuditLabels \cup {"audit_reserved", "audit_executing"}
    PROVE  cur[r] \in Effects /\ StageEvent(r) \in Event
<1>1. cur[r] \in Effects /\ bound[cur[r]] \in Binding
  BY DEF LocalInv, RowInv, EffectLabels, RowLabels, Labels, LastAuditLabels
<1>2. AuditedState[pc[r]] \in EventType
  BY DEF AuditedState, EventType, Fence!EffectState, LastAuditLabels
<1> QED
  BY <1>1, <1>2 DEF StageEvent, AuditEvent, Event

\* Every variable keeps its type.
LEMMA TypeStep == IInv /\ [Next]_vars => TypeOK'
<1> SUFFICES ASSUME IInv, [Next]_vars PROVE TypeOK'
  OBVIOUS
<1> USE GatewayAssumption
<1> USE DEF IInv, StateInv, SafetyInv, TypeOK, Fence!TypeOK,
        Fence!FenceState, Fence!EffectState, EffectLabels, Labels,
        LastAuditLabels, NoRows, NoCandidate, fenceVars, lifecycleVars,
        trustVars, lockVars, localVars, worldVars
<1>1. ASSUME NEW r \in Runtimes, OpenBegin(r)
      PROVE  TypeOK'
  BY <1>1 DEF OpenBegin, Goto
<1>2. ASSUME NEW r \in Runtimes, NEW e \in Effects, RepairStep(r, e)
      PROVE  TypeOK'
  <2> DEFINE stage == RepairStage(LatestType(e), snap[r][e])
             ev == AuditEvent(stage, bound[e], TRUE)
  <2>1. bound[e] \in Binding
    BY <1>2 DEF RepairStep, Unrepaired, LocalInv, RowInv
  <2>2. stage \in EventType
    BY <1>2 DEF RepairStep, RepairStage, AllowedNext, EventType
  <2>3. ev \in Event
    BY <2>1, <2>2 DEF AuditEvent, Event
  <2>4. AuditAppend(e, ev)
    BY <1>2 DEF RepairStep
  <2>5. audit' \in [Effects -> Seq(Event)]
    BY <2>3, <2>4, AuditAppendType
  <2> QED
    BY <1>2, <2>5 DEF RepairStep
<1>3. ASSUME NEW r \in Runtimes, OpenEnd(r)
      PROVE  TypeOK'
  <2>1. PICK label \in Labels : Finish(r, label)
    BY <1>3 DEF OpenEnd
  <2> QED
    BY <1>3, <2>1, FinishType DEF OpenEnd
<1>4. ASSUME NEW r \in Runtimes, OpenFails(r)
      PROVE  TypeOK'
  <2>1. PICK label \in Labels : Finish(r, label)
    BY <1>4 DEF OpenFails
  <2> QED
    BY <1>4, <2>1, FinishType DEF OpenFails
<1>5. ASSUME NEW r \in Runtimes, Crash(r)
      PROVE  TypeOK'
  <2>1. Finish(r, "closed") /\ "closed" \in Labels
    BY <1>5 DEF Crash
  <2>2. crashes' \in 0..MaxCrashes
    BY <1>5 DEF Crash
  <2> QED
    BY <1>5, <2>1, <2>2, FinishType DEF Crash
<1>6. ASSUME NEW r \in Runtimes, MintPermit(r)
      PROVE  TypeOK'
  BY <1>6 DEF MintPermit
<1>7. ASSUME NEW r \in Runtimes, CheckpointBegin(r)
      PROVE  TypeOK'
  BY <1>7 DEF CheckpointBegin, AssertClear, Unresolved, Goto
<1>8. ASSUME NEW r \in Runtimes, CheckpointPublish(r)
      PROVE  TypeOK'
  <2>1. cut' \in [epoch : 0..MaxEpoch, memory : 0..MaxMemory]
    BY <1>8 DEF CheckpointPublish, LocalInv
  <2>2. Finish(r, "idle") /\ "idle" \in Labels
    BY <1>8 DEF CheckpointPublish
  <2> QED
    BY <1>8, <2>1, <2>2, FinishType DEF CheckpointPublish
<1>9. ASSUME NEW r \in Runtimes, Raise(r)
      PROVE  TypeOK'
  <2>1. PICK label \in Labels : Finish(r, label)
    BY <1>9 DEF Raise
  <2> QED
    BY <1>9, <2>1, FinishType DEF Raise
<1>10. ASSUME NEW r \in Runtimes, NEW e \in Effects, NEW p \in minted, DispatchBegin(r, e, p)
      PROVE  TypeOK'
  BY <1>10 DEF DispatchBegin, Goto
<1>11. ASSUME NEW r \in Runtimes, DispatchLockTrust(r)
      PROVE  TypeOK'
  BY <1>11 DEF DispatchLockTrust, Goto
<1>12. ASSUME NEW r \in Runtimes, DispatchCheck(r)
      PROVE  TypeOK'
  <2> DEFINE seen == IF cur[r] \in CoordEffects THEN 0 ELSE trustGen
             ev == AuditEvent("AUTHORITY_VERIFIED",
                              [permit |-> permit[r], evidence |-> seen], FALSE)
  <2>1. cur[r] \in Effects
    BY <1>12 DEF DispatchCheck, LocalInv
  <2>2. seen \in 0..MaxTrust
    OBVIOUS
  <2>3. ev \in Event
    BY <2>2 DEF AuditEvent, Event, EventType, Binding
  <2>4. AuditAppend(cur[r], ev)
    BY <1>12 DEF DispatchCheck
  <2>5. audit' \in [Effects -> Seq(Event)]
    BY <2>1, <2>3, <2>4, AuditAppendType
  <2>6. evidence' \in [Runtimes -> 0..MaxTrust]
    BY <1>12, <2>2 DEF DispatchCheck
  <2>7. pc' \in [Runtimes -> Labels]
    BY <1>12 DEF DispatchCheck, Goto
  <2> HIDE DEF seen, ev
  <2> QED
    BY <1>12, <2>5, <2>6, <2>7 DEF DispatchCheck
<1>13. ASSUME NEW r \in Runtimes, DispatchReserve(r)
      PROVE  TypeOK'
  BY <1>13 DEF DispatchReserve, Fence!Reserve, RequestBinding, Goto,
     LocalInv, Binding
<1>14. ASSUME NEW r \in Runtimes, ReserveReplay(r)
      PROVE  TypeOK'
  BY <1>14 DEF ReserveReplay, Goto
<1>15. ASSUME NEW r \in Runtimes, DispatchAuditReserved(r)
      PROVE  TypeOK'
  <2>1. cur[r] \in Effects /\ StageEvent(r) \in Event
    BY <1>15, StageEventType DEF DispatchAuditReserved
  <2>2. audit' \in [Effects -> Seq(Event)]
    BY <1>15, <2>1, AuditAppendType DEF DispatchAuditReserved, AuditStage
  <2> QED
    BY <1>15, <2>2 DEF DispatchAuditReserved, Goto
<1>16. ASSUME NEW r \in Runtimes, DispatchClaim(r)
      PROVE  TypeOK'
  <2>1. cur[r] \in Effects
    BY <1>16 DEF DispatchClaim, LocalInv
  <2>2. fence' \in [Effects -> Fence!FenceState] /\ bound' = bound
    BY <1>16, <2>1 DEF DispatchClaim, Fence!ClaimDispatch
  <2>. granted' \in [Effects -> Nat]
    BY <1>16, <2>1 DEF DispatchClaim, Fence!ClaimDispatch
  <2>3. pc' \in [Runtimes -> Labels]
    BY <1>16 DEF DispatchClaim, Goto
  <2> QED
    BY <1>16, <2>2, <2>3 DEF DispatchClaim
<1>17. ASSUME NEW r \in Runtimes, DispatchAuditExecuting(r)
      PROVE  TypeOK'
  <2>1. cur[r] \in Effects /\ StageEvent(r) \in Event
    BY <1>17, StageEventType DEF DispatchAuditExecuting
  <2>2. audit' \in [Effects -> Seq(Event)]
    BY <1>17, <2>1, AuditAppendType DEF DispatchAuditExecuting, AuditStage
  <2> QED
    BY <1>17, <2>2 DEF DispatchAuditExecuting, Goto
<1>18. ASSUME NEW r \in Runtimes, ExecuteReturns(r)
      PROVE  TypeOK'
  <2>1. cur[r] \in Effects
    BY <1>18 DEF ExecuteReturns, LocalInv
  <2>2. executed' \in [Effects -> Nat]
    BY <1>18, <2>1 DEF ExecuteReturns
  <2>3. occurred' \in [Effects -> BOOLEAN]
    BY <1>18, <2>1 DEF ExecuteReturns
  <2> QED
    BY <1>18, <2>2, <2>3 DEF ExecuteReturns, Goto
<1>19. ASSUME NEW r \in Runtimes, NEW done \in BOOLEAN, ExecuteRaises(r, done)
      PROVE  TypeOK'
  <2>1. cur[r] \in Effects
    BY <1>19 DEF ExecuteRaises, LocalInv
  <2>2. executed' \in [Effects -> Nat]
    BY <1>19, <2>1 DEF ExecuteRaises
  <2>3. occurred' \in [Effects -> BOOLEAN]
    BY <1>19, <2>1 DEF ExecuteRaises
  <2> QED
    BY <1>19, <2>2, <2>3 DEF ExecuteRaises, Goto
<1>20. ASSUME NEW r \in Runtimes, NEW known \in BOOLEAN, DispatchSettle(r, known)
      PROVE  TypeOK'
  BY <1>20 DEF DispatchSettle, Fence!Settle, Fence!SettledState, Goto
<1>21. ASSUME NEW r \in Runtimes, NEW e \in Effects, CancelReserved(r, e)
      PROVE  TypeOK'
  BY <1>21 DEF CancelReserved, Fence!CancelBeforeDispatch, Goto
<1>22. ASSUME NEW r \in Runtimes, NEW e \in Effects, Reconcile(r, e)
      PROVE  TypeOK'
  BY <1>22 DEF Reconcile, Fence!ReconcileUnknown, Fence!ReconciledState,
     Fence!AmbiguousStates, Goto
<1>23. ASSUME NEW r \in Runtimes, AuditLast(r)
      PROVE  TypeOK'
  <2>1. cur[r] \in Effects /\ StageEvent(r) \in Event
    BY <1>23, StageEventType DEF AuditLast
  <2>2. audit' \in [Effects -> Seq(Event)]
    BY <1>23, <2>1, AuditAppendType DEF AuditLast, AuditStage
  <2>3. Finish(r, "idle") /\ "idle" \in Labels
    BY <1>23 DEF AuditLast
  <2> QED
    BY <1>23, <2>2, <2>3, FinishType DEF AuditLast
<1>24. CASE MemoryAdmit
  BY <1>24 DEF MemoryAdmit
<1>25. CASE TrustRotate
  BY <1>25 DEF TrustRotate, TrustMutation
<1>26. CASE TrustRevoke
  <2>1. enabled' = FALSE
    BY <1>26 DEF TrustRevoke, TrustMutation
  <2>2. trustGen' \in 0..MaxTrust
    BY <1>26 DEF TrustRevoke, TrustMutation
  <2> QED
    BY <1>26, <2>1, <2>2 DEF TrustRevoke, TrustMutation
<1>27. CASE TrustReactivate
  BY <1>27 DEF TrustReactivate, TrustMutation
<1>28. CASE UNCHANGED vars
  BY <1>28 DEF vars
<1> HIDE DEF IInv, StateInv, SafetyInv, TypeOK, Fence!TypeOK,
        Fence!FenceState, Fence!EffectState, EffectLabels, Labels,
        LastAuditLabels, NoRows, NoCandidate, fenceVars, lifecycleVars,
        trustVars, lockVars, localVars, worldVars
<1> QED
  BY <1>1, <1>2, <1>3, <1>4, <1>5, <1>6, <1>7, <1>8, <1>9, <1>10,
     <1>11, <1>12, <1>13, <1>14, <1>15, <1>16, <1>17, <1>18, <1>19,
     <1>20, <1>21, <1>22, <1>23, <1>24, <1>25, <1>26, <1>27, <1>28
  DEF Next, Begin, Continue, Dispatch, CheckpointBlocked, LockTimeout, DispatchRefused, ClaimRefused,
     SettleRefused, AuditRefused

\* Whoever publishes a cut or mints a permit holds the action lock and saw a clear
\* fence; whoever executes is the dispatch of the one unresolved effect.
LEMMA FreezeStep == IInv /\ [Next]_vars => [Frozen]_vars
<1> SUFFICES ASSUME IInv, [Next]_vars PROVE [Frozen]_vars
  OBVIOUS
<1> USE GatewayAssumption
<1> USE DEF IInv, StateInv, SafetyInv, TypeOK, Fence!TypeOK, LocalInv,
        BarrierInv, VerifiedLabels, EffectLabels, Labels, LastAuditLabels,
        Fence!UnresolvedStates, Frozen, Unresolved, fenceVars,
        lifecycleVars, trustVars, lockVars, localVars, worldVars
<1>1. ASSUME NEW r \in Runtimes, MintPermit(r)
      PROVE  [Frozen]_vars
  BY <1>1 DEF MintPermit, AssertClear
<1>2. ASSUME NEW r \in Runtimes, CheckpointPublish(r)
      PROVE  [Frozen]_vars
  BY <1>2 DEF CheckpointPublish, Finish, Goto, Release
<1>3. ASSUME NEW r \in Runtimes, ExecuteReturns(r)
      PROVE  [Frozen]_vars
  BY <1>3 DEF ExecuteReturns, Goto
<1>4. ASSUME NEW r \in Runtimes, NEW done \in BOOLEAN, ExecuteRaises(r, done)
      PROVE  [Frozen]_vars
  BY <1>4 DEF ExecuteRaises, Goto
<1>5. CASE UNCHANGED <<worldVars, cut, minted>>
  BY <1>5
<1> HIDE DEF IInv, StateInv, SafetyInv, TypeOK, Fence!TypeOK, LocalInv,
        BarrierInv, VerifiedLabels, EffectLabels, Labels, LastAuditLabels,
        Fence!UnresolvedStates, Frozen, Unresolved, fenceVars,
        lifecycleVars, trustVars, lockVars, localVars, worldVars
<1> QED
  BY <1>1, <1>2, <1>3, <1>4, <1>5, WorldFrame, CutFrame

\* The initial state satisfies every part of the invariant.
LEMMA InitInv == Init => IInv
<1> SUFFICES ASSUME Init PROVE IInv
  OBVIOUS
<1> USE GatewayAssumption DEF Init, Fence!Init
<1>1. TypeOK
  BY DEF TypeOK, Fence!TypeOK, Fence!FenceState, Labels, NoCandidate, NoRows
<1>2. LocalInv /\ RowInv
  BY DEF LocalInv, RowInv, EffectLabels, RowLabels, LastAuditLabels, Labels, NoRows
<1>3. LockInv /\ BarrierInv /\ CutInv
  BY DEF LockInv, BarrierInv, CutInv, LifeLabels, VerifiedLabels
<1>4. DispatchInv /\ WorldInv
  BY DEF DispatchInv, WorldInv, ClaimedLabels, InFlightLabels, PreExecuteLabels
<1>5. AtMostOnce /\ OneUnresolved /\ ExternalTruthful
  BY DEF AtMostOnce, OneUnresolved, Unresolved, Fence!UnresolvedStates,
     ExternalTruthful, Truthful
<1> QED
  BY <1>1, <1>2, <1>3, <1>4, <1>5 DEF IInv, StateInv, SafetyInv

\* The invariant is inductive: every part is preserved by every step.
THEOREM GatewayInvariant == Spec => []IInv
<1>1. IInv /\ [Next]_vars => IInv'
  BY TypeStep, LocalStep, RowStep, LockStep, BarrierStep, CutStep, DispatchStep,
     WorldStep, OnceStep, OneStep, TruthStep
  DEF IInv, StateInv, SafetyInv
<1> QED
  BY <1>1, InitInv, PTL DEF Spec

\* Whatever the number of runtimes, effects, crashes and transitions, every
\* variable of the outbound path keeps its type.
THEOREM GatewayTypeCorrect == Spec => []TypeOK
<1>1. IInv => TypeOK
  BY DEF IInv, StateInv
<1> QED
  BY <1>1, GatewayInvariant, PTL

\* execute() runs at most once for an effect identity, whatever crashes, retries,
\* cancellations and reconciliations the runtimes interleave.
THEOREM GatewayAtMostOnce == Spec => []AtMostOnce
<1>1. IInv => AtMostOnce
  BY DEF IInv, SafetyInv
<1> QED
  BY <1>1, GatewayInvariant, PTL

\* assert_clear under the action lock admits one unresolved effect at a time,
\* over all runtimes.
THEOREM GatewayOneUnresolved == Spec => []OneUnresolved
<1>1. IInv => OneUnresolved
  BY DEF IInv, SafetyInv
<1> QED
  BY <1>1, GatewayInvariant, PTL

\* When _dispatch_verified calls execute() the permit is the accepted cut and the
\* authority of a PC or provider effect is still the one the registry trusts.
THEOREM GatewayExecutesUnderCurrentCut == Spec => []ExecutesUnderCurrentCut
<1>1. IInv => ExecutesUnderCurrentCut
  BY DEF IInv, SafetyInv, CutInv, VerifiedLabels, ExecutesUnderCurrentCut
<1> QED
  BY <1>1, GatewayInvariant, PTL

\* The terminal fence state of a PC or provider effect is true of the outside
\* world: its dispatch holds the trust lock that reconcile() takes.
THEOREM GatewayExternalTruthful == Spec => []ExternalTruthful
<1>1. IInv => ExternalTruthful
  BY DEF IInv, SafetyInv
<1> QED
  BY <1>1, GatewayInvariant, PTL

\* While an effect is unresolved no cut is published, no permit is minted and no
\* other effect is executed, by any runtime.
THEOREM GatewayUnresolvedFreezes == Spec => UnresolvedFreezes
BY FreezeStep, GatewayInvariant, PTL DEF Spec, UnresolvedFreezes

----------------------------------------------------------------------------
(* One process at a time.                                                  *)

\* The state directory is opened by one process; it may die and be reopened.
OneProcess == \A q, r \in Runtimes : q = r

\* The audit of e has caught up with the fence row, or is one stage behind it.
InStep(e) ==
    IF fence[e] = "ABSENT" THEN LatestType(e) \in {"NONE", "AUTHORITY_VERIFIED"}
                           ELSE LatestType(e) = fence[e]
Behind(e) == fence[e] \in AllowedNext(LatestType(e))

AppendLabels == {"audit_reserved", "audit_executing"} \cup LastAuditLabels

\* The audit is behind only where the process is about to append the stage, or
\* after it died there and until it has repaired.
LagInv ==
    /\ \A e \in Effects : InStep(e) \/ Behind(e)
    /\ \A r \in Runtimes, e \in Effects : Behind(e) =>
           \/ pc[r] \in {"closed", "repair"}
           \/ pc[r] \in AppendLabels /\ cur[r] = e /\ fence[e] = AuditedState[pc[r]]

\* Nobody else moves the row the process works on.
OwnRowInv ==
    \A r \in Runtimes :
        /\ pc[r] = "reserve" => LatestType(cur[r]) # "NONE"
        /\ pc[r] = "repair" => snap[r] = fence
        /\ pc[r] \in InFlightLabels => fence[cur[r]] = "EXECUTING"
        /\ pc[r] \in LastAuditLabels => fence[cur[r]] = AuditedState[pc[r]]

AloneInv == OneProcess /\ ChainValid /\ LagInv /\ OwnRowInv /\ TerminalTruthful

LEMMA AllowedFacts ==
    /\ AllowedNext("NONE") = {"AUTHORITY_VERIFIED"}
    /\ AllowedNext("AUTHORITY_VERIFIED") = {"RESERVED"}
    /\ AllowedNext("RESERVED") = {"EXECUTING", "CANCELLED_PRE_DISPATCH"}
    /\ AllowedNext("EXECUTING") = {"COMMITTED", "ATTEMPTED_UNKNOWN",
                                   "RECONCILED_COMMITTED", "RECONCILED_NO_EFFECT"}
    /\ AllowedNext("ATTEMPTED_UNKNOWN") = {"RECONCILED_COMMITTED", "RECONCILED_NO_EFFECT"}
    /\ AllowedNext("COMMITTED") = {} /\ AllowedNext("CANCELLED_PRE_DISPATCH") = {}
    /\ AllowedNext("RECONCILED_COMMITTED") = {} /\ AllowedNext("RECONCILED_NO_EFFECT") = {}
<1>1. AllowedNext("NONE") = {"AUTHORITY_VERIFIED"}
  BY Zenon DEF AllowedNext
<1>2. AllowedNext("AUTHORITY_VERIFIED") = {"RESERVED"}
  BY Zenon DEF AllowedNext
<1>3. AllowedNext("RESERVED") = {"EXECUTING", "CANCELLED_PRE_DISPATCH"}
  BY Zenon DEF AllowedNext
<1>4. AllowedNext("EXECUTING") = {"COMMITTED", "ATTEMPTED_UNKNOWN",
                                  "RECONCILED_COMMITTED", "RECONCILED_NO_EFFECT"}
  BY Zenon DEF AllowedNext
<1>5. AllowedNext("ATTEMPTED_UNKNOWN") = {"RECONCILED_COMMITTED", "RECONCILED_NO_EFFECT"}
  BY Zenon DEF AllowedNext
<1>6. AllowedNext("COMMITTED") = {} /\ AllowedNext("CANCELLED_PRE_DISPATCH") = {}
  BY Zenon DEF AllowedNext
<1>7. AllowedNext("RECONCILED_COMMITTED") = {} /\ AllowedNext("RECONCILED_NO_EFFECT") = {}
  BY Zenon DEF AllowedNext
<1> QED
  BY <1>1, <1>2, <1>3, <1>4, <1>5, <1>6, <1>7

ValidChain(s) == \A i \in DOMAIN s : s[i].type \in AllowedNext(Stage(s, i - 1))

\* The last stage of a valid chain: it is one of the event types, the stages that
\* may follow it are not in the chain yet, and the reservation before it is.
LastStage(s) == Stage(s, Len(s))
Holds(s, type) == \E i \in DOMAIN s : s[i].type = type

\* A valid chain has at most five events, of these types in this order.
LEMMA ChainShape ==
    ASSUME NEW s \in Seq(Event), ValidChain(s)
    PROVE  /\ Len(s) \in 0..5 /\ DOMAIN s = 1..Len(s)
           /\ Len(s) >= 1 => s[1].type = "AUTHORITY_VERIFIED"
           /\ Len(s) >= 2 => s[2].type = "RESERVED"
           /\ Len(s) >= 3 => s[3].type \in {"EXECUTING", "CANCELLED_PRE_DISPATCH"}
           /\ Len(s) >= 4 => /\ s[3].type = "EXECUTING"
                             /\ s[4].type \in {"COMMITTED", "ATTEMPTED_UNKNOWN",
                                               "RECONCILED_COMMITTED", "RECONCILED_NO_EFFECT"}
           /\ Len(s) >= 5 => /\ s[4].type = "ATTEMPTED_UNKNOWN"
                             /\ s[5].type \in {"RECONCILED_COMMITTED", "RECONCILED_NO_EFFECT"}
<1>0. Len(s) \in Nat /\ DOMAIN s = 1..Len(s)
  OBVIOUS
<1>s. \A i \in 1..Len(s) : s[i].type \in AllowedNext(IF i = 1 THEN "NONE" ELSE s[i - 1].type)
  <2> SUFFICES ASSUME NEW i \in 1..Len(s)
               PROVE  s[i].type \in AllowedNext(IF i = 1 THEN "NONE" ELSE s[i - 1].type)
    OBVIOUS
  <2>1. Stage(s, i - 1) = IF i = 1 THEN "NONE" ELSE s[i - 1].type
    BY <1>0 DEF Stage
  <2>2. s[i].type \in AllowedNext(Stage(s, i - 1))
    BY <1>0 DEF ValidChain
  <2> QED
    BY <2>1, <2>2
<1>1. ASSUME Len(s) >= 1 PROVE s[1].type = "AUTHORITY_VERIFIED"
  <2>1. s[1].type \in AllowedNext("NONE")
    BY <1>0, <1>1, <1>s
  <2> QED
    BY <2>1, AllowedFacts
<1>2. ASSUME Len(s) >= 2 PROVE s[2].type = "RESERVED"
  <2>1. s[2].type \in AllowedNext(s[1].type)
    BY <1>0, <1>2, <1>s
  <2> QED
    BY <1>0, <1>1, <1>2, <2>1, AllowedFacts
<1>3. ASSUME Len(s) >= 3 PROVE s[3].type \in {"EXECUTING", "CANCELLED_PRE_DISPATCH"}
  <2>1. s[3].type \in AllowedNext(s[2].type)
    BY <1>0, <1>3, <1>s
  <2> QED
    BY <1>0, <1>2, <1>3, <2>1, AllowedFacts
<1>4. ASSUME Len(s) >= 4
      PROVE  /\ s[3].type = "EXECUTING"
             /\ s[4].type \in {"COMMITTED", "ATTEMPTED_UNKNOWN",
                               "RECONCILED_COMMITTED", "RECONCILED_NO_EFFECT"}
  <2>1. s[4].type \in AllowedNext(s[3].type)
    BY <1>0, <1>4, <1>s
  <2> QED
    BY <1>0, <1>3, <1>4, <2>1, AllowedFacts
<1>5. ASSUME Len(s) >= 5
      PROVE  /\ s[4].type = "ATTEMPTED_UNKNOWN"
             /\ s[5].type \in {"RECONCILED_COMMITTED", "RECONCILED_NO_EFFECT"}
  <2>1. s[5].type \in AllowedNext(s[4].type)
    BY <1>0, <1>5, <1>s
  <2> QED
    BY <1>0, <1>4, <1>5, <2>1, AllowedFacts
<1>6. ASSUME Len(s) >= 6 PROVE FALSE
  <2>1. s[6].type \in AllowedNext(s[5].type)
    BY <1>0, <1>6, <1>s
  <2> QED
    BY <1>0, <1>5, <1>6, <2>1, AllowedFacts
<1>7. Len(s) <= 5
  BY <1>0, <1>6
<1>8. Len(s) \in 0..5
  BY <1>0, <1>7
<1>9. /\ Len(s) >= 1 => s[1].type = "AUTHORITY_VERIFIED"
      /\ Len(s) >= 2 => s[2].type = "RESERVED"
      /\ Len(s) >= 3 => s[3].type \in {"EXECUTING", "CANCELLED_PRE_DISPATCH"}
  BY <1>1, <1>2, <1>3
<1>10. Len(s) >= 4 => /\ s[3].type = "EXECUTING"
                      /\ s[4].type \in {"COMMITTED", "ATTEMPTED_UNKNOWN",
                                        "RECONCILED_COMMITTED", "RECONCILED_NO_EFFECT"}
  BY <1>4
<1>11. Len(s) >= 5 => /\ s[4].type = "ATTEMPTED_UNKNOWN"
                      /\ s[5].type \in {"RECONCILED_COMMITTED", "RECONCILED_NO_EFFECT"}
  BY <1>5
<1> QED
  BY <1>0, <1>8, <1>9, <1>10, <1>11

\* What the last stage of a valid chain says of the chain.
LEMMA ChainStages ==
    ASSUME NEW s \in Seq(Event), ValidChain(s)
    PROVE  /\ LastStage(s) \in {"NONE"} \cup EventType
           /\ \A type \in AllowedNext(LastStage(s)) : ~Holds(s, type)
           /\ LastStage(s) # "NONE" => Holds(s, LastStage(s)) /\ Holds(s, "AUTHORITY_VERIFIED")
           /\ LastStage(s) \in Fence!EffectState => Holds(s, "RESERVED")
<1> DEFINE Goal ==
           /\ LastStage(s) \in {"NONE"} \cup EventType
           /\ \A type \in AllowedNext(LastStage(s)) : ~Holds(s, type)
           /\ LastStage(s) # "NONE" => Holds(s, LastStage(s)) /\ Holds(s, "AUTHORITY_VERIFIED")
           /\ LastStage(s) \in Fence!EffectState => Holds(s, "RESERVED")
<1> USE DEF LastStage, Holds, Stage, EventType, Fence!EffectState
<1>1. CASE Len(s) = 0
  <2>1. DOMAIN s = {} /\ LastStage(s) = "NONE"
    BY <1>1, ChainShape
  <2> QED
    BY <2>1
<1>2. CASE Len(s) = 1
  <2>1. DOMAIN s = {1} /\ s[1].type = "AUTHORITY_VERIFIED" /\ LastStage(s) = s[1].type
    BY <1>2, ChainShape
  <2> QED
    BY <2>1, AllowedFacts
<1>3. CASE Len(s) = 2
  <2>1. /\ DOMAIN s = {1, 2} /\ s[1].type = "AUTHORITY_VERIFIED"
        /\ s[2].type = "RESERVED" /\ LastStage(s) = s[2].type
    BY <1>3, ChainShape
  <2> QED
    BY <2>1, AllowedFacts
<1>4. CASE Len(s) = 3
  <2>1. /\ DOMAIN s = {1, 2, 3} /\ s[1].type = "AUTHORITY_VERIFIED"
        /\ s[2].type = "RESERVED" /\ s[3].type \in {"EXECUTING", "CANCELLED_PRE_DISPATCH"}
        /\ LastStage(s) = s[3].type
    BY <1>4, ChainShape
  <2> QED
    BY <2>1, AllowedFacts
<1>5. CASE Len(s) = 4
  <2>1. /\ DOMAIN s = {1, 2, 3, 4} /\ s[1].type = "AUTHORITY_VERIFIED"
        /\ s[2].type = "RESERVED" /\ s[3].type = "EXECUTING"
        /\ s[4].type \in {"COMMITTED", "ATTEMPTED_UNKNOWN",
                          "RECONCILED_COMMITTED", "RECONCILED_NO_EFFECT"}
        /\ LastStage(s) = s[4].type
    BY <1>5, ChainShape
  <2> QED
    BY <2>1, AllowedFacts
<1>6. CASE Len(s) = 5
  <2>1. /\ DOMAIN s = {1, 2, 3, 4, 5} /\ s[1].type = "AUTHORITY_VERIFIED"
        /\ s[2].type = "RESERVED"
        /\ s[5].type \in {"RECONCILED_COMMITTED", "RECONCILED_NO_EFFECT"}
        /\ LastStage(s) = s[5].type
    BY <1>6, ChainShape
  <2> QED
    BY <2>1, AllowedFacts
<1> QED
  BY <1>1, <1>2, <1>3, <1>4, <1>5, <1>6, ChainShape

\* Appending a stage that may follow keeps the chain valid and becomes its last.
LEMMA ChainAppend ==
    ASSUME NEW s \in Seq(Event), ValidChain(s), NEW ev \in Event,
           ev.type \in AllowedNext(LastStage(s))
    PROVE  ValidChain(Append(s, ev)) /\ LastStage(Append(s, ev)) = ev.type
<1> DEFINE t == Append(s, ev)
<1>1. /\ Len(s) \in Nat /\ Len(t) = Len(s) + 1 /\ DOMAIN t = 1..(Len(s) + 1)
      /\ DOMAIN s = 1..Len(s)
      /\ t[Len(s) + 1] = ev /\ \A i \in 1..Len(s) : t[i] = s[i]
  OBVIOUS
<1> HIDE DEF t
<1>2. \A i \in 0..Len(s) : Stage(t, i) = Stage(s, i)
  BY <1>1 DEF Stage
<1>3. ASSUME NEW i \in DOMAIN t PROVE t[i].type \in AllowedNext(Stage(t, i - 1))
  <2>1. CASE i = Len(s) + 1
    <3>1. Stage(t, i - 1) = LastStage(s) /\ t[i] = ev
      BY <1>1, <1>2, <2>1 DEF LastStage
    <3> QED
      BY <3>1
  <2>2. CASE i \in DOMAIN s
    <3>1. Stage(t, i - 1) = Stage(s, i - 1) /\ t[i] = s[i]
      BY <1>1, <1>2, <2>2
    <3>2. s[i].type \in AllowedNext(Stage(s, i - 1))
      BY <2>2 DEF ValidChain
    <3> QED
      BY <3>1, <3>2
  <2> QED
    BY <1>1, <2>1, <2>2
<1>4. LastStage(t) = ev.type
  BY <1>1 DEF LastStage, Stage
<1> QED
  BY <1>3, <1>4 DEF ValidChain, t

\* The stages of an effect's audit while the chain of every effect is valid.
LEMMA AuditStages ==
    ASSUME TypeOK, ChainValid, NEW e \in Effects
    PROVE  /\ LatestType(e) \in {"NONE"} \cup EventType
           /\ \A type \in AllowedNext(LatestType(e)) : ~Holds(audit[e], type)
           /\ LatestType(e) # "NONE" =>
                  Holds(audit[e], LatestType(e)) /\ Holds(audit[e], "AUTHORITY_VERIFIED")
           /\ LatestType(e) \in Fence!EffectState => Holds(audit[e], "RESERVED")
<1>1. audit[e] \in Seq(Event)
  BY DEF TypeOK
<1>2. ValidChain(audit[e])
  BY DEF ChainValid, ValidChain
<1>3. LatestType(e) = LastStage(audit[e])
  BY DEF LatestType, LastStage
<1> QED
  BY <1>1, <1>2, <1>3, ChainStages

\* The audit is not both in step with a fence row and behind it.
LEMMA NotBoth ==
    ASSUME TypeOK, ChainValid, NEW e \in Effects, InStep(e)
    PROVE  ~Behind(e)
<1>1. fence[e] \in Fence!FenceState /\ LatestType(e) \in {"NONE"} \cup EventType
  BY AuditStages DEF TypeOK, Fence!TypeOK
<1>2. CASE fence[e] = "ABSENT"
  BY <1>2, AllowedFacts DEF InStep, Behind
<1>3. CASE fence[e] # "ABSENT"
  <2>1. LatestType(e) = fence[e] /\ fence[e] \in Fence!EffectState
    BY <1>1, <1>3 DEF InStep, Fence!FenceState
  <2> QED
    BY <2>1, AllowedFacts DEF Behind, Fence!EffectState
<1> QED
  BY <1>2, <1>3

\* A replayed event leaves the audit alone.
LEMMA AppendReplay ==
    ASSUME NEW e \in Effects, NEW ev, AuditAppend(e, ev), Holds(audit[e], ev.type)
    PROVE  audit' = audit
BY DEF AuditAppend, Holds

\* The event of a stage that may follow is appended and becomes the last one.
LEMMA AppendNew ==
    ASSUME TypeOK, ChainValid, NEW e \in Effects, NEW ev \in Event,
           AuditAppend(e, ev), ev.type \in AllowedNext(LatestType(e))
    PROVE  /\ ChainValid' /\ LatestType(e)' = ev.type
           /\ \A f \in Effects \ {e} : LatestType(f)' = LatestType(f)
<1>1. audit \in [Effects -> Seq(Event)]
  BY DEF TypeOK
<1>2. ValidChain(audit[e]) /\ LatestType(e) = LastStage(audit[e])
  BY DEF ChainValid, ValidChain, LatestType, LastStage
<1>3. ~Holds(audit[e], ev.type)
  BY AuditStages
<1>4. audit' = [audit EXCEPT ![e] = Append(audit[e], ev)]
  BY <1>3 DEF AuditAppend, Holds
<1>5. audit'[e] = Append(audit[e], ev) /\ \A f \in Effects \ {e} : audit'[f] = audit[f]
  BY <1>1, <1>4
<1>6. ValidChain(Append(audit[e], ev)) /\ LastStage(Append(audit[e], ev)) = ev.type
  BY <1>1, <1>2, ChainAppend
<1>7. ASSUME NEW f \in Effects
      PROVE  \A i \in DOMAIN audit'[f] : audit'[f][i].type \in AllowedNext(Stage(audit'[f], i - 1))
  <2>1. CASE f = e
    <3>1. ValidChain(audit'[f])
      BY <1>5, <1>6, <2>1
    <3> QED
      BY <3>1 DEF ValidChain
  <2>2. CASE f # e
    <3>1. audit'[f] = audit[f]
      BY <1>5, <2>2
    <3> QED
      BY <3>1 DEF ChainValid
  <2> QED
    BY <2>1, <2>2
<1>8. ChainValid'
  BY <1>7 DEF ChainValid
<1>9. LatestType(e)' = ev.type
  BY <1>5, <1>6 DEF LatestType, LastStage
<1>10. \A f \in Effects \ {e} : LatestType(f)' = LatestType(f)
  BY <1>5 DEF LatestType
<1> QED
  BY <1>8, <1>9, <1>10

\* Steps that leave the audit and the fence alone leave the lag alone.
LEMMA LagFrame ==
    ASSUME ChainValid, audit' = audit, fence' = fence
    PROVE  /\ ChainValid'
           /\ \A e \in Effects : /\ LatestType(e)' = LatestType(e)
                                 /\ InStep(e)' <=> InStep(e)
                                 /\ Behind(e)' <=> Behind(e)
<1>1. ChainValid'
  BY DEF ChainValid, Stage
<1>2. \A e \in Effects : LatestType(e)' = LatestType(e)
  BY DEF LatestType, Stage
<1> QED
  BY <1>1, <1>2 DEF InStep, Behind

\* Appending the stage of the fence row brings its audit in step.
LEMMA AuditCatchesUp ==
    ASSUME TypeOK, ChainValid, NEW x \in Effects, NEW ev \in Event,
           InStep(x) \/ Behind(x), ev.type = fence[x],
           AuditAppend(x, ev), fence' = fence
    PROVE  /\ ChainValid' /\ InStep(x)'
           /\ \A f \in Effects \ {x} : /\ InStep(f)' <=> InStep(f)
                                       /\ Behind(f)' <=> Behind(f)
<1>1. fence[x] \in Fence!EffectState \cup {"ABSENT"} /\ ev.type \in EventType
  BY DEF TypeOK, Fence!TypeOK, Fence!FenceState, Event
<1>2. fence[x] # "ABSENT"
  BY <1>1 DEF EventType, Fence!EffectState
<1>3. CASE Behind(x)
  <2>1. /\ ChainValid' /\ LatestType(x)' = ev.type
        /\ \A f \in Effects \ {x} : LatestType(f)' = LatestType(f)
    BY <1>3, AppendNew DEF Behind
  <2>2. InStep(x)'
    BY <1>2, <2>1 DEF InStep
  <2>3. \A f \in Effects \ {x} : (InStep(f)' <=> InStep(f)) /\ (Behind(f)' <=> Behind(f))
    BY <2>1 DEF InStep, Behind
  <2> QED
    BY <2>1, <2>2, <2>3
<1>4. CASE InStep(x)
  <2>1. LatestType(x) = ev.type /\ ev.type # "NONE"
    BY <1>1, <1>2, <1>4 DEF InStep, EventType, Fence!EffectState
  <2>2. audit' = audit
    BY <2>1, AuditStages, AppendReplay
  <2> QED
    BY <1>4, <2>2, LagFrame
<1> QED
  BY <1>3, <1>4

\* A fence transaction puts the audit of its row one stage behind.
LEMMA RowRunsAhead ==
    ASSUME TypeOK, ChainValid, NEW x \in Effects, NEW state,
           \A e \in Effects : InStep(e),
           state \in AllowedNext(LatestType(x)),
           fence' = [fence EXCEPT ![x] = state], audit' = audit
    PROVE  /\ ChainValid' /\ Behind(x)'
           /\ \A f \in Effects \ {x} : InStep(f)' /\ ~Behind(f)'
           /\ \A f \in Effects : LatestType(f)' = LatestType(f)
<1>1. ChainValid'
  BY DEF ChainValid, Stage
<1>2. \A e \in Effects : LatestType(e)' = LatestType(e)
  BY DEF LatestType, Stage
<1>3. fence'[x] = state /\ \A f \in Effects \ {x} : fence'[f] = fence[f]
  BY DEF TypeOK, Fence!TypeOK
<1>4. \A f \in Effects : InStep(f) /\ ~Behind(f)
  BY NotBoth
<1> QED
  BY <1>1, <1>2, <1>3, <1>4 DEF InStep, Behind

\* Where the audit of every effect is in step, none is behind, and so after a step.
LEMMA CaughtUp ==
    (TypeOK /\ ChainValid /\ \A e \in Effects : InStep(e))' => (\A e \in Effects : ~Behind(e))'
<1>1. (TypeOK /\ ChainValid /\ \A e \in Effects : InStep(e)) => (\A e \in Effects : ~Behind(e))
  BY NotBoth
<1> QED
  BY <1>1, PTL

\* Outside the append and repair labels the audit is in step with every row.
LEMMA NoLag ==
    ASSUME IInv, AloneInv, NEW r \in Runtimes,
           pc[r] \notin {"closed", "repair"} \cup AppendLabels
    PROVE  \A e \in Effects : InStep(e) /\ ~Behind(e)
BY DEF AloneInv, LagInv

\* A step that moves neither the audit nor the fence keeps the lag where it may be.
LEMMA LagKept ==
    ASSUME IInv, AloneInv, NEW r \in Runtimes, audit' = audit, fence' = fence,
           (\A e \in Effects : ~Behind(e)) \/ pc'[r] \in {"closed", "repair"}
    PROVE  ChainValid' /\ LagInv'
<1>1. /\ ChainValid'
      /\ \A e \in Effects : (InStep(e)' <=> InStep(e)) /\ (Behind(e)' <=> Behind(e))
  BY LagFrame DEF AloneInv
<1>2. \A q \in Runtimes : q = r
  BY DEF AloneInv, OneProcess
<1>3. \A e \in Effects : (InStep(e) \/ Behind(e))'
  BY <1>1 DEF AloneInv, LagInv
<1>4. \A q \in Runtimes, e \in Effects : Behind(e)' => pc'[q] \in {"closed", "repair"}
  BY <1>1, <1>2
<1> QED
  BY <1>1, <1>3, <1>4 DEF LagInv

\* The steps of a process that move neither the audit nor the fence.
LEMMA QuietStep ==
    ASSUME IInv, AloneInv, NEW r \in Runtimes,
           \/ OpenBegin(r) \/ OpenEnd(r) \/ OpenFails(r) \/ Crash(r)
           \/ MintPermit(r) \/ CheckpointBegin(r) \/ CheckpointPublish(r)
           \/ \E e \in Effects, p \in minted : DispatchBegin(r, e, p)
           \/ DispatchLockTrust(r) \/ ReserveReplay(r) \/ ExecuteReturns(r)
           \/ \E done \in BOOLEAN : ExecuteRaises(r, done)
           \/ (Raise(r) /\ \A e \in Effects : ~Behind(e))
    PROVE  (ChainValid /\ LagInv /\ OwnRowInv)'
<1> USE DEF fenceVars, lifecycleVars, trustVars, lockVars, localVars, worldVars,
            Goto, Finish
<1>0. pc \in [Runtimes -> Labels] /\ snap \in [Runtimes -> [Effects -> Fence!FenceState]]
      /\ cur \in [Runtimes -> Effects \cup {Nil}] /\ \A q \in Runtimes : q = r
  BY DEF IInv, StateInv, TypeOK, AloneInv, OneProcess
<1>1. audit' = audit /\ fence' = fence
  BY DEF OpenBegin, OpenEnd, OpenFails, Crash, MintPermit, CheckpointBegin,
     CheckpointPublish, DispatchBegin, DispatchLockTrust, ReserveReplay,
     ExecuteReturns, ExecuteRaises, Raise
<1>2. (\A e \in Effects : ~Behind(e)) \/ pc'[r] \in {"closed", "repair"}
  <2>1. CASE \/ MintPermit(r) \/ CheckpointBegin(r) \/ CheckpointPublish(r)
             \/ \E e \in Effects, p \in minted : DispatchBegin(r, e, p)
             \/ DispatchLockTrust(r) \/ ReserveReplay(r) \/ ExecuteReturns(r)
             \/ \E done \in BOOLEAN : ExecuteRaises(r, done)
    <3>1. pc[r] \notin {"closed", "repair"} \cup AppendLabels
      BY <2>1 DEF MintPermit, CheckpointBegin, CheckpointPublish, DispatchBegin,
         DispatchLockTrust, ReserveReplay, ExecuteReturns, ExecuteRaises,
         AppendLabels, LastAuditLabels
    <3> QED
      BY <3>1, NoLag
  <2>2. CASE OpenBegin(r) \/ OpenFails(r) \/ Crash(r)
    BY <1>0, <2>2 DEF OpenBegin, OpenFails, Crash
  <2>3. CASE OpenEnd(r)
    <3>1. CASE FenceConsistent
      <4>1. ASSUME NEW e \in Effects PROVE InStep(e) \/ ~Behind(e)
        <5>1. CASE fence[e] = "ABSENT"
          BY <5>1, AllowedFacts, AuditStages DEF Behind, IInv, StateInv, AloneInv,
             EventType, Fence!EffectState
        <5>2. CASE fence[e] # "ABSENT"
          BY <3>1, <5>2 DEF FenceConsistent, InStep
        <5> QED
          BY <5>1, <5>2
      <4> QED
        BY <4>1, NotBoth DEF IInv, StateInv, AloneInv
    <3>2. CASE ~FenceConsistent
      BY <1>0, <2>3, <3>2 DEF OpenEnd
    <3> QED
      BY <3>1, <3>2
  <2> QED
    BY <2>1, <2>2, <2>3
<1>3. ChainValid' /\ LagInv'
  BY <1>1, <1>2, LagKept
<1>4. \A e \in Effects : LatestType(e)' = LatestType(e)
  BY <1>1, LagFrame DEF AloneInv
<1>5. OwnRowInv'
  <2> USE DEF OwnRowInv, InFlightLabels, LastAuditLabels, AuditedState
  <2>1. CASE Crash(r) \/ OpenFails(r) \/ CheckpointPublish(r) \/ OpenEnd(r) \/ Raise(r)
    <3>1. pc'[r] \in {"idle", "closed"}
      BY <1>0, <2>1 DEF Crash, OpenFails, CheckpointPublish, OpenEnd, Raise
    <3> QED
      BY <1>0, <3>1
  <2>2. CASE OpenBegin(r)
    BY <1>0, <1>1, <2>2 DEF OpenBegin
  <2>3. CASE MintPermit(r)
    BY <1>0, <1>1, <2>3 DEF MintPermit
  <2>4. CASE \/ CheckpointBegin(r) \/ DispatchLockTrust(r) \/ ReserveReplay(r)
             \/ \E e \in Effects, p \in minted : DispatchBegin(r, e, p)
    <3>1. pc'[r] \in {"publish", "check", "audit_reserved", "lock_trust"}
      BY <1>0, <2>4 DEF CheckpointBegin, DispatchLockTrust, ReserveReplay, DispatchBegin
    <3> QED
      BY <1>0, <3>1
  <2>5. CASE ExecuteReturns(r) \/ \E done \in BOOLEAN : ExecuteRaises(r, done)
    <3>1. pc[r] = "execute" /\ cur' = cur /\ pc'[r] \in {"settle_known", "settle_unknown"}
      BY <1>0, <2>5 DEF ExecuteReturns, ExecuteRaises
    <3>2. fence[cur[r]] = "EXECUTING"
      BY <3>1 DEF AloneInv
    <3> QED
      BY <1>0, <1>1, <3>1, <3>2
  <2> QED
    BY <2>1, <2>2, <2>3, <2>4, <2>5
<1> QED
  BY <1>3, <1>5

\* The steps that append an audit event.
LEMMA AuditStep ==
    ASSUME IInv, AloneInv, NEW r \in Runtimes,
           \/ \E e \in Effects : RepairStep(r, e)
           \/ DispatchCheck(r) \/ DispatchAuditReserved(r)
           \/ DispatchAuditExecuting(r) \/ AuditLast(r)
    PROVE  (ChainValid /\ LagInv /\ OwnRowInv)'
<1> USE DEF fenceVars, lifecycleVars, trustVars, lockVars, localVars, worldVars,
            Goto, Finish
<1>0. /\ pc \in [Runtimes -> Labels] /\ cur \in [Runtimes -> Effects \cup {Nil}]
      /\ \A q \in Runtimes : q = r
      /\ fence \in [Effects -> Fence!FenceState]
      /\ TypeOK /\ ChainValid /\ LagInv /\ OwnRowInv /\ LocalInv /\ RowInv
  BY DEF IInv, StateInv, TypeOK, Fence!TypeOK, AloneInv, OneProcess
<1>1. ASSUME NEW e \in Effects, RepairStep(r, e)
      PROVE  (ChainValid /\ LagInv /\ OwnRowInv)'
  <2>1. /\ pc[r] = "repair" /\ pc' = pc /\ fence' = fence /\ snap' = snap /\ cur' = cur
        /\ Unrepaired(r, e) /\ snap[r] = fence
    BY <1>0, <1>1 DEF RepairStep, OwnRowInv
  <2>2. Behind(e)
    <3>1. ~InStep(e)
      BY <2>1 DEF Unrepaired, InStep
    <3> QED
      BY <1>0, <3>1 DEF LagInv
  <2>3. RepairStage(LatestType(e), snap[r][e]) = fence[e]
    <3>1. /\ LatestType(e) \in {"NONE"} \cup EventType /\ fence[e] \in Fence!EffectState
          /\ fence[e] \in AllowedNext(LatestType(e))
      BY <1>0, <2>1, <2>2, AuditStages DEF Unrepaired, Behind, Fence!FenceState
    <3>2. LatestType(e) \in {"AUTHORITY_VERIFIED", "RESERVED", "EXECUTING", "ATTEMPTED_UNKNOWN"}
      BY <3>1, AllowedFacts DEF EventType, Fence!EffectState
    <3>3. CASE LatestType(e) = "AUTHORITY_VERIFIED"
      <4>1. RepairStage("AUTHORITY_VERIFIED", fence[e]) = "RESERVED"
        BY Zenon DEF RepairStage
      <4>2. fence[e] = "RESERVED"
        BY <3>1, <3>3, AllowedFacts
      <4> QED
        BY <2>1, <3>3, <4>1, <4>2
    <3>4. CASE LatestType(e) = "RESERVED"
      <4>1. RepairStage("RESERVED", fence[e]) =
                IF fence[e] = "CANCELLED_PRE_DISPATCH" THEN fence[e] ELSE "EXECUTING"
        BY Zenon DEF RepairStage
      <4>2. fence[e] \in {"EXECUTING", "CANCELLED_PRE_DISPATCH"}
        BY <3>1, <3>4, AllowedFacts
      <4> QED
        BY <2>1, <3>4, <4>1, <4>2
    <3>5. CASE LatestType(e) = "EXECUTING"
      <4>1. fence[e] \in AllowedNext("EXECUTING")
        BY <3>1, <3>5
      <4>2. RepairStage("EXECUTING", fence[e]) = fence[e]
        BY <4>1, Zenon DEF RepairStage
      <4> QED
        BY <2>1, <3>5, <4>2
    <3>6. CASE LatestType(e) = "ATTEMPTED_UNKNOWN"
      <4>1. fence[e] \in AllowedNext("ATTEMPTED_UNKNOWN")
        BY <3>1, <3>6
      <4>2. RepairStage("ATTEMPTED_UNKNOWN", fence[e]) = fence[e]
        BY <4>1, Zenon DEF RepairStage
      <4> QED
        BY <2>1, <3>6, <4>2
    <3> QED
      BY <3>2, <3>3, <3>4, <3>5, <3>6
  <2>4. PICK ev \in Event : ev.type = fence[e] /\ AuditAppend(e, ev)
    <3> DEFINE v == AuditEvent(fence[e], bound[e], TRUE)
    <3>1. bound[e] \in Binding /\ fence[e] \in EventType
      BY <1>0, <2>1 DEF RowInv, Unrepaired, Fence!FenceState, EventType
    <3>2. v \in Event /\ v.type = fence[e]
      BY <3>1 DEF AuditEvent, Event
    <3>3. AuditAppend(e, v)
      BY <1>1, <2>3 DEF RepairStep
    <3> QED
      BY <3>2, <3>3
  <2>5. /\ ChainValid' /\ InStep(e)'
        /\ \A f \in Effects \ {e} : (InStep(f)' <=> InStep(f)) /\ (Behind(f)' <=> Behind(f))
    BY <1>0, <2>1, <2>2, <2>4, AuditCatchesUp
  <2>6. LagInv'
    <3>1. \A f \in Effects : (InStep(f) \/ Behind(f))'
      BY <1>0, <2>5 DEF LagInv
    <3>2. \A q \in Runtimes : pc'[q] = "repair"
      BY <1>0, <2>1
    <3> QED
      BY <3>1, <3>2 DEF LagInv
  <2>7. OwnRowInv'
    BY <1>0, <2>1 DEF OwnRowInv, InFlightLabels, LastAuditLabels
  <2> QED
    BY <2>5, <2>6, <2>7
<1>2. ASSUME DispatchCheck(r) PROVE (ChainValid /\ LagInv /\ OwnRowInv)'
  <2>1. /\ pc[r] = "check" /\ pc'[r] = "reserve" /\ fence' = fence /\ cur' = cur
        /\ cur[r] \in Effects /\ permit[r] \in 0..MaxEpoch /\ trustGen \in 0..MaxTrust
        /\ \A e \in Effects : InStep(e) /\ ~Behind(e)
    BY <1>0, <1>2, NoLag DEF DispatchCheck, LocalInv, EffectLabels, Labels, TypeOK,
       AppendLabels, LastAuditLabels
  <2>2. PICK x \in Effects : x = cur[r]
    BY <2>1
  <2>3. PICK ev \in Event : ev.type = "AUTHORITY_VERIFIED" /\ AuditAppend(x, ev)
    <3> DEFINE seen == IF cur[r] \in CoordEffects THEN 0 ELSE trustGen
    <3> DEFINE v == AuditEvent("AUTHORITY_VERIFIED", [permit |-> permit[r], evidence |-> seen], FALSE)
    <3>1. seen \in 0..MaxTrust
      BY <2>1, GatewayAssumption
    <3>2. v \in Event /\ v.type = "AUTHORITY_VERIFIED"
      BY <2>1, <3>1 DEF AuditEvent, Event, Binding, EventType
    <3>3. AuditAppend(x, v)
      BY <1>2, <2>2 DEF DispatchCheck
    <3> QED
      BY <3>2, <3>3
  <2>4. /\ ChainValid' /\ LatestType(x)' # "NONE"
        /\ \A e \in Effects : InStep(e)'
    <3>1. CASE LatestType(x) = "NONE"
      <4>1. fence[x] = "ABSENT"
        BY <1>0, <2>1, <3>1 DEF InStep, Fence!FenceState, Fence!EffectState
      <4>2. /\ ChainValid' /\ LatestType(x)' = "AUTHORITY_VERIFIED"
            /\ \A f \in Effects \ {x} : LatestType(f)' = LatestType(f)
        BY <1>0, <2>3, <3>1, AllowedFacts, AppendNew
      <4>3. InStep(x)'
        BY <2>1, <4>1, <4>2 DEF InStep
      <4>4. \A f \in Effects \ {x} : InStep(f)'
        BY <2>1, <4>2 DEF InStep
      <4> QED
        BY <4>2, <4>3, <4>4
    <3>2. CASE LatestType(x) # "NONE"
      <4>1. audit' = audit
        BY <1>0, <2>3, <3>2, AuditStages, AppendReplay
      <4> QED
        BY <1>0, <2>1, <3>2, <4>1, LagFrame
    <3> QED
      BY <3>1, <3>2
  <2>5. \A e \in Effects : ~Behind(e)'
    <3>1. TypeOK'
      BY <1>2, TypeStep DEF Next, Continue, Dispatch
    <3>2. (\A e \in Effects : ~Behind(e))'
      BY <2>4, <3>1, CaughtUp
    <3> QED
      BY <3>2
  <2>6. LagInv'
    BY <2>4, <2>5 DEF LagInv
  <2>7. OwnRowInv'
    BY <1>0, <2>1, <2>2, <2>4 DEF OwnRowInv, InFlightLabels, LastAuditLabels
  <2> QED
    BY <2>4, <2>6, <2>7
<1>3. ASSUME DispatchAuditReserved(r) \/ DispatchAuditExecuting(r) \/ AuditLast(r)
      PROVE  (ChainValid /\ LagInv /\ OwnRowInv)'
  <2>1. /\ pc[r] \in AppendLabels /\ fence' = fence
        /\ pc'[r] \in {"claim", "execute", "idle"}
        /\ pc'[r] = "execute" => pc[r] = "audit_executing" /\ cur' = cur
        /\ AuditStage(r)
    BY <1>0, <1>3 DEF DispatchAuditReserved, DispatchAuditExecuting, AuditLast,
       AppendLabels, LastAuditLabels
  <2>2. PICK x \in Effects : x = cur[r]
    BY <1>0, <2>1, StageEventType DEF AppendLabels
  <2>3. PICK ev \in Event : ev.type = AuditedState[pc[r]] /\ AuditAppend(x, ev)
    <3>1. StageEvent(r) \in Event /\ StageEvent(r).type = AuditedState[pc[r]]
      BY <1>0, <2>1, StageEventType DEF StageEvent, AuditEvent, AppendLabels
    <3> QED
      BY <2>1, <2>2, <3>1 DEF AuditStage
  <2>4. \A f \in Effects \ {x} : InStep(f)
    BY <1>0, <2>1, <2>2 DEF LagInv, AppendLabels, LastAuditLabels
  <2>5. ChainValid' /\ \A e \in Effects : InStep(e)'
    <3>1. CASE fence[x] = AuditedState[pc[r]]
      <4>1. InStep(x) \/ Behind(x)
        BY <1>0 DEF LagInv
      <4>2. /\ ChainValid' /\ InStep(x)'
            /\ \A f \in Effects \ {x} : InStep(f)' <=> InStep(f)
        BY <1>0, <2>1, <2>3, <3>1, <4>1, AuditCatchesUp
      <4> QED
        BY <2>4, <4>2
    <3>2. CASE fence[x] # AuditedState[pc[r]]
      <4>1. pc[r] = "audit_reserved"
        BY <1>0, <2>1, <2>2, <3>2 DEF OwnRowInv, AppendLabels, InFlightLabels, AuditedState
      <4>2. InStep(x) /\ fence[x] # "ABSENT"
        BY <1>0, <2>2, <3>2, <4>1 DEF LagInv, LocalInv, RowLabels, EffectLabels, Labels
      <4>3. Holds(audit[x], "RESERVED")
        BY <1>0, <4>2, AuditStages DEF InStep, Fence!FenceState
      <4>4. audit' = audit
        BY <2>3, <4>1, <4>3, AppendReplay DEF AuditedState
      <4> QED
        BY <1>0, <2>1, <2>4, <4>2, <4>4, LagFrame
    <3> QED
      BY <3>1, <3>2
  <2>6. LagInv'
    <3>1. TypeOK'
      BY <1>3, TypeStep DEF Next, Continue, Dispatch
    <3>2. (\A e \in Effects : ~Behind(e))'
      BY <2>5, <3>1, CaughtUp
    <3> QED
      BY <2>5, <3>2 DEF LagInv
  <2>7. OwnRowInv'
    BY <1>0, <2>1 DEF OwnRowInv, InFlightLabels, LastAuditLabels
  <2> QED
    BY <2>5, <2>6, <2>7
<1> QED
  BY <1>1, <1>2, <1>3

\* The fence transactions: each moves one row by a stage the audit allows next.
LEMMA RowMoveStep ==
    ASSUME IInv, AloneInv, NEW r \in Runtimes,
           \/ DispatchReserve(r) \/ DispatchClaim(r)
           \/ \E known \in BOOLEAN : DispatchSettle(r, known)
           \/ \E e \in Effects : CancelReserved(r, e) \/ Reconcile(r, e)
    PROVE  (ChainValid /\ LagInv /\ OwnRowInv)'
<1> USE DEF fenceVars, lifecycleVars, trustVars, lockVars, localVars, worldVars, Goto
<1> DEFINE Moved(x, state) ==
        /\ pc[r] \notin {"closed", "repair"} \cup AppendLabels
        /\ fence' = [fence EXCEPT ![x] = state] /\ audit' = audit
        /\ state \in AllowedNext(LatestType(x))
        /\ pc'[r] \in AppendLabels /\ state = AuditedState[pc'[r]] /\ x = cur'[r]
<1>0. /\ pc \in [Runtimes -> Labels] /\ cur \in [Runtimes -> Effects \cup {Nil}]
      /\ \A q \in Runtimes : q = r
      /\ fence \in [Effects -> Fence!FenceState]
      /\ TypeOK /\ ChainValid /\ LagInv /\ OwnRowInv /\ LocalInv
  BY DEF IInv, StateInv, TypeOK, Fence!TypeOK, AloneInv, OneProcess
<1>1. \E x \in Effects : \E state \in Fence!EffectState : Moved(x, state)
  <2> USE DEF AppendLabels, LastAuditLabels, Fence!EffectState
  <2>0. ASSUME pc[r] \in {"idle", "reserve", "claim", "settle_known", "settle_unknown"}
        PROVE  /\ pc[r] \notin {"closed", "repair"} \cup AppendLabels
               /\ \A e \in Effects : fence[e] = "ABSENT" \/ LatestType(e) = fence[e]
    BY <2>0, NoLag DEF InStep
  <2>1. CASE DispatchReserve(r)
    <3>1. /\ pc[r] = "reserve" /\ pc'[r] = "audit_reserved" /\ cur' = cur /\ audit' = audit
          /\ fence[cur[r]] = "ABSENT" /\ fence' = [fence EXCEPT ![cur[r]] = "RESERVED"]
      BY <1>0, <2>1 DEF DispatchReserve, Fence!Reserve
    <3>2. PICK x \in Effects : x = cur[r]
      BY <1>0, <3>1 DEF LocalInv, EffectLabels, Labels
    <3>3. LatestType(x) = "AUTHORITY_VERIFIED"
      BY <1>0, <3>1, <3>2, NoLag DEF OwnRowInv, InStep
    <3>4. Moved(x, "RESERVED")
      BY <2>0, <3>1, <3>2, <3>3, AllowedFacts DEF AuditedState
    <3> QED
      BY <3>4
  <2>2. CASE DispatchClaim(r)
    <3>1. /\ pc[r] = "claim" /\ pc'[r] = "audit_executing" /\ cur' = cur /\ audit' = audit
          /\ fence[cur[r]] = "RESERVED" /\ fence' = [fence EXCEPT ![cur[r]] = "EXECUTING"]
      BY <1>0, <2>2 DEF DispatchClaim, Fence!ClaimDispatch
    <3>2. PICK x \in Effects : x = cur[r]
      BY <1>0, <3>1 DEF LocalInv, EffectLabels, Labels
    <3>3. LatestType(x) = "RESERVED"
      BY <2>0, <3>1, <3>2
    <3>4. Moved(x, "EXECUTING")
      BY <2>0, <3>1, <3>2, <3>3, AllowedFacts DEF AuditedState
    <3> QED
      BY <3>4
  <2>3. ASSUME NEW known \in BOOLEAN, DispatchSettle(r, known)
        PROVE  \E x \in Effects : \E state \in Fence!EffectState : Moved(x, state)
    <3> DEFINE settled == IF known THEN "COMMITTED" ELSE "ATTEMPTED_UNKNOWN"
    <3>1. /\ pc[r] \in {"settle_known", "settle_unknown"} /\ cur' = cur /\ audit' = audit
          /\ pc'[r] = IF known THEN "audit_committed" ELSE "audit_unknown"
          /\ fence[cur[r]] = "EXECUTING" /\ fence' = [fence EXCEPT ![cur[r]] = settled]
      BY <1>0, <2>3 DEF DispatchSettle, Fence!Settle, Fence!SettledState
    <3>2. PICK x \in Effects : x = cur[r]
      BY <1>0, <3>1 DEF LocalInv, EffectLabels, Labels
    <3>3. LatestType(x) = "EXECUTING"
      BY <2>0, <3>1, <3>2
    <3>4. Moved(x, settled)
      BY <2>0, <3>1, <3>2, <3>3, AllowedFacts DEF AuditedState
    <3> QED
      BY <3>4
  <2>4. ASSUME NEW x \in Effects, CancelReserved(r, x)
        PROVE  \E y \in Effects : \E state \in Fence!EffectState : Moved(y, state)
    <3>1. /\ pc[r] = "idle" /\ pc'[r] = "audit_cancelled" /\ cur'[r] = x /\ audit' = audit
          /\ fence[x] = "RESERVED" /\ fence' = [fence EXCEPT ![x] = "CANCELLED_PRE_DISPATCH"]
      BY <1>0, <2>4 DEF CancelReserved, Fence!CancelBeforeDispatch
    <3>2. LatestType(x) = "RESERVED"
      BY <2>0, <3>1
    <3>3. Moved(x, "CANCELLED_PRE_DISPATCH")
      BY <2>0, <3>1, <3>2, AllowedFacts DEF AuditedState
    <3> QED
      BY <3>3
  <2>5. ASSUME NEW x \in Effects, Reconcile(r, x)
        PROVE  \E y \in Effects : \E state \in Fence!EffectState : Moved(y, state)
    <3> DEFINE found == IF occurred[x] THEN "RECONCILED_COMMITTED" ELSE "RECONCILED_NO_EFFECT"
    <3>1. /\ pc[r] = "idle" /\ cur'[r] = x /\ audit' = audit
          /\ pc'[r] = IF occurred[x] THEN "audit_occurred" ELSE "audit_no_effect"
          /\ fence[x] \in {"EXECUTING", "ATTEMPTED_UNKNOWN"} /\ fence' = [fence EXCEPT ![x] = found]
      BY <1>0, <2>5 DEF Reconcile, Fence!ReconcileUnknown, Fence!ReconciledState,
         Fence!AmbiguousStates
    <3>2. LatestType(x) = fence[x]
      BY <2>0, <3>1
    <3>3. Moved(x, found)
      <4>1. found \in AllowedNext(LatestType(x))
        BY <3>1, <3>2, AllowedFacts
      <4>2. found = AuditedState[pc'[r]]
        BY <3>1 DEF AuditedState
      <4> QED
        BY <2>0, <3>1, <4>1, <4>2
    <3> QED
      BY <3>3
  <2> HIDE DEF Moved
  <2> QED
    BY <2>1, <2>2, <2>3, <2>4, <2>5
<1>2. PICK x \in Effects, state \in Fence!EffectState : Moved(x, state)
  BY <1>1
<1>3. \A e \in Effects : InStep(e)
  BY <1>2, NoLag
<1>4. /\ ChainValid' /\ Behind(x)'
      /\ \A f \in Effects \ {x} : InStep(f)' /\ ~Behind(f)'
  BY <1>0, <1>2, <1>3, RowRunsAhead
<1>5. fence'[x] = state
  BY <1>0, <1>2
<1>6. LagInv'
  BY <1>0, <1>2, <1>4, <1>5 DEF LagInv
<1>7. OwnRowInv'
  <2>1. /\ pc'[r] \in InFlightLabels => fence'[cur'[r]] = "EXECUTING"
        /\ pc'[r] \in LastAuditLabels => fence'[cur'[r]] = AuditedState[pc'[r]]
        /\ pc'[r] \notin {"reserve", "repair"}
    BY <1>2, <1>5 DEF InFlightLabels, AppendLabels, LastAuditLabels, AuditedState
  <2> QED
    BY <1>0, <2>1 DEF OwnRowInv
<1> QED
  BY <1>4, <1>6, <1>7

\* With one process nobody reconciles an effect that execute() may still bring
\* about, so that every terminal row is true of the world.
LEMMA AloneTruthStep == IInv /\ AloneInv /\ [Next]_vars => TerminalTruthful'
<1> SUFFICES ASSUME IInv, AloneInv, [Next]_vars PROVE TerminalTruthful'
  OBVIOUS
<1> USE DEF IInv, StateInv, SafetyInv, TypeOK, Fence!TypeOK, LocalInv,
        AloneInv, OwnRowInv, DispatchInv, WorldInv, AtMostOnce, TerminalTruthful,
        Truthful, VerifiedLabels, ClaimedLabels, InFlightLabels,
        EffectLabels, Labels, LastAuditLabels, fenceVars, worldVars
<1>1. ASSUME NEW r \in Runtimes, DispatchReserve(r)
      PROVE  TerminalTruthful'
  BY <1>1 DEF DispatchReserve, Fence!Reserve
<1>2. ASSUME NEW r \in Runtimes, DispatchClaim(r)
      PROVE  TerminalTruthful'
  BY <1>2 DEF DispatchClaim, Fence!ClaimDispatch
<1>3. ASSUME NEW r \in Runtimes, ExecuteReturns(r)
      PROVE  TerminalTruthful'
  BY <1>3 DEF ExecuteReturns
<1>4. ASSUME NEW r \in Runtimes, NEW done \in BOOLEAN, ExecuteRaises(r, done)
      PROVE  TerminalTruthful'
  BY <1>4 DEF ExecuteRaises
<1>5. ASSUME NEW r \in Runtimes, NEW known \in BOOLEAN, DispatchSettle(r, known)
      PROVE  TerminalTruthful'
  BY <1>5 DEF DispatchSettle, Fence!Settle, Fence!SettledState
<1>6. ASSUME NEW r \in Runtimes, NEW e \in Effects, CancelReserved(r, e)
      PROVE  TerminalTruthful'
  BY <1>6 DEF CancelReserved, Fence!CancelBeforeDispatch
<1>7. ASSUME NEW r \in Runtimes, NEW e \in Effects, Reconcile(r, e)
      PROVE  TerminalTruthful'
  <2>1. CASE occurred[e] = TRUE
    BY <1>7, <2>1 DEF Reconcile, Fence!ReconcileUnknown, Fence!ReconciledState
  <2>2. CASE occurred[e] = FALSE
    BY <1>7, <2>2 DEF Reconcile, Fence!ReconcileUnknown, Fence!ReconciledState
  <2>3. occurred[e] \in BOOLEAN
    BY <1>7
  <2> QED
    BY <2>1, <2>2, <2>3
<1>8. CASE UNCHANGED <<fenceVars, worldVars>>
  BY <1>8
<1> HIDE DEF IInv, StateInv, SafetyInv, TypeOK, Fence!TypeOK, LocalInv,
        AloneInv, OwnRowInv, DispatchInv, WorldInv, AtMostOnce, TerminalTruthful,
        Truthful, VerifiedLabels, ClaimedLabels, InFlightLabels,
        EffectLabels, Labels, LastAuditLabels, fenceVars, worldVars
<1> QED
  BY <1>1, <1>2, <1>3, <1>4, <1>5, <1>6, <1>7, <1>8, FenceFrame, WorldFrame

\* Every step of the one process keeps its audit at most one stage behind.
LEMMA AloneStep == IInv /\ AloneInv /\ [Next]_vars => AloneInv'
<1> SUFFICES ASSUME IInv, AloneInv, [Next]_vars PROVE AloneInv'
  OBVIOUS
<1>0. TerminalTruthful' /\ OneProcess'
  <2>1. OneProcess'
    BY DEF AloneInv, OneProcess
  <2> QED
    BY <2>1, AloneTruthStep
<1>1. ASSUME NEW r \in Runtimes, Begin(r) \/ Continue(r) \/ Crash(r)
      PROVE  (ChainValid /\ LagInv /\ OwnRowInv)'
  <2> DEFINE Goal == (ChainValid /\ LagInv /\ OwnRowInv)'
  <2>1. ASSUME Raise(r), pc[r] \notin {"closed", "repair"} \cup AppendLabels PROVE Goal
    BY <2>1, NoLag, QuietStep
  <2>2. ASSUME AuditRefused(r) PROVE Goal
    <3>1. Raise(r) /\ pc[r] \in AppendLabels /\ ~AuditAccepts(cur[r], StageEvent(r))
      BY <2>2 DEF AuditRefused, AppendLabels
    <3>2. \A e \in Effects : ~Behind(e)
      <4> SUFFICES ASSUME NEW e \in Effects, Behind(e) PROVE FALSE
        OBVIOUS
      <4>1. cur[r] = e /\ fence[e] = AuditedState[pc[r]]
        BY <3>1 DEF AloneInv, LagInv, AppendLabels, LastAuditLabels
      <4>2. ~Holds(audit[e], fence[e])
        BY AuditStages DEF Behind, AloneInv, IInv, StateInv
      <4>3. StageEvent(r).type = fence[e]
        BY <4>1 DEF StageEvent, AuditEvent
      <4> QED
        BY <3>1, <4>1, <4>2, <4>3 DEF AuditAccepts, Holds
    <3> QED
      BY <3>1, <3>2, QuietStep
  <2>3. ASSUME \/ CheckpointBlocked(r) \/ LockTimeout(r) \/ DispatchRefused(r)
               \/ ClaimRefused(r) \/ SettleRefused(r)
        PROVE  Goal
    <3>1. Raise(r) /\ pc[r] \notin {"closed", "repair"} \cup AppendLabels
      BY <2>3 DEF CheckpointBlocked, LockTimeout, DispatchRefused, ClaimRefused,
         SettleRefused, AppendLabels, LastAuditLabels
    <3> QED
      BY <2>1, <3>1
  <2> HIDE DEF Goal
  <2>4. ASSUME Begin(r) \/ Crash(r) PROVE Goal
    BY <2>4, QuietStep, RowMoveStep DEF Begin, Goal
  <2>5. ASSUME Dispatch(r) PROVE Goal
    BY <2>3, <2>5, QuietStep, AuditStep, RowMoveStep DEF Dispatch, Goal
  <2>6. ASSUME Continue(r), ~Dispatch(r) PROVE Goal
    BY <2>2, <2>3, <2>6, QuietStep, AuditStep DEF Continue, Goal
  <2> QED
    BY <1>1, <2>4, <2>5, <2>6 DEF Goal
<1>2. ASSUME \/ MemoryAdmit \/ TrustRotate \/ TrustRevoke \/ TrustReactivate
             \/ UNCHANGED vars
      PROVE  (ChainValid /\ LagInv /\ OwnRowInv)'
  <2>1. audit' = audit /\ fence' = fence /\ pc' = pc /\ cur' = cur /\ snap' = snap
    BY <1>2 DEF MemoryAdmit, TrustRotate, TrustRevoke, TrustReactivate, TrustMutation,
       fenceVars, localVars, vars
  <2>2. /\ ChainValid'
        /\ \A e \in Effects : /\ LatestType(e)' = LatestType(e)
                              /\ InStep(e)' <=> InStep(e)
                              /\ Behind(e)' <=> Behind(e)
    BY <2>1, LagFrame DEF AloneInv
  <2>3. LagInv'
    BY <2>1, <2>2 DEF AloneInv, LagInv
  <2>4. OwnRowInv'
    <3>1. ASSUME NEW r \in Runtimes, pc[r] = "reserve" PROVE LatestType(cur[r])' # "NONE"
      <4>1. LatestType(cur[r]) # "NONE" /\ cur[r] \in Effects
        BY <3>1 DEF AloneInv, OwnRowInv, IInv, StateInv, LocalInv, EffectLabels, Labels
      <4>2. LatestType(cur[r])' = LatestType(cur[r])
        BY <2>1 DEF LatestType, Stage
      <4> QED
        BY <4>1, <4>2
    <3> QED
      BY <2>1, <3>1 DEF AloneInv, OwnRowInv
  <2> QED
    BY <2>2, <2>3, <2>4
<1>3. (ChainValid /\ LagInv /\ OwnRowInv)'
  BY <1>1, <1>2 DEF Next
<1> QED
  BY <1>0, <1>3 DEF AloneInv

\* The one process starts with an empty audit of an empty fence.
LEMMA AloneInit == Init /\ OneProcess => AloneInv
<1> SUFFICES ASSUME Init, OneProcess PROVE AloneInv
  OBVIOUS
<1>1. \A e \in Effects : fence[e] = "ABSENT" /\ audit[e] = <<>>
  BY DEF Init, Fence!Init
<1>2. ChainValid
  BY <1>1 DEF ChainValid
<1>3. \A e \in Effects : LatestType(e) = "NONE"
  BY <1>1 DEF LatestType, Stage
<1>4. \A r \in Runtimes : pc[r] = "closed"
  <2>1. pc = [r \in Runtimes |-> "closed"]
    BY Zenon DEF Init
  <2> QED
    BY <2>1, Zenon
<1>5. LagInv
  BY <1>1, <1>3, <1>4 DEF LagInv, InStep
<1>6. OwnRowInv
  <2>1. /\ "closed" \notin InFlightLabels /\ "closed" \notin LastAuditLabels
        /\ "closed" # "reserve" /\ "closed" # "repair"
    BY DEF InFlightLabels, LastAuditLabels
  <2> QED
    BY <1>4, <2>1, Zenon DEF OwnRowInv
<1>7. TerminalTruthful
  BY <1>1 DEF TerminalTruthful, Truthful
<1> QED
  BY <1>2, <1>5, <1>6, <1>7 DEF AloneInv

\* While one process at a time opens the directory, whatever dies where and
\* however often it is reopened, the audit is never more than the stage of one
\* fence transaction behind its row, and open() catches it up.
THEOREM GatewayAuditKeepsUp == Spec /\ OneProcess => []AloneInv
<1>1. IInv /\ AloneInv /\ [Next]_vars => AloneInv'
  BY AloneStep
<1> QED
  BY <1>1, AloneInit, GatewayInvariant, PTL DEF Spec

\* Then verify_chain accepts the audit in every state: no crash between the fence
\* transaction and the audit append, at any stage, leaves one that open() refuses.
THEOREM GatewayAuditRepairable == Spec /\ OneProcess => []AuditRepairable
<1>1. AloneInv => AuditRepairable
  BY DEF AloneInv, AuditRepairable
<1> QED
  BY <1>1, GatewayAuditKeepsUp, PTL

\* And every terminal fence row is true of the outside world, that of a
\* coordination-bus effect too, whose dispatch does not hold the trust lock.
THEOREM GatewayTerminalTruthful == Spec /\ OneProcess => []TerminalTruthful
<1>1. AloneInv => TerminalTruthful
  BY DEF AloneInv
<1> QED
  BY <1>1, GatewayAuditKeepsUp, PTL

----------------------------------------------------------------------------
(* The audit as the history of a fence.                                    *)

\* Every stage recorded after the verified authority carries the digests of the
\* fence row.
RecordedInv ==
    \A e \in Effects : \A i \in DOMAIN audit[e] :
        audit[e][i].type # "AUTHORITY_VERIFIED" => audit[e][i].binding = bound[e]

\* The event ev of effect x is appended: one that may follow and, unless it
\* records the verified authority, one under the digests of x's row.
Logs(x, ev) ==
    /\ audit' = [audit EXCEPT ![x] = Append(audit[x], ev)]
    /\ ev.type \in AllowedNext(LatestType(x))
    /\ bound' = bound
    /\ ev.type # "AUTHORITY_VERIFIED" => ev.binding = bound[x]

\* An append is a replay, or the new event follows the last one: afterwards the
\* chain is valid again.
LEMMA AppendLogs ==
    ASSUME IInv, AloneInv, ChainValid', NEW x \in Effects, NEW ev \in Event,
           AuditAppend(x, ev), bound' = bound,
           ev.type # "AUTHORITY_VERIFIED" => ev.binding = bound[x]
    PROVE  audit' = audit \/ Logs(x, ev)
<1> DEFINE s == audit[x]
           t == Append(s, ev)
<1>0. audit \in [Effects -> Seq(Event)] /\ s \in Seq(Event)
  BY DEF IInv, StateInv, TypeOK
<1>1. CASE audit' = audit
  BY <1>1
<1>2. CASE audit' = [audit EXCEPT ![x] = t]
  <2>1. audit'[x] = t
    BY <1>0, <1>2
  <2>2. /\ Len(s) \in Nat /\ Len(s) + 1 \in DOMAIN t /\ t[Len(s) + 1] = ev
        /\ Len(s) # 0 => t[Len(s)] = s[Len(s)]
    BY <1>0
  <2>3. ev.type \in AllowedNext(Stage(t, Len(s)))
    <3>1. t[Len(s) + 1].type \in AllowedNext(Stage(t, (Len(s) + 1) - 1))
      BY <2>1, <2>2 DEF ChainValid, Stage
    <3> QED
      BY <2>2, <3>1
  <2>4. Stage(t, Len(s)) = LatestType(x)
    BY <2>2 DEF Stage, LatestType
  <2> QED
    BY <1>2, <2>3, <2>4 DEF Logs
<1> QED
  BY <1>1, <1>2 DEF AuditAppend

\* How a step of the one process moves the audit.
LEMMA AuditMoves ==
    ASSUME IInv, AloneInv, [Next]_vars
    PROVE  audit' = audit \/ \E x \in Effects, ev \in Event : Logs(x, ev)
<1> DEFINE Goal == audit' = audit \/ \E x \in Effects, ev \in Event : Logs(x, ev)
<1>0. /\ TypeOK /\ LocalInv /\ RowInv /\ GatewayAssumption
      /\ fence \in [Effects -> Fence!FenceState]
      /\ ChainValid'
  BY AloneStep, GatewayAssumption DEF IInv, StateInv, TypeOK, Fence!TypeOK, AloneInv
<1>1. ASSUME NEW r \in Runtimes, NEW e \in Effects, RepairStep(r, e) PROVE Goal
  <2> DEFINE stage == RepairStage(LatestType(e), snap[r][e])
             ev == AuditEvent(stage, bound[e], TRUE)
  <2>1. /\ AuditAppend(e, ev) /\ bound' = bound /\ stage # "NONE"
        /\ pc[r] = "repair" /\ Unrepaired(r, e)
    BY <1>1 DEF RepairStep, fenceVars
  <2>2. snap[r] = fence /\ fence[e] \in Fence!EffectState /\ fence[e] # "ABSENT"
    BY <1>0, <2>1 DEF AloneInv, OwnRowInv, Unrepaired, Fence!FenceState
  <2>3. bound[e] \in Binding
    BY <1>0, <2>2 DEF RowInv
  <2>4. stage \in EventType
    <3>1. stage \in {"RESERVED", "EXECUTING", snap[r][e]}
      <4> DEFINE latest == LatestType(e)
                 target == snap[r][e]
      <4>1. CASE latest = "AUTHORITY_VERIFIED"
        BY <4>1, Zenon DEF RepairStage
      <4>2. CASE latest = "RESERVED"
        <5>1. stage = IF target = "CANCELLED_PRE_DISPATCH" THEN target ELSE "EXECUTING"
          BY <4>2, Zenon DEF RepairStage
        <5> QED
          BY <5>1
      <4>3. CASE latest \in {"EXECUTING", "ATTEMPTED_UNKNOWN"} /\ target \in AllowedNext(latest)
        <5>1. latest # "AUTHORITY_VERIFIED" /\ latest # "RESERVED"
          BY <4>3
        <5> QED
          BY <4>3, <5>1, Zenon DEF RepairStage
      <4>4. CASE /\ latest # "AUTHORITY_VERIFIED" /\ latest # "RESERVED"
                 /\ ~(latest \in {"EXECUTING", "ATTEMPTED_UNKNOWN"} /\ target \in AllowedNext(latest))
        <5>1. stage = "NONE"
          BY <4>4, Zenon DEF RepairStage
        <5> QED
          BY <2>1, <5>1
      <4> QED
        BY <4>1, <4>2, <4>3, <4>4
    <3> QED
      BY <2>2, <3>1 DEF EventType, Fence!EffectState
  <2>5. ev \in Event /\ ev.binding = bound[e]
    BY <2>3, <2>4 DEF AuditEvent, Event
  <2> HIDE DEF ev
  <2> QED
    BY <1>0, <2>1, <2>5, AppendLogs
<1>2. ASSUME NEW r \in Runtimes, DispatchCheck(r) PROVE Goal
  <2> DEFINE seen == IF cur[r] \in CoordEffects THEN 0 ELSE trustGen
             ev == AuditEvent("AUTHORITY_VERIFIED", [permit |-> permit[r], evidence |-> seen], FALSE)
  <2>1. AuditAppend(cur[r], ev) /\ bound' = bound /\ pc[r] = "check"
    BY <1>2 DEF DispatchCheck, fenceVars
  <2>2. cur[r] \in Effects /\ permit[r] \in 0..MaxEpoch /\ seen \in 0..MaxTrust
    <3>1. permit[r] \in 0..MaxEpoch /\ trustGen \in 0..MaxTrust
      BY <1>0 DEF TypeOK
    <3>2. 0 \in 0..MaxTrust
      BY GatewayAssumption
    <3>3. cur[r] \in Effects
      BY <1>0, <2>1 DEF LocalInv, EffectLabels, Labels
    <3> QED
      BY <3>1, <3>2, <3>3
  <2>3. ev \in Event /\ ev.type = "AUTHORITY_VERIFIED"
    BY <2>2 DEF AuditEvent, Event, Binding, EventType
  <2> HIDE DEF ev, seen
  <2> QED
    BY <1>0, <2>1, <2>2, <2>3, AppendLogs
<1>3. ASSUME NEW r \in Runtimes,
             DispatchAuditReserved(r) \/ DispatchAuditExecuting(r) \/ AuditLast(r)
      PROVE  Goal
  <2>1. /\ AuditAppend(cur[r], StageEvent(r)) /\ bound' = bound
        /\ pc[r] \in LastAuditLabels \cup {"audit_reserved", "audit_executing"}
    BY <1>3 DEF DispatchAuditReserved, DispatchAuditExecuting, AuditLast, AuditStage, fenceVars
  <2>2. cur[r] \in Effects /\ StageEvent(r) \in Event
    BY <1>0, <2>1, StageEventType
  <2>3. StageEvent(r).binding = bound[cur[r]]
    BY DEF StageEvent, AuditEvent
  <2> QED
    BY <1>0, <2>1, <2>2, <2>3, AppendLogs
<1>4. ASSUME NEW r \in Runtimes, Begin(r) PROVE Goal
  BY <1>4 DEF Begin, OpenBegin, CheckpointBegin, DispatchBegin, MintPermit,
     CancelReserved, Reconcile
<1>5. ASSUME NEW r \in Runtimes, Dispatch(r),
             ~(DispatchCheck(r) \/ DispatchAuditReserved(r) \/ DispatchAuditExecuting(r))
      PROVE  audit' = audit
  BY <1>5 DEF Dispatch, DispatchLockTrust, LockTimeout, DispatchRefused, DispatchReserve,
     ReserveReplay, DispatchClaim, ClaimRefused, ExecuteReturns, ExecuteRaises,
     DispatchSettle, SettleRefused, Raise
<1>6. ASSUME NEW r \in Runtimes, Continue(r), ~Dispatch(r), ~AuditLast(r),
             \A e \in Effects : ~RepairStep(r, e)
      PROVE  audit' = audit
  BY <1>6 DEF Continue, AuditRefused, CheckpointPublish, CheckpointBlocked, OpenEnd,
     OpenFails, Raise
<1>7. ASSUME NEW r \in Runtimes, Crash(r) PROVE audit' = audit
  BY <1>7 DEF Crash
<1>8. ASSUME MemoryAdmit \/ TrustRotate \/ TrustRevoke \/ TrustReactivate \/ UNCHANGED vars
      PROVE  audit' = audit
  BY <1>8 DEF MemoryAdmit, TrustRotate, TrustRevoke, TrustReactivate, TrustMutation, vars
<1> HIDE DEF Goal
<1>9. Goal
  <2>1. audit' = audit => Goal
    BY DEF Goal
  <2> QED
    BY <1>1, <1>2, <1>3, <1>4, <1>5, <1>6, <1>7, <1>8, <2>1 DEF Next
<1> QED
  BY <1>9 DEF Goal

\* The digests of an effect change only with the reservation of an absent row,
\* of which the audit holds at most the verified authority.
LEMMA BoundMoves ==
    ASSUME IInv, AloneInv, [Next]_vars, NEW e \in Effects, bound'[e] # bound[e]
    PROVE  /\ audit' = audit
           /\ \A i \in DOMAIN audit[e] : audit[e][i].type = "AUTHORITY_VERIFIED"
<1>0. /\ TypeOK /\ ChainValid /\ LagInv /\ audit[e] \in Seq(Event)
      /\ bound \in [Effects -> Binding \cup {NoBinding}]
  BY DEF IInv, StateInv, TypeOK, Fence!TypeOK, AloneInv
<1>1. PICK r \in Runtimes : DispatchReserve(r)
  BY FenceFrame DEF fenceVars, DispatchClaim, Fence!ClaimDispatch, DispatchSettle,
     Fence!Settle, CancelReserved, Fence!CancelBeforeDispatch, Reconcile,
     Fence!ReconcileUnknown
<1>2. audit' = audit /\ fence[e] = "ABSENT"
  BY <1>0, <1>1 DEF DispatchReserve, Fence!Reserve
<1>3. LatestType(e) \in {"NONE", "AUTHORITY_VERIFIED"}
  <2>1. LatestType(e) \in {"NONE"} \cup EventType
    BY <1>0, AuditStages
  <2>2. ~Behind(e)
    BY <1>2, <2>1, AllowedFacts DEF Behind, EventType, Fence!EffectState
  <2> QED
    BY <1>0, <1>2, <2>2 DEF LagInv, InStep
<1>4. ValidChain(audit[e])
  BY <1>0 DEF ChainValid, ValidChain
<1>5. Len(audit[e]) <= 1
  <2> SUFFICES ASSUME Len(audit[e]) > 1 PROVE FALSE
    BY <1>0
  <2> DEFINE s == audit[e]
  <2>0. s \in Seq(Event)
    BY <1>0
  <2>1. LatestType(e) = s[Len(s)].type
    BY <1>0 DEF LatestType, Stage
  <2>2. /\ Len(s) \in 0..5 /\ Len(s) > 1
        /\ Len(s) >= 2 => s[2].type = "RESERVED"
        /\ Len(s) >= 3 => s[3].type \in {"EXECUTING", "CANCELLED_PRE_DISPATCH"}
        /\ Len(s) >= 4 => s[4].type \in {"COMMITTED", "ATTEMPTED_UNKNOWN",
                                         "RECONCILED_COMMITTED", "RECONCILED_NO_EFFECT"}
        /\ Len(s) >= 5 => s[5].type \in {"RECONCILED_COMMITTED", "RECONCILED_NO_EFFECT"}
    BY <1>4, <2>0, ChainShape
  <2> HIDE DEF s
  <2>3. Len(s) = 2 \/ Len(s) = 3 \/ Len(s) = 4 \/ Len(s) = 5
    BY <2>2
  <2> QED
    BY <1>3, <2>1, <2>2, <2>3
<1> QED
  BY <1>0, <1>2, <1>4, <1>5, ChainShape

LEMMA RecordedStep == IInv /\ AloneInv /\ RecordedInv /\ [Next]_vars => RecordedInv'
<1> SUFFICES ASSUME IInv, AloneInv, RecordedInv, [Next]_vars,
                    NEW e \in Effects, NEW i \in DOMAIN audit'[e],
                    audit'[e][i].type # "AUTHORITY_VERIFIED"
             PROVE  audit'[e][i].binding = bound'[e]
  BY DEF RecordedInv
<1>0. audit \in [Effects -> Seq(Event)]
  BY DEF IInv, StateInv, TypeOK
<1>1. CASE audit' = audit
  <2>1. bound'[e] = bound[e]
    BY <1>1, BoundMoves
  <2> QED
    BY <1>1, <2>1 DEF RecordedInv
<1>2. ASSUME NEW x \in Effects, NEW ev \in Event, Logs(x, ev)
      PROVE  audit'[e][i].binding = bound'[e]
  <2>1. /\ audit' = [audit EXCEPT ![x] = Append(audit[x], ev)] /\ bound' = bound
        /\ ev.type # "AUTHORITY_VERIFIED" => ev.binding = bound[x]
    BY <1>2 DEF Logs
  <2>2. CASE e # x
    BY <1>0, <2>1, <2>2 DEF RecordedInv
  <2>3. CASE e = x
    <3>1. audit'[e] = Append(audit[e], ev) /\ audit[e] \in Seq(Event)
      BY <1>0, <2>1, <2>3
    <3>2. (i \in DOMAIN audit[e] /\ audit'[e][i] = audit[e][i]) \/ audit'[e][i] = ev
      BY <3>1
    <3> QED
      BY <2>1, <2>3, <3>2 DEF RecordedInv
  <2> QED
    BY <2>2, <2>3
<1> QED
  BY <1>1, <1>2, AuditMoves

\* What an appended event does to what the audit alone says of its effect.
LEMMA LogSeen ==
    ASSUME IInv, AloneInv, RecordedInv, NEW x \in Effects, NEW ev \in Event, Logs(x, ev)
    PROVE  /\ auditFence' = [auditFence EXCEPT ![x] =
                  IF ev.type = "AUTHORITY_VERIFIED" THEN "ABSENT" ELSE ev.type]
           /\ auditBound' = [auditBound EXCEPT ![x] =
                  IF ev.type = "AUTHORITY_VERIFIED" THEN NoBinding ELSE bound[x]]
           /\ auditGranted' = [auditGranted EXCEPT ![x] =
                  IF ev.type = "EXECUTING" THEN 1 ELSE @]
           /\ auditFence[x] = IF Recorded(x) THEN LatestType(x) ELSE "ABSENT"
           /\ auditBound[x] = IF Recorded(x) THEN bound[x] ELSE NoBinding
           /\ ev.type = "EXECUTING" => auditGranted[x] = 0
           /\ LatestType(x) \in {"NONE"} \cup EventType
<1> DEFINE s == audit[x]
           t == Append(s, ev)
           Claimed(u) == \E i \in DOMAIN u : u[i].type = "EXECUTING"
<1>0. audit \in [Effects -> Seq(Event)] /\ s \in Seq(Event) /\ TypeOK /\ ChainValid
  BY DEF IInv, StateInv, TypeOK, AloneInv
<1>1. /\ audit' = [audit EXCEPT ![x] = t] /\ ev.type \in AllowedNext(LatestType(x))
      /\ ev.type # "AUTHORITY_VERIFIED" => ev.binding = bound[x]
  BY DEF Logs
<1>2. audit'[x] = t /\ \A e \in Effects \ {x} : audit'[e] = audit[e]
  BY <1>0, <1>1
<1>3. /\ Len(t) = Len(s) + 1 /\ Len(s) \in Nat /\ t[Len(t)] = ev
      /\ DOMAIN t = 1..(Len(s) + 1) /\ DOMAIN s = 1..Len(s)
      /\ \A i \in 1..Len(s) : t[i] = s[i]
  BY <1>0
<1>4. LatestType(x)' = ev.type /\ \A e \in Effects \ {x} : LatestType(e)' = LatestType(e)
  <2>1. Stage(audit'[x], Len(audit'[x])) = ev.type
    BY <1>2, <1>3 DEF Stage
  <2> QED
    BY <1>2, <2>1 DEF LatestType, Stage
<1>5. ev.type # "NONE"
  BY DEF Event, EventType, Fence!EffectState
<1>6. Claimed(t) <=> Claimed(s) \/ ev.type = "EXECUTING"
  <2>1. \A i \in DOMAIN t : (i \in DOMAIN s /\ t[i] = s[i]) \/ t[i] = ev
    BY <1>3
  <2>2. \A i \in DOMAIN s : i \in DOMAIN t /\ t[i] = s[i]
    BY <1>3
  <2>3. Len(t) \in DOMAIN t
    BY <1>3
  <2> QED
    BY <1>3, <2>1, <2>2, <2>3
<1>7. LatestType(x) \in {"NONE"} \cup EventType
  BY <1>0, AuditStages
<1>8. auditFence' = [auditFence EXCEPT ![x] =
          IF ev.type = "AUTHORITY_VERIFIED" THEN "ABSENT" ELSE ev.type]
  BY <1>4, <1>5 DEF auditFence, Recorded
<1>9. auditBound' = [auditBound EXCEPT ![x] =
          IF ev.type = "AUTHORITY_VERIFIED" THEN NoBinding ELSE bound[x]]
  <2> DEFINE Bound(e) == IF Recorded(e) THEN audit[e][Len(audit[e])].binding ELSE NoBinding
  <2>1. auditBound = [e \in Effects |-> Bound(e)] /\ auditBound' = [e \in Effects |-> Bound(e)']
    BY DEF auditBound
  <2>2. \A e \in Effects \ {x} : Bound(e)' = Bound(e)
    BY <1>2, <1>4 DEF Recorded
  <2>3. Bound(x)' = IF ev.type = "AUTHORITY_VERIFIED" THEN NoBinding ELSE bound[x]
    <3>1. audit'[x][Len(audit'[x])] = ev
      BY <1>2, <1>3
    <3>2. Recorded(x)' <=> ev.type # "AUTHORITY_VERIFIED"
      BY <1>4, <1>5 DEF Recorded
    <3> QED
      BY <1>1, <3>1, <3>2
  <2> HIDE DEF Bound
  <2> QED
    BY <2>1, <2>2, <2>3
<1>10. auditGranted' = [auditGranted EXCEPT ![x] = IF ev.type = "EXECUTING" THEN 1 ELSE @]
  <2>1. auditGranted = [e \in Effects |-> IF Claimed(audit[e]) THEN 1 ELSE 0]
    BY DEF auditGranted
  <2>2. auditGranted' = [e \in Effects |-> IF Claimed(audit'[e]) THEN 1 ELSE 0]
    BY DEF auditGranted
  <2> HIDE DEF Claimed, t
  <2> QED
    BY <1>2, <1>6, <2>1, <2>2
<1>11. auditBound[x] = IF Recorded(x) THEN bound[x] ELSE NoBinding
  <2> SUFFICES ASSUME Recorded(x) PROVE s[Len(s)].binding = bound[x]
    BY DEF auditBound
  <2>1. Len(s) # 0 /\ s[Len(s)].type # "AUTHORITY_VERIFIED"
    BY DEF Recorded, LatestType, Stage
  <2> QED
    BY <1>3, <2>1 DEF RecordedInv
<1>12. ev.type = "EXECUTING" => auditGranted[x] = 0
  <2> SUFFICES ASSUME ev.type = "EXECUTING" PROVE ~Claimed(s)
    BY DEF auditGranted
  <2> QED
    BY <1>0, <1>1, AuditStages DEF Holds
<1>13. auditFence[x] = IF Recorded(x) THEN LatestType(x) ELSE "ABSENT"
  BY DEF auditFence
<1> QED
  BY <1>7, <1>8, <1>9, <1>10, <1>11, <1>12, <1>13

\* A function updated with the value it has.
LEMMA Unmoved ==
    ASSUME NEW S, NEW f, f = [e \in S |-> f[e]], NEW x \in S, NEW v, v = f[x]
    PROVE  [f EXCEPT ![x] = v] = f
BY Zenon

\* A step of the one process is a fence transaction of the audit, or none.
LEMMA AuditFenceStep ==
    ASSUME IInv, AloneInv, RecordedInv, [Next]_vars, TypeOK'
    PROVE  [AuditFence!Next]_(AuditFence!fenceVars)
<1>1. CASE audit' = audit
  <2>1. \A e \in Effects : LatestType(e)' = LatestType(e)
    BY <1>1 DEF LatestType, Stage
  <2>2. auditFence' = auditFence /\ auditBound' = auditBound
    BY <1>1, <2>1 DEF auditFence, auditBound, Recorded
  <2>3. auditGranted' = auditGranted
    BY <1>1 DEF auditGranted
  <2> QED
    BY <2>2, <2>3 DEF AuditFence!fenceVars
<1>2. ASSUME NEW x \in Effects, NEW ev \in Event, Logs(x, ev)
      PROVE  [AuditFence!Next]_(AuditFence!fenceVars)
  <2> DEFINE latest == LatestType(x)
             type == ev.type
             b == bound[x]
  <2>0. /\ type \in AllowedNext(latest) /\ latest \in {"NONE"} \cup EventType
        /\ auditFence = [e \in Effects |-> auditFence[e]]
        /\ auditBound = [e \in Effects |-> auditBound[e]]
        /\ auditGranted = [e \in Effects |-> auditGranted[e]]
    BY <1>2, LogSeen DEF Logs, auditFence, auditBound, auditGranted
  <2>1. /\ auditFence' = [auditFence EXCEPT ![x] = IF type = "AUTHORITY_VERIFIED" THEN "ABSENT" ELSE type]
        /\ auditBound' = [auditBound EXCEPT ![x] = IF type = "AUTHORITY_VERIFIED" THEN NoBinding ELSE b]
        /\ auditGranted' = [auditGranted EXCEPT ![x] = IF type = "EXECUTING" THEN 1 ELSE @]
        /\ auditFence[x] = IF Recorded(x) THEN latest ELSE "ABSENT"
        /\ auditBound[x] = IF Recorded(x) THEN b ELSE NoBinding
        /\ type = "EXECUTING" => auditGranted[x] = 0
    BY <1>2, LogSeen
  <2> HIDE DEF latest, type, b
  <2>u. ASSUME type # "EXECUTING" PROVE auditGranted' = auditGranted
    <3>1. auditGranted' = [auditGranted EXCEPT ![x] = auditGranted[x]]
      BY <2>1, <2>u
    <3> QED
      BY <2>0, <3>1, Unmoved
  <2>v. ASSUME type # "AUTHORITY_VERIFIED", Recorded(x) PROVE auditBound' = auditBound
    <3>1. auditBound' = [auditBound EXCEPT ![x] = b] /\ auditBound[x] = b
      BY <2>1, <2>v
    <3> QED
      BY <2>0, <3>1, Unmoved
  <2>2. CASE latest = "NONE"
    <3>1. type = "AUTHORITY_VERIFIED" /\ ~Recorded(x)
      BY <2>0, <2>2, AllowedFacts DEF Recorded, latest
    <3>2. /\ auditFence' = [auditFence EXCEPT ![x] = "ABSENT"] /\ auditFence[x] = "ABSENT"
          /\ auditBound' = [auditBound EXCEPT ![x] = NoBinding] /\ auditBound[x] = NoBinding
      BY <2>1, <3>1
    <3>3. auditFence' = auditFence /\ auditBound' = auditBound
      BY <2>0, <3>2, Unmoved
    <3>4. auditGranted' = auditGranted
      BY <2>u, <3>1
    <3> QED
      BY <3>3, <3>4 DEF AuditFence!fenceVars
  <2>3. CASE latest = "AUTHORITY_VERIFIED"
    <3>1. type = "RESERVED" /\ ~Recorded(x)
      BY <2>0, <2>3, AllowedFacts DEF Recorded, latest
    <3>2. b \in Binding
      <4>1. ev.binding = b
        BY <1>2, <3>1 DEF Logs, type, b
      <4> QED
        BY <4>1 DEF Event
    <3>3. auditGranted' = auditGranted
      BY <2>u, <3>1
    <3>4. AuditFence!Reserve(x, b)
      BY <2>1, <3>1, <3>3 DEF AuditFence!Reserve
    <3> QED
      BY <3>2, <3>4 DEF AuditFence!Next
  <2>4. CASE latest = "RESERVED"
    <3>1. type \in {"EXECUTING", "CANCELLED_PRE_DISPATCH"} /\ Recorded(x)
      BY <2>0, <2>4, AllowedFacts DEF Recorded, latest
    <3>2. auditBound' = auditBound /\ auditFence[x] = "RESERVED"
      BY <2>1, <2>4, <2>v, <3>1
    <3>3. CASE type = "EXECUTING"
      <4>0. auditGranted' = [auditGranted EXCEPT ![x] = auditGranted[x] + 1]
        <5>1. auditGranted' = [auditGranted EXCEPT ![x] = 1] /\ auditGranted[x] = 0
          BY <2>1, <3>3
        <5>2. auditGranted[x] + 1 = 1
          BY <5>1
        <5> QED
          BY <5>1, <5>2, Zenon
      <4>1. AuditFence!ClaimDispatch(x)
        BY <2>1, <3>2, <3>3, <4>0 DEF AuditFence!ClaimDispatch
      <4> QED
        BY <4>1 DEF AuditFence!Next
    <3>4. CASE type = "CANCELLED_PRE_DISPATCH"
      <4>1. auditGranted' = auditGranted
        BY <2>u, <3>4
      <4>2. AuditFence!CancelBeforeDispatch(x)
        BY <2>1, <3>2, <3>4, <4>1 DEF AuditFence!CancelBeforeDispatch
      <4> QED
        BY <4>2 DEF AuditFence!Next
    <3> QED
      BY <3>1, <3>3, <3>4
  <2>5. CASE latest \in {"EXECUTING", "ATTEMPTED_UNKNOWN"}
    <3>1. /\ Recorded(x) /\ type \in {"COMMITTED", "ATTEMPTED_UNKNOWN",
                                      "RECONCILED_COMMITTED", "RECONCILED_NO_EFFECT"}
          /\ type \in {"COMMITTED", "ATTEMPTED_UNKNOWN"} => latest = "EXECUTING"
      BY <2>0, <2>5, AllowedFacts DEF Recorded, latest
    <3>2. /\ auditBound' = auditBound /\ auditGranted' = auditGranted
          /\ auditFence[x] = latest /\ auditFence' = [auditFence EXCEPT ![x] = type]
      BY <2>1, <2>u, <2>v, <3>1
    <3>3. ASSUME NEW known \in BOOLEAN,
                 type = IF known THEN "COMMITTED" ELSE "ATTEMPTED_UNKNOWN"
          PROVE  AuditFence!Next
      <4>1. AuditFence!Settle(x, known)
        BY <3>1, <3>2, <3>3 DEF AuditFence!Settle, AuditFence!SettledState
      <4> QED
        BY <4>1 DEF AuditFence!Next
    <3>4. ASSUME NEW found \in BOOLEAN,
                 type = IF found THEN "RECONCILED_COMMITTED" ELSE "RECONCILED_NO_EFFECT"
          PROVE  AuditFence!Next
      <4>1. AuditFence!ReconcileUnknown(x, found)
        BY <2>5, <3>2, <3>4 DEF AuditFence!ReconcileUnknown, AuditFence!ReconciledState,
           AuditFence!AmbiguousStates
      <4> QED
        BY <4>1 DEF AuditFence!Next
    <3>5. CASE type = "COMMITTED"
      BY <3>3, <3>5
    <3>6. CASE type = "ATTEMPTED_UNKNOWN"
      BY <3>3, <3>6
    <3>7. CASE type = "RECONCILED_COMMITTED"
      BY <3>4, <3>7
    <3>8. CASE type = "RECONCILED_NO_EFFECT"
      BY <3>4, <3>8
    <3> QED
      BY <3>1, <3>5, <3>6, <3>7, <3>8
  <2>6. latest \in {"NONE", "AUTHORITY_VERIFIED", "RESERVED", "EXECUTING", "ATTEMPTED_UNKNOWN"}
    BY <2>0, AllowedFacts DEF EventType, Fence!EffectState
  <2> QED
    BY <2>2, <2>3, <2>4, <2>5, <2>6
<1> QED
  BY <1>1, <1>2, AuditMoves

\* Whatever one process appends, dies before appending and repairs at its next
\* start, the audit alone tells a history the raw fence allows: what is proved of
\* EffectFence, one claim per identity under one reservation, holds of the audit.
THEOREM GatewayAuditRefinesFence == Spec /\ OneProcess => AuditFenceSpec
<1>1. Init => AuditFence!Init /\ RecordedInv
  <2> SUFFICES ASSUME Init PROVE AuditFence!Init /\ RecordedInv
    OBVIOUS
  <2>1. \A e \in Effects : audit[e] = <<>>
    BY DEF Init
  <2>2. \A e \in Effects : LatestType(e) = "NONE" /\ ~Recorded(e)
    BY <2>1 DEF LatestType, Stage, Recorded
  <2>3. \A e \in Effects : DOMAIN audit[e] = {}
    BY <2>1
  <2> QED
    BY <2>2, <2>3 DEF AuditFence!Init, RecordedInv, auditFence, auditBound, auditGranted
<1>2. IInv /\ AloneInv /\ RecordedInv /\ [Next]_vars => RecordedInv'
  BY RecordedStep
<1>3. IInv /\ AloneInv /\ RecordedInv /\ [Next]_vars => [AuditFence!Next]_(AuditFence!fenceVars)
  BY TypeStep, AuditFenceStep
<1> QED
  BY <1>1, <1>2, <1>3, GatewayInvariant, GatewayAuditKeepsUp, PTL
  DEF Spec, AuditFenceSpec, AuditFence!Spec
=============================================================================
