------------------------ MODULE EffectFence_proofs ------------------------
(***************************************************************************)
(* What the raw fence promises for every set of effects and bindings.      *)
(***************************************************************************)
EXTENDS EffectFence, TLAPS

\* Every fence row keeps its type (effect_fence.py, the effects table).
THEOREM FenceTypeCorrect == Spec => []TypeOK
<1>1. Init => TypeOK
  BY DEF Init, TypeOK, FenceState
<1>2. TypeOK /\ [Next]_fenceVars => TypeOK'
  <2> SUFFICES ASSUME TypeOK, [Next]_fenceVars PROVE TypeOK'
    OBVIOUS
  <2> USE DEF TypeOK, FenceState, EffectState
  <2>1. ASSUME NEW e \in Effects, NEW b \in Bindings, Reserve(e, b) PROVE TypeOK'
    BY <2>1 DEF Reserve
  <2>2. ASSUME NEW e \in Effects, ClaimDispatch(e) PROVE TypeOK'
    BY <2>2 DEF ClaimDispatch
  <2>3. ASSUME NEW e \in Effects, NEW known \in BOOLEAN, Settle(e, known) PROVE TypeOK'
    BY <2>3 DEF Settle, SettledState
  <2>4. ASSUME NEW e \in Effects, CancelBeforeDispatch(e) PROVE TypeOK'
    BY <2>4 DEF CancelBeforeDispatch
  <2>5. ASSUME NEW e \in Effects, NEW occ \in BOOLEAN, ReconcileUnknown(e, occ) PROVE TypeOK'
    BY <2>5 DEF ReconcileUnknown, ReconciledState
  <2>6. CASE UNCHANGED fenceVars
    BY <2>6 DEF fenceVars
  <2> QED
    BY <2>1, <2>2, <2>3, <2>4, <2>5, <2>6 DEF Next
<1> QED
  BY <1>1, <1>2, PTL DEF Spec

\* claim_dispatch grants at most one dispatch per effect identity.
THEOREM FenceSingleUse == Spec => []SingleUse
<1>1. Init => SingleUse
  BY DEF Init, SingleUse
<1>2. TypeOK /\ SingleUse /\ [Next]_fenceVars => SingleUse'
  <2> SUFFICES ASSUME TypeOK, SingleUse, [Next]_fenceVars PROVE SingleUse'
    OBVIOUS
  <2> USE DEF TypeOK, SingleUse
  <2>1. ASSUME NEW e \in Effects, NEW b \in Bindings, Reserve(e, b) PROVE SingleUse'
    BY <2>1 DEF Reserve
  <2>2. ASSUME NEW e \in Effects, ClaimDispatch(e) PROVE SingleUse'
    BY <2>2 DEF ClaimDispatch
  <2>3. ASSUME NEW e \in Effects, NEW known \in BOOLEAN, Settle(e, known) PROVE SingleUse'
    BY <2>3 DEF Settle, SettledState
  <2>4. ASSUME NEW e \in Effects, CancelBeforeDispatch(e) PROVE SingleUse'
    BY <2>4 DEF CancelBeforeDispatch
  <2>5. ASSUME NEW e \in Effects, NEW occ \in BOOLEAN, ReconcileUnknown(e, occ) PROVE SingleUse'
    BY <2>5 DEF ReconcileUnknown, ReconciledState, AmbiguousStates
  <2>6. CASE UNCHANGED fenceVars
    BY <2>6 DEF fenceVars
  <2> QED
    BY <2>1, <2>2, <2>3, <2>4, <2>5, <2>6 DEF Next
<1> QED
  BY <1>1, <1>2, FenceTypeCorrect, PTL DEF Spec

\* An ambiguous or terminal row never becomes claimable again, and a row keeps
\* the digests it was reserved with.
THEOREM FenceNoRetryAuthority == Spec => NoRetryAuthority
<1> DEFINE Kept ==
      \A e \in Effects :
          /\ fence[e] \in TerminalStates => fence'[e] = fence[e]
          /\ fence[e] \in AmbiguousStates =>
                 fence'[e] \in AmbiguousStates \cup TerminalStates
          /\ fence[e] # "ABSENT" => bound'[e] = bound[e]
<1>1. TypeOK /\ [Next]_fenceVars => [Kept]_fenceVars
  <2> SUFFICES ASSUME TypeOK, [Next]_fenceVars PROVE Kept
    OBVIOUS
  <2> USE DEF TypeOK, TerminalStates, EffectState, UnresolvedStates, AmbiguousStates
  <2>1. ASSUME NEW e \in Effects, NEW b \in Bindings, Reserve(e, b) PROVE Kept
    BY <2>1 DEF Reserve
  <2>2. ASSUME NEW e \in Effects, ClaimDispatch(e) PROVE Kept
    BY <2>2 DEF ClaimDispatch
  <2>3. ASSUME NEW e \in Effects, NEW known \in BOOLEAN, Settle(e, known) PROVE Kept
    BY <2>3 DEF Settle, SettledState
  <2>4. ASSUME NEW e \in Effects, CancelBeforeDispatch(e) PROVE Kept
    BY <2>4 DEF CancelBeforeDispatch
  <2>5. ASSUME NEW e \in Effects, NEW occ \in BOOLEAN, ReconcileUnknown(e, occ) PROVE Kept
    BY <2>5 DEF ReconcileUnknown, ReconciledState
  <2>6. CASE UNCHANGED fenceVars
    BY <2>6 DEF fenceVars
  <2> QED
    BY <2>1, <2>2, <2>3, <2>4, <2>5, <2>6 DEF Next
<1> QED
  BY <1>1, FenceTypeCorrect, PTL DEF Spec, NoRetryAuthority
=============================================================================
