---------------------------- MODULE EffectFence ----------------------------
(***************************************************************************)
(* The durable single-use effect fence of vera_assurance                   *)
(* (packages/vera_assurance/src/vera_assurance/effect_fence.py).           *)
(*                                                                         *)
(* One SQLite row per effect identity.  Every method of the class runs its *)
(* check and its update inside one BEGIN IMMEDIATE transaction, so every   *)
(* method is one action here, except claim_dispatch, which is a reserve    *)
(* transaction followed by a claim transaction: any caller may run between *)
(* the two.  A call that raises changes no row and is a stuttering step.   *)
(*                                                                         *)
(* This is the fence as any caller may drive it, in any order; the         *)
(* audit of the lifecycle gateway (module EffectGateway) is shown to       *)
(* record such a history.                                                  *)
(***************************************************************************)
EXTENDS Naturals

CONSTANTS Effects,     \* effect identities
          Bindings,    \* (request, permit, authority, currentness) digest cuts
          NoBinding    \* bound[e] while there is no row

ASSUME NoBindingAssumption == NoBinding \notin Bindings

VARIABLES fence,       \* fence[e]: the row's state, "ABSENT" before reserve
          bound,       \* bound[e]: the digests the row was reserved with
          granted      \* granted[e]: claims that returned a dispatch receipt

fenceVars == <<fence, bound, granted>>

EffectState == {"RESERVED", "EXECUTING", "COMMITTED", "ATTEMPTED_UNKNOWN",
                "RECONCILED_COMMITTED", "RECONCILED_NO_EFFECT",
                "CANCELLED_PRE_DISPATCH"}

FenceState == EffectState \cup {"ABSENT"}

UnresolvedStates == {"RESERVED", "EXECUTING", "ATTEMPTED_UNKNOWN"}

\* States reconcile_unknown accepts: dispatched, outcome not known to the fence.
AmbiguousStates == {"EXECUTING", "ATTEMPTED_UNKNOWN"}

TerminalStates == EffectState \ UnresolvedStates

ReconciledState(occurred) ==
    IF occurred THEN "RECONCILED_COMMITTED" ELSE "RECONCILED_NO_EFFECT"

\* Mutation: a raised execute() is settled under a state the schema does not know.
SettledState_Raw(known) == IF known THEN "COMMITTED" ELSE "UNKNOWN"

SettledState(known) == IF known THEN "COMMITTED" ELSE "ATTEMPTED_UNKNOWN"

Init ==
    /\ fence = [e \in Effects |-> "ABSENT"]
    /\ bound = [e \in Effects |-> NoBinding]
    /\ granted = [e \in Effects |-> 0]

\* reserve: insert the row.  The replay of an identical binding returns the
\* stored receipt whatever its state, another binding raises: both stutter.
Reserve(e, b) ==
    /\ fence[e] = "ABSENT"
    /\ fence' = [fence EXCEPT ![e] = "RESERVED"]
    /\ bound' = [bound EXCEPT ![e] = b]
    /\ UNCHANGED granted

\* Mutation: the claim does not look at the state of the row.
ClaimDispatch_AnyState(e) ==
    /\ fence[e] # "ABSENT"
    /\ fence' = [fence EXCEPT ![e] = "EXECUTING"]
    /\ granted' = [granted EXCEPT ![e] = @ + 1]
    /\ UNCHANGED bound

\* The second transaction of claim_dispatch: the single-use dispatch claim.
ClaimDispatch(e) ==
    /\ fence[e] = "RESERVED"
    /\ fence' = [fence EXCEPT ![e] = "EXECUTING"]
    /\ granted' = [granted EXCEPT ![e] = @ + 1]
    /\ UNCHANGED bound

Settle(e, known) ==
    /\ fence[e] = "EXECUTING"
    /\ fence' = [fence EXCEPT ![e] = SettledState(known)]
    /\ UNCHANGED <<bound, granted>>

CancelBeforeDispatch(e) ==
    /\ fence[e] = "RESERVED"
    /\ fence' = [fence EXCEPT ![e] = "CANCELLED_PRE_DISPATCH"]
    /\ UNCHANGED <<bound, granted>>

\* Mutation: a reconciliation that finds no effect hands the reservation back.
ReconcileUnknown_Retry(e, occurred) ==
    /\ fence[e] \in AmbiguousStates
    /\ fence' = [fence EXCEPT ![e] = IF occurred THEN "RECONCILED_COMMITTED" ELSE "RESERVED"]
    /\ UNCHANGED <<bound, granted>>

\* Mutation: only a settled ambiguity may be reconciled, not an EXECUTING row.
ReconcileUnknown_OnlyUnknown(e, occurred) ==
    /\ fence[e] = "ATTEMPTED_UNKNOWN"
    /\ fence' = [fence EXCEPT ![e] = ReconciledState(occurred)]
    /\ UNCHANGED <<bound, granted>>

ReconcileUnknown(e, occurred) ==
    /\ fence[e] \in AmbiguousStates
    /\ fence' = [fence EXCEPT ![e] = ReconciledState(occurred)]
    /\ UNCHANGED <<bound, granted>>

Next ==
    \E e \in Effects :
        \/ \E b \in Bindings : Reserve(e, b)
        \/ ClaimDispatch(e)
        \/ \E known \in BOOLEAN : Settle(e, known)
        \/ CancelBeforeDispatch(e)
        \/ \E occurred \in BOOLEAN : ReconcileUnknown(e, occurred)

Spec == Init /\ [][Next]_fenceVars

----------------------------------------------------------------------------
TypeOK ==
    /\ fence \in [Effects -> FenceState]
    /\ bound \in [Effects -> Bindings \cup {NoBinding}]
    /\ granted \in [Effects -> Nat]

(***************************************************************************)
(* claim_dispatch hands out at most one dispatch receipt for an effect     *)
(* identity, whatever callers do: "Durable single-use effect fence"        *)
(* (effect_fence.py, class docstring).  A row that was never claimed, or   *)
(* was cancelled, has handed out none.                                     *)
(***************************************************************************)
SingleUse ==
    \A e \in Effects :
        granted[e] = IF fence[e] \in {"ABSENT", "RESERVED", "CANCELLED_PRE_DISPATCH"}
                     THEN 0 ELSE 1

(***************************************************************************)
(* "Once dispatch is claimed, an ambiguous outcome cannot be converted     *)
(* into retry authority": no step takes a row out of a terminal state, back*)
(* to a claimable state, or rebinds it to other digests.                   *)
(***************************************************************************)
NoRetryAuthority ==
    [][\A e \in Effects :
          /\ fence[e] \in TerminalStates => fence'[e] = fence[e]
          /\ fence[e] \in AmbiguousStates =>
                 fence'[e] \in AmbiguousStates \cup TerminalStates
          /\ fence[e] # "ABSENT" => bound'[e] = bound[e]]_fenceVars
=============================================================================
