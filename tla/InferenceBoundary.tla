-------------------------- MODULE InferenceBoundary --------------------------
(***************************************************************************)
(* The provider-neutral inference boundary of runtime_cohesion, as the     *)
(* package exports it (inference_boundary_repaired, which keeps the        *)
(* frontier of inference_boundary and binds it to the admission result).   *)
(* State components are composed, admitted for one egress scope, bound to  *)
(* one host capability and projected; the InvocationFrontier then takes a  *)
(* generation from reservation through submission to a bound response.     *)
(* Host threads share the frontier and may stall at any point: another one *)
(* may declare the outcome unknown and retry while the first still sends.  *)
(*                                                                         *)
(* The frontier performs no provider I/O: it records what the host tells   *)
(* it, with any text for evidence.  unfounded is a history variable that   *)
(* remembers of which generations the host said what the provider had not. *)
(*                                                                         *)
(* A digest is modelled by what it digests.  The provider is external: it  *)
(* runs a request at most once per idempotency key, once per delivery when *)
(* there is none, and its refusal of a generation is final.                *)
(***************************************************************************)
EXTENDS Naturals, FiniteSets

CONSTANTS
  Components,     \* [id, mandatory, scopes, domain]: the state components
  Scopes,         \* egress scopes
  ForbiddenDomains,   \* domains no projection may carry
  Generations,    \* generation identifiers
  HostThreads,    \* threads sharing the frontier
  MaxAdmissions,  \* bound on the states admitted
  MaxMoves,       \* bound on changes of the sources
  MaxRetries      \* bound on transport retries of a generation

ASSUME InferenceAssumption == MaxRetries \in Nat

VARIABLES
  sourceMoves,  \* how often the sources have changed
  admissions,   \* states admitted so far
  capabilities, \* capability bindings made so far
  projections,  \* projections made so far
  ledger,       \* the frontier's records, by generation
  disk,         \* what persist_transition wrote for each generation
  sending,      \* the generation a thread is handing to the provider
  provider,     \* what the provider knows of a generation
  executions,   \* history: how often the provider ran a generation
  unfounded     \* history: generations recorded on evidence the provider never gave

invVars == <<sourceMoves, admissions, capabilities, projections, ledger, disk, sending,
             provider, executions, unfounded>>
bindVars == <<sourceMoves, admissions, capabilities, projections>>
callVars == <<sending, provider, executions, unfounded>>

(***************************************************************************)
(* Composition, admission, capability and projection                       *)
(***************************************************************************)
Mandatory(components) == {c \in components : c.mandatory}

\* compose_state and bind_admitted_state: every component its source declares
\* mandatory is admitted, and each admitted one allows the scope.  What the
\* caller adds to the mandatory ones only narrows the choice.
Admits(composed, chosen, scope) ==
  /\ Mandatory(composed) \subseteq chosen
  /\ \A c \in chosen : scope \in c.scopes

AdmitState ==
  /\ Cardinality(admissions) < MaxAdmissions
  /\ \E chosen \in SUBSET Components, scope \in Scopes :
       /\ Admits(Components, chosen, scope)
       /\ admissions' = admissions \cup {[chosen |-> chosen, scope |-> scope, seen |-> sourceMoves]}
  /\ UNCHANGED <<sourceMoves, capabilities, projections, ledger, disk, callVars>>

\* bind_capability: the target is the scope that was admitted.
BindCapability ==
  /\ \E a \in admissions, scope \in Scopes :
       /\ scope = a.scope
       /\ capabilities' = capabilities \cup {[admitted |-> a, scope |-> scope]}
  /\ UNCHANGED <<sourceMoves, admissions, projections, ledger, disk, callVars>>

\* The firewall looks at the scopes of a component and not at its domain.
Projectable_AnyDomain(a, c) ==
  c.admitted = a /\ \A x \in a.chosen : c.scope \in x.scopes

Projectable(a, c) ==
  /\ c.scope = a.scope /\ c.admitted = a
  /\ \A x \in a.chosen : x.domain \notin ForbiddenDomains /\ c.scope \in x.scopes

ProjectContext ==
  /\ \E a \in admissions, c \in capabilities :
       /\ Projectable(a, c)
       /\ projections' = projections \cup {[admitted |-> a, capability |-> c, material |-> a.chosen]}
  /\ UNCHANGED <<sourceMoves, admissions, capabilities, ledger, disk, callVars>>

SourcesMove ==
  /\ sourceMoves < MaxMoves
  /\ sourceMoves' = sourceMoves + 1
  /\ UNCHANGED <<admissions, capabilities, projections, ledger, disk, callVars>>

(***************************************************************************)
(* The frontier                                                            *)
(***************************************************************************)
Reserved == DOMAIN ledger
With(f, g, record) == [x \in DOMAIN f \cup {g} |-> IF x = g THEN record ELSE f[x]]

\* The record is stored first and persisted afterwards.
Persisted_After(g, record) ==
  /\ ledger' = With(ledger, g, record)
  /\ disk' \in {disk, With(disk, g, record.state)}

\* _persist_then_store: the callback may raise before or after it wrote, and
\* then the record in memory stays as it was.
Persisted(g, record) ==
  \/ /\ disk' = With(disk, g, record.state)
     /\ ledger' = With(ledger, g, record)
  \/ /\ disk' = With(disk, g, record.state)
     /\ ledger' = ledger

\* A retry is granted as soon as the earlier generation is not in progress.
Retryable_Unknown(prior) ==
  prior \in Reserved /\ ledger[prior].state \in {"FAILED", "OUTCOME_UNKNOWN"}

\* A semantic retry needs a proved terminal failure of the generation it
\* retries.
Retryable(prior) == prior \in Reserved /\ ledger[prior].state = "FAILED"

\* reserve: the triple is bound together, the generation is new and the
\* sources are revalidated under the lock.
ReserveGeneration(g) ==
  \E p \in projections, prior \in SUBSET (Generations \ {g}) :
    /\ p.capability.admitted = p.admitted
    /\ g \notin Reserved
    /\ Cardinality(prior) <= 1 /\ \A q \in prior : Retryable(q)
    /\ p.admitted.seen = sourceMoves
    /\ Persisted(g, [state |-> "RESERVED", projection |-> p, key |-> FALSE,
                     retryOf |-> prior, retries |-> 0])
    /\ UNCHANGED <<bindVars, callVars>>

Moved(g, from, to) ==
  /\ g \in Reserved /\ ledger[g].state \in from
  /\ Persisted(g, [ledger[g] EXCEPT !.state = to])
  /\ UNCHANGED bindVars

Stored(g) == ledger' # ledger

\* submission_intent by a thread, with or without an idempotency key; the
\* thread sends when the call returned.
SubmissionIntent(t, g) ==
  /\ sending[t] = {}
  /\ g \in Reserved /\ ledger[g].state = "RESERVED"
  /\ \E key \in BOOLEAN :
       Persisted(g, [ledger[g] EXCEPT !.state = "SUBMISSION_INTENT", !.key = key])
  /\ sending' = [sending EXCEPT ![t] = IF Stored(g) THEN {g} ELSE {}]
  /\ UNCHANGED <<bindVars, provider, executions, unfounded>>

\* The request reaches the provider, which runs or refuses it, or it is lost.
Deliver(t, g) ==
  /\ g \in sending[t]
  /\ sending' = [sending EXCEPT ![t] = {}]
  /\ \/ /\ (provider[g] = "ran" /\ ledger[g].key) \/ provider[g] = "refused"
        /\ UNCHANGED <<provider, executions>>
     \/ /\ provider[g] = "unseen" \/ (provider[g] = "ran" /\ ~ledger[g].key)
        /\ provider' = [provider EXCEPT ![g] = "ran"]
        /\ executions' = [executions EXCEPT ![g] = @ + 1]
     \/ /\ provider[g] = "unseen"
        /\ provider' = [provider EXCEPT ![g] = "refused"]
        /\ UNCHANGED executions
     \/ UNCHANGED <<provider, executions>>
  /\ UNCHANGED <<bindVars, ledger, disk, unfounded>>

\* The host says that the provider answered, whatever it saw.
Said(g, founded) ==
  /\ unfounded' = IF founded THEN unfounded ELSE unfounded \cup {g}
  /\ UNCHANGED <<sending, provider, executions>>

MarkSubmitted(g) ==
  Moved(g, {"SUBMISSION_INTENT"}, "SUBMITTED") /\ Said(g, provider[g] = "ran")

Acknowledge(g) ==
  Moved(g, {"SUBMITTED"}, "ACKNOWLEDGED") /\ Said(g, provider[g] = "ran")

BindResponse(g) ==
  Moved(g, {"ACKNOWLEDGED"}, "RESPONSE_BOUND") /\ Said(g, provider[g] = "ran")

\* A thread that sees no answer declares the outcome unknown.
RecoverAmbiguous(g) ==
  /\ Moved(g, {"SUBMISSION_INTENT"}, "OUTCOME_UNKNOWN")
  /\ UNCHANGED callVars

\* mark_failed: not from an unknown outcome, and no terminal state is
\* overwritten.  It is founded on the provider's refusal, or on a record that
\* no thread was let send.
MarkFailed(g) ==
  /\ Moved(g, {"RESERVED", "SUBMISSION_INTENT", "SUBMITTED", "ACKNOWLEDGED"}, "FAILED")
  /\ Said(g, provider[g] = "refused" \/ ledger[g].state = "RESERVED")

\* A retry is authorized without an idempotency key.
TransportRetriable_AnyKey(g) ==
  g \in Reserved /\ ledger[g].state = "OUTCOME_UNKNOWN" /\ ledger[g].retries < MaxRetries

\* The same generation may be sent again only from an unknown outcome, under
\* the key it was first sent with and an idempotent provider contract.
TransportRetriable(g) ==
  /\ g \in Reserved /\ ledger[g].state = "OUTCOME_UNKNOWN"
  /\ ledger[g].key
  /\ ledger[g].retries < MaxRetries

AuthorizeTransportRetry(t, g) ==
  /\ sending[t] = {} /\ TransportRetriable(g)
  /\ Persisted(g, [ledger[g] EXCEPT !.state = "SUBMISSION_INTENT", !.retries = @ + 1])
  /\ sending' = [sending EXCEPT ![t] = IF Stored(g) THEN {g} ELSE {}]
  /\ UNCHANGED <<bindVars, provider, executions, unfounded>>

InvInit ==
  /\ sourceMoves = 0 /\ admissions = {} /\ capabilities = {} /\ projections = {}
  /\ ledger = [g \in {} |-> {}] /\ disk = [g \in {} |-> {}]
  /\ sending = [t \in HostThreads |-> {}]
  /\ provider = [g \in Generations |-> "unseen"]
  /\ executions = [g \in Generations |-> 0] /\ unfounded = {}

InvNext ==
  \/ AdmitState
  \/ BindCapability
  \/ ProjectContext
  \/ SourcesMove
  \/ \E g \in Generations :
       \/ ReserveGeneration(g)
       \/ MarkSubmitted(g)
       \/ Acknowledge(g)
       \/ BindResponse(g)
       \/ RecoverAmbiguous(g)
       \/ MarkFailed(g)
       \/ \E t \in HostThreads :
            \/ SubmissionIntent(t, g)
            \/ Deliver(t, g)
            \/ AuthorizeTransportRetry(t, g)

InvSpec == InvInit /\ [][InvNext]_invVars

(***************************************************************************)
(* Properties                                                              *)
(***************************************************************************)
LedgerStates ==
  {"RESERVED", "SUBMISSION_INTENT", "SUBMITTED", "ACKNOWLEDGED", "RESPONSE_BOUND",
   "OUTCOME_UNKNOWN", "FAILED"}

\* build_causal_receipt: what the receipt of a record in that state claims.
EvidenceLevel(state) ==
  CASE state = "SUBMITTED" -> "INVOCATION_SUBMITTED"
    [] state = "ACKNOWLEDGED" -> "PROVIDER_ACKNOWLEDGED"
    [] state = "RESPONSE_BOUND" -> "RESPONSE_BOUND"
    [] OTHER -> "REQUEST_CONSTRUCTED"

InvTypeOK ==
  /\ Reserved \subseteq Generations /\ DOMAIN disk \subseteq Generations
  /\ \A g \in Reserved : ledger[g].state \in LedgerStates /\ ledger[g].retries <= MaxRetries
  /\ \A g \in DOMAIN disk : disk[g] \in LedgerStates
  /\ sending \in [HostThreads -> SUBSET Generations]
  /\ provider \in [Generations -> {"unseen", "ran", "refused"}]
  /\ unfounded \subseteq Generations

\* A generation runs at the provider at most once, whatever threads stall,
\* declare its outcome unknown and retry it (authorize_transport_retry) and
\* whatever the host says of it.  Only a generation that is and stays FAILED
\* in the ledger is retried under a new identity (reserve): it never ran,
\* unless the host failed it without the provider's refusal.  What is sent or
\* ran was written ahead as more than a reservation, so that a restart finds
\* it (_persist_then_store).
InvocationOnce ==
  /\ \A g \in Generations : executions[g] <= 1
  /\ \A g \in Reserved : \A p \in ledger[g].retryOf :
       /\ p \in Reserved /\ ledger[p].state = "FAILED"
       /\ p \notin unfounded => executions[p] = 0
  /\ \A g \in Generations :
       executions[g] > 0 \/ (\E t \in HostThreads : g \in sending[t]) =>
          g \in DOMAIN disk /\ disk[g] # "RESERVED"

\* What a generation carries may leave for the scope it is sent to: the
\* admission, the capability and the projection it was reserved with belong
\* together, every component allows the scope, none of a forbidden domain is
\* in it and no mandatory one is missing (bind_admitted_state to reserve).
EgressKept ==
  \A g \in Reserved :
    LET p == ledger[g].projection
    IN  /\ \A c \in p.material : p.capability.scope \in c.scopes
                                 /\ c.domain \notin ForbiddenDomains
        /\ Mandatory(Components) \subseteq p.material

\* A causal receipt adds nothing to what the host was told: one that claims
\* more than a constructed request is of a generation that ran, and one of a
\* failed generation is of one that did not and never will, also after a
\* transport retry and while a thread still sends (build_causal_receipt).  A
\* host that said what the provider had not is not protected.
ReceiptsTruthful ==
  \A g \in Reserved \ unfounded :
    /\ EvidenceLevel(ledger[g].state) # "REQUEST_CONSTRUCTED" => executions[g] = 1
    /\ ledger[g].state = "FAILED" => executions[g] = 0

(***************************************************************************)
(* A generation runs once, carries only what may leave, and its receipts   *)
(* claim no more than the host was told (inference_boundary.py).           *)
(***************************************************************************)
InvocationSound == InvocationOnce /\ EgressKept /\ ReceiptsTruthful
=============================================================================
