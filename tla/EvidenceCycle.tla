--------------------------- MODULE EvidenceCycle ---------------------------
(***************************************************************************)
(* The provider-backed cycles of runtime_cohesion (executor.py, with the   *)
(* plan and the admission of runtime.py, audit.py and reconcile.py).       *)
(*                                                                         *)
(* execute_domain_cycle probes and reads what a domain needs, rounds of a  *)
(* fixed point: a domain behind hard prerequisites is touched only after   *)
(* they are resolved from evidence read earlier in the same cycle.         *)
(* execute_projection_cycle compares a source with its projection, which   *)
(* both move between its reads.  A provider may answer anything at every   *)
(* call; an item that fails a check of the executor raises out of the      *)
(* cycle.                                                                  *)
(***************************************************************************)
EXTENDS Naturals, Sequences, FiniteSets, SequencesExt

CONSTANTS
    Domains,         \* Domains[d]: [deps, privacy, targets] of the cohesion index
    HardDomains,     \* hard_prerequisite_domains
    Allowed,         \* privacy_allowlist
    MaxDepth, MaxDomains,   \* uncertainty_probe_budget
    AuthorityOf,     \* AuthorityOf[d]: its authority resolver
    Dispatches,      \* rows of resolver_dispatch: [id, resolver, scope, prop, rank]
    Decisive,        \* Decisive[id]: [all, any], where the registry has an entry
    AcceptedBy,      \* AcceptedBy[r]: accepted_evidence_classes of a resolver
    SemanticDomain,  \* SEMANTIC_CURRENTNESS_DOMAIN
    Connected,       \* routes whose provider has an adapter
    Asked,           \* domains a cycle is executed for
    EvidenceItems,   \* what a provider may return for a hard prerequisite
    Modes,           \* comparison modes of the registered projections
    MaxRevision      \* bound: revisions of the source of a projection

\* Lists are lists, and what is named as a domain is one or the plan raises.
ASSUME EvidenceAssumption ==
    /\ IsFiniteSet(DOMAIN Domains)
    /\ Asked \cup HardDomains \subseteq DOMAIN Domains
    /\ \A d \in DOMAIN Domains :
           /\ Domains[d].deps \in Seq(ToSet(Domains[d].deps))
           /\ Domains[d].targets \in Seq(ToSet(Domains[d].targets))
    /\ MaxDepth \in Nat /\ MaxDomains \in Nat \ {0} /\ MaxRevision \in Nat \ {0}

VARIABLES
    cyc,     \* the domain cycle
    prj,     \* the projection cycle
    outside    \* external: the source, and what is stored at the target

evVars == <<cyc, prj, outside>>

----------------------------------------------------------------------------
(* build_retrieval_plan                                                    *)

Names == DOMAIN Domains \cup UNION {ToSet(Domains[d].deps) : d \in DOMAIN Domains}

HardOf(d) == ToSet(Domains[d].deps) \cap HardDomains

Walks == [visited : Seq(DOMAIN Domains), visiting : SUBSET DOMAIN Domains, within : BOOLEAN,
          unresolved : SUBSET ({"BUDGET_EXHAUSTED", "UNKNOWN_DEPENDENCY"} \X Names)]

Exhaust(walk, d) ==
    [walk EXCEPT !.within = FALSE, !.unresolved = @ \cup {<<"BUDGET_EXHAUSTED", d>>}]

Full(walk) == Len(walk.visited) >= MaxDomains

\* One step after the other along a list of names.
Along(step, walk, names) ==
    LET run[i \in 0..Len(names)] == IF i = 0 THEN walk ELSE step[names[i]][run[i - 1]]
    IN  run[Len(names)]

\* A dependency of a domain, unless the walk has met it; `below` visits one
\* level deeper.
Deeper(below, walk, p) == IF Full(walk) THEN Exhaust(walk, p) ELSE below[p][walk]

HardDependency(below) ==
    [p \in Names |-> [walk \in Walks |->
        IF p \notin HardDomains \/ p \in ToSet(walk.visited) THEN walk
        ELSE Deeper(below, walk, p)]]

ContextualDependency(below) ==
    [p \in Names |-> [walk \in Walks |->
        IF p \in HardDomains \cup ToSet(walk.visited) \cup walk.visiting THEN walk
        ELSE Deeper(below, walk, p)]]

\* Hard prerequisites come before the domain, contextual dependencies after
\* it; a domain without a privacy class ends the walk below it.
VisitDomain(below, walk, d) ==
    LET deps == Domains[d].deps
        before == Along(HardDependency(below), [walk EXCEPT !.visiting = @ \cup {d}], deps)
        here == IF Full(before) THEN Exhaust(before, d)
                ELSE [before EXCEPT !.visited = Append(@, d)]
        after == IF Full(before) \/ Domains[d].privacy = "none" THEN here
                 ELSE Along(ContextualDependency(below), here, deps)
    IN  [after EXCEPT !.visiting = @ \ {d}]

Level(below) ==
    [d \in Names |-> [walk \in Walks |->
        IF d \in ToSet(walk.visited) \cup walk.visiting THEN walk
        ELSE IF Full(walk) THEN Exhaust(walk, d)
        ELSE IF d \notin DOMAIN Domains
             THEN [walk EXCEPT !.unresolved = @ \cup {<<"UNKNOWN_DEPENDENCY", d>>}]
        ELSE VisitDomain(below, walk, d)]]

\* Deeper than the budget allows.
Beyond == [d \in Names |-> [walk \in Walks |-> Exhaust(walk, d)]]

\* The visit of a domain with n levels left, itself included.
Visit[n \in 0..MaxDepth + 1] == IF n = 0 THEN Beyond ELSE Level(Visit[n - 1])

Unvisited == [visited |-> <<>>, visiting |-> {}, within |-> TRUE, unresolved |-> {}]

Walk(d) == Visit[MaxDepth + 1][d][Unvisited]

\* A prerequisite holds a domain back only when its evidence conflicts.
Unsatisfied_Conflict(d, gov) == {p \in HardOf(d) : gov[p] = "CONFLICT"}

Unsatisfied(d, gov) == {p \in HardOf(d) : gov[p] # "SATISFIED"}

Retrievable == {"CURRENTLY_OBSERVED_REACHABLE", "RESULT"}

Open(d, gov) == Domains[d].privacy \in Allowed /\ Unsatisfied(d, gov) = {}

\* The targets of the domains the walk may touch, with their place in it.
Places(walk, gov) ==
    UNION {{[dom |-> walk.visited[i], at |-> Domains[walk.visited[i]].targets[j], pos |-> <<i, j>>] :
                j \in DOMAIN Domains[walk.visited[i]].targets} :
            i \in {n \in DOMAIN walk.visited : Open(walk.visited[n], gov)}}

Earlier(k, l) == k.pos[1] < l.pos[1] \/ (k.pos[1] = l.pos[1] /\ k.pos[2] < l.pos[2])

\* The one that comes first in the order of the walk.
Foremost(keys) == CHOOSE k \in keys : \A l \in keys : ~Earlier(l, k)

\* Each source and route once.
Candidates(walk, gov) ==
    {k \in Places(walk, gov) : \A l \in Places(walk, gov) : l.at = k.at => ~Earlier(l, k)}

Targets(walk, gov, routes) ==
    {k \in Candidates(walk, gov) : routes[k.at.route] \in Retrievable}

\* What the plan reports as unresolved.
Unresolved(walk, gov, routes) ==
    LET seen == ToSet(walk.visited)
        eligible == {d \in seen : Domains[d].privacy \in Allowed}
    IN  walk.unresolved
        \cup {<<"PRIVACY", d>> : d \in seen \ eligible}
        \cup {<<"ROUTE_NOT_CURRENTLY_OBSERVED_REACHABLE", k.dom, k.at.route>> :
                  k \in Candidates(walk, gov) \ Targets(walk, gov, routes)}
        \cup UNION {{<<"HARD_PREREQUISITE_UNRESOLVED", d, p>> : p \in Unsatisfied(d, gov)} :
                        d \in eligible}

----------------------------------------------------------------------------
(* Governing resolution                                                    *)

Specificity(row, d) == 2 * row.rank + IF row.scope = d THEN 1 ELSE 0
Best(rows, d) ==
    {r \in rows : \A q \in rows : Specificity(q, d) <= Specificity(r, d)}

NoDispatch == [id |-> 0, resolver |-> "none", prop |-> "none"]

\* _expected_governing_dispatch: by the authority resolver of the domain.
ExpectedDispatch(d) ==
    LET best == Best({r \in Dispatches : r.resolver = AuthorityOf[d] /\ r.scope \in {"*", d}}, d)
    IN  IF Cardinality(best) = 1 THEN CHOOSE r \in best : TRUE ELSE NoDispatch

\* A coherent proof of the verifier that was installed first is registered.
ValidatedSemanticOrigin_Unrooted(item) == item.coherent

\* validated_semantic_origin: nothing registers an origin, however coherent
\* the proof of an in-process verifier is.
ValidatedSemanticOrigin(item) == FALSE

SemanticDecisive == {"control_source", "live_observation"}

\* The rule of a dispatch: every class of one list and some class of the other.
Enough(need, observed) ==
    need.all \subseteq observed /\ (need.any = {} \/ need.any \cap observed # {})

\* evaluate_abstract_proposition_admission over bound, current items: by
\* proposition, and of the best rows the one with the smallest id.
AbstractAdmission(d, prop, items) ==
    LET best == Best({r \in Dispatches : r.prop = prop /\ r.scope \in {"*", d}}, d)
        row == CHOOSE r \in best : \A q \in best : r.id <= q.id
        decided(status) == [status |-> status, id |-> row.id, resolver |-> row.resolver]
    IN  IF Cardinality({r.resolver : r \in best}) # 1
        THEN [status |-> "CONFLICT", id |-> 0, resolver |-> "none"]
        ELSE IF row.id \notin DOMAIN Decisive THEN decided("UNRESOLVED")
        ELSE LET need == Decisive[row.id]
             IN  decided(IF ~(need.all \cup need.any \subseteq AcceptedBy[row.resolver])
                         THEN "CONFLICT"
                         ELSE IF Enough(need, {i.class : i \in items})
                              THEN "ADMITTED" ELSE "UNRESOLVED")

\* _semantic_currentness_relational_decision: both decisive classes, whatever
\* the rule of the dispatch demands.  What they say of each other is never
\* compared, as no item with an origin gets here.
Relational(decision, items) ==
    IF decision.status = "ADMITTED" /\ ~(SemanticDecisive \subseteq {i.class : i \in items})
    THEN [decision EXCEPT !.status = "UNRESOLVED"] ELSE decision

\* evaluate_proposition_admission: decisive evidence of semantic currentness
\* needs a validated origin first; without one the answer is unresolved, under
\* the name of the dispatch of semantic currentness, which is the expected one.
Admission(d, prop, items) ==
    LET decision == AbstractAdmission(d, prop, items)
    IN  IF d # SemanticDomain THEN decision
        ELSE IF \E i \in items : i.class \in SemanticDecisive /\ ~ValidatedSemanticOrigin(i)
        THEN [status |-> "UNRESOLVED", id |-> ExpectedDispatch(d).id,
              resolver |-> ExpectedDispatch(d).resolver]
        ELSE Relational(decision, items)

\* Conflicting evidence is set aside once current evidence is there.
Resolution_Current(d, obs) ==
    LET expected == ExpectedDispatch(d)
        current == {i \in obs : i.dom = d /\ i.bound /\ i.current /\ i.conflict = "NONE"}
        decision == Admission(d, expected.prop, current)
    IN  IF expected = NoDispatch \/ current = {} THEN "UNRESOLVED"
        ELSE IF decision.status = "ADMITTED" THEN "SATISFIED" ELSE decision.status

\* _derive_governing_resolution over everything observed so far.
Resolution(d, obs) ==
    LET expected == ExpectedDispatch(d)
        bound == {i \in obs : i.dom = d /\ i.bound}
        current == {i \in bound : i.current /\ i.conflict = "NONE"}
        decision == Admission(d, expected.prop, current)
    IN  IF expected = NoDispatch \/ bound = {} THEN "UNRESOLVED"
        ELSE IF \E i \in bound : i.conflict = "CONFLICT" THEN "CONFLICT"
        ELSE IF current = {} THEN "UNRESOLVED"
        ELSE IF decision.id # expected.id \/ decision.resolver # expected.resolver
        THEN "CONFLICT"
        ELSE IF decision.status = "ADMITTED" THEN "SATISFIED" ELSE decision.status

Resolutions(obs) == [d \in HardDomains |-> Resolution(d, obs)]

----------------------------------------------------------------------------
(* execute_domain_cycle                                                    *)

\* The lower of the two limits.
MaxRounds_Lower == 2

\* max(2, 2 * number of domains + 2)
MaxRounds == 2 * Cardinality(DOMAIN Domains) + 2

Routes == UNION {{t.route : t \in ToSet(Domains[d].targets)} : d \in DOMAIN Domains}

\* A round starts with a plan from what is resolved so far.
Round(c) ==
    [c EXCEPT !.round = @ + 1, !.changed = FALSE, !.step = "probe",
              !.basis = Cardinality(c.obs),
              !.todo = Candidates(Walk(c.ask), c.gov) \ c.probed]

CycleStart(d) ==
    /\ cyc.step = "idle"
    /\ cyc' = Round([cyc EXCEPT !.ask = d, !.step = "probe", !.gov = Resolutions({})])
    /\ UNCHANGED <<prj, outside>>

Raise == cyc' = [cyc EXCEPT !.step = "done", !.outcome = "RAISED"]

\* One candidate is probed; the answer stands for its route.
CycleProbe ==
    /\ cyc.step = "probe" /\ cyc.todo # {}
    /\ LET k == Foremost(cyc.todo)
           asked == [cyc EXCEPT !.todo = @ \ {k}, !.probed = @ \cup {k}, !.changed = TRUE,
                                !.log = @ \cup {[dom |-> k.dom, after |-> cyc.basis]}]
       IN  IF k.at.route \notin Connected
           THEN cyc' = [asked EXCEPT !.log = cyc.log,
                            !.unresolved = @ \cup {<<"MISSING_ADAPTER", k.at.route>>}]
           ELSE \/ \E state \in {"RESULT", "UNAVAILABLE"} :
                       cyc' = [asked EXCEPT !.routes[k.at.route] = state]
                \/ Raise   \* _validate_probe: the answer names another provider or route
    /\ UNCHANGED <<prj, outside>>

CyclePlanReads ==
    /\ cyc.step = "probe" /\ cyc.todo = {}
    /\ cyc' = [cyc EXCEPT !.step = "read",
                 !.todo = Targets(Walk(cyc.ask), cyc.gov, cyc.routes) \ cyc.read]
    /\ UNCHANGED <<prj, outside>>

\* What a read returns: of a domain that governs nothing only its being there
\* matters.
Returned(d) == IF d \in HardDomains THEN EvidenceItems ELSE {CHOOSE i \in EvidenceItems : TRUE}

\* One target is read.  An item of the wrong type, class, privacy, route or
\* referent raises.
CycleRead ==
    /\ cyc.step = "read" /\ cyc.todo # {}
    /\ LET k == Foremost(cyc.todo)
           asked == [cyc EXCEPT !.todo = @ \ {k}, !.read = @ \cup {k}, !.changed = TRUE,
                                !.log = @ \cup {[dom |-> k.dom, after |-> cyc.basis]}]
       IN  \/ \E i \in Returned(k.dom) :
                 cyc' = [asked EXCEPT !.obs = @ \cup
                           {[dom |-> k.dom, at |-> k.at, class |-> i.class, bound |-> i.bound,
                             current |-> i.current, conflict |-> i.conflict,
                             coherent |-> i.coherent, nth |-> Cardinality(cyc.obs) + 1]}]
           \/ cyc' = [asked EXCEPT !.unresolved = @ \cup {<<"ABSENT_ITEM", k.dom, k.at>>}]
           \/ Raise
    /\ UNCHANGED <<prj, outside>>

\* The result once the rounds are over.
Concluded(c) ==
    LET walk == Walk(c.ask)
        unresolved == c.unresolved \cup Unresolved(walk, c.gov, c.routes)
    IN  [c EXCEPT !.step = "done", !.unresolved = unresolved,
            !.outcome = IF c.obs = {} THEN "UNRESOLVED"
                        ELSE IF unresolved = {} /\ walk.within THEN "EXECUTED"
                        ELSE "EXECUTED_WITH_UNRESOLVED"]

\* The round ends with new resolutions: nothing changed, or another round, or
\* the rounds are used up.
CycleRoundEnd ==
    /\ cyc.step = "read" /\ cyc.todo = {}
    /\ LET gov == Resolutions(cyc.obs)
           next == [cyc EXCEPT !.gov = gov]
       IN  cyc' = IF ~cyc.changed /\ gov = cyc.gov THEN Concluded(next)
                  ELSE IF cyc.round = MaxRounds
                  THEN Concluded([next EXCEPT !.unresolved = @ \cup {<<"FIXED_POINT_EXHAUSTED">>}])
                  ELSE Round(next)
    /\ UNCHANGED <<prj, outside>>

----------------------------------------------------------------------------
(* Reconciliation of a projection                                          *)

\* A digest by what it digests: <<>> none given, <<0>> something else, <<r>>
\* revision r.  Of a receipt it is the source digest its binding names.
\* `of` is the event of the object, `event` the one its metadata names.
NoItem == [rev |-> 0, of |-> "this", event |-> "none", digest |-> <<>>, conflict |-> "NONE",
           marked |-> FALSE, read |-> FALSE]

\* validated_item_type: the verifier (external, and honest) proves the object to
\* be of the event that was asked for, or the read raises.
Typed(item) == item.of = "this"

\* _event_binding_issue: the metadata name the event that was asked for.
BindingIssue(item) ==
    CASE item.event = "none" -> "UNRESOLVED"
      [] item.event = "other" -> "CONFLICT"
      [] OTHER -> "none"

Conflicted(s, t) ==
    IF "CONFLICT" \in {s.conflict, t.conflict} THEN "CONFLICT"
    ELSE IF "UNKNOWN" \in {s.conflict, t.conflict} THEN "UNRESOLVED" ELSE "none"

\* Only the revisions are compared.
ReconcileExact_Revision(s, t) ==
    IF s.rev = t.rev THEN "VERIFIED_EXACT" ELSE "STALE_PROJECTION"

\* reconcile_exact with the source as the anchor: content first, if both tell
\* it, revisions afterwards; a mismatch is stale only if the target says it is
\* one.
ReconcileExact(s, t) ==
    IF Conflicted(s, t) # "none" THEN Conflicted(s, t)
    ELSE IF s.digest # <<>> /\ t.digest \notin {<<>>, s.digest} THEN "CONFLICT"
    ELSE IF s.rev = t.rev THEN "VERIFIED_EXACT"
    ELSE IF t.marked THEN "STALE_PROJECTION" ELSE "CONFLICT"

\* reconcile_exact_receipt: the target is a receipt for the source object, with
\* the source revision and digest it was issued for.
ReconcileReceipt(s, t) ==
    IF Conflicted(s, t) # "none" THEN Conflicted(s, t)
    ELSE IF s.digest = <<>> \/ t.digest = <<>> \/ ~t.marked THEN "UNRESOLVED"
    ELSE IF t.event # "this" THEN "CONFLICT"
    ELSE IF t.rev # s.rev THEN "STALE_PROJECTION"
    ELSE IF t.digest # s.digest THEN "CONFLICT" ELSE "VERIFIED_EXACT"

\* SEMANTIC_COMPANION: the target exposes the source revision it is bound to.
ReconcileCompanion(s, t) ==
    IF ~t.marked THEN "UNRESOLVED"
    ELSE IF t.rev = s.rev THEN "VERIFIED_EXACT" ELSE "STALE_PROJECTION"

\* Both items look as if they were read for the event.
Qualified_Metadata(s, t, event) == s.event = event /\ t.event = event

\* _qualification_gate: both are the objects a read validated for this event.
Qualified(s, t, event) == s.read /\ t.read /\ event = "this"

\* audit_registered_projections
Audit(mode, s, t, event) ==
    IF s = NoItem \/ t = NoItem THEN "ABSENT"
    ELSE LET verdict == CASE mode = "EXACT_REVISION" -> ReconcileExact(s, t)
                          [] mode = "EXACT_RECEIPT" -> ReconcileReceipt(s, t)
                          [] mode = "SEMANTIC_COMPANION" -> ReconcileCompanion(s, t)
                          [] OTHER -> "UNRESOLVED"
         IN  IF verdict = "VERIFIED_EXACT" /\ ~Qualified(s, t, event)
             THEN "UNRESOLVED" ELSE verdict

----------------------------------------------------------------------------
(* execute_projection_cycle                                                *)

PrjResult(status) == [prj EXCEPT !.step = "done", !.status = status]

\* Scope and privacy are decided before any provider is asked.
PrjStart(mode) ==
    /\ prj.step = "idle"
    /\ prj' \in {PrjResult("NOT_APPLICABLE"), PrjResult("UNRESOLVED"),
                 [prj EXCEPT !.step = "source probe", !.mode = mode]}
    /\ UNCHANGED <<cyc, outside>>

\* A missing adapter and a route that is not observed reachable end the cycle.
PrjProbe(here, next) ==
    /\ prj.step = here
    /\ prj' \in {PrjResult("UNRESOLVED"), PrjResult("UNAVAILABLE"), [prj EXCEPT !.step = next]}
    /\ UNCHANGED <<cyc, outside>>

PrjProbeSource == PrjProbe("source probe", "source read")
PrjProbeTarget == PrjProbe("target probe", "target read")

ConflictStates == {"NONE", "UNKNOWN", "CONFLICT"}

\* The source as it is now; the provider may answer with an object of another
\* event, without the right name for it, in conflict, or not say what the
\* content is.
PrjReadSource ==
    /\ prj.step = "source read"
    /\ \/ prj' = PrjResult("ABSENT")
       \/ prj' = PrjResult("RAISED")
       \/ \E event \in {"this", "other", "none"}, conflict \in ConflictStates,
             exposed \in BOOLEAN :
            LET s == [NoItem EXCEPT !.rev = outside.rev, !.event = event, !.conflict = conflict,
                         !.digest = IF exposed THEN <<outside.rev>> ELSE <<>>, !.read = TRUE]
            IN  prj' = IF BindingIssue(s) # "none"
                       THEN [PrjResult(BindingIssue(s)) EXCEPT !.source = s]
                       ELSE [prj EXCEPT !.step = "target probe", !.source = s]
    /\ UNCHANGED <<cyc, outside>>

\* What is stored at the target now, reconciled with the source read before.
PrjReadTarget ==
    /\ prj.step = "target read"
    /\ \E t \in {NoItem} \cup {[i EXCEPT !.read = TRUE] : i \in outside.stored} :
         prj' = IF ~Typed(t) THEN PrjResult("RAISED")
                ELSE IF t # NoItem /\ BindingIssue(t) # "none"
                THEN [PrjResult(BindingIssue(t)) EXCEPT !.target = t]
                ELSE [PrjResult(Audit(prj.mode, prj.source, t, "this")) EXCEPT !.target = t]
    /\ UNCHANGED <<cyc, outside>>

\* A caller audits items it holds: those of a finished cycle under this or
\* another event, or copies it shaped itself.
AuditSupplied ==
    /\ prj.step = "done" /\ prj.supplied = "none"
    /\ \E event \in {"this", "other"}, copied \in BOOLEAN :
         LET held(i) == IF copied THEN [i EXCEPT !.read = FALSE, !.event = event] ELSE i
             s == IF prj.source = NoItem THEN NoItem ELSE held(prj.source)
             t == IF prj.target = NoItem THEN NoItem ELSE held(prj.target)
         IN  prj' = [prj EXCEPT !.supplied = Audit(prj.mode, s, t, event),
                                !.own = ~copied /\ event = "this"]
    /\ UNCHANGED <<cyc, outside>>

\* External: the source moves on.
SourceAdvances ==
    /\ prj.step \in {"source read", "target probe"} /\ outside.rev < MaxRevision
    /\ outside' = [outside EXCEPT !.rev = @ + 1]
    /\ UNCHANGED <<cyc, prj>>

\* External: a projection of some revision arrives at the target, late, damaged,
\* without a digest, in conflict or for another event.  Only what is there at
\* the read matters, so it arrives just before.
TargetStored ==
    /\ prj.step = "target read" /\ outside.stored = {}
    /\ \E r \in 1..outside.rev, of \in {"this", "other"}, event \in {"this", "other", "none"},
          conflict \in ConflictStates, marked \in BOOLEAN :
       \E digest \in {<<>>, <<0>>, <<r>>} :
         outside' = [outside EXCEPT !.stored =
             {[NoItem EXCEPT !.rev = r, !.of = of, !.event = event, !.conflict = conflict,
                             !.marked = marked, !.digest = digest]}]
    /\ UNCHANGED <<cyc, prj>>

----------------------------------------------------------------------------
EvInit ==
    /\ cyc = [step |-> "idle", ask |-> "none", round |-> 0, basis |-> 0, todo |-> {},
              changed |-> FALSE, gov |-> [d \in HardDomains |-> "UNRESOLVED"],
              routes |-> [r \in Routes |-> "UNOBSERVED"], probed |-> {}, read |-> {},
              obs |-> {}, unresolved |-> {}, log |-> {}, outcome |-> "none"]
    /\ prj = [step |-> "idle", mode |-> "none", source |-> NoItem, target |-> NoItem,
              status |-> "none", supplied |-> "none", own |-> FALSE]
    /\ outside = [rev |-> 1, stored |-> {}]

\* The two cycles share nothing, so a behaviour runs one of them.
EvNext ==
    \/ /\ prj.step = "idle"
       /\ \/ \E d \in Asked : CycleStart(d)
          \/ CycleProbe \/ CyclePlanReads \/ CycleRead \/ CycleRoundEnd
    \/ /\ cyc.step = "idle"
       /\ \/ \E m \in Modes : PrjStart(m)
          \/ PrjProbeSource \/ PrjReadSource \/ PrjProbeTarget \/ PrjReadTarget
          \/ AuditSupplied \/ SourceAdvances \/ TargetStored

EvSpec == EvInit /\ [][EvNext]_evVars

----------------------------------------------------------------------------
EvTypeOK ==
    /\ cyc.step \in {"idle", "probe", "read", "done"} /\ cyc.ask \in Asked \cup {"none"}
    /\ cyc.round \in 0..MaxRounds
    /\ cyc.gov \in [HardDomains -> {"SATISFIED", "UNRESOLVED", "CONFLICT"}]
    /\ \A r \in Routes : cyc.routes[r] \in Retrievable \cup {"UNAVAILABLE", "UNOBSERVED"}
    /\ cyc.outcome \in {"none", "RAISED", "UNRESOLVED", "EXECUTED", "EXECUTED_WITH_UNRESOLVED"}
    /\ prj.step \in {"idle", "source probe", "source read", "target probe", "target read", "done"}
    /\ {prj.status, prj.supplied} \subseteq
           {"none", "VERIFIED_EXACT", "STALE_PROJECTION", "CONFLICT", "ABSENT", "UNAVAILABLE",
            "UNRESOLVED", "NOT_APPLICABLE", "RAISED"}
    /\ outside.rev \in 1..MaxRevision /\ Cardinality(outside.stored) <= 1

\* Evidence that settles a prerequisite: bound to it, current, and nothing
\* bound to it conflicts.
Settled(p, obs) ==
    /\ p # SemanticDomain
    /\ \E i \in obs : i.dom = p /\ i.bound /\ i.current /\ i.conflict = "NONE"
    /\ \A i \in obs : i.dom = p /\ i.bound => i.conflict # "CONFLICT"

\* A provider is asked for a domain only after evidence of earlier rounds has
\* settled all its hard prerequisites; an unrooted proof of currentness never
\* does.
ReleasedByEvidence ==
    \A io \in cyc.log : \A p \in HardOf(io.dom) :
        Settled(p, {i \in cyc.obs : i.nth <= io.after})

\* Some target is read for this domain alone.
OwnTarget(d) ==
    \E t \in ToSet(Domains[d].targets) :
        \A e \in DOMAIN Domains \ {d} : t \notin ToSet(Domains[e].targets)

\* EXECUTED covers all that was read, the late reads too: nothing conflicts or
\* is missing at the end, and the domain asked for was reached, if it has a
\* target that is not read for another one.
ExecutedComplete ==
    cyc.outcome = "EXECUTED" =>
        /\ OwnTarget(cyc.ask) => cyc.ask \in {i.dom : i \in cyc.obs}
        /\ \A i \in cyc.obs : \A p \in HardOf(i.dom) : Settled(p, cyc.obs)
        /\ \A k \in cyc.probed : cyc.routes[k.at.route] = "RESULT"
        /\ \A k \in cyc.read : \E i \in cyc.obs : i.dom = k.dom /\ i.at = k.at

\* The rounds always suffice for the fixed point.
FixedPointReached == <<"FIXED_POINT_EXHAUSTED">> \notin cyc.unresolved

\* A verified projection was, at its own read, of this event and of the
\* revision read from the source before.  Where contents are compared, neither
\* side was in conflict and no two digests disagree; a receipt names the
\* content of that revision.  An exact revision is verified without equal
\* content when the source or the target gives no digest (reconcile_exact).
\* A caller's audit verifies only the very objects such a cycle read, and only
\* for its event.
ProjectionVerified ==
    /\ prj.status = "VERIFIED_EXACT" =>
         /\ prj.target.of = "this" /\ prj.target.rev = prj.source.rev
         /\ prj.mode # "SEMANTIC_COMPANION" =>
              /\ prj.source.conflict = "NONE" /\ prj.target.conflict = "NONE"
              /\ \/ prj.source.digest = <<>> \/ prj.target.digest = <<>>
                 \/ prj.target.digest = <<prj.source.rev>>
         /\ prj.mode = "EXACT_RECEIPT" => prj.target.digest = <<prj.source.rev>>
    /\ prj.supplied = "VERIFIED_EXACT" => prj.own /\ prj.target.of = "this" /\ prj.target.rev = prj.source.rev

(***************************************************************************)
(* "Dependent provider I/O is released only from that internally derived   *)
(* resolution" (execute_domain_cycle), "Matching revisions for a different *)
(* event never qualify as VERIFIED_EXACT" (execute_projection_cycle) and   *)
(* "Supplied-observation audit cannot mint VERIFIED_EXACT"                 *)
(* (_qualification_gate), whatever the providers answer at every call.     *)
(***************************************************************************)
RetrievalGoverned ==
    ReleasedByEvidence /\ ExecutedComplete /\ FixedPointReached /\ ProjectionVerified
=============================================================================
