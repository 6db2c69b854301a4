---------------------------- MODULE Verification ----------------------------
(***************************************************************************)
(* Live verification of one task's closeout surfaces (vera_core): the seven*)
(* evidence stores (source_verification.py, installation_verification.py,  *)
(* route_verification.py, runtime_consumption.py,                          *)
(* behavior_effect_verification.py, behavior_attestation.py,               *)
(* independent_behavior_review.py), the adapters that fill and assess them,*)
(* and the qualified runtime's closeout that collects what they hold.      *)
(*                                                                         *)
(* A store is an append-only, digest-chained table; a receipt is known here*)
(* by its place in the log of its kind, which stands for its digest.  A    *)
(* verify() takes no lock: it reads the task, assesses what the evidence   *)
(* rests on, observes the world and appends, each in a step of its own.    *)
(* An assess() is one step: a store's latest receipt against the live      *)
(* world.  A closeout holds tasks.action_lock(), which no verify() takes,  *)
(* and assesses every kind twice: to decide, and to collect the receipts.  *)
(***************************************************************************)
EXTENDS Naturals, Sequences, FiniteSets

CONSTANTS
    Verifiers,       \* callers of verify_* and close_task
    Packets,         \* sets of kinds a task packet may require
    VerMaxReceipts,  \* bound: verify() calls that get past the first checks
    VerMaxMoves      \* bound: changes of the outside world

\* In the order assess_task_closeout and close_task go through them.
KindOrder == <<"source", "install", "route", "consume", "behavior", "attest", "review">>
Kinds == {KindOrder[i] : i \in 1..7}

\* A behaviour requirement needs a consumption requirement for its consumer, an
\* attestation or review requirement a behaviour requirement for its probe.
PacketValid(p) ==
    /\ "behavior" \in p => "consume" \in p
    /\ "attest" \in p \/ "review" \in p => "behavior" \in p

ASSUME VerificationAssumption ==
    /\ \A p \in Packets : p # {} /\ p \subseteq Kinds /\ PacketValid(p)
    /\ VerMaxReceipts \in Nat /\ VerMaxMoves \in Nat

VARIABLES
    packet,      \* the kinds the task's evidence requirements name
    taskClosed,  \* the task has its TASK_CLOSED event
    accepted,    \* the lifecycle is accepted-current: accepted_permit() returns
    world,       \* what the host-injected transports observe
    moves,       \* changes of the world so far
    receipts,    \* receipts[k]: the log of kind k
    verCall,     \* verCall[c]: the call caller c is in the middle of
    closeout     \* the evidence references of the TASK_CLOSED event

verVars == <<packet, taskClosed, accepted, world, moves, receipts, verCall, closeout>>

----------------------------------------------------------------------------
(* What the transports observe.  "gone": not available; "wrong": available,*)
(* but not what the packet expects; the others are what it expects, with   *)
(* different content digests.                                              *)

Contents == {"gone", "wrong", "a", "b"}
Expected == {"a", "b"}

\* SourceVerificationTransportResult: the head of the ref, and the state of
\* the required checks of the mutation's commit.
SourceObs == [head : {"commit", "other"}, checks : {"PASS", "FAIL", "UNAVAILABLE", "PENDING"}]

\* InstallationObservation: the installed content of the distribution.
InstallObs == [content : Contents]

\* RouteObservation: the selected target and the digest of the route.
RouteObs == [content : Contents]

\* RuntimeConsumptionObservation: process instance, and the route it loaded.
ConsumeObs == [proc : Nat, loaded : Contents]

\* BehaviorEffectObservation: the process the probe was run against.
BehaviorObs == [proc : Nat, outcome : Contents]

\* BehaviorAttestationObservation: the behaviour receipt the provider signed.
AttestObs == [nonce : Nat, signs : Nat]

\* IndependentBehaviorReviewObservation: two signed documents.
ReviewObs == [nonce : Nat, signs : Nat, authority : BOOLEAN]

Observations ==
    [source |-> SourceObs, install |-> InstallObs, route |-> RouteObs, consume |-> ConsumeObs,
     behavior |-> BehaviorObs, attest |-> AttestObs, review |-> ReviewObs]

NoDocument == 0      \* nonce or process of what is not there

----------------------------------------------------------------------------
(* _status and _aggregate: what an observation is worth.                   *)

SourceStatus(o) == IF o.head = "commit" THEN o.checks ELSE "STALE_HEAD"

ContentStatus(o) ==
    CASE o.content = "gone" -> "UNAVAILABLE" [] o.content \in Expected -> "PASS" [] OTHER -> "FAIL"

InstallStatus(o) == ContentStatus(o)

RouteStatus(o) == ContentStatus(o)

ConsumeStatus(o) ==
    CASE o.proc = NoDocument -> "UNAVAILABLE" [] o.loaded \in Expected -> "PASS" [] OTHER -> "FAIL"

\* Mutation: the probe may have been run against another process.
BehaviorStatus_AnyProcess(o, base) ==
    CASE o.proc = NoDocument -> "UNAVAILABLE" [] o.outcome \in Expected -> "PASS" [] OTHER -> "FAIL"

\* base: the consumption receipt the behaviour is qualified against.
BehaviorStatus(o, base) ==
    CASE o.proc = NoDocument -> "UNAVAILABLE"
      [] o.outcome \in Expected /\ o.proc = receipts.consume[base].seen.proc -> "PASS"
      [] OTHER -> "FAIL"

\* base: the behaviour receipt the evidence must sign.
AttestStatus(o, base) ==
    CASE o.nonce = NoDocument -> "UNAVAILABLE"
      [] receipts.behavior[base].status = "PASS" /\ o.signs = base -> "PASS"
      [] OTHER -> "FAIL"

ReviewStatus(o, base) ==
    CASE o.nonce = NoDocument -> "UNAVAILABLE"
      [] receipts.behavior[base].status = "PASS" /\ o.signs = base /\ o.authority -> "PASS"
      [] OTHER -> "FAIL"

StatusOf(k, o, base) ==
    CASE k = "source" -> SourceStatus(o)
      [] k = "install" -> InstallStatus(o)
      [] k = "route" -> RouteStatus(o)
      [] k = "consume" -> ConsumeStatus(o)
      [] k = "behavior" -> BehaviorStatus(o, base)
      [] k = "attest" -> AttestStatus(o, base)
      [] k = "review" -> ReviewStatus(o, base)

----------------------------------------------------------------------------
(* The stores.                                                             *)

\* A receipt: its status, the observation, and the receipt it rests on (0: none).
NewReceipt(status, o, base) == [status |-> status, seen |-> o, base |-> base]

\* Rows of the seven tables, as _row and verify_chain accept them.
RowsOf(k, states, bases) == [status : states, seen : Observations[k], base : bases]

ContentStates == {"PASS", "FAIL", "UNAVAILABLE"}
SourceRows == RowsOf("source", ContentStates \cup {"PENDING", "STALE_HEAD"}, {0})
InstallRows == RowsOf("install", ContentStates, {0})
RouteRows == RowsOf("route", ContentStates, {0})
ConsumeRows == RowsOf("consume", ContentStates, {0})
BehaviorRows == RowsOf("behavior", ContentStates, Nat \ {0})
AttestRows == RowsOf("attest", ContentStates, Nat \ {0})
ReviewRows == RowsOf("review", ContentStates, Nat \ {0})

Rows == [source |-> SourceRows, install |-> InstallRows, route |-> RouteRows, consume |-> ConsumeRows,
         behavior |-> BehaviorRows, attest |-> AttestRows, review |-> ReviewRows]

Newest(k) == Len(receipts[k])

\* latest: the newest receipt of kind k passed.
LatestPass(k) == Newest(k) > 0 /\ receipts[k][Newest(k)].status = "PASS"

Unchanged(k) == world[k] = receipts[k][Newest(k)].seen

----------------------------------------------------------------------------
(* assess(): the stored PASS is current only while the world still shows   *)
(* exactly what it recorded.                                               *)

\* Only the head of the ref is refreshed.
SourcePassed == LatestPass("source") /\ world.source.head = "commit"

InstallPassed == LatestPass("install") /\ Unchanged("install")

RoutePassed == LatestPass("route") /\ Unchanged("route")

\* _route_current: a route the packet also wants verified has to be the one loaded.
RouteCurrent(loaded) == "route" \in packet => RoutePassed /\ world.route.content = loaded

ConsumePassed ==
    /\ LatestPass("consume")
    /\ Unchanged("consume")
    /\ RouteCurrent(world.consume.loaded)

BehaviorPassed ==
    /\ LatestPass("behavior")
    /\ ConsumePassed
    /\ receipts.behavior[Newest("behavior")].base = Newest("consume")
    /\ Unchanged("behavior")

AttestPassed ==
    /\ LatestPass("attest")
    /\ BehaviorPassed
    /\ receipts.attest[Newest("attest")].base = Newest("behavior")
    /\ Unchanged("attest")

ReviewPassed ==
    /\ LatestPass("review")
    /\ BehaviorPassed
    /\ receipts.review[Newest("review")].base = Newest("behavior")
    /\ Unchanged("review")

Passed(k) ==
    CASE k = "source" -> SourcePassed
      [] k = "install" -> InstallPassed
      [] k = "route" -> RoutePassed
      [] k = "consume" -> ConsumePassed
      [] k = "behavior" -> BehaviorPassed
      [] k = "attest" -> AttestPassed
      [] k = "review" -> ReviewPassed

----------------------------------------------------------------------------
(* Calls in progress.  base: the receipt assessed; seen: the observation;  *)
(* refs: the receipts a closeout has collected, 0 where there is none.     *)

NoObservation == [content |-> "none"]
NoRefs == [k \in Kinds |-> 0]
VerIdle == [step |-> "idle", kind |-> "none", base |-> 0, seen |-> NoObservation, refs |-> NoRefs]
Closing == {"decide", "collect", "close"}
VerSteps == {"idle", "assess", "reread", "observe", "route", "append"}
            \cup Closing

VerReturn(c) == verCall' = [verCall EXCEPT ![c] = VerIdle]

VerInit ==
    /\ packet \in Packets
    /\ taskClosed = FALSE
    /\ accepted = TRUE
    /\ world = [source |-> [head |-> "commit", checks |-> "PENDING"],
                install |-> [content |-> "gone"], route |-> [content |-> "a"],
                consume |-> [proc |-> 1, loaded |-> "a"],
                behavior |-> [proc |-> NoDocument, outcome |-> "gone"],
                attest |-> [nonce |-> NoDocument, signs |-> 0],
                review |-> [nonce |-> NoDocument, signs |-> 0, authority |-> FALSE]]
    /\ moves = 0
    /\ receipts = [k \in Kinds |-> <<>>]
    /\ verCall = [c \in Verifiers |-> VerIdle]
    /\ closeout = NoRefs

\* Receipts appended and being made.
VerWork ==
    Newest("source") + Newest("install") + Newest("route") + Newest("consume")
    + Newest("behavior") + Newest("attest") + Newest("review")
    + Cardinality({c \in Verifiers : verCall[c].step \in VerSteps \ (Closing \cup {"idle"})})

\* The checks every verify() opens with: the task is open, the packet asks for
\* this kind, and accepted_permit() returns.
VerifyBegin(c, k, step) ==
    /\ verCall[c].step = "idle"
    /\ ~taskClosed
    /\ k \in packet
    /\ accepted
    /\ VerWork < VerMaxReceipts
    /\ verCall' = [verCall EXCEPT ![c] = [VerIdle EXCEPT !.step = step, !.kind = k]]
    /\ UNCHANGED <<packet, taskClosed, accepted, world, moves, receipts, closeout>>

VerifySource(c) == VerifyBegin(c, "source", "observe")
VerifyInstall(c) == VerifyBegin(c, "install", "observe")
VerifyRoute(c) == VerifyBegin(c, "route", "observe")
VerifyConsume(c) == VerifyBegin(c, "consume", "observe")
VerifyBehavior(c) == VerifyBegin(c, "behavior", "assess")
VerifyAttest(c) == VerifyBegin(c, "attest", "assess")
VerifyReview(c) == VerifyBegin(c, "review", "assess")

\* The kind whose receipt evidence of kind k is qualified against.
Prerequisite(k) == IF k = "behavior" THEN "consume" ELSE "behavior"

VerQuiet == UNCHANGED <<packet, taskClosed, accepted, world, moves, receipts, closeout>>

\* The prerequisite is assessed; if it does not pass, verify() raises.
VerifyAssess(c) ==
    LET k == verCall[c].kind
        p == Prerequisite(k)
    IN
    /\ verCall[c].step = "assess"
    /\ IF Passed(p)
       THEN verCall' = [verCall EXCEPT ![c].base = Newest(p),
                                     ![c].step = IF k = "behavior" THEN "observe" ELSE "reread"]
       ELSE VerReturn(c)
    /\ VerQuiet

\* Attestation and review read the latest behaviour receipt again.  Attestation
\* raises if it is not the one assessed; review goes on with the new one.
VerifyReread(c) ==
    /\ verCall[c].step = "reread"
    /\ IF verCall[c].kind = "attest" /\ Newest("behavior") # verCall[c].base
       THEN VerReturn(c)
       ELSE verCall' = [verCall EXCEPT ![c].base = Newest("behavior"), ![c].step = "observe"]
    /\ VerQuiet

\* transport.observe: what the world shows at this moment.
Observe(c, k, step) ==
    /\ verCall[c].step = "observe" /\ verCall[c].kind = k
    /\ verCall' = [verCall EXCEPT ![c].seen = world[k], ![c].step = step]
    /\ VerQuiet

ObserveSource(c) == Observe(c, "source", "append")
ObserveInstall(c) == Observe(c, "install", "append")
ObserveRoute(c) == Observe(c, "route", "append")
ObserveConsume(c) ==
    Observe(c, "consume", IF ConsumeStatus(world.consume) = "PASS" THEN "route" ELSE "append")
ObserveBehavior(c) == Observe(c, "behavior", "append")
ObserveAttest(c) == Observe(c, "attest", "append")
ObserveReview(c) == Observe(c, "review", "append")

\* Mutation: a consumption is recorded without a look at the declared route.
VerifyConsumedRoute_Unchecked(c) ==
    /\ verCall[c].step = "route"
    /\ verCall' = [verCall EXCEPT ![c].step = "append"]
    /\ VerQuiet

\* A PASS consumption has to agree with the declared route, or verify() raises.
VerifyConsumedRoute(c) ==
    /\ verCall[c].step = "route"
    /\ IF RouteCurrent(verCall[c].seen.loaded)
       THEN verCall' = [verCall EXCEPT ![c].step = "append"]
       ELSE VerReturn(c)
    /\ VerQuiet

\* One row in the store of kind k; nothing looks at the task again.
AppendRow(c, k) ==
    LET v == verCall[c] IN
    /\ v.step = "append" /\ v.kind = k
    /\ receipts' = [receipts EXCEPT
                        ![k] = Append(@, NewReceipt(StatusOf(k, v.seen, v.base), v.seen, v.base))]
    /\ VerReturn(c)
    /\ UNCHANGED <<packet, taskClosed, accepted, world, moves, closeout>>

AppendSource(c) == AppendRow(c, "source")
AppendInstall(c) == AppendRow(c, "install")
AppendRoute(c) == AppendRow(c, "route")
AppendConsume(c) == AppendRow(c, "consume")
AppendBehavior(c) == AppendRow(c, "behavior")

\* The nonce is in a row of kind k already.
NonceReplayed(k, o) ==
    o.nonce # NoDocument /\ \E i \in 1..Newest(k) : receipts[k][i].seen.nonce = o.nonce

\* Mutation: the uniqueness of the nonce is left out.
AppendAttest_Replay(c) == AppendRow(c, "attest")

\* The nonce is looked up in the transaction that inserts the row.
AppendAttest(c) == AppendRow(c, "attest") /\ ~NonceReplayed("attest", verCall[c].seen)

AppendReview(c) == AppendRow(c, "review") /\ ~NonceReplayed("review", verCall[c].seen)

\* "nonce replay detected"
AppendRaises(c) ==
    /\ verCall[c].step = "append"
    /\ verCall[c].kind \in {"attest", "review"}
    /\ NonceReplayed(verCall[c].kind, verCall[c].seen)
    /\ VerReturn(c)
    /\ VerQuiet

----------------------------------------------------------------------------
(* Closeout, under tasks.action_lock().                                    *)

\* The kind that comes after k among those the packet requires, or "none".
Following(k) ==
    LET after == {i \in 1..7 : KindOrder[i] \in packet
                               /\ \A j \in 1..7 : KindOrder[j] = k => i > j}
    IN IF after = {} THEN "none"
       ELSE KindOrder[CHOOSE i \in after : \A j \in after : i <= j]

CloseBegin(c) ==
    /\ verCall[c].step = "idle"
    /\ \A d \in Verifiers : verCall[d].step \notin Closing
    /\ accepted
    /\ ~taskClosed
    /\ verCall' = [verCall EXCEPT ![c] = [VerIdle EXCEPT !.step = "decide", !.kind = Following("none")]]
    /\ VerQuiet

\* assess_task_closeout, kind by kind.  A source verification is part of the
\* dependency's evidence, which this assessment also collects.
CloseDecide(c) ==
    LET v == verCall[c]
        k == v.kind
        last == Following(k) = "none"
    IN
    /\ v.step = "decide"
    /\ IF ~Passed(k)
       THEN VerReturn(c)
       ELSE verCall' = [verCall EXCEPT
                ![c].step = IF last THEN "collect" ELSE "decide",
                ![c].kind = IF last THEN Following("none") ELSE Following(k),
                ![c].refs = IF k = "source" THEN [v.refs EXCEPT ![k] = Newest(k)] ELSE v.refs]
    /\ VerQuiet

\* Mutation: the receipts of the packet's kinds, whatever a new assessment says.
Collected_Stored(refs, k) == [refs EXCEPT ![k] = Newest(k)]

\* An evidence reference for every assessment that passes.
Collected(refs, k) == IF Passed(k) THEN [refs EXCEPT ![k] = Newest(k)] ELSE refs

\* close_task assesses every kind again and keeps the receipts that pass now.
CloseCollect(c) ==
    LET v == verCall[c]
        k == v.kind
        last == Following(k) = "none"
    IN
    /\ v.step = "collect"
    /\ verCall' = [verCall EXCEPT
            ![c].step = IF last THEN "close" ELSE "collect",
            ![c].kind = IF last THEN "none" ELSE Following(k),
            ![c].refs = IF k = "source" THEN v.refs ELSE Collected(v.refs, k)]
    /\ VerQuiet

\* tasks.close_task: the TASK_CLOSED event.
CloseAppend(c) ==
    /\ verCall[c].step = "close"
    /\ taskClosed' = TRUE
    /\ closeout' = verCall[c].refs
    /\ VerReturn(c)
    /\ UNCHANGED <<packet, accepted, world, moves, receipts>>

----------------------------------------------------------------------------
(* The outside world: what the packet's transports observe changes.        *)

MoveWorld(k, o) ==
    /\ k \in packet
    /\ moves < VerMaxMoves
    /\ moves' = moves + 1
    /\ world' = [world EXCEPT ![k] = o]
    /\ UNCHANGED <<packet, taskClosed, accepted, receipts, verCall, closeout>>

\* Somebody pushes, or the checks of the commit report.
SourceMoves == \E o \in SourceObs : o # world.source /\ MoveWorld("source", o)

InstallMoves == \E o \in InstallObs : o # world.install /\ MoveWorld("install", o)

RouteMoves == \E o \in RouteObs : o # world.route /\ MoveWorld("route", o)

\* The consumer starts again and loads the route of the moment.
ConsumerRestarts ==
    MoveWorld("consume", [proc |-> moves + 2, loaded |-> world.route.content])

ConsumerStops ==
    MoveWorld("consume", [proc |-> NoDocument, loaded |-> "gone"])

\* The host runs the probe against the live process.
ProbeRuns ==
    \E o \in {"wrong", "a"} :
        /\ world.consume.proc # NoDocument
        /\ MoveWorld("behavior", [proc |-> world.consume.proc, outcome |-> o])

\* The provider signs a behaviour receipt, with a nonce of its own choice.
ProviderSigns ==
    \E n \in 1..2, i \in 1..Newest("behavior") :
        MoveWorld("attest", [nonce |-> n, signs |-> i])

\* The evaluator signs a review, the authority vouches for the evaluator or not.
EvaluatorSigns ==
    \E n \in 1..2, i \in 1..Newest("behavior"), a \in BOOLEAN :
        MoveWorld("review", [nonce |-> n, signs |-> i, authority |-> a])

\* An effect is left unresolved, or settled: accepted_permit() stops and starts.
LifecycleMoves ==
    /\ moves < VerMaxMoves
    /\ moves' = moves + 1
    /\ accepted' = ~accepted
    /\ UNCHANGED <<packet, taskClosed, world, receipts, verCall, closeout>>

WorldMoves ==
    \/ SourceMoves \/ InstallMoves \/ RouteMoves
    \/ ConsumerRestarts \/ ConsumerStops
    \/ ProbeRuns \/ ProviderSigns \/ EvaluatorSigns \/ LifecycleMoves

VerNext ==
    \/ WorldMoves
    \/ \E c \in Verifiers :
           \/ VerifySource(c) \/ VerifyInstall(c) \/ VerifyRoute(c) \/ VerifyConsume(c)
           \/ VerifyBehavior(c) \/ VerifyAttest(c) \/ VerifyReview(c)
           \/ VerifyAssess(c) \/ VerifyReread(c) \/ VerifyConsumedRoute(c)
           \/ ObserveSource(c) \/ ObserveInstall(c) \/ ObserveRoute(c) \/ ObserveConsume(c)
           \/ ObserveBehavior(c) \/ ObserveAttest(c) \/ ObserveReview(c)
           \/ AppendSource(c) \/ AppendInstall(c) \/ AppendRoute(c) \/ AppendConsume(c)
           \/ AppendBehavior(c) \/ AppendAttest(c) \/ AppendReview(c) \/ AppendRaises(c)
           \/ CloseBegin(c) \/ CloseDecide(c) \/ CloseCollect(c) \/ CloseAppend(c)

VerSpec == VerInit /\ [][VerNext]_verVars

----------------------------------------------------------------------------
VerTypeOK ==
    /\ packet \in Packets
    /\ taskClosed \in BOOLEAN /\ accepted \in BOOLEAN
    /\ moves \in 0..VerMaxMoves
    /\ \A k \in Kinds :
           /\ world[k] \in Observations[k]
           /\ \A i \in 1..Newest(k) : receipts[k][i] \in Rows[k]
    /\ \A c \in Verifiers :
           /\ verCall[c].step \in VerSteps
           /\ verCall[c].kind \in Kinds \cup {"none"}
           /\ verCall[c].base \in Nat
           /\ verCall[c].refs \in [Kinds -> Nat]
    /\ closeout \in [Kinds -> Nat]

(***************************************************************************)
(* Evidence never floats: whoever verifies what, and however the world     *)
(* moves between the steps of a verify(), a consumption PASS loaded a route*)
(* that some route PASS recorded (where the packet declares the route), a  *)
(* behaviour PASS was probed on the very process its consumption PASS saw, *)
(* and an attestation or review PASS signs the behaviour PASS it rests on. *)
(***************************************************************************)
PassBacked ==
    /\ \A i \in 1..Newest("consume") :
           receipts.consume[i].status = "PASS" /\ "route" \in packet =>
               \E j \in 1..Newest("route") :
                   /\ receipts.route[j].status = "PASS"
                   /\ receipts.route[j].seen.content = receipts.consume[i].seen.loaded
    /\ \A i \in 1..Newest("behavior") :
           LET r == receipts.behavior[i] IN
           r.status = "PASS" =>
               /\ r.base \in 1..Newest("consume")
               /\ receipts.consume[r.base].status = "PASS"
               /\ receipts.consume[r.base].seen.proc = r.seen.proc
    /\ \A k \in {"attest", "review"} : \A i \in 1..Newest(k) :
           LET r == receipts[k][i] IN
           r.status = "PASS" =>
               /\ r.base \in 1..Newest("behavior") /\ r.seen.signs = r.base
               /\ receipts.behavior[r.base].status = "PASS"

(***************************************************************************)
(* "a single-use nonce" (README.md): no two attestation receipts, PASS or  *)
(* not, carry the same nonce, and no two reviews: verifies of the same     *)
(* document may race, and the evidence may be signed again with an old one.*)
(***************************************************************************)
NonceSingleUse ==
    \A k \in {"attest", "review"} : \A i, j \in 1..Newest(k) :
        /\ receipts[k][i].seen.nonce = receipts[k][j].seen.nonce
        /\ receipts[k][i].seen.nonce # NoDocument
        => i = j

(***************************************************************************)
(* What a TASK_CLOSED event cites: only PASS receipts, and none that rests *)
(* on older evidence than the event cites: the behaviour receipt rests on  *)
(* the cited consumption or a later one, the attestation and the review on *)
(* the cited behaviour or a later one.  A verify() that runs during the    *)
(* closeout may move the later references forward, never back.             *)
(***************************************************************************)
CloseoutOrdered ==
    /\ \A k \in Kinds : closeout[k] # 0 => receipts[k][closeout[k]].status = "PASS"
    /\ closeout.behavior # 0 => receipts.behavior[closeout.behavior].base >= closeout.consume
    /\ \A k \in {"attest", "review"} :
           closeout[k] # 0 => receipts[k][closeout[k]].base >= closeout.behavior

(***************************************************************************)
(* Verification tells the truth: passes are backed by the receipts they    *)
(* rest on, a nonce is used once, and a closeout cites passes in their     *)
(* order (the verify() of every adapter, the append() of every store,      *)
(* close_task).                                                            *)
(***************************************************************************)
VerificationHonest == PassBacked /\ NonceSingleUse /\ CloseoutOrdered
=============================================================================
