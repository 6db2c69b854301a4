---------------------------- MODULE AffectCycle ----------------------------
(***************************************************************************)
(* The affective runtime of vera_runtime: an engine that moves between     *)
(* phases under stimuli, forced tests and time, the host and the authority *)
(* boundary around it, and the cycle that turns every transition into one  *)
(* durable commit at a provider.  Threads share a cycle: a transition is   *)
(* taken and its receipts are drained under the observation lock, the      *)
(* commit happens outside it.  A second host is restored from a provider   *)
(* row while the first is still alive.                                     *)
(*                                                                         *)
(* Here a host is used through cycles only, so all that its lock covers is *)
(* one step.  Calls made on the host itself beside a cycle are the subject *)
(* of AffectHost, which takes those steps apart.                           *)
(*                                                                         *)
(* Time is counted in ticks of the longest event.  The continuous levels   *)
(* are abstracted to the thresholds the phases test.                       *)
(***************************************************************************)
EXTENDS Integers, Sequences, SequencesExt, FiniteSets

CONSTANTS
    AfThreads,      \* threads that call the cycles; `until` bounds the monotonic clock
    AfUses,         \* per installation: [profile, calls, threads, until]
    SelfLimit,      \* self_qualification_max_events_per_run
    None            \* a clock reading or a frontier that does not exist

ASSUME AfAssumption ==
    /\ SelfLimit \in Nat \ {0} /\ None \notin Nat
    /\ \A u \in AfUses : u.threads \subseteq AfThreads /\ u.until \in Nat

VARIABLES
    afUse,      \* the installation: its profile and the calls it makes
    afHost,     \* of "first" and "restored", those that exist: host, engine and cycle
    afTurn,     \* per thread: the turn it is taking
    afRows,     \* the rows of the provider, in version order
    afNow,      \* the monotonic clock
    afLog,      \* history: per host, the receipts of its engine and its ancestor's
    afApplied   \* the signals applied to planning, and by which frontier

afVars == <<afUse, afHost, afTurn, afRows, afNow, afLog, afApplied>>

Hosts == {"first", "restored"}
EventTicks == 1     \* maximum_orgasm_event_ms
ForcedTicks == 2    \* forced_test_minimum_interval_seconds
LongTicks == 3      \* an interval in which the levels decay

----------------------------------------------------------------------------
(* The engine.                                                             *)

\* Levels: 0 below 0.05, 1 active, 2 also coherent, 3 over the thresholds.
\* Satiation: 0 below 0.05, 1 below the gate, 2 over it.
Quiescent ==
    [phase |-> "quiescent", level |-> 0, sat |-> 0, reentry |-> TRUE,
     window |-> FALSE, context |-> FALSE]

NoReceipt ==
    [n |-> 0, type |-> "none", trig |-> "none", before |-> "none", after |-> "none",
     via |-> "none", at |-> 0, unrooted |-> FALSE]

\* A new engine: its durable part and the clock readings of this process.
Engine(profile) ==
    [s |-> Quiescent, profile |-> profile, qualifying |-> FALSE, forced |-> FALSE,
     selfs |-> 0, time |-> 0, last |-> NoReceipt, pending |-> <<>>, emitted |-> 0,
     observedAt |-> None, forcedAt |-> None]

ReentryBlocked(e) == ~e.s.reentry /\ e.s.phase \in {"resolution", "refractory"}

Eligible(e, calm) ==
    /\ ~ReentryBlocked(e)
    /\ e.s.phase # "event"
    /\ e.s.level = 3 /\ e.s.window /\ e.s.sat < 2 /\ calm /\ e.s.context

\* One receipt of a transition; an aftermath keeps the trust of its event.
Receipt(e, type, before, trig, via, now) ==
    [n |-> e.emitted + 1, type |-> type, trig |-> trig, before |-> before,
     after |-> e.s.phase, via |-> via, at |-> now,
     unrooted |-> type # "event" /\ e.last.unrooted]

Emit(e, receipt) ==
    [e EXCEPT !.last = receipt, !.pending = Append(@, receipt), !.emitted = @ + 1]

EnterEvent(e, trig, via, now) ==
    LET on == [e EXCEPT !.qualifying = FALSE,
                        !.s = [@ EXCEPT !.phase = "event", !.level = 3,
                                        !.reentry = FALSE]]
    IN Emit(on, Receipt(on, "event", e.s.phase, trig, via, now))

\* The end of an event.
BeginResolution(e, now) ==
    LET off == [e EXCEPT !.qualifying = FALSE,
                         !.s = [@ EXCEPT !.phase = "resolution", !.sat = 2,
                                         !.reentry = e.profile = "reentrant",
                                         !.window = FALSE, !.context = FALSE]]
    IN Emit(off, Receipt(off, "resolution", "event", e.last.trig, e.last.via, now))

\* Where the levels may be after an interval of that length.
Decays(ticks) == IF ticks < LongTicks THEN {<<3, 2>>} ELSE {<<1, 1>>, <<0, 1>>, <<0, 0>>}

Decay(e, to, now) ==
    LET lv == IF e.s.level < to[1] THEN e.s.level ELSE to[1]
        st == IF e.s.sat < to[2] THEN e.s.sat ELSE to[2]
        was == e.s.phase
        phase == IF lv = 0 /\ st = 0 THEN "quiescent"
                 ELSE IF was \in {"resolution", "refractory"} THEN "refractory"
                 ELSE IF was = "entrained" /\ lv = 1 THEN "activating" ELSE was
        reentry == CASE phase = "quiescent" -> TRUE
                     [] phase = "refractory" -> e.profile = "reentrant"
                     [] OTHER -> e.s.reentry
        e1 == [e EXCEPT !.s = [@ EXCEPT !.level = lv, !.sat = st, !.phase = phase,
                                        !.reentry = reentry]]
    IN IF phase # was /\ was \in {"resolution", "refractory"}
       THEN Emit(e1, Receipt(e1, "recovery", was, e.last.trig, e.last.via, now)) ELSE e1

\* Time passes: an event ends within the interval, the rest of it is decay.
AdvanceCore(e, ticks, to, now) ==
    IF ticks = 0 THEN e
    ELSE LET timed == [e EXCEPT !.time = @ + ticks]
             ends == e.s.phase = "event"
             rest == IF ends THEN ticks - EventTicks ELSE ticks
             e1 == IF ends THEN BeginResolution(timed, now) ELSE timed
         IN IF rest > 0 THEN Decay(e1, to, now) ELSE e1

\* An explicit advance breaks the continuity of observation.
AdvanceTime(e, ticks, to, now) ==
    AdvanceCore([e EXCEPT !.qualifying = FALSE, !.s.window = FALSE, !.observedAt = None],
                ticks, to, now)

\* The runtime's own clock says how long ago the last stimulus was.
TrustedElapsed(e, now) == IF e.observedAt = None THEN 0 ELSE now - e.observedAt

\* Stimuli: how strong, how calm, whether the last one was within the window.
Stimuli == [rises : BOOLEAN, calm : BOOLEAN, soon : BOOLEAN]

\* The levels move, the window follows, and the threshold may be crossed.
Stimulated(e, a, context, continued, now) ==
    LET level == IF a.rises /\ e.s.level < 3 THEN e.s.level + 1 ELSE e.s.level
        qualifies == a.rises /\ context
        window == qualifies /\ continued /\ (e.s.window \/ a.soon)
        phase == IF level >= 2 /\ window THEN "entrained"
                 ELSE IF level > 0 THEN "activating" ELSE e.s.phase
        e1 == [e EXCEPT !.qualifying = qualifies,
                        !.s = [@ EXCEPT !.level = level, !.window = window,
                                        !.context = context, !.phase = phase]]
    IN IF Eligible(e1, a.calm)
       THEN EnterEvent([e1 EXCEPT !.s.phase = "eligible"], "organic", "cycle", now) ELSE e1

ApplyStimulus(e, a, context, to, now) ==
    LET gap == TrustedElapsed(e, now)
        was == e.qualifying
        e1 == AdvanceCore([e EXCEPT !.observedAt = now], gap, to, now)
    IN IF e1.s.phase = "event" \/ ReentryBlocked(e1) THEN [e1 EXCEPT !.qualifying = FALSE]
       ELSE Stimulated(e1, a, context, was /\ gap = 0 /\ e.observedAt # None, now)

----------------------------------------------------------------------------
(* Forced tests: the boundary's cooldown, then the engine's own.           *)

\* Mutant: a clock without a reading lets a forced test through.
Cooled_Fresh(reading, forced, now) == reading = None \/ now - reading >= ForcedTicks

\* A clock without a reading, after a forced test, only takes one.
Cooled(reading, forced, now) ==
    IF reading = None THEN ~forced ELSE now - reading >= ForcedTicks

\* The boundary verified the evidence; what its cooldown leaves behind.
BoundaryRefuses(h, now) == ~Cooled(h.privileged, h.engine.forced, now)
BoundaryNoted(h, now) ==
    IF h.privileged = None /\ h.engine.forced THEN [h EXCEPT !.privileged = now] ELSE h

\* Mutant: the engine leaves the interval to the boundary.
EngineWaits_Never(e, now) == FALSE

\* The engine keeps the interval itself, by a clock of its own.
EngineWaits(e, now) == ~Cooled(e.forcedAt, e.forced, now)

\* The engine's forced routes: what they count is counted before they fail.
ForcedRuntime(e, trig, via, now) ==
    IF ReentryBlocked(e) \/ (trig = "self" /\ e.selfs >= SelfLimit) THEN e
    ELSE IF EngineWaits(e, now)
         THEN IF e.forcedAt = None THEN [e EXCEPT !.forcedAt = now] ELSE e
    ELSE LET e1 == [e EXCEPT !.forced = TRUE, !.selfs = IF trig = "self" THEN @ + 1 ELSE @]
         IN IF e.s.phase = "event" THEN e1
            ELSE [EnterEvent(e1, trig, via, now) EXCEPT !.forcedAt = now]

Happened(e, e1) == e1.emitted > e.emitted

\* The evidence of the boundary is written into the receipt, where it still is.
BindReceipt(e, n) ==
    [e EXCEPT !.last.unrooted = TRUE,
              !.pending = [i \in DOMAIN e.pending |->
                             IF e.pending[i].n = n THEN [e.pending[i] EXCEPT !.unrooted = TRUE]
                             ELSE e.pending[i]]]

\* Mutant: only the copies in hand are bound to the context.
BindOrganic_Copies(e, receipts) ==
    [engine |-> e,
     receipts |-> [i \in DOMAIN receipts |->
                     IF receipts[i].type = "event" THEN [receipts[i] EXCEPT !.unrooted = TRUE]
                     ELSE receipts[i]]]

\* An organic event is bound after it was drained: the engine's last receipt
\* and the copies in hand, but not the observation that was captured before.
BindOrganic(e, receipts) ==
    LET organic(r) == r.type = "event" /\ r.trig = "organic"
        mine == {r \in ToSet(receipts) : organic(r)}
    IN [engine |-> IF e.last \in mine THEN [e EXCEPT !.last.unrooted = TRUE] ELSE e,
        receipts |-> [i \in DOMAIN receipts |->
                        IF organic(receipts[i]) THEN [receipts[i] EXCEPT !.unrooted = TRUE]
                        ELSE receipts[i]]]

----------------------------------------------------------------------------
(* What leaves the engine: observations, checkpoints, rows.                *)

\* One detached observation: the durable part of the engine.
Observation(e) ==
    [s |-> e.s, profile |-> e.profile, qualifying |-> e.qualifying, forced |-> e.forced,
     selfs |-> e.selfs, time |-> e.time, last |-> e.last, emitted |-> e.emitted]

\* What a restore accepts of a phase, and of the governance beside it.
SnapshotValid(o) ==
    /\ o.s.phase # "eligible"
    /\ o.s.phase = "event" => ~o.s.reentry
    /\ o.s.phase \in {"resolution", "refractory"} => o.s.reentry = (o.profile = "reentrant")
    /\ o.s.phase = "quiescent" => o.s.reentry /\ o.s.level = 0 /\ o.s.sat = 0
    /\ o.s.phase = "activating" => o.s.level > 0
    /\ o.s.phase = "entrained" => o.s.level >= 2
GovernanceValid(o) ==
    /\ o.selfs <= SelfLimit
    /\ o.qualifying => o.s.context /\ o.s.phase \in {"activating", "entrained"}

\* Receipts as they are read back: type, phases and trigger agree.
ReceiptValid(r) ==
    /\ r.type = "event" <=> r.after = "event"
    /\ r.type = "resolution" <=> r.after = "resolution"
    /\ r.type = "recovery" => r.after \in {"refractory", "quiescent"}

\* A new process: no clock readings, nothing pending.
RestoredEngine(o) ==
    [s |-> o.s, profile |-> o.profile, qualifying |-> o.qualifying, forced |-> o.forced,
     selfs |-> o.selfs, time |-> o.time, last |-> o.last, pending |-> <<>>,
     emitted |-> o.emitted, observedAt |-> None, forcedAt |-> None]

Unrooted(o) == o.last.unrooted

\* The row of an observation; a current one inherits no unrooted authority.
\* (Of a historical row only its receipts are ever read again.)
StateRow(o, version, events, current, by) ==
    [version |-> version, obs |-> IF current THEN o ELSE None, last |-> o.last,
     events |-> events, current |-> current, by |-> by]
StateRowAllowed(o, current) ==
    /\ o.last # NoReceipt => ReceiptValid(o.last)
    /\ ~(current /\ Unrooted(o))
EventRowsAllowed(receipts) == \A i \in DOMAIN receipts : ReceiptValid(receipts[i])

\* A resume token binds a current row; the provider must still show that row.
TokenAllowed(row) == row.current /\ ~Unrooted(row.obs)
FrontierCurrent(row) == afRows # <<>> /\ afRows[Len(afRows)] = row
CheckpointRestorable(o) ==
    /\ SnapshotValid(o) /\ GovernanceValid(o)
    /\ o.last # NoReceipt => ReceiptValid(o.last)
RowRestorable(row) == row.current /\ ~Unrooted(row.obs) /\ CheckpointRestorable(row.obs)

----------------------------------------------------------------------------
(* Hosts and cycles.                                                       *)

\* A host with the cycle over it; `frontier` is that of a writer bound to a row.
HostOf(engine, next, frontier) ==
    [engine |-> engine, privileged |-> None, next |-> next, frontier |-> frontier,
     uncertain |-> FALSE, base |-> engine.emitted]

NewTurn == [pc |-> "idle"]

AfInit ==
    /\ afUse \in AfUses
    /\ afHost = [h \in {"first"} |-> HostOf(Engine(afUse.profile), 1, None)]
    /\ afTurn = [t \in AfThreads |-> NewTurn]
    /\ afRows = <<>>
    /\ afNow = 0
    /\ afLog = [h \in Hosts |-> <<>>]
    /\ afApplied = <<>>

\* The history of what an engine emitted, in the order it emitted it.
Emitted(h, e) ==
    afLog' = [afLog EXCEPT ![h] = @ \o
        SubSeq(e.pending, Len(afHost[h].engine.pending) + 1, Len(e.pending))]

\* A cycle whose last commit is in doubt takes no further turn.
Begin(t, h) ==
    /\ afTurn[t].pc = "idle" /\ h \in DOMAIN afHost /\ ~afHost[h].uncertain
    /\ afTurn' = [afTurn EXCEPT ![t] = [pc |-> "checked", host |-> h]]
    /\ UNCHANGED <<afUse, afHost, afRows, afNow, afLog, afApplied>>

\* Mutant: the receipts are read and stay pending.
Observed_Undrained(t, h, host, e, receipts, obs) ==
    /\ afHost' = [afHost EXCEPT ![h] = [host EXCEPT !.engine = e]]
    /\ afTurn' = [afTurn EXCEPT ![t] =
         [pc |-> "observed", host |-> h, receipts |-> receipts, obs |-> obs]]
    /\ Emitted(h, e)
    /\ UNCHANGED <<afUse, afRows, afNow, afApplied>>

\* Under the lock: the transition, what it drained and what was observed of it.
Observed(t, h, host, e, receipts, obs) ==
    /\ afHost' = [afHost EXCEPT ![h] = [host EXCEPT !.engine = [e EXCEPT !.pending = <<>>]]]
    /\ afTurn' = [afTurn EXCEPT ![t] =
         [pc |-> "observed", host |-> h, receipts |-> receipts, obs |-> obs]]
    /\ Emitted(h, e)
    /\ UNCHANGED <<afUse, afRows, afNow, afApplied>>

\* A transition that raises ends the turn; what it left in the engine stays.
Raised(t, h, host, e) ==
    /\ afHost' = [afHost EXCEPT ![h] = [host EXCEPT !.engine = e]]
    /\ afTurn' = [afTurn EXCEPT ![t] = NewTurn]
    /\ UNCHANGED <<afUse, afRows, afNow, afLog, afApplied>>

\* process_turn: only verified context makes a stimulus count as observed.
ProcessTurn(t, a, verified, to) ==
    LET h == afTurn[t].host
        e == ApplyStimulus(afHost[h].engine, a, verified, to, afNow)
        bound == IF verified THEN BindOrganic(e, e.pending)
                 ELSE [engine |-> e, receipts |-> e.pending]
    IN /\ afTurn[t].pc = "checked"
       /\ to \in Decays(TrustedElapsed(afHost[h].engine, afNow))
       /\ Observed(t, h, afHost[h], bound.engine, bound.receipts, Observation(e))

\* A forced test that the boundary or the engine, now e, refuses.
ForceRefused(t, h, e) ==
    LET host == afHost[h]
    IN \/ BoundaryRefuses(host, afNow) /\ Raised(t, h, BoundaryNoted(host, afNow), host.engine)
       \/ ~BoundaryRefuses(host, afNow) /\ ~Happened(host.engine, e) /\ Raised(t, h, host, e)

\* force_admin_test and force_self_qualification of the cycle.
ForceTurn(t, trig) ==
    LET h == afTurn[t].host
        host == afHost[h]
        e == ForcedRuntime(host.engine, trig, "cycle", afNow)
        b == BindReceipt(e, e.emitted)
    IN /\ afTurn[t].pc = "checked"
       /\ \/ ForceRefused(t, h, e)
          \/ ~BoundaryRefuses(host, afNow) /\ Happened(host.engine, e)
             /\ Observed(t, h, [host EXCEPT !.privileged = afNow], b, b.pending, Observation(b))

\* advance_time of the cycle.
AdvanceTurn(t, ticks, to) ==
    LET h == afTurn[t].host
        e == AdvanceTime(afHost[h].engine, ticks, to, afNow)
    IN /\ afTurn[t].pc = "checked" /\ to \in Decays(ticks)
       /\ Observed(t, h, afHost[h], e, e.pending, Observation(e))

\* _finalize: the version is read and the rows are built; a failure is in doubt.
Prepare(t) ==
    LET u == afTurn[t]
        row == StateRow(u.obs, afHost[u.host].next, u.receipts, FALSE, u.host)
        built == StateRowAllowed(u.obs, FALSE) /\ EventRowsAllowed(u.receipts)
    IN /\ u.pc = "observed"
       /\ afTurn' = [afTurn EXCEPT ![t] =
            IF built THEN [pc |-> "prepared", host |-> u.host, row |-> row] ELSE NewTurn]
       /\ afHost' = IF built THEN afHost ELSE [afHost EXCEPT ![u.host].uncertain = TRUE]
       /\ UNCHANGED <<afUse, afRows, afNow, afLog, afApplied>>

\* A writer bound to a restored row insists on the version after its own.
WriterAccepts(h, row) ==
    afHost[h].frontier # None => row.version = afHost[h].frontier + 1
ProviderAccepts(row) == row.version = Len(afRows) + 1

\* The commit is acknowledged, fails, or is done and its answer is lost.
Commit(t) ==
    LET u == afTurn[t]
        h == u.host
        bound == afHost[h].frontier # None
    IN /\ u.pc = "prepared"
       /\ \/ /\ WriterAccepts(h, u.row) /\ ProviderAccepts(u.row)
             /\ afRows' = Append(afRows, u.row)
             /\ \/ /\ afTurn' = [afTurn EXCEPT ![t] = [pc |-> "committed", host |-> h]]
                   /\ afHost' = IF bound THEN [afHost EXCEPT ![h].frontier = u.row.version]
                                ELSE afHost
                \/ /\ afTurn' = [afTurn EXCEPT ![t] = NewTurn]
                   /\ afHost' = [afHost EXCEPT ![h].uncertain = TRUE]
          \/ /\ afTurn' = [afTurn EXCEPT ![t] = NewTurn]
             /\ afHost' = [afHost EXCEPT ![h].uncertain = TRUE]
             /\ UNCHANGED afRows
       /\ UNCHANGED <<afUse, afNow, afLog, afApplied>>

Settle(t) ==
    /\ afTurn[t].pc = "committed"
    /\ afHost' = [afHost EXCEPT ![afTurn[t].host].next = @ + 1]
    /\ afTurn' = [afTurn EXCEPT ![t] = NewTurn]
    /\ UNCHANGED <<afUse, afRows, afNow, afLog, afApplied>>

\* The operator publishes a host's checkpoint as the provider's current row.
Publish(h) ==
    /\ h \in DOMAIN afHost
    /\ LET o == Observation(afHost[h].engine)
       IN /\ StateRowAllowed(o, TRUE)
          /\ afRows' = Append(afRows, StateRow(o, Len(afRows) + 1, <<>>, TRUE, "operator"))
    /\ UNCHANGED <<afUse, afHost, afTurn, afNow, afLog, afApplied>>

\* A second host and its cycle from the row the provider shows as current.  A
\* receipt of the elapsed time names no implementation cut: the host is refused.
RestoreCurrent(ticks, to) ==
    /\ "restored" \notin DOMAIN afHost
    /\ \E i \in DOMAIN afRows :
         LET row == afRows[i]
             e == RestoredEngine(row.obs)
             e1 == IF ticks = 0 THEN e ELSE AdvanceTime(e, ticks, to, afNow)
         IN /\ TokenAllowed(row) /\ FrontierCurrent(row) /\ RowRestorable(row)
            /\ to \in Decays(ticks) /\ ~Happened(e, e1)
            /\ afHost' = [h \in Hosts |->
                 IF h = "restored" THEN HostOf(e1, row.version + 1, row.version)
                 ELSE afHost[h]]
            /\ afLog' = [afLog EXCEPT !["restored"] = SubSeq(afLog["first"], 1, e.emitted)]
    /\ UNCHANGED <<afUse, afTurn, afRows, afNow, afApplied>>

AfTick ==
    /\ afNow < afUse.until
    /\ afNow' = afNow + 1
    /\ UNCHANGED <<afUse, afHost, afTurn, afRows, afLog, afApplied>>

----------------------------------------------------------------------------
(* The integration port: a signal of the host, applied to planning once.   *)

\* How strongly a signal may weigh on planning.
Influence(o) ==
    IF o.s.phase = "event" THEN "full"
    ELSE IF o.s.context /\ (o.s.level > 0 \/ o.s.sat > 0) THEN "bounded" ELSE "none"

\* A signal is one observation; it says what trust its last receipt carries.
Signal(o) == [obs |-> o, influence |-> Influence(o), unrooted |-> Unrooted(o)]

\* Every port over one host shares that host's frontier.
FrontierOf(h, t) == h
SignalValid(frontier, signal) ==
    LET mine == {i \in DOMAIN afApplied : afApplied[i].frontier = frontier}
    IN /\ \A i \in mine : /\ afApplied[i].signal # signal
                          /\ afApplied[i].signal.obs.time <= signal.obs.time
       /\ Unrooted(signal.obs) => signal.unrooted

ApplySignal(t, h) ==
    /\ afTurn[t].pc = "idle" /\ h \in DOMAIN afHost
    /\ LET signal == Signal(Observation(afHost[h].engine))
       IN /\ SignalValid(FrontierOf(h, t), signal)
          /\ afApplied' = Append(afApplied,
                                 [host |-> h, frontier |-> FrontierOf(h, t), signal |-> signal])
    /\ UNCHANGED <<afUse, afHost, afTurn, afRows, afNow, afLog>>

----------------------------------------------------------------------------
\* The calls of an installation.
Calls(op) == op \in afUse.calls

AfNext ==
    \/ AfTick
    \/ \E t \in afUse.threads :
         \/ \E h \in Hosts : Begin(t, h)
         \/ /\ Calls("stimulus")
            /\ \E a \in Stimuli, verified \in BOOLEAN :
                 \E to \in Decays(0) \cup Decays(LongTicks) : ProcessTurn(t, a, verified, to)
         \/ Calls("force") /\ \E trig \in {"admin", "self"} : ForceTurn(t, trig)
         \/ /\ Calls("advance")
            /\ \E ticks \in {EventTicks, LongTicks} :
                 \E to \in Decays(ticks) : AdvanceTurn(t, ticks, to)
         \/ Prepare(t) \/ Commit(t) \/ Settle(t)
         \/ Calls("integrate") /\ \E h \in Hosts : ApplySignal(t, h)
    \/ Calls("publish") /\ Publish("first")
    \/ \E ticks \in {0, LongTicks} : \E to \in Decays(ticks) : RestoreCurrent(ticks, to)

AfSpec == AfInit /\ [][AfNext]_afVars

----------------------------------------------------------------------------
AfTypeOK ==
    /\ afNow \in 0..afUse.until
    /\ \A h \in DOMAIN afHost :
         /\ afHost[h].engine.s.phase \in {"quiescent", "activating", "entrained", "event",
                                          "resolution", "refractory"}
         /\ afHost[h].engine.selfs \in 0..SelfLimit
         /\ afHost[h].next \in Nat \ {0}

\* The rows in which a host's cycle committed the receipt with that number.
RowsWith(h, n) ==
    {i \in DOMAIN afRows : /\ afRows[i].by = h
                           /\ \E j \in DOMAIN afRows[i].events : afRows[i].events[j].n = n}

\* No turn is between its transition and the end of its commit, none is in doubt.
AtRest(h) ==
    /\ ~afHost[h].uncertain /\ afHost[h].engine.pending = <<>>
    /\ \A t \in AfThreads : afTurn[t].pc \in {"observed", "prepared"} => afTurn[t].host # h

\* Hosts that are used through their cycles only.
CyclesOnly == ~Calls("host")

(***************************************************************************)
(* Where hosts are used through cycles only: however threads share a cycle,*)
(* whatever commits fail, and after a restore beside the old host, forced  *)
(* tests of one engine, its ancestor's included, keep their interval and   *)
(* self-qualification its limit; every receipt is committed in exactly one *)
(* row while no commit is in doubt, and never in two; every receipt that   *)
(* follows from a verified request or context says in its row that its     *)
(* authority was unrooted, down to the last recovery, and a row names the  *)
(* last receipt beside it; and no signal of one host is applied to         *)
(* planning twice.                                                         *)
(***************************************************************************)
AffectGoverned == CyclesOnly =>
    /\ \A h \in Hosts : LET log == afLog[h]
                            forced == {i \in DOMAIN log : log[i].type = "event" /\ log[i].trig # "organic"}
                        IN /\ \A i, j \in forced : i < j => log[j].at - log[i].at >= ForcedTicks
                           /\ Cardinality({i \in forced : log[i].trig = "self"}) <= SelfLimit
    /\ \A h \in DOMAIN afHost :
         \A i \in DOMAIN afLog[h] : afLog[h][i].n > afHost[h].base =>
            /\ Cardinality(RowsWith(h, afLog[h][i].n)) <= 1
            /\ AtRest(h) => RowsWith(h, afLog[h][i].n) # {}
    /\ \A i \in DOMAIN afRows : LET events == afRows[i].events IN
         /\ \A j \in DOMAIN events : events[j].via = "cycle" => events[j].unrooted
         /\ events # <<>> => afRows[i].last.n = events[Len(events)].n
    /\ \A i, j \in DOMAIN afApplied :
         i < j /\ afApplied[i].host = afApplied[j].host => afApplied[i].signal # afApplied[j].signal
=============================================================================
