----------------------------- MODULE AffectHost -----------------------------
(***************************************************************************)
(* A host of vera_runtime that is used directly while a cycle runs over    *)
(* it.  The engine's own calls hold its observation lock and a cycle turn  *)
(* holds it from its transition to its observation; the authority boundary *)
(* holds nothing.  So the boundary's reading of its cooldown, the test     *)
(* itself, the look for its receipt in the engine and the two writes of    *)
(* the bound receipt are steps of their own, and a direct observation or   *)
(* advance gives the lock back before it drains the receipts, which no row *)
(* will hold.  Turns of verified context are AffectCycle's alone.          *)
(***************************************************************************)
EXTENDS AffectCycle

\* Turns that hold the lock of their host between two steps: those of a cycle,
\* and a drain that has copied the receipts and not yet cleared them.
Held == {"asked", "read", "judged", "emitted", "resolved", "named", "bound", "moved", "copied"}
HoldsLock(t, h) ==
    LET u == afTurn[t] IN u.pc \in Held /\ u.host = h /\ (u.cycle \/ u.pc = "copied")


LockFree(t, h) == \A s \in AfThreads \ {t} : ~HoldsLock(s, h)

\* Where a call may start: a cycle's after its check, a direct one at any time.
Starts(t, h, cycle) ==
    /\ afTurn[t].pc = IF cycle THEN "checked" ELSE "idle"
    /\ cycle => afTurn[t].host = h

HostTurn(t, u) == afTurn' = [afTurn EXCEPT ![t] = u]
HostIs(h, host) == afHost' = [afHost EXCEPT ![h] = host]
At(t, pc) == afTurn[t].pc = pc

----------------------------------------------------------------------------
(* A forced test.                                                          *)

\* _check_privileged_cooldown: the clock, then the boundary's last reading.
Ask(t, h, cycle, trig) ==
    /\ Starts(t, h, cycle)
    /\ cycle => LockFree(t, h)
    /\ HostTurn(t, [pc |-> "asked", host |-> h, cycle |-> cycle, trig |-> trig,
                    at |-> afNow])
    /\ UNCHANGED <<afUse, afHost, afRows, afNow, afLog, afApplied>>

ReadLast(t) ==
    LET u == afTurn[t]
    IN /\ At(t, "asked")
       /\ HostTurn(t, [pc |-> "read", host |-> u.host, cycle |-> u.cycle, trig |-> u.trig,
                       at |-> u.at, last |-> afHost[u.host].privileged])
       /\ UNCHANGED <<afUse, afHost, afRows, afNow, afLog, afApplied>>

\* Without a reading the engine, under its lock, says whether it was ever forced.
Judge(t) ==
    LET u == afTurn[t]
        host == afHost[u.host]
        cooled == Cooled(u.last, host.engine.forced, u.at)
    IN /\ At(t, "read")
       /\ u.last = None => LockFree(t, u.host)
       /\ HostTurn(t, IF cooled THEN [u EXCEPT !.pc = "judged"] ELSE NewTurn)
       /\ HostIs(u.host, IF ~cooled /\ u.last = None
                         THEN [host EXCEPT !.privileged = u.at] ELSE host)
       /\ UNCHANGED <<afUse, afRows, afNow, afLog, afApplied>>

\* The engine's forced route, with checks and a clock reading of its own.
Force(t) ==
    LET u == afTurn[t]
        e == ForcedRuntime(afHost[u.host].engine, u.trig,
                           IF u.cycle THEN "cycle" ELSE "host", afNow)
    IN /\ At(t, "judged") /\ LockFree(t, u.host)
       /\ HostIs(u.host, [afHost[u.host] EXCEPT !.engine = e])
       /\ Emitted(u.host, e)
       /\ HostTurn(t, IF Happened(afHost[u.host].engine, e)
                      THEN [pc |-> "emitted", host |-> u.host, cycle |-> u.cycle,
                            at |-> u.at, receipt |-> e.last]
                      ELSE NewTurn)
       /\ UNCHANGED <<afUse, afRows, afNow, afApplied>>

\* _replace_runtime_receipt: still the last receipt, and pending in one place?
Resolve(t) ==
    LET u == afTurn[t]
        e == afHost[u.host].engine
        places == {i \in DOMAIN e.pending : e.pending[i].n = u.receipt.n}
    IN /\ At(t, "emitted")
       /\ HostTurn(t, IF e.last.n = u.receipt.n /\ Cardinality(places) = 1
                      THEN [pc |-> "resolved", host |-> u.host, cycle |-> u.cycle, at |-> u.at,
                            receipt |-> [u.receipt EXCEPT !.unrooted = TRUE],
                            place |-> CHOOSE i \in places : TRUE]
                      ELSE NewTurn)
       /\ UNCHANGED <<afUse, afHost, afRows, afNow, afLog, afApplied>>

WriteLast(t) ==
    LET u == afTurn[t]
    IN /\ At(t, "resolved")
       /\ HostIs(u.host, [afHost[u.host] EXCEPT !.engine.last = u.receipt])
       /\ HostTurn(t, [u EXCEPT !.pc = "named"])
       /\ UNCHANGED <<afUse, afRows, afNow, afLog, afApplied>>

\* The place may hold another receipt by now, or be gone: that raises.
WritePending(t) ==
    LET u == afTurn[t]
        there == u.place \in DOMAIN afHost[u.host].engine.pending
    IN /\ At(t, "named")
       /\ HostIs(u.host, IF there
                         THEN [afHost[u.host] EXCEPT !.engine.pending[u.place] = u.receipt]
                         ELSE afHost[u.host])
       /\ HostTurn(t, IF there THEN [u EXCEPT !.pc = "bound"] ELSE NewTurn)
       /\ UNCHANGED <<afUse, afRows, afNow, afLog, afApplied>>

\* The boundary notes when it asked.  A direct test is over; its receipt stays.
Note(t) ==
    LET u == afTurn[t]
    IN /\ At(t, "bound")
       /\ HostIs(u.host, [afHost[u.host] EXCEPT !.privileged = u.at])
       /\ HostTurn(t, IF u.cycle THEN [pc |-> "moved", host |-> u.host, cycle |-> TRUE]
                      ELSE NewTurn)
       /\ UNCHANGED <<afUse, afRows, afNow, afLog, afApplied>>

----------------------------------------------------------------------------
(* Other calls, and the drain that ends a turn.                            *)

\* observe without context and advance_time: the engine's part.
Move(t, h, cycle, e) ==
    /\ Starts(t, h, cycle) /\ LockFree(t, h)
    /\ HostIs(h, [afHost[h] EXCEPT !.engine = e])
    /\ Emitted(h, e)
    /\ HostTurn(t, [pc |-> "moved", host |-> h, cycle |-> cycle])
    /\ UNCHANGED <<afUse, afRows, afNow, afApplied>>

MoveAdvance(t, h, cycle, ticks, to) ==
    to \in Decays(ticks) /\ Move(t, h, cycle, AdvanceTime(afHost[h].engine, ticks, to, afNow))

MoveObserve(t, h, cycle, a, to) ==
    /\ to \in Decays(TrustedElapsed(afHost[h].engine, afNow))
    /\ Move(t, h, cycle, ApplyStimulus(afHost[h].engine, a, FALSE, to, afNow))

\* drain_event_receipts: after a transition, or asked of the host on its own.
CopyReceipts(t, h) ==
    LET u == afTurn[t]
        alone == At(t, "idle")
    IN /\ LockFree(t, h)
       /\ alone \/ (At(t, "moved") /\ u.host = h)
       /\ HostTurn(t, [pc |-> "copied", host |-> h, cycle |-> ~alone /\ u.cycle,
                       receipts |-> afHost[h].engine.pending])
       /\ UNCHANGED <<afUse, afHost, afRows, afNow, afLog, afApplied>>

\* The end of the drain and the observation.  A cycle goes on to its commit, from
\* the copies; a direct caller has the receipts and nothing is committed.
ClearReceipts(t) ==
    LET u == afTurn[t]
        e == afHost[u.host].engine
    IN /\ At(t, "copied")
       /\ HostIs(u.host, [afHost[u.host] EXCEPT !.engine.pending = <<>>])
       /\ HostTurn(t, IF u.cycle
                      THEN [pc |-> "observed", host |-> u.host, receipts |-> u.receipts,
                            obs |-> Observation(e)]
                      ELSE NewTurn)
       /\ UNCHANGED <<afUse, afRows, afNow, afLog, afApplied>>

----------------------------------------------------------------------------
\* A checkpoint is captured under the lock too.
PublishHost(h) == ~(\E t \in AfThreads : HoldsLock(t, h)) /\ Publish(h)

\* Hosts, their cycles and the direct calls on both sides of the locks.
HostNext ==
    \/ AfTick
    \/ Calls("publish") /\ PublishHost("first")
    \/ \E ticks \in {0, LongTicks} : \E to \in Decays(ticks) : RestoreCurrent(ticks, to)
    \/ \E t \in afUse.threads :
         \/ \E h \in Hosts : Begin(t, h)
         \/ \E h \in DOMAIN afHost, cycle \in BOOLEAN :
              \/ \E trig \in {"admin", "self"} : Ask(t, h, cycle, trig)
              \/ /\ Calls("advance")
                 /\ \E ticks \in {EventTicks, LongTicks} :
                      \E to \in Decays(ticks) : MoveAdvance(t, h, cycle, ticks, to)
              \/ /\ Calls("stimulus")
                 /\ \E a \in Stimuli :
                      \E to \in Decays(0) \cup Decays(LongTicks) : MoveObserve(t, h, cycle, a, to)
         \/ ReadLast(t) \/ Judge(t) \/ Force(t)
         \/ Resolve(t) \/ WriteLast(t) \/ WritePending(t) \/ Note(t)
         \/ \E h \in DOMAIN afHost : CopyReceipts(t, h)
         \/ ClearReceipts(t) \/ Prepare(t) \/ Commit(t) \/ Settle(t)

HostSpec == AfInit /\ [][HostNext]_afVars

\* A row's receipt is the engine's, but for the trust that was written into it.
OfEngine(h, r) ==
    \E i \in DOMAIN afLog[h] : [r EXCEPT !.unrooted = FALSE] = [afLog[h][i] EXCEPT !.unrooted = FALSE]

=============================================================================
