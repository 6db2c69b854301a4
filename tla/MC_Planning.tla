---------------------------- MODULE MC_Planning -----------------------------
(***************************************************************************)
(* The stores that decide what is worked on and what is learned from it,   *)
(* each on its own: a behaviour picks one of them and runs only its        *)
(* actions.  The instances and bounds are those of the README's table of   *)
(* runs.                                                                   *)
(***************************************************************************)
EXTENDS ResourceLease, LongHorizon, TaskWakes, ClosedLoop, FeedbackJournal, Rezon,
        AffectHost, TLC

CONSTANT OneThread   \* one of AfThreads, for calls that are made by one thread

VARIABLE focus   \* the part this behaviour is about

suiteVars == <<focus, vars, planVars, twVars, clVars, fbVars, rezonVars, afVars>>

\* Resource leases: one key below the other.
MCKeys == {<<"repo", "a">>, <<"repo", "a", "b">>}

\* Long-horizon plan: two steps that share a key and two that wait for them.
Step(deps, priority, family, keys, maxAttempts) ==
    [deps |-> deps, priority |-> priority, family |-> family, keys |-> keys,
     maxAttempts |-> maxAttempts]
MCPlan == <<Step({}, 1, "f", {"k"}, 2), Step({1}, 0, "f", {}, 1),
            Step({}, 2, "g", {"k"}, 2), Step({1, 3}, 2, "g", {}, 1)>>
MCPlanBudgets == {[parallel |-> 1, perFamily |-> 1], [parallel |-> 3, perFamily |-> 1]}

\* Closed loop: which entry points an installation uses together.
MCEntrySets == {{"bounded", "host"}, {"learning"}, {"plain", "review"}}
MCGateBudget == [active |-> 3, retries |-> 1, backend |-> 2]

\* Rezon: an episode with evidence, a hypothesis on it, a test result and the
\* contradiction between the two, and runs with the schedules of the tests.
Obj(id, kind, strong, srcs, parts) ==
    [id |-> id, kind |-> kind, strong |-> strong, srcs |-> srcs, parts |-> parts, by |-> <<>>]
MCGiven == {Obj(<<"e">>, "evidence", FALSE, {}, {}),
            Obj(<<"h">>, "hypothesis", TRUE, {<<"e">>}, {}),
            Obj(<<"t">>, "test_result", FALSE, {}, {}),
            Obj(<<"c">>, "contradicts", FALSE, {}, {<<"h">>, <<"t">>})}
Nd(id, executor) ==
    [id |-> id, executor |-> executor, mandatory |-> FALSE, independent |-> FALSE,
     authority |-> FALSE, claimed |-> FALSE, attested |-> {}, lineage |-> id, blinded |-> {},
     accepts |-> {}, targets |-> {}, permits |-> {"test_result", "hypothesis", "claim"}]
Ver(id, targets) == [Nd(id, "verifier") EXCEPT !.mandatory = TRUE, !.targets = targets]
Ind(n, attested) == [n EXCEPT !.independent = TRUE, !.claimed = TRUE, !.attested = attested]
MCRuns == {"a", "b", "c", "d", "e"}
MCNodes ==
    [a |-> <<Ver("v", {<<"h">>}), Nd("contradiction_scanner", "scanner")>>,
     b |-> <<Ind(Nd("echo_hypothesis", "echo"), {<<"e">>}), Nd("falsifier", "falsifier")>>,
     c |-> <<Nd("contradiction_scanner", "none"),
             [Nd("falsifier", "falsifier") EXCEPT !.authority = TRUE]>>,
     d |-> <<Ind(Ver("w", {<<"e">>}), {<<"e">>})>>,
     e |-> <<[Ver("x", {<<"e">>}) EXCEPT !.executor = "none"]>>]
MCRunBudget == [a |-> 2, b |-> 1, c |-> 1, d |-> 1, e |-> 1]
MCContext == [a |-> FALSE, b |-> FALSE, c |-> FALSE, d |-> TRUE, e |-> FALSE]

\* Affective runtime: installations by what they call, from which threads, and
\* for how long: forced tests and advances from two threads, a restore beside a
\* host in use, organic turns, and a host that is used directly beside its cycle.
Use(profile, calls, threads, until) ==
    [profile |-> profile, calls |-> calls, threads |-> threads, until |-> until]
MCUses == {Use("reentrant", {"force", "advance"}, AfThreads, 2),
           Use("reentrant", {"force", "publish"}, OneThread, 2),
           Use("reentrant", {"stimulus", "integrate"}, OneThread, 1),
           Use("coupled", {"stimulus", "advance"}, OneThread, 1),
           Use("reentrant", {"host", "advance"}, AfThreads, 1),
           Use("reentrant", {"host", "advance"}, OneThread, 2),
           Use("reentrant", {"host", "advance", "publish"}, OneThread, 1),
           Use("coupled", {"host", "stimulus"}, OneThread, 1)}

\* The actors of the parts share their model values, so the group stays small.
Symmetry == Permutations(LeaseIds) \cup Permutations(Tasks)

----------------------------------------------------------------------------
(* Named bounds: which interleavings of a part are left out.               *)

\* A lease with at most two claims; at most one of two leases with two.
LeaseBound ==
    /\ \A id \in Live : Cardinality(leases[id].claims) <= 2
    /\ Cardinality({id \in Live : Cardinality(leases[id].claims) = 2}) <= 1

\* One work with a correction cycle, one that is being run at a time, and
\* reviews that bind nothing or one of two sets of evidence.
LoopBound ==
    /\ Cardinality({w \in Works : cycle[w] # <<>>}) <= 1
    /\ Cardinality({runner[r].w : r \in Runners} \ {"none"}) <= 1
    /\ review.bound \in {{}, {"i1", "i2"}, {"i2"}}

\* Runs a and b together while the episode has at most six events, the others alone.
Started == {r \in Runs : run[r] # Idle}
EpisodeBound == Cardinality(Started) <= 1 \/ (Started = {"a", "b"} /\ version <= 6)

\* Three receipts of an engine and three rows; beside direct calls two receipts,
\* one row, the length of one event, no commit in doubt, and one direct call at a
\* time that is taken apart.
AffectBound ==
    /\ Len(afRows) <= 3 /\ Len(afApplied) <= 2
    /\ \A h \in DOMAIN afHost :
         /\ afHost[h].engine.emitted <= IF CyclesOnly THEN 3 ELSE 2
         /\ afHost[h].engine.time <= 4
    /\ ~CyclesOnly =>
         /\ Len(afRows) <= 1
         /\ \A h \in DOMAIN afHost :
              afHost[h].engine.time <= EventTicks /\ ~afHost[h].uncertain
         /\ Cardinality({t \in AfThreads : afTurn[t].pc \in Held /\ ~afTurn[t].cycle}) <= 1

\* A second identity of a sample once something is revoked; a fourth event then,
\* or with one process open, and a fifth under both; a file replaced under the
\* one open process keeps two events at most, which that process still matches.
Restaged == {i \in 1..Len(fbJournal) : \E c \in Cues : fbJournal[i].pending.rev[c].id = 2}
FeedbackBound ==
    /\ \A i \in Restaged : fbJournal[i].revoked # {}
    /\ Len(fbJournal) = 5 => Restaged # {} /\ signed = {} /\ Cardinality(opened) = 1
    /\ Len(fbJournal) = 4 => Restaged # {} \/ Cardinality(opened) <= 1
    /\ replaced =>
           /\ Len(fbJournal) <= 2 /\ Len(pinned) <= 3 /\ Restaged = {}
           /\ Cardinality(opened) = 1
           /\ \A i \in 1..Len(fbJournal) : Cardinality(fbJournal[i].pending.cases) <= 1
           /\ \A p \in opened : Len(resident[p]) <= 3
           /\ \E p \in opened : fbJournal = resident[p]
           /\ \A d \in signed : d.head = fbJournal

Bounds == LeaseBound /\ LoopBound /\ EpisodeBound /\ AffectBound /\ FeedbackBound

----------------------------------------------------------------------------
SuiteInit ==
    /\ focus \in {"leases", "plan", "wakes", "loop", "feedback", "rezon", "affect", "direct"}
    /\ Init /\ PlanInit /\ TwInit /\ ClInit /\ FbInit /\ RezonInit /\ AfInit
    /\ focus # "loop" => entries = {"learning"}
    /\ focus \notin {"affect", "direct"} => afUse.calls = {"force", "advance"}
    /\ focus = "affect" => "host" \notin afUse.calls
    /\ focus = "direct" => "host" \in afUse.calls

SuiteNext ==
    /\ UNCHANGED focus
    /\ \/ focus = "leases" /\ Next
             /\ UNCHANGED <<planVars, twVars, clVars, fbVars, rezonVars, afVars>>
       \/ focus = "plan" /\ PlanNext
             /\ UNCHANGED <<vars, twVars, clVars, fbVars, rezonVars, afVars>>
       \/ focus = "wakes" /\ TwNext
             /\ UNCHANGED <<vars, planVars, clVars, fbVars, rezonVars, afVars>>
       \/ focus = "loop" /\ ClNext
             /\ UNCHANGED <<vars, planVars, twVars, fbVars, rezonVars, afVars>>
       \/ focus = "feedback" /\ FbNext
             /\ UNCHANGED <<vars, planVars, twVars, clVars, rezonVars, afVars>>
       \/ focus = "rezon" /\ RezonNext
             /\ UNCHANGED <<vars, planVars, twVars, clVars, fbVars, afVars>>
       \/ focus = "affect" /\ AfNext
             /\ UNCHANGED <<vars, planVars, twVars, clVars, fbVars, rezonVars>>
       \/ focus = "direct" /\ HostNext
             /\ UNCHANGED <<vars, planVars, twVars, clVars, fbVars, rezonVars>>

SuiteSpec == SuiteInit /\ [][SuiteNext]_suiteVars

(***************************************************************************)
(* Every store of this run keeps to the shape its code reads back: the     *)
(* type invariants of the parts.                                           *)
(***************************************************************************)
PartsTyped ==
    /\ focus = "leases" => TypeOK
    /\ focus = "plan" => PlanTypeOK
    /\ focus = "wakes" => TwTypeOK
    /\ focus = "loop" => ClTypeOK
    /\ focus = "feedback" => FbTypeOK
    /\ focus = "rezon" => RezonTypeOK
    /\ focus \in {"affect", "direct"} => AfTypeOK
=============================================================================
