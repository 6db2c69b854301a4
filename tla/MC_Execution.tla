---------------------------- MODULE MC_Execution ----------------------------
(***************************************************************************)
(* The stores external work passes through, each on its own: a behaviour   *)
(* picks one of them and runs only its actions.  The instances and bounds  *)
(* are those of the README's table of runs.                                *)
(***************************************************************************)
EXTENDS EffectFence, PCJobs, CoordinationCommands, CoordinationBus, InferenceBoundary,
        Verification, EvidenceCycle, TLC

CONSTANTS p1, p2, p3

VARIABLE focus   \* the part this behaviour is about

parts == <<fenceVars, pcVars, cmdVars, busVars, invVars, verVars, evVars>>
suiteVars == <<focus, parts>>

\* Coordination bus: two streams, a thread with its answers and a decision.
Message(thread, src, tgt, kind) == [thread |-> thread, src |-> src, tgt |-> tgt, kind |-> kind]
MCMessages == {Message("t", "s1", "s2", "STATUS"), Message("t", "s2", "s1", "REVIEW"),
               Message("t", "s2", "s1", "RESOLUTION"), Message("u", "s1", "-", "DECISION")}
MCReferences == {<<0, 0>>, <<1, 0>>, <<0, 1>>}

\* Inference boundary: a mandatory component, one with a narrow scope and one
\* of a forbidden domain.
MCComponents ==
    {[id |-> "k1", mandatory |-> TRUE, scopes |-> {"near", "far"}, domain |-> "plain"],
     [id |-> "k2", mandatory |-> FALSE, scopes |-> {"near"}, domain |-> "plain"],
     [id |-> "k3", mandatory |-> FALSE, scopes |-> {"near", "far"}, domain |-> "barred"]}

\* Verification: what the packets of the repository's tests require.
MCPackets == {{"source", "install"}, {"route", "consume"},
              {"consume", "behavior", "attest"}, {"consume", "behavior", "review"}}

\* Evidence cycle: a chain of prerequisites whose first is also read over the
\* route of the domains that wait for it; a domain behind semantic currentness;
\* one whose authority and proposition select different dispatches; and a
\* cyclic, too deep and private neighbourhood.
Dom(deps, privacy, targets) == [deps |-> deps, privacy |-> privacy, targets |-> targets]
At(src, route) == [src |-> src, route |-> route]
MCDomains ==
    [g |-> Dom(<<>>, "open", <<At("g1", "r1"), At("g2", "r2")>>),
     c |-> Dom(<<"g">>, "open", <<At("c1", "r1")>>),
     d |-> Dom(<<"c", "x", "y">>, "open", <<At("d1", "r2")>>),
     x |-> Dom(<<"d", "g">>, "open", <<At("c1", "r1")>>),
     y |-> Dom(<<"d", "z">>, "private", <<At("y1", "r1")>>),
     k |-> Dom(<<"c", "g">>, "open", <<At("k1", "r2")>>),
     s |-> Dom(<<>>, "open", <<At("s1", "r1"), At("s2", "r1")>>),
     e |-> Dom(<<"s">>, "open", <<At("e1", "r1")>>),
     h |-> Dom(<<>>, "open", <<At("h1", "r1"), At("h2", "r9")>>),
     f |-> Dom(<<"h">>, "none", <<At("f1", "r1")>>)]
Row(id, resolver, scope, prop, rank) ==
    [id |-> id, resolver |-> resolver, scope |-> scope, prop |-> prop, rank |-> rank]
MCDispatches == {Row(1, "general", "*", "p", 1), Row(2, "special", "c", "q", 1),
                 Row(3, "semantic", "s", "currentness", 1),
                 Row(4, "other", "h", "o", 1), Row(5, "general", "h", "o", 2)}
MCAuthority == [g |-> "general", c |-> "special", s |-> "semantic", h |-> "other"]
MCDecisive == (1 :> [all |-> {}, any |-> {"control_source", "live_observation"}])
           @@ (2 :> [all |-> {"control_source"}, any |-> {}])
           @@ (3 :> [all |-> {"control_source", "live_observation"}, any |-> {}])
           @@ (4 :> [all |-> {"control_source"}, any |-> {}])
MCAccepted == [general |-> {"control_source", "live_observation"},
               special |-> {"control_source"},
               semantic |-> {"control_source", "live_observation"}, other |-> {"control_source"}]
Item(class, echoes, current, conflict) ==
    [class |-> class, bound |-> echoes, current |-> current, conflict |-> conflict,
     coherent |-> TRUE]
MCItems == {Item("control_source", TRUE, TRUE, "NONE"), Item("live_observation", TRUE, TRUE, "NONE"),
            Item("control_source", TRUE, FALSE, "CONFLICT"),
            Item("control_source", TRUE, FALSE, "NONE"),
            Item("control_source", FALSE, TRUE, "NONE")}

\* The actors of all parts are the same two model values, and the commands of
\* one part are the generations of another, so the group stays small.
Symmetry == Permutations({p1, p2}) \cup Permutations(CommandIds)

----------------------------------------------------------------------------
(* Named bounds: which interleavings of a part are left out.               *)

\* A second attempt, and two executors at once: in the window, without
\* cancellation.
PCBound ==
    /\ NewestAttempt = 2 => pcCancel = "NONE" /\ inWindow
    /\ Cardinality({x \in Executors : pcExec[x].step # "idle"}) = 2 =>
           /\ pcCancel = "NONE" /\ inWindow /\ pcJob \notin TerminalJobStates
           /\ NewestAttempt = 2 => /\ Cardinality({pcExec[x].a : x \in Executors}) = 2
                                   /\ pcJob # "RECOVERY_REQUIRED"

\* Either two processes post, or one posts through its guard, or one posts
\* while the streams read.
Unread == \A w \in Streams : cursor[w] = 0 /\ page[w] = NoPage
Unguarded == seen[p3] = {} /\ lastNow[p3] = 0 /\ busCall[p3] = NoCall /\ mine[p3] = {}
Silent(p) == busCall[p] = NoCall /\ mine[p] = {}
BusBound ==
    /\ \A p \in BusProcs : Cardinality(usedTokens[p]) <= 1
    /\ \/ Unread /\ Unguarded /\ \A w \in Streams : handled[w] = {}
       \/ Unread /\ \A p \in {p1, p2} : Silent(p) /\ usedTokens[p] = {}
       \/ Unguarded /\ \E p \in {p1, p2} : Silent(p) /\ \A q \in {p1, p2} : usedTokens[q] = {}

\* Two generations only of the smallest admission while the sources rest, and
\* one of them recorded without foundation.
InvocationBound ==
    Cardinality(DOMAIN disk) > 1 =>
        /\ sourceMoves = 0 /\ Cardinality(unfounded) <= 1
        /\ \A a \in admissions : a.chosen = Mandatory(Components) /\ a.scope = "near"

Bounds == PCBound /\ BusBound /\ InvocationBound

----------------------------------------------------------------------------
SuiteInit ==
    /\ focus \in {"fence", "pc", "commands", "bus", "invocation", "verification",
                 "evidence"}
    /\ Init /\ PCInit /\ CmdInit /\ BusInit /\ InvInit /\ VerInit /\ EvInit
    /\ focus # "pc" => effectClass = "READ"
    /\ focus # "verification" => packet = {"source", "install"}

SuiteNext ==
    /\ UNCHANGED focus
    /\ \/ focus = "fence" /\ Next
             /\ UNCHANGED <<pcVars, cmdVars, busVars, invVars, verVars, evVars>>
       \/ focus = "pc" /\ PCNext
             /\ UNCHANGED <<fenceVars, cmdVars, busVars, invVars, verVars, evVars>>
       \/ focus = "commands" /\ CmdNext
             /\ UNCHANGED <<fenceVars, pcVars, busVars, invVars, verVars, evVars>>
       \/ focus = "bus" /\ BusNext
             /\ UNCHANGED <<fenceVars, pcVars, cmdVars, invVars, verVars, evVars>>
       \/ focus = "invocation" /\ InvNext
             /\ UNCHANGED <<fenceVars, pcVars, cmdVars, busVars, verVars, evVars>>
       \/ focus = "verification" /\ VerNext
             /\ UNCHANGED <<fenceVars, pcVars, cmdVars, busVars, invVars, evVars>>
       \/ focus = "evidence" /\ EvNext
             /\ UNCHANGED <<fenceVars, pcVars, cmdVars, busVars, invVars, verVars>>

SuiteSpec == SuiteInit /\ [][SuiteNext]_suiteVars

(***************************************************************************)
(* Every store of this run keeps to the shape its code reads back: the     *)
(* type invariants of the parts.                                           *)
(***************************************************************************)
PartsTyped ==
    /\ focus = "fence" => TypeOK
    /\ focus = "pc" => PCTypeOK
    /\ focus = "commands" => CmdTypeOK
    /\ focus = "bus" => BusTypeOK
    /\ focus = "invocation" => InvTypeOK
    /\ focus = "verification" => VerTypeOK
    /\ focus = "evidence" => EvTypeOK
=============================================================================
