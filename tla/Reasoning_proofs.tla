------------------------- MODULE Reasoning_proofs --------------------------
(***************************************************************************)
(* What is proved of the two state machines a mind runs on beside its      *)
(* plans: a reasoning episode and the runs that work on it (Rezon), for    *)
(* any number of runs, nodes and objects and whatever executors and        *)
(* verifiers report; and the affective engine with the hosts and cycles    *)
(* over it (AffectCycle), for any number of threads, any length of time    *)
(* and any limit on self-qualification.                                    *)
(***************************************************************************)
EXTENDS Rezon, AffectCycle, FiniteSetTheorems, WellFoundedInduction, TLAPS

----------------------------------------------------------------------------
(* The reasoning episode: the inductive invariant.                         *)

\* What is known is known under its identity, and the history of events is
\* counted: one for what is current, two for what was retracted.
EpisodeShaped ==
    /\ IsFiniteSet(DOMAIN known) /\ Cardinality(DOMAIN known) <= MaxObjects
    /\ active \subseteq DOMAIN known
    /\ \A i \in DOMAIN known : known[i].id = i
    /\ version = Cardinality(DOMAIN known) + Cardinality(DOMAIN known \ active)

\* The fields of a run, and those it has beside them while a node is under way.
ProgressShaped(r, p) ==
    /\ p.pc \in {"ready", "scheduled", "viewed", "executed", "done"}
    /\ p.used \in Nat /\ p.used <= RunBudget[r] /\ p.failed \in BOOLEAN
    /\ p.pc = "ready" => p = [pc |-> "ready", completed |-> p.completed, used |-> p.used,
                              records |-> p.records, failed |-> p.failed, prior |-> p.prior]
    /\ p.pc \in {"scheduled", "viewed", "executed"} =>
           p.used < RunBudget[r] /\ p.node \in Nodes(r)

\* A view taken at the current version still shows current objects only.
ViewFresh(p, act, ver) ==
    p.pc \in {"viewed", "executed"} =>
        p.snap \in Nat /\ p.snap <= ver /\ (p.snap = ver => p.view \subseteq act)

\* What an executor returned is at most one object, of this run and node.
AtMostOneObject(r, n, snap, emitted) ==
    \/ emitted = {}
    \/ \E o : emitted = {o} /\ o.by = <<r, n.id, snap>>

ResultShaped(r, p) ==
    p.pc = "executed" => AtMostOneObject(r, p.node, p.snap, p.result.emitted)

\* The episode holds the verification of node n of run r.
VerifiedIn(kn, r, n) ==
    \E i \in DOMAIN kn : /\ kn[i].kind = "test_result" /\ kn[i].by # NoObject
                         /\ kn[i].by[1] = r /\ kn[i].by[2] = n.id
                         /\ n.targets \subseteq kn[i].srcs

\* Until a run fails it has verified what mandatory verifiers it has dealt with,
\* and it ends without having failed only when it has dealt with all of them.
EarnedSoFar(r, p, kn) ==
    ~p.failed =>
        \A n \in Nodes(r) : n.mandatory =>
            /\ n.id \in p.completed => VerifiedIn(kn, r, n)
            /\ p.pc = "done" => n.id \in p.completed

RunLawful(r, p, kn, act, ver) ==
    ProgressShaped(r, p) /\ ViewFresh(p, act, ver) /\ ResultShaped(r, p) /\ EarnedSoFar(r, p, kn)

EpisodeInv ==
    /\ EpisodeShaped /\ EpisodeCurrent
    /\ run = [r \in Runs |-> run[r]]
    /\ \A r \in Runs : RunLawful(r, run[r], known, active, version)

\* Every set of naturals that is not empty has a least element.
LEMMA LeastNatural ==
    ASSUME NEW T, T \subseteq Nat, T # {}
    PROVE  Min(T) \in T /\ \A y \in T : Min(T) <= y
<1> DEFINE R == OpToRel(<, Nat)
<1>1. IsWellFoundedOn(R, Nat)
  BY NatLessThanWellFounded
<1> HIDE DEF R
<1>2. PICK x \in T : \A y \in T : ~(<<y, x>> \in R)
  BY <1>1, WFMin
<1>3. \A y \in T : ~(y < x)
  BY <1>2 DEF R, OpToRel
<1>4. \E z \in T : \A y \in T : z <= y
  BY <1>3
<1> QED
  BY <1>4 DEF Min

\* What the scheduler names is a node of the run, and while a mandatory verifier
\* is pending it names one.
LEMMA ScheduledNode ==
    ASSUME NEW r \in Runs
    PROVE  /\ \A d \in Applicable(r) : d.node \in Nodes(r)
           /\ Verifiers(r) # {} => Applicable(r) # {}
<1>0. DOMAIN RunNodes[r] = 1 .. Len(RunNodes[r]) /\ Len(RunNodes[r]) \in Nat
  BY RezonAssumption
<1>1. \A i \in DOMAIN RunNodes[r] : RunNodes[r][i] \in Nodes(r)
  BY DEF Nodes, ToSet
<1>2. CASE Verifiers(r) # {}
  <2>1. Verifiers(r) \subseteq Nat /\ Verifiers(r) \subseteq DOMAIN RunNodes[r]
    BY <1>0 DEF Verifiers
  <2>2. PICK n \in Nodes(r) : n = RunNodes[r][Min(Verifiers(r))]
    BY <1>1, <1>2, <2>1, LeastNatural
  <2>3. Applicable(r) = [node : {n}, target : {NoObject}]
    BY <1>2, <2>2 DEF Applicable
  <2>4. [node |-> n, target |-> NoObject] \in Applicable(r)
    BY <2>3
  <2>5. \A d \in [node : {n}, target : {NoObject}] : d.node \in Nodes(r)
    OBVIOUS
  <2> QED
    BY <2>3, <2>4, <2>5
<1>3. CASE Verifiers(r) = {}
  <2> DEFINE nodes == Pending(r)
  <2>1. \A id : Named(nodes, id) \subseteq Nodes(r)
    BY DEF Named, Pending
  <2>2. Applicable(r) \in {Scans(nodes), Generates(nodes), Falsifies(nodes)}
    BY <1>3 DEF Applicable
  <2> HIDE DEF nodes
  <2>3. \A d \in Scans(nodes) \cup Generates(nodes) \cup Falsifies(nodes) : d.node \in Nodes(r)
    BY <2>1 DEF Scans, Generates, Falsifies
  <2> QED
    BY <1>3, <2>2, <2>3
<1> QED
  BY <1>2, <1>3

\* Nodes of a run are told apart by their identities.
LEMMA NodeIdentity ==
    ASSUME NEW r \in Runs, NEW n \in Nodes(r), NEW m \in Nodes(r), n.id = m.id
    PROVE  n = m
BY RezonAssumption DEF Nodes, ToSet

\* A step of one run that leaves the episode as it is.
LEMMA RunMoved ==
    ASSUME EpisodeInv, NEW r \in Runs, NEW p,
           run' = [run EXCEPT ![r] = p], RunLawful(r, p, known, active, version),
           UNCHANGED <<known, active, version, outdated>>
    PROVE  EpisodeInv'
<1>1. EpisodeShaped' /\ EpisodeCurrent'
  BY DEF EpisodeInv, EpisodeShaped, EpisodeCurrent
<1>2. DOMAIN run = Runs
  BY DEF EpisodeInv
<1>3. run' = [q \in Runs |-> run'[q]] /\ run'[r] = p /\ \A q \in Runs \ {r} : run'[q] = run[q]
  BY <1>2
<1>4. ASSUME NEW q \in Runs PROVE RunLawful(q, run'[q], known', active', version')
  <2>1. CASE q = r
    BY <1>3, <2>1
  <2>2. CASE q # r
    BY <1>3, <2>2 DEF EpisodeInv
  <2> QED
    BY <2>1, <2>2
<1> QED
  BY <1>1, <1>3, <1>4 DEF EpisodeInv

\* What is established of a run survives what others add to the episode or
\* retract from it: the version tells whether the view is still current.
LEMMA LawKept ==
    ASSUME NEW r \in Runs, NEW p, NEW kn, NEW kn2, NEW act, NEW act2,
           NEW ver \in Nat, NEW ver2 \in Nat, RunLawful(r, p, kn, act, ver),
           ver <= ver2, ver = ver2 => act \subseteq act2,
           DOMAIN kn \subseteq DOMAIN kn2, \A i \in DOMAIN kn : kn2[i] = kn[i]
    PROVE  RunLawful(r, p, kn2, act2, ver2)
<1>1. ViewFresh(p, act2, ver2)
  BY DEF RunLawful, ViewFresh
<1>2. \A n \in Nodes(r) : VerifiedIn(kn, r, n) => VerifiedIn(kn2, r, n)
  BY DEF VerifiedIn
<1>3. EarnedSoFar(r, p, kn2)
  BY <1>2 DEF RunLawful, EarnedSoFar
<1> QED
  BY <1>1, <1>3 DEF RunLawful

\* Whatever the executor, it returns at most one object of its run and node.
LEMMA ResultsOne ==
    ASSUME NEW r \in Runs, NEW n, NEW view, NEW result \in Results(r, n, view)
    PROVE  AtMostOneObject(r, n, run[r].snap, result.emitted)
<1>1. \A kind, srcs : Object(r, n, kind, srcs).by = <<r, n.id, run[r].snap>>
  BY DEF Object
<1>2. /\ AtMostOneObject(r, n, run[r].snap, Emits({}).emitted)
      /\ \A kind, srcs : AtMostOneObject(r, n, run[r].snap, Emits({Object(r, n, kind, srcs)}).emitted)
  BY <1>1 DEF Emits, AtMostOneObject
<1>3. ASSUME result \in EchoResults(r, n, view)
      PROVE  AtMostOneObject(r, n, run[r].snap, result.emitted)
  BY <1>2, <1>3 DEF EchoResults
<1>4. ASSUME result \in ScannerResults(r, n, view)
      PROVE  AtMostOneObject(r, n, run[r].snap, result.emitted)
  BY <1>2, <1>4 DEF ScannerResults
<1>5. ASSUME result \in FalsifierResults(r, n, view)
      PROVE  AtMostOneObject(r, n, run[r].snap, result.emitted)
  BY <1>2, <1>5 DEF FalsifierResults
<1>6. ASSUME result \in VerifierResults(r, n, view)
      PROVE  AtMostOneObject(r, n, run[r].snap, result.emitted)
  <2> DEFINE tests == {Object(r, n, "test_result", refs) :
                         refs \in {{}, n.targets, n.targets \cup {<<"unseen">>}}}
  <2> DEFINE passed == [emitted : {{}} \cup {{t} : t \in tests}, status : {"passed"},
                        targets : {n.targets}, failures : {FALSE}]
  <2> DEFINE sound == [emitted |-> {Object(r, n, "test_result", n.targets)}, status |-> "passed",
                       targets |-> n.targets, failures |-> FALSE]
  <2>1. result \in passed \cup {[sound EXCEPT !.status = "failed"], [sound EXCEPT !.targets = {}],
                                [sound EXCEPT !.failures = TRUE]}
    BY <1>6 DEF VerifierResults
  <2>2. ASSUME result \in passed PROVE AtMostOneObject(r, n, run[r].snap, result.emitted)
    <3>1. result.emitted = {} \/ \E t \in tests : result.emitted = {t}
      BY <2>2
    <3>2. \A t \in tests : t.by = <<r, n.id, run[r].snap>>
      BY <1>1
    <3> HIDE DEF tests
    <3> QED
      BY <3>1, <3>2 DEF AtMostOneObject
  <2>3. ASSUME result \notin passed PROVE AtMostOneObject(r, n, run[r].snap, result.emitted)
    <3>1. result.emitted = {Object(r, n, "test_result", n.targets)}
      <4> HIDE DEF passed
      <4>1. \/ result = [sound EXCEPT !.status = "failed"] \/ result = [sound EXCEPT !.targets = {}]
            \/ result = [sound EXCEPT !.failures = TRUE]
        BY <2>1, <2>3
      <4> QED
        BY <4>1
    <3> QED
      BY <1>1, <3>1 DEF AtMostOneObject
  <2> QED
    BY <2>2, <2>3
<1>7. CASE n.executor = "echo"
  <2>1. Results(r, n, view) = EchoResults(r, n, view)
    BY <1>7, Zenon DEF Results
  <2> QED
    BY <1>3, <2>1
<1>8. CASE n.executor = "scanner"
  <2>1. Results(r, n, view) = ScannerResults(r, n, view)
    <3>1. n.executor # "echo"
      BY <1>8
    <3> QED
      BY <1>8, <3>1, Zenon DEF Results
  <2> QED
    BY <1>4, <2>1
<1>9. CASE n.executor = "falsifier"
  <2>1. Results(r, n, view) = FalsifierResults(r, n, view)
    <3>1. n.executor # "echo" /\ n.executor # "scanner"
      BY <1>9
    <3> QED
      BY <1>9, <3>1, Zenon DEF Results
  <2> QED
    BY <1>5, <2>1
<1>10. CASE n.executor \notin {"echo", "scanner", "falsifier"}
  <2>1. Results(r, n, view) = VerifierResults(r, n, view)
    <3>1. n.executor # "echo" /\ n.executor # "scanner" /\ n.executor # "falsifier"
      BY <1>10
    <3> QED
      BY <3>1, Zenon DEF Results
  <2> QED
    BY <1>6, <2>1
<1> QED
  BY <1>7, <1>8, <1>9, <1>10

\* A run that has failed has nothing to have earned.
LEMMA FailedEarned ==
    ASSUME NEW r, NEW p, NEW kn, p.failed = TRUE
    PROVE  EarnedSoFar(r, p, kn)
BY DEF EarnedSoFar

\* A node that is scheduled, refused or fails: the episode does not change.
LEMMA RunStep ==
    ASSUME EpisodeInv, NEW r \in Runs,
           \/ Terminate(r) \/ Unexecutable(r) \/ Schedule(r) \/ TakeView(r)
           \/ Execute(r) \/ ExecuteFails(r) \/ Reject(r)
    PROVE  EpisodeInv'
<1>0. /\ ProgressShaped(r, run[r]) /\ ViewFresh(run[r], active, version)
      /\ ResultShaped(r, run[r]) /\ EarnedSoFar(r, run[r], known)
      /\ RunBudget[r] \in Nat /\ version \in Nat
  <2>1. version \in Nat
    <3>1. IsFiniteSet(DOMAIN known \ active)
      BY FS_Difference DEF EpisodeInv, EpisodeShaped
    <3> QED
      BY <3>1, FS_CardinalityType DEF EpisodeInv, EpisodeShaped
  <2> QED
    BY <2>1, RezonAssumption DEF EpisodeInv, RunLawful
<1> DEFINE Lawful2(p) == RunLawful(r, p, known, active, version)
<1>m. ASSUME NEW p, run' = [run EXCEPT ![r] = p], Lawful2(p),
             UNCHANGED <<known, active, version, outdated>>
      PROVE  EpisodeInv'
  BY <1>m, RunMoved
<1>1. CASE Terminate(r)
  <2> DEFINE p == Ended(r, Applicable(r) # {})
  <2>1. /\ run[r].pc = "ready" /\ run' = [run EXCEPT ![r] = p]
        /\ UNCHANGED <<known, active, version, outdated>>
    BY <1>1 DEF Terminate
  <2>2. /\ p.pc = "done" /\ p.completed = run[r].completed /\ p.used = run[r].used
        /\ p.failed = (run[r].failed \/ Applicable(r) # {})
    BY <1>0, <2>1 DEF Ended, ProgressShaped
  <2>3. EarnedSoFar(r, p, known)
    <3> SUFFICES ASSUME ~p.failed, NEW n \in Nodes(r), n.mandatory
                 PROVE  /\ n.id \in p.completed => VerifiedIn(known, r, n)
                        /\ n.id \in p.completed
      BY DEF EarnedSoFar
    <3>1. ~run[r].failed /\ Verifiers(r) = {}
      BY <2>2, ScheduledNode
    <3>2. n.id \in run[r].completed
      BY <3>1 DEF Nodes, ToSet, Verifiers
    <3> QED
      BY <1>0, <2>2, <3>1, <3>2 DEF EarnedSoFar
  <2>4. Lawful2(p)
    <3> HIDE DEF p
    <3> QED
      BY <1>0, <2>2, <2>3 DEF RunLawful, ProgressShaped, ViewFresh, ResultShaped
  <2> HIDE DEF Lawful2, p
  <2> QED
    BY <1>m, <2>1, <2>4
<1>2. CASE Schedule(r)
  <2>1. PICK d \in Dispatched(r) :
            /\ run[r].pc = "ready"
            /\ run' = [run EXCEPT ![r] = [pc |-> "scheduled", node |-> d.node, target |-> d.target,
                                          completed |-> run[r].completed, used |-> run[r].used,
                                          records |-> run[r].records, failed |-> run[r].failed,
                                          prior |-> run[r].prior]]
            /\ UNCHANGED <<known, active, version, outdated>>
    BY <1>2 DEF Schedule
  <2> DEFINE p == [pc |-> "scheduled", node |-> d.node, target |-> d.target,
                   completed |-> run[r].completed, used |-> run[r].used,
                   records |-> run[r].records, failed |-> run[r].failed,
                   prior |-> run[r].prior]
  <2>2. run[r].used < RunBudget[r] /\ d.node \in Nodes(r)
    BY ScheduledNode DEF Dispatched
  <2>3. /\ p.pc = "scheduled" /\ p.node \in Nodes(r) /\ p.used = run[r].used
        /\ p.completed = run[r].completed /\ p.failed = run[r].failed
    BY <2>2
  <2>4. Lawful2(p)
    <3> HIDE DEF p
    <3> QED
      BY <1>0, <2>2, <2>3 DEF RunLawful, ProgressShaped, ViewFresh, ResultShaped, EarnedSoFar
  <2> HIDE DEF Lawful2
  <2> QED
    BY <1>m, <2>1, <2>4
<1> DEFINE Plain(q) == /\ q.pc \in {"ready", "done"} /\ q.failed = TRUE
                       /\ q.used \in Nat /\ q.used <= RunBudget[r]
                       /\ q = [pc |-> q.pc, completed |-> q.completed, used |-> q.used,
                               records |-> q.records, failed |-> q.failed, prior |-> q.prior]
<1>f. ASSUME NEW q, Plain(q) PROVE Lawful2(q)
  BY <1>f, FailedEarned DEF RunLawful, ProgressShaped, ViewFresh, ResultShaped
<1>3. CASE Unexecutable(r)
  <2>1. PICK d \in Dispatched(r) :
            /\ run[r].pc = "ready"
            /\ run' = [run EXCEPT ![r] =
                         IF d.node.authority THEN Ended(r, TRUE) ELSE Skipped(r, d.node)]
            /\ UNCHANGED <<known, active, version, outdated>>
    BY <1>3 DEF Unexecutable
  <2>2. Plain(Ended(r, TRUE))
    <3>1. Ended(r, TRUE).pc = "done" /\ Ended(r, TRUE).used = run[r].used
      BY DEF Ended
    <3> QED
      BY <1>0, <3>1 DEF Ended, ProgressShaped, Plain
  <2>3. Plain(Skipped(r, d.node))
    <3>1. /\ Skipped(r, d.node).pc \in {"ready", "done"}
          /\ Skipped(r, d.node).used = run[r].used
      BY DEF Skipped
    <3> QED
      BY <1>0, <3>1 DEF Skipped, ProgressShaped, Plain
  <2> HIDE DEF Lawful2, Plain
  <2>4. Lawful2(Ended(r, TRUE)) /\ Lawful2(Skipped(r, d.node))
    BY <1>f, <2>2, <2>3
  <2>5. CASE d.node.authority
    BY <1>m, <2>1, <2>4, <2>5
  <2>6. CASE ~d.node.authority
    BY <1>m, <2>1, <2>4, <2>6
  <2> QED
    BY <2>5, <2>6
<1>g. ASSUME NEW ends \in BOOLEAN, run[r].pc \in {"scheduled", "viewed", "executed"}
      PROVE  Lawful2(Failing(r, run[r].node, ends))
  <2>1. /\ Failing(r, run[r].node, ends).pc \in {"ready", "done"}
        /\ Failing(r, run[r].node, ends).used = run[r].used + 1
    BY DEF Failing
  <2>2. run[r].used + 1 \in Nat /\ run[r].used + 1 <= RunBudget[r]
    BY <1>0, <1>g DEF ProgressShaped
  <2>3. Plain(Failing(r, run[r].node, ends))
    BY <2>1, <2>2 DEF Failing, Plain
  <2> HIDE DEF Lawful2, Plain
  <2> QED
    BY <1>f, <2>3
<1>4. CASE ExecuteFails(r)
  <2>1. /\ run[r].pc = "viewed"
        /\ run' = [run EXCEPT ![r] = Failing(r, run[r].node, run[r].node.mandatory)]
        /\ UNCHANGED <<known, active, version, outdated>>
    BY <1>4 DEF ExecuteFails
  <2>2. run[r].node.mandatory \in BOOLEAN
    BY <1>0, <2>1, RezonAssumption DEF ProgressShaped, Nodes, ToSet
  <2> HIDE DEF Lawful2
  <2> QED
    BY <1>g, <1>m, <2>1, <2>2
<1>5. CASE Reject(r)
  <2> DEFINE p == Advanced(r, TRUE, {})
  <2>1. run[r].pc = "executed" /\ run' = [run EXCEPT ![r] = p] /\ UNCHANGED <<known, active, version, outdated>>
    BY <1>5 DEF Reject
  <2>2. p.pc = "ready" /\ p.used = run[r].used + 1
    BY DEF Advanced
  <2>3. run[r].used + 1 \in Nat /\ run[r].used + 1 <= RunBudget[r]
    BY <1>0, <2>1 DEF ProgressShaped
  <2>4. p.failed = TRUE
    BY DEF Advanced
  <2>5. Plain(p)
    BY <2>2, <2>3, <2>4 DEF Advanced, Plain
  <2> HIDE DEF p, Lawful2, Plain
  <2>6. Lawful2(p)
    BY <1>f, <2>5
  <2> QED
    BY <1>m, <2>1, <2>6
<1>6. CASE Execute(r)
  <2>1. PICK result \in Results(r, run[r].node, Viewed(r)) :
            /\ run[r].pc = "viewed" /\ run' = [run EXCEPT ![r] = Executed(r, result)]
            /\ UNCHANGED <<known, active, version, outdated>>
    BY <1>6 DEF Execute
  <2> DEFINE p == Executed(r, result)
  <2>2. /\ p.pc = "executed" /\ p.node = run[r].node /\ p.snap = run[r].snap
        /\ p.view = run[r].view /\ p.result = result /\ p.completed = run[r].completed
        /\ p.used = run[r].used /\ p.failed = run[r].failed
    BY DEF Executed
  <2>3. AtMostOneObject(r, run[r].node, run[r].snap, result.emitted)
    BY ResultsOne
  <2> HIDE DEF p
  <2>4. Lawful2(p)
    BY <1>0, <2>1, <2>2, <2>3 DEF RunLawful, ProgressShaped, ViewFresh, ResultShaped, EarnedSoFar
  <2> HIDE DEF Lawful2
  <2> QED
    BY <1>m, <2>1, <2>4 DEF p
<1>7. CASE TakeView(r)
  <2> DEFINE n == run[r].node
             view == View(n)
             refusal == Refusal(r, n, view)
             taken == [pc |-> "viewed", node |-> n, target |-> run[r].target, snap |-> version,
                       view |-> Ids(view), completed |-> run[r].completed, used |-> run[r].used,
                       records |-> run[r].records, failed |-> run[r].failed, prior |-> run[r].prior]
             ended == [pc |-> "done", completed |-> run[r].completed, used |-> run[r].used,
                       records |-> run[r].records + (IF refusal = "claim" THEN 0 ELSE 1),
                       failed |-> TRUE, prior |-> run[r].prior]
  <2>1. run[r].pc = "scheduled" /\ UNCHANGED <<known, active, version, outdated>>
    BY <1>7 DEF TakeView
  <2>2. run' = [run EXCEPT ![r] = CASE refusal = "none" -> taken
                                    [] refusal \in {"target", "input"} -> Failing(r, n, TRUE)
                                    [] OTHER -> ended]
    BY <1>7, Zenon DEF TakeView
  <2>3. CASE refusal = "none"
    <3>0. refusal \notin {"target", "input"}
      <4> HIDE DEF refusal
      <4> QED
        BY <2>3
    <3>1. run' = [run EXCEPT ![r] = taken]
      <4> HIDE DEF refusal, taken, ended
      <4> QED
        BY <2>2, <2>3, <3>0, Zenon
    <3>2. Ids(view) \subseteq active
      BY DEF Ids, View, Current, EpisodeInv, EpisodeShaped
    <3>3. /\ taken.pc = "viewed" /\ taken.node = run[r].node /\ taken.snap = version
          /\ taken.view = Ids(view) /\ taken.completed = run[r].completed
          /\ taken.used = run[r].used /\ taken.failed = run[r].failed
      <4> HIDE DEF view
      <4> QED
        OBVIOUS
    <3> HIDE DEF taken, view, refusal, ended
    <3>4. Lawful2(taken)
      BY <1>0, <2>1, <3>2, <3>3 DEF RunLawful, ProgressShaped, ViewFresh, ResultShaped, EarnedSoFar, n
    <3> HIDE DEF Lawful2
    <3> QED
      BY <1>m, <2>1, <3>1, <3>4
  <2>4. CASE refusal \in {"target", "input"}
    <3>0. refusal # "none"
      <4> HIDE DEF refusal
      <4> QED
        BY <2>4
    <3>1. run' = [run EXCEPT ![r] = Failing(r, n, TRUE)]
      <4> HIDE DEF refusal, taken, ended
      <4> QED
        BY <2>2, <2>4, <3>0, Zenon
    <3> HIDE DEF Lawful2, refusal, taken, ended
    <3>2. Lawful2(Failing(r, n, TRUE))
      BY <1>g, <2>1 DEF n
    <3> QED
      BY <1>m, <2>1, <3>1, <3>2
  <2>5. CASE refusal \notin {"none", "target", "input"}
    <3>0. refusal # "none" /\ refusal \notin {"target", "input"}
      <4> HIDE DEF refusal
      <4> QED
        BY <2>5
    <3>1. run' = [run EXCEPT ![r] = ended]
      <4> HIDE DEF refusal, taken, ended
      <4> QED
        BY <2>2, <3>0, Zenon
    <3> HIDE DEF refusal, taken
    <3>2. ended.pc = "done" /\ ended.used = run[r].used
      OBVIOUS
    <3>3. Plain(ended)
      BY <1>0, <3>2 DEF Plain, ProgressShaped
    <3> HIDE DEF Lawful2, ended, Plain
    <3>4. Lawful2(ended)
      BY <1>f, <3>3
    <3> QED
      BY <1>m, <2>1, <3>1, <3>4
  <2> QED
    BY <2>3, <2>4, <2>5
<1> QED
  BY <1>1, <1>2, <1>3, <1>4, <1>5, <1>6, <1>7

\* The number of events is a natural number.
LEMMA VersionNat ==
    ASSUME EpisodeShaped
    PROVE  version \in Nat /\ Cardinality(DOMAIN known) \in Nat /\ Cardinality(DOMAIN known \ active) \in Nat
<1>1. IsFiniteSet(DOMAIN known \ active)
  BY FS_Difference DEF EpisodeShaped
<1> QED
  BY <1>1, FS_CardinalityType DEF EpisodeShaped

\* Objects that may be added leave the episode current and its events counted.
LEMMA ObjectsAdded ==
    ASSUME EpisodeShaped, EpisodeCurrent, NEW objects, IsFiniteSet(Ids(objects)),
           \A o \in objects : Addable(o), AddObjects(objects)
    PROVE  /\ EpisodeShaped'
           /\ \A i \in active' : /\ known'[i].srcs \cap DOMAIN known' \subseteq active'
                                 /\ known'[i].parts \subseteq active'
           /\ DOMAIN known \subseteq DOMAIN known' /\ \A i \in DOMAIN known : known'[i] = known[i]
           /\ \A i \in Ids(objects) : i \in DOMAIN known' /\ known'[i] \in objects /\ known'[i].id = i
           /\ active \subseteq active' /\ version' \in Nat /\ version <= version'
<1> DEFINE new == Ids(objects) \ DOMAIN known
<1>1. DOMAIN known' = DOMAIN known \cup Ids(objects)
  BY DEF AddObjects, WithObjects
<1>2. \A i \in DOMAIN known : known'[i] = known[i]
  BY DEF AddObjects, WithObjects
<1>3. ASSUME NEW i \in new PROVE known'[i] \in objects /\ known'[i].id = i
  <2>1. known'[i] = CHOOSE o \in objects : o.id = i
    BY DEF AddObjects, WithObjects
  <2>2. \E o \in objects : o.id = i
    BY DEF Ids
  <2> QED
    BY <2>1, <2>2
<1>4. ASSUME NEW i \in Ids(objects), i \in DOMAIN known
      PROVE  known[i] \in objects /\ known[i].id = i /\ i \in active
  <2>1. PICK o \in objects : o.id = i
    BY DEF Ids
  <2> QED
    BY <1>4, <2>1 DEF Addable
<1>5. \A i \in Ids(objects) : i \in DOMAIN known' /\ known'[i] \in objects /\ known'[i].id = i
  BY <1>1, <1>2, <1>3, <1>4
<1>6. IsFiniteSet(new) /\ Cardinality(new) \in Nat
  BY FS_Difference, FS_CardinalityType
<1>7. DOMAIN known' = DOMAIN known \cup new /\ DOMAIN known \cap new = {}
  BY <1>1
<1>8. /\ IsFiniteSet(DOMAIN known')
      /\ Cardinality(DOMAIN known') = Cardinality(DOMAIN known) + Cardinality(new)
  <2>1. /\ IsFiniteSet(DOMAIN known \cup new)
        /\ Cardinality(DOMAIN known \cup new)
              = Cardinality(DOMAIN known) + Cardinality(new) - Cardinality(DOMAIN known \cap new)
    BY <1>6, FS_Union DEF EpisodeShaped
  <2> HIDE DEF new
  <2> QED
    BY <1>6, <1>7, <2>1, FS_EmptySet, VersionNat
<1>9. active' = active \cup Ids(objects) /\ version' = version + Cardinality(new)
  BY DEF AddObjects
<1>10. DOMAIN known' \ active' = DOMAIN known \ active
  BY <1>1, <1>4, <1>9 DEF EpisodeShaped
<1>11. EpisodeShaped'
  <2>1. active' \subseteq DOMAIN known' /\ \A i \in DOMAIN known' : known'[i].id = i
    BY <1>1, <1>2, <1>5, <1>9 DEF EpisodeShaped
  <2>2. version' = Cardinality(DOMAIN known') + Cardinality(DOMAIN known \ active)
    <3> HIDE DEF new
    <3> QED
      BY <1>6, <1>8, <1>9, VersionNat DEF EpisodeShaped
  <2>3. Cardinality(DOMAIN known') <= MaxObjects
    BY DEF AddObjects
  <2> QED
    BY <1>8, <1>10, <2>1, <2>2, <2>3 DEF EpisodeShaped
<1>12. ASSUME NEW i \in active'
       PROVE  known'[i].srcs \cap DOMAIN known' \subseteq active' /\ known'[i].parts \subseteq active'
  <2>1. CASE i \in active
    <3>1. known'[i] = known[i]
      BY <1>2, <2>1 DEF EpisodeShaped
    <3>2. known[i].srcs \cap DOMAIN known \subseteq active /\ known[i].parts \subseteq active
      BY <2>1 DEF EpisodeCurrent
    <3> QED
      BY <1>1, <1>9, <3>1, <3>2
  <2>2. CASE i \notin active
    <3>1. i \in Ids(objects)
      BY <1>9, <2>2
    <3>2. known'[i] \in objects
      BY <1>5, <3>1
    <3>3. known'[i].srcs \cap DOMAIN known \subseteq active /\ known'[i].parts \subseteq active
      BY <3>2 DEF Addable, InactiveSources
    <3> QED
      BY <1>1, <1>9, <3>3
  <2> QED
    BY <2>1, <2>2
<1>13. version' \in Nat /\ version <= version'
  <2> HIDE DEF new
  <2> QED
    BY <1>6, <1>9, VersionNat
<1> QED
  BY <1>1, <1>2, <1>5, <1>9, <1>11, <1>12, <1>13

\* What a retraction takes along is all that rests on it: the rest stays current.
LEMMA Retracted ==
    ASSUME EpisodeShaped, EpisodeCurrent, NEW id \in active, RetractProposition(id)
    PROVE  /\ EpisodeShaped' /\ EpisodeCurrent'
           /\ version' \in Nat /\ version < version'
<1> DEFINE gone == Invalidated(id)
<1>1. gone \subseteq active /\ id \in gone
  BY DEF Invalidated
<1>2. ASSUME NEW x \in active, Cites(known[x], gone) PROVE x \in gone
  <2> DEFINE closed == {s \in SUBSET active :
                          id \in s /\ \A y \in active : Cites(known[y], s) => y \in s}
  <2>1. gone = {y \in active : \A s \in closed : y \in s}
    BY DEF Invalidated
  <2>2. ASSUME NEW s \in closed PROVE x \in s
    <3>1. gone \subseteq s
      BY <2>1
    <3>2. Cites(known[x], s)
      BY <1>2, <3>1 DEF Cites
    <3> QED
      BY <3>2
  <2> HIDE DEF closed
  <2> QED
    BY <2>1, <2>2
<1>3. active' = active \ gone /\ version' = version + Cardinality(gone) /\ UNCHANGED <<known, run, outdated>>
  BY DEF RetractProposition
<1> HIDE DEF gone
<1>4. IsFiniteSet(gone) /\ Cardinality(gone) \in Nat /\ Cardinality(gone) # 0
  <2>1. IsFiniteSet(gone)
    <3>1. gone \subseteq DOMAIN known /\ IsFiniteSet(DOMAIN known)
      BY <1>1 DEF EpisodeShaped
    <3> QED
      BY <3>1, FS_Subset
  <2>2. Cardinality(gone) \in Nat
    BY <2>1, FS_CardinalityType
  <2>3. gone # {}
    BY <1>1
  <2> QED
    BY <2>1, <2>2, <2>3, FS_EmptySet
<1>5. EpisodeCurrent'
  <2>1. ASSUME NEW x \in active'
        PROVE  known'[x].srcs \cap DOMAIN known' \subseteq active' /\ known'[x].parts \subseteq active'
    <3>1. ~Cites(known[x], gone) /\ x \in active
      BY <1>2, <1>3
    <3>2. known[x].srcs \cap DOMAIN known \subseteq active /\ known[x].parts \subseteq active
      BY <3>1 DEF EpisodeCurrent
    <3> QED
      BY <1>3, <3>1, <3>2 DEF Cites
  <2> QED
    BY <1>3, <2>1 DEF EpisodeCurrent
<1>6. Cardinality(DOMAIN known \ active') = Cardinality(DOMAIN known \ active) + Cardinality(gone)
  <2> DEFINE past == DOMAIN known \ active
  <2>1. DOMAIN known \ active' = past \cup gone /\ past \cap gone = {}
    BY <1>1, <1>3 DEF EpisodeShaped
  <2>2. IsFiniteSet(past)
    BY FS_Difference DEF EpisodeShaped
  <2>3. Cardinality(past) \in Nat
    BY VersionNat
  <2> HIDE DEF past
  <2>4. Cardinality(past \cup gone) = Cardinality(past) + Cardinality(gone) - Cardinality(past \cap gone)
    BY <1>4, <2>2, FS_Union
  <2>5. Cardinality(past \cap gone) = 0
    BY <2>1, FS_EmptySet
  <2>6. Cardinality(past \cup gone) = Cardinality(past) + Cardinality(gone)
    BY <1>4, <2>3, <2>4, <2>5
  <2>7. Cardinality(DOMAIN known \ active') = Cardinality(past) + Cardinality(gone)
    BY <2>1, <2>6
  <2> QED
    BY <2>7 DEF past
<1>7. version' = Cardinality(DOMAIN known) + Cardinality(DOMAIN known \ active')
  BY <1>3, <1>4, <1>6, VersionNat DEF EpisodeShaped
<1>8. EpisodeShaped'
  BY <1>1, <1>3, <1>7 DEF EpisodeShaped
<1> QED
  BY <1>3, <1>4, <1>5, <1>8, VersionNat

\* A caller adds to the episode or retracts from it, whatever runs are under way.
LEMMA CallerStep ==
    ASSUME EpisodeInv,
           \/ \E o \in Given : AddGiven(o)
           \/ \E id \in active : RetractProposition(id)
    PROVE  EpisodeInv'
<1>0. EpisodeShaped /\ EpisodeCurrent /\ run = [r \in Runs |-> run[r]]
  BY DEF EpisodeInv
<1>1. /\ EpisodeShaped' /\ EpisodeCurrent' /\ UNCHANGED run
      /\ version' \in Nat /\ version <= version' /\ (version = version' => active \subseteq active')
      /\ DOMAIN known \subseteq DOMAIN known' /\ \A i \in DOMAIN known : known'[i] = known[i]
  <2>1. CASE \E o \in Given : AddGiven(o)
    <3>1. PICK o \in Given : AddGiven(o)
      BY <2>1
    <3>2. Addable(o) /\ AddObjects({o}) /\ UNCHANGED <<run, outdated>>
      BY <3>1 DEF AddGiven
    <3>3. IsFiniteSet(Ids({o}))
      <4>1. Ids({o}) = {o.id}
        BY DEF Ids
      <4> QED
        BY <4>1, FS_Singleton
    <3>4. \A x \in {o} : Addable(x)
      BY <3>2
    <3>5. /\ EpisodeShaped'
          /\ \A i \in active' : /\ known'[i].srcs \cap DOMAIN known' \subseteq active'
                                /\ known'[i].parts \subseteq active'
          /\ DOMAIN known \subseteq DOMAIN known' /\ \A i \in DOMAIN known : known'[i] = known[i]
          /\ active \subseteq active' /\ version' \in Nat /\ version <= version'
      BY <1>0, <3>2, <3>3, <3>4, ObjectsAdded
    <3>6. outdated' = {}
      BY <1>0, <3>2 DEF EpisodeCurrent
    <3> QED
      BY <3>2, <3>5, <3>6 DEF EpisodeCurrent
  <2>2. CASE \E id \in active : RetractProposition(id)
    <3>1. PICK id \in active : RetractProposition(id)
      BY <2>2
    <3>2. EpisodeShaped' /\ EpisodeCurrent' /\ version' \in Nat /\ version < version'
      BY <1>0, <3>1, Retracted
    <3>3. UNCHANGED <<known, run>>
      BY <3>1 DEF RetractProposition
    <3> QED
      BY <1>0, <3>2, <3>3, VersionNat
  <2> QED
    BY <2>1, <2>2
<1>2. version \in Nat
  BY <1>0, VersionNat
<1>3. ASSUME NEW r \in Runs PROVE RunLawful(r, run'[r], known', active', version')
  <2>1. RunLawful(r, run[r], known, active, version)
    BY DEF EpisodeInv
  <2>2. RunLawful(r, run[r], known', active', version')
    BY <1>1, <1>2, <2>1, LawKept
  <2> QED
    BY <1>1, <2>2
<1> QED
  BY <1>0, <1>1, <1>3 DEF EpisodeInv

\* What a run admits was cut from the episode as it is, and a mandatory verifier
\* is dealt with by a test result that cites all its targets.
LEMMA AdmitStep ==
    ASSUME EpisodeInv, NEW r \in Runs, Admit(r)
    PROVE  EpisodeInv'
<1> DEFINE n == run[r].node
           result == run[r].result
           emitted == run[r].result.emitted
           p == Advanced(r, FALSE, IF run[r].node.independent THEN {run[r].node} ELSE {})
<1>0. /\ EpisodeShaped /\ EpisodeCurrent /\ run = [q \in Runs |-> run[q]]
      /\ ProgressShaped(r, run[r]) /\ ViewFresh(run[r], active, version)
      /\ ResultShaped(r, run[r]) /\ EarnedSoFar(r, run[r], known)
      /\ RunBudget[r] \in Nat /\ version \in Nat
  BY VersionNat, RezonAssumption DEF EpisodeInv, RunLawful
<1>1. /\ run[r].pc = "executed" /\ AddObjects(emitted) /\ run' = [run EXCEPT ![r] = p]
      /\ outdated' = outdated \cup (IF run[r].view \subseteq active THEN {} ELSE Ids(emitted))
      /\ n.mandatory => Verifies(n, result, Viewed(r))
      /\ version = run[r].snap /\ \A o \in emitted : Addable(o)
  BY DEF Admit, Accepted, Unchanged, Lawful
<1>2. AtMostOneObject(r, n, run[r].snap, emitted)
  BY <1>0, <1>1 DEF ResultShaped
<1>3. IsFiniteSet(Ids(emitted))
  <2>1. Ids(emitted) = {} \/ \E i : Ids(emitted) = {i}
    BY <1>2 DEF AtMostOneObject, Ids
  <2> QED
    BY <2>1, FS_EmptySet, FS_Singleton
<1>4. outdated' = {}
  BY <1>0, <1>1 DEF ViewFresh, EpisodeCurrent
<1> HIDE DEF n, result, emitted, p
<1>5. /\ EpisodeShaped'
      /\ \A i \in active' : /\ known'[i].srcs \cap DOMAIN known' \subseteq active'
                            /\ known'[i].parts \subseteq active'
      /\ DOMAIN known \subseteq DOMAIN known' /\ \A i \in DOMAIN known : known'[i] = known[i]
      /\ \A i \in Ids(emitted) : i \in DOMAIN known' /\ known'[i] \in emitted /\ known'[i].id = i
      /\ active \subseteq active' /\ version' \in Nat /\ version <= version'
  BY <1>0, <1>1, <1>3, ObjectsAdded
<1>6. EpisodeCurrent'
  BY <1>4, <1>5 DEF EpisodeCurrent
<1>7. ASSUME NEW q \in Runs, q # r PROVE RunLawful(q, run'[q], known', active', version')
  <2>1. RunLawful(q, run[q], known, active, version)
    BY DEF EpisodeInv
  <2>2. RunLawful(q, run[q], known', active', version')
    BY <1>0, <1>5, <2>1, LawKept
  <2>3. run'[q] = run[q]
    BY <1>0, <1>1, <1>7
  <2> QED
    BY <2>2, <2>3
<1>8. ASSUME n.mandatory PROVE VerifiedIn(known', r, n)
  <2>1. PICK o \in emitted : o.kind = "test_result" /\ n.targets \subseteq o.srcs
    BY <1>1, <1>8 DEF Verifies, result, emitted
  <2>2. emitted = {o} /\ o.by = <<r, n.id, run[r].snap>>
    BY <1>2, <2>1 DEF AtMostOneObject
  <2>3. o.id \in DOMAIN known' /\ known'[o.id] = o
    BY <1>5, <2>2 DEF Ids
  <2>4. o.by # NoObject /\ o.by[1] = r /\ o.by[2] = n.id
    BY <2>2 DEF NoObject
  <2> QED
    BY <2>1, <2>3, <2>4 DEF VerifiedIn
<1>9. /\ p.pc = "ready" /\ p.used = run[r].used + 1 /\ p.failed = (run[r].failed \/ FALSE)
      /\ p.completed = run[r].completed \cup {n.id}
      /\ p = [pc |-> "ready", completed |-> p.completed, used |-> p.used,
              records |-> p.records, failed |-> p.failed, prior |-> p.prior]
  BY DEF p, n, Advanced
<1>10. ProgressShaped(r, p)
  <2>1. n \in Nodes(r) /\ run[r].used \in Nat /\ run[r].used < RunBudget[r] /\ run[r].failed \in BOOLEAN
    BY <1>0, <1>1 DEF ProgressShaped, n
  <2>2. p.used \in Nat /\ p.used <= RunBudget[r]
    BY <1>0, <1>9, <2>1
  <2>3. p.failed \in BOOLEAN
    BY <1>9
  <2> QED
    BY <1>9, <2>2, <2>3 DEF ProgressShaped
<1>11. EarnedSoFar(r, p, known')
  <2> SUFFICES ASSUME ~p.failed, NEW m \in Nodes(r), m.mandatory, m.id \in p.completed
               PROVE  VerifiedIn(known', r, m)
    BY <1>9 DEF EarnedSoFar
  <2>1. CASE m.id \in run[r].completed
    <3>1. VerifiedIn(known, r, m)
      BY <1>0, <1>9, <2>1 DEF EarnedSoFar
    <3> QED
      BY <1>5, <3>1 DEF VerifiedIn
  <2>2. CASE m.id \notin run[r].completed
    <3>1. m.id = n.id /\ n \in Nodes(r)
      BY <1>0, <1>1, <1>9, <2>2 DEF ProgressShaped, n
    <3>2. m = n
      BY <3>1, NodeIdentity
    <3> QED
      BY <1>8, <3>2
  <2> QED
    BY <2>1, <2>2
<1>12. RunLawful(r, p, known', active', version')
  BY <1>9, <1>10, <1>11 DEF RunLawful, ViewFresh, ResultShaped
<1>13. run'[r] = p /\ run' = [q \in Runs |-> run'[q]]
  BY <1>0, <1>1
<1>14. ASSUME NEW q \in Runs PROVE RunLawful(q, run'[q], known', active', version')
  BY <1>7, <1>12, <1>13
<1> QED
  BY <1>5, <1>6, <1>13, <1>14 DEF EpisodeInv

----------------------------------------------------------------------------
(* The results.                                                            *)

\* An episode, its history of events and its runs stay as the invariant says
\* through every interleaving of callers and runs (Episode.add_proposition,
\* Episode.retract_proposition, EpisodeRunner.run, admit_execution_result).
THEOREM EpisodeInvariant == RezonSpec => []EpisodeInv
<1>1. RezonInit => EpisodeInv
  <2> SUFFICES ASSUME RezonInit PROVE EpisodeInv
    OBVIOUS
  <2>1. DOMAIN known = {} /\ active = {} /\ version = 0 /\ outdated = {} /\ run = [r \in Runs |-> Idle]
    BY DEF RezonInit
  <2>2. DOMAIN known \ active = {} /\ IsFiniteSet(DOMAIN known) /\ Cardinality(DOMAIN known) = 0
        /\ Cardinality(DOMAIN known \ active) = 0
    BY <2>1, FS_EmptySet
  <2>3. EpisodeShaped
    BY <2>1, <2>2, RezonAssumption DEF EpisodeShaped
  <2>4. EpisodeCurrent
    BY <2>1 DEF EpisodeCurrent
  <2>5. ASSUME NEW r \in Runs PROVE RunLawful(r, run[r], known, active, version)
    <3>1. run[r] = Idle /\ RunBudget[r] \in Nat
      BY <2>1, RezonAssumption
    <3>2. Idle.pc = "ready" /\ Idle.completed = {} /\ Idle.used = 0 /\ Idle.failed = FALSE
      BY DEF Idle
    <3>3. ProgressShaped(r, Idle)
      BY <3>1, <3>2 DEF ProgressShaped, Idle
    <3>4. ViewFresh(Idle, active, version) /\ ResultShaped(r, Idle) /\ EarnedSoFar(r, Idle, known)
      BY <3>2 DEF ViewFresh, ResultShaped, EarnedSoFar
    <3> QED
      BY <3>1, <3>3, <3>4 DEF RunLawful
  <2> QED
    BY <2>1, <2>3, <2>4, <2>5 DEF EpisodeInv
<1>2. EpisodeInv /\ [RezonNext]_rezonVars => EpisodeInv'
  <2> SUFFICES ASSUME EpisodeInv, [RezonNext]_rezonVars PROVE EpisodeInv'
    OBVIOUS
  <2>1. CASE (\E o \in Given : AddGiven(o)) \/ (\E id \in active : RetractProposition(id))
    BY <2>1, CallerStep
  <2>2. ASSUME NEW r \in Runs,
               \/ Terminate(r) \/ Unexecutable(r) \/ Schedule(r) \/ TakeView(r)
               \/ Execute(r) \/ ExecuteFails(r) \/ Reject(r)
        PROVE  EpisodeInv'
    BY <2>2, RunStep
  <2>3. ASSUME NEW r \in Runs, Admit(r) PROVE EpisodeInv'
    BY <2>3, AdmitStep
  <2>4. CASE UNCHANGED rezonVars
    BY <2>4 DEF EpisodeInv, EpisodeShaped, EpisodeCurrent, rezonVars
  <2> QED
    BY <2>1, <2>2, <2>3, <2>4 DEF RezonNext
<1> QED
  BY <1>1, <1>2, PTL DEF RezonSpec

\* The fields of an episode and of its runs stay in their types, identities
\* belong to their objects and no run exceeds its budget (Episode,
\* EpisodeRunner.run).
THEOREM RezonTypeCorrect == RezonSpec => []RezonTypeOK
<1>1. EpisodeInv => RezonTypeOK
  <2> SUFFICES ASSUME EpisodeInv PROVE RezonTypeOK
    OBVIOUS
  <2>0. EpisodeShaped /\ EpisodeCurrent /\ MaxObjects \in Nat
    BY RezonAssumption DEF EpisodeInv
  <2>1. Cardinality(DOMAIN known \ active) <= Cardinality(DOMAIN known)
    BY <2>0, FS_Subset DEF EpisodeShaped
  <2>2. version \in 0 .. 2 * MaxObjects
    BY <2>0, <2>1, VersionNat DEF EpisodeShaped
  <2>3. \A r \in Runs : /\ run[r].pc \in {"ready", "scheduled", "viewed", "executed", "done"}
                        /\ run[r].used <= RunBudget[r]
    BY DEF EpisodeInv, RunLawful, ProgressShaped
  <2>4. active \subseteq DOMAIN known /\ (\A i \in DOMAIN known : known[i].id = i)
        /\ outdated \subseteq DOMAIN known
    BY <2>0 DEF EpisodeShaped, EpisodeCurrent
  <2> QED
    BY <2>2, <2>3, <2>4 DEF RezonTypeOK
<1> QED
  BY <1>1, EpisodeInvariant, PTL

\* Nothing current rests on what was retracted, no worker's output is admitted
\* against a view that is no longer current, and a receipt without failures
\* means that every mandatory verifier put its test result into the episode
\* (retract_proposition, admit_execution_result, EpisodeRunner.run).
THEOREM EpisodeIsSound == RezonSpec => []EpisodeSound
<1>1. EpisodeInv => EpisodeSound
  <2> SUFFICES ASSUME EpisodeInv PROVE EpisodeSound
    OBVIOUS
  <2>1. ASSUME NEW r \in Runs, run[r].pc = "done", ~run[r].failed, NEW n \in Nodes(r), n.mandatory
        PROVE  VerifiedIn(known, r, n)
    BY <2>1 DEF EpisodeInv, RunLawful, EarnedSoFar
  <2>2. VerificationEarned
    BY <2>1 DEF VerificationEarned, VerifiedIn
  <2> QED
    BY <2>2 DEF EpisodeInv, EpisodeSound
<1> QED
  BY <1>1, EpisodeInvariant, PTL

----------------------------------------------------------------------------
(* The affective runtime: the inductive invariant.                         *)

Phases == {"quiescent", "activating", "entrained", "event", "resolution", "refractory"}
Words == Phases \cup {"eligible", "none", "recovery", "organic", "admin", "self", "cycle", "host"}
States ==
    [phase : Phases, level : 0..3, sat : 0..2, reentry : BOOLEAN,
     window : BOOLEAN, context : BOOLEAN]
MidStates ==
    [phase : Words, level : 0..3, sat : 0..2, reentry : BOOLEAN,
     window : BOOLEAN, context : BOOLEAN]
Receipts ==
    [n : Nat, type : Words, trig : Words, before : Words, after : Words,
     via : Words, at : Nat, unrooted : BOOLEAN]
Profiles == {u.profile : u \in AfUses}
Readings == Nat \cup {None}
Observations ==
    [s : States, profile : Profiles, qualifying : BOOLEAN, forced : BOOLEAN,
     selfs : 0..SelfLimit, time : Int, last : Receipts, emitted : Nat]
Engines ==
    [s : States, profile : Profiles, qualifying : BOOLEAN, forced : BOOLEAN,
     selfs : 0..SelfLimit, time : Int, last : Receipts, pending : Seq(Receipts),
     emitted : Nat, observedAt : Readings, forcedAt : Readings]
Applications ==
    [host : Hosts, frontier : Hosts,
     signal : [obs : Observations, influence : {"full", "bounded", "none"}, unrooted : BOOLEAN]]
HostRecords ==
    [engine : Engines, privileged : Readings, next : Nat \ {0}, frontier : Readings,
     uncertain : BOOLEAN, base : Nat]
Rows ==
    [version : Nat, obs : Observations \cup {None}, last : Receipts, events : Seq(Receipts),
     current : BOOLEAN, by : Hosts \cup {"operator"}]

\* The forced events of a history, and those of self-qualification among them.
ForcedAt(log, i) == i \in 1..Len(log) /\ log[i].type = "event" /\ log[i].trig # "organic"
SelfAt(log) == {i \in 1..Len(log) : ForcedAt(log, i) /\ log[i].trig = "self"}

\* The history an engine has when it emitted its receipts after the k-th pending one.
Hist(log, k, e) == log \o SubSeq(e.pending, k + 1, Len(e.pending))

\* A history is numbered and spaced; what it holds of forced tests is counted.
Numbered(log) == \A i \in 1..Len(log) : log[i].n = i
Spaced(log) ==
    \A i, j \in 1..Len(log) :
        ForcedAt(log, i) /\ ForcedAt(log, j) /\ i < j => log[j].at - log[i].at >= ForcedTicks
Counted(log, forced, selfs) ==
    /\ \A i \in 1..Len(log) : ForcedAt(log, i) => forced
    /\ Cardinality(SelfAt(log)) <= selfs
Clocked(log, forcedAt, now) ==
    /\ \A i \in 1..Len(log) : log[i].at <= now
    /\ forcedAt # None =>
           forcedAt <= now /\ \A i \in 1..Len(log) : ForcedAt(log, i) => log[i].at <= forcedAt

\* An engine agrees with its history: the receipts not yet drained are its last.
EngineLaw(e, log, now) ==
    /\ e \in Engines /\ log \in Seq(Receipts)
    /\ Len(log) = e.emitted /\ e.last.n = e.emitted /\ Len(e.pending) <= e.emitted
    /\ \A i \in 1..Len(e.pending) : e.pending[i].n = e.emitted - Len(e.pending) + i
    /\ Numbered(log) /\ Spaced(log) /\ Counted(log, e.forced, e.selfs)
    /\ Clocked(log, e.forcedAt, now)

\* What a cycle caused says that its authority was unrooted.
Trusted(r) == r.via = "cycle" => r.unrooted
AllTrusted(receipts) == \A i \in 1..Len(receipts) : Trusted(receipts[i])
Marked(e) == Trusted(e.last) /\ AllTrusted(e.pending)

ObservationLaw(o, log) ==
    /\ o \in Observations /\ o.emitted <= Len(log) /\ o.last.n = o.emitted /\ Trusted(o.last)
    /\ Counted(SubSeq(log, 1, o.emitted), o.forced, o.selfs)

LastOf(last, receipts) == receipts # <<>> => last.n = receipts[Len(receipts)].n
RowLaw(row, log) ==
    /\ row \in Rows /\ AllTrusted(row.events) /\ LastOf(row.last, row.events)
    /\ row.current => ObservationLaw(row.obs, log)

TurnLaw(u, hosts) ==
    /\ u.pc \in {"idle", "checked", "observed", "prepared", "committed"}
    /\ u.pc # "idle" => u.host \in hosts
    /\ u.pc = "observed" =>
           /\ u.receipts \in Seq(Receipts) /\ AllTrusted(u.receipts)
           /\ u.obs \in Observations /\ LastOf(u.obs.last, u.receipts)
    /\ u.pc = "prepared" =>
           /\ u.row \in Rows /\ AllTrusted(u.row.events) /\ LastOf(u.row.last, u.row.events)
           /\ ~u.row.current /\ u.row.by = u.host

\* The receipts a turn holds for a host, and those a row has of it.
NumbersOf(receipts) == {receipts[i].n : i \in 1..Len(receipts)}
TurnHas(u, h) ==
    IF u.pc = "observed" /\ u.host = h THEN NumbersOf(u.receipts)
    ELSE IF u.pc = "prepared" /\ u.host = h THEN NumbersOf(u.row.events) ELSE {}
RowHas(row, h) == IF row.by = h THEN NumbersOf(row.events) ELSE {}
Drained(host) == (host.base + 1)..(host.engine.emitted - Len(host.engine.pending))

\* Every drained receipt is with one turn or in one row, but for a commit in doubt.
Accounted(h) ==
    /\ afHost[h].base <= afHost[h].engine.emitted - Len(afHost[h].engine.pending)
    /\ \A t \in AfThreads : TurnHas(afTurn[t], h) \subseteq Drained(afHost[h])
    /\ \A i \in 1..Len(afRows) : RowHas(afRows[i], h) \subseteq Drained(afHost[h])
    /\ \A t, u \in AfThreads : t # u => TurnHas(afTurn[t], h) \cap TurnHas(afTurn[u], h) = {}
    /\ \A i, j \in 1..Len(afRows) : i # j => RowHas(afRows[i], h) \cap RowHas(afRows[j], h) = {}
    /\ \A t \in AfThreads, i \in 1..Len(afRows) :
           TurnHas(afTurn[t], h) \cap RowHas(afRows[i], h) = {}
    /\ ~afHost[h].uncertain =>
           \A n \in Drained(afHost[h]) :
               \/ \E t \in AfThreads : n \in TurnHas(afTurn[t], h)
               \/ \E i \in 1..Len(afRows) : n \in RowHas(afRows[i], h)

AfShaped ==
    /\ afUse \in AfUses /\ afNow \in Nat /\ afNow <= afUse.until
    /\ DOMAIN afHost \subseteq Hosts /\ "first" \in DOMAIN afHost
    /\ afHost \in [DOMAIN afHost -> HostRecords]
    /\ afLog \in [Hosts -> Seq(Receipts)]
    /\ afTurn = [t \in AfThreads |-> afTurn[t]]
    /\ \A t \in AfThreads : TurnLaw(afTurn[t], DOMAIN afHost)
    /\ afRows \in Seq(Rows)
HostsLaw ==
    \A h \in DOMAIN afHost :
        /\ EngineLaw(afHost[h].engine, afLog[h], afNow) /\ Marked(afHost[h].engine)
        /\ Accounted(h)
RowsLaw ==
    \A i \in 1..Len(afRows) :
        /\ RowLaw(afRows[i], afLog["first"])
        /\ afRows[i].by \in DOMAIN afHost \cup {"operator"}
UnknownLaw == \A h \in Hosts \ DOMAIN afHost : afLog[h] = <<>>
SignalsLaw ==
    /\ afApplied \in Seq(Applications)
    /\ \A i \in 1..Len(afApplied) : afApplied[i].frontier = afApplied[i].host
    /\ \A i, j \in 1..Len(afApplied) :
           i < j /\ afApplied[i].host = afApplied[j].host
               => afApplied[i].signal # afApplied[j].signal

AfInv == AfShaped /\ HostsLaw /\ RowsLaw /\ UnknownLaw /\ SignalsLaw

----------------------------------------------------------------------------
(* Histories.                                                              *)

\* The constants of the affective runtime.
LEMMA AfTypes == EventTicks = 1 /\ ForcedTicks = 2 /\ LongTicks = 3 /\ SelfLimit \in Nat
                 /\ None \notin Nat /\ Readings = Nat \cup {None}
BY AfAssumption DEF EventTicks, ForcedTicks, LongTicks, Readings

\* A receipt emitted after others of a transition extends the history by itself.
LEMMA HistAppend ==
    ASSUME NEW log \in Seq(Receipts), NEW p \in Seq(Receipts), NEW r \in Receipts,
           NEW k \in 0..Len(p)
    PROVE  log \o SubSeq(Append(p, r), k + 1, Len(p) + 1)
               = Append(log \o SubSeq(p, k + 1, Len(p)), r)
<1> DEFINE q == Append(p, r)
           a == SubSeq(q, k + 1, Len(p) + 1)
           b == SubSeq(p, k + 1, Len(p))
<1>1. q \in Seq(Receipts) /\ Len(q) = Len(p) + 1 /\ q[Len(p) + 1] = r
      /\ \A i \in 1..Len(p) : q[i] = p[i]
  OBVIOUS
<1>2. a \in Seq(Receipts) /\ Len(a) = Len(p) + 1 - k /\ \A i \in 1..Len(a) : a[i] = q[k + i]
  BY <1>1
<1>3. b \in Seq(Receipts) /\ Len(b) = Len(p) - k /\ \A i \in 1..Len(b) : b[i] = p[k + i]
  OBVIOUS
<1> HIDE DEF q, a, b
<1>4. Append(b, r) \in Seq(Receipts) /\ Len(Append(b, r)) = Len(a)
      /\ \A i \in 1..Len(a) : Append(b, r)[i] = a[i]
  BY <1>1, <1>2, <1>3
<1>5. a = Append(b, r)
  <2> DEFINE c == Append(b, r)
  <2>1. c \in Seq(Receipts) /\ Len(c) = Len(a) /\ \A i \in 1..Len(a) : c[i] = a[i]
    BY <1>4
  <2> HIDE DEF c
  <2>2. a = c
    BY <1>2, <2>1
  <2> QED BY <2>2 DEF c
<1>6. log \o Append(b, r) = Append(log \o b, r)
  BY <1>3
<1> QED BY <1>5, <1>6 DEF a, b, q

\* Nothing was emitted yet: the history is what it was.
LEMMA HistNothing ==
    ASSUME NEW R, NEW log \in Seq(R), NEW p \in Seq(R)
    PROVE  log \o SubSeq(p, Len(p) + 1, Len(p)) = log
<1>1. SubSeq(p, Len(p) + 1, Len(p)) = <<>>
  OBVIOUS
<1>2. log \o <<>> \in Seq(R) /\ Len(log \o <<>>) = Len(log)
      /\ \A i \in 1..Len(log) : (log \o <<>>)[i] = log[i]
  OBVIOUS
<1>3. log \o <<>> = log
  BY <1>2
<1> QED BY <1>1, <1>3

LEMMA HistAll ==
    ASSUME NEW R, NEW p \in Seq(R)
    PROVE  SubSeq(p, 1, Len(p)) = p
OBVIOUS

\* The beginning of a history does not change when it grows.
LEMMA PrefixKept ==
    ASSUME NEW R, NEW log \in Seq(R), NEW s \in Seq(R), NEW k \in 0..Len(log)
    PROVE  SubSeq(log \o s, 1, k) = SubSeq(log, 1, k)
<1> DEFINE a == SubSeq(log \o s, 1, k)
           b == SubSeq(log, 1, k)
<1>0. log \o s \in Seq(R) /\ Len(log \o s) = Len(log) + Len(s)
      /\ \A i \in 1..Len(log) : (log \o s)[i] = log[i]
  OBVIOUS
<1>1. a \in Seq(R) /\ Len(a) = k /\ \A i \in 1..k : a[i] = log[i]
  BY <1>0
<1>2. b \in Seq(R) /\ Len(b) = k /\ \A i \in 1..k : b[i] = log[i]
  OBVIOUS
<1> QED BY <1>1, <1>2

LEMMA SelfFinite ==
    ASSUME NEW log \in Seq(Receipts)
    PROVE  IsFiniteSet(SelfAt(log)) /\ Cardinality(SelfAt(log)) \in Nat
<1>1. SelfAt(log) \subseteq 1..Len(log) /\ Len(log) \in Nat
  BY DEF SelfAt
<1>2. IsFiniteSet(1..Len(log))
  BY <1>1, FS_Interval
<1>3. IsFiniteSet(SelfAt(log))
  BY <1>1, <1>2, FS_Subset
<1> QED BY <1>3, FS_CardinalityType

\* What one receipt adds to the count of self-qualifications.
LEMMA SelfAppend ==
    ASSUME NEW log \in Seq(Receipts), NEW r \in Receipts
    PROVE  /\ Cardinality(SelfAt(Append(log, r))) <= Cardinality(SelfAt(log)) + 1
           /\ ~(r.type = "event" /\ r.trig = "self") =>
                  Cardinality(SelfAt(Append(log, r))) = Cardinality(SelfAt(log))
<1> DEFINE l == Append(log, r)
           n == Len(log) + 1
<1>1. Len(l) = n /\ l[n] = r /\ \A i \in 1..Len(log) : l[i] = log[i]
  OBVIOUS
<1>2. Len(log) \in Nat /\ 1..n = 1..Len(log) \cup {n} /\ n \notin 1..Len(log)
  OBVIOUS
<1> HIDE DEF l, n
<1>3. \A i \in 1..Len(log) : ForcedAt(l, i) <=> ForcedAt(log, i)
  BY <1>1, <1>2 DEF ForcedAt
<1>4. CASE r.type = "event" /\ r.trig = "self"
  <2>1. SelfAt(l) = SelfAt(log) \cup {n}
    BY <1>1, <1>2, <1>3, <1>4 DEF SelfAt, ForcedAt
  <2>2. n \notin SelfAt(log)
    BY <1>2 DEF SelfAt
  <2>3. Cardinality(SelfAt(l)) = Cardinality(SelfAt(log)) + 1
    BY <2>1, <2>2, SelfFinite, FS_AddElement
  <2> QED BY <2>3, <1>4, SelfFinite DEF l
<1>5. CASE ~(r.type = "event" /\ r.trig = "self")
  <2>1. SelfAt(l) = SelfAt(log)
    BY <1>1, <1>2, <1>3, <1>5 DEF SelfAt, ForcedAt
  <2> QED BY <2>1, <1>5, SelfFinite DEF l
<1> QED BY <1>4, <1>5

\* The beginning of a history holds no more of them than the whole.
LEMMA CountedPrefix ==
    ASSUME NEW log \in Seq(Receipts), NEW forced, NEW selfs \in Nat, NEW k \in 0..Len(log),
           Counted(log, forced, selfs)
    PROVE  Counted(SubSeq(log, 1, k), forced, selfs)
<1> DEFINE l == SubSeq(log, 1, k)
<1>1. l \in Seq(Receipts) /\ Len(l) = k /\ \A i \in 1..k : l[i] = log[i]
  OBVIOUS
<1> HIDE DEF l
<1>2. SelfAt(l) \subseteq SelfAt(log) /\ \A i \in 1..Len(l) : ForcedAt(l, i) => ForcedAt(log, i)
  BY <1>1 DEF SelfAt, ForcedAt
<1>3. Cardinality(SelfAt(l)) <= Cardinality(SelfAt(log))
  BY <1>2, SelfFinite, FS_Subset
<1>4. Cardinality(SelfAt(l)) \in Nat /\ Cardinality(SelfAt(log)) \in Nat
  BY <1>1, SelfFinite
<1> QED BY <1>1, <1>2, <1>3, <1>4 DEF Counted, l

----------------------------------------------------------------------------
(* Steps of the engine.                                                    *)

\* The engine e1 was reached from e, whose history is log, within one transition.
Ran(e, e1, log, now) ==
    /\ Len(e.pending) <= Len(e1.pending)
    /\ e1.emitted - Len(e1.pending) = e.emitted - Len(e.pending)
    /\ EngineLaw(e1, Hist(log, Len(e.pending), e1), now)

LEMMA EngineFields ==
    ASSUME NEW e \in Engines
    PROVE  /\ e.s \in States /\ e.profile \in Profiles /\ e.qualifying \in BOOLEAN
           /\ e.forced \in BOOLEAN /\ e.selfs \in 0..SelfLimit /\ e.selfs \in Nat
           /\ e.time \in Int /\ e.last \in Receipts /\ e.pending \in Seq(Receipts)
           /\ Len(e.pending) \in Nat /\ e.emitted \in Nat
           /\ e.observedAt \in Readings /\ e.forcedAt \in Readings
BY AfTypes DEF Engines

LEMMA RanStart ==
    ASSUME NEW e, NEW log, NEW now, EngineLaw(e, log, now)
    PROVE  Ran(e, e, log, now) /\ Hist(log, Len(e.pending), e) = log
<1>1. e \in Engines /\ log \in Seq(Receipts) /\ e.pending \in Seq(Receipts)
  BY EngineFields DEF EngineLaw
<1>2. Hist(log, Len(e.pending), e) = log
  BY <1>1, HistNothing DEF Hist
<1> QED BY <1>1, <1>2 DEF Ran

\* What changes neither the receipts nor loses a count keeps the law.
LEMMA SilentRan ==
    ASSUME NEW e, NEW log, NEW now \in Nat, NEW e1, Ran(e, e1, log, now),
           NEW e2 \in Engines, e2.last = e1.last, e2.pending = e1.pending,
           e2.emitted = e1.emitted, e1.forced => e2.forced, e1.selfs <= e2.selfs,
           e2.forcedAt = e1.forcedAt \/ e2.forcedAt = now
    PROVE  Ran(e, e2, log, now) /\ (Marked(e1) => Marked(e2))
<1> DEFINE h == Hist(log, Len(e.pending), e1)
<1>1. Hist(log, Len(e.pending), e2) = h
  BY DEF Hist
<1>2. EngineLaw(e1, h, now)
  BY DEF Ran
<1> HIDE DEF h
<1>3. h \in Seq(Receipts) /\ e1 \in Engines /\ e1.selfs \in Nat /\ e2.selfs \in Nat
      /\ Cardinality(SelfAt(h)) \in Nat
  BY <1>2, EngineFields, SelfFinite DEF EngineLaw
<1>4. Counted(h, e2.forced, e2.selfs)
  BY <1>2, <1>3 DEF EngineLaw, Counted
<1>5. Clocked(h, e2.forcedAt, now)
  BY <1>2, <1>3, AfTypes DEF EngineLaw, Clocked
<1>6. EngineLaw(e2, h, now)
  BY <1>2, <1>4, <1>5 DEF EngineLaw
<1>7. Marked(e1) => Marked(e2)
  BY DEF Marked
<1> QED BY <1>1, <1>6, <1>7 DEF Ran

\* A receipt is emitted; a forced one only after its interval, and counted.
LEMMA EmitRan ==
    ASSUME NEW e \in Engines, NEW log \in Seq(Receipts), NEW now \in Nat,
           NEW e1, Ran(e, e1, log, now), NEW r \in Receipts,
           r.n = e1.emitted + 1, r.at = now,
           NEW e2 \in Engines, e2.last = r, e2.pending = Append(e1.pending, r),
           e2.emitted = e1.emitted + 1, e1.forced => e2.forced, e1.selfs <= e2.selfs,
           \/ ~(r.type = "event" /\ r.trig # "organic") /\ e2.forcedAt = e1.forcedAt
           \/ /\ Cooled(e1.forcedAt, e1.forced, now) /\ e2.forced /\ e2.forcedAt = now
              /\ r.trig = "self" => e1.selfs + 1 <= e2.selfs
    PROVE  Ran(e, e2, log, now) /\ (Marked(e1) /\ Trusted(r) => Marked(e2))
<1> DEFINE h == Hist(log, Len(e.pending), e1)
           g == Append(h, r)
           p == e1.pending
           q == e2.pending
<1>1. EngineLaw(e1, h, now) /\ Len(e.pending) <= Len(e1.pending)
      /\ e1.emitted - Len(e1.pending) = e.emitted - Len(e.pending)
  BY DEF Ran
<1>2. e1 \in Engines
  BY <1>1 DEF EngineLaw
<1>3. p \in Seq(Receipts) /\ Len(e.pending) \in 0..Len(p)
  BY <1>1, <1>2, EngineFields
<1>4. q = Append(p, r) /\ Len(q) = Len(p) + 1 /\ q[Len(p) + 1] = r /\ \A i \in 1..Len(p) : q[i] = p[i]
  BY <1>3
<1>5. Hist(log, Len(e.pending), e2) = g
  <2> DEFINE k == Len(e.pending)
  <2> HIDE DEF p, q, k
  <2>1. log \o SubSeq(Append(p, r), k + 1, Len(p) + 1) = Append(log \o SubSeq(p, k + 1, Len(p)), r)
    BY <1>3, HistAppend DEF k
  <2>2. log \o SubSeq(q, k + 1, Len(q)) = Append(log \o SubSeq(p, k + 1, Len(p)), r)
    BY <2>1, <1>4
  <2> QED BY <2>2 DEF Hist, k, p, q
<1> HIDE DEF h, p, q
<1>6. h \in Seq(Receipts)
  BY <1>1 DEF EngineLaw
<1>7. g \in Seq(Receipts) /\ Len(g) = Len(h) + 1 /\ g[Len(h) + 1] = r
      /\ \A i \in 1..Len(h) : g[i] = h[i] /\ h[i] \in Receipts
  BY <1>6
<1>8. Cardinality(SelfAt(h)) \in Nat /\ Cardinality(SelfAt(g)) \in Nat
  BY <1>6, <1>7, SelfFinite
<1>9. /\ Cardinality(SelfAt(g)) <= Cardinality(SelfAt(h)) + 1
      /\ ~(r.type = "event" /\ r.trig = "self") => Cardinality(SelfAt(g)) = Cardinality(SelfAt(h))
  BY <1>6, SelfAppend
<1> HIDE DEF g
<1>10. /\ Len(h) = e1.emitted /\ Numbered(h) /\ Spaced(h) /\ Counted(h, e1.forced, e1.selfs)
       /\ Clocked(h, e1.forcedAt, now)
       /\ \A i \in 1..Len(p) : p[i].n = e1.emitted - Len(p) + i
       /\ Len(p) <= e1.emitted
  BY <1>1 DEF EngineLaw, p
<1>11. e1.emitted \in Nat /\ Len(p) \in Nat /\ e1.selfs \in Nat /\ e2.selfs \in Nat
       /\ e1.forcedAt \in Readings /\ Len(h) \in Nat
  BY <1>2, <1>3, <1>6, EngineFields
<1>12. \A i \in 1..Len(h) : h[i].at \in Nat
  BY <1>7 DEF Receipts
<1>13. \A i \in 1..Len(h) : ForcedAt(g, i) <=> ForcedAt(h, i)
  BY <1>7, <1>11 DEF ForcedAt
<1>14. ForcedAt(g, Len(h) + 1) <=> r.type = "event" /\ r.trig # "organic"
  BY <1>7, <1>11 DEF ForcedAt
<1>15. 1..Len(g) = 1..Len(h) \cup {Len(h) + 1}
  BY <1>7, <1>11
<1>16. Numbered(g)
  BY <1>7, <1>10, <1>11, <1>15 DEF Numbered
<1>17. r.type = "event" /\ r.trig # "organic" =>
          \A i \in 1..Len(h) : ForcedAt(h, i) => now - h[i].at >= ForcedTicks
  BY <1>10, <1>11, <1>12, AfTypes DEF Cooled, Clocked, Counted
<1>18. Spaced(g)
  <2> SUFFICES ASSUME NEW i \in 1..Len(g), NEW j \in 1..Len(g),
                      ForcedAt(g, i), ForcedAt(g, j), i < j
               PROVE  g[j].at - g[i].at >= ForcedTicks
    BY DEF Spaced
  <2>1. i \in 1..Len(h)
    BY <1>11, <1>15
  <2>2. CASE j \in 1..Len(h)
    BY <2>1, <2>2, <1>7, <1>10, <1>13 DEF Spaced
  <2>3. CASE j = Len(h) + 1
    BY <2>1, <2>3, <1>7, <1>13, <1>14, <1>17
  <2> QED BY <2>2, <2>3, <1>15
<1>19. Counted(g, e2.forced, e2.selfs)
  <2>1. \A i \in 1..Len(g) : ForcedAt(g, i) => e2.forced
    BY <1>10, <1>13, <1>14, <1>15 DEF Counted
  <2>2. Cardinality(SelfAt(g)) <= e2.selfs
    BY <1>8, <1>9, <1>10, <1>11 DEF Counted
  <2> QED BY <2>1, <2>2 DEF Counted
<1>20. Clocked(g, e2.forcedAt, now)
  <2>1. ASSUME NEW i \in 1..Len(g)
        PROVE  g[i].at <= now
    <3>1. CASE i \in 1..Len(h)
      <4>1. g[i] = h[i] /\ h[i].at <= now
        BY <3>1, <1>7, <1>10 DEF Clocked
      <4> QED BY <4>1
    <3>2. CASE i = Len(h) + 1
      <4>1. g[i] = r
        BY <3>2, <1>7
      <4>2. now <= now
        OBVIOUS
      <4> QED BY <4>1, <4>2
    <3> QED BY <3>1, <3>2, <1>15
  <2>2. CASE e2.forcedAt = now
    BY <2>1, <2>2 DEF Clocked
  <2>3. CASE ~(r.type = "event" /\ r.trig # "organic") /\ e2.forcedAt = e1.forcedAt
    <3>1. \A i \in 1..Len(g) : ForcedAt(g, i) => i \in 1..Len(h) /\ ForcedAt(h, i) /\ g[i] = h[i]
      BY <2>3, <1>7, <1>13, <1>14, <1>15
    <3> QED BY <2>1, <2>3, <3>1, <1>10 DEF Clocked
  <2> QED BY <2>2, <2>3
<1>21. \A i \in 1..Len(q) : q[i].n = e2.emitted - Len(q) + i
  BY <1>4, <1>10, <1>11
<1>22. EngineLaw(e2, g, now)
  BY <1>4, <1>7, <1>10, <1>11, <1>16, <1>18, <1>19, <1>20, <1>21 DEF EngineLaw, q
<1>23. Marked(e1) /\ Trusted(r) => Marked(e2)
  BY <1>4, <1>11 DEF Marked, AllTrusted, p, q
<1>24. e.emitted \in Nat /\ Len(e.pending) \in Nat
  BY EngineFields
<1>25. /\ Len(e.pending) <= Len(e2.pending)
       /\ e2.emitted - Len(e2.pending) = e.emitted - Len(e.pending)
  BY <1>1, <1>4, <1>11, <1>24 DEF p, q
<1> QED BY <1>5, <1>22, <1>23, <1>25 DEF Ran

\* What a step of the engine that emits the receipt r leaves as it was.
EmitsOne(e, e2, r) ==
    /\ e2 \in Engines /\ r \in Receipts /\ r.n = e.emitted + 1
    /\ e2.last = r /\ e2.pending = Append(e.pending, r) /\ e2.emitted = e.emitted + 1
    /\ e2.forced = e.forced /\ e2.selfs = e.selfs /\ e2.forcedAt = e.forcedAt

\* The receipt an engine emits as its n-th.
ReceiptOf(r, n, type, trig, via, now, unrooted) ==
    /\ r \in Receipts /\ r.n = n /\ r.at = now
    /\ r.type = type /\ r.trig = trig /\ r.via = via
    /\ r.unrooted <=> unrooted

LEMMA ReceiptTyped ==
    ASSUME NEW e, e.emitted \in Nat, e.s.phase \in Words, NEW type \in Words, NEW trig \in Words,
           NEW before \in Words, NEW via \in Words, NEW now \in Nat
    PROVE  ReceiptOf(Receipt(e, type, before, trig, via, now), e.emitted + 1,
                     type, trig, via, now, type # "event" /\ e.last.unrooted)
<1> DEFINE b == type # "event" /\ e.last.unrooted
<1>1. b \in BOOLEAN
  OBVIOUS
<1> DEFINE r == Receipt(e, type, before, trig, via, now)
<1>2. r = [n |-> e.emitted + 1, type |-> type, trig |-> trig, before |-> before,
           after |-> e.s.phase, via |-> via, at |-> now, unrooted |-> b]
  BY DEF Receipt
<1> HIDE DEF r, b
<1>3. r \in Receipts /\ r.n = e.emitted + 1 /\ r.at = now
      /\ r.type = type /\ r.trig = trig /\ r.via = via /\ r.unrooted = b
  BY <1>1, <1>2 DEF Receipts
<1>4. ReceiptOf(r, e.emitted + 1, type, trig, via, now, b)
  BY <1>3 DEF ReceiptOf
<1> QED BY <1>4 DEF r, b

LEMMA EmitTyped ==
    ASSUME NEW e \in Engines, NEW r \in Receipts, r.n = e.emitted + 1
    PROVE  EmitsOne(e, Emit(e, r), r) /\ Emit(e, r).s = e.s
<1> DEFINE p == Append(e.pending, r)
           n == e.emitted + 1
<1>1. p \in Seq(Receipts) /\ n \in Nat
  BY EngineFields
<1>2. Emit(e, r) = [e EXCEPT !.last = r, !.pending = p, !.emitted = n]
  BY DEF Emit
<1> HIDE DEF p, n
<1>3. /\ Emit(e, r) \in Engines /\ Emit(e, r).last = r /\ Emit(e, r).pending = p
      /\ Emit(e, r).emitted = n /\ Emit(e, r).forced = e.forced /\ Emit(e, r).selfs = e.selfs
      /\ Emit(e, r).forcedAt = e.forcedAt /\ Emit(e, r).s = e.s
  BY <1>1, <1>2 DEF Engines
<1> QED BY <1>3 DEF EmitsOne, p, n

\* Changing some fields of a state within their range leaves a state.
Entered(s, ph, lv, re) == [s EXCEPT !.phase = ph, !.level = lv, !.reentry = re]
Resolved(s, ph, sat, re) ==
    [s EXCEPT !.phase = ph, !.sat = sat, !.reentry = re, !.window = FALSE, !.context = FALSE]
Decayed(s, lv, sat, ph, re) == [s EXCEPT !.level = lv, !.sat = sat, !.phase = ph, !.reentry = re]
Moved(s, lv, w, c, ph) == [s EXCEPT !.level = lv, !.window = w, !.context = c, !.phase = ph]

LEMMA StateEntered ==
    ASSUME NEW s \in MidStates, NEW ph \in Phases, NEW lv \in 0..3, NEW re \in BOOLEAN
    PROVE  Entered(s, ph, lv, re) \in States /\ Entered(s, ph, lv, re).phase = ph
BY DEF States, MidStates, Entered
LEMMA StateResolved ==
    ASSUME NEW s \in MidStates, NEW ph \in Phases, NEW sat \in 0..2,
           NEW re \in BOOLEAN
    PROVE  Resolved(s, ph, sat, re) \in States /\ Resolved(s, ph, sat, re).phase = ph
BY DEF States, MidStates, Resolved
LEMMA StateDecayed ==
    ASSUME NEW s \in States, NEW ph \in Phases, NEW lv \in 0..3, NEW sat \in 0..2,
           NEW re \in BOOLEAN
    PROVE  Decayed(s, lv, sat, ph, re) \in States /\ Decayed(s, lv, sat, ph, re).phase = ph
BY DEF States, Decayed
LEMMA StateMoved ==
    ASSUME NEW s \in States, NEW ph \in Phases, NEW lv \in 0..3,
           NEW w \in BOOLEAN, NEW c \in BOOLEAN
    PROVE  Moved(s, lv, w, c, ph) \in States /\ Moved(s, lv, w, c, ph).context = c
BY DEF States, Moved

\* An engine on its way into an event is one but for its phase.
LEMMA EligibleTyped ==
    ASSUME NEW e1 \in Engines, NEW e,
           e = e1 \/ e = [e1 EXCEPT !.s.phase = "eligible"]
    PROVE  e.s \in MidStates /\ e.s.phase \in Words /\ e = [e1 EXCEPT !.s = e.s]
<1>0. e1.s \in States
  BY EngineFields
<1>1. CASE e = e1
  <2>1. e.s \in MidStates /\ e.s.phase \in Words
    BY <1>0, <1>1 DEF MidStates, States, Words
  <2>2. e = [e1 EXCEPT !.s = e.s]
    BY <1>1 DEF Engines
  <2> QED BY <2>1, <2>2
<1>2. CASE e = [e1 EXCEPT !.s.phase = "eligible"]
  <2> DEFINE s2 == [e1.s EXCEPT !.phase = "eligible"]
  <2>0. "eligible" \in Words
    BY DEF Words
  <2>1. s2 \in MidStates /\ s2.phase \in Words
    BY <1>0, <2>0 DEF MidStates, States, Words
  <2> HIDE DEF s2
  <2>2. e = [e1 EXCEPT !.s = s2]
    BY <1>2 DEF s2
  <2>3. e.s = s2
    BY <2>2 DEF Engines
  <2> QED BY <2>1, <2>2, <2>3
<1> QED BY <1>1, <1>2

LEMMA EnterEventTyped ==
    ASSUME NEW e1 \in Engines, NEW e,
           e = e1 \/ e = [e1 EXCEPT !.s.phase = "eligible"],
           NEW trig \in Words, NEW via \in Words, NEW now \in Nat
    PROVE  \E r : /\ EmitsOne(e1, EnterEvent(e, trig, via, now), r)
                  /\ r.at = now /\ r.type = "event" /\ r.trig = trig /\ r.via = via
<1> DEFINE s2 == [e.s EXCEPT !.phase = "event", !.level = 3, !.reentry = FALSE]
           on == [e EXCEPT !.qualifying = FALSE, !.s = s2]
           r == Receipt(on, "event", e.s.phase, trig, via, now)
<1>1. e.s \in MidStates /\ e.s.phase \in Words /\ e = [e1 EXCEPT !.s = e.s]
  BY EligibleTyped
<1>0. "event" \in Phases /\ 3 \in 0..3 /\ FALSE \in BOOLEAN
  BY DEF Phases
<1>2. s2 \in States /\ s2.phase = "event"
  <2>1. s2 = Entered(e.s, "event", 3, FALSE)
    BY DEF Entered
  <2> HIDE DEF s2
  <2> QED BY <2>1, <1>0, <1>1, StateEntered
<1> HIDE DEF s2
<1>3. on \in Engines /\ on.s = s2 /\ on.last = e1.last /\ on.pending = e1.pending
      /\ on.emitted = e1.emitted /\ on.forced = e1.forced /\ on.selfs = e1.selfs
      /\ on.forcedAt = e1.forcedAt
  BY <1>1, <1>2 DEF Engines
<1> HIDE DEF on
<1>4. on.emitted \in Nat /\ on.s.phase \in Words /\ "event" \in Words
  BY <1>2, <1>3, EngineFields DEF Words, Phases
<1>5. r \in Receipts /\ r.n = on.emitted + 1 /\ r.at = now /\ r.type = "event"
      /\ r.trig = trig /\ r.via = via
  <2>1. ReceiptOf(r, on.emitted + 1, "event", trig, via, now, "event" # "event" /\ on.last.unrooted)
    BY <1>1, <1>4, ReceiptTyped, Zenon
  <2> HIDE DEF r
  <2> QED BY <2>1 DEF ReceiptOf
<1> HIDE DEF r
<1>6. EmitsOne(on, Emit(on, r), r)
  BY <1>3, <1>5, EmitTyped
<1>7. EmitsOne(e1, Emit(on, r), r)
  BY <1>3, <1>6 DEF EmitsOne
<1>8. EnterEvent(e, trig, via, now) = Emit(on, r)
  BY DEF EnterEvent, on, r, s2
<1> QED BY <1>5, <1>7, <1>8

LEMMA BeginResolutionTyped ==
    ASSUME NEW e \in Engines, NEW now \in Nat
    PROVE  \E r : /\ EmitsOne(e, BeginResolution(e, now), r)
                  /\ r.at = now /\ r.type = "resolution" /\ r.via = e.last.via
                  /\ r.unrooted <=> e.last.unrooted
<1> DEFINE b == e.profile = "reentrant"
           s2 == [e.s EXCEPT !.phase = "resolution", !.sat = 2, !.reentry = b,
                             !.window = FALSE, !.context = FALSE]
           off == [e EXCEPT !.qualifying = FALSE, !.s = s2]
           r == Receipt(off, "resolution", "event", e.last.trig, e.last.via, now)
<1>1. e.s \in States /\ b \in BOOLEAN /\ e.last \in Receipts
  BY EngineFields
<1> HIDE DEF b
<1>0. "resolution" \in Phases /\ 2 \in 0..2 /\ FALSE \in BOOLEAN /\ e.s \in MidStates
  BY <1>1 DEF Phases, States, MidStates, Words
<1>2. s2 \in States /\ s2.phase = "resolution"
  <2>1. s2 = Resolved(e.s, "resolution", 2, b)
    BY DEF Resolved
  <2> HIDE DEF s2
  <2> QED BY <2>1, <1>0, <1>1, StateResolved
<1> HIDE DEF s2
<1>3. off \in Engines /\ off.s = s2 /\ off.last = e.last /\ off.pending = e.pending
      /\ off.emitted = e.emitted /\ off.forced = e.forced /\ off.selfs = e.selfs
      /\ off.forcedAt = e.forcedAt
  BY <1>2 DEF Engines
<1> HIDE DEF off
<1>4. off.emitted \in Nat /\ off.s.phase \in Words /\ "resolution" \in Words /\ "event" \in Words
      /\ e.last.trig \in Words /\ e.last.via \in Words
  BY <1>1, <1>2, <1>3, EngineFields DEF Words, Phases, Receipts
<1>5. r \in Receipts /\ r.n = off.emitted + 1 /\ r.at = now /\ r.type = "resolution"
      /\ r.via = e.last.via /\ (r.unrooted <=> off.last.unrooted)
  <2>1. ReceiptOf(r, off.emitted + 1, "resolution", e.last.trig, e.last.via, now,
                  "resolution" # "event" /\ off.last.unrooted)
    BY <1>4, ReceiptTyped, Zenon
  <2> HIDE DEF r
  <2> QED BY <2>1 DEF ReceiptOf
<1> HIDE DEF r
<1>6. EmitsOne(off, Emit(off, r), r)
  BY <1>3, <1>5, EmitTyped
<1>7. EmitsOne(e, Emit(off, r), r)
  BY <1>3, <1>6 DEF EmitsOne
<1>8. BeginResolution(e, now) = Emit(off, r)
  BY DEF BeginResolution, off, r, s2, b
<1> QED BY <1>3, <1>5, <1>7, <1>8

----------------------------------------------------------------------------
(* What a transition leaves: the law, and every receipt that follows from  *)
(* a cycle marked.                                                         *)

LEMMA RanEngine ==
    ASSUME NEW e, NEW log, NEW now, NEW e1, Ran(e, e1, log, now)
    PROVE  e1 \in Engines
BY DEF Ran, EngineLaw

LEMMA ResolutionRan ==
    ASSUME NEW e \in Engines, NEW log \in Seq(Receipts), NEW now \in Nat,
           NEW e1, Ran(e, e1, log, now), Marked(e1)
    PROVE  Ran(e, BeginResolution(e1, now), log, now) /\ Marked(BeginResolution(e1, now))
<1> DEFINE e2 == BeginResolution(e1, now)
<1>1. e1 \in Engines
  BY RanEngine
<1>2. PICK r : /\ EmitsOne(e1, e2, r) /\ r.at = now /\ r.type = "resolution" /\ r.via = e1.last.via
               /\ r.unrooted <=> e1.last.unrooted
  BY <1>1, BeginResolutionTyped
<1> HIDE DEF e2
<1>3. Trusted(r)
  BY <1>2 DEF Trusted, Marked
<1>4. e1.selfs \in Nat
  BY <1>1, EngineFields
<1>5. /\ e2 \in Engines /\ r \in Receipts /\ r.n = e1.emitted + 1
      /\ e2.last = r /\ e2.pending = Append(e1.pending, r) /\ e2.emitted = e1.emitted + 1
      /\ e2.forced = e1.forced /\ e2.selfs = e1.selfs /\ e2.forcedAt = e1.forcedAt
  BY <1>2 DEF EmitsOne
<1>6. (e1.forced => e2.forced) /\ e1.selfs <= e2.selfs
      /\ ~(r.type = "event" /\ r.trig # "organic")
  BY <1>2, <1>4, <1>5
<1>7. Ran(e, e2, log, now) /\ (Marked(e1) /\ Trusted(r) => Marked(e2))
  BY <1>2, <1>5, <1>6, EmitRan
<1> QED BY <1>3, <1>7 DEF e2

LEMMA DecayRan ==
    ASSUME NEW e \in Engines, NEW log \in Seq(Receipts), NEW now \in Nat,
           NEW e1, Ran(e, e1, log, now), Marked(e1), NEW to, to[1] \in 0..3, to[2] \in 0..2
    PROVE  Ran(e, Decay(e1, to, now), log, now) /\ Marked(Decay(e1, to, now))
<1> DEFINE lv == IF e1.s.level < to[1] THEN e1.s.level ELSE to[1]
           st == IF e1.s.sat < to[2] THEN e1.s.sat ELSE to[2]
           was == e1.s.phase
           phase == IF lv = 0 /\ st = 0 THEN "quiescent"
                    ELSE IF was \in {"resolution", "refractory"} THEN "refractory"
                    ELSE IF was = "entrained" /\ lv = 1 THEN "activating" ELSE was
           reentry == CASE phase = "quiescent" -> TRUE
                        [] phase = "refractory" -> e1.profile = "reentrant"
                        [] OTHER -> e1.s.reentry
           s2 == [e1.s EXCEPT !.level = lv, !.sat = st, !.phase = phase, !.reentry = reentry]
           e2 == [e1 EXCEPT !.s = s2]
           r == Receipt(e2, "recovery", was, e1.last.trig, e1.last.via, now)
           e3 == IF phase # was /\ was \in {"resolution", "refractory"} THEN Emit(e2, r) ELSE e2
<1>1. e1 \in Engines /\ e1.s \in States /\ e1.last \in Receipts
  BY RanEngine, EngineFields
<1>2. was \in Phases /\ e1.s.level \in 0..3 /\ e1.s.sat \in 0..2 /\ e1.s.reentry \in BOOLEAN
  BY <1>1 DEF States
<1>3. lv \in 0..3 /\ st \in 0..2
  BY <1>2
<1>4. phase \in Phases
  BY <1>2 DEF Phases
<1>5. reentry \in BOOLEAN
  <2> HIDE DEF phase
  <2>1. CASE phase = "quiescent"
    BY <2>1, Zenon
  <2>2. CASE phase = "refractory"
    BY <2>2, Zenon
  <2>3. CASE phase # "quiescent" /\ phase # "refractory"
    BY <2>3, <1>2, Zenon
  <2> QED BY <2>1, <2>2, <2>3
<1>6. Decay(e1, to, now) = e3
  BY DEF Decay
<1> HIDE DEF phase, lv, st, reentry, was
<1>7. s2 \in States
  <2>1. s2 = Decayed(e1.s, lv, st, phase, reentry)
    BY DEF Decayed
  <2> HIDE DEF s2
  <2> QED BY <2>1, <1>1, <1>3, <1>4, <1>5, StateDecayed
<1> HIDE DEF s2
<1>8. e2 \in Engines /\ e2.s = s2 /\ e2.last = e1.last /\ e2.pending = e1.pending
      /\ e2.emitted = e1.emitted /\ e2.forced = e1.forced /\ e2.selfs = e1.selfs
      /\ e2.forcedAt = e1.forcedAt
  BY <1>1, <1>7 DEF Engines
<1> HIDE DEF e2
<1>9. e1.selfs <= e2.selfs /\ e1.selfs \in Nat
  BY <1>1, <1>8, EngineFields
<1>10. Ran(e, e2, log, now) /\ Marked(e2)
  BY <1>8, <1>9, SilentRan
<1>11. CASE ~(phase # was /\ was \in {"resolution", "refractory"})
  BY <1>6, <1>10, <1>11
<1>12. CASE phase # was /\ was \in {"resolution", "refractory"}
  <2>1. e2.emitted \in Nat /\ e2.s.phase \in Words /\ "recovery" \in Words /\ was \in Words
        /\ e1.last.trig \in Words /\ e1.last.via \in Words
    BY <1>1, <1>2, <1>7, <1>8, EngineFields DEF Words, Receipts, States
  <2>2. ReceiptOf(r, e2.emitted + 1, "recovery", e1.last.trig, e1.last.via, now,
                  "recovery" # "event" /\ e2.last.unrooted)
    BY <2>1, ReceiptTyped, Zenon
  <2> HIDE DEF r
  <2>3. /\ r \in Receipts /\ r.n = e2.emitted + 1 /\ r.at = now /\ r.type = "recovery"
        /\ Trusted(r)
    BY <2>2, <1>8, <1>10 DEF ReceiptOf, Trusted, Marked
  <2>4. EmitsOne(e2, Emit(e2, r), r)
    BY <2>3, <1>8, EmitTyped
  <2>5. ~(r.type = "event" /\ r.trig # "organic") /\ e2.selfs \in Nat
    BY <2>3, <1>8, EngineFields
  <2> DEFINE e4 == Emit(e2, r)
  <2> HIDE DEF e4
  <2>6. /\ e4 \in Engines
        /\ e4.last = r /\ e4.pending = Append(e2.pending, r) /\ e4.emitted = e2.emitted + 1
        /\ e4.forced = e2.forced /\ e4.selfs = e2.selfs /\ e4.forcedAt = e2.forcedAt
    BY <2>4 DEF EmitsOne, e4
  <2>7. (e2.forced => e4.forced) /\ e2.selfs <= e4.selfs
    BY <2>5, <2>6
  <2>8. Ran(e, e4, log, now) /\ Marked(e4)
    BY <2>3, <2>5, <2>6, <2>7, <1>10, EmitRan
  <2> QED BY <2>8, <1>6, <1>12 DEF e4
<1> QED BY <1>11, <1>12

LEMMA DecaysTyped ==
    ASSUME NEW ticks, NEW to \in Decays(ticks)
    PROVE  to[1] \in 0..3 /\ to[2] \in 0..2
BY DEF Decays

LEMMA AdvanceRan ==
    ASSUME NEW e \in Engines, NEW log \in Seq(Receipts), NEW now \in Nat,
           NEW e1, Ran(e, e1, log, now), Marked(e1), NEW ticks \in Int,
           NEW to, to[1] \in 0..3, to[2] \in 0..2
    PROVE  Ran(e, AdvanceCore(e1, ticks, to, now), log, now)
           /\ Marked(AdvanceCore(e1, ticks, to, now))
<1> DEFINE t == e1.time + ticks
           timed == [e1 EXCEPT !.time = t]
           ends == e1.s.phase = "event"
           rest == IF ends THEN ticks - EventTicks ELSE ticks
           e2 == IF ends THEN BeginResolution(timed, now) ELSE timed
<1>1. e1 \in Engines
  BY RanEngine
<1>2. t \in Int
  BY <1>1, EngineFields
<1>3. CASE ticks = 0
  BY <1>3 DEF AdvanceCore
<1>4. CASE ticks # 0
  <2>1. AdvanceCore(e1, ticks, to, now) = IF rest > 0 THEN Decay(e2, to, now) ELSE e2
    BY <1>4 DEF AdvanceCore
  <2> HIDE DEF t, rest
  <2>2. timed \in Engines /\ timed.last = e1.last /\ timed.pending = e1.pending
        /\ timed.emitted = e1.emitted /\ timed.forced = e1.forced /\ timed.selfs = e1.selfs
        /\ timed.forcedAt = e1.forcedAt
    BY <1>1, <1>2 DEF Engines
  <2> HIDE DEF timed
  <2>3. e1.selfs <= timed.selfs
    BY <1>1, <2>2, EngineFields
  <2>4. Ran(e, timed, log, now) /\ Marked(timed)
    BY <2>2, <2>3, SilentRan
  <2>5. Ran(e, e2, log, now) /\ Marked(e2)
    BY <2>4, ResolutionRan
  <2> HIDE DEF e2
  <2> QED BY <2>1, <2>5, DecayRan
<1> QED BY <1>3, <1>4

LEMMA AdvanceTimeRan ==
    ASSUME NEW e \in Engines, NEW log \in Seq(Receipts), NEW now \in Nat,
           NEW e1, Ran(e, e1, log, now), Marked(e1), NEW ticks \in Int,
           NEW to, to[1] \in 0..3, to[2] \in 0..2
    PROVE  Ran(e, AdvanceTime(e1, ticks, to, now), log, now)
           /\ Marked(AdvanceTime(e1, ticks, to, now))
<1> DEFINE s2 == [e1.s EXCEPT !.window = FALSE]
           e2 == [e1 EXCEPT !.qualifying = FALSE, !.s = s2, !.observedAt = None]
<1>1. e1 \in Engines /\ e1.s \in States
  BY RanEngine, EngineFields
<1>2. s2 \in States
  BY <1>1 DEF States
<1>3. AdvanceTime(e1, ticks, to, now) = AdvanceCore(e2, ticks, to, now)
  BY DEF AdvanceTime
<1> HIDE DEF s2
<1>4. e2 \in Engines /\ e2.last = e1.last /\ e2.pending = e1.pending
      /\ e2.emitted = e1.emitted /\ e2.forced = e1.forced /\ e2.selfs = e1.selfs
      /\ e2.forcedAt = e1.forcedAt
  BY <1>1, <1>2 DEF Engines, Readings
<1> HIDE DEF e2
<1>5. e1.selfs <= e2.selfs
  BY <1>1, <1>4, EngineFields
<1>6. Ran(e, e2, log, now) /\ Marked(e2)
  BY <1>4, <1>5, SilentRan
<1> QED BY <1>3, <1>6, AdvanceRan

\* The last receipt is an organic event of this transition, not bound yet.
OrganicEnd(e) ==
    /\ e.pending # <<>> /\ e.last = e.pending[Len(e.pending)]
    /\ e.last.type = "event" /\ e.last.trig = "organic"
    /\ \A i \in 1..(Len(e.pending) - 1) : Trusted(e.pending[i])

\* An organic event needs a stimulus that counts as observed.
LEMMA StimulatedRan ==
    ASSUME NEW e \in Engines, NEW log \in Seq(Receipts), NEW now \in Nat,
           NEW e1, Ran(e, e1, log, now), Marked(e1), NEW a \in Stimuli,
           NEW context \in BOOLEAN, NEW continued \in BOOLEAN
    PROVE  LET e2 == Stimulated(e1, a, context, continued, now)
           IN Ran(e, e2, log, now) /\ (Marked(e2) \/ (context /\ OrganicEnd(e2)))
<1> DEFINE level == IF a.rises /\ e1.s.level < 3 THEN e1.s.level + 1 ELSE e1.s.level
           qualifies == a.rises /\ context
           window == qualifies /\ continued /\ (e1.s.window \/ a.soon)
           phase == IF level >= 2 /\ window THEN "entrained"
                    ELSE IF level > 0 THEN "activating" ELSE e1.s.phase
           s2 == [e1.s EXCEPT !.level = level, !.window = window, !.context = context,
                              !.phase = phase]
           e2 == [e1 EXCEPT !.qualifying = qualifies, !.s = s2]
           e3 == [e2 EXCEPT !.s.phase = "eligible"]
           e4 == EnterEvent(e3, "organic", "cycle", now)
<1>1. e1 \in Engines /\ e1.s \in States /\ a.rises \in BOOLEAN /\ a.soon \in BOOLEAN
  BY RanEngine, EngineFields DEF Stimuli
<1>2. e1.s.level \in 0..3 /\ e1.s.phase \in Phases /\ e1.s.window \in BOOLEAN
  BY <1>1 DEF States
<1>3. level \in 0..3
  BY <1>2
<1>4. qualifies \in BOOLEAN /\ window \in BOOLEAN
  BY <1>1, <1>2
<1>5. phase \in Phases
  BY <1>2 DEF Phases
<1>6. Stimulated(e1, a, context, continued, now) = IF Eligible(e2, a.calm) THEN e4 ELSE e2
  BY DEF Stimulated
<1> HIDE DEF level, qualifies, window, phase
<1>7. s2 \in States /\ s2.context = context
  <2>1. s2 = Moved(e1.s, level, window, context, phase)
    BY DEF Moved
  <2> HIDE DEF s2
  <2> QED BY <2>1, <1>1, <1>3, <1>4, <1>5, StateMoved
<1> HIDE DEF s2
<1>8. e2 \in Engines /\ e2.s = s2 /\ e2.last = e1.last /\ e2.pending = e1.pending
      /\ e2.emitted = e1.emitted /\ e2.forced = e1.forced /\ e2.selfs = e1.selfs
      /\ e2.forcedAt = e1.forcedAt
  BY <1>1, <1>4, <1>7 DEF Engines
<1> HIDE DEF e2
<1>9. e1.selfs <= e2.selfs /\ e1.selfs \in Nat
  BY <1>1, <1>8, EngineFields
<1>10. Ran(e, e2, log, now) /\ Marked(e2)
  BY <1>8, <1>9, SilentRan
<1>11. CASE ~Eligible(e2, a.calm)
  BY <1>6, <1>10, <1>11
<1>12. CASE Eligible(e2, a.calm)
  <2>1. context
    BY <1>12, <1>7, <1>8 DEF Eligible
  <2>2. "organic" \in Words /\ "cycle" \in Words
    BY DEF Words
  <2>3. PICK r : /\ EmitsOne(e2, e4, r)
                 /\ r.at = now /\ r.type = "event" /\ r.trig = "organic" /\ r.via = "cycle"
    BY <1>8, <2>2, EnterEventTyped
  <2> HIDE DEF e4
  <2>4. /\ e4 \in Engines /\ r \in Receipts /\ r.n = e2.emitted + 1
        /\ e4.last = r /\ e4.pending = Append(e2.pending, r) /\ e4.emitted = e2.emitted + 1
        /\ e4.forced = e2.forced /\ e4.selfs = e2.selfs /\ e4.forcedAt = e2.forcedAt
    BY <2>3 DEF EmitsOne
  <2>5. (e2.forced => e4.forced) /\ e2.selfs <= e4.selfs
        /\ ~(r.type = "event" /\ r.trig # "organic")
    BY <2>3, <2>4, <1>8, EngineFields
  <2>6. Ran(e, e4, log, now)
    BY <2>3, <2>4, <2>5, <1>10, EmitRan
  <2>7. OrganicEnd(e4)
    <3> DEFINE p == e2.pending
               q == e4.pending
    <3>1. p \in Seq(Receipts) /\ q = Append(p, r) /\ AllTrusted(p)
      BY <2>4, <1>8, <1>10, EngineFields DEF Marked
    <3> HIDE DEF p, q
    <3>2. q # <<>> /\ q[Len(q)] = r /\ \A i \in 1..(Len(q) - 1) : q[i] = p[i] /\ i \in 1..Len(p)
      BY <3>1
    <3>3. \A i \in 1..(Len(q) - 1) : Trusted(q[i])
      BY <3>1, <3>2 DEF AllTrusted
    <3> QED BY <2>3, <2>4, <3>2, <3>3 DEF OrganicEnd, q
  <2> QED BY <1>6, <1>12, <2>1, <2>6, <2>7
<1> QED BY <1>11, <1>12

LEMMA StimulusRan ==
    ASSUME NEW e, NEW log, NEW now \in Nat, EngineLaw(e, log, now), Marked(e),
           NEW a \in Stimuli, NEW context \in BOOLEAN, NEW to, to[1] \in 0..3, to[2] \in 0..2
    PROVE  LET e2 == ApplyStimulus(e, a, context, to, now)
           IN Ran(e, e2, log, now) /\ (Marked(e2) \/ (context /\ OrganicEnd(e2)))
<1> DEFINE gap == TrustedElapsed(e, now)
           e0 == [e EXCEPT !.observedAt = now]
           e1 == AdvanceCore(e0, gap, to, now)
           off == [e1 EXCEPT !.qualifying = FALSE]
           continued == e.qualifying /\ gap = 0 /\ e.observedAt # None
           moved == Stimulated(e1, a, context, continued, now)
<1>1. e \in Engines /\ log \in Seq(Receipts) /\ e.selfs \in Nat
  BY EngineFields DEF EngineLaw
<1>2. gap \in Int
  BY <1>1, EngineFields, AfTypes DEF TrustedElapsed
<1>3. continued \in BOOLEAN
  BY <1>1, EngineFields
<1>4. ApplyStimulus(e, a, context, to, now) =
          IF e1.s.phase = "event" \/ ReentryBlocked(e1) THEN off ELSE moved
  BY DEF ApplyStimulus
<1> HIDE DEF gap, continued
<1>5. e0 \in Engines /\ e0.last = e.last /\ e0.pending = e.pending
      /\ e0.emitted = e.emitted /\ e0.forced = e.forced /\ e0.selfs = e.selfs
      /\ e0.forcedAt = e.forcedAt
  BY <1>1, AfTypes DEF Engines
<1> HIDE DEF e0
<1>6. Ran(e, e, log, now)
  BY RanStart
<1>7. Ran(e, e0, log, now) /\ Marked(e0)
  BY <1>1, <1>5, <1>6, SilentRan
<1>8. Ran(e, e1, log, now) /\ Marked(e1)
  BY <1>1, <1>2, <1>7, AdvanceRan
<1> HIDE DEF e1
<1>9. e1 \in Engines /\ e1.selfs \in Nat
  BY <1>8, RanEngine, EngineFields
<1>10. off \in Engines /\ off.last = e1.last /\ off.pending = e1.pending
      /\ off.emitted = e1.emitted /\ off.forced = e1.forced /\ off.selfs = e1.selfs
      /\ off.forcedAt = e1.forcedAt
  BY <1>9 DEF Engines
<1> HIDE DEF off
<1>11. Ran(e, off, log, now) /\ Marked(off)
  BY <1>8, <1>9, <1>10, SilentRan
<1>12. Ran(e, moved, log, now) /\ (Marked(moved) \/ (context /\ OrganicEnd(moved)))
  BY <1>1, <1>3, <1>8, StimulatedRan
<1> HIDE DEF moved
<1> QED BY <1>4, <1>11, <1>12

\* The end of a forced event, not bound yet.
ForcedEnd(e) ==
    /\ e.pending # <<>> /\ e.last = e.pending[Len(e.pending)] /\ e.last.n = e.emitted
    /\ \A i \in 1..(Len(e.pending) - 1) : Trusted(e.pending[i])

\* A forced test either leaves the receipts alone or emits one event, in time.
LEMMA ForcedRan ==
    ASSUME NEW e, NEW log, NEW now \in Nat, EngineLaw(e, log, now), Marked(e),
           NEW trig \in {"admin", "self"}, NEW via \in {"cycle", "host"}
    PROVE  LET e2 == ForcedRuntime(e, trig, via, now)
           IN /\ Ran(e, e2, log, now)
              /\ IF Happened(e, e2) THEN ForcedEnd(e2) /\ (via = "host" => Marked(e2))
                 ELSE e2.pending = e.pending /\ e2.emitted = e.emitted /\ Marked(e2)
<1> DEFINE at == [e EXCEPT !.forcedAt = now]
           self == IF trig = "self" THEN e.selfs + 1 ELSE e.selfs
           e1 == [e EXCEPT !.forced = TRUE, !.selfs = self]
           e3 == EnterEvent(e1, trig, via, now)
           e4 == [e3 EXCEPT !.forcedAt = now]
           e2 == ForcedRuntime(e, trig, via, now)
           Quiet(x) == /\ Ran(e, x, log, now) /\ Marked(x)
                       /\ x.pending = e.pending /\ x.emitted = e.emitted
<1>1. e \in Engines /\ log \in Seq(Receipts) /\ e.selfs \in Nat /\ e.emitted \in Nat
      /\ e.pending \in Seq(Receipts)
  BY EngineFields DEF EngineLaw
<1>2. Ran(e, e, log, now)
  BY RanStart
<1>3. Quiet(e)
  BY <1>2
<1>4. Quiet(at)
  <2>1. at \in Engines /\ at.last = e.last /\ at.pending = e.pending
        /\ at.emitted = e.emitted /\ at.forced = e.forced /\ at.selfs = e.selfs
        /\ at.forcedAt = now
    BY <1>1, AfTypes DEF Engines
  <2> HIDE DEF at
  <2> QED BY <1>1, <1>2, <2>1, SilentRan
<1>5. ASSUME ~(trig = "self" /\ e.selfs >= SelfLimit)
      PROVE  /\ e1 \in Engines /\ e1.last = e.last /\ e1.pending = e.pending
             /\ e1.emitted = e.emitted /\ e1.forced = TRUE /\ e1.selfs = self
             /\ e1.forcedAt = e.forcedAt /\ self \in Nat /\ e.selfs <= self
             /\ e1.s = e.s
  <2>1. self \in 0..SelfLimit /\ self \in Nat /\ e.selfs <= self
    BY <1>1, <1>5, EngineFields, AfTypes
  <2> HIDE DEF self
  <2> QED BY <1>1, <2>1 DEF Engines
<1>6. ASSUME ~(trig = "self" /\ e.selfs >= SelfLimit)
      PROVE  Quiet(e1)
  <2> HIDE DEF e1, self
  <2> QED BY <1>1, <1>2, <1>5, <1>6, SilentRan
<1>7. ASSUME ~(trig = "self" /\ e.selfs >= SelfLimit), Cooled(e.forcedAt, e.forced, now)
      PROVE  Ran(e, e4, log, now) /\ Happened(e, e4) /\ ForcedEnd(e4) /\ (via = "host" => Marked(e4))
  <2>1. trig \in Words /\ via \in Words
    BY DEF Words
  <2>2. e1 \in Engines
    BY <1>5, <1>7
  <2>3. PICK r : /\ EmitsOne(e1, e3, r)
                 /\ r.at = now /\ r.type = "event" /\ r.trig = trig /\ r.via = via
    BY <2>1, <2>2, EnterEventTyped
  <2> HIDE DEF e3, e1
  <2>4. /\ e3 \in Engines /\ r \in Receipts /\ r.n = e1.emitted + 1
        /\ e3.last = r /\ e3.pending = Append(e1.pending, r) /\ e3.emitted = e1.emitted + 1
        /\ e3.forced = e1.forced /\ e3.selfs = e1.selfs
    BY <2>3 DEF EmitsOne
  <2>5. /\ e4 \in Engines /\ e4.last = r /\ e4.pending = Append(e.pending, r)
        /\ e4.emitted = e.emitted + 1 /\ e4.forced = TRUE /\ e4.selfs = self
        /\ e4.forcedAt = now /\ r.n = e.emitted + 1
    BY <2>4, <1>5, <1>7, AfTypes DEF Engines
  <2> HIDE DEF e4
  <2>6. r.trig = "self" => e.selfs + 1 <= e4.selfs
    BY <2>3, <2>5, <1>1 DEF self
  <2>7. e.selfs <= e4.selfs
    BY <2>5, <1>5, <1>7
  <2>8. Ran(e, e4, log, now) /\ (Marked(e) /\ Trusted(r) => Marked(e4))
    BY <2>3, <2>4, <2>5, <2>6, <2>7, <1>1, <1>2, <1>7, EmitRan
  <2>9. via = "host" => Trusted(r)
    BY <2>3 DEF Trusted
  <2>10. ForcedEnd(e4)
    <3> DEFINE p == e.pending
               q == e4.pending
    <3>1. p \in Seq(Receipts) /\ q = Append(p, r) /\ AllTrusted(p)
      BY <2>5, <1>1 DEF Marked
    <3> HIDE DEF p, q
    <3>2. q # <<>> /\ q[Len(q)] = r /\ \A i \in 1..(Len(q) - 1) : q[i] = p[i] /\ i \in 1..Len(p)
      BY <3>1
    <3>3. \A i \in 1..(Len(q) - 1) : Trusted(q[i])
      BY <3>1, <3>2 DEF AllTrusted
    <3> QED BY <2>5, <3>2, <3>3 DEF ForcedEnd, q
  <2> QED BY <2>5, <2>8, <2>9, <2>10, <1>1 DEF Happened
<1>8. ASSUME NEW x, Quiet(x)
      PROVE  ~Happened(e, x)
  BY <1>1, <1>8 DEF Happened
<1>9. Quiet(e2) \/ (/\ Ran(e, e2, log, now) /\ Happened(e, e2) /\ ForcedEnd(e2)
                    /\ via = "host" => Marked(e2))
  <2>1. CASE ReentryBlocked(e) \/ (trig = "self" /\ e.selfs >= SelfLimit)
    <3>1. e2 = e
      BY <2>1 DEF ForcedRuntime, EngineWaits
    <3> QED BY <3>1, <1>3
  <2>2. CASE ~(ReentryBlocked(e) \/ (trig = "self" /\ e.selfs >= SelfLimit))
             /\ ~Cooled(e.forcedAt, e.forced, now)
    <3>1. e2 = IF e.forcedAt = None THEN at ELSE e
      BY <2>2 DEF ForcedRuntime, EngineWaits
    <3> HIDE DEF e2, at
    <3> QED BY <3>1, <1>3, <1>4
  <2>3. CASE ~(ReentryBlocked(e) \/ (trig = "self" /\ e.selfs >= SelfLimit))
             /\ Cooled(e.forcedAt, e.forced, now)
    <3>1. e2 = IF e.s.phase = "event" THEN e1 ELSE e4
      BY <2>3 DEF ForcedRuntime, EngineWaits
    <3> HIDE DEF e2, e1, e4, e3, self, Quiet
    <3> QED BY <3>1, <2>3, <1>6, <1>7
  <2> QED BY <2>1, <2>2, <2>3
<1> HIDE DEF e2, at, e1, e4, e3, self
<1> QED BY <1>8, <1>9 DEF e2

----------------------------------------------------------------------------
(* What is bound to receipts already emitted, and what leaves the engine.  *)

\* Receipts that differ in their trust only.
SameBut(r, q) == r \in Receipts /\ q \in Receipts /\ r.n = q.n /\ r.type = q.type
                 /\ r.trig = q.trig /\ r.at = q.at
SameReceipts(p, q) == Len(p) = Len(q) /\ \A i \in 1..Len(p) : SameBut(p[i], q[i])

LEMMA SameLaw ==
    ASSUME NEW log \in Seq(Receipts), NEW h \in Seq(Receipts), SameReceipts(log, h),
           NEW forced, NEW selfs, NEW at, NEW now
    PROVE  /\ Numbered(log) => Numbered(h)
           /\ Spaced(log) => Spaced(h)
           /\ Counted(log, forced, selfs) => Counted(h, forced, selfs)
           /\ Clocked(log, at, now) => Clocked(h, at, now)
<1>1. \A i \in 1..Len(log) : log[i].n = h[i].n /\ log[i].at = h[i].at
                             /\ log[i].type = h[i].type /\ log[i].trig = h[i].trig
  BY DEF SameReceipts, SameBut
<1>2. Len(log) = Len(h)
  BY DEF SameReceipts
<1>3. \A i \in 1..Len(log) : ForcedAt(log, i) <=> ForcedAt(h, i)
  BY <1>1, <1>2 DEF ForcedAt
<1>4. SelfAt(log) = SelfAt(h)
  BY <1>1, <1>2, <1>3 DEF SelfAt
<1>5. Numbered(log) => Numbered(h)
  BY <1>1, <1>2 DEF Numbered
<1>6. Spaced(log) => Spaced(h)
  BY <1>1, <1>2, <1>3 DEF Spaced
<1>7. Counted(log, forced, selfs) => Counted(h, forced, selfs)
  BY <1>2, <1>3, <1>4 DEF Counted
<1>8. Clocked(log, at, now) => Clocked(h, at, now)
  BY <1>1, <1>2, <1>3 DEF Clocked
<1> QED BY <1>5, <1>6, <1>7, <1>8

\* Binding receipts that are still pending leaves an engine that was run alike.
LEMMA RemarkRan ==
    ASSUME NEW e \in Engines, NEW log \in Seq(Receipts), NEW now,
           NEW e1, Ran(e, e1, log, now), NEW e2 \in Engines,
           e2.emitted = e1.emitted, e2.last.n = e1.last.n, SameReceipts(e1.pending, e2.pending),
           e2.forced = e1.forced, e2.selfs = e1.selfs, e2.forcedAt = e1.forcedAt
    PROVE  Ran(e, e2, log, now)
<1> DEFINE k == Len(e.pending)
           p == e1.pending
           q == e2.pending
           h == Hist(log, k, e1)
           g == Hist(log, k, e2)
<1>1. EngineLaw(e1, h, now) /\ k <= Len(p) /\ e1.emitted - Len(p) = e.emitted - k
  BY DEF Ran
<1>2. p \in Seq(Receipts) /\ q \in Seq(Receipts) /\ k \in Nat /\ Len(p) = Len(q)
      /\ \A i \in 1..Len(p) : SameBut(p[i], q[i])
  BY <1>1, EngineFields DEF EngineLaw, SameReceipts
<1>3. g \in Seq(Receipts) /\ SameReceipts(h, g)
  <2> DEFINE a == SubSeq(p, k + 1, Len(p))
             b == SubSeq(q, k + 1, Len(q))
  <2>1. h = log \o a /\ g = log \o b
    BY DEF Hist
  <2> HIDE DEF h, g, p, q, k
  <2>2. a \in Seq(Receipts) /\ b \in Seq(Receipts) /\ Len(a) = Len(p) - k /\ Len(b) = Len(a)
        /\ \A i \in 1..Len(a) : a[i] = p[k + i] /\ b[i] = q[k + i] /\ k + i \in 1..Len(p)
    BY <1>1, <1>2
  <2> HIDE DEF a, b
  <2>3. h \in Seq(Receipts) /\ g \in Seq(Receipts) /\ Len(h) = Len(log) + Len(a)
        /\ Len(g) = Len(log) + Len(b)
    <3>1. a \in Seq(Receipts) /\ b \in Seq(Receipts)
      BY <2>2
    <3> QED BY <2>1, <3>1
  <2>4. ASSUME NEW i \in 1..Len(h)
        PROVE  SameBut(h[i], g[i])
    <3>1. CASE i <= Len(log)
      <4>1. h[i] = log[i] /\ g[i] = log[i] /\ log[i] \in Receipts
        BY <3>1, <2>1, <2>2, <2>3
      <4> QED BY <4>1 DEF SameBut
    <3>2. CASE i > Len(log)
      <4>1. h[i] = a[i - Len(log)] /\ g[i] = b[i - Len(log)] /\ i - Len(log) \in 1..Len(a)
        BY <3>2, <2>1, <2>2, <2>3
      <4> QED BY <4>1, <2>2, <1>2
    <3> QED BY <3>1, <3>2
  <2> QED BY <2>2, <2>3, <2>4 DEF SameReceipts
<1> HIDE DEF h, g
<1>4. h \in Seq(Receipts) /\ Len(h) = e1.emitted /\ e1.last.n = e1.emitted
      /\ Len(p) <= e1.emitted
      /\ (\A i \in 1..Len(p) : p[i].n = e1.emitted - Len(p) + i)
      /\ Numbered(h) /\ Spaced(h) /\ Counted(h, e1.forced, e1.selfs)
      /\ Clocked(h, e1.forcedAt, now)
  BY <1>1 DEF EngineLaw
<1>5. Numbered(g) /\ Spaced(g) /\ Counted(g, e2.forced, e2.selfs) /\ Clocked(g, e2.forcedAt, now)
  BY <1>3, <1>4, SameLaw
<1>6. \A i \in 1..Len(q) : q[i].n = e2.emitted - Len(q) + i
  BY <1>2, <1>4 DEF SameBut
<1>7. EngineLaw(e2, g, now)
  BY <1>2, <1>3, <1>4, <1>5, <1>6 DEF EngineLaw, SameReceipts
<1> QED BY <1>1, <1>2, <1>7 DEF Ran, g, p, q

LEMMA RootedSame ==
    ASSUME NEW r \in Receipts
    PROVE  LET q == [r EXCEPT !.unrooted = TRUE]
           IN SameBut(r, q) /\ Trusted(q) /\ q.n = r.n
BY DEF Receipts, SameBut, Trusted

LEMMA BindReceiptRan ==
    ASSUME NEW e \in Engines, NEW log \in Seq(Receipts), NEW now,
           NEW e1, Ran(e, e1, log, now), NEW n
    PROVE  LET e2 == BindReceipt(e1, n)
           IN /\ Ran(e, e2, log, now) /\ Trusted(e2.last)
              /\ Len(e2.pending) = Len(e1.pending) /\ e2.emitted = e1.emitted
              /\ \A i \in 1..Len(e1.pending) :
                     Trusted(e1.pending[i]) \/ e1.pending[i].n = n => Trusted(e2.pending[i])
<1> DEFINE p == e1.pending
           q == [i \in DOMAIN p |-> IF p[i].n = n THEN [p[i] EXCEPT !.unrooted = TRUE] ELSE p[i]]
           l == [e1.last EXCEPT !.unrooted = TRUE]
           e2 == [e1 EXCEPT !.last = l, !.pending = q]
<1>1. e1 \in Engines /\ e1.last \in Receipts /\ p \in Seq(Receipts)
  BY RanEngine, EngineFields
<1>2. BindReceipt(e1, n) = e2
  BY DEF BindReceipt
<1>3. l \in Receipts /\ l.n = e1.last.n /\ Trusted(l)
  BY <1>1, RootedSame DEF SameBut
<1>4. DOMAIN p = 1..Len(p) /\ Len(p) \in Nat /\ \A i \in 1..Len(p) : p[i] \in Receipts
  BY <1>1
<1> HIDE DEF p, l
<1>5. \A i \in 1..Len(p) : q[i] = IF p[i].n = n THEN [p[i] EXCEPT !.unrooted = TRUE] ELSE p[i]
  BY <1>4
<1>6. DOMAIN q = 1..Len(p)
  BY <1>4
<1> HIDE DEF q
<1>7. ASSUME NEW i \in 1..Len(p)
      PROVE  SameBut(p[i], q[i]) /\ (Trusted(p[i]) \/ p[i].n = n => Trusted(q[i]))
  <2>1. CASE p[i].n = n
    BY <2>1, <1>4, <1>5, RootedSame
  <2>2. CASE p[i].n # n
    BY <2>2, <1>4, <1>5 DEF SameBut
  <2> QED BY <2>1, <2>2
<1>8. q \in Seq(Receipts) /\ Len(q) = Len(p)
  <2>1. \A i \in 1..Len(p) : q[i] \in Receipts
    BY <1>7 DEF SameBut
  <2>2. q = [i \in 1..Len(p) |-> q[i]]
    BY <1>5, <1>6, <1>4 DEF q
  <2> QED BY <1>4, <2>1, <2>2
<1>9. e2 \in Engines /\ e2.last = l /\ e2.pending = q /\ e2.emitted = e1.emitted
      /\ e2.forced = e1.forced /\ e2.selfs = e1.selfs /\ e2.forcedAt = e1.forcedAt
  BY <1>1, <1>3, <1>8 DEF Engines
<1> HIDE DEF e2
<1>10. SameReceipts(e1.pending, e2.pending)
  BY <1>7, <1>8, <1>9 DEF SameReceipts, p
<1>11. Ran(e, e2, log, now)
  BY <1>3, <1>9, <1>10, RemarkRan
<1>12. \A i \in 1..Len(p) : Trusted(p[i]) \/ p[i].n = n => Trusted(q[i])
  BY <1>7
<1> QED BY <1>2, <1>3, <1>8, <1>9, <1>11, <1>12 DEF p

\* The event a forced test emitted is bound before anything else reads it.
LEMMA BoundForced ==
    ASSUME NEW e \in Engines, NEW log \in Seq(Receipts), NEW now,
           NEW e1, Ran(e, e1, log, now), ForcedEnd(e1)
    PROVE  LET e2 == BindReceipt(e1, e1.emitted)
           IN Ran(e, e2, log, now) /\ Marked(e2)
<1> DEFINE e2 == BindReceipt(e1, e1.emitted)
<1>1. Ran(e, e2, log, now) /\ Trusted(e2.last) /\ Len(e2.pending) = Len(e1.pending)
      /\ \A i \in 1..Len(e1.pending) :
             Trusted(e1.pending[i]) \/ e1.pending[i].n = e1.emitted => Trusted(e2.pending[i])
  BY BindReceiptRan
<1>2. e1.pending \in Seq(Receipts)
  BY RanEngine, EngineFields
<1>3. \A i \in 1..Len(e1.pending) : i \in 1..(Len(e1.pending) - 1) \/ i = Len(e1.pending)
  BY <1>2
<1>4. \A i \in 1..Len(e1.pending) : Trusted(e1.pending[i]) \/ e1.pending[i].n = e1.emitted
  BY <1>3 DEF ForcedEnd
<1> HIDE DEF e2
<1>5. AllTrusted(e2.pending)
  BY <1>1, <1>4 DEF AllTrusted
<1> QED BY <1>1, <1>5 DEF Marked, e2

\* Drained receipts that name the same numbers, each of them marked.
Copies(receipts, e) ==
    /\ receipts \in Seq(Receipts) /\ Len(receipts) = Len(e.pending)
    /\ \A i \in 1..Len(receipts) : receipts[i].n = e.pending[i].n
    /\ AllTrusted(receipts)

LEMMA BoundOrganic ==
    ASSUME NEW e \in Engines, NEW log \in Seq(Receipts), NEW now,
           NEW e1, Ran(e, e1, log, now), Marked(e1) \/ OrganicEnd(e1)
    PROVE  LET b == BindOrganic(e1, e1.pending)
           IN /\ Ran(e, b.engine, log, now) /\ Trusted(b.engine.last)
              /\ b.engine.pending = e1.pending /\ b.engine.emitted = e1.emitted
              /\ b.engine.last.n = e1.last.n /\ Copies(b.receipts, e1)
<1> DEFINE p == e1.pending
           organic(r) == r.type = "event" /\ r.trig = "organic"
           mine == {r \in ToSet(p) : organic(r)}
           l == [e1.last EXCEPT !.unrooted = TRUE]
           e3 == [e1 EXCEPT !.last = l]
           e2 == IF e1.last \in mine THEN e3 ELSE e1
           q == [i \in DOMAIN p |->
                     IF organic(p[i]) THEN [p[i] EXCEPT !.unrooted = TRUE] ELSE p[i]]
<1>1. e1 \in Engines /\ e1.last \in Receipts /\ p \in Seq(Receipts)
  BY RanEngine, EngineFields
<1>2. BindOrganic(e1, p).engine = e2 /\ BindOrganic(e1, p).receipts = q
  BY DEF BindOrganic
<1>3. l \in Receipts /\ l.n = e1.last.n /\ Trusted(l)
  BY <1>1, RootedSame DEF SameBut
<1>4. DOMAIN p = 1..Len(p) /\ Len(p) \in Nat /\ \A i \in 1..Len(p) : p[i] \in Receipts
  BY <1>1
<1>5. \A i \in 1..Len(p) : q[i] = IF organic(p[i]) THEN [p[i] EXCEPT !.unrooted = TRUE] ELSE p[i]
  BY <1>4
<1>6. ASSUME NEW i \in 1..Len(p)
      PROVE  q[i] \in Receipts /\ q[i].n = p[i].n /\ Trusted(q[i])
  <2>1. CASE organic(p[i])
    <3>1. q[i] = [p[i] EXCEPT !.unrooted = TRUE]
      BY <2>1, <1>5
    <3> QED BY <3>1, <1>4, RootedSame DEF SameBut
  <2>2. CASE ~organic(p[i])
    <3>1. q[i] = p[i]
      BY <2>2, <1>5
    <3>2. Trusted(p[i])
      <4>1. CASE Marked(e1)
        BY <4>1 DEF Marked, AllTrusted
      <4>2. CASE OrganicEnd(e1)
        <5>1. i # Len(p)
          BY <4>2, <2>2 DEF OrganicEnd
        <5>2. i \in 1..(Len(p) - 1)
          BY <5>1, <1>4
        <5> QED BY <5>2, <4>2 DEF OrganicEnd
      <4> QED BY <4>1, <4>2
    <3> QED BY <3>1, <3>2, <1>4
  <2> QED BY <2>1, <2>2
<1>7. Copies(q, e1)
  <2>1. q = [i \in 1..Len(p) |-> q[i]]
    BY <1>4
  <2> HIDE DEF q, p
  <2>2. q \in Seq(Receipts) /\ Len(q) = Len(p)
    BY <2>1, <1>4, <1>6
  <2> QED BY <2>2, <1>6 DEF Copies, AllTrusted, p
<1> HIDE DEF q, l
<1>8. e3 \in Engines /\ e3.last = l /\ e3.pending = p /\ e3.emitted = e1.emitted
      /\ e3.forced = e1.forced /\ e3.selfs = e1.selfs /\ e3.forcedAt = e1.forcedAt
  BY <1>1, <1>3 DEF Engines
<1>9. SameReceipts(p, p)
  BY <1>4 DEF SameReceipts, SameBut
<1> HIDE DEF e3
<1>10. Ran(e, e3, log, now)
  BY <1>3, <1>8, <1>9, RemarkRan
<1>11. Trusted(e2.last)
  <2>1. CASE e1.last \in mine
    BY <2>1, <1>3, <1>8
  <2>2. CASE e1.last \notin mine
    <3>1. ~OrganicEnd(e1)
      <4> SUFFICES ASSUME OrganicEnd(e1) PROVE FALSE
        OBVIOUS
      <4>1. Len(p) \in 1..Len(p)
        BY <1>1 DEF OrganicEnd
      <4>2. e1.last \in ToSet(p)
        BY <4>1, <1>4 DEF OrganicEnd, ToSet
      <4> QED BY <4>2, <2>2 DEF OrganicEnd
    <3> QED BY <3>1, <2>2 DEF Marked
  <2> QED BY <2>1, <2>2
<1>12. Ran(e, e2, log, now) /\ e2.pending = p /\ e2.emitted = e1.emitted /\ e2.last.n = e1.last.n
  BY <1>3, <1>8, <1>10
<1> HIDE DEF e2
<1> QED BY <1>2, <1>7, <1>11, <1>12 DEF p

LEMMA ObservationTyped ==
    ASSUME NEW e \in Engines
    PROVE  LET o == Observation(e)
           IN /\ o \in Observations /\ o.last = e.last /\ o.emitted = e.emitted
              /\ o.forced = e.forced /\ o.selfs = e.selfs
BY EngineFields DEF Observation, Observations

\* An observation of an engine agrees with the engine's history.
LEMMA ObservationLawful ==
    ASSUME NEW e, NEW log, NEW now, EngineLaw(e, log, now), Trusted(e.last)
    PROVE  ObservationLaw(Observation(e), log)
<1> DEFINE o == Observation(e)
<1>1. e \in Engines /\ log \in Seq(Receipts) /\ Len(log) = e.emitted /\ e.last.n = e.emitted
      /\ Counted(log, e.forced, e.selfs)
  BY DEF EngineLaw
<1>2. o \in Observations /\ o.last = e.last /\ o.emitted = e.emitted
      /\ o.forced = e.forced /\ o.selfs = e.selfs
  BY <1>1, ObservationTyped
<1> HIDE DEF o
<1>3. SubSeq(log, 1, Len(log)) = log
  BY <1>1, HistAll
<1>4. Len(log) <= Len(log)
  BY <1>1
<1>5. ObservationLaw(o, log)
  BY <1>1, <1>2, <1>3, <1>4 DEF ObservationLaw
<1> QED BY <1>5 DEF o

\* A cycle drains what is pending; the engine keeps to its history.
LEMMA DrainedLaw ==
    ASSUME NEW e \in Engines, NEW log \in Seq(Receipts), NEW now,
           NEW e1, Ran(e, e1, log, now), Trusted(e1.last)
    PROVE  LET e2 == [e1 EXCEPT !.pending = <<>>]
           IN /\ EngineLaw(e2, Hist(log, Len(e.pending), e1), now) /\ Marked(e2)
              /\ e2.emitted = e1.emitted /\ Len(e2.pending) = 0
<1> DEFINE e2 == [e1 EXCEPT !.pending = <<>>]
           h == Hist(log, Len(e.pending), e1)
<1>1. e1 \in Engines /\ EngineLaw(e1, h, now)
  BY RanEngine DEF Ran
<1>2. <<>> \in Seq(Receipts) /\ Len(<<>>) = 0
  OBVIOUS
<1>3. e2 \in Engines /\ e2.last = e1.last /\ e2.pending = <<>> /\ e2.emitted = e1.emitted
      /\ e2.forced = e1.forced /\ e2.selfs = e1.selfs /\ e2.forcedAt = e1.forcedAt
  BY <1>1, <1>2 DEF Engines
<1> HIDE DEF e2, h
<1>4. e1.emitted \in Nat
  BY <1>1, EngineFields
<1>5. EngineLaw(e2, h, now)
  BY <1>1, <1>2, <1>3, <1>4 DEF EngineLaw
<1>6. Marked(e2)
  BY <1>2, <1>3 DEF Marked, AllTrusted
<1> QED BY <1>2, <1>3, <1>5, <1>6 DEF e2, h

\* What a drained transition gave the turn it belongs to.
LEMMA CopiesHeld ==
    ASSUME NEW e \in Engines, NEW log \in Seq(Receipts), NEW now, NEW e1,
           Ran(e, e1, log, now), NEW receipts, Copies(receipts, e1)
    PROVE  /\ NumbersOf(receipts) = (e.emitted - Len(e.pending) + 1)..e1.emitted
           /\ receipts # <<>> => receipts[Len(receipts)].n = e1.last.n
           /\ e.emitted - Len(e.pending) <= e1.emitted
<1> DEFINE p == e1.pending
           k == Len(p)
           u == e1.emitted - k
<1>1. /\ e1 \in Engines /\ p \in Seq(Receipts) /\ k \in Nat /\ k <= e1.emitted /\ e1.emitted \in Nat
      /\ u = e.emitted - Len(e.pending) /\ e1.last.n = e1.emitted
      /\ \A i \in 1..k : p[i].n = u + i
  BY RanEngine, EngineFields DEF Ran, EngineLaw
<1>2. receipts \in Seq(Receipts) /\ Len(receipts) = k
      /\ \A i \in 1..k : receipts[i].n = u + i
  BY <1>1 DEF Copies
<1>3. u \in Nat /\ u + k = e1.emitted
  BY <1>1
<1> HIDE DEF u, k, p
<1>4. NumbersOf(receipts) = (u + 1)..e1.emitted
  <2>1. ASSUME NEW n \in (u + 1)..e1.emitted
        PROVE  n \in NumbersOf(receipts)
    <3>1. n - u \in 1..k /\ receipts[n - u].n = n
      BY <1>1, <1>2, <1>3
    <3> QED BY <3>1, <1>2 DEF NumbersOf
  <2>2. \A i \in 1..k : receipts[i].n \in (u + 1)..e1.emitted
    BY <1>1, <1>2, <1>3
  <2> QED BY <1>2, <2>1, <2>2 DEF NumbersOf
<1>5. receipts # <<>> => receipts[Len(receipts)].n = e1.last.n
  BY <1>1, <1>2, <1>3
<1> QED BY <1>1, <1>3, <1>4, <1>5

\* A restored engine begins with the history its row was an observation of.
LEMMA RestoredLaw ==
    ASSUME NEW o, NEW log \in Seq(Receipts), NEW now \in Nat, ObservationLaw(o, log),
           Numbered(log), Spaced(log), \A i \in 1..Len(log) : log[i].at <= now
    PROVE  LET e == RestoredEngine(o)
           IN /\ EngineLaw(e, SubSeq(log, 1, o.emitted), now) /\ Marked(e)
              /\ e.emitted = o.emitted /\ e.pending = <<>>
<1> DEFINE e == RestoredEngine(o)
           h == SubSeq(log, 1, o.emitted)
<1>1. /\ o \in Observations /\ o.emitted \in Nat /\ o.emitted <= Len(log)
      /\ o.last.n = o.emitted /\ Trusted(o.last) /\ Counted(h, o.forced, o.selfs)
  BY DEF ObservationLaw, Observations
<1>2. <<>> \in Seq(Receipts) /\ Len(<<>>) = 0
  OBVIOUS
<1>3. e \in Engines /\ e.last = o.last /\ e.pending = <<>> /\ e.emitted = o.emitted
      /\ e.forced = o.forced /\ e.selfs = o.selfs /\ e.forcedAt = None
  BY <1>1, <1>2, AfTypes DEF RestoredEngine, Engines, Observations
<1>4. h \in Seq(Receipts) /\ Len(h) = o.emitted
      /\ \A i \in 1..Len(h) : h[i] = log[i] /\ i \in 1..Len(log)
  BY <1>1
<1> HIDE DEF e, h
<1>5. Numbered(h)
  BY <1>4 DEF Numbered
<1>6. \A i \in 1..Len(h) : ForcedAt(h, i) => ForcedAt(log, i)
  BY <1>4 DEF ForcedAt
<1>7. Spaced(h)
  BY <1>4, <1>6 DEF Spaced
<1>8. Clocked(h, None, now)
  BY <1>4 DEF Clocked
<1>9. EngineLaw(e, h, now)
  BY <1>1, <1>2, <1>3, <1>4, <1>5, <1>7, <1>8 DEF EngineLaw
<1>10. Marked(e)
  BY <1>1, <1>2, <1>3 DEF Marked, AllTrusted
<1> QED BY <1>3, <1>9, <1>10 DEF e, h

\* A row keeps to a history that grows.
LEMMA RowGrows ==
    ASSUME NEW row, NEW log \in Seq(Receipts), NEW s \in Seq(Receipts), RowLaw(row, log)
    PROVE  RowLaw(row, log \o s)
<1>1. ASSUME row.current
      PROVE  ObservationLaw(row.obs, log \o s)
  <2> DEFINE k == row.obs.emitted
  <2>1. k \in 0..Len(log) /\ ObservationLaw(row.obs, log)
    BY <1>1 DEF RowLaw, ObservationLaw, Observations
  <2>2. SubSeq(log \o s, 1, k) = SubSeq(log, 1, k)
    BY <2>1, PrefixKept
  <2>3. Len(log \o s) = Len(log) + Len(s)
    OBVIOUS
  <2>4. k <= Len(log \o s)
    BY <2>1, <2>3
  <2> QED BY <2>1, <2>2, <2>4 DEF ObservationLaw
<1> QED BY <1>1 DEF RowLaw

----------------------------------------------------------------------------
(* A step of one thread on one host.                                       *)

\* The last number a host's cycle has drained.
DrainedTo(host) == host.engine.emitted - Len(host.engine.pending)

LEMMA HostFields ==
    ASSUME NEW host \in HostRecords
    PROVE  /\ host.engine \in Engines /\ host.privileged \in Readings /\ host.next \in Nat \ {0}
           /\ host.frontier \in Readings /\ host.uncertain \in BOOLEAN /\ host.base \in Nat
           /\ DrainedTo(host) \in Int
           /\ Drained(host) = (host.base + 1)..DrainedTo(host)
BY EngineFields DEF HostRecords, DrainedTo, Drained

\* The rest of the state, for a step on host h and turn t.
HostMoves(h, t, host, u, log) ==
    /\ log = afLog[h] \/ \E s \in Seq(Receipts) : log = afLog[h] \o s
    /\ afHost' = [afHost EXCEPT ![h] = host] /\ afTurn' = [afTurn EXCEPT ![t] = u]
    /\ afLog' = [afLog EXCEPT ![h] = log]
    /\ UNCHANGED <<afUse, afRows, afNow, afApplied>>
    /\ EngineLaw(host.engine, log, afNow) /\ Marked(host.engine)
    /\ TurnLaw(u, DOMAIN afHost)
    /\ host.base = afHost[h].base /\ DrainedTo(afHost[h]) <= DrainedTo(host)
    /\ afHost[h].uncertain => host.uncertain
    /\ TurnHas(u, h) \subseteq
           TurnHas(afTurn[t], h) \cup ((DrainedTo(afHost[h]) + 1)..DrainedTo(host))
    /\ ~host.uncertain =>
           TurnHas(afTurn[t], h) \cup ((DrainedTo(afHost[h]) + 1)..DrainedTo(host))
               \subseteq TurnHas(u, h)
    /\ \A g \in Hosts \ {h} : TurnHas(u, g) = TurnHas(afTurn[t], g)

LEMMA HostStep ==
    ASSUME AfInv, NEW h \in DOMAIN afHost, NEW t \in AfThreads, NEW host \in HostRecords, NEW u,
           NEW log, HostMoves(h, t, host, u, log)
    PROVE  AfInv'
<1> USE DEF HostMoves
<1>1. /\ DOMAIN afHost' = DOMAIN afHost /\ afHost'[h] = host
      /\ \A g \in DOMAIN afHost \ {h} : afHost'[g] = afHost[g]
  BY DEF AfInv, AfShaped
<1>2. /\ afTurn' = [v \in AfThreads |-> afTurn'[v]] /\ afTurn'[t] = u
      /\ \A v \in AfThreads \ {t} : afTurn'[v] = afTurn[v]
  BY DEF AfInv, AfShaped
<1>3. h \in Hosts /\ afLog \in [Hosts -> Seq(Receipts)] /\ log \in Seq(Receipts)
  BY DEF AfInv, AfShaped, EngineLaw
<1>4. /\ afLog' \in [Hosts -> Seq(Receipts)] /\ afLog'[h] = log
      /\ \A g \in Hosts \ {h} : afLog'[g] = afLog[g]
  BY <1>3
<1>5. AfShaped'
  <2>1. afHost' \in [DOMAIN afHost' -> HostRecords]
    BY <1>1 DEF AfInv, AfShaped
  <2>2. \A v \in AfThreads : TurnLaw(afTurn'[v], DOMAIN afHost')
    BY <1>1, <1>2 DEF AfInv, AfShaped
  <2> QED BY <1>1, <1>2, <1>4, <2>1, <2>2 DEF AfInv, AfShaped
<1>6. RowsLaw'
  <2> SUFFICES ASSUME NEW i \in 1..Len(afRows)
               PROVE  /\ RowLaw(afRows[i], afLog'["first"])
                      /\ afRows[i].by \in DOMAIN afHost' \cup {"operator"}
    BY DEF RowsLaw
  <2>1. RowLaw(afRows[i], afLog["first"]) /\ afRows[i].by \in DOMAIN afHost \cup {"operator"}
    BY DEF AfInv, RowsLaw
  <2>2. "first" \in Hosts
    BY DEF Hosts
  <2>3. CASE h # "first" \/ log = afLog[h]
    <3>1. afLog'["first"] = afLog["first"]
      BY <2>2, <2>3, <1>4
    <3> QED BY <2>1, <3>1, <1>1
  <2>4. CASE h = "first" /\ \E s \in Seq(Receipts) : log = afLog[h] \o s
    <3>1. PICK s \in Seq(Receipts) : log = afLog[h] \o s
      BY <2>4
    <3>2. RowLaw(afRows[i], log)
      <4> DEFINE first == afLog["first"]
                 row == afRows[i]
      <4>1. first \in Seq(Receipts) /\ log = first \o s /\ RowLaw(row, first)
        BY <1>3, <2>1, <2>4, <3>1
      <4> HIDE DEF first, row
      <4>2. RowLaw(row, log)
        BY <4>1, RowGrows
      <4> QED BY <4>2 DEF row
    <3> QED BY <2>1, <2>4, <3>2, <1>1, <1>4
  <2> QED BY <2>3, <2>4
<1>7. UnknownLaw'
  BY <1>1, <1>4 DEF AfInv, UnknownLaw
<1>8. SignalsLaw'
  BY DEF AfInv, SignalsLaw
<1>9. HostsLaw'
  <2>1. ASSUME NEW g \in DOMAIN afHost, g # h
        PROVE  EngineLaw(afHost[g].engine, afLog'[g], afNow) /\ Marked(afHost[g].engine)
               /\ Accounted(g)'
    <3>1. EngineLaw(afHost[g].engine, afLog[g], afNow) /\ Marked(afHost[g].engine) /\ Accounted(g)
          /\ g \in Hosts
      BY DEF AfInv, HostsLaw, AfShaped
    <3>2. \A v \in AfThreads : TurnHas(afTurn'[v], g) = TurnHas(afTurn[v], g)
      BY <2>1, <3>1, <1>2
    <3>3. afHost'[g] = afHost[g]
      BY <2>1, <1>1
    <3>4. Accounted(g)'
      BY <3>1, <3>2, <3>3 DEF Accounted
    <3> QED BY <2>1, <3>1, <3>4, <1>4
  <2>2. Accounted(h)'
    <3> DEFINE N == (DrainedTo(afHost[h]) + 1)..DrainedTo(host)
               D == Drained(afHost[h])
    <3>1. Accounted(h) /\ afHost[h] \in HostRecords
      BY DEF AfInv, HostsLaw, AfShaped
    <3>2. /\ host.base \in Nat /\ DrainedTo(host) \in Int /\ DrainedTo(afHost[h]) \in Int
          /\ afHost[h].base <= DrainedTo(afHost[h])
          /\ Drained(host) = (host.base + 1)..DrainedTo(host)
          /\ D = (host.base + 1)..DrainedTo(afHost[h])
      BY <3>1, HostFields DEF Accounted, DrainedTo
    <3>3. Drained(host) = D \cup N /\ D \cap N = {}
      BY <3>2
    <3>4. host.base <= DrainedTo(host)
      BY <3>2
    <3> HIDE DEF N, D
    <3>5. /\ \A v \in AfThreads : TurnHas(afTurn[v], h) \subseteq D
          /\ \A i \in 1..Len(afRows) : RowHas(afRows[i], h) \subseteq D
          /\ \A v, w \in AfThreads : v # w => TurnHas(afTurn[v], h) \cap TurnHas(afTurn[w], h) = {}
          /\ \A i, j \in 1..Len(afRows) :
                 i # j => RowHas(afRows[i], h) \cap RowHas(afRows[j], h) = {}
          /\ \A v \in AfThreads, i \in 1..Len(afRows) :
                 TurnHas(afTurn[v], h) \cap RowHas(afRows[i], h) = {}
          /\ ~afHost[h].uncertain =>
                 \A n \in D : \/ \E v \in AfThreads : n \in TurnHas(afTurn[v], h)
                              \/ \E i \in 1..Len(afRows) : n \in RowHas(afRows[i], h)
      BY <3>1 DEF Accounted, D
    <3>6. /\ TurnHas(u, h) \subseteq TurnHas(afTurn[t], h) \cup N
          /\ ~host.uncertain => TurnHas(afTurn[t], h) \cup N \subseteq TurnHas(u, h)
      BY DEF N
    <3>7. \A v \in AfThreads :
             /\ TurnHas(afTurn'[v], h) \subseteq TurnHas(afTurn[v], h) \cup N
             /\ v # t => TurnHas(afTurn'[v], h) = TurnHas(afTurn[v], h)
      BY <3>6, <1>2
    <3>8. \A v \in AfThreads : TurnHas(afTurn'[v], h) \subseteq Drained(host)
      BY <3>3, <3>5, <3>7
    <3>9. \A v, w \in AfThreads : v # w => TurnHas(afTurn'[v], h) \cap TurnHas(afTurn'[w], h) = {}
      <4> SUFFICES ASSUME NEW v \in AfThreads, NEW w \in AfThreads, v # w, NEW n,
                          n \in TurnHas(afTurn'[v], h), n \in TurnHas(afTurn'[w], h)
                   PROVE  FALSE
        OBVIOUS
      <4>1. n \in TurnHas(afTurn[v], h) \/ (v = t /\ n \in N)
        BY <3>7
      <4>2. n \in TurnHas(afTurn[w], h) \/ (w = t /\ n \in N)
        BY <3>7
      <4>3. ~(n \in TurnHas(afTurn[v], h) /\ n \in TurnHas(afTurn[w], h))
        BY <3>5
      <4>4. ~(n \in N /\ n \in TurnHas(afTurn[v], h)) /\ ~(n \in N /\ n \in TurnHas(afTurn[w], h))
        BY <3>3, <3>5
      <4> QED BY <4>1, <4>2, <4>3, <4>4
    <3>10. \A v \in AfThreads, i \in 1..Len(afRows) :
              TurnHas(afTurn'[v], h) \cap RowHas(afRows[i], h) = {}
      <4> SUFFICES ASSUME NEW v \in AfThreads, NEW i \in 1..Len(afRows), NEW n,
                          n \in TurnHas(afTurn'[v], h), n \in RowHas(afRows[i], h)
                   PROVE  FALSE
        OBVIOUS
      <4>1. n \in TurnHas(afTurn[v], h) \/ n \in N
        BY <3>7
      <4>2. n \in D
        BY <3>5
      <4> QED BY <4>1, <4>2, <3>3, <3>5
    <3>11. ~host.uncertain =>
              \A n \in Drained(host) : \/ \E v \in AfThreads : n \in TurnHas(afTurn'[v], h)
                                       \/ \E i \in 1..Len(afRows) : n \in RowHas(afRows[i], h)
      <4> SUFFICES ASSUME ~host.uncertain, NEW n \in Drained(host),
                          \A i \in 1..Len(afRows) : n \notin RowHas(afRows[i], h)
                   PROVE  \E v \in AfThreads : n \in TurnHas(afTurn'[v], h)
        OBVIOUS
      <4>1. CASE n \in N
        BY <4>1, <3>6, <1>2
      <4>2. CASE n \in D
        <5>1. PICK v \in AfThreads : n \in TurnHas(afTurn[v], h)
          BY <4>2, <3>5
        <5>2. n \in TurnHas(afTurn'[v], h)
          BY <5>1, <3>6, <1>2
        <5> QED BY <5>2
      <4> QED BY <4>1, <4>2, <3>3
    <3>12. afRows' = afRows /\ afHost'[h] = host
      BY <1>1
    <3>13. host.base <= host.engine.emitted - Len(host.engine.pending)
      BY <3>4 DEF DrainedTo
    <3>14. \A i \in 1..Len(afRows) : RowHas(afRows[i], h) \subseteq Drained(host)
      BY <3>3, <3>5
    <3> QED BY <3>5, <3>8, <3>9, <3>10, <3>11, <3>12, <3>13, <3>14, Zenon DEF Accounted
  <2> QED BY <1>1, <1>4, <2>1, <2>2, <1>3 DEF HostsLaw
<1> QED BY <1>5, <1>6, <1>7, <1>8, <1>9 DEF AfInv

\* What is known of a host and of the turn of a thread.
LEMMA HostKnown ==
    ASSUME AfInv, NEW h \in DOMAIN afHost
    PROVE  /\ h \in Hosts /\ afHost[h] \in HostRecords /\ afLog[h] \in Seq(Receipts)
           /\ EngineLaw(afHost[h].engine, afLog[h], afNow) /\ Marked(afHost[h].engine)
           /\ afHost[h].engine \in Engines /\ afNow \in Nat
           /\ afHost[h].base <= DrainedTo(afHost[h])
BY DEF AfInv, AfShaped, HostsLaw, EngineLaw, Accounted, DrainedTo

LEMMA TurnKnown ==
    ASSUME AfInv, NEW t \in AfThreads
    PROVE  TurnLaw(afTurn[t], DOMAIN afHost)
BY DEF AfInv, AfShaped

LEMMA EmptyTurn ==
    ASSUME NEW u, u.pc \notin {"observed", "prepared"}, NEW h
    PROVE  TurnHas(u, h) = {}
BY DEF TurnHas

LEMMA IdleTurn == NewTurn.pc = "idle" /\ \A hosts : TurnLaw(NewTurn, hosts)
BY DEF NewTurn, TurnLaw

\* A step that emits and drains nothing.
QuietMoves(h, t, host, u) ==
    /\ afHost' = [afHost EXCEPT ![h] = host] /\ afTurn' = [afTurn EXCEPT ![t] = u]
    /\ UNCHANGED <<afUse, afRows, afNow, afLog, afApplied>>
    /\ Ran(afHost[h].engine, host.engine, afLog[h], afNow) /\ Marked(host.engine)
    /\ Len(host.engine.pending) = Len(afHost[h].engine.pending)
    /\ host.engine.emitted = afHost[h].engine.emitted
    /\ TurnLaw(u, DOMAIN afHost)
    /\ host.base = afHost[h].base /\ (afHost[h].uncertain => host.uncertain)
    /\ TurnHas(u, h) \subseteq TurnHas(afTurn[t], h)
    /\ ~host.uncertain => TurnHas(afTurn[t], h) \subseteq TurnHas(u, h)
    /\ \A g \in Hosts \ {h} : TurnHas(u, g) = TurnHas(afTurn[t], g)

LEMMA QuietStep ==
    ASSUME AfInv, NEW h \in DOMAIN afHost, NEW t \in AfThreads, NEW host \in HostRecords, NEW u,
           QuietMoves(h, t, host, u)
    PROVE  AfInv'
<1> USE DEF QuietMoves
<1> DEFINE log == afLog[h]
           p == host.engine.pending
           N == (DrainedTo(afHost[h]) + 1)..DrainedTo(host)
<1>1. log \in Seq(Receipts) /\ p \in Seq(Receipts) /\ h \in Hosts
  BY HostKnown, HostFields, EngineFields
<1>2. Hist(log, Len(p), host.engine) = log
  BY <1>1, HistNothing DEF Hist
<1>3. EngineLaw(host.engine, log, afNow)
  BY <1>2 DEF Ran
<1>4. afLog' = [afLog EXCEPT ![h] = log]
  BY DEF AfInv, AfShaped
<1>5. DrainedTo(host) = DrainedTo(afHost[h]) /\ DrainedTo(host) \in Int
  BY HostFields DEF DrainedTo
<1>6. N = {} /\ DrainedTo(afHost[h]) <= DrainedTo(host)
  BY <1>5
<1> HIDE DEF log, N
<1>7. /\ TurnHas(u, h) \subseteq TurnHas(afTurn[t], h) \cup N
      /\ ~host.uncertain => TurnHas(afTurn[t], h) \cup N \subseteq TurnHas(u, h)
  BY <1>6
<1>8. log = afLog[h]
  BY DEF log
<1>9. HostMoves(h, t, host, u, log)
  BY <1>3, <1>4, <1>6, <1>7, <1>8 DEF HostMoves, N, QuietMoves
<1> QED BY <1>9, HostStep

\* The same host, another turn.
LEMMA TurnStep ==
    ASSUME AfInv, NEW h \in DOMAIN afHost, NEW t \in AfThreads, NEW u,
           afHost' = afHost, afTurn' = [afTurn EXCEPT ![t] = u],
           UNCHANGED <<afUse, afRows, afNow, afLog, afApplied>>,
           TurnLaw(u, DOMAIN afHost),
           \A g \in Hosts : TurnHas(u, g) = TurnHas(afTurn[t], g)
    PROVE  AfInv'
<1>1. afHost' = [afHost EXCEPT ![h] = afHost[h]]
  BY DEF AfInv, AfShaped
<1>2. Ran(afHost[h].engine, afHost[h].engine, afLog[h], afNow) /\ Marked(afHost[h].engine)
      /\ afHost[h] \in HostRecords /\ h \in Hosts
  BY HostKnown, RanStart
<1>3. QuietMoves(h, t, afHost[h], u)
  BY <1>1, <1>2 DEF QuietMoves
<1> QED BY <1>2, <1>3, QuietStep

\* A transition is taken and drained under the observation lock.
LEMMA ObservedStep ==
    ASSUME AfInv, NEW t \in AfThreads, afTurn[t].pc = "checked", NEW h, h = afTurn[t].host,
           NEW host \in HostRecords, host.base = afHost[h].base,
           host.uncertain = afHost[h].uncertain,
           NEW e, NEW receipts, NEW obs \in Observations,
           Ran(afHost[h].engine, e, afLog[h], afNow), Trusted(e.last),
           Copies(receipts, e), obs.last.n = e.last.n,
           Observed(t, h, host, e, receipts, obs)
    PROVE  AfInv'
<1> DEFINE log == Hist(afLog[h], Len(afHost[h].engine.pending), e)
           e2 == [e EXCEPT !.pending = <<>>]
           host2 == [host EXCEPT !.engine = e2]
           u == [pc |-> "observed", host |-> h, receipts |-> receipts, obs |-> obs]
           s == SubSeq(e.pending, Len(afHost[h].engine.pending) + 1, Len(e.pending))
<1>1. h \in DOMAIN afHost
  BY TurnKnown DEF TurnLaw
<1>2. h \in Hosts /\ afLog[h] \in Seq(Receipts) /\ afHost[h].engine \in Engines /\ afNow \in Nat
  BY <1>1, HostKnown
<1>3. e \in Engines /\ s \in Seq(Receipts) /\ log = afLog[h] \o s
  <2>1. e \in Engines
    BY RanEngine
  <2>2. Len(e.pending) \in Nat /\ e.pending \in Seq(Receipts)
        /\ Len(afHost[h].engine.pending) \in Nat
    BY <2>1, <1>2, EngineFields
  <2>3. Len(afHost[h].engine.pending) <= Len(e.pending)
    BY DEF Ran
  <2>4. s \in Seq(Receipts)
    <3> DEFINE k == Len(afHost[h].engine.pending)
               p == e.pending
    <3>1. k \in Nat /\ p \in Seq(Receipts) /\ k <= Len(p)
      BY <2>2, <2>3
    <3> HIDE DEF k, p
    <3>2. SubSeq(p, k + 1, Len(p)) \in Seq(Receipts)
      BY <3>1
    <3> QED BY <3>2 DEF k, p
  <2> QED BY <2>1, <2>4 DEF Hist
<1>4. EngineLaw(e2, log, afNow) /\ Marked(e2) /\ e2.emitted = e.emitted /\ Len(e2.pending) = 0
  BY <1>2, DrainedLaw, Zenon
<1>5. NumbersOf(receipts) = (DrainedTo(afHost[h]) + 1)..e.emitted
      /\ (receipts # <<>> => receipts[Len(receipts)].n = e.last.n)
      /\ DrainedTo(afHost[h]) <= e.emitted
  <2> DEFINE b == afHost[h].engine
             log0 == afLog[h]
  <2>1. b \in Engines /\ log0 \in Seq(Receipts) /\ Ran(b, e, log0, afNow)
    BY <1>2
  <2> HIDE DEF b, log0
  <2>2. NumbersOf(receipts) = (b.emitted - Len(b.pending) + 1)..e.emitted
        /\ (receipts # <<>> => receipts[Len(receipts)].n = e.last.n)
        /\ b.emitted - Len(b.pending) <= e.emitted
    BY <2>1, CopiesHeld
  <2> QED BY <2>2 DEF DrainedTo, b
<1>6. /\ afHost' = [afHost EXCEPT ![h] = host2] /\ afTurn' = [afTurn EXCEPT ![t] = u]
      /\ afLog' = [afLog EXCEPT ![h] = log]
      /\ UNCHANGED <<afUse, afRows, afNow, afApplied>>
  BY <1>2, <1>3 DEF Observed, Emitted, AfInv, AfShaped
<1> HIDE DEF e2
<1>7. host2 \in HostRecords /\ host2.engine = e2 /\ host2.base = host.base
      /\ host2.uncertain = host.uncertain
  BY <1>4 DEF HostRecords, EngineLaw
<1> HIDE DEF host2, log, s
<1>8. TurnLaw(u, DOMAIN afHost)
  BY <1>1, <1>5 DEF TurnLaw, Copies, LastOf
<1>9. TurnHas(u, h) = NumbersOf(receipts) /\ \A g \in Hosts \ {h} : TurnHas(u, g) = {}
  BY DEF TurnHas
<1> HIDE DEF u
<1>10. \A g \in Hosts : TurnHas(afTurn[t], g) = {}
  BY EmptyTurn
<1>11. DrainedTo(host2) = e.emitted
  BY <1>3, <1>4, <1>7, EngineFields DEF DrainedTo
<1>12. /\ TurnHas(u, h) \subseteq
               TurnHas(afTurn[t], h) \cup ((DrainedTo(afHost[h]) + 1)..DrainedTo(host2))
       /\ TurnHas(afTurn[t], h) \cup ((DrainedTo(afHost[h]) + 1)..DrainedTo(host2))
               \subseteq TurnHas(u, h)
  BY <1>2, <1>5, <1>9, <1>10, <1>11
<1>13. \A g \in Hosts \ {h} : TurnHas(u, g) = TurnHas(afTurn[t], g)
  BY <1>9, <1>10
<1>14. HostMoves(h, t, host2, u, log)
  BY <1>3, <1>4, <1>5, <1>6, <1>7, <1>8, <1>11, <1>12, <1>13 DEF HostMoves
<1> QED BY <1>1, <1>7, <1>14, HostStep

----------------------------------------------------------------------------
(* The invariant and the actions of the threads.                           *)

LEMMA AfInvInit == AfInit => AfInv
<1> SUFFICES ASSUME AfInit PROVE AfInv
  OBVIOUS
<1> DEFINE e == Engine(afUse.profile)
           host == HostOf(e, 1, None)
<1>1. afHost = [h \in {"first"} |-> host] /\ afUse \in AfUses /\ afRows = <<>> /\ afNow = 0
      /\ afTurn = [t \in AfThreads |-> NewTurn] /\ afLog = [h \in Hosts |-> <<>>]
      /\ afApplied = <<>>
  BY DEF AfInit
<1>2. <<>> \in Seq(Receipts) /\ Len(<<>>) = 0 /\ <<>> \in Seq(Rows) /\ <<>> \in Seq(Applications)
  OBVIOUS
<1>3. Quiescent \in States /\ NoReceipt \in Receipts /\ NoReceipt.n = 0 /\ NoReceipt.via = "none"
  BY DEF Quiescent, States, Phases, NoReceipt, Receipts, Words
<1>4. e \in Engines /\ e.last = NoReceipt /\ e.pending = <<>> /\ e.emitted = 0
      /\ e.forced = FALSE /\ e.selfs = 0 /\ e.forcedAt = None
  <2>1. 0 \in 0..SelfLimit /\ afUse.profile \in Profiles
    BY <1>1, AfTypes DEF Profiles
  <2> QED BY <2>1, <1>2, <1>3, AfTypes DEF Engine, Engines
<1> HIDE DEF e
<1>5. host \in HostRecords /\ host.engine = e /\ host.base = 0 /\ host.uncertain = FALSE
  BY <1>4, AfTypes DEF HostOf, HostRecords
<1> HIDE DEF host
<1>6. EngineLaw(e, <<>>, 0)
  <2>1. SelfAt(<<>>) = {}
    BY <1>2 DEF SelfAt
  <2>2. Cardinality(SelfAt(<<>>)) = 0
    BY <2>1, FS_EmptySet
  <2>3. Numbered(<<>>) /\ Spaced(<<>>) /\ Clocked(<<>>, e.forcedAt, 0)
        /\ Counted(<<>>, e.forced, e.selfs)
    BY <1>2, <1>4, <2>2 DEF Numbered, Spaced, Clocked, Counted
  <2> QED BY <1>2, <1>3, <1>4, <2>3 DEF EngineLaw
<1>7. Marked(e)
  BY <1>2, <1>3, <1>4 DEF Marked, AllTrusted, Trusted
<1>8. "first" \in Hosts /\ DOMAIN afHost = {"first"} /\ afHost["first"] = host
  BY <1>1 DEF Hosts
<1>9. \A t \in AfThreads : afTurn[t] = NewTurn
  BY <1>1
<1>10. AfShaped
  <2>1. afUse.until \in Nat
    BY <1>1, AfAssumption
  <2>2. afHost \in [DOMAIN afHost -> HostRecords]
    BY <1>1, <1>5
  <2>3. afLog \in [Hosts -> Seq(Receipts)]
    BY <1>1, <1>2
  <2> QED BY <1>1, <1>2, <1>8, <1>9, <2>1, <2>2, <2>3, IdleTurn DEF AfShaped
<1>11. Accounted("first")
  <2>1. \A t \in AfThreads : TurnHas(afTurn[t], "first") = {}
    BY <1>9, IdleTurn, EmptyTurn
  <2>2. Drained(host) = {} /\ host.base <= host.engine.emitted - Len(host.engine.pending)
    BY <1>2, <1>4, <1>5 DEF Drained
  <2>3. 1..Len(afRows) = {}
    BY <1>1, <1>2
  <2> QED BY <1>8, <2>1, <2>2, <2>3 DEF Accounted
<1>12. HostsLaw
  BY <1>1, <1>5, <1>6, <1>7, <1>8, <1>11 DEF HostsLaw
<1>13. RowsLaw /\ UnknownLaw /\ SignalsLaw
  BY <1>1, <1>2 DEF RowsLaw, UnknownLaw, SignalsLaw
<1> QED BY <1>10, <1>12, <1>13 DEF AfInv

LEMMA BeginInv ==
    ASSUME AfInv, NEW t \in AfThreads, NEW h, Begin(t, h)
    PROVE  AfInv'
<1> DEFINE u == [pc |-> "checked", host |-> h]
<1>1. h \in DOMAIN afHost /\ afTurn' = [afTurn EXCEPT ![t] = u] /\ afHost' = afHost
      /\ UNCHANGED <<afUse, afRows, afNow, afLog, afApplied>>
  BY DEF Begin
<1>2. u.pc = "checked" /\ TurnLaw(u, DOMAIN afHost)
  BY <1>1 DEF TurnLaw
<1>3. afTurn[t].pc = "idle"
  BY DEF Begin
<1> HIDE DEF u
<1>4. \A g : TurnHas(u, g) = {} /\ TurnHas(afTurn[t], g) = {}
  BY <1>2, <1>3, EmptyTurn
<1> QED BY <1>1, <1>2, <1>4, TurnStep

LEMMA CheckedHost ==
    ASSUME AfInv, NEW t \in AfThreads, afTurn[t].pc # "idle"
    PROVE  afTurn[t].host \in DOMAIN afHost
BY TurnKnown DEF TurnLaw

LEMMA ProcessTurnInv ==
    ASSUME AfInv, NEW t \in AfThreads, NEW a \in Stimuli, NEW verified \in BOOLEAN, NEW to,
           ProcessTurn(t, a, verified, to)
    PROVE  AfInv'
<1> DEFINE h == afTurn[t].host
           b == afHost[h].engine
           e == ApplyStimulus(b, a, verified, to, afNow)
           bound == IF verified THEN BindOrganic(e, e.pending)
                    ELSE [engine |-> e, receipts |-> e.pending]
<1>1. afTurn[t].pc = "checked" /\ to \in Decays(TrustedElapsed(b, afNow))
      /\ Observed(t, h, afHost[h], bound.engine, bound.receipts, Observation(e))
  BY DEF ProcessTurn
<1>2. h \in DOMAIN afHost
  BY <1>1, CheckedHost
<1>3. EngineLaw(b, afLog[h], afNow) /\ Marked(b) /\ b \in Engines /\ afNow \in Nat
      /\ afLog[h] \in Seq(Receipts) /\ afHost[h] \in HostRecords
  BY <1>2, HostKnown
<1>4. Ran(b, e, afLog[h], afNow) /\ (Marked(e) \/ (verified /\ OrganicEnd(e)))
  <2>1. to[1] \in 0..3 /\ to[2] \in 0..2
    BY <1>1, DecaysTyped
  <2> DEFINE c == b
             l == afLog[h]
  <2>2. EngineLaw(c, l, afNow) /\ Marked(c)
    BY <1>3
  <2> HIDE DEF c, l
  <2>3. LET x == ApplyStimulus(c, a, verified, to, afNow)
        IN Ran(c, x, l, afNow) /\ (Marked(x) \/ (verified /\ OrganicEnd(x)))
    BY <2>1, <2>2, <1>3, StimulusRan
  <2> QED BY <2>3 DEF c, l
<1> HIDE DEF e
<1>5. e \in Engines
  BY <1>4, RanEngine
<1>6. Observation(e) \in Observations /\ Observation(e).last = e.last
  BY <1>5, ObservationTyped
<1>7. /\ Ran(b, bound.engine, afLog[h], afNow) /\ Trusted(bound.engine.last)
      /\ bound.engine.last.n = e.last.n /\ Copies(bound.receipts, bound.engine)
  <2>1. CASE verified
    <3> DEFINE x == BindOrganic(e, e.pending)
    <3>1. /\ Ran(b, x.engine, afLog[h], afNow) /\ Trusted(x.engine.last)
          /\ x.engine.pending = e.pending /\ x.engine.last.n = e.last.n /\ Copies(x.receipts, e)
      <4> DEFINE c == b
                 l == afLog[h]
      <4>1. c \in Engines /\ l \in Seq(Receipts) /\ Ran(c, e, l, afNow)
            /\ (Marked(e) \/ OrganicEnd(e))
        BY <1>3, <1>4
      <4> HIDE DEF c, l
      <4>2. /\ Ran(c, x.engine, l, afNow) /\ Trusted(x.engine.last)
            /\ x.engine.pending = e.pending /\ x.engine.last.n = e.last.n /\ Copies(x.receipts, e)
        BY <4>1, BoundOrganic
      <4> QED BY <4>2 DEF c, l
    <3> HIDE DEF x
    <3>2. Copies(x.receipts, x.engine)
      BY <3>1 DEF Copies
    <3> QED BY <2>1, <3>1, <3>2 DEF x
  <2>2. CASE ~verified
    <3>1. Marked(e)
      BY <2>2, <1>4
    <3>2. Copies(e.pending, e)
      <4>1. e.pending \in Seq(Receipts) /\ AllTrusted(e.pending)
        BY <3>1, <1>5, EngineFields DEF Marked
      <4> QED BY <4>1 DEF Copies
    <3> QED BY <2>2, <3>1, <3>2, <1>4 DEF Marked
  <2> QED BY <2>1, <2>2
<1> HIDE DEF bound
<1>8. Observation(e).last.n = bound.engine.last.n
  BY <1>6, <1>7
<1> QED BY <1>1, <1>3, <1>6, <1>7, <1>8, ObservedStep

LEMMA AdvanceTurnInv ==
    ASSUME AfInv, NEW t \in AfThreads, NEW ticks \in Int, NEW to, AdvanceTurn(t, ticks, to)
    PROVE  AfInv'
<1> DEFINE h == afTurn[t].host
           b == afHost[h].engine
           e == AdvanceTime(b, ticks, to, afNow)
<1>1. afTurn[t].pc = "checked" /\ to \in Decays(ticks)
      /\ Observed(t, h, afHost[h], e, e.pending, Observation(e))
  BY DEF AdvanceTurn
<1>2. h \in DOMAIN afHost
  BY <1>1, CheckedHost
<1>3. EngineLaw(b, afLog[h], afNow) /\ Marked(b) /\ b \in Engines /\ afNow \in Nat
      /\ afLog[h] \in Seq(Receipts) /\ afHost[h] \in HostRecords
  BY <1>2, HostKnown
<1>4. Ran(b, e, afLog[h], afNow) /\ Marked(e)
  <2>1. to[1] \in 0..3 /\ to[2] \in 0..2
    BY <1>1, DecaysTyped
  <2>2. Ran(b, b, afLog[h], afNow)
    BY <1>3, RanStart
  <2> QED BY <2>1, <2>2, <1>3, AdvanceTimeRan
<1> HIDE DEF e
<1>5. e \in Engines
  BY <1>4, RanEngine
<1>6. Observation(e) \in Observations /\ Observation(e).last = e.last
  BY <1>5, ObservationTyped
<1>7. Copies(e.pending, e) /\ Trusted(e.last)
  BY <1>4, <1>5, EngineFields DEF Copies, Marked
<1> QED BY <1>1, <1>3, <1>4, <1>6, <1>7, ObservedStep

\* Changing the fields of a host that are not its base.
LEMMA HostChanged ==
    ASSUME NEW host \in HostRecords, NEW e \in Engines
    PROVE  /\ [host EXCEPT !.engine = e] \in HostRecords
           /\ [host EXCEPT !.engine = e].engine = e
           /\ [host EXCEPT !.engine = e].base = host.base
           /\ [host EXCEPT !.engine = e].uncertain = host.uncertain
BY DEF HostRecords

LEMMA HostNoted ==
    ASSUME NEW host \in HostRecords, NEW at \in Readings
    PROVE  /\ [host EXCEPT !.privileged = at] \in HostRecords
           /\ [host EXCEPT !.privileged = at].engine = host.engine
           /\ [host EXCEPT !.privileged = at].base = host.base
           /\ [host EXCEPT !.privileged = at].uncertain = host.uncertain
BY DEF HostRecords

LEMMA RaisedInv ==
    ASSUME AfInv, NEW t \in AfThreads, afTurn[t].pc \in {"idle", "checked"},
           NEW h \in DOMAIN afHost, NEW host \in HostRecords, NEW e,
           host.base = afHost[h].base, host.uncertain = afHost[h].uncertain,
           Ran(afHost[h].engine, e, afLog[h], afNow), Marked(e),
           e.pending = afHost[h].engine.pending, e.emitted = afHost[h].engine.emitted,
           Raised(t, h, host, e)
    PROVE  AfInv'
<1> DEFINE host2 == [host EXCEPT !.engine = e]
<1>1. e \in Engines
  BY RanEngine
<1>2. host2 \in HostRecords /\ host2.engine = e /\ host2.base = host.base
      /\ host2.uncertain = host.uncertain
  BY <1>1, HostChanged, AfTypes
<1>3. /\ afHost' = [afHost EXCEPT ![h] = host2] /\ afTurn' = [afTurn EXCEPT ![t] = NewTurn]
      /\ UNCHANGED <<afUse, afRows, afNow, afLog, afApplied>>
  BY DEF Raised
<1> HIDE DEF host2
<1>4. \A g : TurnHas(NewTurn, g) = {} /\ TurnHas(afTurn[t], g) = {}
  BY IdleTurn, EmptyTurn
<1>5. TurnLaw(NewTurn, DOMAIN afHost)
  BY IdleTurn
<1>6. QuietMoves(h, t, host2, NewTurn)
  BY <1>2, <1>3, <1>4, <1>5 DEF QuietMoves
<1> QED BY <1>2, <1>6, QuietStep

LEMMA RefusedInv ==
    ASSUME AfInv, NEW t \in AfThreads, afTurn[t].pc \in {"idle", "checked"},
           NEW h \in DOMAIN afHost, NEW trig \in {"admin", "self"}, NEW via \in {"cycle", "host"},
           ForceRefused(t, h, ForcedRuntime(afHost[h].engine, trig, via, afNow))
    PROVE  AfInv'
<1> DEFINE host == afHost[h]
           b == host.engine
           log == afLog[h]
           e == ForcedRuntime(b, trig, via, afNow)
           noted == BoundaryNoted(host, afNow)
<1>1. EngineLaw(b, log, afNow) /\ Marked(b) /\ afNow \in Nat /\ host \in HostRecords
  BY HostKnown
<1>2. \/ Raised(t, h, noted, b)
      \/ ~Happened(b, e) /\ Raised(t, h, host, e)
  BY DEF ForceRefused
<1>3. CASE Raised(t, h, noted, b)
  <2>1. noted = host \/ noted = [host EXCEPT !.privileged = afNow]
    BY DEF BoundaryNoted
  <2>2. noted \in HostRecords /\ noted.base = host.base /\ noted.uncertain = host.uncertain
    <3> DEFINE host2 == [host EXCEPT !.privileged = afNow]
    <3>1. host2 \in HostRecords /\ host2.base = host.base /\ host2.uncertain = host.uncertain
      BY <1>1, AfTypes, HostNoted
    <3> HIDE DEF host2, noted
    <3>2. noted = host \/ noted = host2
      BY <2>1 DEF host2
    <3> QED BY <1>1, <3>1, <3>2
  <2>3. Ran(b, b, log, afNow)
    BY <1>1, RanStart
  <2> HIDE DEF noted
  <2> QED BY <1>1, <1>3, <2>2, <2>3, RaisedInv
<1>4. CASE ~Happened(b, e) /\ Raised(t, h, host, e)
  <2>1. Ran(b, e, log, afNow) /\ e.pending = b.pending /\ e.emitted = b.emitted /\ Marked(e)
    <3> HIDE DEF b, log
    <3>1. LET x == ForcedRuntime(b, trig, via, afNow)
          IN /\ Ran(b, x, log, afNow)
             /\ IF Happened(b, x) THEN ForcedEnd(x) /\ (via = "host" => Marked(x))
                ELSE x.pending = b.pending /\ x.emitted = b.emitted /\ Marked(x)
      BY <1>1, ForcedRan
    <3> QED BY <3>1, <1>4
  <2> HIDE DEF e
  <2> QED BY <1>1, <1>4, <2>1, RaisedInv
<1> QED BY <1>2, <1>3, <1>4

LEMMA ForcedKnown ==
    ASSUME AfInv, NEW h \in DOMAIN afHost, NEW trig \in {"admin", "self"},
           NEW via \in {"cycle", "host"}
    PROVE  LET x == ForcedRuntime(afHost[h].engine, trig, via, afNow)
           IN /\ Ran(afHost[h].engine, x, afLog[h], afNow)
              /\ Happened(afHost[h].engine, x) => ForcedEnd(x) /\ (via = "host" => Marked(x))
<1> DEFINE b == afHost[h].engine
           log == afLog[h]
<1>1. EngineLaw(b, log, afNow) /\ Marked(b) /\ afNow \in Nat
  BY HostKnown
<1> HIDE DEF b, log
<1>2. LET x == ForcedRuntime(b, trig, via, afNow)
      IN /\ Ran(b, x, log, afNow)
         /\ IF Happened(b, x) THEN ForcedEnd(x) /\ (via = "host" => Marked(x))
            ELSE x.pending = b.pending /\ x.emitted = b.emitted /\ Marked(x)
  BY <1>1, ForcedRan
<1> QED BY <1>2 DEF b, log

LEMMA ForceTurnInv ==
    ASSUME AfInv, NEW t \in AfThreads, NEW trig \in {"admin", "self"}, ForceTurn(t, trig)
    PROVE  AfInv'
<1> DEFINE h == afTurn[t].host
           host == afHost[h]
           e == ForcedRuntime(host.engine, trig, "cycle", afNow)
           b == BindReceipt(e, e.emitted)
           host2 == [host EXCEPT !.privileged = afNow]
<1>1. afTurn[t].pc = "checked"
      /\ \/ ForceRefused(t, h, e)
         \/ Happened(host.engine, e) /\ Observed(t, h, host2, b, b.pending, Observation(b))
  BY DEF ForceTurn
<1>2. h \in DOMAIN afHost
  BY <1>1, CheckedHost
<1>3. CASE ForceRefused(t, h, e)
  BY <1>1, <1>2, <1>3, RefusedInv
<1>4. CASE Happened(host.engine, e) /\ Observed(t, h, host2, b, b.pending, Observation(b))
  <2>1. /\ host \in HostRecords /\ host.engine \in Engines /\ afLog[h] \in Seq(Receipts)
        /\ afNow \in Nat
    BY <1>2, HostKnown
  <2>2. host2 \in HostRecords /\ host2.base = host.base /\ host2.uncertain = host.uncertain
    BY <2>1, AfTypes, HostNoted
  <2>3. Ran(host.engine, e, afLog[h], afNow) /\ ForcedEnd(e)
    BY <1>2, <1>4, ForcedKnown
  <2>4. Ran(host.engine, b, afLog[h], afNow) /\ Marked(b)
    <3> DEFINE c == host.engine
               l == afLog[h]
    <3>1. c \in Engines /\ l \in Seq(Receipts) /\ Ran(c, e, l, afNow) /\ ForcedEnd(e)
      BY <2>1, <2>3
    <3> HIDE DEF c, l, e
    <3>2. Ran(c, b, l, afNow) /\ Marked(b)
      BY <3>1, BoundForced
    <3> QED BY <3>2 DEF c, l
  <2> HIDE DEF b, host2
  <2>5. b \in Engines
    BY <2>4, RanEngine
  <2>6. Observation(b) \in Observations /\ Observation(b).last = b.last
    BY <2>5, ObservationTyped
  <2>7. b.pending \in Seq(Receipts) /\ AllTrusted(b.pending) /\ Trusted(b.last)
    BY <2>4, <2>5, EngineFields DEF Marked
  <2>8. Copies(b.pending, b)
    BY <2>7 DEF Copies
  <2> QED BY <1>1, <1>4, <2>2, <2>4, <2>6, <2>7, <2>8, ObservedStep
<1> QED BY <1>1, <1>3, <1>4

LEMMA NothingHeld == \A h : TurnHas(NewTurn, h) = {}
BY IdleTurn, EmptyTurn

\* A host that no longer knows what its commit did.
LEMMA UncertainStep ==
    ASSUME AfInv, NEW t \in AfThreads, NEW h \in DOMAIN afHost,
           \A g \in Hosts \ {h} : TurnHas(afTurn[t], g) = {},
           afTurn' = [afTurn EXCEPT ![t] = NewTurn],
           afHost' = [afHost EXCEPT ![h] = [afHost[h] EXCEPT !.uncertain = TRUE]],
           UNCHANGED <<afUse, afRows, afNow, afLog, afApplied>>
    PROVE  AfInv'
<1> DEFINE host2 == [afHost[h] EXCEPT !.uncertain = TRUE]
<1>1. afHost[h] \in HostRecords /\ Marked(afHost[h].engine)
      /\ Ran(afHost[h].engine, afHost[h].engine, afLog[h], afNow)
  BY HostKnown, RanStart
<1>2. host2 \in HostRecords /\ host2.engine = afHost[h].engine /\ host2.base = afHost[h].base
      /\ host2.uncertain = TRUE
  BY <1>1 DEF HostRecords
<1>3. afHost' = [afHost EXCEPT ![h] = host2]
  OBVIOUS
<1> HIDE DEF host2
<1>4. QuietMoves(h, t, host2, NewTurn)
  BY <1>1, <1>2, <1>3, NothingHeld, IdleTurn DEF QuietMoves
<1> QED BY <1>2, <1>4, QuietStep

LEMMA PrepareInv ==
    ASSUME AfInv, NEW t \in AfThreads, Prepare(t)
    PROVE  AfInv'
<1> DEFINE u == afTurn[t]
           h == u.host
           row == StateRow(u.obs, afHost[h].next, u.receipts, FALSE, h)
           v == [pc |-> "prepared", host |-> h, row |-> row]
           built == StateRowAllowed(u.obs, FALSE) /\ EventRowsAllowed(u.receipts)
<1>1. /\ u.pc = "observed" /\ afTurn' = [afTurn EXCEPT ![t] = IF built THEN v ELSE NewTurn]
      /\ afHost' = IF built THEN afHost ELSE [afHost EXCEPT ![h].uncertain = TRUE]
      /\ UNCHANGED <<afUse, afRows, afNow, afLog, afApplied>>
  BY DEF Prepare
<1>2. /\ h \in DOMAIN afHost /\ u.receipts \in Seq(Receipts) /\ AllTrusted(u.receipts)
      /\ u.obs \in Observations /\ LastOf(u.obs.last, u.receipts)
  BY <1>1, TurnKnown DEF TurnLaw
<1>3. afHost[h].next \in Nat /\ h \in Hosts
  BY <1>2, HostKnown, HostFields
<1>4. \A g : TurnHas(u, g) = IF h = g THEN NumbersOf(u.receipts) ELSE {}
  BY <1>1 DEF TurnHas
<1>5. CASE built
  <2>1. row = [version |-> afHost[h].next, obs |-> None, last |-> u.obs.last,
               events |-> u.receipts, current |-> FALSE, by |-> h]
    BY DEF StateRow
  <2>2. u.obs.last \in Receipts
    BY <1>2 DEF Observations
  <2> HIDE DEF row, h
  <2>3. row \in Rows /\ row.events = u.receipts /\ row.last = u.obs.last
        /\ row.current = FALSE /\ row.by = h
    BY <1>2, <1>3, <2>1, <2>2 DEF Rows
  <2>4. TurnLaw(v, DOMAIN afHost)
    BY <1>2, <2>3 DEF TurnLaw
  <2>5. \A g : TurnHas(v, g) = IF h = g THEN NumbersOf(u.receipts) ELSE {}
    BY <2>3 DEF TurnHas
  <2> HIDE DEF v
  <2>6. \A g \in Hosts : TurnHas(v, g) = TurnHas(afTurn[t], g)
    BY <1>4, <2>5
  <2> QED BY <1>1, <1>2, <1>5, <2>4, <2>6, TurnStep
<1>6. CASE ~built
  <2>1. afHost' = [afHost EXCEPT ![h] = [afHost[h] EXCEPT !.uncertain = TRUE]]
    BY <1>1, <1>6
  <2>2. \A g \in Hosts \ {h} : TurnHas(afTurn[t], g) = {}
    BY <1>4
  <2> QED BY <1>1, <1>2, <1>6, <2>1, <2>2, UncertainStep
<1> QED BY <1>5, <1>6

LEMMA SettleInv ==
    ASSUME AfInv, NEW t \in AfThreads, Settle(t)
    PROVE  AfInv'
<1> DEFINE h == afTurn[t].host
           n == afHost[h].next + 1
           host2 == [afHost[h] EXCEPT !.next = n]
<1>1. /\ afTurn[t].pc = "committed" /\ afTurn' = [afTurn EXCEPT ![t] = NewTurn]
      /\ afHost' = [afHost EXCEPT ![h] = host2]
      /\ UNCHANGED <<afUse, afRows, afNow, afLog, afApplied>>
  BY DEF Settle
<1>2. h \in DOMAIN afHost
  BY <1>1, TurnKnown DEF TurnLaw
<1>3. afHost[h] \in HostRecords /\ Marked(afHost[h].engine)
      /\ Ran(afHost[h].engine, afHost[h].engine, afLog[h], afNow)
  BY <1>2, HostKnown, RanStart
<1>4. n \in Nat \ {0}
  BY <1>3, HostFields
<1> HIDE DEF n
<1>5. host2 \in HostRecords /\ host2.engine = afHost[h].engine /\ host2.base = afHost[h].base
      /\ host2.uncertain = afHost[h].uncertain
  BY <1>3, <1>4 DEF HostRecords
<1> HIDE DEF host2
<1>6. \A g : TurnHas(NewTurn, g) = {} /\ TurnHas(afTurn[t], g) = {}
  BY <1>1, IdleTurn, EmptyTurn
<1>7. QuietMoves(h, t, host2, NewTurn)
  BY <1>1, <1>3, <1>5, <1>6, IdleTurn DEF QuietMoves
<1> QED BY <1>2, <1>5, <1>7, QuietStep

\* One row more at the provider.
LEMMA RowAdded ==
    ASSUME AfInv, NEW row, RowLaw(row, afLog["first"]), row.by \in DOMAIN afHost \cup {"operator"},
           afRows' = Append(afRows, row), afLog' = afLog, DOMAIN afHost' = DOMAIN afHost
    PROVE  /\ afRows' \in Seq(Rows) /\ RowsLaw'
           /\ Len(afRows) \in Nat /\ Len(afRows') = Len(afRows) + 1
           /\ afRows'[Len(afRows) + 1] = row
           /\ \A i \in 1..Len(afRows) : afRows'[i] = afRows[i]
<1>1. afRows \in Seq(Rows) /\ row \in Rows
  BY DEF AfInv, AfShaped, RowLaw
<1>2. /\ afRows' \in Seq(Rows) /\ Len(afRows) \in Nat /\ Len(afRows') = Len(afRows) + 1
      /\ afRows'[Len(afRows) + 1] = row
      /\ \A i \in 1..Len(afRows) : afRows'[i] = afRows[i]
  BY <1>1
<1>3. \A i \in 1..Len(afRows') : i \in 1..Len(afRows) \/ i = Len(afRows) + 1
  BY <1>2
<1>4. RowsLaw
  BY DEF AfInv
<1>5. RowsLaw'
  BY <1>2, <1>3, <1>4 DEF RowsLaw
<1> QED BY <1>2, <1>5

\* The receipts a turn held are in the row, the rest of the state is as it was.
RowMoves(h, t, host, w, row) ==
    /\ afHost' = [afHost EXCEPT ![h] = host] /\ afTurn' = [afTurn EXCEPT ![t] = w]
    /\ afRows' = Append(afRows, row)
    /\ UNCHANGED <<afUse, afNow, afLog, afApplied>>
    /\ host.engine = afHost[h].engine /\ host.base = afHost[h].base
    /\ afHost[h].uncertain => host.uncertain
    /\ TurnLaw(w, DOMAIN afHost) /\ \A g : TurnHas(w, g) = {}
    /\ RowLaw(row, afLog["first"]) /\ row.by \in DOMAIN afHost \cup {"operator"}
    /\ \A g \in Hosts : RowHas(row, g) = TurnHas(afTurn[t], g)

LEMMA RowStep ==
    ASSUME AfInv, NEW h \in DOMAIN afHost, NEW t \in AfThreads, NEW host \in HostRecords, NEW w,
           NEW row, RowMoves(h, t, host, w, row)
    PROVE  AfInv'
<1> USE DEF RowMoves
<1>1. /\ DOMAIN afHost' = DOMAIN afHost /\ afHost'[h] = host
      /\ \A g \in DOMAIN afHost \ {h} : afHost'[g] = afHost[g]
  BY DEF AfInv, AfShaped
<1>2. /\ afTurn' = [v \in AfThreads |-> afTurn'[v]] /\ afTurn'[t] = w
      /\ \A v \in AfThreads \ {t} : afTurn'[v] = afTurn[v]
  BY DEF AfInv, AfShaped
<1>3. /\ afRows' \in Seq(Rows) /\ RowsLaw'
      /\ Len(afRows) \in Nat /\ Len(afRows') = Len(afRows) + 1
      /\ afRows'[Len(afRows) + 1] = row
      /\ \A i \in 1..Len(afRows) : afRows'[i] = afRows[i]
  BY <1>1, RowAdded
<1>4. AfShaped'
  <2>1. afHost' \in [DOMAIN afHost' -> HostRecords]
    BY <1>1 DEF AfInv, AfShaped
  <2>2. \A v \in AfThreads : TurnLaw(afTurn'[v], DOMAIN afHost')
    BY <1>1, <1>2 DEF AfInv, AfShaped
  <2> QED BY <1>1, <1>2, <1>3, <2>1, <2>2 DEF AfInv, AfShaped
<1>5. UnknownLaw' /\ SignalsLaw'
  BY <1>1 DEF AfInv, UnknownLaw, SignalsLaw
<1>6. HostsLaw'
  <2> SUFFICES ASSUME NEW g \in DOMAIN afHost
               PROVE  EngineLaw(afHost'[g].engine, afLog[g], afNow) /\ Marked(afHost'[g].engine)
                      /\ Accounted(g)'
    BY <1>1 DEF HostsLaw
  <2>1. EngineLaw(afHost[g].engine, afLog[g], afNow) /\ Marked(afHost[g].engine) /\ Accounted(g)
        /\ g \in Hosts
    BY DEF AfInv, HostsLaw, AfShaped
  <2>2. afHost'[g].engine = afHost[g].engine /\ afHost'[g].base = afHost[g].base
        /\ (afHost[g].uncertain => afHost'[g].uncertain)
    BY <1>1
  <2>3. Accounted(g)'
    <3> DEFINE D == Drained(afHost[g])
               n == Len(afRows)
               H(v) == TurnHas(afTurn[v], g)
               R(i) == RowHas(afRows[i], g)
    <3>1. /\ \A v \in AfThreads : H(v) \subseteq D
          /\ \A i \in 1..n : R(i) \subseteq D
          /\ \A v, x \in AfThreads : v # x => H(v) \cap H(x) = {}
          /\ \A i, j \in 1..n : i # j => R(i) \cap R(j) = {}
          /\ \A v \in AfThreads, i \in 1..n : H(v) \cap R(i) = {}
          /\ ~afHost[g].uncertain =>
                 \A k \in D : (\E v \in AfThreads : k \in H(v)) \/ (\E i \in 1..n : k \in R(i))
      BY <2>1 DEF Accounted
    <3>2. Drained(afHost'[g]) = D
      BY <2>2 DEF Drained
    <3>3. /\ TurnHas(afTurn'[t], g) = {} /\ RowHas(afRows'[n + 1], g) = H(t)
          /\ \A v \in AfThreads \ {t} : TurnHas(afTurn'[v], g) = H(v)
          /\ \A i \in 1..n : RowHas(afRows'[i], g) = R(i)
      BY <1>2, <1>3, <2>1
    <3>4. n \in Nat /\ Len(afRows') = n + 1 /\ 1..(n + 1) = 1..n \cup {n + 1} /\ n + 1 \notin 1..n
      BY <1>3
    <3> HIDE DEF D, n, H, R
    <3>5. \A v \in AfThreads : TurnHas(afTurn'[v], g) \subseteq D
      BY <3>1, <3>3
    <3>6. \A i \in 1..(n + 1) : RowHas(afRows'[i], g) \subseteq D
      BY <3>1, <3>3, <3>4
    <3>7. \A v, x \in AfThreads : v # x => TurnHas(afTurn'[v], g) \cap TurnHas(afTurn'[x], g) = {}
      BY <3>1, <3>3
    <3>8. \A i, j \in 1..(n + 1) :
              i # j => RowHas(afRows'[i], g) \cap RowHas(afRows'[j], g) = {}
      <4> SUFFICES ASSUME NEW i \in 1..(n + 1), NEW j \in 1..(n + 1), i # j
                   PROVE  RowHas(afRows'[i], g) \cap RowHas(afRows'[j], g) = {}
        OBVIOUS
      <4>1. CASE i \in 1..n /\ j \in 1..n
        BY <4>1, <3>1, <3>3
      <4>2. CASE i = n + 1 /\ j \in 1..n
        BY <4>2, <3>1, <3>3
      <4>3. CASE j = n + 1 /\ i \in 1..n
        <5>1. H(t) \cap R(i) = {}
          BY <4>3, <3>1
        <5>2. RowHas(afRows'[j], g) = H(t) /\ RowHas(afRows'[i], g) = R(i)
          BY <4>3, <3>3
        <5> QED BY <5>1, <5>2
      <4> QED BY <4>1, <4>2, <4>3, <3>4
    <3>9. \A v \in AfThreads, i \in 1..(n + 1) :
              TurnHas(afTurn'[v], g) \cap RowHas(afRows'[i], g) = {}
      <4> SUFFICES ASSUME NEW v \in AfThreads, NEW i \in 1..(n + 1)
                   PROVE  TurnHas(afTurn'[v], g) \cap RowHas(afRows'[i], g) = {}
        OBVIOUS
      <4>1. CASE v = t
        BY <4>1, <3>3
      <4>2. CASE v # t /\ i \in 1..n
        BY <4>2, <3>1, <3>3
      <4>3. CASE v # t /\ i = n + 1
        BY <4>3, <3>1, <3>3
      <4> QED BY <4>1, <4>2, <4>3, <3>4
    <3>10. ~afHost'[g].uncertain =>
              \A k \in D : \/ \E v \in AfThreads : k \in TurnHas(afTurn'[v], g)
                           \/ \E i \in 1..(n + 1) : k \in RowHas(afRows'[i], g)
      <4> SUFFICES ASSUME ~afHost'[g].uncertain, NEW k \in D
                   PROVE  \/ \E v \in AfThreads : k \in TurnHas(afTurn'[v], g)
                          \/ \E i \in 1..(n + 1) : k \in RowHas(afRows'[i], g)
        OBVIOUS
      <4>1. (\E v \in AfThreads : k \in H(v)) \/ (\E i \in 1..n : k \in R(i))
        BY <2>2, <3>1
      <4>2. CASE \E i \in 1..n : k \in R(i)
        BY <4>2, <3>3, <3>4
      <4>3. CASE k \in H(t)
        BY <4>3, <3>3, <3>4
      <4>4. CASE \E v \in AfThreads \ {t} : k \in H(v)
        BY <4>4, <3>3
      <4> QED BY <4>1, <4>2, <4>3, <4>4
    <3>11. afHost'[g].base <= afHost'[g].engine.emitted - Len(afHost'[g].engine.pending)
      BY <2>1, <2>2 DEF Accounted
    <3> QED BY <3>2, <3>4, <3>5, <3>6, <3>7, <3>8, <3>9, <3>10, <3>11 DEF Accounted
  <2> QED BY <2>1, <2>2, <2>3
<1> QED BY <1>3, <1>4, <1>5, <1>6 DEF AfInv

LEMMA CommitInv ==
    ASSUME AfInv, NEW t \in AfThreads, Commit(t)
    PROVE  AfInv'
<1> DEFINE u == afTurn[t]
           h == u.host
           row == u.row
           done == [pc |-> "committed", host |-> h]
           doubt == [afHost[h] EXCEPT !.uncertain = TRUE]
           moved == [afHost[h] EXCEPT !.frontier = row.version]
<1>1. /\ u.pc = "prepared" /\ UNCHANGED <<afUse, afNow, afLog, afApplied>>
      /\ \/ /\ afRows' = Append(afRows, row)
            /\ \/ /\ afTurn' = [afTurn EXCEPT ![t] = done]
                  /\ afHost' = [afHost EXCEPT ![h] = moved] \/ afHost' = afHost
               \/ /\ afTurn' = [afTurn EXCEPT ![t] = NewTurn]
                  /\ afHost' = [afHost EXCEPT ![h] = doubt]
         \/ /\ afTurn' = [afTurn EXCEPT ![t] = NewTurn]
            /\ afHost' = [afHost EXCEPT ![h] = doubt]
            /\ afRows' = afRows
  BY DEF Commit
<1>2. /\ h \in DOMAIN afHost /\ row \in Rows /\ AllTrusted(row.events)
      /\ LastOf(row.last, row.events) /\ ~row.current /\ row.by = h
  BY <1>1, TurnKnown DEF TurnLaw
<1>3. afHost[h] \in HostRecords
  BY <1>2, HostKnown
<1>4. \A g : TurnHas(u, g) = IF h = g THEN NumbersOf(row.events) ELSE {}
  BY <1>1 DEF TurnHas
<1>5. \A g \in Hosts : RowHas(row, g) = TurnHas(u, g)
  BY <1>2, <1>4 DEF RowHas
<1>6. RowLaw(row, afLog["first"])
  BY <1>2 DEF RowLaw
<1>7. done.pc = "committed" /\ TurnLaw(done, DOMAIN afHost)
  BY <1>2 DEF TurnLaw
<1> HIDE DEF done
<1>8. \A g : TurnHas(done, g) = {}
  BY <1>7, EmptyTurn
<1>9. /\ doubt \in HostRecords /\ doubt.engine = afHost[h].engine /\ doubt.base = afHost[h].base
      /\ doubt.uncertain = TRUE
  BY <1>3 DEF HostRecords
<1>10. /\ moved \in HostRecords /\ moved.engine = afHost[h].engine /\ moved.base = afHost[h].base
       /\ moved.uncertain = afHost[h].uncertain
  <2>1. row.version \in Readings
    BY <1>2, AfTypes DEF Rows
  <2> HIDE DEF row
  <2> QED BY <1>3, <2>1 DEF HostRecords
<1>11. CASE afRows' = afRows
  <2>1. \A g \in Hosts \ {h} : TurnHas(afTurn[t], g) = {}
    BY <1>4
  <2>2. Len(Append(afRows, row)) # Len(afRows)
    BY <1>2 DEF AfInv, AfShaped
  <2>3. afTurn' = [afTurn EXCEPT ![t] = NewTurn] /\ afHost' = [afHost EXCEPT ![h] = doubt]
    BY <1>1, <1>11, <2>2
  <2> QED BY <1>1, <1>2, <1>11, <2>1, <2>3, UncertainStep
<1>12. CASE /\ afRows' = Append(afRows, row) /\ afTurn' = [afTurn EXCEPT ![t] = done]
            /\ afHost' = [afHost EXCEPT ![h] = moved]
  <2> HIDE DEF moved
  <2>1. RowMoves(h, t, moved, done, row)
    BY <1>1, <1>2, <1>5, <1>6, <1>7, <1>8, <1>10, <1>12 DEF RowMoves
  <2> QED BY <1>2, <1>10, <2>1, RowStep
<1>13. CASE afRows' = Append(afRows, row) /\ afTurn' = [afTurn EXCEPT ![t] = done] /\ afHost' = afHost
  <2> DEFINE same == afHost[h]
  <2>1. afHost' = [afHost EXCEPT ![h] = same]
    BY <1>13 DEF AfInv, AfShaped
  <2>2. RowMoves(h, t, same, done, row)
    BY <1>1, <1>2, <1>5, <1>6, <1>7, <1>8, <1>13, <2>1 DEF RowMoves
  <2> QED BY <1>2, <1>3, <2>2, RowStep
<1>14. CASE /\ afRows' = Append(afRows, row) /\ afTurn' = [afTurn EXCEPT ![t] = NewTurn]
            /\ afHost' = [afHost EXCEPT ![h] = doubt]
  <2> HIDE DEF doubt
  <2>1. RowMoves(h, t, doubt, NewTurn, row)
    BY <1>1, <1>2, <1>5, <1>6, <1>9, <1>14, NothingHeld, IdleTurn DEF RowMoves
  <2> QED BY <1>2, <1>9, <2>1, RowStep
<1> QED BY <1>1, <1>11, <1>12, <1>13, <1>14

LEMMA PublishInv ==
    ASSUME AfInv, Publish("first")
    PROVE  AfInv'
<1> DEFINE e == afHost["first"].engine
           o == Observation(e)
           n == Len(afRows)
           row == StateRow(o, n + 1, <<>>, TRUE, "operator")
<1>1. /\ afRows' = Append(afRows, row)
      /\ UNCHANGED <<afUse, afHost, afTurn, afNow, afLog, afApplied>>
  BY DEF Publish
<1>2. "first" \in DOMAIN afHost /\ n \in Nat
  BY DEF AfInv, AfShaped
<1>3. EngineLaw(e, afLog["first"], afNow) /\ Trusted(e.last) /\ e \in Engines
  BY <1>2, HostKnown DEF Marked
<1>4. ObservationLaw(o, afLog["first"]) /\ o \in Observations /\ o.last \in Receipts
  <2> DEFINE c == e
             l == afLog["first"]
  <2>1. EngineLaw(c, l, afNow) /\ Trusted(c.last)
    BY <1>3
  <2> HIDE DEF c, l
  <2>2. ObservationLaw(Observation(c), l)
    BY <2>1, ObservationLawful
  <2> QED BY <2>2 DEF ObservationLaw, Observations, c, l
<1>5. row = [version |-> n + 1, obs |-> o, last |-> o.last, events |-> <<>>, current |-> TRUE,
             by |-> "operator"]
  BY DEF StateRow
<1> HIDE DEF row, o, n
<1>6. <<>> \in Seq(Receipts) /\ Len(<<>>) = 0
  OBVIOUS
<1>7. /\ row \in Rows /\ row.obs = o /\ row.events = <<>> /\ row.by = "operator"
      /\ AllTrusted(row.events) /\ LastOf(row.last, row.events)
  BY <1>2, <1>4, <1>5, <1>6 DEF Rows, AllTrusted, LastOf
<1>8. RowLaw(row, afLog["first"])
  BY <1>4, <1>7 DEF RowLaw
<1>9. /\ afRows' \in Seq(Rows) /\ RowsLaw'
      /\ Len(afRows) \in Nat /\ Len(afRows') = Len(afRows) + 1
      /\ afRows'[Len(afRows) + 1] = row
      /\ \A i \in 1..Len(afRows) : afRows'[i] = afRows[i]
  BY <1>1, <1>7, <1>8, RowAdded
<1>10. \A i \in 1..Len(afRows') : i \in 1..Len(afRows) \/ i = Len(afRows) + 1
  BY <1>9
<1>11. 1..Len(afRows) \subseteq 1..Len(afRows')
  BY <1>9
<1>12. HostsLaw'
  <2> SUFFICES ASSUME NEW g \in DOMAIN afHost PROVE Accounted(g)'
    BY <1>1 DEF HostsLaw, AfInv
  <2>1. Accounted(g) /\ g \in Hosts
    BY DEF AfInv, HostsLaw, AfShaped
  <2>2. RowHas(row, g) = {}
    BY <1>6, <1>7, <2>1 DEF RowHas, NumbersOf
  <2>3. \A i \in 1..Len(afRows') : RowHas(afRows'[i], g) \subseteq Drained(afHost[g])
    BY <1>9, <1>10, <2>1, <2>2 DEF Accounted
  <2>4. \A i, j \in 1..Len(afRows') :
            i # j => RowHas(afRows'[i], g) \cap RowHas(afRows'[j], g) = {}
    BY <1>9, <1>10, <2>1, <2>2 DEF Accounted
  <2>5. \A t \in AfThreads, i \in 1..Len(afRows') :
            TurnHas(afTurn[t], g) \cap RowHas(afRows'[i], g) = {}
    BY <1>9, <1>10, <2>1, <2>2 DEF Accounted
  <2>6. ~afHost[g].uncertain =>
            \A k \in Drained(afHost[g]) :
                \/ \E t \in AfThreads : k \in TurnHas(afTurn[t], g)
                \/ \E i \in 1..Len(afRows') : k \in RowHas(afRows'[i], g)
    <3> SUFFICES ASSUME ~afHost[g].uncertain, NEW k \in Drained(afHost[g]),
                        ~\E t \in AfThreads : k \in TurnHas(afTurn[t], g)
                 PROVE  \E i \in 1..Len(afRows') : k \in RowHas(afRows'[i], g)
      OBVIOUS
    <3>1. PICK i \in 1..Len(afRows) : k \in RowHas(afRows[i], g)
      BY <2>1 DEF Accounted
    <3> QED BY <3>1, <1>9, <1>11
  <2> QED BY <1>1, <2>1, <2>3, <2>4, <2>5, <2>6 DEF Accounted
<1> QED BY <1>1, <1>9, <1>12 DEF AfInv, AfShaped, UnknownLaw, SignalsLaw

\* A restored engine, after time in which it emitted nothing, still agrees with
\* the history of its ancestor.
LEMMA RestoredRan ==
    ASSUME NEW o, NEW log \in Seq(Receipts), NEW now \in Nat, ObservationLaw(o, log),
           Numbered(log), Spaced(log), \A i \in 1..Len(log) : log[i].at <= now,
           NEW ticks \in Int, NEW to \in Decays(ticks),
           LET e == RestoredEngine(o)
           IN ~Happened(e, IF ticks = 0 THEN e ELSE AdvanceTime(e, ticks, to, now))
    PROVE  LET e == RestoredEngine(o)
               e1 == IF ticks = 0 THEN e ELSE AdvanceTime(e, ticks, to, now)
           IN /\ EngineLaw(e1, SubSeq(log, 1, o.emitted), now) /\ Marked(e1)
              /\ e1.emitted = o.emitted /\ Len(e1.pending) = 0 /\ o.emitted \in Nat
<1> DEFINE e == RestoredEngine(o)
           e1 == IF ticks = 0 THEN e ELSE AdvanceTime(e, ticks, to, now)
           h == SubSeq(log, 1, o.emitted)
<1>1. EngineLaw(e, h, now) /\ Marked(e) /\ e.emitted = o.emitted /\ e.pending = <<>>
  BY RestoredLaw
<1>0. ~(e1.emitted > e.emitted)
  BY DEF Happened
<1> HIDE DEF e, h
<1>2. e \in Engines /\ h \in Seq(Receipts) /\ Ran(e, e, h, now)
  BY <1>1, RanStart DEF EngineLaw
<1>3. Ran(e, e1, h, now) /\ Marked(e1)
  <2>1. to[1] \in 0..3 /\ to[2] \in 0..2
    BY DecaysTyped
  <2> DEFINE a == AdvanceTime(e, ticks, to, now)
  <2>2. Ran(e, a, h, now) /\ Marked(a)
    BY <1>1, <1>2, <2>1, AdvanceTimeRan
  <2> HIDE DEF a
  <2>3. e1 = e \/ e1 = a
    BY DEF a
  <2> HIDE DEF e1
  <2> QED BY <1>1, <1>2, <2>2, <2>3
<1> HIDE DEF e1
<1>4. e1 \in Engines
  BY <1>3, RanEngine
<1>5. e1.pending \in Seq(Receipts) /\ e1.emitted \in Nat /\ e.emitted \in Nat /\ Len(e.pending) = 0
  BY <1>1, <1>2, <1>4, EngineFields
<1>6. EngineLaw(e1, Hist(h, Len(e.pending), e1), now) /\ Len(e.pending) <= Len(e1.pending)
      /\ e1.emitted - Len(e1.pending) = e.emitted - Len(e.pending)
  BY <1>3 DEF Ran
<1>7. e1.emitted = e.emitted /\ Len(e1.pending) = Len(e.pending)
  BY <1>0, <1>5, <1>6
<1>8. Hist(h, Len(e.pending), e1) = h
  <2> DEFINE p == e1.pending
  <2>1. p \in Seq(Receipts)
    BY <1>5
  <2> HIDE DEF p
  <2>2. h \o SubSeq(p, Len(p) + 1, Len(p)) = h
    BY <1>2, <2>1, HistNothing
  <2> QED BY <1>7, <2>2 DEF Hist, p
<1>9. EngineLaw(e1, h, now)
  BY <1>6, <1>8
<1> QED BY <1>1, <1>3, <1>5, <1>7, <1>9 DEF e, e1, h

\* A second host joins; what is drained of it was drained by its ancestor.
JoinMoves(host, log) ==
    /\ "restored" \notin DOMAIN afHost
    /\ afHost' = [h \in Hosts |-> IF h = "restored" THEN host ELSE afHost[h]]
    /\ afLog' = [afLog EXCEPT !["restored"] = log]
    /\ UNCHANGED <<afUse, afTurn, afRows, afNow, afApplied>>
    /\ EngineLaw(host.engine, log, afNow) /\ Marked(host.engine)
    /\ host.base = DrainedTo(host)

LEMMA JoinStep ==
    ASSUME AfInv, NEW host \in HostRecords, NEW log, JoinMoves(host, log)
    PROVE  AfInv'
<1> USE DEF JoinMoves
<1>1. /\ DOMAIN afHost = {"first"} /\ DOMAIN afHost' = Hosts /\ Hosts = {"first", "restored"}
      /\ afHost'["restored"] = host /\ afHost'["first"] = afHost["first"]
  BY DEF AfInv, AfShaped, Hosts
<1>2. /\ afLog' \in [Hosts -> Seq(Receipts)] /\ afLog'["restored"] = log
      /\ afLog'["first"] = afLog["first"]
  BY <1>1 DEF AfInv, AfShaped, EngineLaw
<1>3. \A t \in AfThreads : TurnLaw(afTurn[t], {"first"})
  BY <1>1 DEF AfInv, AfShaped
<1>4. AfShaped'
  <2>1. afHost' \in [Hosts -> HostRecords]
    BY <1>1 DEF AfInv, AfShaped
  <2>2. \A t \in AfThreads : TurnLaw(afTurn[t], Hosts)
    BY <1>1, <1>3 DEF TurnLaw
  <2> QED BY <1>1, <1>2, <2>1, <2>2 DEF AfInv, AfShaped
<1>5. RowsLaw'
  BY <1>1, <1>2 DEF AfInv, RowsLaw
<1>6. UnknownLaw' /\ SignalsLaw'
  BY <1>1 DEF AfInv, UnknownLaw, SignalsLaw
<1>7. Accounted("first")'
  BY <1>1 DEF AfInv, HostsLaw, Accounted
<1>8. Accounted("restored")'
  <2>1. \A t \in AfThreads : TurnHas(afTurn[t], "restored") = {}
    BY <1>3 DEF TurnLaw, TurnHas
  <2>2. \A i \in 1..Len(afRows) : RowHas(afRows[i], "restored") = {}
    BY <1>1 DEF AfInv, RowsLaw, RowHas
  <2>3. Drained(host) = {} /\ host.base <= host.engine.emitted - Len(host.engine.pending)
    <3>1. host.base \in Nat /\ Drained(host) = (host.base + 1)..host.base
      BY HostFields
    <3>2. host.base <= host.base
      BY <3>1
    <3> QED BY <3>1, <3>2 DEF DrainedTo
  <2> QED BY <1>1, <2>1, <2>2, <2>3 DEF Accounted
<1>9. HostsLaw'
  <2>1. EngineLaw(afHost["first"].engine, afLog["first"], afNow) /\ Marked(afHost["first"].engine)
    BY <1>1 DEF AfInv, HostsLaw
  <2> QED BY <1>1, <1>2, <1>7, <1>8, <2>1 DEF HostsLaw
<1> QED BY <1>4, <1>5, <1>6, <1>9 DEF AfInv

LEMMA RestoreCurrentInv ==
    ASSUME AfInv, NEW ticks \in {0, LongTicks}, NEW to \in Decays(ticks), RestoreCurrent(ticks, to)
    PROVE  AfInv'
<1>1. PICK i \in DOMAIN afRows :
         LET row == afRows[i]
             e == RestoredEngine(row.obs)
             e1 == IF ticks = 0 THEN e ELSE AdvanceTime(e, ticks, to, afNow)
         IN /\ TokenAllowed(row) /\ ~Happened(e, e1)
            /\ afHost' = [h \in Hosts |->
                 IF h = "restored" THEN HostOf(e1, row.version + 1, row.version)
                 ELSE afHost[h]]
            /\ afLog' = [afLog EXCEPT !["restored"] = SubSeq(afLog["first"], 1, e.emitted)]
  BY DEF RestoreCurrent
<1> DEFINE row == afRows[i]
           o == row.obs
           e == RestoredEngine(o)
           e1 == IF ticks = 0 THEN e ELSE AdvanceTime(e, ticks, to, afNow)
           host == HostOf(e1, row.version + 1, row.version)
           log == afLog["first"]
           log1 == SubSeq(log, 1, o.emitted)
<1>2. "restored" \notin DOMAIN afHost /\ UNCHANGED <<afUse, afTurn, afRows, afNow, afApplied>>
  BY DEF RestoreCurrent
<1>3. e.emitted = o.emitted
  BY DEF RestoredEngine
<1>4. /\ afHost' = [h \in Hosts |-> IF h = "restored" THEN host ELSE afHost[h]]
      /\ afLog' = [afLog EXCEPT !["restored"] = log1]
      /\ row.current /\ ~Happened(e, e1)
  BY <1>1, <1>3 DEF TokenAllowed
<1>5. ObservationLaw(o, log) /\ row.version \in Nat
  <2>1. i \in 1..Len(afRows)
    BY DEF AfInv, AfShaped
  <2> QED BY <1>4, <2>1 DEF AfInv, RowsLaw, RowLaw, Rows
<1>6. /\ log \in Seq(Receipts) /\ afNow \in Nat /\ Numbered(log) /\ Spaced(log)
      /\ \A j \in 1..Len(log) : log[j].at <= afNow
  <2>1. "first" \in DOMAIN afHost
    BY DEF AfInv, AfShaped
  <2> QED BY <2>1, HostKnown DEF EngineLaw, Clocked
<1>7. ticks \in Int
  BY AfTypes
<1> HIDE DEF log, row
<1>8. /\ EngineLaw(e1, log1, afNow) /\ Marked(e1)
      /\ e1.emitted = o.emitted /\ Len(e1.pending) = 0 /\ o.emitted \in Nat
  BY <1>4, <1>5, <1>6, <1>7, RestoredRan
<1>9. e1 \in Engines
  BY <1>8 DEF EngineLaw
<1> HIDE DEF e1, e, log1
<1>10. host \in HostRecords /\ host.engine = e1 /\ host.base = o.emitted
  <2> DEFINE n == row.version + 1
             f == row.version
             b == e1.emitted
  <2>1. n \in Nat \ {0} /\ f \in Readings /\ b = o.emitted /\ b \in Nat
    BY <1>5, <1>8, AfTypes
  <2>2. host = [engine |-> e1, privileged |-> None, next |-> n, frontier |-> f,
                uncertain |-> FALSE, base |-> b]
    BY DEF HostOf
  <2> HIDE DEF n, f, b, host
  <2> QED BY <1>9, <2>1, <2>2, AfTypes DEF HostRecords
<1> HIDE DEF host
<1>11. JoinMoves(host, log1)
  BY <1>2, <1>4, <1>8, <1>10 DEF JoinMoves, DrainedTo
<1> QED BY <1>10, <1>11, JoinStep

\* A signal is applied: it is not among those of its host.
LEMMA ApplySignalInv ==
    ASSUME AfInv, NEW t \in AfThreads, NEW h, ApplySignal(t, h)
    PROVE  AfInv'
<1> DEFINE o == Observation(afHost[h].engine)
           signal == Signal(o)
           a == [host |-> h, frontier |-> h, signal |-> signal]
           n == Len(afApplied)
<1>1. /\ h \in DOMAIN afHost /\ SignalValid(h, signal) /\ afApplied' = Append(afApplied, a)
      /\ UNCHANGED <<afUse, afHost, afTurn, afRows, afNow, afLog>>
  BY DEF ApplySignal, FrontierOf
<1>2. h \in Hosts /\ o \in Observations
  BY <1>1, HostKnown, ObservationTyped
<1>3. signal = [obs |-> o, influence |-> Influence(o), unrooted |-> o.last.unrooted]
  BY DEF Signal, Unrooted
<1> HIDE DEF o, signal
<1>4. signal \in [obs : Observations, influence : {"full", "bounded", "none"}, unrooted : BOOLEAN]
  <2>1. o.last.unrooted \in BOOLEAN
    BY <1>2 DEF Observations, Receipts
  <2>2. Influence(o) \in {"full", "bounded", "none"}
    BY DEF Influence
  <2> QED BY <1>2, <1>3, <2>1, <2>2
<1>5. a \in Applications /\ a.host = h /\ a.frontier = h /\ a.signal = signal
  BY <1>2, <1>4 DEF Applications
<1> HIDE DEF a
<1>6. afApplied \in Seq(Applications)
      /\ (\A i \in 1..n : afApplied[i].frontier = afApplied[i].host)
      /\ \A i, j \in 1..n : i < j /\ afApplied[i].host = afApplied[j].host
                               => afApplied[i].signal # afApplied[j].signal
  BY DEF AfInv, SignalsLaw
<1>7. /\ afApplied' \in Seq(Applications) /\ Len(afApplied') = n + 1 /\ afApplied'[n + 1] = a
      /\ \A i \in 1..n : afApplied'[i] = afApplied[i]
      /\ n \in Nat /\ DOMAIN afApplied = 1..n
  BY <1>1, <1>5, <1>6
<1> HIDE DEF n
<1>8. \A i \in 1..n : afApplied[i].frontier = h => afApplied[i].signal # signal
  BY <1>1, <1>7 DEF SignalValid
<1>9. \A i \in 1..(n + 1) : i \in 1..n \/ i = n + 1
  BY <1>7
<1>10. \A i \in 1..(n + 1) : afApplied'[i].frontier = afApplied'[i].host
  BY <1>5, <1>6, <1>7, <1>9
<1>11. ASSUME NEW i \in 1..(n + 1), NEW j \in 1..(n + 1), i < j,
              afApplied'[i].host = afApplied'[j].host
       PROVE  afApplied'[i].signal # afApplied'[j].signal
  <2>1. i \in 1..n
    BY <1>7, <1>9, <1>11
  <2>2. CASE j \in 1..n
    BY <1>6, <1>7, <1>11, <2>1, <2>2
  <2>3. CASE j = n + 1
    BY <1>5, <1>6, <1>7, <1>8, <1>11, <2>1, <2>3
  <2> QED BY <1>9, <2>2, <2>3
<1>12. SignalsLaw'
  BY <1>7, <1>10, <1>11 DEF SignalsLaw
<1> QED BY <1>1, <1>12
        DEF AfInv, AfShaped, HostsLaw, RowsLaw, UnknownLaw, Accounted

\* The clock is read later.
LEMMA AfTickInv ==
    ASSUME AfInv, AfTick
    PROVE  AfInv'
<1>1. /\ afNow < afUse.until /\ afNow' = afNow + 1
      /\ UNCHANGED <<afUse, afHost, afTurn, afRows, afLog, afApplied>>
  BY DEF AfTick
<1>2. afNow \in Nat /\ afUse.until \in Nat
  BY AfAssumption DEF AfInv, AfShaped
<1>3. afNow' \in Nat /\ afNow' <= afUse.until /\ afNow <= afNow'
  BY <1>1, <1>2
<1>4. ASSUME NEW e, NEW log, EngineLaw(e, log, afNow)
      PROVE  EngineLaw(e, log, afNow')
  <2>1. log \in Seq(Receipts) /\ e.forcedAt \in Readings /\ Clocked(log, e.forcedAt, afNow)
    BY <1>4, EngineFields DEF EngineLaw
  <2>2. \A i \in 1..Len(log) : log[i].at \in Nat
    <3>1. \A i \in 1..Len(log) : log[i] \in Receipts
      BY <2>1
    <3> QED BY <3>1 DEF Receipts
  <2>3. Clocked(log, e.forcedAt, afNow')
    BY <1>2, <1>3, <2>1, <2>2, AfTypes DEF Clocked
  <2> QED BY <1>4, <2>3 DEF EngineLaw
<1>5. AfShaped'
  BY <1>1, <1>3 DEF AfInv, AfShaped
<1>6. HostsLaw'
  <2> SUFFICES ASSUME NEW h \in DOMAIN afHost
               PROVE  EngineLaw(afHost[h].engine, afLog[h], afNow')
                      /\ Marked(afHost[h].engine) /\ Accounted(h)'
    BY <1>1 DEF HostsLaw
  <2>1. EngineLaw(afHost[h].engine, afLog[h], afNow) /\ Marked(afHost[h].engine) /\ Accounted(h)
    BY DEF AfInv, HostsLaw
  <2>2. Accounted(h)'
    BY <1>1, <2>1 DEF Accounted
  <2> DEFINE e == afHost[h].engine
             log == afLog[h]
  <2> HIDE DEF e, log
  <2>3. EngineLaw(e, log, afNow')
    BY <1>4, <2>1 DEF e, log
  <2> QED BY <2>1, <2>2, <2>3 DEF e, log
<1>7. RowsLaw' /\ UnknownLaw' /\ SignalsLaw'
  BY <1>1 DEF AfInv, RowsLaw, UnknownLaw, SignalsLaw
<1> QED BY <1>5, <1>6, <1>7 DEF AfInv

LEMMA AfNextInv == AfInv /\ [AfNext]_afVars => AfInv'
<1> SUFFICES ASSUME AfInv, [AfNext]_afVars PROVE AfInv'
  OBVIOUS
<1>1. CASE UNCHANGED afVars
  BY <1>1 DEF afVars, AfInv, AfShaped, HostsLaw, RowsLaw, UnknownLaw, SignalsLaw, Accounted
<1>2. CASE AfTick
  BY <1>2, AfTickInv
<1>3. ASSUME NEW t \in afUse.threads,
             \/ \E h \in Hosts : Begin(t, h)
             \/ /\ Calls("stimulus")
                /\ \E a \in Stimuli, verified \in BOOLEAN :
                     \E to \in Decays(0) \cup Decays(LongTicks) : ProcessTurn(t, a, verified, to)
             \/ Calls("force") /\ \E trig \in {"admin", "self"} : ForceTurn(t, trig)
             \/ /\ Calls("advance")
                /\ \E ticks \in {EventTicks, LongTicks} :
                     \E to \in Decays(ticks) : AdvanceTurn(t, ticks, to)
             \/ Prepare(t) \/ Commit(t) \/ Settle(t)
             \/ Calls("integrate") /\ \E h \in Hosts : ApplySignal(t, h)
      PROVE  AfInv'
  <2>1. t \in AfThreads
    BY AfAssumption DEF AfInv, AfShaped
  <2>2. CASE \E h \in Hosts : Begin(t, h)
    BY <2>1, <2>2, BeginInv
  <2>3. CASE \E a \in Stimuli, verified \in BOOLEAN :
                \E to \in Decays(0) \cup Decays(LongTicks) : ProcessTurn(t, a, verified, to)
    BY <2>1, <2>3, ProcessTurnInv
  <2>4. CASE \E trig \in {"admin", "self"} : ForceTurn(t, trig)
    BY <2>1, <2>4, ForceTurnInv
  <2>5. CASE \E ticks \in {EventTicks, LongTicks} :
                \E to \in Decays(ticks) : AdvanceTurn(t, ticks, to)
    <3>1. EventTicks \in Int /\ LongTicks \in Int
      BY AfTypes
    <3> QED BY <2>1, <2>5, <3>1, AdvanceTurnInv
  <2>8. CASE Prepare(t)
    BY <2>1, <2>8, PrepareInv
  <2>9. CASE Commit(t)
    BY <2>1, <2>9, CommitInv
  <2>10. CASE Settle(t)
    BY <2>1, <2>10, SettleInv
  <2>11. CASE \E h \in Hosts : ApplySignal(t, h)
    BY <2>1, <2>11, ApplySignalInv
  <2> QED BY <1>3, <2>2, <2>3, <2>4, <2>5, <2>8, <2>9, <2>10, <2>11
<1>4. CASE Publish("first")
  BY <1>4, PublishInv
<1>5. CASE \E ticks \in {0, LongTicks} : \E to \in Decays(ticks) : RestoreCurrent(ticks, to)
  BY <1>5, RestoreCurrentInv
<1> QED BY <1>1, <1>2, <1>3, <1>4, <1>5 DEF AfNext

\* Whatever the threads of a cycle do and whatever their commits answer, an
\* engine agrees with its history, what a cycle caused is marked, and every
\* drained receipt is with one turn or in one row (process_turn,
\* force_admin_test, advance_time and _finalize of the affective cycle).
THEOREM AffectInvariant == AfSpec => []AfInv
<1>1. AfInit => AfInv
  BY AfInvInit
<1>2. AfInv /\ [AfNext]_afVars => AfInv'
  BY AfNextInv
<1> QED BY <1>1, <1>2, PTL DEF AfSpec

LEMMA AfTyped == AfInv => AfTypeOK
<1> SUFFICES ASSUME AfInv PROVE AfTypeOK
  OBVIOUS
<1>1. afNow \in 0..afUse.until
  <2>1. afNow \in Nat /\ afNow <= afUse.until /\ afUse.until \in Nat
    BY AfAssumption DEF AfInv, AfShaped
  <2> QED BY <2>1
<1>2. ASSUME NEW h \in DOMAIN afHost
      PROVE  /\ afHost[h].engine.s.phase \in Phases
             /\ afHost[h].engine.selfs \in 0..SelfLimit /\ afHost[h].next \in Nat \ {0}
  <2> DEFINE host == afHost[h]
  <2>1. host.engine \in Engines /\ host.next \in Nat \ {0}
    BY HostKnown, HostFields
  <2> HIDE DEF host
  <2>2. host.engine.s \in States /\ host.engine.selfs \in 0..SelfLimit
    BY <2>1, EngineFields
  <2>3. host.engine.s.phase \in Phases
    BY <2>2 DEF States
  <2> QED BY <2>1, <2>2, <2>3 DEF host
<1> QED BY <1>1, <1>2 DEF AfTypeOK, Phases

\* The engine stays in the phases its checkpoint knows and within its count of
\* self-qualifications; a host's version stays positive.
THEOREM AffectTypeCorrect == AfSpec => []AfTypeOK
BY AffectInvariant, AfTyped, PTL

\* A receipt of a host in two rows would be in one.
LEMMA OneRow ==
    ASSUME AfInv, NEW h \in DOMAIN afHost, NEW n
    PROVE  /\ Cardinality(RowsWith(h, n)) <= 1
           /\ (\E i \in 1..Len(afRows) : n \in RowHas(afRows[i], h)) => RowsWith(h, n) # {}
<1>1. Accounted(h) /\ DOMAIN afRows = 1..Len(afRows)
  BY DEF AfInv, HostsLaw, AfShaped
<1>2. ASSUME NEW i \in 1..Len(afRows)
      PROVE  i \in RowsWith(h, n) <=> n \in RowHas(afRows[i], h)
  <2>0. afRows[i] \in Rows
    BY DEF AfInv, AfShaped
  <2>1. afRows[i].events \in Seq(Receipts)
    BY <2>0 DEF Rows
  <2>2. DOMAIN afRows[i].events = 1..Len(afRows[i].events)
    BY <2>1
  <2> QED BY <1>1, <2>2 DEF RowsWith, RowHas, NumbersOf
<1>3. \A i, j \in RowsWith(h, n) : i = j
  <2>1. \A i, j \in 1..Len(afRows) : i # j => RowHas(afRows[i], h) \cap RowHas(afRows[j], h) = {}
    BY <1>1 DEF Accounted
  <2>2. RowsWith(h, n) \subseteq 1..Len(afRows)
    BY <1>1 DEF RowsWith
  <2> QED BY <1>2, <2>1, <2>2
<1>4. Cardinality(RowsWith(h, n)) <= 1
  <2>1. CASE RowsWith(h, n) = {}
    BY <2>1, FS_EmptySet
  <2>2. CASE RowsWith(h, n) # {}
    <3>1. PICK i : i \in RowsWith(h, n)
      BY <2>2
    <3>2. RowsWith(h, n) = {i}
      BY <3>1, <1>3
    <3> QED BY <3>2, FS_Singleton
  <2> QED BY <2>1, <2>2
<1> QED BY <1>2, <1>4

LEMMA AfGoverned == AfInv => AffectGoverned
<1> SUFFICES ASSUME AfInv, CyclesOnly PROVE AffectGoverned
  BY DEF AffectGoverned
<1>1. ASSUME NEW h \in Hosts
      PROVE  LET log == afLog[h]
                 forced == {i \in DOMAIN log : log[i].type = "event" /\ log[i].trig # "organic"}
             IN /\ \A i, j \in forced : i < j => log[j].at - log[i].at >= ForcedTicks
                /\ Cardinality({i \in forced : log[i].trig = "self"}) <= SelfLimit
  <2> DEFINE log == afLog[h]
             forced == {i \in DOMAIN log : log[i].type = "event" /\ log[i].trig # "organic"}
  <2>1. log \in Seq(Receipts) /\ Spaced(log) /\ Cardinality(SelfAt(log)) <= SelfLimit
    <3>1. CASE h \in DOMAIN afHost
      <4> DEFINE e == afHost[h].engine
      <4>1. EngineLaw(e, log, afNow)
        BY <3>1, HostKnown
      <4> HIDE DEF e, log
      <4>2. e \in Engines /\ log \in Seq(Receipts) /\ Spaced(log)
            /\ Cardinality(SelfAt(log)) <= e.selfs
        BY <4>1 DEF EngineLaw, Counted
      <4>3. e.selfs \in 0..SelfLimit /\ Cardinality(SelfAt(log)) \in Nat
        BY <4>2, EngineFields, SelfFinite
      <4>4. Cardinality(SelfAt(log)) <= SelfLimit
        BY <4>2, <4>3, AfTypes
      <4> QED BY <4>2, <4>4
    <3>2. CASE h \notin DOMAIN afHost
      <4>1. log = <<>>
        BY <3>2 DEF AfInv, UnknownLaw
      <4> HIDE DEF log
      <4>2. log \in Seq(Receipts) /\ Len(log) = 0
        BY <4>1
      <4>3. SelfAt(log) = {} /\ Spaced(log)
        BY <4>2 DEF SelfAt, Spaced
      <4>4. Cardinality(SelfAt(log)) = 0
        BY <4>3, FS_EmptySet
      <4> QED BY <4>2, <4>3, <4>4, AfTypes
    <3> QED BY <3>1, <3>2
  <2> HIDE DEF log
  <2>2. DOMAIN log = 1..Len(log)
    BY <2>1
  <2>3. \A i : i \in forced <=> i \in 1..Len(log) /\ ForcedAt(log, i)
    BY <2>2 DEF ForcedAt
  <2>4. {i \in forced : log[i].trig = "self"} = SelfAt(log)
    BY <2>2, <2>3 DEF SelfAt
  <2>5. \A i, j \in forced : i < j => log[j].at - log[i].at >= ForcedTicks
    BY <2>1, <2>3 DEF Spaced
  <2> QED BY <2>1, <2>4, <2>5 DEF log
<1>2. ASSUME NEW h \in DOMAIN afHost, NEW i \in DOMAIN afLog[h], afLog[h][i].n > afHost[h].base
      PROVE  /\ Cardinality(RowsWith(h, afLog[h][i].n)) <= 1
             /\ AtRest(h) => RowsWith(h, afLog[h][i].n) # {}
  <2> DEFINE n == afLog[h][i].n
             host == afHost[h]
             log == afLog[h]
  <2>1. Cardinality(RowsWith(h, n)) <= 1
    BY OneRow
  <2>2. ASSUME AtRest(h) PROVE RowsWith(h, n) # {}
    <3>1. EngineLaw(host.engine, log, afNow) /\ host \in HostRecords /\ log \in Seq(Receipts)
      BY HostKnown
    <3>2. ~host.uncertain /\ host.engine.pending = <<>>
      BY <2>2 DEF AtRest
    <3>3. \A t \in AfThreads : TurnHas(afTurn[t], h) = {}
      BY <2>2 DEF AtRest, TurnHas
    <3>4. Accounted(h)
      BY DEF AfInv, HostsLaw
    <3>5. n \in Drained(host)
      <4> HIDE DEF host, log
      <4>1. Len(log) = host.engine.emitted /\ Numbered(log) /\ host.engine.emitted \in Nat
            /\ host.base \in Nat
        BY <3>1, HostFields, EngineFields DEF EngineLaw
      <4>2. i \in 1..Len(log) /\ n = i
        <5>1. i \in 1..Len(log)
          BY <3>1 DEF log
        <5>2. log[i].n = i
          BY <5>1, <4>1 DEF Numbered
        <5> QED BY <5>1, <5>2 DEF log
      <4>3. Len(host.engine.pending) = 0
        BY <3>2
      <4>4. n > host.base
        BY <1>2 DEF host
      <4> HIDE DEF n
      <4> QED BY <4>1, <4>2, <4>3, <4>4 DEF Drained
    <3>6. \E j \in 1..Len(afRows) : n \in RowHas(afRows[j], h)
      BY <3>2, <3>3, <3>4, <3>5 DEF Accounted
    <3> QED BY <3>6, OneRow
  <2> QED BY <2>1, <2>2
<1>3. ASSUME NEW i \in DOMAIN afRows
      PROVE  LET events == afRows[i].events IN
             /\ \A j \in DOMAIN events : events[j].via = "cycle" => events[j].unrooted
             /\ events # <<>> => afRows[i].last.n = events[Len(events)].n
  <2> DEFINE row == afRows[i]
  <2>1. RowLaw(row, afLog["first"])
    BY DEF AfInv, AfShaped, RowsLaw
  <2> HIDE DEF row
  <2>2. row.events \in Seq(Receipts) /\ AllTrusted(row.events) /\ LastOf(row.last, row.events)
    BY <2>1 DEF RowLaw, Rows
  <2>3. DOMAIN row.events = 1..Len(row.events)
    BY <2>2
  <2>4. \A j \in DOMAIN row.events : row.events[j].via = "cycle" => row.events[j].unrooted
    BY <2>2, <2>3 DEF AllTrusted, Trusted
  <2> QED BY <2>2, <2>4 DEF LastOf, row
<1>4. \A i, j \in DOMAIN afApplied :
         i < j /\ afApplied[i].host = afApplied[j].host => afApplied[i].signal # afApplied[j].signal
  BY DEF AfInv, SignalsLaw
<1> QED BY <1>1, <1>2, <1>3, <1>4 DEF AffectGoverned

\* The governance of the affective runtime: forced tests keep their interval
\* and their limit across a restore, a receipt is committed in exactly one row
\* unless a commit is in doubt, the rows say what authority was unrooted, and
\* no signal is applied to planning twice.
THEOREM AffectIsGoverned == AfSpec => []AffectGoverned
BY AffectInvariant, AfGoverned, PTL
=============================================================================
