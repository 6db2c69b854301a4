------------------------------- MODULE Rezon -------------------------------
(***************************************************************************)
(* The reasoning episode of rezon and the runs that work on it.  An        *)
(* Episode holds propositions and relations; what is retracted takes with  *)
(* it everything that cites it.  An EpisodeRunner schedules its nodes one  *)
(* by one, shows each a view of the episode, lets it execute under the     *)
(* episode's lock and admits what it emits.  Between those steps the lock  *)
(* is free: other threads add, retract, and run on the same episode.       *)
(*                                                                         *)
(* The digest of a snapshot is modelled by its number of events: events    *)
(* are only appended, and what is rolled back is rolled back under the     *)
(* lock.  Source versions are folded into the references they belong to,   *)
(* contents are left out, and the one fact kept of a confidence is whether *)
(* it reaches 0.8.                                                         *)
(***************************************************************************)
EXTENDS Naturals, Sequences, FiniteSetsExt, SequencesExt

CONSTANTS
  Runs,         \* the runs in progress on the episode
  RunNodes,     \* the nodes of a run, in the order they were given
  RunBudget,    \* the budget a run was given
  RunContext,   \* whether the task envelope of a run carries context refs
  Given,        \* the objects callers add themselves
  MaxObjects    \* how many objects the episode may come to hold

\* DeterministicScheduler.next ends a run whose nodes share an identity before
\* it schedules any of them; a budget is a count.
ASSUME RezonAssumption ==
  /\ MaxObjects \in Nat
  /\ \A r \in Runs :
       /\ RunBudget[r] \in Nat
       /\ Len(RunNodes[r]) \in Nat /\ DOMAIN RunNodes[r] = 1 .. Len(RunNodes[r])
       /\ \A i \in DOMAIN RunNodes[r] :
            /\ RunNodes[r][i].mandatory \in BOOLEAN
            /\ RunNodes[r][i].authority \in BOOLEAN
       /\ \A i, j \in DOMAIN RunNodes[r] : RunNodes[r][i].id = RunNodes[r][j].id => i = j

VARIABLES
  known,        \* every object the episode has ever held, by identity
  active,       \* the identities that are current
  version,      \* the number of events recorded
  run,          \* the progress of each run
  outdated      \* history: objects admitted after their view had changed

rezonVars == <<known, active, version, run, outdated>>

NoObject == <<>>
Relation(o) == o.kind = "contradicts"
Current == {known[i] : i \in active}
Ids(objects) == {o.id : o \in objects}
Cited(objects) == UNION {o.srcs : o \in objects}

(***************************************************************************)
(* The episode                                                             *)
(***************************************************************************)
Cites(o, refs) == (o.srcs \cup o.parts) \cap refs # {}

\* One level of the cascade only: what cites the retracted object itself.
Invalidated_Direct(id) == {id} \cup {x \in active : Cites(known[x], {id})}

\* The passes of retract_proposition end with the least set that holds the
\* retracted object and everything current that cites a member of it.
Invalidated(id) ==
  LET closed == {s \in SUBSET active :
                   id \in s /\ \A x \in active : Cites(known[x], s) => x \in s}
  IN  {x \in active : \A s \in closed : x \in s}

InactiveSources(o) == o.srcs \cap (DOMAIN known \ active)

\* add_proposition and add_relation accept the object: an identity is never
\* reused for other content and never reactivated.
Addable(o) ==
  /\ InactiveSources(o) = {}
  /\ o.parts \subseteq active
  /\ o.id \in DOMAIN known => known[o.id] = o /\ o.id \in active

WithObjects(objects) ==
  [i \in DOMAIN known \cup Ids(objects) |->
     IF i \in DOMAIN known THEN known[i] ELSE CHOOSE o \in objects : o.id = i]

AddObjects(objects) ==
  /\ known' = WithObjects(objects)
  /\ active' = active \cup Ids(objects)
  /\ version' = version + Cardinality(Ids(objects) \ DOMAIN known)
  /\ Cardinality(DOMAIN known') <= MaxObjects

\* A caller adds an object of its own; what is already there changes nothing.
AddGiven(o) ==
  /\ o.id \notin DOMAIN known
  /\ Addable(o)
  /\ AddObjects({o})
  /\ UNCHANGED <<run, outdated>>

\* A caller retracts a current proposition, with everything resting on it.
RetractProposition(id) ==
  /\ id \in active /\ ~Relation(known[id])
  /\ LET gone == Invalidated(id)
     IN  active' = active \ gone /\ version' = version + Cardinality(gone)
  /\ UNCHANGED <<known, run, outdated>>

(***************************************************************************)
(* The scheduler                                                           *)
(***************************************************************************)
Nodes(r) == ToSet(RunNodes[r])
Pending(r) == {n \in Nodes(r) : n.id \notin run[r].completed}
Named(nodes, id) == {n \in nodes : n.id = id}

Targets(kind) == {o.id : o \in {c \in Current : c.kind = kind}}
StrongHypotheses ==
  {o.id : o \in {c \in Current : c.kind = "hypothesis" /\ c.strong}}

\* The first pending mandatory verifier, and only when there is none the
\* rules in their order: contradictions, hypotheses to make, one to falsify.
Verifiers(r) ==
  LET nodes == RunNodes[r]
  IN  {i \in DOMAIN nodes : nodes[i].mandatory /\ nodes[i].id \notin run[r].completed}

Scans(nodes) ==
  [node : Named(nodes, "contradiction_scanner"), target : Targets("contradicts")]
Generates(nodes) ==
  [node : {n \in Named(nodes, "echo_hypothesis") :
             n.independent \/ Targets("hypothesis") = {}},
   target : {NoObject}]
Falsifies(nodes) == [node : Named(nodes, "falsifier"), target : StrongHypotheses]

Applicable(r) ==
  LET nodes == Pending(r)
  IN  IF Verifiers(r) # {}
      THEN [node : {RunNodes[r][Min(Verifiers(r))]}, target : {NoObject}]
      ELSE IF Scans(nodes) # {} THEN Scans(nodes)
      ELSE IF Generates(nodes) # {} THEN Generates(nodes)
      ELSE Falsifies(nodes)

(***************************************************************************)
(* A run                                                                   *)
(***************************************************************************)
Idle == [pc |-> "ready", completed |-> {}, used |-> 0, records |-> 0,
         failed |-> FALSE, prior |-> {}]

\* The run goes on to its next node, or ends, with node n dealt with.
Failing(r, n, ends) ==
  [pc |-> IF ends THEN "done" ELSE "ready", completed |-> run[r].completed \cup {n.id},
   used |-> run[r].used + 1, records |-> run[r].records + 1,
   failed |-> TRUE, prior |-> run[r].prior]

Ended(r, failed) ==
  [pc |-> "done", completed |-> run[r].completed, used |-> run[r].used,
   records |-> run[r].records, failed |-> run[r].failed \/ failed, prior |-> run[r].prior]

\* Node n is dealt with at no cost and without a trace record.
Skipped(r, n) ==
  [pc |-> IF n.mandatory THEN "done" ELSE "ready", completed |-> run[r].completed \cup {n.id},
   used |-> run[r].used, records |-> run[r].records, failed |-> TRUE, prior |-> run[r].prior]

\* No rule applies, or one does and the budget is spent.
Terminate(r) ==
  /\ run[r].pc = "ready"
  /\ Applicable(r) = {} \/ run[r].used >= RunBudget[r]
  /\ run' = [run EXCEPT ![r] = Ended(r, Applicable(r) # {})]
  /\ UNCHANGED <<known, active, version, outdated>>

Dispatched(r) == IF run[r].used < RunBudget[r] THEN Applicable(r) ELSE {}

\* Nothing in the kernel can grant the authority a node asks for: the run
\* ends.  A node without an executor fails the run and, when its
\* verification is mandatory, ends it.
Unexecutable(r) ==
  /\ run[r].pc = "ready"
  /\ \E d \in Dispatched(r) :
    /\ d.node.authority \/ d.node.executor = "none"
    /\ run' = [run EXCEPT ![r] =
                 IF d.node.authority THEN Ended(r, TRUE) ELSE Skipped(r, d.node)]
    /\ UNCHANGED <<known, active, version, outdated>>

Schedule(r) ==
  /\ run[r].pc = "ready"
  /\ \E d \in Dispatched(r) :
    /\ ~d.node.authority /\ d.node.executor # "none"
    /\ run' = [run EXCEPT ![r] = [pc |-> "scheduled", node |-> d.node, target |-> d.target,
                                  completed |-> @.completed, used |-> @.used,
                                  records |-> @.records, failed |-> @.failed,
                                  prior |-> @.prior]]
    /\ UNCHANGED <<known, active, version, outdated>>

\* build_execution_view: current propositions the policy shows, and the
\* relations between them.
View(n) ==
  LET shown == {o \in Current : ~Relation(o) /\ o.kind \notin n.blinded}
  IN  shown \cup {o \in Current : Relation(o) /\ o.parts \subseteq Ids(shown)}

Viewed(r) == {known[i] : i \in run[r].view}

EvidenceOf(view) ==
  LET evidence == {o \in view : o.kind = "evidence"}
  IN  Ids(evidence) \cup Cited(evidence)

\* The claim of an independent node is verified against its view: the
\* evidence it attests is the evidence it is shown, earlier independent
\* nodes consumed other evidence, and neither a worker's output nor a proposition
\* of a kind blinded by default is in sight.
Independent(r, n, view) ==
  /\ n.attested = EvidenceOf(view)
  /\ \A p \in run[r].prior : p.attested \cap n.attested = {} /\ p.lineage # n.lineage
  /\ \A o \in view : o.by = NoObject /\ o.kind \notin {"hypothesis", "claim", "decision"}

\* The checks between taking the snapshot and executing on it.
Refusal(r, n, view) ==
  CASE run[r].target # NoObject /\ run[r].target \notin Ids(view) -> "target"
    [] n.accepts # {} /\ \E o \in view : ~Relation(o) /\ o.kind \notin n.accepts -> "input"
    [] n.independent /\ RunContext[r] -> "context"
    [] n.independent /\ ~n.claimed -> "claim"
    [] n.independent /\ ~Independent(r, n, view) -> "independence"
    [] OTHER -> "none"

\* A refused node ends the run; only the first two refusals charge it and
\* count it as completed, and an incomplete claim leaves no trace record.
TakeView(r) ==
  LET n == run[r].node
      view == View(n)
      refusal == Refusal(r, n, view)
  IN  /\ run[r].pc = "scheduled"
      /\ run' = [run EXCEPT ![r] =
           CASE refusal = "none" ->
                  [pc |-> "viewed", node |-> n, target |-> @.target, snap |-> version,
                   view |-> Ids(view), completed |-> @.completed, used |-> @.used,
                   records |-> @.records, failed |-> @.failed, prior |-> @.prior]
             [] refusal \in {"target", "input"} -> Failing(r, n, TRUE)
             [] OTHER ->
                  [pc |-> "done", completed |-> @.completed, used |-> @.used,
                   records |-> @.records + (IF refusal = "claim" THEN 0 ELSE 1),
                   failed |-> TRUE, prior |-> @.prior]]
      /\ UNCHANGED <<known, active, version, outdated>>

(***************************************************************************)
(* Executors.  The three of executors.py are given by their definitions;   *)
(* a verifier is the caller's and may report anything.                     *)
(***************************************************************************)
Object(r, n, kind, srcs) ==
  [id |-> <<r, run[r].records + 1, n.id>>, kind |-> kind, strong |-> FALSE, srcs |-> srcs,
   parts |-> {}, by |-> <<r, n.id, run[r].snap>>]

Emits(objects) == [emitted |-> objects, status |-> "unset", targets |-> {}, failures |-> FALSE]

EchoResults(r, n, view) ==
  LET seen == {o \in view : o.kind = "evidence"}
  IN  IF seen = {} THEN {Emits({})}
      ELSE {Emits({Object(r, n, "hypothesis", {o.id})}) : o \in seen}

ScannerResults(r, n, view) ==
  LET seen == {o \in view : Relation(o)}
  IN  IF seen = {} THEN {Emits({})}
      ELSE {Emits({Object(r, n, "test_result", {o.id})}) : o \in seen}

FalsifierResults(r, n, view) ==
  LET against == {p \in view \X view :
                    /\ Relation(p[1]) /\ {run[r].target, p[2].id} \subseteq p[1].parts
                    /\ p[2].id # run[r].target /\ p[2].kind = "test_result"}
  IN  IF against = {} THEN {Emits({})}
      ELSE {Emits({Object(r, n, "claim", {p[1].id, p[2].id})}) : p \in against}

VerifierResults(r, n, view) ==
  LET tests == {Object(r, n, "test_result", refs) :
                  refs \in {{}, n.targets, n.targets \cup {<<"unseen">>}}}
      passed == [emitted : {{}} \cup {{t} : t \in tests}, status : {"passed"},
                 targets : {n.targets}, failures : {FALSE}]
      sound == [emitted |-> {Object(r, n, "test_result", n.targets)}, status |-> "passed",
                targets |-> n.targets, failures |-> FALSE]
  IN  passed \cup {[sound EXCEPT !.status = "failed"], [sound EXCEPT !.targets = {}],
                   [sound EXCEPT !.failures = TRUE]}

Results(r, n, view) ==
  CASE n.executor = "echo" -> EchoResults(r, n, view)
    [] n.executor = "scanner" -> ScannerResults(r, n, view)
    [] n.executor = "falsifier" -> FalsifierResults(r, n, view)
    [] OTHER -> VerifierResults(r, n, view)

Executed(r, result) ==
  [pc |-> "executed", node |-> run[r].node, target |-> run[r].target, snap |-> run[r].snap,
   view |-> run[r].view, result |-> result, completed |-> run[r].completed,
   used |-> run[r].used, records |-> run[r].records, failed |-> run[r].failed,
   prior |-> run[r].prior]

\* Execution holds the lock.  Whatever the executor did to the episode is
\* rolled back, and a difference from the snapshot fails the node whoever
\* made it.
Execute(r) ==
  /\ run[r].pc = "viewed" /\ version = run[r].snap
  /\ \E result \in Results(r, run[r].node, Viewed(r)) :
       run' = [run EXCEPT ![r] = Executed(r, result)]
  /\ UNCHANGED <<known, active, version, outdated>>

\* The executor raises, returns an invalid result or changes the episode,
\* or the episode changed before the lock was taken.
ExecuteFails(r) ==
  /\ run[r].pc = "viewed"
  /\ version # run[r].snap \/ run[r].node.executor = "verifier"
  /\ run' = [run EXCEPT ![r] = Failing(r, run[r].node, run[r].node.mandatory)]
  /\ UNCHANGED <<known, active, version, outdated>>

(***************************************************************************)
(* Admission                                                               *)
(***************************************************************************)
\* A test result is taken for a verification whatever it cites.
Verifies_AnyResult(n, result, view) ==
  /\ result.status = "passed" /\ result.targets = n.targets
  /\ \E o \in result.emitted : o.kind = "test_result"

\* A mandatory verification counts when it passed on exactly its targets,
\* all of them in view, and emits a test result citing every one.
Verifies(n, result, view) ==
  /\ result.status = "passed" /\ result.targets = n.targets
  /\ n.targets \subseteq Ids(view)
  /\ \E o \in result.emitted : o.kind = "test_result" /\ n.targets \subseteq o.srcs

Governed(view) == Ids(view) \cup Cited(view)

\* The output cites only what the view governs, and every identity is new.
Lawful(r, result) ==
  \A o \in result.emitted :
    /\ o.kind \in run[r].node.permits \ {"evidence"}
    /\ o.srcs \subseteq Governed(Viewed(r))
    /\ Addable(o)

\* Admission does not compare the episode with the one the view was cut from.
Unchanged_Assumed(r) == TRUE

\* canonical episode state did not change after the view was captured
Unchanged(r) == version = run[r].snap

Accepted(r, result) ==
  /\ ~result.failures
  /\ run[r].node.mandatory => Verifies(run[r].node, result, Viewed(r))
  /\ Unchanged(r)
  /\ Lawful(r, result)

Advanced(r, failed, prior) ==
  [pc |-> "ready", completed |-> run[r].completed \cup {run[r].node.id},
   used |-> run[r].used + 1, records |-> run[r].records + 1,
   failed |-> run[r].failed \/ failed, prior |-> run[r].prior \cup prior]

Admit(r) ==
  /\ run[r].pc = "executed" /\ Accepted(r, run[r].result)
  /\ AddObjects(run[r].result.emitted)
  /\ run' = [run EXCEPT ![r] =
       Advanced(r, FALSE, IF run[r].node.independent THEN {run[r].node} ELSE {})]
  /\ outdated' = outdated \cup
       (IF run[r].view \subseteq active THEN {} ELSE Ids(run[r].result.emitted))

\* Nothing is admitted, the failure is recorded, and the run goes on even
\* when a mandatory verification failed.
Reject(r) ==
  /\ run[r].pc = "executed" /\ ~Accepted(r, run[r].result)
  /\ run' = [run EXCEPT ![r] = Advanced(r, TRUE, {})]
  /\ UNCHANGED <<known, active, version, outdated>>

RezonInit ==
  /\ known = [i \in {} |-> NoObject] /\ active = {} /\ version = 0
  /\ run = [r \in Runs |-> Idle]
  /\ outdated = {}

RezonNext ==
  \/ \E o \in Given : AddGiven(o)
  \/ \E id \in active : RetractProposition(id)
  \/ \E r \in Runs :
       \/ Terminate(r)
       \/ Unexecutable(r)
       \/ Schedule(r)
       \/ TakeView(r)
       \/ Execute(r)
       \/ ExecuteFails(r)
       \/ Admit(r)
       \/ Reject(r)

RezonSpec == RezonInit /\ [][RezonNext]_rezonVars

(***************************************************************************)
(* Properties                                                              *)
(***************************************************************************)
RezonTypeOK ==
  /\ active \subseteq DOMAIN known
  /\ \A i \in DOMAIN known : known[i].id = i
  /\ version \in 0 .. 2 * MaxObjects
  /\ outdated \subseteq DOMAIN known
  /\ \A r \in Runs : /\ run[r].pc \in {"ready", "scheduled", "viewed", "executed", "done"}
                     /\ run[r].used <= RunBudget[r]

\* Whatever is current rests only on what is current: through retractions and
\* their cascades (retract_proposition), additions by callers and admissions
\* of concurrent runs, no current object cites a canonical object that is not
\* current, and no worker's output was admitted after something it had been
\* shown was retracted (admit_execution_result).
EpisodeCurrent ==
  /\ \A i \in active : /\ known[i].srcs \cap DOMAIN known \subseteq active
                       /\ known[i].parts \subseteq active
  /\ outdated = {}

\* A receipt without failures is earned: when a run ends and reports none,
\* every mandatory verifier it was given executed and put a test result
\* citing all its targets into the episode (EpisodeRunner.run).
VerificationEarned ==
  \A r \in Runs : run[r].pc = "done" /\ ~run[r].failed =>
    \A n \in Nodes(r) : n.mandatory =>
      \E i \in DOMAIN known : /\ known[i].kind = "test_result"
                              /\ known[i].by # NoObject
                              /\ known[i].by[1] = r /\ known[i].by[2] = n.id
                              /\ n.targets \subseteq known[i].srcs

(***************************************************************************)
(* An episode stays sound under concurrent runs: it is current throughout, *)
(* and a receipt without failures was earned (episode.py, admission.py,    *)
(* runner.py).                                                             *)
(***************************************************************************)
EpisodeSound == EpisodeCurrent /\ VerificationEarned
=============================================================================
