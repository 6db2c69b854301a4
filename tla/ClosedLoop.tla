----------------------------- MODULE ClosedLoop -----------------------------
(***************************************************************************)
(* The closed loop of vera_core (agi_closed_loop.py) and the stores it     *)
(* composes: the dispatch gate (durable_dispatch_gate.py), the corrective  *)
(* learning ledger (corrective_learning.py), the learned-influence gate of *)
(* vera_memory (learned_influence.py) and the semantic store of            *)
(* vera_identity (semantic_knowledge.py).                                  *)
(*                                                                         *)
(* Runners of the same or of different tasks share the four SQLite files;  *)
(* a run goes from one to the next, acts in between, and may raise or die  *)
(* at any step.  A statement outside a transaction is a step of its own.   *)
(* Each caller passes the gate the time it believes it is.                 *)
(***************************************************************************)
EXTENDS Naturals, FiniteSets, Sequences, FiniteSetsExt

CONSTANTS Runners, Reviewers,
          Works,         \* task ids; also the gate's work ids and the correction ids
          LearnedRevs,   \* memory revisions of the one learned association
          CueEvents, EvidenceIds,
          EntrySets,     \* sets of entry points that may be in use together
          GateBudget,    \* [active, retries, backend]: the initial budgets
          ClMaxTime      \* bound on the callers' clocks

ASSUME ClosedLoopAssumption ==
    /\ GateBudget \in [active : Nat, retries : Nat, backend : Nat]
    /\ ClMaxTime \in Nat
    /\ IsFiniteSet(Works) /\ IsFiniteSet(Runners)

VARIABLES budget,     \* dispatch_budgets: [active, retries, backend, generation]
          lease,      \* lease[w]: dispatch_leases row; token 0 without one
          completed,  \* completed[w]: tokens for which complete() returned true
          acts,       \* acts performed under an admission
          cycle,      \* cycle[w]: stages recorded for correction w
          review,     \* learned_reviews row with the evidence bound to it
          cueUses,    \* cueUses[v][c]: receipts that consume() returned
          evUses,     \* evUses[v][i]: the same, by later-use evidence
          consumed,   \* learned_consumptions and learned_use_evidence
          meaning,    \* semantic_objects: content of the one object, "none" without
          entries,    \* the entry points this installation uses; it never changes
          runner,     \* runner[r]: the run r is in the middle of
          reviewer    \* reviewer[q]: [w, stage] read by an advance()

gateVars == <<budget, lease, completed, acts>>
learnVars == <<review, cueUses, evUses, consumed>>
clVars == <<gateVars, cycle, learnVars, meaning, entries, runner, reviewer>>

Times == 0..ClMaxTime
Modes == {"plain", "bounded", "learning", "host"}   \* and "review": reviewers advance corrections
Meanings == {"m1", "m2"}

IdleRun == [mode |-> "plain", step |-> "idle", w |-> "none", token |-> 0, now |-> 0,
            ok |-> TRUE, seen |-> FALSE]

Goes(r, step) ==
    runner' = [runner EXCEPT ![r] = IF step = "idle" THEN IdleRun ELSE [@ EXCEPT !.step = step]]
Ends(r) == runner' = [runner EXCEPT ![r] = IdleRun]

----------------------------------------------------------------------------
(* The dispatch gate.                                                      *)

\* Mutation: a reclaimed lease is not charged to the budget again.
Charged_First(w, retry) ==
    IF lease[w].token > 0 THEN budget
    ELSE [active |-> budget.active - 1, backend |-> budget.backend - 1,
          retries |-> budget.retries - (IF retry THEN 1 ELSE 0),
          generation |-> budget.generation + 1]

Charged(w, retry) ==
    [active |-> budget.active - 1, backend |-> budget.backend - 1,
     retries |-> budget.retries - (IF retry THEN 1 ELSE 0),
     generation |-> budget.generation + 1]

Admissible(w, now, retry) ==
    /\ budget.active > 0 /\ budget.backend > 0 /\ (retry => budget.retries > 0)
    /\ lease[w].token > 0 => ~lease[w].completed /\ now >= lease[w].expires

\* claim, one transaction; the caller knows the budget's generation or raises.
GateClaim(r, now, retry) ==
    LET w == runner[r].w IN
    /\ runner[r].step = "claim"
    /\ IF Admissible(w, now, retry)
       THEN /\ lease' = [lease EXCEPT ![w] = [holder |-> r, token |-> @.token + 1,
                                              expires |-> now + 1, completed |-> FALSE]]
            /\ budget' = Charged(w, retry)
            /\ runner' = [runner EXCEPT ![r].step = "act", ![r].now = now,
                                        ![r].token = lease[w].token + 1]
       ELSE Ends(r) /\ UNCHANGED <<lease, budget>>
    /\ UNCHANGED <<completed, acts, cycle, learnVars, meaning, reviewer, entries>>

Holds(r) == lease[runner[r].w].holder = r /\ lease[runner[r].w].token = runner[r].token

\* After the gate: a failure is to be flagged.
AfterGate(r) ==
    Goes(r, IF runner[r].mode = "host" \/ runner[r].ok THEN "idle" ELSE "start")

\* complete, first statement: is the lease still the admission's?  run_bounded
\* passes the time it claimed at.
CompleteCheck(r, now) ==
    LET row == lease[runner[r].w] IN
    /\ runner[r].step = "check"
    /\ runner[r].mode = "bounded" => now = runner[r].now
    /\ IF ~row.completed /\ Holds(r) /\ now < row.expires THEN Goes(r, "update") ELSE AfterGate(r)
    /\ UNCHANGED <<gateVars, cycle, learnVars, meaning, reviewer, entries>>

\* Mutation: the second statement relies on what the first one saw.
UpdateMatches_Work(r) == ~lease[runner[r].w].completed

UpdateMatches(r) == ~lease[runner[r].w].completed /\ Holds(r)

\* complete, second statement: the update, in a transaction of its own.
CompleteUpdate(r) ==
    LET w == runner[r].w IN
    /\ runner[r].step = "update"
    /\ IF UpdateMatches(r)
       THEN /\ lease' = [lease EXCEPT ![w].completed = TRUE]
            /\ completed' = [completed EXCEPT ![w] = Append(@, runner[r].token)]
       ELSE UNCHANGED <<lease, completed>>
    /\ AfterGate(r)
    /\ UNCHANGED <<budget, acts, cycle, learnVars, meaning, reviewer, entries>>

----------------------------------------------------------------------------
(* The learned-influence gate.                                             *)

NoReview == [rev |-> "none", admitted |-> FALSE, bound |-> {}]

\* Mutation: a new review starts with a clean slate.
ReviewLearning_Reset(v, admitted, bound) ==
    /\ "learning" \in entries
    /\ Cardinality(bound) # 1
    /\ review' = [rev |-> v, admitted |-> admitted, bound |-> bound]
    /\ consumed' = {}
    /\ UNCHANGED <<gateVars, cycle, cueUses, evUses, meaning, runner, reviewer, entries>>

\* review (nothing bound) and review_qualified (calibration and qualification
\* evidence, disjoint, so two ids at least): the latest review replaces the last.
ReviewLearning(v, admitted, bound) ==
    /\ "learning" \in entries
    /\ Cardinality(bound) # 1
    /\ review' = [rev |-> v, admitted |-> admitted, bound |-> bound]
    /\ UNCHANGED <<gateVars, cycle, cueUses, evUses, consumed, meaning, runner, reviewer, entries>>

\* consume admits v for this cue, with use evidence i or none.
Consumable(v, c, i) ==
    /\ review.rev = v /\ review.admitted
    /\ IF review.bound # {}
       THEN i # "none" /\ i \notin review.bound /\ <<v, i>> \notin consumed
       ELSE i = "none"
    /\ <<v, c>> \notin consumed

ConsumeInfluence(r, v, c, i) ==
    /\ runner[r].step = "consume"
    /\ IF Consumable(v, c, i)
       THEN /\ consumed' = consumed \cup {<<v, c>>} \cup (IF i = "none" THEN {} ELSE {<<v, i>>})
            /\ cueUses' = [cueUses EXCEPT ![v][c] = @ + 1]
            /\ evUses' = IF i = "none" THEN evUses ELSE [evUses EXCEPT ![v][i] = @ + 1]
            /\ Goes(r, "admit")
       ELSE Ends(r) /\ UNCHANGED <<consumed, cueUses, evUses>>
    /\ UNCHANGED <<gateVars, cycle, review, meaning, reviewer, entries>>

----------------------------------------------------------------------------
(* The corrective ledger.                                                  *)

CorrectiveStages == 6     \* FLAG, UNDERSTAND, CALIBRATE, KNOW, UNLEARN, PREVENT

\* start raises when the correction exists; a run that gets here has acted.
CorrectionStart(r) ==
    LET w == runner[r].w IN
    /\ runner[r].step = "start"
    /\ cycle' = IF cycle[w] = <<>> THEN [cycle EXCEPT ![w] = <<1>>] ELSE cycle
    /\ Ends(r)
    /\ UNCHANGED <<gateVars, learnVars, meaning, reviewer, entries>>

\* advance reads the state in one connection ...
AdvanceRead(q, w) ==
    /\ "review" \in entries
    /\ reviewer[q].stage = 0
    /\ Len(cycle[w]) \in 1..(CorrectiveStages - 1)
    /\ reviewer' = [reviewer EXCEPT ![q] = [w |-> w, stage |-> Len(cycle[w]) + 1]]
    /\ UNCHANGED <<gateVars, cycle, learnVars, meaning, runner, entries>>

\* Mutation: the table has no UNIQUE (correction_id, stage).
Insertable_Any(w, stage) == cycle[w] # <<>>

\* The table's UNIQUE (correction_id, stage).
Insertable(w, stage) == cycle[w] # <<>> /\ \A n \in 1..Len(cycle[w]) : cycle[w][n] # stage

\* ... and appends in another.
AdvanceAppend(q) ==
    LET w == reviewer[q].w IN
    /\ reviewer[q].stage > 0
    /\ cycle' = IF Insertable(w, reviewer[q].stage)
                THEN [cycle EXCEPT ![w] = Append(@, reviewer[q].stage)] ELSE cycle
    /\ reviewer' = [reviewer EXCEPT ![q] = [w |-> w, stage |-> 0]]
    /\ UNCHANGED <<gateVars, learnVars, meaning, runner, entries>>

----------------------------------------------------------------------------
(* The runs.                                                               *)

\* A host drives the gate itself.
RunBegins(r, mode, w) ==
    /\ mode \in entries
    /\ runner[r].step = "idle"
    /\ runner' = [runner EXCEPT ![r] = [IdleRun EXCEPT
           !.mode = mode, !.w = w,
           !.step = CASE mode = "learning" -> "consume" [] mode = "host" -> "claim" [] OTHER -> "admit"]]
    /\ UNCHANGED <<gateVars, cycle, learnVars, meaning, reviewer, entries>>

\* SemanticKnowledgeStore.admit: SELECT, then INSERT outside a transaction; a
\* conflict, or another's insert in between, raises.
AdmitRead(r, m) ==
    /\ runner[r].step = "admit"
    /\ IF meaning \in {"none", m} THEN runner' = [runner EXCEPT ![r].step = m,
                                                                ![r].seen = (meaning = m)]
       ELSE Ends(r)
    /\ UNCHANGED <<gateVars, cycle, learnVars, meaning, reviewer, entries>>

AdmitInsert(r, m) ==
    /\ runner[r].step = m
    /\ IF runner[r].seen \/ meaning = "none"
       THEN meaning' = m /\ Goes(r, IF runner[r].mode = "bounded" THEN "claim" ELSE "act")
       ELSE Ends(r) /\ UNCHANGED meaning
    /\ UNCHANGED <<gateVars, cycle, learnVars, reviewer, entries>>

\* Reasoning and act(); reasoning that does not resolve is a run that ends.
Act(r, ok) ==
    LET gated == runner[r].mode \in {"bounded", "host"}
        next == CASE gated -> "check"
                  [] ~gated /\ ok -> "idle"
                  [] runner[r].mode = "learning" /\ ~ok -> "state"
                  [] OTHER -> "start"
    IN
    /\ runner[r].step = "act"
    /\ runner' = [runner EXCEPT ![r] = IF next = "idle" THEN IdleRun
                                       ELSE [@ EXCEPT !.ok = ok, !.step = next]]
    /\ acts' = IF gated THEN acts + 1 ELSE acts
    /\ UNCHANGED <<budget, lease, completed, cycle, learnVars, meaning, reviewer, entries>>

\* run_with_learning looks for a correction before it decides to start one.
CorrectionState(r) ==
    /\ runner[r].step = "state"
    /\ Goes(r, IF cycle[runner[r].w] # <<>> THEN "idle" ELSE "start")
    /\ UNCHANGED <<gateVars, cycle, learnVars, meaning, reviewer, entries>>

RunnerDies(r) ==
    /\ runner[r].step # "idle"
    /\ Ends(r)
    /\ UNCHANGED <<gateVars, cycle, learnVars, meaning, reviewer, entries>>

ClInit ==
    /\ budget = [active |-> GateBudget.active, retries |-> GateBudget.retries,
                 backend |-> GateBudget.backend, generation |-> 0]
    /\ lease = [w \in Works |-> [holder |-> "none", token |-> 0, expires |-> 0, completed |-> FALSE]]
    /\ completed = [w \in Works |-> <<>>]
    /\ acts = 0
    /\ cycle = [w \in Works |-> <<>>]
    /\ review = NoReview
    /\ cueUses = [v \in LearnedRevs |-> [c \in CueEvents |-> 0]]
    /\ evUses = [v \in LearnedRevs |-> [i \in EvidenceIds |-> 0]]
    /\ consumed = {}
    /\ meaning = "none"
    /\ entries \in EntrySets
    /\ runner = [r \in Runners |-> IdleRun]
    /\ reviewer = [q \in Reviewers |-> [w |-> "none", stage |-> 0]]

ClNext ==
    \/ \E r \in Runners :
           \/ \E mode \in Modes, w \in Works : RunBegins(r, mode, w)
           \/ \E m \in Meanings : AdmitRead(r, m) \/ AdmitInsert(r, m)
           \/ \E now \in Times, retry \in BOOLEAN : GateClaim(r, now, retry)
           \/ \E ok \in BOOLEAN : Act(r, ok)
           \/ \E now \in Times : CompleteCheck(r, now)
           \/ CompleteUpdate(r) \/ CorrectionState(r) \/ CorrectionStart(r) \/ RunnerDies(r)
           \/ \E v \in LearnedRevs, c \in CueEvents, i \in EvidenceIds \cup {"none"} :
                  ConsumeInfluence(r, v, c, i)
    \/ \E v \in LearnedRevs, admitted \in BOOLEAN, bound \in SUBSET EvidenceIds :
           ReviewLearning(v, admitted, bound)
    \/ \E q \in Reviewers : AdvanceAppend(q) \/ \E w \in Works : AdvanceRead(q, w)

ClSpec == ClInit /\ [][ClNext]_clVars

----------------------------------------------------------------------------
ClTypeOK ==
    /\ budget \in [active : Nat, retries : Nat, backend : Nat, generation : Nat]
    /\ \A w \in Works : lease[w].token \in Nat /\ lease[w].completed \in BOOLEAN
    /\ acts \in Nat
    /\ \A w \in Works : \A n \in 1..Len(cycle[w]) : cycle[w][n] \in 1..CorrectiveStages
    /\ review.rev \in LearnedRevs \cup {"none"} /\ review.bound \subseteq EvidenceIds
    /\ meaning \in Meanings \cup {"none"}
    /\ \A r \in Runners : runner[r].mode \in Modes

(***************************************************************************)
(* The gate counts: however claims, expired leases, late completions and   *)
(* crashes interleave, the budget has been charged once for every fencing  *)
(* token handed out (durable_dispatch_gate.py, claim), and no more acts    *)
(* than that were performed under an admission.                            *)
(***************************************************************************)
ActsBudgeted ==
    LET handedOut == MapThenSumSet(LAMBDA w : lease[w].token, Works) IN
    /\ budget.generation = handedOut
    /\ GateBudget.active - budget.active = handedOut
    /\ GateBudget.backend - budget.backend = handedOut
    /\ acts <= handedOut

(***************************************************************************)
(* complete() checks the lease in one statement and updates it in another, *)
(* in autocommit (durable_dispatch_gate.py:253): whoever ran in between,   *)
(* work is completed at most once, by the holder of the newest fencing     *)
(* token, and is admitted to nobody afterwards.                            *)
(***************************************************************************)
CompletedOnce ==
    \A w \in Works :
        /\ Len(completed[w]) <= 1
        /\ \A n \in 1..Len(completed[w]) : completed[w][n] = lease[w].token /\ lease[w].completed

(***************************************************************************)
(* "A cycle may not skip stages" (corrective_learning.py): advance() reads *)
(* the ledger in one connection and appends in another, so two reviewers   *)
(* may want the same stage; the recorded stages stay a prefix of the order,*)
(* which _decode_rows needs to read the correction at all.                 *)
(***************************************************************************)
CycleOrdered ==
    \A w \in Works : \A n \in 1..Len(cycle[w]) : cycle[w][n] = n

(***************************************************************************)
(* A learned revision influences a decision "at most once per cue event"   *)
(* (learned_influence.py), and a piece of later-use evidence is consumed   *)
(* once, across quarantine, re-admission and a change of revision and back.*)
(***************************************************************************)
CueUsedOnce ==
    \A v \in LearnedRevs :
        /\ \A c \in CueEvents : cueUses[v][c] <= 1
        /\ \A i \in EvidenceIds : evUses[v][i] <= 1

(***************************************************************************)
(* The loop is bounded and what it learns keeps its order: every admission *)
(* of the durable dispatch gate is charged and every piece of work is      *)
(* completed once (durable_dispatch_gate.py, agi_closed_loop.py), while    *)
(* corrections pass through their stages one by one and learned influence  *)
(* is consumed once (corrective_learning.py, learned_influence.py).        *)
(***************************************************************************)
LoopGoverned == ActsBudgeted /\ CompletedOnce /\ CycleOrdered /\ CueUsedOnce
=============================================================================
