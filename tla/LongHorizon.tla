----------------------------- MODULE LongHorizon -----------------------------
(***************************************************************************)
(* The durable plan coordinator of vera_core (long_horizon_plan.py).       *)
(*                                                                         *)
(* Several coordinators of one plan claim and complete its steps in one    *)
(* SQLite file; a claim is a value its holder may present at any later     *)
(* time, more than once.  Each caller passes the time it believes it is.   *)
(* The first coordinator creates the plan row by row, in autocommit, and   *)
(* may die in between.                                                     *)
(***************************************************************************)
EXTENDS Naturals, Sequences, FiniteSets, SequencesExt

CONSTANTS PlanSteps,     \* the plan's steps in its order: PlanStep records
          Holders,       \* names claims are made under
          PlanBudgets,   \* budgets a caller may pass to claim()
          CollisionKeys, \* keys a caller may report as occupied
          LhMaxTime      \* bound on the callers' clocks

StepIds == 1..Len(PlanSteps)

\* PlanStep and LongHorizonPlan validate; a cycle is a set of steps each of
\* which waits for another of the set.
PlanValid ==
    /\ \A s \in StepIds : /\ PlanSteps[s].deps \subseteq StepIds \ {s}
                          /\ PlanSteps[s].maxAttempts \in Nat \ {0}
    /\ \A C \in (SUBSET StepIds) \ {{}} : \E s \in C : PlanSteps[s].deps \cap C = {}

BudgetValid(b) == b.perFamily \in 1..b.parallel

ASSUME LongHorizonAssumption ==
    /\ PlanValid /\ \A b \in PlanBudgets : BudgetValid(b)
    /\ LhMaxTime \in Nat

VARIABLES planRow,      \* the plan's own row exists
          stepRows,     \* steps whose row was inserted
          plan,         \* plan[s]: [state, attempts, holder, expires, failed]
          claims,       \* claims[s][a]: holder of the claim handed out for attempt a
          outcomes,     \* outcomes[s]: events of step s, as <<attempt, outcome>>
          corrections   \* corrections[s]: failed attempts with a correction

planVars == <<planRow, stepRows, plan, claims, outcomes, corrections>>

StepStates == {"PENDING", "RUNNING", "FAILED_RETRYABLE", "SUCCEEDED", "FAILED_TERMINAL"}

PlanInit ==
    /\ planRow = FALSE /\ stepRows = {}
    /\ plan = [s \in StepIds |-> [state |-> "PENDING", attempts |-> 0, holder |-> "none",
                                  expires |-> 0, failed |-> 0]]
    /\ claims = [s \in StepIds |-> <<>>]
    /\ outcomes = [s \in StepIds |-> <<>>]
    /\ corrections = [s \in StepIds |-> {}]

InsertPlanRow ==
    /\ ~planRow
    /\ planRow' = TRUE
    /\ UNCHANGED <<stepRows, plan, claims, outcomes, corrections>>

\* The coordinator that inserted the plan's row goes on with its steps, in
\* order; one that finds the row there inserts none.
InsertStepRow(s) ==
    /\ planRow /\ stepRows = 1..(s - 1)
    /\ stepRows' = stepRows \cup {s}
    /\ UNCHANGED <<planRow, plan, claims, outcomes, corrections>>

\* Mutation: a plan that exists has all its rows.
PlanWhole_Row == planRow

\* _rows: the membership check of claim().
PlanWhole == planRow /\ stepRows = StepIds

\* Mutation: a step that failed is ready as soon as it failed.
Ready_Uncorrected(s) ==
    /\ plan[s].state \in {"PENDING", "FAILED_RETRYABLE"}
    /\ \A d \in PlanSteps[s].deps : plan[d].state = "SUCCEEDED"

\* _ready_reason is None.
Ready(s) ==
    /\ plan[s].state \in {"PENDING", "FAILED_RETRYABLE"}
    /\ \A d \in PlanSteps[s].deps : plan[d].state = "SUCCEEDED"
    /\ plan[s].state = "FAILED_RETRYABLE" => plan[s].failed \in corrections[s]

ByPriority ==
    SortSeq([s \in StepIds |-> s],
            LAMBDA s, t : \/ PlanSteps[s].priority < PlanSteps[t].priority
                          \/ PlanSteps[s].priority = PlanSteps[t].priority /\ s < t)

\* _plan_ready_with_db: what a budget selects, greedily.  Steps that run are
\* not counted against it, and their keys are occupied if the caller says so.
Selects(b, chosen, occupied, s) ==
    /\ Ready(s)
    /\ PlanSteps[s].keys \cap (occupied \cup UNION {PlanSteps[t].keys : t \in chosen}) = {}
    /\ Cardinality(chosen) < b.parallel
    /\ Cardinality({t \in chosen : PlanSteps[t].family = PlanSteps[s].family}) < b.perFamily

Frontier(b, occupied) ==
    FoldLeft(LAMBDA chosen, s : IF Selects(b, chosen, occupied, s) THEN chosen \cup {s} ELSE chosen,
             {}, ByPriority)

\* claim, one transaction.
ClaimStep(h, s, b, occupied, now) ==
    LET attempt == plan[s].attempts + 1 IN
    /\ PlanWhole
    /\ Ready(s)
    /\ s \in Frontier(b, occupied)
    /\ attempt <= PlanSteps[s].maxAttempts
    /\ plan' = [plan EXCEPT ![s].state = "RUNNING", ![s].attempts = attempt,
                            ![s].holder = h, ![s].expires = now + 1]
    /\ claims' = [claims EXCEPT ![s] = Append(@, h)]
    /\ UNCHANGED <<planRow, stepRows, outcomes, corrections>>

\* Mutation: any claim of the step will do.
ClaimCurrent_Step(s, a) == plan[s].state = "RUNNING"

\* The fencing token is the attempt: claim() alone raises them, together.
ClaimCurrent(s, a) ==
    plan[s].state = "RUNNING" /\ plan[s].holder = claims[s][a] /\ plan[s].attempts = a

StepOutcome(s, a, success) ==
    CASE success -> "SUCCEEDED"
      [] ~success /\ a < PlanSteps[s].maxAttempts -> "FAILED_RETRYABLE"
      [] OTHER -> "FAILED_TERMINAL"

\* complete, one transaction; the lease is the one in the row.
CompleteStep(s, a, success, now) ==
    /\ a \in 1..Len(claims[s])
    /\ ClaimCurrent(s, a)
    /\ now < plan[s].expires
    /\ plan' = [plan EXCEPT ![s].state = StepOutcome(s, a, success), ![s].holder = "none",
                            ![s].expires = 0, ![s].failed = IF success THEN 0 ELSE a]
    /\ outcomes' = [outcomes EXCEPT ![s] = Append(@, <<a, StepOutcome(s, a, success)>>)]
    /\ UNCHANGED <<planRow, stepRows, claims, corrections>>

\* apply_correction
ApplyCorrection(s) ==
    /\ plan[s].state = "FAILED_RETRYABLE"
    /\ plan[s].failed \notin corrections[s]
    /\ corrections' = [corrections EXCEPT ![s] = @ \cup {plan[s].failed}]
    /\ UNCHANGED <<planRow, stepRows, plan, claims, outcomes>>

PlanNext ==
    \/ InsertPlanRow
    \/ \E s \in StepIds :
           \/ InsertStepRow(s) \/ ApplyCorrection(s)
           \/ \E h \in Holders, b \in PlanBudgets, occupied \in SUBSET CollisionKeys,
                 now \in 0..LhMaxTime : ClaimStep(h, s, b, occupied, now)
           \/ \E a \in 1..PlanSteps[s].maxAttempts, success \in BOOLEAN, now \in 0..LhMaxTime :
                  CompleteStep(s, a, success, now)

PlanSpec == PlanInit /\ [][PlanNext]_planVars

----------------------------------------------------------------------------
PlanTypeOK ==
    /\ planRow \in BOOLEAN /\ stepRows \subseteq StepIds
    /\ \A s \in StepIds : /\ plan[s].state \in StepStates
                          /\ plan[s].attempts \in 0..PlanSteps[s].maxAttempts
                          /\ Len(claims[s]) = plan[s].attempts
                          /\ corrections[s] \subseteq 1..plan[s].attempts

(***************************************************************************)
(* A step is started only in a plan whose rows are all there - a           *)
(* coordinator that died while it created the plan leaves one that admits  *)
(* nothing - and only when every step it depends on has succeeded, which   *)
(* stays so: late or repeated completions of old claims undo no success.   *)
(***************************************************************************)
StepsInOrder ==
    \A s \in StepIds :
        plan[s].attempts > 0 =>
            stepRows = StepIds /\ \A d \in PlanSteps[s].deps : plan[d].state = "SUCCEEDED"

(***************************************************************************)
(* test_failure_requires_explicit_correction_and_survives_restart: every   *)
(* attempt before the newest has exactly one recorded outcome, a retryable *)
(* failure, and a correction of its own; the newest has one unless it runs,*)
(* and the step's state is that outcome.                                   *)
(***************************************************************************)
AttemptsAccounted ==
    \A s \in StepIds :
        LET n == plan[s].attempts
            closed == IF plan[s].state = "RUNNING" THEN n - 1 ELSE n
        IN  /\ Len(outcomes[s]) = closed
            /\ \A a \in 1..closed :
                   outcomes[s][a] = <<a, IF a < n THEN "FAILED_RETRYABLE" ELSE plan[s].state>>
            /\ 1..(n - 1) \subseteq corrections[s]

(***************************************************************************)
(* A plan is carried out in order, and each attempt at a step is accounted *)
(* for (long_horizon_plan.py).                                             *)
(***************************************************************************)
PlanAccounted == StepsInOrder /\ AttemptsAccounted
=============================================================================
