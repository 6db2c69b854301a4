--------------------------- MODULE TaskExecution ---------------------------
(***************************************************************************)
(* Task packets, delegations, corrections and closeout of vera_core        *)
(* (task_execution.py), and the qualified runtime's rules for outbound     *)
(* work done on behalf of a task (qualified_runtime.py, source_mutation.py,*)
(* action_gate.py, qualified_pc.py).                                       *)
(*                                                                         *)
(* The ledger is an event journal.  TaskExecutionLedger.read folds the     *)
(* events of a task and raises on a history it cannot explain; the model   *)
(* keeps the value of that fold, and in `rejected` the tasks whose history *)
(* read() or verify_chain() would now raise on.                            *)
(*                                                                         *)
(* Several runtimes share the state directory.  A runtime changes the      *)
(* ledger under tasks.action_lock(): it reads and decides in one step and  *)
(* appends in another, and whatever does not take that lock may run in     *)
(* between.  PC and provider dispatches do not take it.                    *)
(***************************************************************************)
EXTENDS Naturals, FiniteSets

CONSTANTS
    Runtimes, Tasks,
    Deps,              \* dependency identities, used per task
    PCJobs,            \* targets of kind EFFECT, pc:<envelope_id>
    ProviderEffects,   \* targets of kind PROVIDER_EFFECT
    SourceMutations,   \* targets of kind PROVIDER_EFFECT, provider source:*
    Commands,          \* targets of kind COORDINATION_COMMAND
    Delegs,            \* delegation identities, used per task
    Scopes,            \* (repository, ref, subject)
    Assignees,
    Corrections,       \* correction identities, used per task
    Nil,               \* no runtime, target, reference or scope
    MaxEvents,         \* bound: events in the journal
    MaxEffects         \* bound: effects ever reserved

Targets == PCJobs \cup ProviderEffects \cup SourceMutations \cup Commands

ASSUME TaskAssumption ==
    /\ MaxEvents \in Nat /\ MaxEffects \in Nat
    /\ PCJobs \cap (ProviderEffects \cup SourceMutations \cup Commands) = {}
    /\ Commands \cap (ProviderEffects \cup SourceMutations) = {}
    /\ ProviderEffects \cap SourceMutations = {}

\* TaskDependencyRef: a dependency identity is bound once, so its binding event
\* is determined by the pair.
Refs == Tasks \X Deps

ASSUME NilAssumption ==
    Nil \notin Runtimes \cup Targets \cup Refs \cup Scopes \cup Assignees \cup Delegs

VARIABLES
    opened, closed,   \* tasks with a TASK_OPENED, a TASK_CLOSED event
    dep,              \* dep[t][d]: the target d was bound to, or Nil
    cancelled,        \* cancelled[t]: cancelled dependency identities
    deleg,            \* deleg[t][g]: the delegation as read() replays it
    corrected,        \* corrected[t]: corrections recorded
    unresolved,       \* unresolved[t]: corrections no checkpoint has addressed
    rejected,         \* tasks whose history read() raises on
    events,           \* length of the journal
    lock,             \* holder of tasks.action_lock(), or Nil
    call,             \* call[r]: what runtime r is in the middle of
    binding,          \* binding[x]: references in x's durable bindings
    mutation,         \* mutation[x]: scope, actor and owner a source mutation is bound to
    fence,            \* fence[x]: state of the mechanical effect
    authority,        \* authority[x]: dependency in the AUTHORITY_VERIFIED event
    outcome           \* targets with a durable result or source outcome

ledgerVars == <<opened, closed, dep, cancelled, deleg, corrected, unresolved, rejected, events>>
outboundVars == <<binding, mutation, fence, authority, outcome>>
vars == <<ledgerVars, lock, call, outboundVars>>

----------------------------------------------------------------------------
(* The journal: what read() makes of an event.                             *)

DelegStatus == {"NONE", "ACTIVE", "RETURNED", "CANCELLED"}

\* rev counts reassignments: it stands for the digest of the latest event.
Delegation == [status : DelegStatus, scope : Scopes \cup {Nil},
               assignee : Assignees \cup {Nil}, rev : Nat]

NoDelegation == [status |-> "NONE", scope |-> Nil, assignee |-> Nil, rev |-> 0]

\* One event: `id` is the dependency, delegation or correction it is about.
DependencyEvents == [type : {"DEPENDENCY", "DEPENDENCY_CANCELLED"},
                     task : Tasks, id : Deps, target : Targets]
DelegatedEvents == [type : {"DELEGATED"}, task : Tasks, id : Delegs,
                    scope : Scopes, assignee : Assignees]
ReassignedEvents == [type : {"REASSIGNED"}, task : Tasks, id : Delegs,
                     prior : Assignees, assignee : Assignees]
TerminalEvents == [type : {"RETURNED", "CANCELLED"}, task : Tasks, id : Delegs,
                   assignee : Assignees]
CorrectionEvents == [type : {"CORRECTION"}, task : Tasks, id : Corrections]
CheckpointEvents == [type : {"CHECKPOINT"}, task : Tasks, addressed : SUBSET Corrections]
PlainEvents == [type : {"OPENED", "CLOSED"}, task : Tasks]

Events == DependencyEvents \cup DelegatedEvents \cup ReassignedEvents \cup TerminalEvents
          \cup CorrectionEvents \cup CheckpointEvents \cup PlainEvents

Active(t, d) == dep[t][d] # Nil /\ d \notin cancelled[t]

\* verify_chain: a task's events lie between its one opening and its closeout.
Sequenced(e) == e.task \notin closed /\ (e.type = "OPENED" <=> e.task \notin opened)

AcceptsDependency(e) ==
    LET t == e.task IN
    /\ e.type = "DEPENDENCY" =>
           dep[t][e.id] = Nil /\ \A d \in Deps : dep[t][d] # e.target
    /\ e.type = "DEPENDENCY_CANCELLED" => Active(t, e.id) /\ dep[t][e.id] = e.target

AcceptsDelegation(e) ==
    LET t == e.task IN
    /\ e.type = "DELEGATED" => deleg[t][e.id].status = "NONE"
    /\ e.type = "REASSIGNED" =>
           /\ deleg[t][e.id].status = "ACTIVE"
           /\ deleg[t][e.id].assignee = e.prior
           /\ e.assignee # e.prior

AcceptsTerminal(e) ==
    LET t == e.task IN
    e.type \in {"RETURNED", "CANCELLED"} =>
        deleg[t][e.id].status = "ACTIVE" /\ deleg[t][e.id].assignee = e.assignee

\* A checkpoint answers every unresolved correction, and no other.
AcceptsCorrection(e) ==
    LET t == e.task IN
    /\ e.type = "CORRECTION" => e.id \notin corrected[t]
    /\ e.type = "CHECKPOINT" => e.addressed = unresolved[t]

\* read() and verify_chain() go on past event e.
Accepts(e) ==
    /\ Sequenced(e)
    /\ AcceptsDependency(e) /\ AcceptsDelegation(e) /\ AcceptsTerminal(e)
    /\ AcceptsCorrection(e)

\* Mutation: a new delegation takes its status from the event.
Replayed_RawStatus(e) ==
    LET g == deleg[e.task][e.id] IN
    CASE e.type = "DELEGATED" ->
             [status |-> e.type, scope |-> e.scope, assignee |-> e.assignee, rev |-> 0]
      [] e.type = "REASSIGNED" ->
             [g EXCEPT !.assignee = e.assignee, !.rev = @ + 1]
      [] OTHER -> [g EXCEPT !.status = e.type]

\* The delegation of event e after e.
Replayed(e) ==
    LET g == deleg[e.task][e.id] IN
    CASE e.type = "DELEGATED" ->
             [status |-> "ACTIVE", scope |-> e.scope, assignee |-> e.assignee, rev |-> 0]
      [] e.type = "REASSIGNED" ->
             [g EXCEPT !.assignee = e.assignee, !.rev = @ + 1]
      [] OTHER -> [g EXCEPT !.status = e.type]

\* append: the event is in the journal, whether or not read() will like it.
Journal(e) ==
    LET t == e.task
        On(types) == e.type \in types
    IN
    /\ events' = events + 1
    /\ rejected' = IF Accepts(e) THEN rejected ELSE rejected \cup {t}
    /\ opened' = IF On({"OPENED"}) THEN opened \cup {t} ELSE opened
    /\ closed' = IF On({"CLOSED"}) THEN closed \cup {t} ELSE closed
    /\ dep' = IF On({"DEPENDENCY"}) THEN [dep EXCEPT ![t][e.id] = e.target] ELSE dep
    /\ cancelled' = IF On({"DEPENDENCY_CANCELLED"})
                    THEN [cancelled EXCEPT ![t] = @ \cup {e.id}] ELSE cancelled
    /\ deleg' = IF On({"DELEGATED", "REASSIGNED", "RETURNED", "CANCELLED"})
                THEN [deleg EXCEPT ![t][e.id] = Replayed(e)] ELSE deleg
    /\ corrected' = IF On({"CORRECTION"})
                    THEN [corrected EXCEPT ![t] = @ \cup {e.id}] ELSE corrected
    /\ unresolved' = CASE On({"CORRECTION"}) -> [unresolved EXCEPT ![t] = @ \cup {e.id}]
                       [] On({"CHECKPOINT"}) -> [unresolved EXCEPT ![t] = @ \ e.addressed]
                       [] OTHER -> unresolved

----------------------------------------------------------------------------
(* A runtime in the middle of a call, and the state of outbound work.      *)

\* The fence of module EffectFence: a row is bound to the task dependency it was
\* reserved for, and has handed out a claim once it is past RESERVED.
fenceBound == [x \in Targets |-> IF fence[x] = "ABSENT" THEN Nil ELSE <<authority[x]>>]
fenceGranted ==
    [x \in Targets |->
        IF fence[x] \in {"ABSENT", "RESERVED", "CANCELLED_PRE_DISPATCH"} THEN 0 ELSE 1]

Fence == INSTANCE EffectFence WITH
    Effects <- Targets, Bindings <- {<<a>> : a \in Refs \cup {Nil}}, NoBinding <- Nil,
    bound <- fenceBound, granted <- fenceGranted

Success == {"COMMITTED", "RECONCILED_COMMITTED"}
UnresolvedStates == {"RESERVED", "EXECUTING", "ATTEMPTED_UNKNOWN"}

\* Targets whose result is recorded durably after the effect has committed.
Recorded == SourceMutations \cup Commands

\* What a source mutation was prepared with: TaskDelegationRef, or Nil.
Mutations == [scope : Scopes, actor : Assignees, owner : (Tasks \X Delegs \X Nat) \cup {Nil}]

Steps == {"idle", "append", "bind", "prepare", "source", "held", "dispatch", "reserved", "executing", "record"}

\* At `step` of the work on target x for reference ref; about to append e.
At(step, x, ref) == [step |-> step, ev |-> Nil, x |-> x, ref |-> ref, m |-> Nil]
Appending(e) == [step |-> "append", ev |-> e, x |-> Nil, ref |-> Nil, m |-> Nil]

Idle == At("idle", Nil, Nil)

\* Runtime r goes on to `step` with the target and the reference it has.
Go(r, step) == call' = [call EXCEPT ![r].step = step]

\* Mutation: the lock is taken whether or not it is free.
Acquire_Shared(r) == lock' = r

Acquire(r) == lock = Nil /\ lock' = r

\* The call returns or raises; a `with tasks.action_lock()` is left.
Return(r) ==
    /\ call' = [call EXCEPT ![r] = Idle]
    /\ lock' = IF lock = r THEN Nil ELSE lock

Init ==
    /\ opened = {} /\ closed = {} /\ rejected = {} /\ events = 0
    /\ dep = [t \in Tasks |-> [d \in Deps |-> Nil]]
    /\ cancelled = [t \in Tasks |-> {}]
    /\ deleg = [t \in Tasks |-> [g \in Delegs |-> NoDelegation]]
    /\ corrected = [t \in Tasks |-> {}]
    /\ unresolved = [t \in Tasks |-> {}]
    /\ lock = Nil
    /\ call = [r \in Runtimes |-> Idle]
    /\ binding = [x \in Targets |-> {}]
    /\ mutation = [x \in SourceMutations |-> Nil]
    /\ fence = [x \in Targets |-> "ABSENT"]
    /\ authority = [x \in Targets |-> Nil]
    /\ outcome = {}

Open(t) == t \in opened \ closed

ActiveDelegation(t, g) == deleg[t][g].status = "ACTIVE"

\* Mutation: a durable preparation does not count as a start.
Started_EffectOnly(x) == fence[x] # "ABSENT"

\* _task_dependency_target_started
Started(x) == fence[x] # "ABSENT" \/ binding[x] # {}

\* The decision to append e, taken under the lock; the append comes later.
Decide(r, e) ==
    /\ call[r].step = "idle"
    /\ events < MaxEvents
    /\ Acquire(r)
    /\ call' = [call EXCEPT ![r] = Appending(e)]
    /\ UNCHANGED <<ledgerVars, outboundVars>>

Append(r) ==
    /\ call[r].step \in {"append", "bind"}
    /\ Journal(call[r].ev)
    /\ IF call[r].step = "append"
       THEN Return(r)
       ELSE /\ call' = [call EXCEPT ![r] = [@ EXCEPT !.step = "prepare", !.ev = Nil]]
            /\ UNCHANGED lock
    /\ UNCHANGED outboundVars

----------------------------------------------------------------------------
(* Operations on the ledger.  A call that raises, and the replay of an     *)
(* event that is already in the journal, change nothing.                   *)

StartTask(r, t) ==
    /\ t \notin opened
    /\ Decide(r, [type |-> "OPENED", task |-> t])

\* Mutation: the target is looked for in this task only.
CanBind_OwnTask(t, d, x) ==
    /\ Open(t)
    /\ dep[t][d] = Nil
    /\ ~Started(x)
    /\ \A c \in Deps : dep[t][c] # x

\* _bind_task_dependency_unlocked and bind_dependency, first binding of d.
CanBind(t, d, x) ==
    /\ Open(t)
    /\ dep[t][d] = Nil
    /\ ~Started(x)
    /\ \A u \in Tasks, c \in Deps : dep[u][c] # x

DependencyEvent(type, t, d, x) == [type |-> type, task |-> t, id |-> d, target |-> x]

BindTaskDependency(r, t, d, x) ==
    /\ CanBind(t, d, x)
    /\ Decide(r, DependencyEvent("DEPENDENCY", t, d, x))

CancelTaskDependency(r, t, d) ==
    /\ Open(t)
    /\ Active(t, d)
    /\ ~Started(dep[t][d])
    /\ Decide(r, DependencyEvent("DEPENDENCY_CANCELLED", t, d, dep[t][d]))

DelegateTaskWork(r, t, g, s, a) ==
    /\ Open(t)
    /\ deleg[t][g].status = "NONE"
    /\ \A u \in Tasks, h \in Delegs : ActiveDelegation(u, h) => deleg[u][h].scope # s
    /\ Decide(r, [type |-> "DELEGATED", task |-> t, id |-> g, scope |-> s, assignee |-> a])

ReassignTaskDelegation(r, t, g, a) ==
    /\ Open(t)
    /\ ActiveDelegation(t, g)
    /\ a # deleg[t][g].assignee
    /\ Decide(r, [type |-> "REASSIGNED", task |-> t, id |-> g,
                  prior |-> deleg[t][g].assignee, assignee |-> a])

\* return_task_delegation and cancel_task_delegation
EndTaskDelegation(r, t, g, type) ==
    /\ Open(t)
    /\ ActiveDelegation(t, g)
    /\ Decide(r, [type |-> type, task |-> t, id |-> g, assignee |-> deleg[t][g].assignee])

RecordTaskCorrection(r, t, c) ==
    /\ Open(t)
    /\ c \notin corrected[t]
    /\ Decide(r, [type |-> "CORRECTION", task |-> t, id |-> c])

CheckpointTask(r, t) ==
    /\ Open(t)
    /\ Decide(r, [type |-> "CHECKPOINT", task |-> t, addressed |-> unresolved[t]])

----------------------------------------------------------------------------
(* Closeout.                                                               *)

\* assess_task_dependencies, kind by kind.  Any effect: it reached a successful
\* state under an authority event that names this dependency.
EffectSatisfied(t, d) ==
    LET x == dep[t][d] IN fence[x] \in Success /\ authority[x] = <<t, d>>

\* A command also needs its recorded result.
CommandSatisfied(t, d) ==
    LET x == dep[t][d] IN x \in Commands => x \in outcome

\* A provider effect also needs a durable binding that names this dependency.
ProviderSatisfied(t, d) ==
    LET x == dep[t][d] IN
    x \in ProviderEffects \cup SourceMutations => binding[x] = {<<t, d>>}

\* A source mutation also needs its outcome.
SourceSatisfied(t, d) ==
    LET x == dep[t][d] IN x \in SourceMutations => x \in outcome

Satisfied(t, d) ==
    /\ EffectSatisfied(t, d) /\ ProviderSatisfied(t, d)
    /\ CommandSatisfied(t, d) /\ SourceSatisfied(t, d)

\* Mutation: a dependency counts as done once its target has succeeded.
Ready_AnySuccess(t) ==
    /\ Open(t)
    /\ \A x \in Targets : fence[x] \notin UnresolvedStates
    /\ \A x \in Commands : fence[x] \in Success => x \in outcome
    /\ \A d \in Deps : Active(t, d) => fence[dep[t][d]] \in Success
    /\ \A g \in Delegs : ~ActiveDelegation(t, g)
    /\ unresolved[t] = {}

\* assess_task_closeout: ready, where surfaces, lifecycle and live verifications
\* are taken to allow it.
Ready(t) ==
    /\ Open(t)
    /\ \A x \in Targets : fence[x] \notin UnresolvedStates
    /\ \A x \in Commands : fence[x] \in Success => x \in outcome
    /\ \A d \in Deps : Active(t, d) => Satisfied(t, d)
    /\ \A g \in Delegs : ~ActiveDelegation(t, g)
    /\ unresolved[t] = {}

CloseTask(r, t) ==
    /\ Ready(t)
    /\ Decide(r, [type |-> "CLOSED", task |-> t])

----------------------------------------------------------------------------
(* Preparing outbound work.                                                *)

\* assert_subject_mutation_allowed: nobody owns the subject, or the actor does
\* through an exact reference.
Undelegated(scope) ==
    \A u \in Tasks, g \in Delegs : ActiveDelegation(u, g) => deleg[u][g].scope # scope

\* _validate_delegation_policy
MayMutate(t, m) ==
    IF m.owner = Nil THEN Undelegated(m.scope)
    ELSE LET g == deleg[t][m.owner[2]] IN
         /\ m.owner[1] = t
         /\ g.status = "ACTIVE" /\ g.scope = m.scope
         /\ g.assignee = m.actor /\ g.rev = m.owner[3]

\* The references a caller can hold to the delegations of task t.
OwnerRefs(t) == {<<t, g, deleg[t][g].rev>> : g \in Delegs} \cup {Nil}

\* invoke_task_coordination, prepare_task_provider_effect, prepare_task_pc_job
\* and the source adapter's prepare, up to the binding of the dependency.
PrepareTask(r, t, d, x, m) ==
    /\ call[r].step = "idle"
    /\ Open(t)
    /\ x \in SourceMutations => MayMutate(t, m)
    /\ Acquire(r)
    /\ \/ /\ Active(t, d) /\ dep[t][d] = x
          /\ call' = [call EXCEPT ![r] = [step |-> "prepare", ev |-> Nil, x |-> x,
                                          ref |-> <<t, d>>, m |-> m]]
       \/ /\ CanBind(t, d, x) /\ events < MaxEvents
          /\ call' = [call EXCEPT ![r] = [step |-> "bind",
                                          ev |-> DependencyEvent("DEPENDENCY", t, d, x),
                                          x |-> x, ref |-> <<t, d>>, m |-> m]]
    /\ UNCHANGED <<ledgerVars, outboundVars>>

\* A PreparedPCDispatch lives in the caller's memory only.
Hold(r, x, ref) ==
    /\ call' = [call EXCEPT ![r] = At("held", x, ref)]
    /\ lock' = IF lock = r THEN Nil ELSE lock

\* The preparation succeeds.  A PC job is prepared in memory; the others write
\* a durable binding, which refuses another reference.  A command's binding
\* names no reference, and the invocation goes on under the lock.
Prepared(r) ==
    LET x == call[r].x
        ref == call[r].ref
    IN
    /\ call[r].step = "prepare"
    /\ \/ /\ x \in PCJobs
          /\ Hold(r, x, ref)
          /\ UNCHANGED binding
       \/ /\ x \in ProviderEffects
          /\ binding[x] \subseteq {ref}
          /\ binding' = [binding EXCEPT ![x] = {ref}]
          /\ Return(r)
       \/ /\ x \in SourceMutations
          /\ binding[x] \subseteq {ref}
          /\ binding' = [binding EXCEPT ![x] = {ref}]
          /\ Go(r, "source")
          /\ UNCHANGED lock
       \/ /\ x \in Commands
          /\ binding' = [binding EXCEPT ![x] = {Nil}]
          /\ Go(r, "dispatch")
          /\ UNCHANGED lock
    /\ UNCHANGED <<ledgerVars, mutation, fence, authority, outcome>>

\* The source adapter's own binding, which refuses another request or owner.
BindSource(r) ==
    LET x == call[r].x IN
    /\ call[r].step = "source"
    /\ mutation' = IF mutation[x] = Nil
                   THEN [mutation EXCEPT ![x] = call[r].m] ELSE mutation
    /\ Return(r)
    /\ UNCHANGED <<ledgerVars, binding, fence, authority, outcome>>

\* The preparation raises: the dependency is cancelled, also one that an earlier
\* call had bound, unless the target has started.
PrepareFails(r) ==
    LET x == call[r].x
        ref == call[r].ref
    IN
    /\ call[r].step = "prepare"
    /\ IF Started(x)
       THEN Return(r)
       ELSE /\ events < MaxEvents
            /\ call' = [call EXCEPT ![r] =
                   Appending(DependencyEvent("DEPENDENCY_CANCELLED", ref[1], ref[2], x))]
            /\ UNCHANGED lock
    /\ UNCHANGED <<ledgerVars, outboundVars>>

\* prepare_pc_job and prepare_provider_effect called without a task.
PrepareUnbound(r, x) ==
    /\ call[r].step = "idle"
    /\ \/ /\ x \in PCJobs
          /\ Hold(r, x, Nil)
          /\ UNCHANGED binding
       \/ /\ x \in ProviderEffects
          /\ binding[x] = {}
          /\ binding' = [binding EXCEPT ![x] = {Nil}]
          /\ UNCHANGED <<lock, call>>
    /\ UNCHANGED <<ledgerVars, mutation, fence, authority, outcome>>

\* QualifiedPCExecutionAdapter.execute binds the attempt before it dispatches; a
\* bound attempt outlives the process that prepared it (recover_bound_attempts).
BindPCAttempt(r) ==
    LET x == call[r].x IN
    /\ call[r].step = "held"
    /\ binding' = [binding EXCEPT ![x] = @ \cup {call[r].ref}]
    /\ UNCHANGED <<ledgerVars, lock, call, mutation, fence, authority, outcome>>

RecoverPCAttempt(r, x, ref) ==
    /\ call[r].step = "idle"
    /\ x \in PCJobs
    /\ ref \in binding[x]
    /\ Hold(r, x, ref)
    /\ UNCHANGED <<ledgerVars, outboundVars>>

\* A coordination command invoked without a task: the lock is not taken.
InvokeUnbound(r, x) ==
    /\ call[r].step = "idle"
    /\ x \in Commands
    /\ binding' = [binding EXCEPT ![x] = {Nil}]
    /\ call' = [call EXCEPT ![r] = At("dispatch", x, Nil)]
    /\ UNCHANGED <<ledgerVars, lock, mutation, fence, authority, outcome>>

----------------------------------------------------------------------------
(* Dispatch through the lifecycle gateway.  A runtime past Reserve holds   *)
(* the lifecycle lock until it settles.                                    *)

\* _validate_task_dependency_ref
ValidRef(ref, x) ==
    ref # Nil => Open(ref[1]) /\ Active(ref[1], ref[2]) /\ dep[ref[1]][ref[2]] = x

Dispatching(r, x, ref) ==
    call' = [call EXCEPT ![r] = At("dispatch", x, ref)]

\* dispatch_pc_job and dispatch_provider_effect: validated without the lock.
Dispatch(r, x, ref) ==
    /\ \/ call[r].step = "held" /\ call[r].x = x /\ call[r].ref = ref
       \/ call[r].step = "idle" /\ x \in ProviderEffects /\ binding[x] = {ref}
    /\ ValidRef(ref, x)
    /\ Dispatching(r, x, ref)
    /\ UNCHANGED <<ledgerVars, lock, outboundVars>>

\* Mutation: the owner checked at preparation is not checked again.
ExecuteMutation_NoRecheck(r, x, ref) ==
    /\ call[r].step = "idle"
    /\ mutation[x] # Nil
    /\ binding[x] = {ref}
    /\ Open(ref[1])
    /\ Acquire(r)
    /\ Dispatching(r, x, ref)
    /\ UNCHANGED <<ledgerVars, outboundVars>>

\* QualifiedSourceMutationAdapter.execute: task and owner checked again, under
\* the lock, which is kept until the outcome is recorded.
ExecuteMutation(r, x, ref) ==
    /\ call[r].step = "idle"
    /\ mutation[x] # Nil
    /\ binding[x] = {ref}
    /\ Open(ref[1])
    /\ MayMutate(ref[1], mutation[x])
    /\ Acquire(r)
    /\ Dispatching(r, x, ref)
    /\ UNCHANGED <<ledgerVars, outboundVars>>

HoldsLifecycleLock(r) == call[r].step \in {"reserved", "executing"}

LifecycleLockFree == \A r \in Runtimes : ~HoldsLifecycleLock(r)

Reserve(r) ==
    LET x == call[r].x IN
    /\ call[r].step = "dispatch"
    /\ LifecycleLockFree
    /\ \A y \in Targets : fence[y] \notin UnresolvedStates
    /\ fence[x] = "ABSENT"
    /\ Cardinality({y \in Targets : fence[y] # "ABSENT"}) < MaxEffects
    /\ fence' = [fence EXCEPT ![x] = "RESERVED"]
    /\ authority' = [authority EXCEPT ![x] = call[r].ref]
    /\ Go(r, "reserved")
    /\ UNCHANGED <<ledgerVars, lock, binding, mutation, outcome>>

Claim(r) ==
    LET x == call[r].x IN
    /\ call[r].step = "reserved"
    /\ fence' = [fence EXCEPT ![x] = "EXECUTING"]
    /\ Go(r, "executing")
    /\ UNCHANGED <<ledgerVars, lock, binding, mutation, authority, outcome>>

\* The gateway refuses: another effect unresolved, a stale permit, no authority,
\* an effect identity already used.  A reservation already made stays.
Refused(r) ==
    /\ call[r].step \in {"dispatch", "reserved"}
    /\ Return(r)
    /\ UNCHANGED <<ledgerVars, outboundVars>>

\* settle raises when a command was reconciled while it executed.
Settle(r, known) ==
    LET x == call[r].x IN
    /\ call[r].step = "executing"
    /\ fence' = IF fence[x] = "EXECUTING"
                THEN [fence EXCEPT ![x] = Fence!SettledState(known)] ELSE fence
    /\ IF fence[x] = "EXECUTING" /\ known /\ x \in Recorded
       THEN Go(r, "record") /\ UNCHANGED lock
       ELSE Return(r)
    /\ UNCHANGED <<ledgerVars, binding, mutation, authority, outcome>>

\* The coordination result or the source mutation outcome.
RecordOutcome(r) ==
    /\ call[r].step = "record"
    /\ outcome' = outcome \cup {call[r].x}
    /\ Return(r)
    /\ UNCHANGED <<ledgerVars, binding, mutation, fence, authority>>

\* cancel_reserved_effect, under the lifecycle lock.
CancelReserved(x) ==
    /\ fence[x] = "RESERVED"
    /\ LifecycleLockFree
    /\ fence' = [fence EXCEPT ![x] = "CANCELLED_PRE_DISPATCH"]
    /\ UNCHANGED <<ledgerVars, lock, call, binding, mutation, authority, outcome>>

\* cancel_reserved_mutation: the effect first, then the task's dependency.  The
\* canceller names itself, it need not be the actor who prepared: nobody where the
\* subject is not delegated, else its current owner, of whatever task, passes
\* assert_task_subject_mutation_allowed.  So some caller always does, and the step
\* does not depend on which.
CancelReservedMutation(r, x, ref) ==
    /\ call[r].step = "idle"
    /\ events < MaxEvents
    /\ mutation[x] # Nil
    /\ binding[x] = {ref}
    /\ Open(ref[1])
    /\ Active(ref[1], ref[2]) /\ dep[ref[1]][ref[2]] = x
    /\ fence[x] = "RESERVED"
    /\ LifecycleLockFree
    /\ Acquire(r)
    /\ fence' = [fence EXCEPT ![x] = "CANCELLED_PRE_DISPATCH"]
    /\ call' = [call EXCEPT ![r] =
                   Appending(DependencyEvent("DEPENDENCY_CANCELLED", ref[1], ref[2], x))]
    /\ UNCHANGED <<ledgerVars, binding, mutation, authority, outcome>>

\* Reconciliation takes the trust lock, which a live dispatch holds too, but for
\* a coordination command.
Reconcile(x, occurred) ==
    /\ fence[x] \in Fence!AmbiguousStates
    /\ \A r \in Runtimes : HoldsLifecycleLock(r) => call[r].x \in Commands
    /\ fence' = [fence EXCEPT ![x] = Fence!ReconciledState(occurred)]
    /\ UNCHANGED <<ledgerVars, lock, call, binding, mutation, authority, outcome>>

\* The process dies: memory and locks are gone, the stores stay.
Crash(r) ==
    /\ call[r].step # "idle"
    /\ Return(r)
    /\ UNCHANGED <<ledgerVars, outboundVars>>

LedgerNext(r) ==
    \E t \in Tasks :
        \/ StartTask(r, t)
        \/ \E d \in Deps, x \in Targets : BindTaskDependency(r, t, d, x)
        \/ \E d \in Deps : CancelTaskDependency(r, t, d)
        \/ \E g \in Delegs, s \in Scopes, a \in Assignees : DelegateTaskWork(r, t, g, s, a)
        \/ \E g \in Delegs, a \in Assignees : ReassignTaskDelegation(r, t, g, a)
        \/ \E g \in Delegs, type \in {"RETURNED", "CANCELLED"} :
               EndTaskDelegation(r, t, g, type)
        \/ \E c \in Corrections : RecordTaskCorrection(r, t, c)
        \/ CheckpointTask(r, t)
        \/ CloseTask(r, t)

PrepareNext(r) ==
    \/ \E t \in Tasks, d \in Deps :
           \/ \E x \in Targets \ SourceMutations : PrepareTask(r, t, d, x, Nil)
           \/ \E x \in SourceMutations, s \in Scopes, a \in Assignees, o \in OwnerRefs(t) :
                  PrepareTask(r, t, d, x, [scope |-> s, actor |-> a, owner |-> o])
    \/ Prepared(r) \/ BindSource(r) \/ PrepareFails(r)
    \/ \E x \in Targets : PrepareUnbound(r, x) \/ InvokeUnbound(r, x)
    \/ BindPCAttempt(r)
    \/ \E x \in PCJobs, ref \in Refs \cup {Nil} : RecoverPCAttempt(r, x, ref)

DispatchNext(r) ==
    \/ \E x \in Targets, ref \in Refs \cup {Nil} : Dispatch(r, x, ref)
    \/ \E x \in SourceMutations, ref \in Refs :
           ExecuteMutation(r, x, ref) \/ CancelReservedMutation(r, x, ref)
    \/ Reserve(r) \/ Claim(r) \/ Refused(r) \/ RecordOutcome(r)
    \/ \E known \in BOOLEAN : Settle(r, known)

Next ==
    \/ \E r \in Runtimes :
           LedgerNext(r) \/ Append(r) \/ PrepareNext(r) \/ DispatchNext(r) \/ Crash(r)
    \/ \E x \in Targets :
           CancelReserved(x) \/ \E occurred \in BOOLEAN : Reconcile(x, occurred)

Spec == Init /\ [][Next]_vars

----------------------------------------------------------------------------
Calls == [step : Steps, ev : Events \cup {Nil}, x : Targets \cup {Nil},
          ref : Refs \cup {Nil}, m : Mutations \cup {Nil}]

TypeOK ==
    /\ opened \subseteq Tasks /\ closed \subseteq Tasks /\ rejected \subseteq Tasks
    /\ dep \in [Tasks -> [Deps -> Targets \cup {Nil}]]
    /\ cancelled \in [Tasks -> SUBSET Deps]
    /\ deleg \in [Tasks -> [Delegs -> Delegation]]
    /\ corrected \in [Tasks -> SUBSET Corrections]
    /\ unresolved \in [Tasks -> SUBSET Corrections]
    /\ events \in Nat
    /\ lock \in Runtimes \cup {Nil}
    /\ call \in [Runtimes -> Calls]
    /\ binding \in [Targets -> SUBSET (Refs \cup {Nil})]
    /\ mutation \in [SourceMutations -> Mutations \cup {Nil}]
    /\ fence \in [Targets -> Fence!FenceState]
    /\ authority \in [Targets -> Refs \cup {Nil}]
    /\ outcome \subseteq Targets

(***************************************************************************)
(* No sequence of calls of any runtimes writes a history that read() or    *)
(* verify_chain() raises on.  Every method begins with read() and most     *)
(* with tasks(), so one such history would stop the work on every task.    *)
(***************************************************************************)
HistoryReadable == rejected = {}

(***************************************************************************)
(* "one_active_owner_per_subject_scope" (VERA_TASK_DELEGATION_OWNERSHIP_V1)*)
(* and "one_durable_owner_per_kind_target" (VERA_TASK_EXECUTION_CLOSEOUT_  *)
(* V1): no two active delegations, of one task or of two, share a scope,   *)
(* and no target ever serves two dependencies, cancelled ones included.    *)
(***************************************************************************)
OneOwner ==
    /\ \A t, u \in Tasks, g, h \in Delegs :
          /\ ActiveDelegation(t, g) /\ ActiveDelegation(u, h)
          /\ deleg[t][g].scope = deleg[u][h].scope
          => t = u /\ g = h
    /\ \A t, u \in Tasks, c, d \in Deps :
          dep[t][c] # Nil /\ dep[t][c] = dep[u][d] => t = u /\ c = d

(***************************************************************************)
(* A closed task was and stays complete: every dependency that was not     *)
(* cancelled has succeeded, on behalf of this very dependency and with its *)
(* result recorded, nothing is delegated and no correction is open,        *)
(* whatever dispatches, crashes and reconciliations ran around the         *)
(* closeout and run after it.                                              *)
(***************************************************************************)
ClosedComplete ==
    \A t \in closed :
        /\ \A d \in Deps : Active(t, d) => Satisfied(t, d)
        /\ \A g \in Delegs : ~ActiveDelegation(t, g)
        /\ unresolved[t] = {}

\* The step in which x is claimed and execute() begins.
Executes(x) == fence[x] # "EXECUTING" /\ fence'[x] = "EXECUTING"

(***************************************************************************)
(* Provider effects, source mutations and coordination commands execute on *)
(* behalf of a task only while it is open and the dependency is active,    *)
(* although a provider dispatch validates the reference without the task   *)
(* lock and the source adapter does not look at the dependency at all: the *)
(* durable binding made under the lock is what keeps it from being         *)
(* cancelled.                                                              *)
(***************************************************************************)
ExecutesForOpenTask ==
    [][\A x \in Targets \ PCJobs : Executes(x) /\ authority[x] # Nil =>
           LET t == authority[x][1]
               d == authority[x][2]
           IN Open(t) /\ Active(t, d) /\ dep[t][d] = x]_vars

(***************************************************************************)
(* "source_mutation_rechecks_guard_immediately_before_transport"           *)
(* (VERA_TASK_DELEGATION_OWNERSHIP_V1): when a source mutation executes    *)
(* and its subject is delegated at that moment, it executes for the task   *)
(* and the actor that own the delegation now, under the reference of the   *)
(* latest assignment.                                                      *)
(***************************************************************************)
MutatesAsOwner ==
    [][\A x \in SourceMutations : Executes(x) =>
           \A t \in Tasks, g \in Delegs :
               ActiveDelegation(t, g) /\ deleg[t][g].scope = mutation[x].scope =>
                   /\ mutation[x].owner = <<t, g, deleg[t][g].rev>>
                   /\ mutation[x].actor = deleg[t][g].assignee
                   /\ authority[x][1] = t]_vars

(***************************************************************************)
(* Outbound work of tasks uses the effect fence as module EffectFence      *)
(* describes it: an identity is reserved once, for one dependency, and     *)
(* claimed once.                                                           *)
(***************************************************************************)
FenceSpec == Fence!Spec

(***************************************************************************)
(* "task-bound outbound work cannot execute after task closeout"           *)
(* (qualified_runtime.py, _validate_task_dependency_ref), for every kind.  *)
(***************************************************************************)
NoWorkAfterCloseout ==
    [][\A x \in Targets :
           Executes(x) /\ authority[x] # Nil => authority[x][1] \notin closed]_vars
=============================================================================
