----------------------- MODULE TaskExecution_proofs -----------------------
(***************************************************************************)
(* What is proved of the task ledger and the outbound work bound to it,    *)
(* for any number of runtimes, targets and events.  The first part is the  *)
(* invariant of the ledger (TaskInv) with the history properties that      *)
(* follow and the step-by-step refinement of the raw fence; the second     *)
(* adds what a dispatch, a cancellation or a source mutation in progress   *)
(* has behind it (ExecInv), which the two action properties need.          *)
(***************************************************************************)
EXTENDS TaskExecution, TLAPS

\* What is known of a call from the step it is in.
CallTyped(c) ==
    /\ c.step \in Steps
    /\ c.ev \in Events \cup {Nil}
    /\ c.x \in Targets \cup {Nil}
    /\ c.ref \in Refs \cup {Nil}
    /\ c.m \in Mutations \cup {Nil}
    /\ c = [step |-> c.step, ev |-> c.ev, x |-> c.x, ref |-> c.ref, m |-> c.m]

LEMMA CallRecord ==
    ASSUME NEW c
    PROVE  c \in Calls <=> CallTyped(c)
BY DEF Calls, CallTyped

\* The fields an event has, by its type.
LEMMA EventShape ==
    ASSUME NEW e \in Events
    PROVE  /\ e.task \in Tasks
           /\ e.type \in {"DEPENDENCY", "DEPENDENCY_CANCELLED"} => e \in DependencyEvents
           /\ e.type = "DELEGATED" => e \in DelegatedEvents
           /\ e.type = "REASSIGNED" => e \in ReassignedEvents
           /\ e.type \in {"RETURNED", "CANCELLED"} => e \in TerminalEvents
           /\ e.type = "CORRECTION" => e \in CorrectionEvents
           /\ e.type = "CHECKPOINT" => e \in CheckpointEvents
           /\ e.type \in {"OPENED", "CLOSED"} => e \in PlainEvents
           /\ e.type \in {"DEPENDENCY", "DEPENDENCY_CANCELLED", "DELEGATED", "REASSIGNED",
                          "RETURNED", "CANCELLED", "CORRECTION", "CHECKPOINT", "OPENED",
                          "CLOSED"}
BY DEF Events, DependencyEvents, DelegatedEvents, ReassignedEvents, TerminalEvents,
       CorrectionEvents, CheckpointEvents, PlainEvents

----------------------------------------------------------------------------
(* Type correctness.                                                       *)

LedgerTyped ==
    /\ opened \subseteq Tasks /\ closed \subseteq Tasks /\ rejected \subseteq Tasks
    /\ dep \in [Tasks -> [Deps -> Targets \cup {Nil}]]
    /\ cancelled \in [Tasks -> SUBSET Deps]
    /\ deleg \in [Tasks -> [Delegs -> Delegation]]
    /\ corrected \in [Tasks -> SUBSET Corrections]
    /\ unresolved \in [Tasks -> SUBSET Corrections]
    /\ events \in Nat
    /\ \A t \in Tasks, g \in Delegs : ActiveDelegation(t, g) =>
           deleg[t][g].scope \in Scopes /\ deleg[t][g].assignee \in Assignees

OutboundTyped ==
    /\ binding \in [Targets -> SUBSET (Refs \cup {Nil})]
    /\ mutation \in [SourceMutations -> Mutations \cup {Nil}]
    /\ fence \in [Targets -> Fence!FenceState]
    /\ authority \in [Targets -> Refs \cup {Nil}]
    /\ outcome \subseteq Targets

\* What a call carries in the step it is in.
CallOK(c) ==
    /\ c.step \in {"append", "bind"} => c.ev \in Events
    /\ c.step \in {"bind", "prepare", "source"} => c.x \in Targets /\ c.ref \in Refs
    /\ c.step \in {"bind", "prepare", "source"} /\ c.x \in SourceMutations =>
           c.m \in Mutations
    /\ c.step = "source" => c.x \in SourceMutations
    /\ c.step = "held" => c.x \in PCJobs
    /\ c.step \in {"dispatch", "reserved", "executing", "record"} => c.x \in Targets

CallsTyped ==
    /\ call \in [Runtimes -> Calls]
    /\ \A r \in Runtimes : CallOK(call[r])

TypeInv == LedgerTyped /\ OutboundTyped /\ CallsTyped /\ lock \in Runtimes \cup {Nil}

LEMMA TypeInvTypeOK == TypeInv => TypeOK
BY DEF TypeInv, TypeOK, LedgerTyped, OutboundTyped, CallsTyped

LEMMA IdleOK == Idle \in Calls /\ CallOK(Idle)
BY DEF Idle, At, Calls, CallOK, Steps

\* One call changes.
LEMMA CallUpdate ==
    ASSUME CallsTyped, NEW r \in Runtimes, NEW c \in Calls, CallOK(c),
           call' = [call EXCEPT ![r] = c]
    PROVE  CallsTyped'
BY DEF CallsTyped, CallOK

\* Its step changes.
LEMMA CallStep ==
    ASSUME CallsTyped, NEW r \in Runtimes, NEW s \in Steps, Go(r, s)
    PROVE  /\ call'[r] = [call[r] EXCEPT !.step = s]
           /\ call'[r] \in Calls
           /\ call'[r].step = s /\ call'[r].ev = call[r].ev /\ call'[r].x = call[r].x
           /\ call'[r].ref = call[r].ref /\ call'[r].m = call[r].m
           /\ CallOK(call'[r]) => CallsTyped'
<1>1. call' = [call EXCEPT ![r] = [call[r] EXCEPT !.step = s]]
  BY DEF Go, CallsTyped
<1>2. [call[r] EXCEPT !.step = s] \in Calls
  BY DEF CallsTyped, Calls
<1> QED
  BY <1>1, <1>2 DEF CallsTyped, Calls

\* A call ends.
LEMMA ReturnTyped ==
    ASSUME CallsTyped, lock \in Runtimes \cup {Nil}, NEW r \in Runtimes, Return(r)
    PROVE  CallsTyped' /\ lock' \in Runtimes \cup {Nil}
BY IdleOK, CallUpdate DEF Return

LEMMA JournalTyped ==
    ASSUME LedgerTyped, NEW e \in Events, Journal(e)
    PROVE  LedgerTyped'
<1> DEFINE t == e.task
<1>t. t \in Tasks
  BY EventShape
<1>1. opened' \subseteq Tasks /\ closed' \subseteq Tasks /\ rejected' \subseteq Tasks
  BY <1>t DEF Journal, LedgerTyped
<1>2. events' \in Nat
  BY DEF Journal, LedgerTyped
<1>3. dep' \in [Tasks -> [Deps -> Targets \cup {Nil}]]
  <2>1. CASE e.type = "DEPENDENCY"
    <3>1. e.id \in Deps /\ e.target \in Targets
      BY <2>1, EventShape DEF DependencyEvents
    <3>2. dep' = [dep EXCEPT ![t] = [dep[t] EXCEPT ![e.id] = e.target]]
      BY <2>1 DEF Journal
    <3> HIDE DEF t
    <3>3. [dep[t] EXCEPT ![e.id] = e.target] \in [Deps -> Targets \cup {Nil}]
      BY <1>t, <3>1 DEF LedgerTyped
    <3> QED
      BY <1>t, <3>2, <3>3 DEF LedgerTyped
  <2> QED
    BY <2>1 DEF Journal, LedgerTyped
<1>4. cancelled' \in [Tasks -> SUBSET Deps]
  <2>1. CASE e.type = "DEPENDENCY_CANCELLED"
    <3>1. e.id \in Deps
      BY <2>1, EventShape DEF DependencyEvents
    <3> QED
      BY <1>t, <2>1, <3>1 DEF Journal, LedgerTyped
  <2> QED
    BY <2>1 DEF Journal, LedgerTyped
<1>5. deleg' \in [Tasks -> [Delegs -> Delegation]]
  <2>1. CASE e.type \in {"DELEGATED", "REASSIGNED", "RETURNED", "CANCELLED"}
    <3>1. e.id \in Delegs /\ Replayed(e) \in Delegation
      <4>1. CASE e.type = "DELEGATED"
        BY <4>1, EventShape DEF DelegatedEvents, Replayed, Delegation, DelegStatus
      <4>2. CASE e.type = "REASSIGNED"
        <5>1. e.id \in Delegs /\ e.assignee \in Assignees
          BY <4>2, EventShape DEF ReassignedEvents
        <5>2. deleg[t][e.id] \in Delegation
          BY <1>t, <5>1 DEF LedgerTyped
        <5> DEFINE g == deleg[t][e.id]
        <5>3. Replayed(e) = [g EXCEPT !.assignee = e.assignee, !.rev = g.rev + 1]
          BY <4>2 DEF Replayed
        <5>4. g.rev + 1 \in Nat
          BY <5>2 DEF Delegation
        <5>5. g \in Delegation
          BY <5>2
        <5> HIDE DEF g
        <5> QED
          BY <5>1, <5>3, <5>4, <5>5 DEF Delegation
      <4>3. CASE e.type \in {"RETURNED", "CANCELLED"}
        <5>1. e.id \in Delegs
          BY <4>3, EventShape DEF TerminalEvents
        <5>2. deleg[t][e.id] \in Delegation
          BY <1>t, <5>1 DEF LedgerTyped
        <5> QED
          BY <4>3, <5>1, <5>2 DEF Replayed, Delegation, DelegStatus
      <4> QED
        BY <2>1, <4>1, <4>2, <4>3
    <3>2. deleg' = [deleg EXCEPT ![t] = [deleg[t] EXCEPT ![e.id] = Replayed(e)]]
      BY <2>1 DEF Journal
    <3> HIDE DEF t
    <3>3. [deleg[t] EXCEPT ![e.id] = Replayed(e)] \in [Delegs -> Delegation]
      BY <1>t, <3>1 DEF LedgerTyped
    <3> QED
      BY <1>t, <3>2, <3>3 DEF LedgerTyped
  <2> QED
    BY <2>1 DEF Journal, LedgerTyped
<1>6. corrected' \in [Tasks -> SUBSET Corrections]
  <2>1. CASE e.type = "CORRECTION"
    <3>1. e.id \in Corrections
      BY <2>1, EventShape DEF CorrectionEvents
    <3> QED
      BY <1>t, <2>1, <3>1 DEF Journal, LedgerTyped
  <2> QED
    BY <2>1 DEF Journal, LedgerTyped
<1>7. unresolved' \in [Tasks -> SUBSET Corrections]
  <2>1. CASE e.type = "CORRECTION"
    <3>1. e.id \in Corrections
      BY <2>1, EventShape DEF CorrectionEvents
    <3> QED
      BY <1>t, <2>1, <3>1 DEF Journal, LedgerTyped
  <2>2. CASE e.type = "CHECKPOINT"
    BY <1>t, <2>2 DEF Journal, LedgerTyped
  <2> QED
    BY <2>1, <2>2 DEF Journal, LedgerTyped
<1>8. ASSUME NEW u \in Tasks, NEW h \in Delegs, ActiveDelegation(u, h)'
      PROVE  deleg'[u][h].scope \in Scopes /\ deleg'[u][h].assignee \in Assignees
  <2>1. CASE deleg'[u][h] = deleg[u][h]
    BY <1>8, <2>1 DEF LedgerTyped, ActiveDelegation
  <2>2. CASE deleg'[u][h] # deleg[u][h]
    <3>1. e.type \in {"DELEGATED", "REASSIGNED", "RETURNED", "CANCELLED"}
      BY <2>2 DEF Journal
    <3>2. deleg' = [deleg EXCEPT ![t] = [deleg[t] EXCEPT ![e.id] = Replayed(e)]]
      BY <3>1 DEF Journal
    <3>3. u = t /\ h = e.id /\ deleg'[u][h] = Replayed(e)
      BY <2>2, <3>2, <1>t DEF LedgerTyped
    <3>4. CASE e.type = "DELEGATED"
      BY <3>3, <3>4, EventShape DEF DelegatedEvents, Replayed
    <3>5. CASE e.type = "REASSIGNED"
      <4>1. e.assignee \in Assignees
        BY <3>5, EventShape DEF ReassignedEvents
      <4>2. deleg[u][h] \in Delegation
        BY DEF LedgerTyped
      <4>3. Replayed(e) = [deleg[u][h] EXCEPT !.assignee = e.assignee, !.rev = @ + 1]
        BY <3>3, <3>5 DEF Replayed
      <4>4. /\ Replayed(e).status = deleg[u][h].status
            /\ Replayed(e).scope = deleg[u][h].scope
            /\ Replayed(e).assignee = e.assignee
        BY <4>2, <4>3 DEF Delegation
      <4> QED
        BY <1>8, <3>3, <4>1, <4>4 DEF ActiveDelegation, LedgerTyped
    <3>6. CASE e.type \in {"RETURNED", "CANCELLED"}
      <4>1. deleg[u][h] \in Delegation
        BY DEF LedgerTyped
      <4>2. Replayed(e).status = e.type
        BY <3>3, <3>6, <4>1 DEF Replayed, Delegation
      <4> QED
        BY <1>8, <3>3, <3>6, <4>2 DEF ActiveDelegation
    <3> QED
      BY <3>1, <3>4, <3>5, <3>6
  <2> QED
    BY <2>1, <2>2
<1> QED
  BY <1>1, <1>2, <1>3, <1>4, <1>5, <1>6, <1>7, <1>8 DEF LedgerTyped, ActiveDelegation

LEMMA DecideTyped ==
    ASSUME TypeInv, NEW r \in Runtimes, NEW e \in Events, Decide(r, e)
    PROVE  TypeInv'
<1>1. Appending(e) \in Calls /\ CallOK(Appending(e))
  BY DEF Appending, Calls, CallOK, Steps
<1>2. CallsTyped'
  BY <1>1, CallUpdate DEF TypeInv, Decide
<1>3. LedgerTyped' /\ OutboundTyped'
  BY DEF TypeInv, Decide, ledgerVars, outboundVars, LedgerTyped, OutboundTyped, ActiveDelegation
<1> QED
  BY <1>2, <1>3 DEF TypeInv, Decide, Acquire

LEMMA DependencyEventTyped ==
    ASSUME NEW t \in Tasks, NEW d \in Deps, NEW x \in Targets,
           NEW type \in {"DEPENDENCY", "DEPENDENCY_CANCELLED"}
    PROVE  /\ DependencyEvent(type, t, d, x) \in Events
           /\ DependencyEvent(type, t, d, x).type = type
           /\ DependencyEvent(type, t, d, x).task = t
           /\ DependencyEvent(type, t, d, x).id = d
           /\ DependencyEvent(type, t, d, x).target = x
BY DEF DependencyEvent, Events, DependencyEvents

\* Every event an operation on the ledger decides to append is an event.
LEMMA LedgerNextTyped ==
    ASSUME TypeInv, NEW r \in Runtimes, LedgerNext(r)
    PROVE  \E e \in Events : Decide(r, e)
<1>0. LedgerTyped
  BY DEF TypeInv
<1> PICK t \in Tasks :
        \/ StartTask(r, t)
        \/ \E d \in Deps, x \in Targets : BindTaskDependency(r, t, d, x)
        \/ \E d \in Deps : CancelTaskDependency(r, t, d)
        \/ \E g \in Delegs, s \in Scopes, a \in Assignees : DelegateTaskWork(r, t, g, s, a)
        \/ \E g \in Delegs, a \in Assignees : ReassignTaskDelegation(r, t, g, a)
        \/ \E g \in Delegs, type \in {"RETURNED", "CANCELLED"} :
               EndTaskDelegation(r, t, g, type)
        \/ \E c \in Corrections : RecordTaskCorrection(r, t, c)
        \/ CheckpointTask(r, t)
        \/ CloseTask(r, t)
  BY DEF LedgerNext
<1>1. CASE StartTask(r, t)
  BY <1>1 DEF StartTask, Events, PlainEvents
<1>2. CASE \E d \in Deps, x \in Targets : BindTaskDependency(r, t, d, x)
  BY <1>2, DependencyEventTyped DEF BindTaskDependency
<1>3. CASE \E d \in Deps : CancelTaskDependency(r, t, d)
  <2>1. PICK d \in Deps : CancelTaskDependency(r, t, d)
    BY <1>3
  <2>2. dep[t][d] \in Targets
    BY <1>0, <2>1 DEF CancelTaskDependency, Active, LedgerTyped
  <2> QED
    BY <2>1, <2>2, DependencyEventTyped DEF CancelTaskDependency
<1>4. CASE \E g \in Delegs, s \in Scopes, a \in Assignees : DelegateTaskWork(r, t, g, s, a)
  BY <1>4 DEF DelegateTaskWork, Events, DelegatedEvents
<1>5. CASE \E g \in Delegs, a \in Assignees : ReassignTaskDelegation(r, t, g, a)
  <2>1. PICK g \in Delegs, a \in Assignees : ReassignTaskDelegation(r, t, g, a)
    BY <1>5
  <2>2. deleg[t][g].assignee \in Assignees
    BY <1>0, <2>1 DEF ReassignTaskDelegation, LedgerTyped
  <2> QED
    BY <2>1, <2>2 DEF ReassignTaskDelegation, Events, ReassignedEvents
<1>6. CASE \E g \in Delegs, type \in {"RETURNED", "CANCELLED"} :
               EndTaskDelegation(r, t, g, type)
  <2>1. PICK g \in Delegs, type \in {"RETURNED", "CANCELLED"} : EndTaskDelegation(r, t, g, type)
    BY <1>6
  <2>2. deleg[t][g].assignee \in Assignees
    BY <1>0, <2>1 DEF EndTaskDelegation, LedgerTyped
  <2> QED
    BY <2>1, <2>2 DEF EndTaskDelegation, Events, TerminalEvents
<1>7. CASE \E c \in Corrections : RecordTaskCorrection(r, t, c)
  BY <1>7 DEF RecordTaskCorrection, Events, CorrectionEvents
<1>8. CASE CheckpointTask(r, t)
  <2>1. unresolved[t] \in SUBSET Corrections
    BY <1>0 DEF LedgerTyped
  <2> QED
    BY <1>8, <2>1 DEF CheckpointTask, Events, CheckpointEvents
<1>9. CASE CloseTask(r, t)
  BY <1>9 DEF CloseTask, Events, PlainEvents
<1> QED
  BY <1>1, <1>2, <1>3, <1>4, <1>5, <1>6, <1>7, <1>8, <1>9

LEMMA LedgerUnchanged ==
    ASSUME LedgerTyped, UNCHANGED ledgerVars
    PROVE  LedgerTyped'
BY DEF LedgerTyped, ledgerVars, ActiveDelegation

LEMMA OutboundUnchanged ==
    ASSUME OutboundTyped, UNCHANGED outboundVars
    PROVE  OutboundTyped'
BY DEF OutboundTyped, outboundVars

\* What a source mutation is prepared with.
LEMMA OwnerTyped ==
    ASSUME LedgerTyped, NEW t \in Tasks, NEW s \in Scopes, NEW a \in Assignees,
           NEW o \in OwnerRefs(t)
    PROVE  [scope |-> s, actor |-> a, owner |-> o] \in Mutations
<1>1. \A g \in Delegs : deleg[t][g].rev \in Nat
  BY DEF LedgerTyped, Delegation
<1>2. o \in (Tasks \X Delegs \X Nat) \cup {Nil}
  BY <1>1 DEF OwnerRefs
<1> QED
  BY <1>2 DEF Mutations

LEMMA PrepareTaskTyped ==
    ASSUME TypeInv, NEW r \in Runtimes, NEW t \in Tasks, NEW d \in Deps,
           NEW x \in Targets, NEW m \in Mutations \cup {Nil},
           x \in SourceMutations => m \in Mutations,
           PrepareTask(r, t, d, x, m)
    PROVE  TypeInv'
<1> DEFINE ref == <<t, d>>
           c1 == [step |-> "prepare", ev |-> Nil, x |-> x, ref |-> ref, m |-> m]
           e == DependencyEvent("DEPENDENCY", t, d, x)
           c2 == [step |-> "bind", ev |-> e, x |-> x, ref |-> ref, m |-> m]
<1>1. ref \in Refs
  BY DEF Refs
<1>2. e \in Events
  BY DependencyEventTyped
<1>3. call' = [call EXCEPT ![r] = c1] \/ call' = [call EXCEPT ![r] = c2]
  BY DEF PrepareTask
<1>4. c1 \in Calls /\ CallOK(c1)
  <2> HIDE DEF ref
  <2> QED BY <1>1 DEF Calls, CallOK, Steps
<1>5. c2 \in Calls /\ CallOK(c2)
  <2> HIDE DEF ref, e
  <2> QED BY <1>1, <1>2 DEF Calls, CallOK, Steps
<1>6. CallsTyped'
  <2> HIDE DEF c1, c2
  <2> QED BY <1>3, <1>4, <1>5, CallUpdate DEF TypeInv
<1> QED
  BY <1>6, LedgerUnchanged, OutboundUnchanged DEF TypeInv, PrepareTask, Acquire

LEMMA AtTyped ==
    ASSUME NEW x \in Targets, NEW ref \in Refs \cup {Nil}
    PROVE  /\ At("dispatch", x, ref) \in Calls /\ CallOK(At("dispatch", x, ref))
           /\ x \in PCJobs => At("held", x, ref) \in Calls /\ CallOK(At("held", x, ref))
BY DEF At, Calls, CallOK, Steps

LEMMA PrepareNextTyped ==
    ASSUME TypeInv, NEW r \in Runtimes, PrepareNext(r)
    PROVE  TypeInv'
<1>0. LedgerTyped /\ OutboundTyped /\ CallsTyped /\ lock \in Runtimes \cup {Nil}
  BY DEF TypeInv
<1>c. call[r] \in Calls /\ CallOK(call[r])
  BY <1>0 DEF CallsTyped
<1>1. CASE \E t \in Tasks, d \in Deps, x \in Targets \ SourceMutations :
             PrepareTask(r, t, d, x, Nil)
  BY <1>1, PrepareTaskTyped
<1>2. CASE \E t \in Tasks, d \in Deps, x \in SourceMutations, s \in Scopes,
             a \in Assignees : \E o \in OwnerRefs(t) :
             PrepareTask(r, t, d, x, [scope |-> s, actor |-> a, owner |-> o])
  <2>0. PICK t \in Tasks, d \in Deps, x \in SourceMutations, s \in Scopes, a \in Assignees :
             \E o \in OwnerRefs(t) :
                 PrepareTask(r, t, d, x, [scope |-> s, actor |-> a, owner |-> o])
    BY <1>2
  <2>1. PICK o \in OwnerRefs(t) :
             PrepareTask(r, t, d, x, [scope |-> s, actor |-> a, owner |-> o])
    BY <2>0
  <2>2. [scope |-> s, actor |-> a, owner |-> o] \in Mutations
    BY <1>0, OwnerTyped
  <2>3. x \in Targets
    BY DEF Targets
  <2> QED
    BY <2>1, <2>2, <2>3, PrepareTaskTyped
<1>3. CASE Prepared(r)
  <2> DEFINE x == call[r].x
             ref == call[r].ref
  <2>1. x \in Targets /\ ref \in Refs
    BY <1>3, <1>c DEF Prepared, CallOK
  <2>2. LedgerTyped'
    BY <1>0, <1>3, LedgerUnchanged DEF Prepared
  <2>3. OutboundTyped'
    BY <1>0, <1>3, <2>1 DEF Prepared, OutboundTyped
  <2>4. CallsTyped' /\ lock' \in Runtimes \cup {Nil}
    <3>1. CASE x \in PCJobs /\ Hold(r, x, ref)
      <4> HIDE DEF x, ref
      <4> QED BY <1>0, <2>1, <3>1, AtTyped, CallUpdate DEF Hold
    <3>2. CASE Return(r)
      BY <1>0, <3>2, ReturnTyped
    <3>3. CASE x \in SourceMutations /\ Go(r, "source") /\ UNCHANGED lock
      <4>1. "source" \in Steps
        BY DEF Steps
      <4>2. CallOK(call'[r])
        BY <1>0, <1>c, <1>3, <2>1, <3>3, <4>1, CallStep DEF CallOK, Prepared
      <4> QED
        BY <1>0, <3>3, <4>1, <4>2, CallStep
    <3>4. CASE Go(r, "dispatch") /\ UNCHANGED lock
      <4>1. "dispatch" \in Steps
        BY DEF Steps
      <4>2. CallOK(call'[r])
        BY <1>0, <1>c, <1>3, <2>1, <3>4, <4>1, CallStep DEF CallOK, Prepared
      <4> QED
        BY <1>0, <3>4, <4>1, <4>2, CallStep
    <3> QED
      BY <1>3, <3>1, <3>2, <3>3, <3>4 DEF Prepared
  <2> QED
    BY <2>2, <2>3, <2>4 DEF TypeInv
<1>4. CASE BindSource(r)
  <2>1. call[r].x \in SourceMutations /\ call[r].m \in Mutations
    BY <1>4, <1>c DEF BindSource, CallOK
  <2>2. OutboundTyped'
    BY <1>0, <1>4, <2>1 DEF BindSource, OutboundTyped
  <2> QED
    BY <1>0, <1>4, <2>2, ReturnTyped, LedgerUnchanged DEF BindSource, TypeInv
<1>5. CASE PrepareFails(r)
  <2> DEFINE x == call[r].x
             ref == call[r].ref
             e == DependencyEvent("DEPENDENCY_CANCELLED", ref[1], ref[2], x)
  <2>1. x \in Targets /\ ref \in Refs
    BY <1>5, <1>c DEF PrepareFails, CallOK
  <2>2. ref[1] \in Tasks /\ ref[2] \in Deps
    BY <2>1 DEF Refs
  <2>3. e \in Events
    BY <2>1, <2>2, DependencyEventTyped
  <2>4. LedgerTyped' /\ OutboundTyped'
    BY <1>0, <1>5, LedgerUnchanged, OutboundUnchanged DEF PrepareFails
  <2>5. CASE Return(r)
    BY <1>0, <2>4, <2>5, ReturnTyped DEF TypeInv
  <2>6. CASE call' = [call EXCEPT ![r] = Appending(e)] /\ UNCHANGED lock
    <3> HIDE DEF e
    <3>1. Appending(e) \in Calls /\ CallOK(Appending(e))
      BY <2>3 DEF Appending, Calls, CallOK, Steps
    <3> QED
      BY <1>0, <2>4, <2>6, <3>1, CallUpdate DEF TypeInv
  <2> QED
    BY <1>5, <2>5, <2>6 DEF PrepareFails
<1>6. CASE \E x \in Targets : PrepareUnbound(r, x)
  <2>1. PICK x \in Targets : PrepareUnbound(r, x)
    BY <1>6
  <2>2. LedgerTyped' /\ OutboundTyped'
    BY <1>0, <2>1, LedgerUnchanged DEF PrepareUnbound, OutboundTyped
  <2>3. CallsTyped' /\ lock' \in Runtimes \cup {Nil}
    <3>1. CASE x \in PCJobs /\ Hold(r, x, Nil)
      BY <1>0, <3>1, AtTyped, CallUpdate DEF Hold
    <3>2. CASE UNCHANGED <<lock, call>>
      BY <1>0, <3>2 DEF CallsTyped
    <3> QED
      BY <2>1, <3>1, <3>2 DEF PrepareUnbound
  <2> QED
    BY <2>2, <2>3 DEF TypeInv
<1>7. CASE \E x \in Targets : InvokeUnbound(r, x)
  <2>1. PICK x \in Targets : InvokeUnbound(r, x)
    BY <1>7
  <2>2. LedgerTyped' /\ OutboundTyped'
    BY <1>0, <2>1, LedgerUnchanged DEF InvokeUnbound, OutboundTyped
  <2>3. CallsTyped'
    BY <1>0, <2>1, AtTyped, CallUpdate DEF InvokeUnbound
  <2> QED
    BY <1>0, <2>1, <2>2, <2>3 DEF InvokeUnbound, TypeInv
<1>8. CASE BindPCAttempt(r)
  <2>1. call[r].x \in Targets /\ call[r].ref \in Refs \cup {Nil}
    BY <1>8, <1>c DEF BindPCAttempt, CallOK, Calls, Targets
  <2>2. OutboundTyped'
    BY <1>0, <1>8, <2>1 DEF BindPCAttempt, OutboundTyped
  <2> QED
    BY <1>0, <1>8, <2>2, LedgerUnchanged DEF BindPCAttempt, TypeInv, CallsTyped
<1>9. CASE \E x \in PCJobs, ref \in Refs \cup {Nil} : RecoverPCAttempt(r, x, ref)
  <2>1. PICK x \in PCJobs, ref \in Refs \cup {Nil} : RecoverPCAttempt(r, x, ref)
    BY <1>9
  <2>2. x \in Targets
    BY DEF Targets
  <2>3. CallsTyped' /\ lock' \in Runtimes \cup {Nil}
    BY <1>0, <2>1, <2>2, AtTyped, CallUpdate DEF Hold, RecoverPCAttempt
  <2> QED
    BY <1>0, <2>1, <2>3, LedgerUnchanged, OutboundUnchanged DEF RecoverPCAttempt, TypeInv
<1> QED
  BY <1>1, <1>2, <1>3, <1>4, <1>5, <1>6, <1>7, <1>8, <1>9 DEF PrepareNext

LEMMA FenceStates ==
    /\ {"ABSENT", "RESERVED", "EXECUTING", "CANCELLED_PRE_DISPATCH"} \subseteq Fence!FenceState
    /\ \A b \in BOOLEAN : Fence!SettledState(b) \in {"COMMITTED", "ATTEMPTED_UNKNOWN"}
    /\ \A b \in BOOLEAN : Fence!ReconciledState(b) \in {"RECONCILED_COMMITTED", "RECONCILED_NO_EFFECT"}
    /\ \A b \in BOOLEAN : Fence!SettledState(b) \in Fence!FenceState
    /\ \A b \in BOOLEAN : Fence!ReconciledState(b) \in Fence!FenceState
BY DEF Fence!FenceState, Fence!EffectState, Fence!SettledState, Fence!ReconciledState

LEMMA DispatchNextTyped ==
    ASSUME TypeInv, NEW r \in Runtimes, DispatchNext(r)
    PROVE  TypeInv'
<1>0. LedgerTyped /\ OutboundTyped /\ CallsTyped /\ lock \in Runtimes \cup {Nil}
  BY DEF TypeInv
<1>c. call[r] \in Calls /\ CallOK(call[r])
  BY <1>0 DEF CallsTyped
<1>1. CASE \E x \in Targets, ref \in Refs \cup {Nil} : Dispatch(r, x, ref)
  <2>1. PICK x \in Targets, ref \in Refs \cup {Nil} : Dispatch(r, x, ref)
    BY <1>1
  <2>2. CallsTyped'
    BY <1>0, <2>1, AtTyped, CallUpdate DEF Dispatch, Dispatching
  <2> QED
    BY <1>0, <2>1, <2>2, LedgerUnchanged, OutboundUnchanged DEF Dispatch, TypeInv
<1>2. CASE \E x \in SourceMutations, ref \in Refs : ExecuteMutation(r, x, ref)
  <2>1. PICK x \in SourceMutations, ref \in Refs : ExecuteMutation(r, x, ref)
    BY <1>2
  <2>2. x \in Targets
    BY DEF Targets
  <2>3. CallsTyped'
    BY <1>0, <2>1, <2>2, AtTyped, CallUpdate DEF ExecuteMutation, Dispatching
  <2> QED
    BY <1>0, <2>1, <2>3, LedgerUnchanged, OutboundUnchanged
    DEF ExecuteMutation, Acquire, TypeInv
<1>3. CASE \E x \in SourceMutations, ref \in Refs : CancelReservedMutation(r, x, ref)
  <2>1. PICK x \in SourceMutations, ref \in Refs : CancelReservedMutation(r, x, ref)
    BY <1>3
  <2> DEFINE e == DependencyEvent("DEPENDENCY_CANCELLED", ref[1], ref[2], x)
  <2>2. x \in Targets /\ ref[1] \in Tasks /\ ref[2] \in Deps
    BY DEF Targets, Refs
  <2>3. e \in Events
    BY <2>2, DependencyEventTyped
  <2>4. call' = [call EXCEPT ![r] = Appending(e)]
    BY <2>1 DEF CancelReservedMutation
  <2> HIDE DEF e
  <2>5. Appending(e) \in Calls /\ CallOK(Appending(e))
    BY <2>3 DEF Appending, Calls, CallOK, Steps
  <2>6. OutboundTyped'
    BY <1>0, <2>1, <2>2, FenceStates DEF CancelReservedMutation, OutboundTyped
  <2> QED
    BY <1>0, <2>1, <2>4, <2>5, <2>6, CallUpdate, LedgerUnchanged
    DEF CancelReservedMutation, Acquire, TypeInv
<1>4. CASE Reserve(r)
  <2>1. call[r].x \in Targets /\ call[r].ref \in Refs \cup {Nil} /\ "reserved" \in Steps
    BY <1>4, <1>c DEF Reserve, CallOK, Calls, Steps
  <2>2. CallOK(call'[r])
    BY <1>0, <1>c, <1>4, <2>1, CallStep DEF CallOK, Reserve
  <2>3. CallsTyped'
    BY <1>0, <1>4, <2>1, <2>2, CallStep DEF Reserve
  <2>4. OutboundTyped'
    BY <1>0, <1>4, <2>1, FenceStates DEF Reserve, OutboundTyped
  <2> QED
    BY <1>0, <1>4, <2>3, <2>4, LedgerUnchanged DEF Reserve, TypeInv
<1>5. CASE Claim(r)
  <2>1. call[r].x \in Targets /\ "executing" \in Steps
    BY <1>5, <1>c DEF Claim, CallOK, Steps
  <2>2. CallOK(call'[r])
    BY <1>0, <1>c, <1>5, <2>1, CallStep DEF CallOK, Claim
  <2>3. CallsTyped'
    BY <1>0, <1>5, <2>1, <2>2, CallStep DEF Claim
  <2>4. OutboundTyped'
    BY <1>0, <1>5, <2>1, FenceStates DEF Claim, OutboundTyped
  <2> QED
    BY <1>0, <1>5, <2>3, <2>4, LedgerUnchanged DEF Claim, TypeInv
<1>6. CASE Refused(r)
  BY <1>0, <1>6, ReturnTyped, LedgerUnchanged, OutboundUnchanged DEF Refused, TypeInv
<1>7. CASE RecordOutcome(r)
  <2>1. call[r].x \in Targets
    BY <1>7, <1>c DEF RecordOutcome, CallOK
  <2>2. OutboundTyped'
    BY <1>0, <1>7, <2>1 DEF RecordOutcome, OutboundTyped
  <2> QED
    BY <1>0, <1>7, <2>2, ReturnTyped, LedgerUnchanged DEF RecordOutcome, TypeInv
<1>8. CASE \E known \in BOOLEAN : Settle(r, known)
  <2>1. PICK known \in BOOLEAN : Settle(r, known)
    BY <1>8
  <2>2. call[r].x \in Targets /\ "record" \in Steps
    BY <2>1, <1>c DEF Settle, CallOK, Steps
  <2>3. OutboundTyped'
    BY <1>0, <2>1, <2>2, FenceStates DEF Settle, OutboundTyped
  <2>4. CASE Return(r)
    BY <1>0, <2>1, <2>3, <2>4, ReturnTyped, LedgerUnchanged DEF Settle, TypeInv
  <2>5. CASE Go(r, "record") /\ UNCHANGED lock
    <3>1. CallOK(call'[r])
      BY <1>0, <1>c, <2>1, <2>2, <2>5, CallStep DEF CallOK, Settle
    <3>2. CallsTyped'
      BY <1>0, <2>2, <2>5, <3>1, CallStep
    <3> QED
      BY <1>0, <2>1, <2>3, <2>5, <3>2, LedgerUnchanged DEF Settle, TypeInv
  <2> QED
    BY <2>1, <2>4, <2>5 DEF Settle
<1> QED
  BY <1>1, <1>2, <1>3, <1>4, <1>5, <1>6, <1>7, <1>8 DEF DispatchNext

LEMMA AppendTyped ==
    ASSUME TypeInv, NEW r \in Runtimes, Append(r)
    PROVE  TypeInv'
<1>0. LedgerTyped /\ OutboundTyped /\ CallsTyped /\ lock \in Runtimes \cup {Nil}
  BY DEF TypeInv
<1>c. call[r] \in Calls /\ CallOK(call[r]) /\ call[r].ev \in Events
  BY <1>0 DEF CallsTyped, Append, CallOK
<1>1. LedgerTyped' /\ OutboundTyped'
  BY <1>0, <1>c, JournalTyped, OutboundUnchanged DEF Append
<1>2. CASE Return(r)
  BY <1>0, <1>1, <1>2, ReturnTyped DEF TypeInv
<1>3. CASE ~Return(r)
  <2> DEFINE c == [call[r] EXCEPT !.step = "prepare", !.ev = Nil]
  <2>1. call[r].step = "bind" /\ call' = [call EXCEPT ![r] = c] /\ UNCHANGED lock
    BY <1>3 DEF Append
  <2>2. c \in Calls /\ CallOK(c)
    BY <1>c, <2>1 DEF Calls, CallOK, Steps
  <2> HIDE DEF c
  <2> QED
    BY <1>0, <1>1, <2>1, <2>2, CallUpdate DEF TypeInv
<1> QED
  BY <1>2, <1>3

LEMMA InitTyped == Init => TypeInv
<1> SUFFICES ASSUME Init PROVE TypeInv
  OBVIOUS
<1>1. NoDelegation \in Delegation /\ NoDelegation.status # "ACTIVE"
  BY DEF NoDelegation, Delegation, DelegStatus
<1>2. LedgerTyped
  BY <1>1 DEF Init, LedgerTyped, ActiveDelegation
<1>3. OutboundTyped
  BY FenceStates DEF Init, OutboundTyped
<1>4. CallsTyped
  BY IdleOK DEF Init, CallsTyped
<1> QED
  BY <1>2, <1>3, <1>4 DEF Init, TypeInv

LEMMA NextTyped ==
    ASSUME TypeInv, [Next]_vars
    PROVE  TypeInv'
<1>0. LedgerTyped /\ OutboundTyped /\ CallsTyped /\ lock \in Runtimes \cup {Nil}
  BY DEF TypeInv
<1>1. ASSUME NEW r \in Runtimes, LedgerNext(r)
      PROVE  TypeInv'
  BY <1>1, LedgerNextTyped, DecideTyped
<1>2. ASSUME NEW r \in Runtimes, Append(r)
      PROVE  TypeInv'
  BY <1>2, AppendTyped
<1>3. ASSUME NEW r \in Runtimes, PrepareNext(r)
      PROVE  TypeInv'
  BY <1>3, PrepareNextTyped
<1>4. ASSUME NEW r \in Runtimes, DispatchNext(r)
      PROVE  TypeInv'
  BY <1>4, DispatchNextTyped
<1>5. ASSUME NEW r \in Runtimes, Crash(r)
      PROVE  TypeInv'
  BY <1>0, <1>5, ReturnTyped, LedgerUnchanged, OutboundUnchanged DEF Crash, TypeInv
<1>6. ASSUME NEW x \in Targets, CancelReserved(x)
      PROVE  TypeInv'
  <2>1. OutboundTyped'
    BY <1>0, <1>6, FenceStates DEF CancelReserved, OutboundTyped
  <2> QED
    BY <1>0, <1>6, <2>1, LedgerUnchanged DEF CancelReserved, TypeInv, CallsTyped
<1>7. ASSUME NEW x \in Targets, NEW b \in BOOLEAN, Reconcile(x, b)
      PROVE  TypeInv'
  <2>1. OutboundTyped'
    BY <1>0, <1>7, FenceStates DEF Reconcile, OutboundTyped
  <2> QED
    BY <1>0, <1>7, <2>1, LedgerUnchanged DEF Reconcile, TypeInv, CallsTyped
<1>8. CASE UNCHANGED vars
  BY <1>0, <1>8, LedgerUnchanged, OutboundUnchanged DEF vars, TypeInv, CallsTyped
<1> QED
  BY <1>1, <1>2, <1>3, <1>4, <1>5, <1>6, <1>7, <1>8 DEF Next

(***************************************************************************)
(* The fold of the journal, the calls in progress and the outbound stores  *)
(* keep their types: every event a runtime appends has the fields read()   *)
(* takes from it, and every handler finds the target and reference it      *)
(* needs in the step it is in.                                             *)
(***************************************************************************)
THEOREM TaskTypeCorrect == Spec => []TypeOK
<1>1. Init => TypeInv
  BY InitTyped
<1>2. TypeInv /\ [Next]_vars => TypeInv'
  BY NextTyped
<1>3. TypeInv => TypeOK
  BY TypeInvTypeOK
<1> QED
  BY <1>1, <1>2, <1>3, PTL DEF Spec

----------------------------------------------------------------------------
(* The effect fence.                                                       *)

\* A runtime past Reserve is alone, and before Claim its row is RESERVED: that
\* is why Claim need not look at the row.
FenceInv ==
    /\ \A r \in Runtimes : call[r].step = "reserved" => fence[call[r].x] = "RESERVED"
    /\ \A r, q \in Runtimes : HoldsLifecycleLock(r) /\ HoldsLifecycleLock(q) => r = q

\* A step of runtime q that leaves the fence alone and takes no lifecycle lock.
LEMMA FenceFrame ==
    ASSUME TypeInv, FenceInv, NEW q \in Runtimes, UNCHANGED fence,
           \A r \in Runtimes : r # q => call'[r] = call[r],
           call'[q].step \notin {"reserved", "executing"}
    PROVE  FenceInv'
BY DEF FenceInv, HoldsLifecycleLock

\* The call of runtime q after the steps that do not touch the fence.
LEMMA CallAfter ==
    ASSUME TypeInv, NEW q \in Runtimes, NEW c, call' = [call EXCEPT ![q] = c]
    PROVE  call'[q] = c /\ \A r \in Runtimes : r # q => call'[r] = call[r]
BY DEF TypeInv, CallsTyped

LEMMA CallFields ==
    /\ \A s, x, ref : /\ At(s, x, ref).step = s /\ At(s, x, ref).x = x
                      /\ At(s, x, ref).ref = ref
    /\ \A e : Appending(e).step = "append" /\ Appending(e).ev = e
    /\ Idle.step = "idle"
BY DEF At, Appending, Idle

LEMMA ReturnAfter ==
    ASSUME TypeInv, NEW q \in Runtimes, Return(q)
    PROVE  /\ call'[q] = Idle /\ call'[q].step = "idle"
           /\ \A r \in Runtimes : r # q => call'[r] = call[r]
BY CallFields DEF TypeInv, CallsTyped, Return

LEMMA GoAfter ==
    ASSUME TypeInv, NEW q \in Runtimes, NEW s \in Steps, Go(q, s)
    PROVE  /\ call'[q].step = s /\ call'[q].x = call[q].x /\ call'[q].ref = call[q].ref
           /\ \A r \in Runtimes : r # q => call'[r] = call[r]
BY CallStep DEF TypeInv, CallsTyped, Go

\* Where a step of runtime q that is not a dispatch leaves its call and the fence.
LEMMA LedgerNextCall ==
    ASSUME TypeInv, NEW q \in Runtimes, LedgerNext(q)
    PROVE  /\ UNCHANGED fence /\ call'[q].step = "append"
           /\ \A r \in Runtimes : r # q => call'[r] = call[r]
<1>1. PICK e \in Events : Decide(q, e)
  BY LedgerNextTyped
<1> QED
  BY <1>1, CallFields DEF TypeInv, CallsTyped, Decide, outboundVars

LEMMA AppendCall ==
    ASSUME TypeInv, NEW q \in Runtimes, Append(q)
    PROVE  /\ UNCHANGED fence /\ call'[q].step \in {"idle", "prepare"}
           /\ \A r \in Runtimes : r # q => call'[r] = call[r]
<1>1. CASE Return(q)
  BY <1>1, ReturnAfter DEF Append, outboundVars
<1>2. CASE ~Return(q)
  <2>1. call' = [call EXCEPT ![q] = [call[q] EXCEPT !.step = "prepare", !.ev = Nil]]
    BY <1>2 DEF Append
  <2>2. call[q] \in Calls
    BY DEF TypeInv, CallsTyped
  <2>3. [call[q] EXCEPT !.step = "prepare", !.ev = Nil].step = "prepare"
    BY <2>2 DEF Calls
  <2> QED
    BY <2>1, <2>3, CallAfter DEF Append, outboundVars
<1> QED
  BY <1>1, <1>2

LEMMA PrepareNextCall ==
    ASSUME TypeInv, NEW q \in Runtimes, PrepareNext(q)
    PROVE  /\ UNCHANGED fence
           /\ call'[q].step \in {"idle", "append", "bind", "prepare", "source", "held", "dispatch"}
           /\ \A r \in Runtimes : r # q => call'[r] = call[r]
<1>1. ASSUME NEW t, NEW d, NEW x, NEW m, PrepareTask(q, t, d, x, m)
      PROVE  /\ UNCHANGED fence /\ call'[q].step \in {"bind", "prepare"}
             /\ \A r \in Runtimes : r # q => call'[r] = call[r]
  BY <1>1, CallAfter DEF PrepareTask, outboundVars
<1>2. CASE Prepared(q)
  <2>1. CASE Hold(q, call[q].x, call[q].ref)
    BY <1>2, <2>1, CallFields DEF TypeInv, CallsTyped, Hold, Prepared
  <2>2. CASE Return(q)
    BY <1>2, <2>2, ReturnAfter DEF Prepared
  <2>3. CASE Go(q, "source") \/ Go(q, "dispatch")
    BY <1>2, <2>3, GoAfter DEF Prepared, Steps
  <2> QED
    BY <1>2, <2>1, <2>2, <2>3 DEF Prepared
<1>3. CASE BindSource(q)
  BY <1>3, ReturnAfter DEF BindSource
<1>4. CASE PrepareFails(q)
  <2>1. CASE Return(q)
    BY <1>4, <2>1, ReturnAfter DEF PrepareFails, outboundVars
  <2>2. CASE ~Return(q)
    BY <1>4, <2>2, CallFields DEF TypeInv, CallsTyped, PrepareFails, outboundVars
  <2> QED
    BY <2>1, <2>2
<1>5. ASSUME NEW x \in Targets, PrepareUnbound(q, x)
      PROVE  /\ UNCHANGED fence /\ call'[q].step \in {"idle", "held"}
             /\ \A r \in Runtimes : r # q => call'[r] = call[r]
  <2>1. CASE Hold(q, x, Nil)
    BY <1>5, <2>1, CallFields DEF TypeInv, CallsTyped, Hold, PrepareUnbound
  <2> QED
    BY <1>5, <2>1 DEF PrepareUnbound
<1>6. ASSUME NEW x \in Targets, InvokeUnbound(q, x)
      PROVE  /\ UNCHANGED fence /\ call'[q].step = "dispatch"
             /\ \A r \in Runtimes : r # q => call'[r] = call[r]
  BY <1>6, CallFields DEF TypeInv, CallsTyped, InvokeUnbound
<1>7. CASE BindPCAttempt(q)
  BY <1>7 DEF BindPCAttempt
<1>8. ASSUME NEW x, NEW ref, RecoverPCAttempt(q, x, ref)
      PROVE  /\ UNCHANGED fence /\ call'[q].step = "held"
             /\ \A r \in Runtimes : r # q => call'[r] = call[r]
  BY <1>8, CallFields DEF TypeInv, CallsTyped, RecoverPCAttempt, Hold, outboundVars
<1> QED
  BY <1>1, <1>2, <1>3, <1>4, <1>5, <1>6, <1>7, <1>8 DEF PrepareNext

LEMMA FenceInvStep ==
    ASSUME TypeInv, FenceInv, [Next]_vars
    PROVE  FenceInv'
<1>0. OutboundTyped /\ CallsTyped
  BY DEF TypeInv
<1>t. \A q \in Runtimes : CallOK(call[q])
  BY <1>0 DEF CallsTyped
<1>1. ASSUME NEW q \in Runtimes, LedgerNext(q) PROVE FenceInv'
  BY <1>1, LedgerNextCall, FenceFrame
<1>2. ASSUME NEW q \in Runtimes, Append(q) PROVE FenceInv'
  BY <1>2, AppendCall, FenceFrame
<1>3. ASSUME NEW q \in Runtimes, PrepareNext(q) PROVE FenceInv'
  BY <1>3, PrepareNextCall, FenceFrame
<1>4. ASSUME NEW q \in Runtimes, DispatchNext(q) PROVE FenceInv'
  <2>1. ASSUME NEW x, NEW ref, Dispatch(q, x, ref) \/ ExecuteMutation(q, x, ref) PROVE FenceInv'
    <3>1. call'[q].step = "dispatch" /\ \A r \in Runtimes : r # q => call'[r] = call[r]
      BY <2>1, CallFields DEF TypeInv, CallsTyped, Dispatch, ExecuteMutation, Dispatching
    <3> QED
      BY <2>1, <3>1, FenceFrame DEF Dispatch, ExecuteMutation, outboundVars
  <2>2. ASSUME NEW x \in SourceMutations, NEW ref, CancelReservedMutation(q, x, ref) PROVE FenceInv'
    <3>1. call'[q].step = "append" /\ \A r \in Runtimes : r # q => call'[r] = call[r]
      BY <2>2, CallFields DEF TypeInv, CallsTyped, CancelReservedMutation
    <3>2. \A r \in Runtimes : call'[r].step \notin {"reserved", "executing"}
      BY <2>2, <3>1 DEF CancelReservedMutation, LifecycleLockFree, HoldsLifecycleLock
    <3> QED
      BY <3>2 DEF FenceInv, HoldsLifecycleLock
  <2>3. CASE Reserve(q)
    <3>1. /\ call'[q].step = "reserved" /\ call'[q].x = call[q].x
          /\ \A r \in Runtimes : r # q => call'[r] = call[r]
      BY <2>3, GoAfter DEF Reserve, Steps
    <3>2. call[q].x \in Targets
      BY <2>3, <1>t DEF Reserve, CallOK
    <3>3. fence'[call'[q].x] = "RESERVED"
      BY <1>0, <2>3, <3>1, <3>2 DEF Reserve, OutboundTyped
    <3>4. \A r \in Runtimes : r # q => call'[r].step \notin {"reserved", "executing"}
      BY <2>3, <3>1 DEF Reserve, LifecycleLockFree, HoldsLifecycleLock
    <3> QED
      BY <3>3, <3>4 DEF FenceInv, HoldsLifecycleLock
  <2>4. CASE Claim(q)
    <3>1. call'[q].step = "executing" /\ \A r \in Runtimes : r # q => call'[r] = call[r]
      BY <2>4, GoAfter DEF Claim, Steps
    <3>2. \A r \in Runtimes : r # q => call'[r].step \notin {"reserved", "executing"}
      BY <2>4, <3>1 DEF Claim, FenceInv, HoldsLifecycleLock
    <3> QED
      BY <3>1, <3>2 DEF FenceInv, HoldsLifecycleLock
  <2>5. CASE Refused(q) \/ RecordOutcome(q)
    BY <2>5, ReturnAfter, FenceFrame DEF Refused, RecordOutcome, outboundVars
  <2>6. ASSUME NEW known \in BOOLEAN, Settle(q, known) PROVE FenceInv'
    <3>1. call'[q].step \in {"idle", "record"} /\ \A r \in Runtimes : r # q => call'[r] = call[r]
      BY <2>6, ReturnAfter, GoAfter DEF Settle, Steps
    <3>2. \A r \in Runtimes : call'[r].step \notin {"reserved", "executing"}
      BY <2>6, <3>1 DEF Settle, FenceInv, HoldsLifecycleLock
    <3> QED
      BY <3>2 DEF FenceInv, HoldsLifecycleLock
  <2> QED
    BY <1>4, <2>1, <2>2, <2>3, <2>4, <2>5, <2>6 DEF DispatchNext
<1>5. ASSUME NEW q \in Runtimes, Crash(q) PROVE FenceInv'
  BY <1>5, ReturnAfter, FenceFrame DEF Crash, outboundVars
<1>6. ASSUME NEW x \in Targets, CancelReserved(x) PROVE FenceInv'
  BY <1>6 DEF CancelReserved, FenceInv, LifecycleLockFree, HoldsLifecycleLock
<1>7. ASSUME NEW x \in Targets, NEW b \in BOOLEAN, Reconcile(x, b) PROVE FenceInv'
  <2>1. fence[x] # "RESERVED"
    BY <1>7 DEF Reconcile, Fence!AmbiguousStates
  <2>2. \A y \in Targets : fence[y] = "RESERVED" => fence'[y] = "RESERVED"
    BY <1>0, <1>7, <2>1 DEF Reconcile, OutboundTyped
  <2> QED
    BY <1>7, <1>t, <2>2 DEF Reconcile, FenceInv, HoldsLifecycleLock, CallOK
<1>8. CASE UNCHANGED vars
  BY <1>8 DEF vars, outboundVars, FenceInv, HoldsLifecycleLock
<1> QED
  BY <1>1, <1>2, <1>3, <1>4, <1>5, <1>6, <1>7, <1>8 DEF Next

LEMMA FenceInvInit == Init => FenceInv
BY CallFields DEF Init, FenceInv, HoldsLifecycleLock

\* The steps that change the fence.
LEMMA FenceCases ==
    ASSUME TypeInv, [Next]_vars
    PROVE  \/ UNCHANGED <<fence, authority>>
           \/ \E q \in Runtimes : Reserve(q) \/ Claim(q) \/ \E known \in BOOLEAN : Settle(q, known)
           \/ \E x \in Targets : /\ fence[x] = "RESERVED" /\ UNCHANGED authority
                                 /\ fence' = [fence EXCEPT ![x] = "CANCELLED_PRE_DISPATCH"]
           \/ \E x \in Targets, b \in BOOLEAN : Reconcile(x, b)
<1>1. ASSUME NEW q \in Runtimes, LedgerNext(q) PROVE UNCHANGED <<fence, authority>>
  <2>1. PICK e \in Events : Decide(q, e)
    BY <1>1, LedgerNextTyped
  <2> QED
    BY <2>1 DEF Decide, outboundVars
<1>2. ASSUME NEW q \in Runtimes, PrepareNext(q) PROVE UNCHANGED <<fence, authority>>
  <2>1. ASSUME NEW t, NEW d, NEW x, NEW m, PrepareTask(q, t, d, x, m)
        PROVE  UNCHANGED <<fence, authority>>
    BY <2>1 DEF PrepareTask, outboundVars
  <2>2. ASSUME Prepared(q) \/ BindSource(q) \/ PrepareFails(q) \/ BindPCAttempt(q)
        PROVE  UNCHANGED <<fence, authority>>
    BY <2>2 DEF Prepared, BindSource, PrepareFails, BindPCAttempt, outboundVars
  <2>3. ASSUME NEW x, PrepareUnbound(q, x) \/ InvokeUnbound(q, x)
        PROVE  UNCHANGED <<fence, authority>>
    BY <2>3 DEF PrepareUnbound, InvokeUnbound
  <2>4. ASSUME NEW x, NEW ref, RecoverPCAttempt(q, x, ref)
        PROVE  UNCHANGED <<fence, authority>>
    BY <2>4 DEF RecoverPCAttempt, outboundVars
  <2> QED
    BY <1>2, <2>1, <2>2, <2>3, <2>4 DEF PrepareNext
<1>3. ASSUME NEW q \in Runtimes, NEW x \in SourceMutations, NEW ref \in Refs,
             CancelReservedMutation(q, x, ref)
      PROVE  /\ x \in Targets /\ fence[x] = "RESERVED" /\ UNCHANGED authority
             /\ fence' = [fence EXCEPT ![x] = "CANCELLED_PRE_DISPATCH"]
  BY <1>3 DEF CancelReservedMutation, Targets
<1>4. ASSUME NEW q \in Runtimes, NEW x, NEW ref, Dispatch(q, x, ref) \/ ExecuteMutation(q, x, ref)
      PROVE  UNCHANGED <<fence, authority>>
  BY <1>4 DEF Dispatch, ExecuteMutation, outboundVars
<1>5. ASSUME NEW q \in Runtimes, Append(q) \/ Refused(q) \/ RecordOutcome(q) \/ Crash(q)
      PROVE  UNCHANGED <<fence, authority>>
  BY <1>5 DEF Append, Refused, RecordOutcome, Crash, outboundVars
<1>6. CASE UNCHANGED vars
  BY <1>6 DEF vars, outboundVars
<1>7. ASSUME NEW x \in Targets, CancelReserved(x)
      PROVE  /\ fence[x] = "RESERVED" /\ UNCHANGED authority
             /\ fence' = [fence EXCEPT ![x] = "CANCELLED_PRE_DISPATCH"]
  BY <1>7 DEF CancelReserved
<1> QED
  BY <1>1, <1>2, <1>3, <1>4, <1>5, <1>6, <1>7 DEF Next, DispatchNext

LEMMA FenceStep ==
    ASSUME TypeInv, FenceInv, [Next]_vars
    PROVE  [Fence!Next]_(Fence!fenceVars)
<1>0. OutboundTyped /\ CallsTyped
  BY DEF TypeInv
<1>t. \A q \in Runtimes : CallOK(call[q]) /\ call[q] \in Calls
  BY <1>0 DEF CallsTyped
<1>u. CASE UNCHANGED <<fence, authority>>
  BY <1>u DEF Fence!fenceVars, fenceBound, fenceGranted
<1>1. ASSUME NEW q \in Runtimes, Reserve(q) PROVE Fence!Next
  <2> DEFINE x == call[q].x
             b == <<call[q].ref>>
  <2>1. x \in Targets /\ call[q].ref \in Refs \cup {Nil}
    BY <1>1, <1>t DEF Reserve, CallOK, Calls
  <2>2. fence[x] = "ABSENT" /\ fence' = [fence EXCEPT ![x] = "RESERVED"]
    BY <1>1 DEF Reserve
  <2>3. authority' = [authority EXCEPT ![x] = call[q].ref]
    BY <1>1 DEF Reserve
  <2> HIDE DEF x
  <2>4. fenceBound' = [fenceBound EXCEPT ![x] = b]
    BY <1>0, <2>1, <2>2, <2>3 DEF fenceBound, OutboundTyped
  <2>5. UNCHANGED fenceGranted
    BY <1>0, <2>1, <2>2 DEF fenceGranted, OutboundTyped
  <2>6. Fence!Reserve(x, b)
    BY <2>2, <2>4, <2>5 DEF Fence!Reserve
  <2> QED
    BY <2>1, <2>6 DEF Fence!Next
<1>2. ASSUME NEW q \in Runtimes, Claim(q) PROVE Fence!Next
  <2> DEFINE x == call[q].x
  <2>1. x \in Targets /\ fence[x] = "RESERVED"
    BY <1>2, <1>t DEF Claim, CallOK, FenceInv
  <2>2. fence' = [fence EXCEPT ![x] = "EXECUTING"] /\ UNCHANGED authority
    BY <1>2 DEF Claim
  <2> HIDE DEF x
  <2>3. UNCHANGED fenceBound
    BY <1>0, <2>1, <2>2 DEF fenceBound, OutboundTyped
  <2>4. fenceGranted' = [fenceGranted EXCEPT ![x] = fenceGranted[x] + 1]
    <3>1. fenceGranted[x] + 1 = 1
      BY <2>1 DEF fenceGranted
    <3>2. fenceGranted' = [fenceGranted EXCEPT ![x] = 1]
      BY <1>0, <2>1, <2>2 DEF fenceGranted, OutboundTyped
    <3> QED
      BY <3>1, <3>2
  <2>5. Fence!ClaimDispatch(x)
    BY <2>1, <2>2, <2>3, <2>4 DEF Fence!ClaimDispatch
  <2> QED
    BY <2>1, <2>5 DEF Fence!Next
<1>3. ASSUME NEW x \in Targets, NEW s, UNCHANGED authority, fence' = [fence EXCEPT ![x] = s],
             fence[x] \notin {"ABSENT"}, s # "ABSENT",
             fence[x] \in {"RESERVED"} <=> s \in {"CANCELLED_PRE_DISPATCH"},
             s # "RESERVED", fence[x] # "CANCELLED_PRE_DISPATCH"
      PROVE  UNCHANGED <<fenceBound, fenceGranted>>
  BY <1>0, <1>3 DEF fenceBound, fenceGranted, OutboundTyped
<1>4. ASSUME NEW q \in Runtimes, NEW known \in BOOLEAN, Settle(q, known),
             ~UNCHANGED <<fence, authority>>
      PROVE  Fence!Next
  <2> DEFINE x == call[q].x
             s == Fence!SettledState(known)
  <2>1. /\ x \in Targets /\ fence[x] = "EXECUTING"
        /\ fence' = [fence EXCEPT ![x] = s] /\ UNCHANGED authority
    BY <1>4, <1>t DEF Settle, CallOK
  <2>2. s \in {"COMMITTED", "ATTEMPTED_UNKNOWN"}
    BY FenceStates
  <2> HIDE DEF x, s
  <2>3. UNCHANGED <<fenceBound, fenceGranted>>
    BY <1>3, <2>1, <2>2
  <2>4. Fence!Settle(x, known)
    BY <2>1, <2>3 DEF Fence!Settle, s
  <2> QED
    BY <2>1, <2>4 DEF Fence!Next
<1>5. ASSUME NEW x \in Targets, fence[x] = "RESERVED", UNCHANGED authority,
             fence' = [fence EXCEPT ![x] = "CANCELLED_PRE_DISPATCH"]
      PROVE  Fence!Next
  <2>1. UNCHANGED <<fenceBound, fenceGranted>>
    BY <1>3, <1>5
  <2>2. Fence!CancelBeforeDispatch(x)
    BY <1>5, <2>1 DEF Fence!CancelBeforeDispatch
  <2> QED
    BY <2>2 DEF Fence!Next
<1>6. ASSUME NEW x \in Targets, NEW occurred \in BOOLEAN, Reconcile(x, occurred)
      PROVE  Fence!Next
  <2> DEFINE s == Fence!ReconciledState(occurred)
  <2>1. /\ fence[x] \in Fence!AmbiguousStates /\ fence' = [fence EXCEPT ![x] = s]
        /\ UNCHANGED authority
    BY <1>6 DEF Reconcile
  <2>2. s \in {"RECONCILED_COMMITTED", "RECONCILED_NO_EFFECT"}
    BY FenceStates
  <2> HIDE DEF s
  <2>3. UNCHANGED <<fenceBound, fenceGranted>>
    BY <1>3, <2>1, <2>2 DEF Fence!AmbiguousStates
  <2>4. Fence!ReconcileUnknown(x, occurred)
    BY <2>1, <2>3 DEF Fence!ReconcileUnknown, s
  <2> QED
    BY <2>4 DEF Fence!Next
<1> QED
  BY <1>u, <1>1, <1>2, <1>4, <1>5, <1>6, FenceCases

(***************************************************************************)
(* Outbound work of tasks uses the effect fence as module EffectFence      *)
(* describes it, so that what is proved of the fence holds of task-bound   *)
(* work: an identity is reserved once, for one dependency, and claimed     *)
(* once.                                                                   *)
(***************************************************************************)
THEOREM TaskRefinesFence == Spec => FenceSpec
<1>1. Init => Fence!Init
  BY DEF Init, Fence!Init, fenceBound, fenceGranted
<1>2. Init => TypeInv /\ FenceInv
  BY InitTyped, FenceInvInit
<1>3. TypeInv /\ FenceInv /\ [Next]_vars => (TypeInv /\ FenceInv)'
  BY NextTyped, FenceInvStep
<1>4. TypeInv /\ FenceInv /\ [Next]_vars => [Fence!Next]_(Fence!fenceVars)
  BY FenceStep
<1> QED
  BY <1>1, <1>2, <1>3, <1>4, PTL DEF Spec, FenceSpec, Fence!Spec

----------------------------------------------------------------------------
(* What closeout relies on stays: success, its owner, its record.          *)

LEMMA ResultsKept ==
    ASSUME TypeInv, FenceInv, [Next]_vars
    PROVE  /\ \A x \in Targets : fence[x] \in Success =>
                  fence'[x] \in Success /\ authority'[x] = authority[x]
           /\ \A x \in ProviderEffects \cup SourceMutations : \A ref :
                  binding[x] = {ref} => binding'[x] = {ref}
           /\ outcome \subseteq outcome'
<1>0. OutboundTyped /\ CallsTyped
  BY DEF TypeInv
<1>t. \A q \in Runtimes : CallOK(call[q]) /\ call[q] \in Calls
  BY <1>0 DEF CallsTyped
<1>1. ASSUME NEW x \in Targets, fence[x] \in Success
      PROVE  fence'[x] \in Success /\ authority'[x] = authority[x]
  <2>1. CASE UNCHANGED <<fence, authority>>
    BY <1>1, <2>1
  <2>2. ASSUME NEW q \in Runtimes, Reserve(q) PROVE fence'[x] = fence[x] /\ authority'[x] = authority[x]
    <3>1. call[q].x # x
      BY <1>1, <2>2 DEF Reserve, Success
    <3> QED
      BY <1>0, <2>2, <3>1 DEF Reserve, OutboundTyped
  <2>3. ASSUME NEW q \in Runtimes, Claim(q) PROVE fence'[x] = fence[x] /\ authority'[x] = authority[x]
    <3>1. call[q].x # x
      BY <1>1, <2>3 DEF Claim, Success, FenceInv
    <3> QED
      BY <1>0, <2>3, <3>1 DEF Claim, OutboundTyped
  <2>4. ASSUME NEW q \in Runtimes, NEW known \in BOOLEAN, Settle(q, known)
        PROVE  fence'[x] = fence[x] /\ authority'[x] = authority[x]
    BY <1>0, <1>1, <2>4 DEF Settle, Success, OutboundTyped
  <2>5. ASSUME NEW y \in Targets, fence[y] = "RESERVED", UNCHANGED authority,
               fence' = [fence EXCEPT ![y] = "CANCELLED_PRE_DISPATCH"]
        PROVE  fence'[x] = fence[x] /\ authority'[x] = authority[x]
    BY <1>0, <1>1, <2>5 DEF Success, OutboundTyped
  <2>6. ASSUME NEW y \in Targets, NEW b \in BOOLEAN, Reconcile(y, b)
        PROVE  fence'[x] = fence[x] /\ authority'[x] = authority[x]
    <3>1. x # y
      BY <1>1, <2>6 DEF Reconcile, Success, Fence!AmbiguousStates
    <3> QED
      BY <1>0, <2>6, <3>1 DEF Reconcile, OutboundTyped
  <2> QED
    BY <1>1, <2>1, <2>2, <2>3, <2>4, <2>5, <2>6, FenceCases
<1>2. ASSUME NEW x \in ProviderEffects \cup SourceMutations, NEW ref, binding[x] = {ref}
      PROVE  binding'[x] = {ref}
  <2>x. x \in Targets /\ x \notin PCJobs /\ x \notin Commands
    BY TaskAssumption DEF Targets
  <2>1. ASSUME NEW q \in Runtimes, LedgerNext(q) PROVE UNCHANGED binding
    <3>1. PICK e \in Events : Decide(q, e)
      BY <2>1, LedgerNextTyped
    <3> QED
      BY <3>1 DEF Decide, outboundVars
  <2>2. ASSUME NEW q \in Runtimes, PrepareNext(q) PROVE binding'[x] = {ref}
    <3>1. ASSUME NEW t, NEW d, NEW y, NEW m, PrepareTask(q, t, d, y, m)
          PROVE  UNCHANGED binding
      BY <3>1 DEF PrepareTask, outboundVars
    <3>2. ASSUME BindSource(q) \/ PrepareFails(q)
          PROVE  UNCHANGED binding
      BY <3>2 DEF BindSource, PrepareFails, outboundVars
    <3>3. CASE Prepared(q)
      BY <1>0, <1>2, <2>x, <3>3 DEF Prepared, OutboundTyped
    <3>4. CASE BindPCAttempt(q)
      <4>1. call[q].x # x
        BY <1>t, <2>x, <3>4 DEF BindPCAttempt, CallOK
      <4> QED
        BY <1>0, <1>2, <2>x, <3>4, <4>1 DEF BindPCAttempt, OutboundTyped
    <3>5. ASSUME NEW y \in Targets, PrepareUnbound(q, y) PROVE binding'[x] = {ref}
      BY <1>0, <1>2, <2>x, <3>5 DEF PrepareUnbound, OutboundTyped
    <3>6. ASSUME NEW y \in Targets, InvokeUnbound(q, y) PROVE binding'[x] = {ref}
      BY <1>0, <1>2, <2>x, <3>6 DEF InvokeUnbound, OutboundTyped
    <3>7. ASSUME NEW y, NEW f, RecoverPCAttempt(q, y, f)
          PROVE  UNCHANGED binding
      BY <3>7 DEF RecoverPCAttempt, outboundVars
    <3> QED
      BY <1>2, <2>2, <3>1, <3>2, <3>3, <3>4, <3>5, <3>6, <3>7 DEF PrepareNext
  <2>3. ASSUME NEW q \in Runtimes, DispatchNext(q) PROVE UNCHANGED binding
    BY <2>3 DEF DispatchNext, Dispatch, ExecuteMutation, CancelReservedMutation, Reserve, Claim,
                Refused, RecordOutcome, Settle, outboundVars
  <2>4. ASSUME NEW q \in Runtimes, Append(q) \/ Crash(q) PROVE UNCHANGED binding
    BY <2>4 DEF Append, Crash, outboundVars
  <2>5. ASSUME NEW y \in Targets, CancelReserved(y) \/ \E b \in BOOLEAN : Reconcile(y, b)
        PROVE  UNCHANGED binding
    BY <2>5 DEF CancelReserved, Reconcile
  <2>6. CASE UNCHANGED vars
    BY <1>2, <2>6 DEF vars, outboundVars
  <2> QED
    BY <1>2, <2>1, <2>2, <2>3, <2>4, <2>5, <2>6 DEF Next
<1>3. outcome \subseteq outcome'
  <2>1. ASSUME NEW q \in Runtimes, LedgerNext(q) PROVE UNCHANGED outcome
    <3>1. PICK e \in Events : Decide(q, e)
      BY <2>1, LedgerNextTyped
    <3> QED
      BY <3>1 DEF Decide, outboundVars
  <2>2. ASSUME NEW q \in Runtimes, PrepareNext(q) PROVE UNCHANGED outcome
    <3>1. ASSUME NEW t, NEW d, NEW y, NEW m, PrepareTask(q, t, d, y, m)
          PROVE  UNCHANGED outcome
      BY <3>1 DEF PrepareTask, outboundVars
    <3>2. ASSUME Prepared(q) \/ BindSource(q) \/ PrepareFails(q) \/ BindPCAttempt(q)
          PROVE  UNCHANGED outcome
      BY <3>2 DEF Prepared, BindSource, PrepareFails, BindPCAttempt, outboundVars
    <3>3. ASSUME NEW y, PrepareUnbound(q, y) \/ InvokeUnbound(q, y)
          PROVE  UNCHANGED outcome
      BY <3>3 DEF PrepareUnbound, InvokeUnbound
    <3>4. ASSUME NEW y, NEW f, RecoverPCAttempt(q, y, f)
          PROVE  UNCHANGED outcome
      BY <3>4 DEF RecoverPCAttempt, outboundVars
    <3> QED
      BY <2>2, <3>1, <3>2, <3>3, <3>4 DEF PrepareNext
  <2>3. ASSUME NEW q \in Runtimes, DispatchNext(q) PROVE outcome \subseteq outcome'
    BY <2>3 DEF DispatchNext, Dispatch, ExecuteMutation, CancelReservedMutation, Reserve, Claim,
                Refused, RecordOutcome, Settle, outboundVars
  <2>4. ASSUME NEW q \in Runtimes, Append(q) \/ Crash(q) PROVE UNCHANGED outcome
    BY <2>4 DEF Append, Crash, outboundVars
  <2>5. ASSUME NEW y \in Targets, CancelReserved(y) \/ \E b \in BOOLEAN : Reconcile(y, b)
        PROVE  UNCHANGED outcome
    BY <2>5 DEF CancelReserved, Reconcile
  <2>6. CASE UNCHANGED vars
    BY <2>6 DEF vars, outboundVars
  <2> QED
    BY <2>1, <2>2, <2>3, <2>4, <2>5, <2>6 DEF Next
<1> QED
  BY <1>1, <1>2, <1>3

LEMMA SatisfiedKept ==
    ASSUME TypeInv, FenceInv, [Next]_vars, NEW t \in Tasks, NEW d \in Deps,
           dep[t][d] # Nil, dep'[t][d] = dep[t][d], Satisfied(t, d)
    PROVE  Satisfied(t, d)'
<1>1. dep[t][d] \in Targets
  BY DEF TypeInv, LedgerTyped
<1> DEFINE x == dep[t][d]
<1>2. fence[x] \in Success /\ authority[x] = <<t, d>>
  BY DEF Satisfied, EffectSatisfied
<1>3. fence'[x] \in Success /\ authority'[x] = <<t, d>>
  BY <1>1, <1>2, ResultsKept
<1>4. x \in ProviderEffects \cup SourceMutations => binding'[x] = {<<t, d>>}
  <2>1. SUFFICES ASSUME x \in ProviderEffects \cup SourceMutations
                 PROVE  binding'[x] = {<<t, d>>}
    OBVIOUS
  <2>2. binding[x] = {<<t, d>>}
    BY <2>1 DEF Satisfied, ProviderSatisfied
  <2> HIDE DEF x
  <2> QED
    BY <2>1, <2>2, ResultsKept
<1>5. x \in Recorded => x \in outcome'
  BY ResultsKept DEF Satisfied, CommandSatisfied, SourceSatisfied, Recorded
<1> QED
  BY <1>3, <1>4, <1>5
     DEF Satisfied, EffectSatisfied, ProviderSatisfied, CommandSatisfied, SourceSatisfied, Recorded

----------------------------------------------------------------------------
(* The ledger.                                                             *)

Complete(t) ==
    /\ \A d \in Deps : Active(t, d) => Satisfied(t, d)
    /\ \A g \in Delegs : ~ActiveDelegation(t, g)
    /\ unresolved[t] = {}

\* What the decision to append e has checked, and what must still be so when the
\* event reaches the journal.
Fresh(e) ==
    /\ Accepts(e)
    /\ e.type = "DEPENDENCY" => \A u \in Tasks, c \in Deps : dep[u][c] # e.target
    /\ e.type = "DELEGATED" =>
           \A u \in Tasks, h \in Delegs : ActiveDelegation(u, h) => deleg[u][h].scope # e.scope
    /\ e.type = "CLOSED" => Complete(e.task)

Bound(ref, x) ==
    Open(ref[1]) /\ Active(ref[1], ref[2]) /\ dep[ref[1]][ref[2]] = x

\* A pending append or preparation is made by the holder of the action lock.
CallInv(r) ==
    /\ call[r].step \in {"append", "bind"} => lock = r /\ Fresh(call[r].ev)
    /\ call[r].step = "bind" =>
           call[r].ev = DependencyEvent("DEPENDENCY", call[r].ref[1], call[r].ref[2], call[r].x)
    /\ call[r].step = "prepare" => lock = r /\ Bound(call[r].ref, call[r].x)

CallsInv == \A r \in Runtimes : CallInv(r)

StateInv ==
    /\ rejected = {}
    /\ closed \subseteq opened
    /\ \A t \in Tasks : \A d \in cancelled[t] : dep[t][d] # Nil
    /\ OneOwner
    /\ ClosedComplete

\* An event changes the fold of its own task only.
LEMMA JournalOther ==
    ASSUME TypeInv, NEW e \in Events, Journal(e), NEW u \in Tasks, u # e.task
    PROVE  /\ dep'[u] = dep[u] /\ cancelled'[u] = cancelled[u] /\ deleg'[u] = deleg[u]
           /\ unresolved'[u] = unresolved[u]
<1>t. e.task \in Tasks
  BY EventShape
<1>1. dep'[u] = dep[u]
  BY <1>t DEF Journal, TypeInv, LedgerTyped
<1>2. cancelled'[u] = cancelled[u]
  BY <1>t DEF Journal, TypeInv, LedgerTyped
<1>3. deleg'[u] = deleg[u]
  BY <1>t DEF Journal, TypeInv, LedgerTyped
<1>4. unresolved'[u] = unresolved[u]
  BY <1>t DEF Journal, TypeInv, LedgerTyped
<1> QED
  BY <1>1, <1>2, <1>3, <1>4

\* And of that task one entry only.
LEMMA JournalSame ==
    ASSUME TypeInv, NEW e \in Events, Journal(e)
    PROVE  /\ e.type # "DEPENDENCY" => dep' = dep
           /\ e.type = "DEPENDENCY" =>
                  /\ dep'[e.task][e.id] = e.target
                  /\ \A d \in Deps : d # e.id => dep'[e.task][d] = dep[e.task][d]
           /\ e.type # "DEPENDENCY_CANCELLED" => cancelled' = cancelled
           /\ e.type = "DEPENDENCY_CANCELLED" =>
                  cancelled'[e.task] = cancelled[e.task] \cup {e.id}
           /\ e.type \notin {"DELEGATED", "REASSIGNED", "RETURNED", "CANCELLED"} => deleg' = deleg
           /\ e.type \in {"DELEGATED", "REASSIGNED", "RETURNED", "CANCELLED"} =>
                  /\ deleg'[e.task][e.id] = Replayed(e)
                  /\ \A g \in Delegs : g # e.id => deleg'[e.task][g] = deleg[e.task][g]
           /\ e.type \notin {"CORRECTION", "CHECKPOINT"} => unresolved' = unresolved
<1>t. e.task \in Tasks
  BY EventShape
<1>1. e.type = "DEPENDENCY" =>
                  /\ dep'[e.task][e.id] = e.target
                  /\ \A d \in Deps : d # e.id => dep'[e.task][d] = dep[e.task][d]
  <2>1. e.type = "DEPENDENCY" => e.id \in Deps
    BY EventShape DEF DependencyEvents
  <2> QED
    BY <1>t, <2>1 DEF Journal, TypeInv, LedgerTyped
<1>2. e.type \in {"DELEGATED", "REASSIGNED", "RETURNED", "CANCELLED"} =>
                  /\ deleg'[e.task][e.id] = Replayed(e)
                  /\ \A g \in Delegs : g # e.id => deleg'[e.task][g] = deleg[e.task][g]
  <2>1. e.type \in {"DELEGATED", "REASSIGNED", "RETURNED", "CANCELLED"} => e.id \in Delegs
    BY EventShape DEF DelegatedEvents, ReassignedEvents, TerminalEvents
  <2> QED
    BY <1>t, <2>1 DEF Journal, TypeInv, LedgerTyped
<1>3. /\ e.type # "DEPENDENCY_CANCELLED" => cancelled' = cancelled
      /\ e.type = "DEPENDENCY_CANCELLED" =>
             cancelled'[e.task] = cancelled[e.task] \cup {e.id}
  BY <1>t DEF Journal, TypeInv, LedgerTyped
<1>4. /\ e.type # "DEPENDENCY" => dep' = dep
      /\ e.type \notin {"DELEGATED", "REASSIGNED", "RETURNED", "CANCELLED"} => deleg' = deleg
      /\ e.type \notin {"CORRECTION", "CHECKPOINT"} => unresolved' = unresolved
  BY DEF Journal
<1> QED
  BY <1>1, <1>2, <1>3, <1>4

LEMMA JournalState ==
    ASSUME TypeInv, FenceInv, [Next]_vars, StateInv, NEW e \in Events, Fresh(e), Journal(e)
    PROVE  StateInv'
<1> DEFINE t == e.task
<1>0. LedgerTyped
  BY DEF TypeInv
<1>t. t \in Tasks
  BY EventShape
<1>a. Accepts(e) /\ t \notin closed /\ (e.type = "OPENED" <=> t \notin opened)
  BY
     DEF Fresh, Accepts, Sequenced, AcceptsDependency, AcceptsDelegation, AcceptsTerminal, AcceptsCorrection
<1>1. rejected' = {}
  BY <1>a DEF Journal, StateInv
<1>2. closed' \subseteq opened'
  BY <1>a DEF Journal, StateInv
<1>3. ASSUME NEW u \in Tasks, NEW d \in cancelled'[u] PROVE dep'[u][d] # Nil
  <2>0. d \in Deps
    BY NextTyped DEF TypeInv, LedgerTyped
  <2>1. CASE u # t
    BY <1>3, <2>1, JournalOther DEF StateInv
  <2>2. CASE u = t /\ e.type = "DEPENDENCY_CANCELLED"
    <3>1. dep[t][e.id] # Nil
      BY <2>2, <1>a
         DEF Accepts, Sequenced, AcceptsDependency, AcceptsDelegation, AcceptsTerminal, AcceptsCorrection, Active
    <3> QED
      BY <1>3, <2>2, <3>1, JournalSame DEF StateInv
  <2>3. CASE u = t /\ e.type = "DEPENDENCY"
    <3>1. e.target # Nil
      BY <2>3, EventShape, NilAssumption DEF DependencyEvents
    <3> QED
      BY <1>3, <2>0, <2>3, <3>1, JournalSame DEF StateInv
  <2>4. CASE u = t /\ e.type \notin {"DEPENDENCY", "DEPENDENCY_CANCELLED"}
    BY <1>3, <2>4, JournalSame DEF StateInv
  <2> QED
    BY <2>1, <2>2, <2>3, <2>4
<1>4. ASSUME NEW u \in Tasks, NEW v \in Tasks, NEW g \in Delegs, NEW h \in Delegs,
             ActiveDelegation(u, g)', ActiveDelegation(v, h)',
             deleg'[u][g].scope = deleg'[v][h].scope
      PROVE  u = v /\ g = h
  <2>1. CASE e.type = "DELEGATED"
    <3>1. /\ e.id \in Delegs /\ deleg'[t][e.id].scope = e.scope
          /\ deleg[t][e.id].status = "NONE"
      <4>1. e.id \in Delegs
        BY <2>1, EventShape DEF DelegatedEvents
      <4>2. deleg[t][e.id].status = "NONE"
        BY <2>1, <1>a
           DEF Accepts, Sequenced, AcceptsDependency, AcceptsDelegation, AcceptsTerminal, AcceptsCorrection
      <4>3. Replayed(e).scope = e.scope
        BY <2>1 DEF Replayed
      <4> QED
        BY <2>1, <4>1, <4>2, <4>3, JournalSame
    <3>2. \A w \in Tasks, k \in Delegs : ~(w = t /\ k = e.id) => deleg'[w][k] = deleg[w][k]
      BY <2>1, JournalOther, JournalSame
    <3>3. \A w \in Tasks, k \in Delegs : ActiveDelegation(w, k) => deleg[w][k].scope # e.scope
      BY <2>1 DEF Fresh
    <3> QED
      BY <1>4, <3>1, <3>2, <3>3 DEF ActiveDelegation, StateInv, OneOwner
  <2>2. CASE e.type \in {"REASSIGNED", "RETURNED", "CANCELLED"}
    <3>1. /\ e.id \in Delegs /\ deleg'[t][e.id].scope = deleg[t][e.id].scope
          /\ ActiveDelegation(t, e.id)
      <4>1. e.id \in Delegs /\ ActiveDelegation(t, e.id)
        BY <2>2, <1>a, EventShape
           DEF ReassignedEvents, TerminalEvents, Accepts, Sequenced, AcceptsDependency, AcceptsDelegation, AcceptsTerminal, AcceptsCorrection, ActiveDelegation
      <4>2. deleg[t][e.id] \in Delegation
        BY <1>0, <1>t, <4>1 DEF LedgerTyped
      <4>3. Replayed(e).scope = deleg[t][e.id].scope
        BY <2>2, <4>2 DEF Replayed, Delegation
      <4> QED
        BY <2>2, <4>1, <4>3, JournalSame
    <3>2. \A w \in Tasks, k \in Delegs : ~(w = t /\ k = e.id) => deleg'[w][k] = deleg[w][k]
      BY <2>2, JournalOther, JournalSame
    <3>3. \A w \in Tasks, k \in Delegs : ActiveDelegation(w, k)' =>
             ActiveDelegation(w, k) /\ deleg'[w][k].scope = deleg[w][k].scope
      BY <3>1, <3>2 DEF ActiveDelegation
    <3>4. /\ ActiveDelegation(u, g) /\ ActiveDelegation(v, h)
          /\ deleg[u][g].scope = deleg[v][h].scope
      BY <1>4, <3>3
    <3> QED
      BY <3>4 DEF StateInv, OneOwner
  <2>3. CASE e.type \notin {"DELEGATED", "REASSIGNED", "RETURNED", "CANCELLED"}
    BY <1>4, <2>3, JournalSame DEF ActiveDelegation, StateInv, OneOwner
  <2> QED
    BY <2>1, <2>2, <2>3
<1>5. ASSUME NEW u \in Tasks, NEW v \in Tasks, NEW c \in Deps, NEW d \in Deps,
             dep'[u][c] # Nil, dep'[u][c] = dep'[v][d]
      PROVE  u = v /\ c = d
  <2>1. CASE e.type = "DEPENDENCY"
    <3>1. e.id \in Deps /\ dep'[t][e.id] = e.target
      BY <2>1, EventShape, JournalSame DEF DependencyEvents
    <3>2. \A w \in Tasks, k \in Deps : ~(w = t /\ k = e.id) => dep'[w][k] = dep[w][k]
      BY <2>1, JournalOther, JournalSame
    <3>3. \A w \in Tasks, k \in Deps : dep[w][k] # e.target
      BY <2>1 DEF Fresh
    <3> QED
      BY <1>5, <3>1, <3>2, <3>3 DEF StateInv, OneOwner
  <2>2. CASE e.type # "DEPENDENCY"
    BY <1>5, <2>2, JournalSame DEF StateInv, OneOwner
  <2> QED
    BY <2>1, <2>2
<1>6. OneOwner'
  BY <1>4, <1>5 DEF OneOwner, ActiveDelegation
<1>7. ASSUME NEW u \in closed' PROVE Complete(u)'
  <2>0. u \in Tasks
    BY NextTyped DEF TypeInv, LedgerTyped
  <2>1. /\ Complete(u) /\ dep'[u] = dep[u] /\ cancelled'[u] = cancelled[u]
        /\ deleg'[u] = deleg[u] /\ unresolved'[u] = unresolved[u]
    <3>1. CASE u \in closed
      <4>1. u # t /\ Complete(u)
        BY <3>1, <1>a DEF StateInv, ClosedComplete, Complete
      <4> QED
        BY <2>0, <4>1, JournalOther
    <3>2. CASE u \notin closed
      <4>1. u = t /\ e.type = "CLOSED"
        BY <1>7, <3>2 DEF Journal
      <4>2. Complete(u)
        BY <4>1 DEF Fresh
      <4> QED
        BY <4>1, <4>2, JournalSame
    <3> QED
      BY <3>1, <3>2
  <2>2. ASSUME NEW d \in Deps, Active(u, d)' PROVE Satisfied(u, d)'
    <3>1. Active(u, d) /\ dep[u][d] # Nil /\ dep'[u][d] = dep[u][d]
      BY <2>1, <2>2 DEF Active
    <3>2. Satisfied(u, d)
      BY <2>1, <3>1 DEF Complete
    <3> QED
      BY <2>0, <3>1, <3>2, SatisfiedKept
  <2>3. (\A g \in Delegs : ~ActiveDelegation(u, g))' /\ unresolved'[u] = {}
    BY <2>1 DEF Complete, ActiveDelegation
  <2> QED
    BY <2>2, <2>3 DEF Complete
<1>8. ClosedComplete'
  BY <1>7 DEF ClosedComplete, Complete
<1> QED
  BY <1>1, <1>2, <1>3, <1>6, <1>8 DEF StateInv

\* Steps that append nothing keep what was decided and what is closed.
LEMMA CompleteKept ==
    ASSUME TypeInv, FenceInv, [Next]_vars, UNCHANGED ledgerVars, NEW t \in Tasks, Complete(t)
    PROVE  Complete(t)'
<1>1. ASSUME NEW d \in Deps, Active(t, d)' PROVE Satisfied(t, d)'
  <2>1. Active(t, d) /\ dep[t][d] # Nil /\ dep'[t][d] = dep[t][d]
    BY <1>1 DEF Active, ledgerVars
  <2>2. Satisfied(t, d)
    BY <2>1 DEF Complete
  <2> QED
    BY <2>1, <2>2, SatisfiedKept
<1>2. (\A g \in Delegs : ~ActiveDelegation(t, g))' /\ unresolved'[t] = {}
  BY DEF Complete, ActiveDelegation, ledgerVars
<1> QED
  BY <1>1, <1>2 DEF Complete

LEMMA StateKept ==
    ASSUME TypeInv, FenceInv, [Next]_vars, UNCHANGED ledgerVars, StateInv
    PROVE  StateInv'
<1>1. ASSUME NEW t \in closed' PROVE Complete(t)'
  <2>1. t \in closed /\ t \in Tasks
    BY <1>1 DEF ledgerVars, TypeInv, LedgerTyped
  <2>2. Complete(t)
    BY <2>1 DEF StateInv, ClosedComplete, Complete
  <2> QED
    BY <2>1, <2>2, CompleteKept
<1>2. ClosedComplete'
  BY <1>1 DEF ClosedComplete, Complete
<1>3. OneOwner'
  BY DEF StateInv, OneOwner, ActiveDelegation, ledgerVars
<1> QED
  BY <1>2, <1>3 DEF StateInv, ledgerVars

LEMMA FreshKept ==
    ASSUME TypeInv, FenceInv, [Next]_vars, UNCHANGED ledgerVars, NEW r \in Runtimes,
           call'[r] = call[r], call[r].ev \in Events, Fresh(call[r].ev)
    PROVE  Fresh(call[r].ev)'
<1> DEFINE e == call[r].ev
<1>1. e' = e /\ e.task \in Tasks
  BY EventShape
<1>2. Accepts(e)'
  <2>1. Accepts(e)
    BY DEF Fresh
  <2> QED
    BY <1>1, <2>1
       DEF Accepts, Sequenced, AcceptsDependency, AcceptsDelegation, AcceptsTerminal, AcceptsCorrection, Active, ledgerVars
<1>3. e.type = "CLOSED" => Complete(e.task)'
  BY <1>1, CompleteKept DEF Fresh
<1>4. (e.type = "DEPENDENCY" => \A u \in Tasks, c \in Deps : dep[u][c] # e.target)'
  BY <1>1 DEF Fresh, ledgerVars
<1>5. (e.type = "DELEGATED" =>
           \A u \in Tasks, h \in Delegs : ActiveDelegation(u, h) => deleg[u][h].scope # e.scope)'
  BY <1>1 DEF Fresh, ledgerVars, ActiveDelegation
<1> QED
  BY <1>1, <1>2, <1>3, <1>4, <1>5 DEF Fresh, Complete

LockFrame(q) ==
    \/ lock' = lock
    \/ lock = Nil /\ lock' = q
    \/ lock = q /\ lock' = Nil

\* A step of runtime q that appends nothing leaves the others' calls in order.
LEMMA LedgerFrame ==
    ASSUME TypeInv, FenceInv, [Next]_vars, UNCHANGED ledgerVars, StateInv, CallsInv,
           NEW q \in Runtimes, LockFrame(q), CallInv(q)',
           \A r \in Runtimes : r # q => call'[r] = call[r]
    PROVE  StateInv' /\ CallsInv'
<1>1. ASSUME NEW r \in Runtimes, r # q PROVE CallInv(r)'
  <2>1. call'[r] = call[r] /\ CallInv(r) /\ r # Nil
    BY <1>1, NilAssumption DEF CallsInv
  <2>2. lock = r => lock' = r
    BY <1>1, <2>1 DEF LockFrame
  <2>3. call[r].step \in {"append", "bind"} => lock' = r /\ Fresh(call[r].ev)'
    <3>1. call[r].step \in {"append", "bind"} => call[r].ev \in Events
      BY DEF TypeInv, CallsTyped, CallOK
    <3> QED
      BY <2>1, <2>2, <3>1, FreshKept DEF CallInv
  <2>4. call[r].step = "prepare" => lock' = r /\ Bound(call[r].ref, call[r].x)'
    BY <2>1, <2>2 DEF CallInv, Bound, Open, Active, ledgerVars
  <2> QED
    BY <2>1, <2>3, <2>4 DEF CallInv
<1>2. StateInv'
  BY StateKept
<1> QED
  BY <1>1, <1>2 DEF CallsInv

\* A call that is neither about to append nor preparing has nothing to keep.
LEMMA QuietCall ==
    ASSUME NEW q \in Runtimes, call'[q].step \notin {"append", "bind", "prepare"}
    PROVE  CallInv(q)'
BY DEF CallInv

LEMMA ReturnFrame ==
    ASSUME TypeInv, NEW q \in Runtimes, Return(q)
    PROVE  LockFrame(q) /\ CallInv(q)' /\ \A r \in Runtimes : r # q => call'[r] = call[r]
<1>1. call'[q].step = "idle" /\ \A r \in Runtimes : r # q => call'[r] = call[r]
  BY ReturnAfter
<1>2. LockFrame(q)
  BY DEF Return, LockFrame
<1> QED
  BY <1>1, <1>2, QuietCall

\* The checks of an operation on the ledger are those Fresh asks for.
LEMMA LedgerNextFresh ==
    ASSUME TypeInv, StateInv, NEW r \in Runtimes, LedgerNext(r)
    PROVE  \E e \in Events : Decide(r, e) /\ Fresh(e)
<1>0. LedgerTyped
  BY DEF TypeInv
<1>s. closed \subseteq opened
  BY DEF StateInv
<1> PICK t \in Tasks :
        \/ StartTask(r, t)
        \/ \E d \in Deps, x \in Targets : BindTaskDependency(r, t, d, x)
        \/ \E d \in Deps : CancelTaskDependency(r, t, d)
        \/ \E g \in Delegs, s \in Scopes, a \in Assignees : DelegateTaskWork(r, t, g, s, a)
        \/ \E g \in Delegs, a \in Assignees : ReassignTaskDelegation(r, t, g, a)
        \/ \E g \in Delegs, type \in {"RETURNED", "CANCELLED"} :
               EndTaskDelegation(r, t, g, type)
        \/ \E c \in Corrections : RecordTaskCorrection(r, t, c)
        \/ CheckpointTask(r, t)
        \/ CloseTask(r, t)
  BY DEF LedgerNext
<1>1. CASE StartTask(r, t)
  <2> DEFINE e == [type |-> "OPENED", task |-> t]
  <2>1. e \in Events
    BY DEF Events, PlainEvents
  <2>2. Fresh(e)
    BY <1>1, <1>s
       DEF StartTask, Fresh, Accepts, Sequenced, AcceptsDependency, AcceptsDelegation, AcceptsTerminal, AcceptsCorrection
  <2> QED
    BY <1>1, <2>1, <2>2 DEF StartTask
<1>2. CASE \E d \in Deps, x \in Targets : BindTaskDependency(r, t, d, x)
  <2>1. PICK d \in Deps, x \in Targets : BindTaskDependency(r, t, d, x)
    BY <1>2
  <2> DEFINE e == DependencyEvent("DEPENDENCY", t, d, x)
  <2>2. e \in Events /\ e.type = "DEPENDENCY" /\ e.task = t /\ e.id = d /\ e.target = x
    BY DependencyEventTyped
  <2> HIDE DEF e
  <2>3. Fresh(e)
    BY <2>1, <2>2
       DEF BindTaskDependency, CanBind, Open, Fresh, Accepts, Sequenced, AcceptsDependency, AcceptsDelegation, AcceptsTerminal, AcceptsCorrection
  <2> QED
    BY <2>1, <2>2, <2>3 DEF BindTaskDependency, e
<1>3. CASE \E d \in Deps : CancelTaskDependency(r, t, d)
  <2>1. PICK d \in Deps : CancelTaskDependency(r, t, d)
    BY <1>3
  <2>2. dep[t][d] \in Targets
    BY <1>0, <2>1 DEF CancelTaskDependency, Active, LedgerTyped
  <2> DEFINE e == DependencyEvent("DEPENDENCY_CANCELLED", t, d, dep[t][d])
  <2>3. /\ e \in Events /\ e.type = "DEPENDENCY_CANCELLED" /\ e.task = t /\ e.id = d
        /\ e.target = dep[t][d]
    BY <2>2, DependencyEventTyped
  <2> HIDE DEF e
  <2>4. Fresh(e)
    BY <2>1, <2>3
       DEF CancelTaskDependency, Open, Fresh, Accepts, Sequenced, AcceptsDependency, AcceptsDelegation, AcceptsTerminal, AcceptsCorrection
  <2> QED
    BY <2>1, <2>3, <2>4 DEF CancelTaskDependency, e
<1>4. CASE \E g \in Delegs, s \in Scopes, a \in Assignees : DelegateTaskWork(r, t, g, s, a)
  <2>1. PICK g \in Delegs, s \in Scopes, a \in Assignees : DelegateTaskWork(r, t, g, s, a)
    BY <1>4
  <2> DEFINE e == [type |-> "DELEGATED", task |-> t, id |-> g, scope |-> s, assignee |-> a]
  <2>2. e \in Events
    BY DEF Events, DelegatedEvents
  <2>3. e.type = "DELEGATED" /\ e.task = t /\ e.id = g /\ e.scope = s
    OBVIOUS
  <2> HIDE DEF e
  <2>4. Fresh(e)
    BY <2>1, <2>3
       DEF DelegateTaskWork, Open, Fresh, Accepts, Sequenced, AcceptsDependency, AcceptsDelegation, AcceptsTerminal, AcceptsCorrection
  <2> QED
    BY <2>1, <2>2, <2>4 DEF DelegateTaskWork, e
<1>5. CASE \E g \in Delegs, a \in Assignees : ReassignTaskDelegation(r, t, g, a)
  <2>1. PICK g \in Delegs, a \in Assignees : ReassignTaskDelegation(r, t, g, a)
    BY <1>5
  <2> DEFINE e == [type |-> "REASSIGNED", task |-> t, id |-> g,
                   prior |-> deleg[t][g].assignee, assignee |-> a]
  <2>2. e \in Events
    <3>1. deleg[t][g].assignee \in Assignees
      BY <1>0, <2>1 DEF ReassignTaskDelegation, LedgerTyped
    <3> QED
      BY <3>1 DEF Events, ReassignedEvents
  <2>3. /\ e.type = "REASSIGNED" /\ e.task = t /\ e.id = g
        /\ e.prior = deleg[t][g].assignee /\ e.assignee = a
    OBVIOUS
  <2> HIDE DEF e
  <2>4. Fresh(e)
    BY <2>1, <2>3
       DEF ReassignTaskDelegation, ActiveDelegation, Open, Fresh, Accepts, Sequenced, AcceptsDependency, AcceptsDelegation, AcceptsTerminal, AcceptsCorrection
  <2> QED
    BY <2>1, <2>2, <2>4 DEF ReassignTaskDelegation, e
<1>6. CASE \E g \in Delegs, type \in {"RETURNED", "CANCELLED"} :
               EndTaskDelegation(r, t, g, type)
  <2>1. PICK g \in Delegs, type \in {"RETURNED", "CANCELLED"} : EndTaskDelegation(r, t, g, type)
    BY <1>6
  <2> DEFINE e == [type |-> type, task |-> t, id |-> g, assignee |-> deleg[t][g].assignee]
  <2>2. e \in Events
    <3>1. deleg[t][g].assignee \in Assignees
      BY <1>0, <2>1 DEF EndTaskDelegation, LedgerTyped
    <3> QED
      BY <3>1 DEF Events, TerminalEvents
  <2>3. /\ e.type \in {"RETURNED", "CANCELLED"} /\ e.task = t /\ e.id = g
        /\ e.assignee = deleg[t][g].assignee
    OBVIOUS
  <2>q. Decide(r, e)
    BY <2>1 DEF EndTaskDelegation
  <2> HIDE DEF e
  <2>4. Fresh(e)
    BY <2>1, <2>3
       DEF EndTaskDelegation, ActiveDelegation, Open, Fresh, Accepts, Sequenced, AcceptsDependency, AcceptsDelegation, AcceptsTerminal, AcceptsCorrection
  <2> QED
    BY <2>q, <2>2, <2>4
<1>7. CASE \E c \in Corrections : RecordTaskCorrection(r, t, c)
  <2>1. PICK c \in Corrections : RecordTaskCorrection(r, t, c)
    BY <1>7
  <2> DEFINE e == [type |-> "CORRECTION", task |-> t, id |-> c]
  <2>2. e \in Events
    BY DEF Events, CorrectionEvents
  <2>3. Fresh(e)
    BY <2>1
       DEF RecordTaskCorrection, Open, Fresh, Accepts, Sequenced, AcceptsDependency, AcceptsDelegation, AcceptsTerminal, AcceptsCorrection
  <2> QED
    BY <2>1, <2>2, <2>3 DEF RecordTaskCorrection
<1>8. CASE CheckpointTask(r, t)
  <2> DEFINE e == [type |-> "CHECKPOINT", task |-> t, addressed |-> unresolved[t]]
  <2>1. e \in Events
    BY <1>0 DEF Events, CheckpointEvents, LedgerTyped
  <2>2. Fresh(e)
    BY <1>8
       DEF CheckpointTask, Open, Fresh, Accepts, Sequenced, AcceptsDependency, AcceptsDelegation, AcceptsTerminal, AcceptsCorrection
  <2> QED
    BY <1>8, <2>1, <2>2 DEF CheckpointTask
<1>9. CASE CloseTask(r, t)
  <2> DEFINE e == [type |-> "CLOSED", task |-> t]
  <2>1. e \in Events
    BY DEF Events, PlainEvents
  <2>2. Complete(t)
    BY <1>9 DEF CloseTask, Ready, Complete
  <2>3. Fresh(e)
    BY <1>9, <2>2
       DEF CloseTask, Ready, Open, Fresh, Accepts, Sequenced, AcceptsDependency, AcceptsDelegation, AcceptsTerminal, AcceptsCorrection
  <2> QED
    BY <1>9, <2>1, <2>3 DEF CloseTask
<1> QED
  BY <1>1, <1>2, <1>3, <1>4, <1>5, <1>6, <1>7, <1>8, <1>9

LEMMA FreshAfter ==
    ASSUME TypeInv, FenceInv, [Next]_vars, UNCHANGED ledgerVars, NEW q \in Runtimes,
           NEW e \in Events, call'[q].ev = e, Fresh(e)
    PROVE  Fresh(call[q].ev)'
<1> DEFINE f == call[q].ev
<1>1. f' = e /\ e.task \in Tasks
  BY EventShape
<1>2. Accepts(f)'
  <2>1. Accepts(e)
    BY DEF Fresh
  <2> QED
    BY <1>1, <2>1
       DEF Accepts, Sequenced, AcceptsDependency, AcceptsDelegation, AcceptsTerminal, AcceptsCorrection, Active, ledgerVars
<1>3. e.type = "CLOSED" => Complete(e.task)'
  BY <1>1, CompleteKept DEF Fresh
<1>4. (f.type = "DEPENDENCY" => \A u \in Tasks, c \in Deps : dep[u][c] # f.target)'
  BY <1>1 DEF Fresh, ledgerVars
<1>5. (f.type = "DELEGATED" =>
           \A u \in Tasks, h \in Delegs : ActiveDelegation(u, h) => deleg[u][h].scope # f.scope)'
  BY <1>1 DEF Fresh, ledgerVars, ActiveDelegation
<1> QED
  BY <1>1, <1>2, <1>3, <1>4, <1>5 DEF Fresh, Complete

\* Runtime q, holding the lock, is about to append e.
LEMMA AppendingInv ==
    ASSUME TypeInv, FenceInv, [Next]_vars, UNCHANGED ledgerVars, NEW q \in Runtimes,
           NEW e \in Events, Fresh(e), call' = [call EXCEPT ![q] = Appending(e)], lock' = q
    PROVE  CallInv(q)' /\ \A r \in Runtimes : r # q => call'[r] = call[r]
<1>1. /\ call'[q].step = "append" /\ call'[q].ev = e
      /\ \A r \in Runtimes : r # q => call'[r] = call[r]
  BY CallFields DEF TypeInv, CallsTyped
<1>2. Fresh(call[q].ev)'
  BY <1>1, FreshAfter
<1> QED
  BY <1>1, <1>2 DEF CallInv

LEMMA CancelFresh ==
    ASSUME NEW t \in Tasks, NEW d \in Deps, NEW x \in Targets,
           Open(t), Active(t, d), dep[t][d] = x
    PROVE  /\ DependencyEvent("DEPENDENCY_CANCELLED", t, d, x) \in Events
           /\ Fresh(DependencyEvent("DEPENDENCY_CANCELLED", t, d, x))
<1> DEFINE e == DependencyEvent("DEPENDENCY_CANCELLED", t, d, x)
<1>1. /\ e \in Events /\ e.type = "DEPENDENCY_CANCELLED" /\ e.task = t /\ e.id = d
      /\ e.target = x
  BY DependencyEventTyped
<1> HIDE DEF e
<1>2. Fresh(e)
  BY <1>1
     DEF Open, Fresh, Accepts, Sequenced, AcceptsDependency, AcceptsDelegation, AcceptsTerminal, AcceptsCorrection
<1> QED
  BY <1>1, <1>2 DEF e

LEMMA PrepareTaskInv ==
    ASSUME TypeInv, FenceInv, [Next]_vars, StateInv, CallsInv, NEW q \in Runtimes,
           NEW t \in Tasks, NEW d \in Deps, NEW x \in Targets, NEW m,
           PrepareTask(q, t, d, x, m)
    PROVE  StateInv' /\ CallsInv'
<1> DEFINE e == DependencyEvent("DEPENDENCY", t, d, x)
           c1 == [step |-> "prepare", ev |-> Nil, x |-> x, ref |-> <<t, d>>, m |-> m]
           c2 == [step |-> "bind", ev |-> e, x |-> x, ref |-> <<t, d>>, m |-> m]
<1>1. UNCHANGED ledgerVars /\ LockFrame(q) /\ lock' = q /\ Open(t)
  BY DEF PrepareTask, Acquire, LockFrame
<1>2. \/ Active(t, d) /\ dep[t][d] = x /\ call' = [call EXCEPT ![q] = c1]
      \/ CanBind(t, d, x) /\ call' = [call EXCEPT ![q] = c2]
  BY DEF PrepareTask
<1>3. CASE Active(t, d) /\ dep[t][d] = x /\ call' = [call EXCEPT ![q] = c1]
  <2>1. call'[q] = c1 /\ \A r \in Runtimes : r # q => call'[r] = call[r]
    BY <1>3 DEF TypeInv, CallsTyped
  <2>2. call'[q].step = "prepare" /\ call'[q].ref = <<t, d>> /\ call'[q].x = x
    BY <2>1
  <2>3. Bound(call[q].ref, call[q].x)'
    BY <1>1, <1>3, <2>2 DEF Bound, Open, Active, ledgerVars
  <2>4. CallInv(q)'
    BY <1>1, <2>2, <2>3 DEF CallInv
  <2> QED
    BY <1>1, <2>1, <2>4, LedgerFrame
<1>4. CASE CanBind(t, d, x) /\ call' = [call EXCEPT ![q] = c2]
  <2>1. call'[q] = c2 /\ \A r \in Runtimes : r # q => call'[r] = call[r]
    BY <1>4 DEF TypeInv, CallsTyped
  <2>2. call'[q].step = "bind" /\ call'[q].ref = <<t, d>> /\ call'[q].x = x /\ call'[q].ev = e
    BY <2>1
  <2>3. e \in Events /\ e.type = "DEPENDENCY" /\ e.task = t /\ e.id = d /\ e.target = x
    BY DependencyEventTyped
  <2>e. e = DependencyEvent("DEPENDENCY", call'[q].ref[1], call'[q].ref[2], call'[q].x)
    BY <2>2
  <2> HIDE DEF e, c1, c2
  <2>4. Fresh(e)
    BY <1>4, <2>3
       DEF CanBind, Open, Fresh, Accepts, Sequenced, AcceptsDependency, AcceptsDelegation, AcceptsTerminal, AcceptsCorrection
  <2>5. Fresh(call[q].ev)'
    BY <1>1, <2>2, <2>3, <2>4, FreshAfter
  <2>6. CallInv(q)'
    BY <1>1, <2>2, <2>5, <2>e DEF CallInv, DependencyEvent
  <2> QED
    BY <1>1, <2>1, <2>6, LedgerFrame
<1> QED
  BY <1>2, <1>3, <1>4

LEMMA AppendInv ==
    ASSUME TypeInv, FenceInv, [Next]_vars, StateInv, CallsInv, NEW q \in Runtimes, Append(q)
    PROVE  StateInv' /\ CallsInv'
<1> DEFINE e == call[q].ev
<1>1. /\ e \in Events /\ Journal(e) /\ lock = q /\ Fresh(e)
      /\ call[q] \in Calls /\ CallOK(call[q])
  BY DEF Append, TypeInv, CallsTyped, CallOK, CallsInv, CallInv
<1>2. StateInv'
  <2> HIDE DEF e
  <2> QED BY <1>1, JournalState
<1>3. \A r \in Runtimes : r # q => call'[r] = call[r]
  BY AppendCall
<1>4. ASSUME NEW r \in Runtimes, r # q PROVE CallInv(r)'
  <2>1. call[r].step \notin {"append", "bind", "prepare"}
    BY <1>1, <1>4 DEF CallsInv, CallInv
  <2> QED
    BY <1>3, <1>4, <2>1, QuietCall
<1>5. CallInv(q)'
  <2>1. CASE Return(q)
    BY <2>1, ReturnFrame
  <2>2. CASE ~Return(q)
    <3> DEFINE c == [call[q] EXCEPT !.step = "prepare", !.ev = Nil]
               t == call[q].ref[1]
               d == call[q].ref[2]
               x == call[q].x
    <3>1. call[q].step = "bind" /\ call' = [call EXCEPT ![q] = c] /\ lock' = q
      BY <1>1, <2>2 DEF Append
    <3>2. c.step = "prepare" /\ c.ref = call[q].ref /\ c.x = x
      BY <1>1 DEF Calls
    <3>3. call'[q] = c
      BY <3>1 DEF TypeInv, CallsTyped
    <3>4. t \in Tasks /\ d \in Deps /\ x \in Targets
      BY <1>1, <3>1 DEF CallOK, Refs
    <3>5. e = DependencyEvent("DEPENDENCY", t, d, x)
      BY <3>1 DEF CallsInv, CallInv
    <3>6. e.type = "DEPENDENCY" /\ e.task = t /\ e.id = d /\ e.target = x
      BY <3>4, <3>5, DependencyEventTyped
    <3>7. dep'[t][d] = x /\ x # Nil
      BY <1>1, <3>4, <3>6, JournalSame, NilAssumption
    <3>8. d \notin cancelled'[t]
      <4>1. d \notin cancelled[t]
        BY <1>1, <3>4, <3>6
           DEF StateInv, Fresh, Accepts, Sequenced, AcceptsDependency, AcceptsDelegation, AcceptsTerminal, AcceptsCorrection
      <4> QED
        BY <1>1, <3>6, <4>1, JournalSame
    <3>9. t \in opened' \ closed'
      BY <1>1, <3>6
         DEF Fresh, Accepts, Sequenced, AcceptsDependency, AcceptsDelegation, AcceptsTerminal, AcceptsCorrection, Journal
    <3>10. Bound(call[q].ref, call[q].x)'
      BY <3>2, <3>3, <3>7, <3>8, <3>9 DEF Bound, Open, Active
    <3> QED
      BY <3>1, <3>2, <3>3, <3>10 DEF CallInv
  <2> QED
    BY <2>1, <2>2
<1> QED
  BY <1>2, <1>4, <1>5 DEF CallsInv

\* A step of runtime q that appends nothing and ends outside a pending append.
LEMMA QuietStep ==
    ASSUME TypeInv, FenceInv, [Next]_vars, UNCHANGED ledgerVars, StateInv, CallsInv,
           NEW q \in Runtimes, LockFrame(q),
           call'[q].step \notin {"append", "bind", "prepare"},
           \A r \in Runtimes : r # q => call'[r] = call[r]
    PROVE  StateInv' /\ CallsInv'
BY QuietCall, LedgerFrame

LEMMA PrepareNextInv ==
    ASSUME TypeInv, FenceInv, [Next]_vars, StateInv, CallsInv, NEW q \in Runtimes,
           PrepareNext(q)
    PROVE  StateInv' /\ CallsInv'
<1>c. call[q] \in Calls /\ CallOK(call[q]) /\ CallInv(q)
  BY DEF TypeInv, CallsTyped, CallsInv
<1>o. \A r \in Runtimes : r # q => call'[r] = call[r]
  BY PrepareNextCall
<1>1. ASSUME NEW t \in Tasks, NEW d \in Deps, NEW x \in Targets, NEW m,
             PrepareTask(q, t, d, x, m)
      PROVE  StateInv' /\ CallsInv'
  BY <1>1, PrepareTaskInv
<1>2. CASE Prepared(q)
  <2>1. CASE Hold(q, call[q].x, call[q].ref)
    <3>1. call'[q].step = "held" /\ LockFrame(q)
      BY <2>1, CallFields DEF Hold, LockFrame, TypeInv, CallsTyped
    <3> QED
      BY <1>2, <1>o, <3>1, QuietStep DEF Prepared
  <2>2. CASE Return(q)
    BY <1>2, <2>2, ReturnFrame, LedgerFrame DEF Prepared
  <2>3. CASE (Go(q, "source") \/ Go(q, "dispatch")) /\ UNCHANGED lock
    <3>1. call'[q].step \in {"source", "dispatch"} /\ LockFrame(q)
      BY <2>3, GoAfter DEF Steps, LockFrame
    <3> QED
      BY <1>2, <1>o, <3>1, QuietStep DEF Prepared
  <2> QED
    BY <1>2, <2>1, <2>2, <2>3 DEF Prepared
<1>3. CASE BindSource(q)
  BY <1>3, ReturnFrame, LedgerFrame DEF BindSource
<1>4. CASE PrepareFails(q)
  <2>1. CASE Return(q)
    BY <1>4, <2>1, ReturnFrame, LedgerFrame DEF PrepareFails
  <2>2. CASE ~Return(q)
    <3> DEFINE t == call[q].ref[1]
               d == call[q].ref[2]
               x == call[q].x
               e == DependencyEvent("DEPENDENCY_CANCELLED", t, d, x)
    <3>1. /\ call[q].step = "prepare" /\ UNCHANGED <<ledgerVars, lock>>
          /\ call' = [call EXCEPT ![q] = Appending(e)]
      BY <1>4, <2>2 DEF PrepareFails
    <3>2. t \in Tasks /\ d \in Deps /\ x \in Targets
      BY <1>c, <3>1 DEF CallOK, Refs
    <3>3. lock = q /\ Open(t) /\ Active(t, d) /\ dep[t][d] = x
      BY <1>c, <3>1 DEF CallInv, Bound
    <3> HIDE DEF t, d, x
    <3>4. e \in Events /\ Fresh(e)
      BY <3>2, <3>3, CancelFresh
    <3> HIDE DEF e
    <3>5. CallInv(q)' /\ LockFrame(q)
      BY <3>1, <3>3, <3>4, AppendingInv DEF LockFrame
    <3> QED
      BY <1>o, <3>1, <3>5, LedgerFrame
  <2> QED
    BY <2>1, <2>2
<1>5. ASSUME NEW x \in Targets, PrepareUnbound(q, x)
      PROVE  StateInv' /\ CallsInv'
  <2>1. CASE Hold(q, x, Nil)
    <3>1. call'[q].step = "held" /\ LockFrame(q)
      BY <2>1, CallFields DEF Hold, LockFrame, TypeInv, CallsTyped
    <3> QED
      BY <1>5, <1>o, <3>1, QuietStep DEF PrepareUnbound
  <2>2. CASE UNCHANGED <<lock, call>>
    BY <1>5, <1>o, <2>2, QuietStep DEF PrepareUnbound, LockFrame
  <2> QED
    BY <1>5, <2>1, <2>2 DEF PrepareUnbound
<1>6. ASSUME NEW x \in Targets, InvokeUnbound(q, x)
      PROVE  StateInv' /\ CallsInv'
  <2>1. call'[q].step = "dispatch"
    BY <1>6, CallFields DEF InvokeUnbound, TypeInv, CallsTyped
  <2> QED
    BY <1>6, <1>o, <2>1, QuietStep DEF InvokeUnbound, LockFrame
<1>7. CASE BindPCAttempt(q)
  BY <1>7, <1>o, QuietStep DEF BindPCAttempt, LockFrame
<1>8. ASSUME NEW x, NEW ref, RecoverPCAttempt(q, x, ref)
      PROVE  StateInv' /\ CallsInv'
  <2>1. call'[q].step = "held" /\ LockFrame(q)
    BY <1>8, CallFields DEF RecoverPCAttempt, Hold, LockFrame, TypeInv, CallsTyped
  <2> QED
    BY <1>8, <1>o, <2>1, QuietStep DEF RecoverPCAttempt
<1>9. \A x \in SourceMutations : x \in Targets
  BY DEF Targets
<1> QED
  BY <1>1, <1>2, <1>3, <1>4, <1>5, <1>6, <1>7, <1>8, <1>9 DEF PrepareNext

LEMMA DispatchNextInv ==
    ASSUME TypeInv, FenceInv, [Next]_vars, StateInv, CallsInv, NEW q \in Runtimes,
           DispatchNext(q)
    PROVE  StateInv' /\ CallsInv'
<1>1. ASSUME NEW x, NEW ref, Dispatch(q, x, ref) \/ ExecuteMutation(q, x, ref)
      PROVE  StateInv' /\ CallsInv'
  <2>1. call'[q].step = "dispatch" /\ \A r \in Runtimes : r # q => call'[r] = call[r]
    BY <1>1, CallFields DEF TypeInv, CallsTyped, Dispatch, ExecuteMutation, Dispatching
  <2>2. UNCHANGED ledgerVars /\ LockFrame(q)
    BY <1>1 DEF Dispatch, ExecuteMutation, Acquire, LockFrame
  <2> QED
    BY <2>1, <2>2, QuietStep
<1>2. ASSUME NEW x \in SourceMutations, NEW ref \in Refs, CancelReservedMutation(q, x, ref)
      PROVE  StateInv' /\ CallsInv'
  <2> DEFINE t == ref[1]
             d == ref[2]
             e == DependencyEvent("DEPENDENCY_CANCELLED", t, d, x)
  <2>1. t \in Tasks /\ d \in Deps /\ x \in Targets
    BY DEF Refs, Targets
  <2>2. /\ Open(t) /\ Active(t, d) /\ dep[t][d] = x /\ UNCHANGED ledgerVars
        /\ call' = [call EXCEPT ![q] = Appending(e)] /\ lock' = q /\ LockFrame(q)
    BY <1>2 DEF CancelReservedMutation, Acquire, LockFrame
  <2> HIDE DEF t, d
  <2>3. e \in Events /\ Fresh(e)
    BY <2>1, <2>2, CancelFresh
  <2> HIDE DEF e
  <2>4. CallInv(q)' /\ \A r \in Runtimes : r # q => call'[r] = call[r]
    BY <2>2, <2>3, AppendingInv
  <2> QED
    BY <2>2, <2>4, LedgerFrame
<1>3. CASE Reserve(q) \/ Claim(q)
  <2>1. /\ call'[q].step \in {"reserved", "executing"}
        /\ \A r \in Runtimes : r # q => call'[r] = call[r]
    BY <1>3, GoAfter DEF Reserve, Claim, Steps
  <2>2. UNCHANGED ledgerVars /\ LockFrame(q)
    BY <1>3 DEF Reserve, Claim, LockFrame
  <2> QED
    BY <2>1, <2>2, QuietStep
<1>4. CASE Refused(q) \/ RecordOutcome(q)
  BY <1>4, ReturnFrame, LedgerFrame DEF Refused, RecordOutcome
<1>5. ASSUME NEW known \in BOOLEAN, Settle(q, known)
      PROVE  StateInv' /\ CallsInv'
  <2>1. CASE Return(q)
    BY <1>5, <2>1, ReturnFrame, LedgerFrame DEF Settle
  <2>2. CASE Go(q, "record") /\ UNCHANGED lock
    <3>1. /\ call'[q].step = "record" /\ LockFrame(q)
          /\ \A r \in Runtimes : r # q => call'[r] = call[r]
      BY <2>2, GoAfter DEF Steps, LockFrame
    <3> QED
      BY <1>5, <3>1, QuietStep DEF Settle
  <2> QED
    BY <1>5, <2>1, <2>2 DEF Settle
<1> QED
  BY <1>1, <1>2, <1>3, <1>4, <1>5 DEF DispatchNext

TaskInv == TypeInv /\ FenceInv /\ StateInv /\ CallsInv

LEMMA TaskInvInit == Init => TaskInv
<1> SUFFICES ASSUME Init PROVE TaskInv
  OBVIOUS
<1>1. CallsInv
  BY CallFields DEF Init, CallsInv, CallInv
<1>2. NoDelegation.status = "NONE"
  BY DEF NoDelegation
<1>3. StateInv
  BY <1>2 DEF Init, StateInv, OneOwner, ClosedComplete, ActiveDelegation
<1> QED
  BY <1>1, <1>3, InitTyped, FenceInvInit DEF TaskInv

LEMMA TaskInvStep == TaskInv /\ [Next]_vars => TaskInv'
<1> SUFFICES ASSUME TaskInv, [Next]_vars PROVE TaskInv'
  OBVIOUS
<1>0. TypeInv /\ FenceInv /\ StateInv /\ CallsInv
  BY DEF TaskInv
<1>1. ASSUME NEW q \in Runtimes, LedgerNext(q) PROVE StateInv' /\ CallsInv'
  <2>1. PICK e \in Events : Decide(q, e) /\ Fresh(e)
    BY <1>0, <1>1, LedgerNextFresh
  <2>2. /\ UNCHANGED ledgerVars /\ call' = [call EXCEPT ![q] = Appending(e)]
        /\ lock' = q /\ LockFrame(q)
    BY <2>1 DEF Decide, Acquire, LockFrame
  <2>3. CallInv(q)' /\ \A r \in Runtimes : r # q => call'[r] = call[r]
    BY <1>0, <2>1, <2>2, AppendingInv
  <2> QED
    BY <1>0, <2>2, <2>3, LedgerFrame
<1>2. ASSUME NEW q \in Runtimes, Append(q) PROVE StateInv' /\ CallsInv'
  BY <1>0, <1>2, AppendInv
<1>3. ASSUME NEW q \in Runtimes, PrepareNext(q) PROVE StateInv' /\ CallsInv'
  BY <1>0, <1>3, PrepareNextInv
<1>4. ASSUME NEW q \in Runtimes, DispatchNext(q) PROVE StateInv' /\ CallsInv'
  BY <1>0, <1>4, DispatchNextInv
<1>5. ASSUME NEW q \in Runtimes, Crash(q) PROVE StateInv' /\ CallsInv'
  BY <1>0, <1>5, ReturnFrame, LedgerFrame DEF Crash
<1>6. ASSUME UNCHANGED <<ledgerVars, lock, call>> PROVE StateInv' /\ CallsInv'
  <2>1. CallsInv'
    <3> SUFFICES ASSUME NEW r \in Runtimes PROVE CallInv(r)'
      BY DEF CallsInv
    <3>1. call'[r] = call[r] /\ CallInv(r)
      BY <1>0, <1>6 DEF CallsInv
    <3>2. call[r].step \in {"append", "bind"} => Fresh(call[r].ev)'
      <4>1. call[r].step \in {"append", "bind"} => call[r].ev \in Events
        BY <1>0 DEF TypeInv, CallsTyped, CallOK
      <4> QED
        BY <1>0, <1>6, <3>1, <4>1, FreshKept DEF CallInv
    <3>3. call[r].step = "prepare" => Bound(call[r].ref, call[r].x)'
      BY <1>6, <3>1 DEF CallInv, Bound, Open, Active, ledgerVars
    <3> QED
      BY <1>6, <3>1, <3>2, <3>3 DEF CallInv
  <2> QED
    BY <1>0, <1>6, <2>1, StateKept
<1>7. ASSUME NEW x \in Targets, CancelReserved(x) \/ \E b \in BOOLEAN : Reconcile(x, b)
      PROVE  UNCHANGED <<ledgerVars, lock, call>>
  BY <1>7 DEF CancelReserved, Reconcile
<1>8. UNCHANGED vars => UNCHANGED <<ledgerVars, lock, call>>
  BY DEF vars
<1>9. StateInv' /\ CallsInv'
  BY <1>1, <1>2, <1>3, <1>4, <1>5, <1>6, <1>7, <1>8 DEF Next
<1> QED
  BY <1>0, <1>9, NextTyped, FenceInvStep DEF TaskInv

\* The inductive invariant the theorems below rest on.
THEOREM TaskInvariant == Spec => []TaskInv
BY TaskInvInit, TaskInvStep, PTL DEF Spec

(***************************************************************************)
(* No sequence of calls and crashes of any number of runtimes writes a     *)
(* task history that read() or verify_chain() raises on: whoever has an    *)
(* event to append holds tasks.action_lock() since its checks, so they     *)
(* still hold when the event reaches the journal.                          *)
(***************************************************************************)
THEOREM TaskHistoryReadable == Spec => []HistoryReadable
<1>1. TaskInv => HistoryReadable
  BY DEF TaskInv, StateInv, HistoryReadable
<1> QED
  BY <1>1, TaskInvariant, PTL

(***************************************************************************)
(* One active owner per subject scope and one dependency per target, over  *)
(* any number of tasks, although read() checks neither across tasks.       *)
(***************************************************************************)
THEOREM TaskOneOwner == Spec => []OneOwner
<1>1. TaskInv => OneOwner
  BY DEF TaskInv, StateInv
<1> QED
  BY <1>1, TaskInvariant, PTL

(***************************************************************************)
(* What closeout found complete stays complete: neither the events and     *)
(* dispatches between the assessment and the append nor anything after it  *)
(* undoes a success, its owner or its record.                              *)
(***************************************************************************)
THEOREM TaskClosedComplete == Spec => []ClosedComplete
<1>1. TaskInv => ClosedComplete
  BY DEF TaskInv, StateInv
<1> QED
  BY <1>1, TaskInvariant, PTL
----------------------------------------------------------------------------
(* Execution on behalf of an open task.                                    *)

Underway(r) == call[r].step \in {"dispatch", "reserved"}

\* A dispatch of anything but a PC job has a durable binding behind it, and as
\* long as its row may still be claimed, the dependency it works for is intact.
DispatchInv(r) ==
    /\ Underway(r) /\ call[r].x \notin PCJobs =>
           /\ binding[call[r].x] # {}
           /\ call[r].ref # Nil /\ fence[call[r].x] \in {"ABSENT", "RESERVED"} =>
                  Bound(call[r].ref, call[r].x)
    /\ call[r].step = "reserved" => authority[call[r].x] = call[r].ref

\* A pending cancellation is of a dependency whose target can no longer execute,
\* or has not started: then whatever starts meanwhile does so without a task.
PendingInv(r) ==
    call[r].step = "append" /\ call[r].ev.type = "DEPENDENCY_CANCELLED"
      /\ call[r].ev.target \notin PCJobs =>
        LET x == call[r].ev.target IN
        \/ fence[x] = "CANCELLED_PRE_DISPATCH"
        \/ /\ binding[x] \subseteq {Nil}
           /\ \A q \in Runtimes : Underway(q) /\ call[q].x = x => call[q].ref = Nil

\* A source mutation is dispatched under the action lock, as its owner.
OwnerInv(r) ==
    Underway(r) /\ call[r].x \in SourceMutations =>
        /\ lock = r /\ call[r].ref \in Refs
        /\ mutation[call[r].x] # Nil
        /\ MayMutate(call[r].ref[1], mutation[call[r].x])

\* A bound source mutation keeps its dependency until its row is cancelled; the
\* adapter relies on it when it looks at the task only.
SourceInv ==
    \A x \in SourceMutations : \A ref \in binding[x] \cap Refs :
        /\ dep[ref[1]][ref[2]] = x
        /\ fence[x] # "CANCELLED_PRE_DISPATCH" => Active(ref[1], ref[2])

ExecInv ==
    /\ SourceInv
    /\ \A r \in Runtimes : DispatchInv(r) /\ PendingInv(r) /\ OwnerInv(r)

\* What a step of runtime q leaves of the outbound work of the others.
OutboundFrame(q) ==
    /\ \A x \in Targets \ PCJobs :
          binding'[x] = binding[x] \/ binding'[x] = {Nil} \/ (lock = q /\ binding'[x] # {})
    /\ \A x \in Targets :
          /\ fence'[x] \in {"ABSENT", "RESERVED"} => fence[x] \in {"ABSENT", "RESERVED"}
          /\ fence[x] = "CANCELLED_PRE_DISPATCH" => fence'[x] = "CANCELLED_PRE_DISPATCH"
    /\ \A r \in Runtimes \ {q} :
          call[r].step = "reserved" => authority'[call[r].x] = authority[call[r].x]
    /\ \A x \in SourceMutations : mutation[x] # Nil => mutation'[x] = mutation[x]

\* Runtime q begins no dispatch but one without a task, under the action lock, or
\* under the only reference of a durable binding.
StartFrame(q) ==
    q \in Runtimes /\ call'[q].step \in {"dispatch", "reserved"} =>
        \/ call'[q].x \in PCJobs
        \/ call'[q].ref = Nil
        \/ lock = q
        \/ binding[call'[q].x] = {call'[q].ref}
        \/ Underway(q) /\ call'[q].x = call[q].x /\ call'[q].ref = call[q].ref

LEMMA UnchangedOutbound ==
    ASSUME NEW q, UNCHANGED outboundVars
    PROVE  OutboundFrame(q)
BY DEF OutboundFrame, outboundVars

\* Such a step keeps what holds of the calls of the others.
LEMMA ExecFrame ==
    ASSUME TypeInv, CallsInv, ExecInv, UNCHANGED ledgerVars,
           NEW q \in Runtimes \cup {Nil}, LockFrame(q), OutboundFrame(q), StartFrame(q),
           \A p \in Runtimes : p # q => call'[p] = call[p],
           NEW r \in Runtimes, r # q
    PROVE  DispatchInv(r)' /\ PendingInv(r)' /\ OwnerInv(r)'
<1>1. /\ call'[r] = call[r] /\ r # Nil /\ CallInv(r) /\ CallOK(call[r])
      /\ DispatchInv(r) /\ PendingInv(r) /\ OwnerInv(r)
  BY NilAssumption DEF TypeInv, CallsTyped, CallsInv, ExecInv
<1>2. Underway(r) => call[r].x \in Targets
  BY <1>1 DEF Underway, CallOK
<1>3. DispatchInv(r)'
  <2>1. Underway(r)' <=> Underway(r)
    BY <1>1 DEF Underway
  <2>2. Underway(r) /\ call[r].x \notin PCJobs => binding'[call[r].x] # {}
    BY <1>1, <1>2 DEF OutboundFrame, DispatchInv
  <2>3. Bound(call[r].ref, call[r].x) => Bound(call[r].ref, call[r].x)'
    BY <1>1 DEF Bound, Open, Active, ledgerVars
  <2>4. Underway(r) /\ fence'[call[r].x] \in {"ABSENT", "RESERVED"} =>
            fence[call[r].x] \in {"ABSENT", "RESERVED"}
    BY <1>2 DEF OutboundFrame
  <2>5. call[r].step = "reserved" => authority'[call[r].x] = call[r].ref
    BY <1>1 DEF OutboundFrame, DispatchInv
  <2> QED
    BY <1>1, <2>1, <2>2, <2>3, <2>4, <2>5 DEF DispatchInv
<1>4. OwnerInv(r)'
  <2>1. SUFFICES ASSUME Underway(r), call[r].x \in SourceMutations
                 PROVE  /\ lock' = r /\ call[r].ref \in Refs
                        /\ mutation'[call[r].x] # Nil
                        /\ MayMutate(call[r].ref[1], mutation[call[r].x])'
    BY <1>1 DEF OwnerInv, Underway
  <2>2. /\ lock = r /\ call[r].ref \in Refs /\ mutation[call[r].x] # Nil
        /\ MayMutate(call[r].ref[1], mutation[call[r].x])
    BY <1>1, <2>1 DEF OwnerInv
  <2>3. lock' = r
    BY <1>1, <2>2 DEF LockFrame
  <2>4. mutation'[call[r].x] = mutation[call[r].x]
    BY <2>1, <2>2 DEF OutboundFrame
  <2>5. deleg' = deleg
    BY DEF ledgerVars
  <2>6. \A t, m : MayMutate(t, m) => MayMutate(t, m)'
    BY <2>5 DEF MayMutate, Undelegated, ActiveDelegation
  <2>7. MayMutate(call[r].ref[1], mutation[call[r].x])'
    BY <1>1, <2>2, <2>4, <2>6
  <2> QED
    BY <2>2, <2>3, <2>4, <2>7
<1>5. PendingInv(r)'
  <2>1. SUFFICES ASSUME call[r].step = "append", call[r].ev.type = "DEPENDENCY_CANCELLED",
                        call[r].ev.target \notin PCJobs,
                        fence'[call[r].ev.target] # "CANCELLED_PRE_DISPATCH"
                 PROVE  /\ binding'[call[r].ev.target] \subseteq {Nil}
                        /\ \A p \in Runtimes :
                              Underway(p)' /\ call'[p].x = call[r].ev.target => call'[p].ref = Nil
    BY <1>1 DEF PendingInv, Underway
  <2> DEFINE x == call[r].ev.target
  <2>2. x \in Targets
    BY <1>1, <2>1, EventShape DEF CallOK, DependencyEvents
  <2>3. lock # q
    BY <1>1, <2>1 DEF CallInv
  <2>4. /\ binding[x] \subseteq {Nil}
        /\ \A p \in Runtimes : Underway(p) /\ call[p].x = x => call[p].ref = Nil
    BY <1>1, <2>1, <2>2 DEF PendingInv, OutboundFrame
  <2> HIDE DEF x
  <2>5. binding'[x] \subseteq {Nil}
    BY <2>1, <2>2, <2>3, <2>4 DEF OutboundFrame, x
  <2>6. ASSUME NEW p \in Runtimes, Underway(p)', call'[p].x = x PROVE call'[p].ref = Nil
    <3>1. CASE p # q
      BY <2>4, <2>6, <3>1 DEF Underway
    <3>2. CASE p = q
      BY <2>1, <2>3, <2>4, <2>6, <3>2 DEF StartFrame, Underway, x
    <3> QED
      BY <3>1, <3>2
  <2> QED
    BY <2>5, <2>6 DEF x
<1> QED
  BY <1>3, <1>4, <1>5

LEMMA SourceFrame ==
    ASSUME SourceInv, UNCHANGED ledgerVars, NEW q, OutboundFrame(q),
           \A x \in SourceMutations : binding'[x] \cap Refs \subseteq binding[x]
    PROVE  SourceInv'
<1> SUFFICES ASSUME NEW x \in SourceMutations, NEW ref \in binding'[x] \cap Refs
             PROVE  /\ dep'[ref[1]][ref[2]] = x
                    /\ fence'[x] # "CANCELLED_PRE_DISPATCH" => Active(ref[1], ref[2])'
  BY DEF SourceInv
<1>1. ref \in binding[x] \cap Refs /\ x \in Targets
  BY DEF Targets
<1>2. /\ dep[ref[1]][ref[2]] = x
      /\ fence[x] # "CANCELLED_PRE_DISPATCH" => Active(ref[1], ref[2])
  BY <1>1 DEF SourceInv
<1>3. fence'[x] # "CANCELLED_PRE_DISPATCH" => fence[x] # "CANCELLED_PRE_DISPATCH"
  BY <1>1 DEF OutboundFrame
<1>4. dep' = dep /\ cancelled' = cancelled
  BY DEF ledgerVars
<1> QED
  BY <1>2, <1>3, <1>4 DEF Active

\* A call that is neither dispatching nor about to append claims nothing.
LEMMA IdleExec ==
    ASSUME NEW q, call'[q].step \notin {"dispatch", "reserved", "append"}
    PROVE  StartFrame(q) /\ DispatchInv(q)' /\ PendingInv(q)' /\ OwnerInv(q)'
BY DEF StartFrame, DispatchInv, PendingInv, OwnerInv, Underway

\* A step that appends nothing and leaves the bindings of source mutations alone.
LEMMA ExecKept ==
    ASSUME TypeInv, CallsInv, ExecInv, UNCHANGED ledgerVars,
           NEW q \in Runtimes, LockFrame(q), OutboundFrame(q), StartFrame(q),
           \A p \in Runtimes : p # q => call'[p] = call[p],
           \A x \in SourceMutations : binding'[x] \cap Refs \subseteq binding[x],
           DispatchInv(q)', PendingInv(q)', OwnerInv(q)'
    PROVE  ExecInv'
<1>1. SourceInv'
  BY SourceFrame DEF ExecInv
<1>2. ASSUME NEW r \in Runtimes, r # q PROVE DispatchInv(r)' /\ PendingInv(r)' /\ OwnerInv(r)'
  BY <1>2, ExecFrame
<1> QED
  BY <1>1, <1>2 DEF ExecInv

\* A cancellation is decided while its target has not started: nothing is bound
\* to it and so nothing is under way for it.
LEMMA NotStarted ==
    ASSUME ExecInv, NEW q \in Runtimes, NEW e, call'[q].step = "append", call'[q].ev = e,
           \A p \in Runtimes : p # q => call'[p] = call[p],
           UNCHANGED outboundVars, e.type = "DEPENDENCY_CANCELLED" => ~Started(e.target)
    PROVE  PendingInv(q)'
<1> SUFFICES ASSUME e.type = "DEPENDENCY_CANCELLED", e.target \notin PCJobs
             PROVE  /\ binding'[e.target] \subseteq {Nil}
                    /\ \A p \in Runtimes : Underway(p)' /\ call'[p].x = e.target => call'[p].ref = Nil
  BY DEF PendingInv, Underway
<1>1. binding[e.target] = {} /\ binding' = binding
  BY DEF Started, outboundVars
<1>2. ASSUME NEW p \in Runtimes, Underway(p)', call'[p].x = e.target PROVE FALSE
  <2>1. p # q
    BY <1>2 DEF Underway
  <2>2. Underway(p) /\ call[p].x = e.target
    BY <1>2, <2>1 DEF Underway
  <2> QED
    BY <1>1, <2>2 DEF ExecInv, DispatchInv
<1> QED
  BY <1>1, <1>2

LEMMA LedgerNextCancels ==
    ASSUME NEW q \in Runtimes, LedgerNext(q)
    PROVE  \E e : Decide(q, e) /\ (e.type = "DEPENDENCY_CANCELLED" => ~Started(e.target))
<1>1. ASSUME NEW t \in Tasks, NEW d \in Deps, CancelTaskDependency(q, t, d)
      PROVE  \E e : Decide(q, e) /\ (e.type = "DEPENDENCY_CANCELLED" => ~Started(e.target))
  BY <1>1 DEF CancelTaskDependency, DependencyEvent
<1>2. ASSUME NEW t \in Tasks, NEW d \in Deps, NEW x, BindTaskDependency(q, t, d, x)
      PROVE  \E e : Decide(q, e) /\ (e.type = "DEPENDENCY_CANCELLED" => ~Started(e.target))
  BY <1>2 DEF BindTaskDependency, DependencyEvent
<1>3. ASSUME NEW t \in Tasks, StartTask(q, t) \/ CheckpointTask(q, t) \/ CloseTask(q, t)
      PROVE  \E e : Decide(q, e) /\ (e.type = "DEPENDENCY_CANCELLED" => ~Started(e.target))
  <2>1. CASE StartTask(q, t)
    BY <2>1 DEF StartTask
  <2>2. CASE CheckpointTask(q, t)
    BY <2>2 DEF CheckpointTask
  <2>3. CASE CloseTask(q, t)
    BY <2>3 DEF CloseTask
  <2> QED
    BY <1>3, <2>1, <2>2, <2>3
<1>4. ASSUME NEW t \in Tasks, NEW c \in Corrections, RecordTaskCorrection(q, t, c)
      PROVE  \E e : Decide(q, e) /\ (e.type = "DEPENDENCY_CANCELLED" => ~Started(e.target))
  BY <1>4 DEF RecordTaskCorrection
<1>5. ASSUME NEW t \in Tasks, NEW g \in Delegs, NEW s, NEW a, DelegateTaskWork(q, t, g, s, a)
      PROVE  \E e : Decide(q, e) /\ (e.type = "DEPENDENCY_CANCELLED" => ~Started(e.target))
  BY <1>5 DEF DelegateTaskWork
<1>6. ASSUME NEW t \in Tasks, NEW g \in Delegs, NEW a, ReassignTaskDelegation(q, t, g, a)
      PROVE  \E e : Decide(q, e) /\ (e.type = "DEPENDENCY_CANCELLED" => ~Started(e.target))
  BY <1>6 DEF ReassignTaskDelegation
<1>7. ASSUME NEW t \in Tasks, NEW g \in Delegs, NEW type \in {"RETURNED", "CANCELLED"},
             EndTaskDelegation(q, t, g, type)
      PROVE  \E e : Decide(q, e) /\ (e.type = "DEPENDENCY_CANCELLED" => ~Started(e.target))
  BY <1>7 DEF EndTaskDelegation
<1> QED
  BY <1>1, <1>2, <1>3, <1>4, <1>5, <1>6, <1>7 DEF LedgerNext

LEMMA ExecLedger ==
    ASSUME TaskInv, ExecInv, NEW q \in Runtimes, LedgerNext(q)
    PROVE  ExecInv'
<1>0. TypeInv /\ CallsInv
  BY DEF TaskInv
<1>1. PICK e : Decide(q, e) /\ (e.type = "DEPENDENCY_CANCELLED" => ~Started(e.target))
  BY LedgerNextCancels
<1>2. UNCHANGED <<ledgerVars, outboundVars>> /\ LockFrame(q)
  BY <1>1 DEF Decide, Acquire, LockFrame
<1>3. /\ call'[q].step = "append" /\ call'[q].ev = e
      /\ \A p \in Runtimes : p # q => call'[p] = call[p]
  BY <1>0, <1>1, CallFields DEF TypeInv, CallsTyped, Decide
<1>4. StartFrame(q) /\ DispatchInv(q)' /\ OwnerInv(q)'
  BY <1>3 DEF StartFrame, DispatchInv, OwnerInv, Underway
<1>5. PendingInv(q)'
  BY <1>1, <1>2, <1>3, NotStarted
<1>6. OutboundFrame(q) /\ binding' = binding
  BY <1>2, UnchangedOutbound DEF outboundVars
<1> QED
  BY <1>0, <1>2, <1>3, <1>4, <1>5, <1>6, ExecKept

\* No event reaches the journal that takes from work under way the task or the
\* dependency it is for: a closeout has found a dependency of each row satisfied.
LEMMA BoundKept ==
    ASSUME TaskInv, ExecInv, NEW q \in Runtimes, Append(q), NEW t \in Tasks, NEW d \in Deps,
           NEW x \in Targets, x \notin PCJobs, Bound(<<t, d>>, x),
           fence[x] \in {"ABSENT", "RESERVED"},
           \/ <<t, d>> \in binding[x]
           \/ \E r \in Runtimes : Underway(r) /\ call[r].x = x /\ call[r].ref = <<t, d>>
    PROVE  Bound(<<t, d>>, x)'
<1> DEFINE e == call[q].ev
<1>0. TypeInv /\ StateInv /\ CallInv(q) /\ CallOK(call[q]) /\ PendingInv(q)
  BY DEF TaskInv, TypeInv, CallsTyped, CallsInv, ExecInv
<1>1. e \in Events /\ Journal(e) /\ Fresh(e) /\ call[q].step \in {"append", "bind"}
  BY <1>0 DEF Append, CallOK, CallInv
<1>2. t \in opened \ closed /\ dep[t][d] = x /\ d \notin cancelled[t] /\ x # Nil
      /\ <<t, d>> # Nil
  BY NilAssumption DEF Bound, Open, Active, Refs
<1>3. e.type = "CLOSED" => e.task # t
  <2> SUFFICES ASSUME e.type = "CLOSED", e.task = t PROVE FALSE
    OBVIOUS
  <2>1. Satisfied(t, d)
    BY <1>1, <1>2 DEF Fresh, Complete, Active
  <2> QED
    BY <1>2, <2>1 DEF Satisfied, EffectSatisfied, Success
<1>4. e.type = "DEPENDENCY_CANCELLED" /\ e.task = t => e.id # d
  <2> SUFFICES ASSUME e.type = "DEPENDENCY_CANCELLED", e.task = t, e.id = d PROVE FALSE
    OBVIOUS
  <2>1. call[q].step = "append"
    BY <1>0, <1>1 DEF CallInv, DependencyEvent
  <2>2. e.target = x
    BY <1>1, <1>2 DEF Fresh, Accepts, AcceptsDependency
  <2>3. /\ binding[x] \subseteq {Nil}
        /\ \A p \in Runtimes : Underway(p) /\ call[p].x = x => call[p].ref = Nil
    BY <1>0, <2>1, <2>2 DEF PendingInv
  <2> QED
    BY <1>2, <2>3
<1>5. e.type = "DEPENDENCY" /\ e.task = t => e.id # d
  BY <1>1, <1>2 DEF Fresh, Accepts, AcceptsDependency
<1> HIDE DEF e
<1>6. t \in opened' \ closed'
  BY <1>1, <1>2, <1>3 DEF Journal
<1>7. dep'[t][d] = x
  BY <1>0, <1>1, <1>2, <1>5, JournalSame, JournalOther
<1>8. d \notin cancelled'[t]
  BY <1>0, <1>1, <1>2, <1>4, JournalSame, JournalOther
<1> QED
  BY <1>2, <1>6, <1>7, <1>8 DEF Bound, Open, Active

LEMMA ExecAppend ==
    ASSUME TaskInv, ExecInv, NEW q \in Runtimes, Append(q)
    PROVE  ExecInv'
<1>0. TypeInv /\ CallsTyped /\ OutboundTyped /\ SourceInv /\ CallInv(q) /\ CallOK(call[q])
  BY DEF TaskInv, TypeInv, CallsTyped, CallsInv, ExecInv
<1>1. /\ UNCHANGED outboundVars /\ call'[q].step \in {"idle", "prepare"} /\ lock = q
      /\ \A r \in Runtimes : r # q => call'[r] = call[r]
  <2>1. UNCHANGED outboundVars /\ call[q].step \in {"append", "bind"}
    BY DEF Append
  <2>2. lock = q
    BY <1>0, <2>1 DEF CallInv
  <2> QED
    BY <1>0, <2>1, <2>2, AppendCall
<1>2. DispatchInv(q)' /\ PendingInv(q)' /\ OwnerInv(q)'
  BY <1>1, IdleExec
<1>3. ASSUME NEW r \in Runtimes, r # q PROVE PendingInv(r)' /\ OwnerInv(r)'
  <2>1. ~(Underway(r) /\ call[r].x \in SourceMutations) /\ call[r].step # "append"
    BY <1>1, <1>3 DEF TaskInv, CallsInv, CallInv, ExecInv, OwnerInv
  <2> QED
    BY <1>1, <1>3, <2>1 DEF PendingInv, OwnerInv, Underway
<1>4. ASSUME NEW r \in Runtimes, r # q PROVE DispatchInv(r)'
  <2> DEFINE x == call[r].x
             ref == call[r].ref
  <2>1. call'[r] = call[r] /\ DispatchInv(r) /\ UNCHANGED <<binding, fence, authority>>
    BY <1>1, <1>4 DEF ExecInv, outboundVars
  <2>2. SUFFICES ASSUME Underway(r), x \notin PCJobs, ref # Nil, fence[x] \in {"ABSENT", "RESERVED"}
                 PROVE  Bound(ref, x)'
    BY <2>1 DEF DispatchInv, Underway
  <2>3. Bound(ref, x) /\ x \in Targets /\ ref \in Refs
    BY <1>0, <2>1, <2>2 DEF DispatchInv, Underway, CallsTyped, CallOK, Calls
  <2>4. PICK t \in Tasks, d \in Deps, y \in Targets : ref = <<t, d>> /\ x = y
    BY <2>3 DEF Refs
  <2>5. x' = x /\ ref' = ref
    BY <2>1
  <2>6. /\ Bound(<<t, d>>, y) /\ y \notin PCJobs /\ fence[y] \in {"ABSENT", "RESERVED"}
        /\ Underway(r) /\ call[r].x = y /\ call[r].ref = <<t, d>>
    BY <2>2, <2>3, <2>4
  <2>7. Bound(<<t, d>>, y)'
    BY <2>6, BoundKept
  <2> QED
    BY <2>4, <2>5, <2>7 DEF Bound
<1>5. SourceInv'
  <2> SUFFICES ASSUME NEW x \in SourceMutations, NEW ref \in binding[x] \cap Refs
               PROVE  /\ dep'[ref[1]][ref[2]] = x
                      /\ fence[x] # "CANCELLED_PRE_DISPATCH" => Active(ref[1], ref[2])'
    BY <1>1 DEF SourceInv, outboundVars
  <2>1. PICK t \in Tasks, d \in Deps : ref = <<t, d>>
    BY DEF Refs
  <2>2. dep[t][d] = x /\ x \in Targets /\ x # Nil /\ ref # Nil
    BY <1>0, <2>1, NilAssumption DEF SourceInv, Targets
  <2> DEFINE e == call[q].ev
  <2>3. e \in Events /\ Journal(e) /\ Fresh(e) /\ call[q].step \in {"append", "bind"}
    BY <1>0 DEF Append, CallOK, CallInv
  <2>4. e.type = "DEPENDENCY" /\ e.task = t => e.id # d
    BY <2>2, <2>3 DEF Fresh, Accepts, AcceptsDependency
  <2>5. e.type = "DEPENDENCY_CANCELLED" /\ e.task = t /\ e.id = d => fence[x] = "CANCELLED_PRE_DISPATCH"
    <3> SUFFICES ASSUME e.type = "DEPENDENCY_CANCELLED", e.task = t, e.id = d
                 PROVE  fence[x] = "CANCELLED_PRE_DISPATCH"
      OBVIOUS
    <3>1. call[q].step = "append" /\ e.target = x /\ x \notin PCJobs
      BY <1>0, <2>2, <2>3, TaskAssumption
         DEF CallInv, DependencyEvent, Fresh, Accepts, AcceptsDependency
    <3> QED
      BY <2>2, <3>1 DEF ExecInv, PendingInv
  <2> HIDE DEF e
  <2>6. dep'[t][d] = x
    BY <1>0, <2>2, <2>3, <2>4, JournalSame, JournalOther
  <2>7. fence[x] # "CANCELLED_PRE_DISPATCH" => d \notin cancelled'[t]
    <3>1. fence[x] # "CANCELLED_PRE_DISPATCH" => d \notin cancelled[t]
      BY <2>1 DEF ExecInv, SourceInv, Active
    <3> QED
      BY <1>0, <2>3, <2>5, <3>1, JournalSame, JournalOther
  <2> QED
    BY <2>1, <2>2, <2>6, <2>7 DEF Active
<1> QED
  BY <1>2, <1>3, <1>4, <1>5 DEF ExecInv

\* A preparation writes its binding under the action lock, while the dependency
\* it has checked or bound is active.
LEMMA ExecPrepared ==
    ASSUME TaskInv, ExecInv, NEW q \in Runtimes, Prepared(q)
    PROVE  ExecInv'
<1>0. /\ TypeInv /\ CallsInv /\ OutboundTyped /\ SourceInv
      /\ CallInv(q) /\ CallOK(call[q]) /\ call[q].step = "prepare"
  BY DEF TaskInv, TypeInv, CallsTyped, CallsInv, ExecInv, Prepared
<1>1. lock = q /\ Bound(call[q].ref, call[q].x) /\ call[q].x \in Targets /\ call[q].ref \in Refs
  BY <1>0 DEF CallInv, CallOK
<1>2. PICK x \in Targets, ref \in Refs : call[q].x = x /\ call[q].ref = ref
  BY <1>1
<1>3. UNCHANGED <<ledgerVars, mutation, fence, authority, outcome>>
  BY DEF Prepared
<1>4. CASE x \in PCJobs
  <2>1. Hold(q, x, ref) /\ UNCHANGED binding
    BY <1>2, <1>4, TaskAssumption DEF Prepared
  <2>2. /\ call'[q].step = "held" /\ LockFrame(q)
        /\ \A p \in Runtimes : p # q => call'[p] = call[p]
    BY <1>0, <2>1, CallFields DEF Hold, LockFrame, TypeInv, CallsTyped
  <2>3. OutboundFrame(q)
    BY <1>3, <2>1 DEF OutboundFrame
  <2> QED
    BY <1>0, <1>3, <2>1, <2>2, <2>3, IdleExec, ExecKept
<1>5. CASE x \in ProviderEffects
  <2>1. Return(q) /\ binding' = [binding EXCEPT ![x] = {ref}]
    BY <1>2, <1>5, TaskAssumption DEF Prepared
  <2>2. OutboundFrame(q)
    BY <1>0, <1>1, <1>3, <2>1 DEF OutboundFrame, OutboundTyped
  <2>3. \A y \in SourceMutations : binding'[y] = binding[y]
    BY <1>0, <1>5, <2>1, TaskAssumption DEF OutboundTyped, Targets
  <2>4. LockFrame(q) /\ call'[q].step = "idle" /\ \A p \in Runtimes : p # q => call'[p] = call[p]
    BY <1>0, <2>1, ReturnFrame, ReturnAfter
  <2> QED
    BY <1>0, <1>3, <2>2, <2>3, <2>4, IdleExec, ExecKept
<1>6. CASE x \in Commands
  <2>1. Go(q, "dispatch") /\ UNCHANGED lock /\ binding' = [binding EXCEPT ![x] = {Nil}]
    BY <1>2, <1>6, TaskAssumption DEF Prepared
  <2>2. OutboundFrame(q)
    BY <1>0, <1>1, <1>3, <2>1 DEF OutboundFrame, OutboundTyped
  <2>3. \A y \in SourceMutations : binding'[y] = binding[y]
    BY <1>0, <1>6, <2>1, TaskAssumption DEF OutboundTyped, Targets
  <2>4. /\ call'[q].step = "dispatch" /\ call'[q].x = x /\ call'[q].ref = ref
        /\ \A p \in Runtimes : p # q => call'[p] = call[p]
    BY <1>0, <1>2, <2>1, GoAfter DEF Steps
  <2>5. LockFrame(q) /\ StartFrame(q) /\ PendingInv(q)'
    BY <1>1, <2>1, <2>4 DEF LockFrame, StartFrame, PendingInv
  <2>6. binding'[x] # {}
    BY <1>0, <2>1 DEF OutboundTyped
  <2>7. Bound(call[q].ref, call[q].x)'
    BY <1>1, <1>2, <1>3, <2>4 DEF Bound, Open, Active, ledgerVars
  <2>8. DispatchInv(q)'
    BY <2>4, <2>6, <2>7 DEF DispatchInv
  <2>9. OwnerInv(q)'
    BY <1>6, <2>4, TaskAssumption DEF OwnerInv
  <2> QED
    BY <1>0, <1>3, <2>2, <2>3, <2>4, <2>5, <2>8, <2>9, ExecKept
<1>7. CASE x \in SourceMutations
  <2>1. Go(q, "source") /\ UNCHANGED lock /\ binding' = [binding EXCEPT ![x] = {ref}]
    BY <1>2, <1>7, TaskAssumption DEF Prepared
  <2>2. OutboundFrame(q)
    BY <1>0, <1>1, <1>3, <2>1 DEF OutboundFrame, OutboundTyped
  <2>3. /\ call'[q].step = "source" /\ LockFrame(q)
        /\ \A p \in Runtimes : p # q => call'[p] = call[p]
    BY <1>0, <2>1, GoAfter DEF Steps, LockFrame
  <2>4. StartFrame(q) /\ DispatchInv(q)' /\ PendingInv(q)' /\ OwnerInv(q)'
    BY <2>3, IdleExec
  <2>5. ASSUME NEW r \in Runtimes, r # q PROVE DispatchInv(r)' /\ PendingInv(r)' /\ OwnerInv(r)'
    BY <1>0, <1>3, <2>2, <2>3, <2>4, <2>5, ExecFrame
  <2>6. SourceInv'
    <3>1. SUFFICES ASSUME NEW y \in SourceMutations, NEW s \in binding'[y] \cap Refs
                   PROVE  /\ dep[s[1]][s[2]] = y
                          /\ fence[y] # "CANCELLED_PRE_DISPATCH" => Active(s[1], s[2])
      BY <1>3 DEF SourceInv, Active, ledgerVars
    <3>2. CASE y = x
      BY <1>0, <1>1, <1>2, <2>1, <3>2 DEF OutboundTyped, Bound
    <3>3. CASE y # x
      <4>1. s \in binding[y] \cap Refs
        BY <1>0, <2>1, <3>3 DEF OutboundTyped, Targets
      <4> QED
        BY <1>0, <4>1 DEF SourceInv
    <3> QED
      BY <3>2, <3>3
  <2> QED
    BY <2>4, <2>5, <2>6 DEF ExecInv
<1> QED
  BY <1>4, <1>5, <1>6, <1>7 DEF Targets

LEMMA ExecPrepare ==
    ASSUME TaskInv, ExecInv, NEW q \in Runtimes, PrepareNext(q)
    PROVE  ExecInv'
<1>0. /\ TypeInv /\ CallsInv /\ OutboundTyped /\ CallInv(q) /\ CallOK(call[q])
  BY DEF TaskInv, TypeInv, CallsTyped, CallsInv
<1>o. \A p \in Runtimes : p # q => call'[p] = call[p]
  BY <1>0, PrepareNextCall
<1>1. ASSUME NEW t, NEW d, NEW x, NEW m, PrepareTask(q, t, d, x, m) PROVE ExecInv'
  <2>1. UNCHANGED <<ledgerVars, outboundVars>> /\ LockFrame(q)
    BY <1>1 DEF PrepareTask, Acquire, LockFrame
  <2>2. call'[q].step \in {"bind", "prepare"}
    BY <1>0, <1>1, CallAfter DEF PrepareTask
  <2>3. OutboundFrame(q) /\ binding' = binding
    BY <2>1, UnchangedOutbound DEF outboundVars
  <2> QED
    BY <1>0, <1>o, <2>1, <2>2, <2>3, IdleExec, ExecKept
<1>2. CASE Prepared(q)
  BY <1>2, ExecPrepared
<1>3. CASE BindSource(q)
  <2>1. UNCHANGED <<ledgerVars, binding, fence, authority>> /\ Return(q)
    BY <1>3 DEF BindSource
  <2>2. \A x \in SourceMutations : mutation[x] # Nil => mutation'[x] = mutation[x]
    BY <1>0, <1>3 DEF BindSource, OutboundTyped
  <2>3. OutboundFrame(q)
    BY <2>1, <2>2 DEF OutboundFrame
  <2>4. LockFrame(q) /\ call'[q].step = "idle"
    BY <1>0, <2>1, ReturnFrame, ReturnAfter
  <2> QED
    BY <1>0, <1>o, <2>1, <2>3, <2>4, IdleExec, ExecKept
<1>4. CASE PrepareFails(q)
  <2>1. UNCHANGED <<ledgerVars, outboundVars>> /\ binding' = binding /\ OutboundFrame(q)
    BY <1>4, UnchangedOutbound DEF PrepareFails, outboundVars
  <2>2. CASE Return(q)
    <3>1. LockFrame(q) /\ call'[q].step = "idle"
      BY <1>0, <2>2, ReturnFrame, ReturnAfter
    <3> QED
      BY <1>0, <1>o, <2>1, <3>1, IdleExec, ExecKept
  <2>3. CASE ~Return(q)
    <3> DEFINE e == DependencyEvent("DEPENDENCY_CANCELLED", call[q].ref[1], call[q].ref[2], call[q].x)
    <3>1. /\ call' = [call EXCEPT ![q] = Appending(e)] /\ UNCHANGED lock
          /\ ~Started(call[q].x)
      BY <1>4, <2>3 DEF PrepareFails
    <3>2. e.type = "DEPENDENCY_CANCELLED" /\ e.target = call[q].x
      BY DEF DependencyEvent
    <3> HIDE DEF e
    <3>3. PICK f : f = e
      OBVIOUS
    <3>4. call'[q].step = "append" /\ call'[q].ev = f
      BY <1>0, <3>1, <3>3, CallFields DEF TypeInv, CallsTyped
    <3>5. StartFrame(q) /\ DispatchInv(q)' /\ OwnerInv(q)' /\ LockFrame(q)
      BY <3>1, <3>4 DEF StartFrame, DispatchInv, OwnerInv, Underway, LockFrame
    <3>6. PendingInv(q)'
      BY <1>o, <2>1, <3>1, <3>2, <3>3, <3>4, NotStarted
    <3> QED
      BY <1>0, <1>o, <2>1, <3>5, <3>6, ExecKept
  <2> QED
    BY <2>2, <2>3
<1>5. ASSUME NEW x \in Targets, NEW ref, Hold(q, x, ref), UNCHANGED <<ledgerVars, outboundVars>>
      PROVE  ExecInv'
  <2>1. call'[q].step = "held" /\ LockFrame(q)
    BY <1>0, <1>5, CallFields DEF Hold, LockFrame, TypeInv, CallsTyped
  <2>2. OutboundFrame(q) /\ binding' = binding
    BY <1>5, UnchangedOutbound DEF outboundVars
  <2> QED
    BY <1>0, <1>o, <1>5, <2>1, <2>2, IdleExec, ExecKept
<1>6. ASSUME NEW x \in ProviderEffects, PrepareUnbound(q, x), ~Hold(q, x, Nil) PROVE ExecInv'
  <2>1. /\ UNCHANGED <<ledgerVars, lock, call, mutation, fence, authority>>
        /\ binding' = [binding EXCEPT ![x] = {Nil}] /\ call[q].step = "idle"
    BY <1>6 DEF PrepareUnbound
  <2>2. OutboundFrame(q) /\ \A y \in SourceMutations : binding'[y] = binding[y]
    BY <1>0, <2>1, TaskAssumption DEF OutboundFrame, OutboundTyped, Targets
  <2>3. LockFrame(q) /\ call'[q].step = "idle"
    BY <2>1 DEF LockFrame
  <2> QED
    BY <1>0, <1>o, <2>1, <2>2, <2>3, IdleExec, ExecKept
<1>7. ASSUME NEW x \in Targets, InvokeUnbound(q, x) PROVE ExecInv'
  <2>1. /\ UNCHANGED <<ledgerVars, lock, mutation, fence, authority>> /\ x \in Commands
        /\ binding' = [binding EXCEPT ![x] = {Nil}]
    BY <1>7 DEF InvokeUnbound
  <2>2. call'[q].step = "dispatch" /\ call'[q].x = x /\ call'[q].ref = Nil
    BY <1>0, <1>7, CallFields DEF InvokeUnbound, TypeInv, CallsTyped
  <2>3. OutboundFrame(q) /\ \A y \in SourceMutations : binding'[y] = binding[y]
    BY <1>0, <2>1, TaskAssumption DEF OutboundFrame, OutboundTyped, Targets
  <2>4. LockFrame(q) /\ StartFrame(q) /\ PendingInv(q)' /\ x \notin SourceMutations
    BY <2>1, <2>2, TaskAssumption DEF LockFrame, StartFrame, PendingInv
  <2>5. binding'[x] # {}
    BY <1>0, <2>1 DEF OutboundTyped
  <2>6. DispatchInv(q)' /\ OwnerInv(q)'
    BY <2>2, <2>4, <2>5 DEF DispatchInv, OwnerInv
  <2> QED
    BY <1>0, <1>o, <2>1, <2>3, <2>4, <2>6, ExecKept
<1>8. CASE BindPCAttempt(q)
  <2>1. /\ UNCHANGED <<ledgerVars, lock, call, mutation, fence, authority>>
        /\ call[q].x \in PCJobs /\ call[q].step = "held"
        /\ binding' = [binding EXCEPT ![call[q].x] = @ \cup {call[q].ref}]
    BY <1>0, <1>8 DEF BindPCAttempt, CallOK
  <2>2. OutboundFrame(q) /\ \A y \in SourceMutations : binding'[y] = binding[y]
    BY <1>0, <2>1, TaskAssumption DEF OutboundFrame, OutboundTyped, Targets
  <2>3. LockFrame(q) /\ call'[q].step = "held"
    BY <2>1 DEF LockFrame
  <2> QED
    BY <1>0, <1>o, <2>1, <2>2, <2>3, IdleExec, ExecKept
<1>9. ASSUME NEW x \in Targets, PrepareUnbound(q, x) PROVE ExecInv'
  <2>1. CASE x \in PCJobs
    <3>1. Hold(q, x, Nil) /\ UNCHANGED <<ledgerVars, outboundVars>>
      BY <1>9, <2>1, TaskAssumption DEF PrepareUnbound, outboundVars
    <3> QED
      BY <1>5, <3>1
  <2>2. CASE x \in ProviderEffects /\ Hold(q, x, Nil)
    <3>1. call'[q].step = "held" /\ call[q].step = "idle" /\ call' = call
      BY <1>0, <1>9, <2>2, CallFields, TaskAssumption DEF PrepareUnbound, Hold, TypeInv, CallsTyped
    <3> QED
      BY <3>1
  <2> QED
    BY <1>6, <1>9, <2>1, <2>2 DEF PrepareUnbound
<1>10. ASSUME NEW x \in PCJobs, NEW ref, RecoverPCAttempt(q, x, ref) PROVE ExecInv'
  <2>1. x \in Targets
    BY DEF Targets
  <2> QED
    BY <1>5, <1>10, <2>1 DEF RecoverPCAttempt
<1> QED
  BY <1>1, <1>2, <1>3, <1>4, <1>7, <1>8, <1>9, <1>10 DEF PrepareNext

\* Dispatching checks the dependency itself (a provider effect), finds it intact
\* because it has a binding (a source mutation), or goes on under the lock.
LEMMA ExecDispatch ==
    ASSUME TaskInv, ExecInv, NEW q \in Runtimes, DispatchNext(q)
    PROVE  ExecInv'
<1>0. /\ TypeInv /\ CallsInv /\ OutboundTyped /\ FenceInv /\ SourceInv
      /\ CallInv(q) /\ CallOK(call[q]) /\ DispatchInv(q) /\ OwnerInv(q)
  BY DEF TaskInv, TypeInv, CallsTyped, CallsInv, ExecInv
<1>1. ASSUME NEW x \in Targets, NEW ref \in Refs \cup {Nil}, Dispatch(q, x, ref) PROVE ExecInv'
  <2>1. UNCHANGED <<ledgerVars, outboundVars, lock>> /\ ValidRef(ref, x)
    BY <1>1 DEF Dispatch
  <2>2. /\ call'[q].step = "dispatch" /\ call'[q].x = x /\ call'[q].ref = ref
        /\ \A p \in Runtimes : p # q => call'[p] = call[p]
    BY <1>0, <1>1, CallFields DEF TypeInv, CallsTyped, Dispatch, Dispatching
  <2>3. x \in PCJobs \/ (x \in ProviderEffects /\ binding[x] = {ref})
    BY <1>0, <1>1 DEF Dispatch, CallOK
  <2>4. OutboundFrame(q) /\ binding' = binding /\ LockFrame(q)
    BY <2>1, UnchangedOutbound DEF outboundVars, LockFrame
  <2>5. StartFrame(q) /\ PendingInv(q)' /\ OwnerInv(q)'
    BY <2>2, <2>3, TaskAssumption DEF StartFrame, PendingInv, OwnerInv
  <2>6. ref # Nil => Bound(call[q].ref, call[q].x)'
    BY <2>1, <2>2 DEF ValidRef, Bound, Open, Active, ledgerVars
  <2>7. DispatchInv(q)'
    BY <2>2, <2>3, <2>4, <2>6 DEF DispatchInv
  <2> QED
    BY <1>0, <2>1, <2>2, <2>4, <2>5, <2>7, ExecKept
<1>2. ASSUME NEW x \in SourceMutations, NEW ref \in Refs, ExecuteMutation(q, x, ref) PROVE ExecInv'
  <2>1. /\ UNCHANGED <<ledgerVars, outboundVars>> /\ lock' = q /\ LockFrame(q)
        /\ binding[x] = {ref} /\ Open(ref[1]) /\ mutation[x] # Nil
        /\ MayMutate(ref[1], mutation[x])
    BY <1>2 DEF ExecuteMutation, Acquire, LockFrame
  <2>2. /\ call'[q].step = "dispatch" /\ call'[q].x = x /\ call'[q].ref = ref
        /\ \A p \in Runtimes : p # q => call'[p] = call[p]
    BY <1>0, <1>2, CallFields DEF TypeInv, CallsTyped, ExecuteMutation, Dispatching
  <2>3. OutboundFrame(q) /\ binding' = binding /\ mutation' = mutation /\ deleg' = deleg /\ fence' = fence
    BY <2>1, UnchangedOutbound DEF outboundVars, ledgerVars
  <2>4. StartFrame(q) /\ PendingInv(q)'
    BY <2>1, <2>2 DEF StartFrame, PendingInv
  <2>5. \A t, m : MayMutate(t, m) => MayMutate(t, m)'
    BY <2>3 DEF MayMutate, Undelegated, ActiveDelegation
  <2>6. MayMutate(call[q].ref[1], mutation[call[q].x])'
    BY <2>1, <2>2, <2>3, <2>5
  <2>7. OwnerInv(q)'
    BY <2>1, <2>2, <2>3, <2>6 DEF OwnerInv
  <2>8. fence[x] # "CANCELLED_PRE_DISPATCH" => Bound(ref, x)
    BY <1>0, <2>1 DEF SourceInv, Bound
  <2>9. fence'[x] \in {"ABSENT", "RESERVED"} => Bound(call[q].ref, call[q].x)'
    BY <2>1, <2>2, <2>3, <2>8 DEF Bound, Open, Active, ledgerVars
  <2>10. DispatchInv(q)'
    BY <2>1, <2>2, <2>3, <2>9 DEF DispatchInv
  <2> QED
    BY <1>0, <2>1, <2>2, <2>3, <2>4, <2>7, <2>10, ExecKept
<1>3. ASSUME NEW x \in SourceMutations, NEW ref \in Refs, CancelReservedMutation(q, x, ref)
      PROVE  ExecInv'
  <2> DEFINE e == DependencyEvent("DEPENDENCY_CANCELLED", ref[1], ref[2], x)
  <2>1. /\ UNCHANGED <<ledgerVars, binding, mutation, authority>> /\ LockFrame(q)
        /\ fence' = [fence EXCEPT ![x] = "CANCELLED_PRE_DISPATCH"] /\ x \in Targets
        /\ call' = [call EXCEPT ![q] = Appending(e)]
    BY <1>3 DEF CancelReservedMutation, Acquire, LockFrame, Targets
  <2>2. OutboundFrame(q)
    BY <1>0, <2>1 DEF OutboundFrame, OutboundTyped
  <2>3. e.target = x
    BY DEF DependencyEvent
  <2> HIDE DEF e
  <2>4. /\ call'[q].step = "append" /\ call'[q].ev = e
        /\ \A p \in Runtimes : p # q => call'[p] = call[p]
    BY <1>0, <2>1, CallFields DEF TypeInv, CallsTyped
  <2>5. StartFrame(q) /\ DispatchInv(q)' /\ OwnerInv(q)'
    BY <2>4 DEF StartFrame, DispatchInv, OwnerInv, Underway
  <2>6. fence'[call'[q].ev.target] = "CANCELLED_PRE_DISPATCH"
    BY <1>0, <2>1, <2>3, <2>4 DEF OutboundTyped
  <2>7. PendingInv(q)'
    BY <2>6 DEF PendingInv
  <2> QED
    BY <1>0, <2>1, <2>2, <2>4, <2>5, <2>7, ExecKept
<1>4. CASE Reserve(q)
  <2>1. PICK x \in Targets : call[q].x = x
    BY <1>0, <1>4 DEF Reserve, CallOK
  <2>2. /\ UNCHANGED <<ledgerVars, lock, binding, mutation>> /\ call[q].step = "dispatch"
        /\ fence[x] = "ABSENT" /\ fence' = [fence EXCEPT ![x] = "RESERVED"]
        /\ authority' = [authority EXCEPT ![x] = call[q].ref] /\ Go(q, "reserved") /\ LifecycleLockFree
    BY <1>4, <2>1 DEF Reserve
  <2>3. OutboundFrame(q) /\ LockFrame(q)
    BY <1>0, <2>2 DEF OutboundFrame, OutboundTyped, LockFrame, LifecycleLockFree, HoldsLifecycleLock
  <2>4. /\ call'[q].step = "reserved" /\ call'[q].x = x /\ call'[q].ref = call[q].ref
        /\ \A p \in Runtimes : p # q => call'[p] = call[p]
    BY <1>0, <2>1, <2>2, GoAfter DEF Steps
  <2>5. StartFrame(q) /\ PendingInv(q)'
    BY <2>1, <2>2, <2>4 DEF StartFrame, PendingInv, Underway
  <2>6. Bound(call[q].ref, x) => Bound(call[q].ref, call[q].x)'
    BY <2>2, <2>4 DEF Bound, Open, Active, ledgerVars
  <2>7. authority'[x] = call[q].ref
    BY <1>0, <2>2 DEF OutboundTyped
  <2>8. DispatchInv(q)'
    BY <1>0, <2>1, <2>2, <2>4, <2>6, <2>7 DEF DispatchInv, Underway
  <2>9. \A t, m : MayMutate(t, m) => MayMutate(t, m)'
    BY <2>2 DEF MayMutate, Undelegated, ActiveDelegation, ledgerVars
  <2>10. MayMutate(call[q].ref[1], mutation[x]) => MayMutate(call[q].ref[1], mutation[call[q].x])'
    BY <2>2, <2>4, <2>9
  <2>11. OwnerInv(q)'
    BY <1>0, <2>1, <2>2, <2>4, <2>10 DEF OwnerInv, Underway
  <2> QED
    BY <1>0, <2>2, <2>3, <2>4, <2>5, <2>8, <2>11, ExecKept
<1>5. CASE Claim(q)
  <2>1. PICK x \in Targets : call[q].x = x
    BY <1>0, <1>5 DEF Claim, CallOK
  <2>2. /\ UNCHANGED <<ledgerVars, lock, binding, mutation, authority>>
        /\ fence[x] = "RESERVED" /\ fence' = [fence EXCEPT ![x] = "EXECUTING"]
    BY <1>0, <1>5, <2>1 DEF Claim, FenceInv
  <2>3. OutboundFrame(q) /\ LockFrame(q)
    BY <1>0, <2>2 DEF OutboundFrame, OutboundTyped, LockFrame
  <2>4. call'[q].step = "executing" /\ \A p \in Runtimes : p # q => call'[p] = call[p]
    BY <1>0, <1>5, GoAfter DEF Claim, Steps
  <2> QED
    BY <1>0, <2>2, <2>3, <2>4, IdleExec, ExecKept
<1>6. CASE Refused(q) \/ RecordOutcome(q)
  <2>1. UNCHANGED <<ledgerVars, binding, mutation, fence, authority>> /\ Return(q)
    BY <1>6 DEF Refused, RecordOutcome, outboundVars
  <2>2. OutboundFrame(q)
    BY <2>1 DEF OutboundFrame
  <2>3. LockFrame(q) /\ call'[q].step = "idle" /\ \A p \in Runtimes : p # q => call'[p] = call[p]
    BY <1>0, <2>1, ReturnFrame, ReturnAfter
  <2> QED
    BY <1>0, <2>1, <2>2, <2>3, IdleExec, ExecKept
<1>7. ASSUME NEW known \in BOOLEAN, Settle(q, known) PROVE ExecInv'
  <2>1. PICK x \in Targets : call[q].x = x
    BY <1>0, <1>7 DEF Settle, CallOK
  <2>2. UNCHANGED <<ledgerVars, binding, mutation, authority>>
    BY <1>7 DEF Settle
  <2>3. Fence!SettledState(known) \notin {"ABSENT", "RESERVED"}
    BY DEF Fence!SettledState
  <2>4. /\ fence[x] = "EXECUTING" => fence' = [fence EXCEPT ![x] = Fence!SettledState(known)]
        /\ fence[x] # "EXECUTING" => fence' = fence
    BY <1>7, <2>1 DEF Settle
  <2>5. OutboundFrame(q)
    BY <1>0, <2>2, <2>3, <2>4 DEF OutboundFrame, OutboundTyped
  <2>6. /\ call'[q].step \in {"idle", "record"} /\ LockFrame(q)
        /\ \A p \in Runtimes : p # q => call'[p] = call[p]
    <3>1. CASE Return(q)
      BY <1>0, <3>1, ReturnFrame, ReturnAfter
    <3>2. CASE Go(q, "record") /\ UNCHANGED lock
      BY <1>0, <3>2, GoAfter DEF Steps, LockFrame
    <3> QED
      BY <1>7, <3>1, <3>2 DEF Settle
  <2> QED
    BY <1>0, <2>2, <2>5, <2>6, IdleExec, ExecKept
<1> QED
  BY <1>1, <1>2, <1>3, <1>4, <1>5, <1>6, <1>7 DEF DispatchNext

LEMMA ExecInit == Init => ExecInv
BY CallFields DEF Init, ExecInv, SourceInv, DispatchInv, PendingInv, OwnerInv, Underway, Targets

LEMMA ExecStep == TaskInv /\ ExecInv /\ [Next]_vars => ExecInv'
<1> SUFFICES ASSUME TaskInv, ExecInv, [Next]_vars PROVE ExecInv'
  OBVIOUS
<1>0. TypeInv /\ CallsInv /\ OutboundTyped
  BY DEF TaskInv, TypeInv
<1>1. ASSUME NEW q \in Runtimes, Crash(q) PROVE ExecInv'
  <2>1. UNCHANGED <<ledgerVars, outboundVars>> /\ Return(q)
    BY <1>1 DEF Crash
  <2>2. OutboundFrame(q) /\ binding' = binding
    BY <2>1, UnchangedOutbound DEF outboundVars
  <2>3. LockFrame(q) /\ call'[q].step = "idle" /\ \A p \in Runtimes : p # q => call'[p] = call[p]
    BY <1>0, <2>1, ReturnFrame, ReturnAfter
  <2> QED
    BY <1>0, <2>1, <2>2, <2>3, IdleExec, ExecKept
<1>2. ASSUME UNCHANGED <<ledgerVars, lock, call, binding>>, OutboundFrame(Nil) PROVE ExecInv'
  <2>1. StartFrame(Nil) /\ LockFrame(Nil)
    BY <1>2, NilAssumption DEF StartFrame, LockFrame
  <2>2. SourceInv'
    BY <1>2, SourceFrame DEF ExecInv
  <2>3. ASSUME NEW r \in Runtimes PROVE DispatchInv(r)' /\ PendingInv(r)' /\ OwnerInv(r)'
    BY <1>0, <1>2, <2>1, NilAssumption, ExecFrame
  <2> QED
    BY <2>2, <2>3 DEF ExecInv
<1>3. ASSUME NEW x \in Targets, CancelReserved(x) PROVE ExecInv'
  <2>1. OutboundFrame(Nil)
    BY <1>0, <1>3 DEF CancelReserved, OutboundFrame, OutboundTyped
  <2> QED
    BY <1>2, <1>3, <2>1 DEF CancelReserved
<1>4. ASSUME NEW x \in Targets, NEW b \in BOOLEAN, Reconcile(x, b) PROVE ExecInv'
  <2>1. /\ fence[x] \in {"EXECUTING", "ATTEMPTED_UNKNOWN"}
        /\ Fence!ReconciledState(b) \notin {"ABSENT", "RESERVED"}
    BY <1>4 DEF Reconcile, Fence!AmbiguousStates, Fence!ReconciledState
  <2>2. OutboundFrame(Nil)
    BY <1>0, <1>4, <2>1 DEF Reconcile, OutboundFrame, OutboundTyped
  <2> QED
    BY <1>2, <1>4, <2>2 DEF Reconcile
<1>5. CASE UNCHANGED vars
  <2>1. UNCHANGED <<ledgerVars, outboundVars, lock, call, binding>>
    BY <1>5 DEF vars, outboundVars
  <2> QED
    BY <1>2, <2>1, UnchangedOutbound
<1>6. ASSUME NEW q \in Runtimes, LedgerNext(q) \/ Append(q) \/ PrepareNext(q) \/ DispatchNext(q)
      PROVE  ExecInv'
  BY <1>6, ExecLedger, ExecAppend, ExecPrepare, ExecDispatch
<1> QED
  BY <1>1, <1>3, <1>4, <1>5, <1>6 DEF Next

\* Only Claim begins an execution.
LEMMA OnlyClaim ==
    ASSUME TaskInv, [Next]_vars, NEW x \in Targets, Executes(x)
    PROVE  \E q \in Runtimes : Claim(q) /\ call[q].x = x /\ call[q].step = "reserved"
<1>0. TypeInv /\ OutboundTyped /\ \A q \in Runtimes : CallOK(call[q])
  BY DEF TaskInv, TypeInv, CallsTyped
<1>1. ASSUME NEW q \in Runtimes, Reserve(q) PROVE FALSE
  BY <1>0, <1>1 DEF Reserve, Executes, OutboundTyped, CallOK
<1>2. ASSUME NEW q \in Runtimes, NEW known \in BOOLEAN, Settle(q, known) PROVE FALSE
  <2>1. Fence!SettledState(known) # "EXECUTING"
    BY DEF Fence!SettledState
  <2> QED
    BY <1>0, <1>2, <2>1 DEF Settle, Executes, OutboundTyped, CallOK
<1>3. ASSUME NEW y \in Targets, fence' = [fence EXCEPT ![y] = "CANCELLED_PRE_DISPATCH"] PROVE FALSE
  BY <1>0, <1>3 DEF Executes, OutboundTyped
<1>4. ASSUME NEW y \in Targets, NEW b \in BOOLEAN, Reconcile(y, b) PROVE FALSE
  <2>1. Fence!ReconciledState(b) # "EXECUTING"
    BY DEF Fence!ReconciledState
  <2> QED
    BY <1>0, <1>4, <2>1 DEF Reconcile, Executes, OutboundTyped
<1>5. CASE UNCHANGED <<fence, authority>>
  BY <1>5 DEF Executes
<1>6. ASSUME NEW q \in Runtimes, Claim(q) PROVE call[q].x = x /\ call[q].step = "reserved"
  BY <1>0, <1>6 DEF Claim, Executes, OutboundTyped, CallOK
<1> QED
  BY <1>0, <1>1, <1>2, <1>3, <1>4, <1>5, <1>6, FenceCases

\* The invariant of the action properties below.
THEOREM TaskExecInvariant == Spec => [](TaskInv /\ ExecInv)
BY TaskInvInit, TaskInvStep, ExecInit, ExecStep, PTL DEF Spec

(***************************************************************************)
(* Provider effects, source mutations and commands execute for an open     *)
(* task with an active dependency only, although dispatch_provider_effect  *)
(* validates the reference without tasks.action_lock() and the source      *)
(* adapter never looks at the dependency: a durable binding precedes every *)
(* dispatch, so no later cancellation is decided, and one decided before   *)
(* holds the lock that a binding for a task needs; a closeout has seen     *)
(* every active dependency committed.                                      *)
(***************************************************************************)
THEOREM TaskExecutesForOpenTask == Spec => ExecutesForOpenTask
<1>1. TaskInv /\ ExecInv /\ [Next]_vars =>
          [\A x \in Targets \ PCJobs : Executes(x) /\ authority[x] # Nil =>
             LET t == authority[x][1]
                 d == authority[x][2]
             IN Open(t) /\ Active(t, d) /\ dep[t][d] = x]_vars
  <2> SUFFICES ASSUME TaskInv, ExecInv, [Next]_vars,
                      NEW x \in Targets \ PCJobs, Executes(x), authority[x] # Nil
               PROVE  Bound(authority[x], x)
    BY DEF Bound
  <2>1. PICK q \in Runtimes : call[q].x = x /\ call[q].step = "reserved"
    BY OnlyClaim
  <2>2. fence[x] = "RESERVED" /\ DispatchInv(q)
    BY <2>1 DEF TaskInv, FenceInv, ExecInv
  <2> QED
    BY <2>1, <2>2 DEF DispatchInv, Underway
<1> QED
  BY <1>1, TaskExecInvariant, PTL DEF Spec, ExecutesForOpenTask

(***************************************************************************)
(* A source mutation whose subject is delegated when it executes does so   *)
(* for the owner of the delegation, under its latest reference: execute()  *)
(* asks again under tasks.action_lock() and keeps the lock, and no event   *)
(* that changes a delegation reaches the journal without it.               *)
(***************************************************************************)
THEOREM TaskMutatesAsOwner == Spec => MutatesAsOwner
<1>1. TaskInv /\ ExecInv /\ [Next]_vars =>
          [\A x \in SourceMutations : Executes(x) =>
             \A t \in Tasks, g \in Delegs :
               ActiveDelegation(t, g) /\ deleg[t][g].scope = mutation[x].scope =>
                   /\ mutation[x].owner = <<t, g, deleg[t][g].rev>>
                   /\ mutation[x].actor = deleg[t][g].assignee
                   /\ authority[x][1] = t]_vars
  <2> SUFFICES ASSUME TaskInv, ExecInv, [Next]_vars,
                      NEW x \in SourceMutations, Executes(x),
                      NEW t \in Tasks, NEW g \in Delegs,
                      ActiveDelegation(t, g), deleg[t][g].scope = mutation[x].scope
               PROVE  /\ mutation[x].owner = <<t, g, deleg[t][g].rev>>
                      /\ mutation[x].actor = deleg[t][g].assignee
                      /\ authority[x][1] = t
    OBVIOUS
  <2>1. PICK q \in Runtimes : call[q].x = x /\ call[q].step = "reserved"
    BY OnlyClaim DEF Targets
  <2>2. OwnerInv(q) /\ DispatchInv(q) /\ OneOwner /\ mutation[x] \in Mutations \cup {Nil}
    BY DEF ExecInv, TaskInv, StateInv, TypeInv, OutboundTyped
  <2>3. authority[x] = call[q].ref
    BY <2>1, <2>2 DEF DispatchInv
  <2> DEFINE u == authority[x][1]
             m == mutation[x]
  <2>4. u \in Tasks /\ m \in Mutations /\ MayMutate(u, m)
    BY <2>1, <2>2, <2>3 DEF OwnerInv, Underway, Refs
  <2>5. m.owner # Nil
    BY <2>4 DEF MayMutate, Undelegated
  <2>6. PICK h \in Delegs, n \in Nat, v \in Tasks : m.owner = <<v, h, n>>
    BY <2>4, <2>5 DEF Mutations
  <2>7. /\ v = u /\ deleg[u][h].status = "ACTIVE" /\ deleg[u][h].scope = m.scope
        /\ deleg[u][h].assignee = m.actor /\ deleg[u][h].rev = n
    BY <2>4, <2>5, <2>6 DEF MayMutate
  <2>8. u = t /\ h = g
    BY <2>2, <2>4, <2>7 DEF OneOwner, ActiveDelegation
  <2> QED
    BY <2>6, <2>7, <2>8
<1> QED
  BY <1>1, TaskExecInvariant, PTL DEF Spec, MutatesAsOwner
=============================================================================
