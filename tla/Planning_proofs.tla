-------------------------- MODULE Planning_proofs --------------------------
(***************************************************************************)
(* What is proved of the ledgers that decide what is worked on: resource   *)
(* leases (ResourceLease), the steps of a long-horizon plan (LongHorizon), *)
(* dispatch schedules and checkpoints (TaskWakes), the closed loop         *)
(* (ClosedLoop) and the journal of supervised feedback (FeedbackJournal).  *)
(***************************************************************************)
EXTENDS ResourceLease, LongHorizon, TaskWakes, ClosedLoop, FeedbackJournal,
        FiniteSetTheorems, SequenceTheorems, WellFoundedInduction, TLAPS

----------------------------------------------------------------------------
(* Resource leases: an operation in flight keeps its lease and never meets *)
(* a conflicting one, for every number of leases, tasks, operations and    *)
(* clock readings.                                                         *)

\* The operations that pin a lease.
Pinners(id) == {o \in Operations : ops[o] # Nil /\ ops[o].handle.id = id}

\* The in-flight counter of a lease is the number of operations that pin it.
CountInv == \A id \in LeaseIds : inflight[id] = Cardinality(Pinners(id))

\* A token is allocated once: a handle with the token of the live lease is the
\* handle of the task the lease was granted to.
TokenInv ==
    /\ \A h \in handles : h.token <= lastFence
    /\ \A id \in Live : leases[id].token <= lastFence
    /\ \A h \in handles : Fenced(h) => leases[h.id].task = h.task

\* Live leases claim no conflicting resources.
ClaimInv ==
    \A i, j \in Live : i # j =>
        \A a \in leases[i].claims, b \in leases[j].claims : ~Conflict(a, b)

LeaseInv == TypeOK /\ CountInv /\ TokenInv /\ ClaimInv /\ HoldsPinned

\* What two claims cover can only conflict when the claims themselves do.
LEMMA CoveredConflict ==
    ASSUME NEW a \in Claim, NEW b \in Claim, NEW p \in Claim, NEW q \in Claim,
           Covers(a, p), Covers(b, q), Conflict(p, q)
    PROVE  Conflict(a, b)
<1>1. a.key \in Seq(STRING) /\ b.key \in Seq(STRING) /\ p.key \in Seq(STRING) /\ q.key \in Seq(STRING)
  BY LeaseAssumption DEF Claim
<1>2. Below(p.key, a.key) /\ Below(q.key, b.key)
  BY DEF Covers
<1>3. "write" \in {a.mode, b.mode}
  BY DEF Covers, Conflict
<1>4. Below(p.key, q.key) \/ Below(q.key, p.key)
  BY DEF Conflict, Overlap
<1>5. CASE Below(p.key, q.key)
  <2>1. Below(p.key, b.key)
    BY <1>1, <1>2, <1>5 DEF Below
  <2>2. Below(a.key, b.key) \/ Below(b.key, a.key)
    BY <1>1, <1>2, <2>1 DEF Below
  <2> QED
    BY <1>3, <2>2 DEF Conflict, Overlap
<1>6. CASE Below(q.key, p.key)
  <2>1. Below(q.key, a.key)
    BY <1>1, <1>2, <1>6 DEF Below
  <2>2. Below(a.key, b.key) \/ Below(b.key, a.key)
    BY <1>1, <1>2, <2>1 DEF Below
  <2> QED
    BY <1>3, <2>2 DEF Conflict, Overlap
<1> QED
  BY <1>4, <1>5, <1>6

\* Operations in flight are exclusive because their leases claim disjointly.
LEMMA ExclusiveFromClaims == LeaseInv => HoldsExclusive
<1> SUFFICES ASSUME LeaseInv, NEW o \in Operations, NEW q \in Operations,
                    ops[o] # Nil, ops[o].probe # Nil, ops[q] # Nil, ops[q].probe # Nil,
                    ops[o].handle.id # ops[q].handle.id,
                    Conflict(ops[o].probe, ops[q].probe)
             PROVE  FALSE
  BY DEF HoldsExclusive
<1> DEFINE i == ops[o].handle.id
           j == ops[q].handle.id
<1>1. ops[o].probe \in Claim /\ ops[q].probe \in Claim
  BY DEF LeaseInv, TypeOK, Operation
<1>2. i \in Live /\ \E c \in leases[i].claims : Covers(c, ops[o].probe)
  BY DEF LeaseInv, HoldsPinned, Fenced
<1>3. j \in Live /\ \E c \in leases[j].claims : Covers(c, ops[q].probe)
  BY DEF LeaseInv, HoldsPinned, Fenced
<1>4. PICK a \in leases[i].claims : Covers(a, ops[o].probe)
  BY <1>2
<1>5. PICK b \in leases[j].claims : Covers(b, ops[q].probe)
  BY <1>3
<1>6. a \in Claim /\ b \in Claim
  BY <1>2, <1>3, <1>4, <1>5 DEF LeaseInv, TypeOK, Live, Lease
<1>7. Conflict(a, b)
  BY <1>1, <1>4, <1>5, <1>6, CoveredConflict
<1>8. ~Conflict(a, b)
  BY <1>2, <1>3, <1>4, <1>5 DEF LeaseInv, ClaimInv
<1> QED
  BY <1>7, <1>8

\* A lease whose counter is zero is pinned by no operation.
LEMMA NobodyHolds ==
    ASSUME CountInv, NEW id \in LeaseIds, inflight[id] = 0
    PROVE  \A o \in Operations : ops[o] # Nil => ops[o].handle.id # id
<1>1. IsFiniteSet(Pinners(id))
  BY LeaseAssumption, FS_Subset DEF Pinners
<1>2. Cardinality(Pinners(id)) = 0
  BY DEF CountInv
<1>3. Pinners(id) = {}
  BY <1>1, <1>2, FS_EmptySet
<1> QED
  BY <1>3 DEF Pinners

\* Leases that go are not in use, the others stay as they are: reaping, closing
\* and dropping expired leases preserve the invariant.
LEMMA ReleaseStep ==
    ASSUME LeaseInv, NEW gone, gone \subseteq {id \in LeaseIds : inflight[id] = 0},
           leases' = [id \in LeaseIds |-> IF id \in gone THEN Nil ELSE leases[id]],
           UNCHANGED <<inflight, lastFence, handles, ops>>
    PROVE  LeaseInv'
<1>1. TypeOK'
  BY DEF LeaseInv, TypeOK
<1>2. CountInv'
  BY DEF LeaseInv, CountInv, Pinners
<1>3. \A id \in LeaseIds : leases'[id] # Nil => leases'[id] = leases[id]
  OBVIOUS
<1>4. TokenInv'
  BY <1>3 DEF LeaseInv, TokenInv, Live, Fenced
<1>5. ClaimInv'
  BY <1>3 DEF LeaseInv, ClaimInv, Live
<1>6. HoldsPinned'
  <2> SUFFICES ASSUME NEW o \in Operations, ops[o] # Nil
               PROVE  leases'[ops[o].handle.id] = leases[ops[o].handle.id]
    BY <1>3 DEF LeaseInv, HoldsPinned, Fenced, Live
  <2>1. ops[o].handle.id \in LeaseIds
    BY DEF LeaseInv, HoldsPinned, Fenced, Live
  <2>2. ops[o].handle.id \notin gone
    BY NobodyHolds DEF LeaseInv
  <2> QED
    BY <2>1, <2>2
<1> QED
  BY <1>1, <1>2, <1>4, <1>5, <1>6 DEF LeaseInv

\* open_lease: a fresh token, claims that conflict with no lease that is kept.
LEMMA OpenStep ==
    ASSUME LeaseInv, NEW now \in 0..MaxTime, NEW id \in LeaseIds, NEW task \in Tasks,
           NEW caps \in SUBSET Ceiling, NEW asked \in SUBSET Claim,
           NEW ttl \in 1..MaxTime, NEW token \in 1..MaxFence,
           OpenLease(id, task, caps, asked, ttl, now, token)
    PROVE  LeaseInv'
<1> DEFINE new == [task |-> task, caps |-> caps, claims |-> asked,
                   token |-> token, expires |-> now + ttl]
           kept == Reaped(now)
<1>1. /\ kept \in [LeaseIds -> Lease \cup {Nil}]
      /\ \A i \in LeaseIds : kept[i] # Nil => kept[i] = leases[i]
      /\ \A i \in LeaseIds : inflight[i] # 0 => kept[i] = leases[i]
  BY DEF Reaped, Expired, LeaseInv, TypeOK
<1>2. /\ leases' = [kept EXCEPT ![id] = new]
      /\ kept[id] = Nil
      /\ \A i \in LeaseIds : kept[i] # Nil =>
             \A a \in asked, b \in kept[i].claims : ~Conflict(a, b)
      /\ token > lastFence /\ lastFence' = token
      /\ handles' = handles \cup {[task |-> task, id |-> id, token |-> token]}
      /\ UNCHANGED <<inflight, ops>>
  BY DEF OpenLease
<1>3. now + ttl \in 0..2 * MaxTime
  BY LeaseAssumption
<1>4. new \in Lease
  BY <1>3 DEF Lease
<1> HIDE DEF new, kept
<1>5. /\ leases'[id] = new
      /\ \A i \in LeaseIds \ {id} : leases'[i] = kept[i]
  BY <1>1, <1>2
<1>6. new.task = task /\ new.token = token /\ new.claims = asked
  BY DEF new
<1>7. TypeOK'
  <2>1. [task |-> task, id |-> id, token |-> token] \in Handle
    BY DEF Handle
  <2>2. leases' \in [LeaseIds -> Lease \cup {Nil}]
    BY <1>1, <1>2, <1>4
  <2> QED
    BY <1>2, <2>1, <2>2 DEF LeaseInv, TypeOK
<1>8. CountInv'
  BY <1>2 DEF LeaseInv, CountInv, Pinners
<1>9. TokenInv'
  <2>1. /\ lastFence \in Nat /\ token \in Nat
        /\ \A h \in handles : h.token \in Nat /\ h.id \in LeaseIds
    BY DEF LeaseInv, TypeOK, Handle
  <2>2. \A i \in LeaseIds \ {id} : leases'[i] # Nil => i \in Live /\ leases'[i] = leases[i]
    BY <1>1, <1>5 DEF Live
  <2>3. \A i \in Live' : leases'[i].token <= lastFence'
    <3>1. \A i \in Live : leases[i].token <= lastFence /\ leases[i].token \in Nat
      BY DEF LeaseInv, TokenInv, TypeOK, Live, Lease
    <3> QED
      BY <1>2, <1>5, <1>6, <2>1, <2>2, <3>1 DEF Live
  <2>4. \A h \in handles' : h.token <= lastFence'
    <3>1. \A h \in handles : h.token <= lastFence
      BY DEF LeaseInv, TokenInv
    <3> QED
      BY <1>2, <2>1, <3>1
  <2>5. ASSUME NEW h \in handles', Fenced(h)' PROVE leases'[h.id].task = h.task
    <3>1. CASE h.id # id
      <4>1. h \in handles /\ Fenced(h)
        BY <1>2, <2>2, <2>5, <3>1 DEF Fenced, Live
      <4> QED
        BY <2>2, <2>5, <3>1, <4>1 DEF Fenced, Live, LeaseInv, TokenInv
    <3>2. CASE h.id = id /\ h \in handles
      <4>1. h.token <= lastFence /\ h.token = token
        BY <1>5, <1>6, <2>5, <3>2 DEF Fenced, LeaseInv, TokenInv
      <4> QED
        BY <1>2, <2>1, <3>2, <4>1
    <3>3. CASE h = [task |-> task, id |-> id, token |-> token]
      BY <1>5, <1>6, <3>3
    <3> QED
      BY <1>2, <3>1, <3>2, <3>3
  <2> QED
    BY <2>3, <2>4, <2>5 DEF TokenInv
<1>10. ClaimInv'
  <2> SUFFICES ASSUME NEW i \in Live', NEW j \in Live', i # j,
                      NEW a \in leases'[i].claims, NEW b \in leases'[j].claims
               PROVE  ~Conflict(a, b)
    BY DEF ClaimInv
  <2>1. i \in LeaseIds /\ j \in LeaseIds /\ leases'[i] # Nil /\ leases'[j] # Nil
    BY DEF Live
  <2>2. CASE i = id
    BY <1>2, <1>5, <1>6, <2>1, <2>2
  <2>3. CASE j = id
    <3>1. ~Conflict(b, a)
      BY <1>2, <1>5, <1>6, <2>1, <2>3
    <3> QED
      BY <3>1 DEF Conflict, Overlap
  <2>4. CASE i # id /\ j # id
    BY <1>1, <1>5, <2>1, <2>4 DEF LeaseInv, ClaimInv, Live
  <2> QED
    BY <2>2, <2>3, <2>4
<1>11. HoldsPinned'
  <2> SUFFICES ASSUME NEW o \in Operations, ops[o] # Nil
               PROVE  leases'[ops[o].handle.id] = leases[ops[o].handle.id]
    BY <1>2 DEF LeaseInv, HoldsPinned, Fenced, Live
  <2> DEFINE i == ops[o].handle.id
  <2>1. i \in LeaseIds /\ leases[i] # Nil
    BY DEF LeaseInv, HoldsPinned, Fenced, Live
  <2>2. inflight[i] # 0
    BY <2>1, NobodyHolds DEF LeaseInv
  <2>3. kept[i] = leases[i] /\ i # id
    BY <1>1, <1>2, <2>1, <2>2
  <2> QED
    BY <1>5, <2>1, <2>3
<1> QED
  BY <1>7, <1>8, <1>9, <1>10, <1>11 DEF LeaseInv

\* renew moves the expiry and nothing else.
LEMMA RenewStep ==
    ASSUME LeaseInv, NEW now \in 0..MaxTime, NEW ttl \in 1..MaxTime, NEW h \in handles,
           Renew(h, ttl, now)
    PROVE  LeaseInv'
<1>1. h.id \in LeaseIds /\ leases[h.id] \in Lease /\ leases \in [LeaseIds -> Lease \cup {Nil}]
  BY DEF Renew, Fenced, Live, LeaseInv, TypeOK
<1> DEFINE new == [leases[h.id] EXCEPT !.expires = now + ttl]
<1>2. now + ttl \in 0..2 * MaxTime
  BY LeaseAssumption
<1>3. /\ new \in Lease /\ new.token = leases[h.id].token /\ new.task = leases[h.id].task
      /\ new.caps = leases[h.id].caps /\ new.claims = leases[h.id].claims
  BY <1>1, <1>2 DEF Lease
<1>4. leases' = [leases EXCEPT ![h.id] = new]
  BY DEF Renew
<1>5. UNCHANGED <<inflight, lastFence, handles, ops>>
  BY DEF Renew
<1> HIDE DEF new
<1>6. /\ \A i \in LeaseIds : leases'[i] = IF i = h.id THEN new ELSE leases[i]
      /\ new # Nil /\ leases[h.id] # Nil
  BY <1>1, <1>3, <1>4, NilAssumption
<1>7. TypeOK'
  BY <1>1, <1>3, <1>4, <1>5 DEF LeaseInv, TypeOK
<1>8. CountInv'
  BY <1>5 DEF LeaseInv, CountInv, Pinners
<1>9. \A i \in LeaseIds :
          /\ leases'[i] = Nil <=> leases[i] = Nil
          /\ leases[i] # Nil => /\ leases'[i].token = leases[i].token
                                /\ leases'[i].task = leases[i].task
                                /\ leases'[i].caps = leases[i].caps
                                /\ leases'[i].claims = leases[i].claims
  BY <1>3, <1>6
<1>10. Live' = Live
  BY <1>9 DEF Live
<1>11. TokenInv'
  BY <1>5, <1>9, <1>10 DEF LeaseInv, TokenInv, Fenced, Live
<1>12. ClaimInv'
  BY <1>9, <1>10 DEF LeaseInv, ClaimInv, Live
<1>13. HoldsPinned'
  BY <1>5, <1>9, <1>10 DEF LeaseInv, HoldsPinned, Fenced, Live
<1> QED
  BY <1>7, <1>8, <1>11, <1>12, <1>13 DEF LeaseInv

\* hold() is entered: one more operation pins a lease that authorizes it.
LEMMA HoldBeginStep ==
    ASSUME LeaseInv, NEW now \in 0..MaxTime, NEW o \in Operations, NEW h \in handles,
           NEW cap \in Ceiling, NEW probe \in Claim \cup {Nil},
           HoldBegin(o, h, cap, probe, now)
    PROVE  LeaseInv'
<1> DEFINE op == [handle |-> h, cap |-> cap, probe |-> probe]
<1>1. /\ Fenced(h) /\ cap \in leases[h.id].caps /\ ops[o] = Nil
      /\ probe # Nil => \E c \in leases[h.id].claims : Covers(c, probe)
  BY DEF HoldBegin, Authorized
<1>2. /\ inflight' = [inflight EXCEPT ![h.id] = inflight[h.id] + 1]
      /\ ops' = [ops EXCEPT ![o] = op]
      /\ UNCHANGED <<leases, lastFence, handles>>
  BY DEF HoldBegin
<1>3. h \in Handle /\ h.id \in LeaseIds
  BY DEF LeaseInv, TypeOK, Handle
<1>4. op \in Operation /\ op.handle = h /\ op.cap = cap /\ op.probe = probe
  BY <1>3 DEF Operation
<1>5. op # Nil
  BY <1>4, NilAssumption
<1> HIDE DEF op
<1>6. TypeOK'
  BY <1>2, <1>3, <1>4 DEF LeaseInv, TypeOK
<1>7. \A q \in Operations : ops'[q] = IF q = o THEN op ELSE ops[q]
  BY <1>2 DEF LeaseInv, TypeOK
<1>8. CountInv'
  <2> SUFFICES ASSUME NEW id \in LeaseIds PROVE inflight'[id] = Cardinality(Pinners(id)')
    BY DEF CountInv
  <2>1. /\ IsFiniteSet(Pinners(id)) /\ inflight[id] = Cardinality(Pinners(id))
        /\ inflight \in [LeaseIds -> Nat]
    BY LeaseAssumption, FS_Subset DEF Pinners, LeaseInv, CountInv, TypeOK
  <2>2. CASE id = h.id
    <3>1. Pinners(id)' = Pinners(id) \cup {o} /\ o \notin Pinners(id)
      BY <1>1, <1>4, <1>5, <1>7, <2>2 DEF Pinners
    <3>2. Cardinality(Pinners(id)') = Cardinality(Pinners(id)) + 1
      BY <2>1, <3>1, FS_AddElement
    <3> QED
      BY <1>2, <2>1, <2>2, <3>2
  <2>3. CASE id # h.id
    <3>1. Pinners(id)' = Pinners(id)
      BY <1>1, <1>4, <1>7, <2>3 DEF Pinners
    <3> QED
      BY <1>2, <2>1, <2>3, <3>1
  <2> QED
    BY <2>2, <2>3
<1>9. TokenInv' /\ ClaimInv'
  BY <1>2 DEF LeaseInv, TokenInv, ClaimInv, Fenced, Live
<1>10. HoldsPinned'
  <2>1. leases[h.id].task = h.task
    BY <1>1 DEF LeaseInv, TokenInv
  <2> QED
    BY <1>1, <1>2, <1>4, <1>7, <2>1 DEF LeaseInv, HoldsPinned, Fenced, Live
<1> QED
  BY <1>6, <1>8, <1>9, <1>10 DEF LeaseInv

\* hold() is left: one operation fewer pins the lease.
LEMMA HoldEndStep ==
    ASSUME LeaseInv, NEW o \in Operations, HoldEnd(o)
    PROVE  LeaseInv'
<1> DEFINE i == ops[o].handle.id
<1>1. /\ ops[o] # Nil
      /\ inflight' = [inflight EXCEPT ![i] = inflight[i] - 1]
      /\ ops' = [ops EXCEPT ![o] = Nil]
      /\ UNCHANGED <<leases, lastFence, handles>>
  BY DEF HoldEnd
<1>2. i \in LeaseIds
  BY <1>1 DEF LeaseInv, HoldsPinned, Fenced, Live
<1>3. \A q \in Operations : ops'[q] = IF q = o THEN Nil ELSE ops[q]
  BY <1>1 DEF LeaseInv, TypeOK
<1>4. ASSUME NEW id \in LeaseIds
      PROVE  inflight'[id] \in Nat /\ inflight'[id] = Cardinality(Pinners(id)')
  <2>1. /\ IsFiniteSet(Pinners(id)) /\ inflight[id] = Cardinality(Pinners(id))
        /\ inflight \in [LeaseIds -> Nat]
    BY LeaseAssumption, FS_Subset DEF Pinners, LeaseInv, CountInv, TypeOK
  <2>2. CASE id = i
    <3>1. Pinners(id)' = Pinners(id) \ {o} /\ o \in Pinners(id)
      BY <1>1, <1>3, <2>2 DEF Pinners
    <3>2. IsFiniteSet(Pinners(id)') /\ Cardinality(Pinners(id)') = Cardinality(Pinners(id)) - 1
      BY <2>1, <3>1, FS_RemoveElement
    <3>3. Cardinality(Pinners(id)') \in Nat
      BY <3>2, FS_CardinalityType
    <3> QED
      BY <1>1, <2>1, <2>2, <3>2, <3>3
  <2>3. CASE id # i
    <3>1. Pinners(id)' = Pinners(id)
      BY <1>1, <1>3, <2>3 DEF Pinners
    <3> QED
      BY <1>1, <2>1, <2>3, <3>1
  <2> QED
    BY <2>2, <2>3
<1>5. CountInv'
  BY <1>4 DEF CountInv
<1>6. TypeOK'
  <2>1. inflight' \in [LeaseIds -> Nat]
    BY <1>1, <1>2, <1>4 DEF LeaseInv, TypeOK
  <2> QED
    BY <1>1, <2>1 DEF LeaseInv, TypeOK
<1>7. TokenInv' /\ ClaimInv'
  BY <1>1 DEF LeaseInv, TokenInv, ClaimInv, Fenced, Live
<1>8. HoldsPinned'
  BY <1>1, <1>3 DEF LeaseInv, HoldsPinned, Fenced, Live
<1> QED
  BY <1>5, <1>6, <1>7, <1>8 DEF LeaseInv

\* The registry starts with no lease and no operation.
LEMMA LeaseInit == Init => LeaseInv
<1> SUFFICES ASSUME Init PROVE LeaseInv
  OBVIOUS
<1>1. \A id \in LeaseIds : Pinners(id) = {}
  BY DEF Init, Pinners
<1>2. CountInv
  BY <1>1, FS_EmptySet DEF Init, CountInv
<1>3. Live = {}
  BY DEF Live, Init
<1> QED
  BY <1>2, <1>3, LeaseAssumption
  DEF LeaseInv, Init, TypeOK, TokenInv, ClaimInv, HoldsPinned, Fenced

\* Every step preserves the invariant.
LEMMA LeaseNext == LeaseInv /\ [Next]_vars => LeaseInv'
<1> SUFFICES ASSUME LeaseInv, [Next]_vars PROVE LeaseInv'
  OBVIOUS
<1>1. ASSUME NEW now \in 0..MaxTime, Reap(now) PROVE LeaseInv'
  <2>1. Expired(now) \subseteq {id \in LeaseIds : inflight[id] = 0}
    BY DEF Expired, Live
  <2> QED
    BY <1>1, <2>1, ReleaseStep DEF Reap, Reaped
<1>2. ASSUME NEW h \in handles, Fenced(h), inflight[h.id] = 0,
             leases' = [leases EXCEPT ![h.id] = Nil],
             UNCHANGED <<inflight, lastFence, handles, ops>>
      PROVE  LeaseInv'
  <2>1. {h.id} \subseteq {id \in LeaseIds : inflight[id] = 0}
    BY <1>2 DEF Fenced, Live
  <2>2. leases' = [id \in LeaseIds |-> IF id \in {h.id} THEN Nil ELSE leases[id]]
    BY <1>2 DEF LeaseInv, TypeOK
  <2> QED
    BY <1>2, <2>1, <2>2, ReleaseStep
<1>3. ASSUME NEW h \in handles, NEW now \in 0..MaxTime, DropExpired(h, now) PROVE LeaseInv'
  BY <1>2, <1>3 DEF DropExpired, Expired
<1>4. ASSUME NEW h \in handles, CloseLease(h) PROVE LeaseInv'
  BY <1>2, <1>4 DEF CloseLease
<1>5. CASE UNCHANGED vars
  BY <1>5 DEF vars, LeaseInv, TypeOK, CountInv, Pinners, TokenInv, ClaimInv, HoldsPinned,
     Fenced, Live
<1> QED
  BY <1>1, <1>3, <1>4, <1>5, OpenStep, RenewStep, HoldBeginStep, HoldEndStep DEF Next

(***************************************************************************)
(* The inductive invariant of the lease registry.                          *)
(***************************************************************************)
THEOREM LeaseInvariant == Spec => []LeaseInv
BY LeaseInit, LeaseNext, PTL DEF Spec

(***************************************************************************)
(* The registry's tables stay well typed.                                  *)
(***************************************************************************)
THEOREM LeaseTypeCorrect == Spec => []TypeOK
<1>1. LeaseInv => TypeOK
  BY DEF LeaseInv
<1> QED
  BY <1>1, LeaseInvariant, PTL

(***************************************************************************)
(* hold() pins its lease: an operation in flight keeps the lease, the      *)
(* capability and the claim it was authorized with, for any clock.         *)
(***************************************************************************)
THEOREM LeaseHoldsPinned == Spec => []HoldsPinned
<1>1. LeaseInv => HoldsPinned
  BY DEF LeaseInv
<1> QED
  BY <1>1, LeaseInvariant, PTL

(***************************************************************************)
(* No two operations in flight under different leases conflict on a        *)
(* resource or on its ancestors and descendants.                           *)
(***************************************************************************)
THEOREM LeaseHoldsExclusive == Spec => []HoldsExclusive
BY ExclusiveFromClaims, LeaseInvariant, PTL

----------------------------------------------------------------------------
(* The long-horizon plan.                                                  *)

StepRow == [state : StepStates, attempts : Nat, holder : Holders \cup {"none"}, expires : Nat, failed : Nat]
OutcomeSet == Nat \X StepStates

PlanTyped ==
    /\ planRow \in BOOLEAN /\ stepRows \subseteq StepIds
    /\ plan \in [StepIds -> StepRow]
    /\ claims \in [StepIds -> Seq(Holders)]
    /\ outcomes \in [StepIds -> Seq(OutcomeSet)]
    /\ corrections \in [StepIds -> SUBSET Nat]

\* The attempts of a step whose outcome is recorded.
ClosedAttempts(p) == IF p.state = "RUNNING" THEN p.attempts - 1 ELSE p.attempts

\* One step: what its row, its claims, its events and its corrections say of
\* each other.
StepLawful(s, p, cl, out, cor) ==
    /\ p.attempts <= PlanSteps[s].maxAttempts
    /\ Len(cl) = p.attempts
    /\ p.state = "PENDING" <=> p.attempts = 0
    /\ p.state = "FAILED_RETRYABLE" => p.failed = p.attempts
    /\ cor \subseteq 1..p.attempts
    /\ 1..(p.attempts - 1) \subseteq cor
    /\ Len(out) = ClosedAttempts(p)
    /\ \A a \in 1..ClosedAttempts(p) :
           out[a] = <<a, IF a < p.attempts THEN "FAILED_RETRYABLE" ELSE p.state>>

StepsLawful == \A s \in StepIds : StepLawful(s, plan[s], claims[s], outcomes[s], corrections[s])

PlanInv == PlanTyped /\ StepsLawful /\ StepsInOrder

\* _complete_state: what an outcome makes of a step.
LEMMA OutcomeStates ==
    ASSUME NEW s, NEW a, NEW success \in BOOLEAN
    PROVE  /\ StepOutcome(s, a, success) \in {"SUCCEEDED", "FAILED_RETRYABLE", "FAILED_TERMINAL"}
           /\ success => StepOutcome(s, a, success) = "SUCCEEDED"
BY DEF StepOutcome

\* A step of the plan that keeps what is established of every other.
LEMMA StepMoved ==
    ASSUME PlanInv, PlanTyped', NEW s \in StepIds,
           UNCHANGED stepRows,
           \A t \in StepIds \ {s} : /\ plan'[t] = plan[t] /\ claims'[t] = claims[t]
                                    /\ outcomes'[t] = outcomes[t] /\ corrections'[t] = corrections[t],
           plan[s].state # "SUCCEEDED" \/ plan'[s].state = "SUCCEEDED",
           plan'[s].attempts > 0 =>
               stepRows = StepIds /\ \A d \in PlanSteps[s].deps : plan[d].state = "SUCCEEDED",
           StepLawful(s, plan'[s], claims'[s], outcomes'[s], corrections'[s])
    PROVE  PlanInv'
<1>1. StepsLawful'
  <2>1. \A t \in StepIds : StepLawful(t, plan'[t], claims'[t], outcomes'[t], corrections'[t])
    BY DEF PlanInv, StepsLawful
  <2> QED
    BY <2>1 DEF StepsLawful, StepLawful, ClosedAttempts
<1>2. StepsInOrder'
  <2>1. ASSUME NEW t \in StepIds, plan'[t].attempts > 0
        PROVE  stepRows = StepIds /\ \A d \in PlanSteps[t].deps : plan'[d].state = "SUCCEEDED"
    <3>1. stepRows = StepIds /\ \A d \in PlanSteps[t].deps : plan[d].state = "SUCCEEDED"
      BY <2>1 DEF PlanInv, StepsInOrder
    <3>2. PlanSteps[t].deps \subseteq StepIds
      BY LongHorizonAssumption DEF PlanValid
    <3> QED
      BY <3>1, <3>2
  <2> QED
    BY <2>1 DEF StepsInOrder
<1> QED
  BY <1>1, <1>2 DEF PlanInv

\* claim: the attempt before is closed and corrected, the new one runs.
LEMMA ClaimMoves ==
    ASSUME PlanInv, NEW h \in Holders, NEW s \in StepIds, NEW b, NEW occupied, NEW now \in 0..LhMaxTime,
           ClaimStep(h, s, b, occupied, now)
    PROVE  PlanInv'
<1> DEFINE n == plan[s].attempts
           m == n + 1
           e == now + 1
           out == outcomes[s]
           cor == corrections[s]
           cl == claims[s]
<1>1. /\ stepRows = StepIds
      /\ Ready(s)
      /\ m <= PlanSteps[s].maxAttempts
      /\ plan' = [plan EXCEPT ![s].state = "RUNNING", ![s].attempts = m,
                              ![s].holder = h, ![s].expires = e]
      /\ claims' = [claims EXCEPT ![s] = Append(cl, h)]
      /\ UNCHANGED <<planRow, stepRows, outcomes, corrections>>
  BY DEF ClaimStep, PlanWhole
<1>2. /\ plan[s] \in StepRow /\ n \in Nat /\ e \in Nat /\ cl \in Seq(Holders) /\ out \in Seq(OutcomeSet)
      /\ StepLawful(s, plan[s], cl, out, cor)
  BY LongHorizonAssumption DEF PlanInv, PlanTyped, StepsLawful, StepRow
<1>3. /\ plan[s].state \in {"PENDING", "FAILED_RETRYABLE"}
      /\ \A d \in PlanSteps[s].deps : plan[d].state = "SUCCEEDED"
      /\ plan[s].state = "FAILED_RETRYABLE" => plan[s].failed \in cor
  BY <1>1 DEF Ready
<1>4. /\ plan' \in [StepIds -> StepRow]
      /\ plan'[s].state = "RUNNING" /\ plan'[s].attempts = m
      /\ \A t \in StepIds \ {s} : plan'[t] = plan[t]
  <2>1. m \in Nat /\ plan \in [StepIds -> StepRow]
    BY <1>2 DEF PlanInv, PlanTyped
  <2> HIDE DEF m, e
  <2> QED
    BY <1>1, <1>2, <2>1 DEF StepRow, StepStates
<1>5. /\ claims' \in [StepIds -> Seq(Holders)] /\ claims'[s] = Append(cl, h)
      /\ \A t \in StepIds \ {s} : claims'[t] = claims[t]
  <2>1. Append(cl, h) \in Seq(Holders)
    BY <1>2
  <2> DEFINE q == Append(cl, h)
  <2> HIDE DEF q
  <2> QED
    BY <1>1, <2>1 DEF PlanInv, PlanTyped, q
<1>6. PlanTyped'
  BY <1>1, <1>4, <1>5 DEF PlanInv, PlanTyped
<1>7. StepLawful(s, plan'[s], claims'[s], out, cor)
  <2>1. Len(claims'[s]) = m
    BY <1>2, <1>5 DEF StepLawful
  <2>2. 1..n \subseteq cor
    BY <1>2, <1>3 DEF StepLawful
  <2>3. cor \subseteq 1..m
    BY <1>2 DEF StepLawful
  <2>4. ClosedAttempts(plan'[s]) = n /\ ClosedAttempts(plan[s]) = n
    BY <1>2, <1>3, <1>4 DEF ClosedAttempts
  <2>5. \A a \in 1..n : out[a] = <<a, "FAILED_RETRYABLE">>
    BY <1>2, <1>3, <2>4 DEF StepLawful
  <2>6. Len(out) = n
    BY <1>2, <2>4 DEF StepLawful
  <2> QED
    BY <1>1, <1>2, <1>4, <2>1, <2>2, <2>3, <2>4, <2>5, <2>6 DEF StepLawful
<1> QED
  BY <1>1, <1>3, <1>4, <1>5, <1>6, <1>7, StepMoved

\* complete: the claim presented is the one that runs, and its attempt gets its
\* one outcome.
LEMMA CompleteMoves ==
    ASSUME PlanInv, NEW s \in StepIds, NEW a, NEW success \in BOOLEAN, NEW now,
           CompleteStep(s, a, success, now)
    PROVE  PlanInv'
<1> DEFINE n == plan[s].attempts
           o == StepOutcome(s, a, success)
           f == IF success THEN 0 ELSE a
           out == outcomes[s]
           cor == corrections[s]
           cl == claims[s]
           q == Append(out, <<a, o>>)
<1>1. /\ plan[s].state = "RUNNING" /\ a = n
      /\ plan' = [plan EXCEPT ![s].state = o, ![s].holder = "none", ![s].expires = 0, ![s].failed = f]
      /\ outcomes' = [outcomes EXCEPT ![s] = q]
      /\ UNCHANGED <<planRow, stepRows, claims, corrections>>
  BY DEF CompleteStep, ClaimCurrent
<1>2. /\ plan[s] \in StepRow /\ n \in Nat /\ cl \in Seq(Holders) /\ out \in Seq(OutcomeSet)
      /\ StepLawful(s, plan[s], cl, out, cor)
  BY DEF PlanInv, PlanTyped, StepsLawful, StepRow
<1>3. /\ o \in {"SUCCEEDED", "FAILED_RETRYABLE", "FAILED_TERMINAL"} /\ o \in StepStates
      /\ success => o = "SUCCEEDED"
  BY OutcomeStates DEF StepStates
<1>4. f \in Nat /\ (o = "FAILED_RETRYABLE" => f = n)
  BY <1>1, <1>2, <1>3
<1> HIDE DEF o, f
<1>5. /\ plan' \in [StepIds -> StepRow]
      /\ plan'[s].state = o /\ plan'[s].attempts = n /\ plan'[s].failed = f
      /\ \A t \in StepIds \ {s} : plan'[t] = plan[t]
  BY <1>1, <1>2, <1>3, <1>4 DEF PlanInv, PlanTyped, StepRow
<1>6. /\ q \in Seq(OutcomeSet) /\ Len(q) = Len(out) + 1 /\ q[Len(out) + 1] = <<a, o>>
      /\ \A i \in 1..Len(out) : q[i] = out[i]
  <2>1. <<a, o>> \in OutcomeSet
    BY <1>1, <1>2, <1>3 DEF OutcomeSet
  <2> QED
    BY <1>2, <2>1
<1> HIDE DEF q
<1>7. /\ outcomes' \in [StepIds -> Seq(OutcomeSet)] /\ outcomes'[s] = q
      /\ \A t \in StepIds \ {s} : outcomes'[t] = outcomes[t]
  BY <1>1, <1>6 DEF PlanInv, PlanTyped
<1>8. PlanTyped'
  BY <1>1, <1>5, <1>7 DEF PlanInv, PlanTyped
<1>9. n > 0
  BY <1>1, <1>2 DEF StepLawful
<1>10. StepLawful(s, plan'[s], cl, q, cor)
  <2>1. ClosedAttempts(plan'[s]) = n /\ ClosedAttempts(plan[s]) = n - 1
    BY <1>1, <1>3, <1>5 DEF ClosedAttempts
  <2>2. Len(out) = n - 1 /\ Len(q) = n
    BY <1>2, <1>6, <2>1 DEF StepLawful
  <2>3. \A i \in 1..n : q[i] = <<i, IF i < n THEN "FAILED_RETRYABLE" ELSE o>>
    <3>1. \A i \in 1..(n - 1) : out[i] = <<i, "FAILED_RETRYABLE">>
      BY <1>2, <2>1 DEF StepLawful
    <3>2. ASSUME NEW i \in 1..n, i < n PROVE q[i] = <<i, "FAILED_RETRYABLE">>
      <4>1. i \in 1..(n - 1)
        BY <1>2, <3>2
      <4> QED
        BY <1>6, <2>2, <3>1, <4>1
    <3>3. q[n] = <<n, o>>
      BY <1>1, <1>2, <1>6, <2>2
    <3> QED
      BY <1>2, <3>2, <3>3
  <2> QED
    BY <1>2, <1>3, <1>4, <1>5, <1>9, <2>1, <2>2, <2>3 DEF StepLawful
<1>11. plan'[s].attempts > 0 =>
           stepRows = StepIds /\ \A d \in PlanSteps[s].deps : plan[d].state = "SUCCEEDED"
  BY <1>9 DEF PlanInv, StepsInOrder
<1> QED
  BY <1>1, <1>5, <1>7, <1>8, <1>10, <1>11, StepMoved

\* apply_correction
LEMMA CorrectionMoves ==
    ASSUME PlanInv, NEW s \in StepIds, ApplyCorrection(s)
    PROVE  PlanInv'
<1> DEFINE cor == corrections[s] \cup {plan[s].failed}
<1>1. /\ plan[s].state = "FAILED_RETRYABLE"
      /\ corrections' = [corrections EXCEPT ![s] = cor]
      /\ UNCHANGED <<planRow, stepRows, plan, claims, outcomes>>
  BY DEF ApplyCorrection
<1>2. /\ plan[s] \in StepRow /\ plan[s].attempts \in Nat /\ plan[s].failed \in Nat
      /\ corrections[s] \subseteq Nat
      /\ StepLawful(s, plan[s], claims[s], outcomes[s], corrections[s])
  BY DEF PlanInv, PlanTyped, StepsLawful, StepRow
<1>3. plan[s].failed = plan[s].attempts /\ plan[s].attempts > 0
  BY <1>1, <1>2 DEF StepLawful
<1>4. cor \subseteq 1..plan[s].attempts /\ corrections[s] \subseteq cor /\ cor \subseteq Nat
  BY <1>2, <1>3 DEF StepLawful
<1> HIDE DEF cor
<1>5. /\ corrections' \in [StepIds -> SUBSET Nat] /\ corrections'[s] = cor
      /\ \A t \in StepIds \ {s} : corrections'[t] = corrections[t]
  BY <1>1, <1>4 DEF PlanInv, PlanTyped
<1>6. PlanTyped'
  BY <1>1, <1>5 DEF PlanInv, PlanTyped
<1>7. StepLawful(s, plan[s], claims[s], outcomes[s], cor)
  BY <1>2, <1>4 DEF StepLawful
<1>8. plan[s].attempts > 0 =>
          stepRows = StepIds /\ \A d \in PlanSteps[s].deps : plan[d].state = "SUCCEEDED"
  BY DEF PlanInv, StepsInOrder
<1> QED
  BY <1>1, <1>5, <1>6, <1>7, <1>8, StepMoved

\* The rows of the plan are inserted one by one: nothing has been started.
LEMMA RowsMove ==
    ASSUME PlanInv, InsertPlanRow \/ \E s \in StepIds : InsertStepRow(s)
    PROVE  PlanInv'
<1>1. UNCHANGED <<plan, claims, outcomes, corrections>>
  BY DEF InsertPlanRow, InsertStepRow
<1>2. stepRows \subseteq stepRows' /\ stepRows' \subseteq StepIds /\ planRow' \in BOOLEAN
  BY DEF InsertPlanRow, InsertStepRow, PlanInv, PlanTyped
<1>3. PlanTyped'
  BY <1>1, <1>2 DEF PlanInv, PlanTyped
<1>4. StepsLawful'
  BY <1>1 DEF PlanInv, StepsLawful, StepLawful, ClosedAttempts
<1>5. StepsInOrder'
  BY <1>1, <1>2 DEF PlanInv, StepsInOrder
<1> QED
  BY <1>3, <1>4, <1>5 DEF PlanInv

LEMMA PlanInitLawful == PlanInit => PlanInv
<1> SUFFICES ASSUME PlanInit PROVE PlanInv
  OBVIOUS
<1> DEFINE p == [state |-> "PENDING", attempts |-> 0, holder |-> "none", expires |-> 0, failed |-> 0]
<1>1. p \in StepRow /\ p.state = "PENDING" /\ p.attempts = 0
  BY DEF StepRow, StepStates
<1>2. plan = [s \in StepIds |-> p]
  BY DEF PlanInit
<1> HIDE DEF p
<1>3. PlanTyped
  <2>1. <<>> \in Seq(Holders) /\ <<>> \in Seq(OutcomeSet)
    OBVIOUS
  <2> QED
    BY <1>1, <1>2, <2>1 DEF PlanInit, PlanTyped
<1>4. StepsLawful
  <2>1. ASSUME NEW s \in StepIds
        PROVE  StepLawful(s, plan[s], claims[s], outcomes[s], corrections[s])
    <3>1. plan[s] = p /\ claims[s] = <<>> /\ outcomes[s] = <<>> /\ corrections[s] = {}
      BY <1>2 DEF PlanInit
    <3>2. ClosedAttempts(p) = 0
      BY <1>1 DEF ClosedAttempts
    <3>3. PlanSteps[s].maxAttempts \in Nat
      BY LongHorizonAssumption DEF PlanValid
    <3> QED
      BY <1>1, <3>1, <3>2, <3>3 DEF StepLawful
  <2> QED
    BY <2>1 DEF StepsLawful
<1>5. StepsInOrder
  BY <1>1, <1>2 DEF StepsInOrder
<1> QED
  BY <1>3, <1>4, <1>5 DEF PlanInv

LEMMA PlanInductive == PlanSpec => []PlanInv
<1>1. ASSUME PlanInv, [PlanNext]_planVars PROVE PlanInv'
  <2>1. CASE UNCHANGED planVars
    <3>1. UNCHANGED <<planRow, stepRows, plan, claims, outcomes, corrections>>
      BY <2>1 DEF planVars
    <3> QED
      BY <1>1, <3>1 DEF PlanInv, PlanTyped, StepsLawful, StepLawful, ClosedAttempts, StepsInOrder
  <2>2. CASE PlanNext
    BY <1>1, <2>2, RowsMove, CorrectionMoves, ClaimMoves, CompleteMoves DEF PlanNext
  <2> QED
    BY <1>1, <2>1, <2>2
<1> QED
  BY <1>1, PlanInitLawful, PTL DEF PlanSpec

\* Type correctness of the plan coordinator (long_horizon_plan.py).
THEOREM PlanTypeCorrect == PlanSpec => []PlanTypeOK
<1>1. PlanInv => PlanTypeOK
  <2> SUFFICES ASSUME PlanInv PROVE PlanTypeOK
    OBVIOUS
  <2>1. ASSUME NEW s \in StepIds
        PROVE  /\ plan[s].state \in StepStates
               /\ plan[s].attempts \in 0..PlanSteps[s].maxAttempts
               /\ Len(claims[s]) = plan[s].attempts
               /\ corrections[s] \subseteq 1..plan[s].attempts
    <3>1. plan[s] \in StepRow /\ PlanSteps[s].maxAttempts \in Nat
      BY LongHorizonAssumption DEF PlanInv, PlanTyped, PlanValid
    <3> QED
      BY <3>1 DEF PlanInv, StepsLawful, StepLawful, StepRow
  <2> QED
    BY <2>1 DEF PlanTypeOK, PlanInv, PlanTyped
<1> QED
  BY <1>1, PlanInductive, PTL

\* Any plan without a cycle, any number of coordinators that claim and complete
\* its steps with clocks of their own, late or twice: steps start in order and
\* every attempt has its outcome and its correction (claim, complete and
\* apply_correction of long_horizon_plan.py).
THEOREM PlanIsAccounted == PlanSpec => []PlanAccounted
<1>1. PlanInv => PlanAccounted
  BY DEF PlanInv, StepsLawful, StepLawful, ClosedAttempts, PlanAccounted, AttemptsAccounted
<1> QED
  BY <1>1, PlanInductive, PTL

----------------------------------------------------------------------------
(* Sums over finite sets: what MapThenSumSet computes.  Its elements are   *)
(* taken in an order that depends on the set alone.                        *)

First(s) == CHOOSE x \in s : TRUE
Rest(s) == s \ {First(s)}

\* f holds the sum of w over every subset of S.
IsSum(f, w, S) ==
    f = [s \in SUBSET S |-> IF s = {} THEN 0 ELSE w[First(s)] + f[Rest(s)]]

SumFun(w, S) ==
    CHOOSE f : f = [s \in SUBSET S |-> IF s = {} THEN 0 ELSE w[First(s)] + f[Rest(s)]]

SumOver(w, S) == SumFun(w, S)[S]

\* Some subset of a finite set is smallest among those of a kind.
LEMMA SmallestSubset ==
    ASSUME NEW S, IsFiniteSet(S), NEW T \in SUBSET (SUBSET S), T # {}
    PROVE  \E x \in T : \A y \in T : y \subseteq x => y = x
<1>1. IsWellFoundedOn(StrictSubsetOrdering(S), FiniteSubsetsOf(S))
  BY FS_StrictSubsetOrderingWellFounded
<1>2. T \subseteq FiniteSubsetsOf(S)
  BY FS_Subset DEF FiniteSubsetsOf
<1>3. PICK x \in T : \A y \in T : ~(<<y, x>> \in StrictSubsetOrdering(S))
  BY <1>1, <1>2, WFMin
<1>4. \A y \in T : y \subseteq x /\ y # x => <<y, x>> \in StrictSubsetOrdering(S)
  BY DEF StrictSubsetOrdering
<1>5. \A y \in T : y \subseteq x => y = x
  BY <1>3, <1>4, Zenon
<1> QED
  BY <1>5, Zenon

\* A set without the element taken is a smaller one.
LEMMA FirstRemoved ==
    ASSUME NEW s, s # {}
    PROVE  First(s) \in s /\ Rest(s) = s \ {First(s)} /\ Rest(s) \subseteq s /\ Rest(s) # s
<1>1. First(s) \in s
  BY DEF First
<1> QED
  BY <1>1 DEF Rest

\* What the sum of a subset is.
LEMMA SumAt ==
    ASSUME NEW S, NEW w, NEW f, IsSum(f, w, S)
    PROVE  /\ f[{}] = 0
           /\ \A s \in SUBSET S : s # {} => f[s] = w[First(s)] + f[Rest(s)]
BY DEF IsSum

\* Two sums agree on the sets they share.
LEMMA SumUnique ==
    ASSUME NEW S, IsFiniteSet(S), NEW w, NEW U \in SUBSET S, NEW V \in SUBSET U, NEW f, NEW g,
           IsSum(f, w, U), IsSum(g, w, V)
    PROVE  \A s \in SUBSET V : f[s] = g[s]
<1> DEFINE bad == {s \in SUBSET V : f[s] # g[s]}
<1> SUFFICES ASSUME bad # {} PROVE FALSE
  OBVIOUS
<1>1. bad \in SUBSET (SUBSET S) /\ bad # {}
  OBVIOUS
<1>2. PICK s \in bad : \A t \in bad : t \subseteq s => t = s
  <2> HIDE DEF bad
  <2> QED
    BY <1>1, SmallestSubset
<1>3. s \in SUBSET V /\ s \in SUBSET U /\ f[s] # g[s]
  BY <1>2
<1>4. s # {}
  BY <1>3, SumAt
<1>5. f[Rest(s)] = g[Rest(s)]
  BY <1>2, <1>3, <1>4, FirstRemoved
<1>6. f[s] = w[First(s)] + f[Rest(s)] /\ g[s] = w[First(s)] + g[Rest(s)]
  BY <1>3, <1>4, SumAt
<1> QED
  BY <1>3, <1>5, <1>6

\* Every finite set has its sums.
LEMMA SumExists ==
    ASSUME NEW S, IsFiniteSet(S), NEW w
    PROVE  \E f : IsSum(f, w, S)
<1> DEFINE bad == {T \in SUBSET S : ~ \E f : IsSum(f, w, T)}
<1> SUFFICES ASSUME bad # {} PROVE FALSE
  OBVIOUS
<1>0. bad \in SUBSET (SUBSET S) /\ bad # {}
  OBVIOUS
<1>1. PICK T \in bad : \A U \in bad : U \subseteq T => U = T
  <2> HIDE DEF bad
  <2> QED
    BY <1>0, SmallestSubset
<1>2. T \in SUBSET S /\ ~ \E f : IsSum(f, w, T)
  BY <1>1
<1> DEFINE g(U) == CHOOSE f : IsSum(f, w, U)
           h == [s \in SUBSET T |-> IF s = {} THEN 0 ELSE w[First(s)] + g(Rest(s))[Rest(s)]]
<1>3. \A U \in SUBSET T : U # T => IsSum(g(U), w, U)
  BY <1>1
<1>9. ASSUME NEW s \in SUBSET T, s # {} PROVE h[s] = w[First(s)] + g(Rest(s))[Rest(s)]
  <2> HIDE DEF g
  <2> QED
    BY <1>9
<1>4. ASSUME NEW u \in SUBSET T, u # T PROVE h[u] = g(u)[u]
  <2>1. IsSum(g(u), w, u)
    BY <1>3, <1>4
  <2>2. CASE u = {}
    BY <2>1, <2>2, SumAt
  <2>3. CASE u # {}
    <3>1. Rest(u) \in SUBSET u /\ Rest(u) \in SUBSET T /\ Rest(u) # T
      BY <1>4, <2>3, FirstRemoved
    <3>2. IsSum(g(Rest(u)), w, Rest(u))
      BY <1>3, <3>1
    <3>3. g(u)[u] = w[First(u)] + g(u)[Rest(u)]
      BY <2>1, <2>3, SumAt
    <3>4. u \in SUBSET S
      BY <1>2
    <3>5. \A s \in SUBSET Rest(u) : g(u)[s] = g(Rest(u))[s]
      <4> DEFINE a == g(u)
                 b == g(Rest(u))
                 r == Rest(u)
      <4>1. IsSum(a, w, u) /\ IsSum(b, w, r) /\ r \in SUBSET u
        BY <2>1, <3>1, <3>2
      <4> HIDE DEF a, b, r
      <4>2. \A s \in SUBSET r : a[s] = b[s]
        BY <3>4, <4>1, SumUnique
      <4> QED
        BY <4>2 DEF a, b, r
    <3> HIDE DEF g
    <3> QED
      BY <1>9, <2>3, <3>3, <3>5
  <2> QED
    BY <2>2, <2>3
<1>5. ASSUME NEW s \in SUBSET T, s # {} PROVE h[s] = w[First(s)] + h[Rest(s)]
  <2>1. Rest(s) \in SUBSET T /\ Rest(s) # T
    BY <1>5, FirstRemoved
  <2> HIDE DEF g
  <2> QED
    BY <1>4, <1>5, <1>9, <2>1
<1>6. h[{}] = 0
  OBVIOUS
<1>7. h = [s \in SUBSET T |-> IF s = {} THEN 0 ELSE w[First(s)] + h[Rest(s)]]
  <2>1. h = [s \in SUBSET T |-> h[s]]
    OBVIOUS
  <2> HIDE DEF h
  <2> QED
    BY <1>5, <1>6, <2>1
<1>8. IsSum(h, w, T)
  <2> HIDE DEF h
  <2> QED
    BY <1>7 DEF IsSum
<1> QED
  BY <1>2, <1>8

\* So SumFun is the sum.
LEMMA SumFunIs ==
    ASSUME NEW S, IsFiniteSet(S), NEW w
    PROVE  IsSum(SumFun(w, S), w, S)
<1> DEFINE P(f) == f = [s \in SUBSET S |-> IF s = {} THEN 0 ELSE w[First(s)] + f[Rest(s)]]
<1>1. \E f : P(f)
  <2>1. PICK f : IsSum(f, w, S)
    BY SumExists
  <2>2. P(f)
    BY <2>1 DEF IsSum
  <2> QED
    BY <2>2
<1>2. SumFun(w, S) = CHOOSE f : P(f)
  BY DEF SumFun
<1>3. IsSum(SumFun(w, S), w, S) <=> P(SumFun(w, S))
  BY DEF IsSum
<1> HIDE DEF P
<1> QED
  BY <1>1, <1>2, <1>3, Zenon

\* Natural numbers add up to one.
LEMMA SumNat ==
    ASSUME NEW S, IsFiniteSet(S), NEW w \in [S -> Nat], NEW f, IsSum(f, w, S)
    PROVE  \A s \in SUBSET S : f[s] \in Nat
<1> DEFINE bad == {s \in SUBSET S : f[s] \notin Nat}
<1> SUFFICES ASSUME bad # {} PROVE FALSE
  OBVIOUS
<1>0. bad \in SUBSET (SUBSET S) /\ bad # {}
  OBVIOUS
<1>1. PICK s \in bad : \A t \in bad : t \subseteq s => t = s
  <2> HIDE DEF bad
  <2> QED
    BY <1>0, SmallestSubset
<1>2. s \in SUBSET S /\ f[s] \notin Nat
  BY <1>1
<1>3. s # {}
  <2>1. f[{}] = 0
    BY SumAt
  <2> QED
    BY <1>2, <2>1
<1>4. f[Rest(s)] \in Nat /\ w[First(s)] \in Nat
  BY <1>1, <1>2, <1>3, FirstRemoved
<1>5. f[s] = w[First(s)] + f[Rest(s)]
  BY <1>2, <1>3, SumAt
<1> QED
  BY <1>2, <1>4, <1>5

\* One more at one element is one more in the sum of every set that has it.
LEMMA SumBump ==
    ASSUME NEW S, IsFiniteSet(S), NEW w \in [S -> Nat], NEW v \in [S -> Nat], NEW x \in S,
           v[x] = w[x] + 1, \A y \in S \ {x} : v[y] = w[y],
           NEW f, NEW g, IsSum(f, w, S), IsSum(g, v, S)
    PROVE  \A s \in SUBSET S : g[s] = f[s] + (IF x \in s THEN 1 ELSE 0)
<1> DEFINE bad == {s \in SUBSET S : g[s] # f[s] + (IF x \in s THEN 1 ELSE 0)}
<1> SUFFICES ASSUME bad # {} PROVE FALSE
  OBVIOUS
<1>0. bad \in SUBSET (SUBSET S) /\ bad # {}
  OBVIOUS
<1>1. PICK s \in bad : \A t \in bad : t \subseteq s => t = s
  <2> HIDE DEF bad
  <2> QED
    BY <1>0, SmallestSubset
<1>2. s \in SUBSET S /\ g[s] # f[s] + (IF x \in s THEN 1 ELSE 0)
  BY <1>1
<1> HIDE DEF bad
<1>3. s # {}
  <2>1. f[{}] = 0 /\ g[{}] = 0
    BY SumAt
  <2> QED
    BY <1>2, <2>1
<1> DEFINE y == First(s)
           t == Rest(s)
<1>4. y \in s /\ y \in S /\ t \in SUBSET S /\ t \subseteq s /\ t # s
  BY <1>2, <1>3, FirstRemoved
<1>5. g[t] = f[t] + (IF x \in t THEN 1 ELSE 0)
  BY <1>1, <1>4 DEF bad
<1>6. f[s] = w[y] + f[t] /\ g[s] = v[y] + g[t]
  BY <1>2, <1>3, SumAt
<1>7. f[t] \in Nat /\ w[y] \in Nat
  BY <1>4, SumNat
<1>8. x \in t <=> x \in s /\ x # y
  BY <1>3, FirstRemoved
<1>9. x \notin s => x # y
  BY <1>4
<1>10. v[y] = w[y] + (IF x = y THEN 1 ELSE 0)
  BY <1>4, <1>7
<1> HIDE DEF t, y
<1> QED
  BY <1>2, <1>5, <1>6, <1>7, <1>8, <1>9, <1>10

\* SumOver of natural numbers is one.
LEMMA SumOverNat ==
    ASSUME NEW S, IsFiniteSet(S), NEW w \in [S -> Nat]
    PROVE  SumOver(w, S) \in Nat
<1> DEFINE f == SumFun(w, S)
<1>1. IsSum(f, w, S)
  BY SumFunIs
<1> HIDE DEF f
<1>2. \A s \in SUBSET S : f[s] \in Nat
  BY <1>1, SumNat
<1> QED
  BY <1>2 DEF SumOver, f

\* One more at one element is one more in the sum.
LEMMA SumOverBump ==
    ASSUME NEW S, IsFiniteSet(S), NEW w \in [S -> Nat], NEW v \in [S -> Nat], NEW x \in S,
           v[x] = w[x] + 1, \A y \in S \ {x} : v[y] = w[y]
    PROVE  SumOver(v, S) = SumOver(w, S) + 1
<1> DEFINE f == SumFun(w, S)
           g == SumFun(v, S)
<1>1. IsSum(f, w, S) /\ IsSum(g, v, S)
  BY SumFunIs
<1> HIDE DEF f, g
<1>2. \A s \in SUBSET S : g[s] = f[s] + (IF x \in s THEN 1 ELSE 0)
  BY <1>1, SumBump
<1>3. g[S] = f[S] + 1
  BY <1>2
<1> QED
  BY <1>3 DEF SumOver, f, g

\* Nothing but zeros adds up to zero.
LEMMA SumOverZero ==
    ASSUME NEW S, IsFiniteSet(S), NEW w \in [S -> Nat], \A x \in S : w[x] = 0
    PROVE  SumOver(w, S) = 0
<1> DEFINE f == SumFun(w, S)
           bad == {s \in SUBSET S : f[s] # 0}
<1>1. IsSum(f, w, S)
  BY SumFunIs
<1> HIDE DEF f
<1>2. ASSUME bad # {} PROVE FALSE
  <2>0. bad \in SUBSET (SUBSET S)
    OBVIOUS
  <2>1. PICK s \in bad : \A t \in bad : t \subseteq s => t = s
    <3> HIDE DEF bad
    <3> QED
      BY <1>2, <2>0, SmallestSubset
  <2>2. s \in SUBSET S /\ f[s] # 0
    BY <2>1
  <2>3. f[{}] = 0
    BY <1>1, SumAt
  <2>4. s # {}
    BY <2>2, <2>3
  <2>5. f[Rest(s)] = 0 /\ w[First(s)] = 0
    BY <2>1, <2>2, <2>4, FirstRemoved
  <2>6. f[s] = w[First(s)] + f[Rest(s)]
    BY <1>1, <2>2, <2>4, SumAt
  <2> QED
    BY <2>2, <2>5, <2>6
<1>3. f[S] = 0
  BY <1>2
<1> QED
  BY <1>3 DEF SumOver, f

----------------------------------------------------------------------------
(* Interval wakes and recovery checkpoints.                                *)

Schedule == [every : Nat, first : Nat, next : Nat]

TwTyped ==
    /\ schedules \in [ScheduleIds -> Schedule]
    /\ wakes \in [ScheduleIds -> Seq(Nat)]
    /\ emitted \in [ScheduleIds -> Seq(Nat)]
    /\ cpRows \in Seq([parent : Nat, basis : Nat])
    /\ cpKnown \in [Workers -> Nat]
    /\ \A w \in Workers : cpKnown[w] <= Len(cpRows)

\* One schedule: what its row, its stored wakes and the returned ones say of
\* each other.
ScheduleLawful(s, wk, em) ==
    /\ s.every = 0 => wk = <<>> /\ em = <<>>
    /\ s.every > 0 =>
           /\ s.next = s.first + Len(wk) * s.every
           /\ \A i \in 1..Len(wk) : wk[i] = s.first + (i - 1) * s.every
    /\ Len(em) <= Len(wk)
    /\ \A i \in 1..Len(em) : em[i] < s.next
    /\ \A i \in 1..Len(em), j \in 1..Len(em) : i < j => em[i] < em[j]

SchedulesLawful == \A c \in ScheduleIds : ScheduleLawful(schedules[c], wakes[c], emitted[c])

TwInv == TwTyped /\ SchedulesLawful /\ FrontierKept

\* Occurrences of a schedule from next_at on.
Continues(s, r) ==
    /\ r \in Seq(Nat)
    /\ r # <<>> => s.every > 0
    /\ \A i \in 1..Len(r) : r[i] = s.next + (i - 1) * s.every

LEMMA Products ==
    /\ \A a, b, e \in Int : (a + b) * e = a * e + b * e
    /\ \A a, b \in Int, e \in Nat \ {0} : a < b => a * e < b * e
    /\ \A a, e \in Nat : a * e \in Nat
<1>1. \A a, b, e \in Int : (a + b) * e = a * e + b * e
  OBVIOUS
<1>2. \A a, b \in Int, e \in Nat \ {0} : a < b => a * e < b * e
  OBVIOUS
<1>3. \A a, e \in Nat : a * e \in Nat
  OBVIOUS
<1> QED
  BY <1>1, <1>2, <1>3

\* The occurrences that are due, oldest first.
LEMMA MissedIs ==
    ASSUME TwTyped, NEW now \in Nat, NEW c \in Due(now)
    PROVE  /\ Missed(c, now) # <<>> /\ Len(Missed(c, now)) \in Nat
           /\ Continues(schedules[c], Missed(c, now))
<1> DEFINE s == schedules[c]
           n == (now - s.next) \div s.every + 1
<1>1. s \in Schedule /\ s.every > 0 /\ s.next <= now
  BY DEF Due, TwTyped
<1>2. s.every \in Nat \ {0} /\ s.next \in Nat
  BY <1>1 DEF Schedule
<1>3. \A a \in Nat, b \in Nat \ {0} : a \div b \in Nat
  OBVIOUS
<1>4. n \in Nat /\ n > 0
  <2>1. now - s.next \in Nat
    BY <1>1, <1>2
  <2>2. (now - s.next) \div s.every \in Nat
    BY <1>2, <1>3, <2>1
  <2> QED
    BY <2>2
<1> DEFINE m == [i \in 1..n |-> s.next + (i - 1) * s.every]
<1>5. Missed(c, now) = m
  BY DEF Missed
<1> HIDE DEF n
<1>6. \A i \in 1..n : s.next + (i - 1) * s.every \in Nat
  BY <1>2, <1>4, Products
<1>7. m \in Seq(Nat) /\ Len(m) = n /\ \A i \in 1..n : m[i] = s.next + (i - 1) * s.every
  BY <1>4, <1>6
<1>8. m # <<>>
  BY <1>4, <1>7
<1> HIDE DEF m
<1> QED
  BY <1>1, <1>4, <1>5, <1>7, <1>8 DEF Continues

\* The beginning of what continues a schedule does so too.
LEMMA PrefixContinues ==
    ASSUME NEW s, NEW r, Continues(s, r), NEW n \in Nat, n <= Len(r)
    PROVE  Continues(s, SubSeq(r, 1, n))
<1> DEFINE q == SubSeq(r, 1, n)
<1>1. r \in Seq(Nat) /\ Len(r) \in Nat
  BY DEF Continues
<1>2. q \in Seq(Nat) /\ Len(q) = n /\ \A i \in 1..n : q[i] = r[i]
  BY <1>1
<1>3. q # <<>> => r # <<>>
  BY <1>1, <1>2
<1> HIDE DEF q
<1>4. \A i \in 1..Len(q) : q[i] = s.next + (i - 1) * s.every
  <2>1. \A i \in 1..Len(r) : r[i] = s.next + (i - 1) * s.every
    BY DEF Continues
  <2>2. \A i \in 1..n : i \in 1..Len(r)
    BY <1>1
  <2> QED
    BY <1>2, <2>1, <2>2
<1>5. q # <<>> => s.every > 0
  BY <1>3 DEF Continues
<1>6. Continues(s, q)
  BY <1>2, <1>4, <1>5 DEF Continues
<1> QED
  BY <1>6 DEF q

\* tick, for one schedule: whatever is left of the cap, the oldest due
\* occurrences are stored, and nothing else.
LEMMA TickRowIs ==
    ASSUME TwTyped, NEW now \in Nat, NEW cap \in TickCaps, NEW c \in ScheduleIds
    PROVE  Continues(schedules[c], TickRow(c, now, cap))
<1> DEFINE D == {d \in Due(now) : Before(d, c)}
           w == [d \in D |-> Len(Missed(d, now))]
           used == MapThenSumSet(LAMBDA d : Len(Missed(d, now)), D)
           m == Missed(c, now)
           left == cap - used
<1>1. IsFiniteSet(D)
  <2>1. D \subseteq ScheduleIds
    BY DEF Due
  <2> QED
    BY <2>1, TaskWakesAssumption, FS_Subset
<1>2. w \in [D -> Nat]
  <2>1. \A d \in D : Len(Missed(d, now)) \in Nat
    BY MissedIs
  <2> QED
    BY <2>1
<1>3. used = SumOver(w, D)
  BY Zenon DEF MapThenSumSet, MapThenFoldSet, SumOver, SumFun, First, Rest
<1>4. used \in Nat
  <2> HIDE DEF D, w, used
  <2> QED
    BY <1>1, <1>2, <1>3, SumOverNat
<1>5. TickRow(c, now, cap) = IF c \notin Due(now) \/ used >= cap THEN <<>> ELSE Taken(m, left)
  BY Zenon DEF TickRow
<1> HIDE DEF D, w, used
<1>6. CASE c \notin Due(now) \/ used >= cap
  <2>1. TickRow(c, now, cap) = <<>>
    BY <1>5, <1>6
  <2>2. Continues(schedules[c], <<>>)
    BY DEF Continues
  <2> QED
    BY <2>1, <2>2
<1>7. CASE c \in Due(now) /\ ~(used >= cap)
  <2>1. TickRow(c, now, cap) = Taken(m, left)
    BY <1>5, <1>7
  <2>2. left \in Nat
    BY <1>4, <1>7, TaskWakesAssumption
  <2>3. Continues(schedules[c], m) /\ Len(m) \in Nat
    BY <1>7, MissedIs
  <2> HIDE DEF m, left
  <2>4. CASE left >= Len(m)
    BY <2>1, <2>3, <2>4 DEF Taken
  <2>5. CASE ~(left >= Len(m))
    <3>1. left <= Len(m)
      BY <2>2, <2>3, <2>5
    <3> QED
      BY <2>1, <2>2, <2>3, <2>5, <3>1, PrefixContinues DEF Taken
  <2> QED
    BY <2>4, <2>5
<1> QED
  BY <1>6, <1>7

\* Two logs in a row.
LEMMA Joined ==
    ASSUME NEW p \in Seq(Nat), NEW q \in Seq(Nat)
    PROVE  /\ p \o q \in Seq(Nat) /\ Len(p \o q) = Len(p) + Len(q)
           /\ \A i \in 1..Len(p) : (p \o q)[i] = p[i]
           /\ \A i \in 1..Len(q) : (p \o q)[Len(p) + i] = q[i]
           /\ \A k \in 1..Len(p \o q) : k \in 1..Len(p) \/ \E i \in 1..Len(q) : k = Len(p) + i
<1>1. Len(p) \in Nat /\ Len(q) \in Nat
  OBVIOUS
<1>2. p \o q \in Seq(Nat) /\ Len(p \o q) = Len(p) + Len(q)
  OBVIOUS
<1>3. \A i \in 1..Len(p) : (p \o q)[i] = p[i]
  OBVIOUS
<1>4. \A i \in 1..Len(q) : (p \o q)[Len(p) + i] = q[i]
  OBVIOUS
<1>5. ASSUME NEW k \in 1..Len(p \o q)
      PROVE  k \in 1..Len(p) \/ \E i \in 1..Len(q) : k = Len(p) + i
  <2>1. k \in 1..Len(p) \/ k - Len(p) \in 1..Len(q)
    BY <1>1, <1>2
  <2>2. k = Len(p) + (k - Len(p))
    BY <1>1, <1>2
  <2> QED
    BY <2>1, <2>2
<1> QED
  BY <1>2, <1>3, <1>4, <1>5

\* What a tick stores continues the schedule.
LEMMA ScheduleContinued ==
    ASSUME NEW s \in Schedule, NEW wk \in Seq(Nat), NEW em \in Seq(Nat), ScheduleLawful(s, wk, em),
           NEW r, Continues(s, r), r # <<>>
    PROVE  LET t == [s EXCEPT !.next = Last(r) + s.every]
           IN  /\ t \in Schedule
               /\ ScheduleLawful(t, wk \o r, em)
               /\ ScheduleLawful(t, wk \o r, em \o r)
<1> DEFINE n == Len(r)
           m == Len(wk)
           l == Len(em)
           e == s.every
           from == s.first
           here == s.next
           prod == [x \in Int |-> x * e]
           upto == Last(r) + e
           t == [s EXCEPT !.next = upto]
           wr == wk \o r
           er == em \o r
<1>1. /\ r \in Seq(Nat) /\ n \in Nat /\ n > 0 /\ m \in Nat /\ l \in Nat
      /\ e \in Nat \ {0} /\ from \in Nat /\ here \in Nat
  <2>1. r \in Seq(Nat) /\ e > 0
    BY DEF Continues
  <2>2. n \in Nat /\ n > 0
    BY <2>1
  <2> QED
    BY <2>1, <2>2 DEF Schedule
<1>2. (\A x \in Int : prod[x] \in Int) /\ (\A x \in Nat : prod[x] \in Nat) /\ prod[1] = e
  <2> HIDE DEF e
  <2> QED
    BY <1>1, Products
<1>2a. \A x, y \in Int : prod[x + y] = prod[x] + prod[y]
  <2> HIDE DEF e
  <2> QED
    BY <1>1, Products
<1>2b. \A x, y \in Int : x < y => prod[x] < prod[y]
  <2> HIDE DEF e
  <2> QED
    BY <1>1, Products
<1>3a. \A i \in 1..n : r[i] = here + prod[i - 1]
  BY <1>1 DEF Continues
<1>3. Last(r) = here + prod[n - 1]
  <2>1. Last(r) = r[n]
    BY DEF Last
  <2>2. n \in 1..n
    BY <1>1
  <2> HIDE DEF n, here, prod
  <2> QED
    BY <1>3a, <2>1, <2>2
<1>4. here = from + prod[m] /\ l <= m
  BY <1>1 DEF ScheduleLawful
<1>4a. \A i \in 1..m : wk[i] = from + prod[i - 1]
  BY <1>1 DEF ScheduleLawful
<1>4b. /\ \A i \in 1..l : em[i] < here
      /\ \A i \in 1..l, j \in 1..l : i < j => em[i] < em[j]
  BY <1>1 DEF ScheduleLawful
<1>5. /\ wr \in Seq(Nat) /\ Len(wr) = m + n
      /\ \A i \in 1..m : wr[i] = wk[i]
      /\ \A i \in 1..n : wr[m + i] = r[i]
      /\ \A k \in 1..(m + n) : k \in 1..m \/ \E i \in 1..n : k = m + i
  BY <1>1, Joined
<1>6. /\ er \in Seq(Nat) /\ Len(er) = l + n
      /\ \A i \in 1..l : er[i] = em[i]
      /\ \A i \in 1..n : er[l + i] = r[i]
      /\ \A k \in 1..(l + n) : k \in 1..l \/ \E i \in 1..n : k = l + i
  BY <1>1, Joined
<1>7. \A i \in 1..l : em[i] \in Nat
  OBVIOUS
<1>8. wr # <<>>
  BY <1>1, <1>5
<1> HIDE DEF n, m, l, e, from, here, prod, wr, er
<1>9. upto = here + prod[n] /\ upto \in Nat
  <2>1. n - 1 \in Int /\ 1 \in Int /\ n \in Nat
    BY <1>1
  <2>3. prod[(n - 1) + 1] = prod[n - 1] + prod[1]
    BY <1>2a, <2>1
  <2>2. (n - 1) + 1 = n /\ prod[n - 1] \in Int /\ prod[n] \in Nat
    BY <1>2, <2>1
  <2>4. prod[n] = prod[n - 1] + e
    BY <1>2, <2>2, <2>3
  <2>5. here \in Nat /\ e \in Nat
    BY <1>1
  <2> DEFINE a == prod[n - 1]
             b == prod[n]
             c == Last(r)
  <2>6. a \in Int /\ b \in Nat /\ b = a + e /\ c = here + a
    BY <1>3, <2>2, <2>4
  <2>7. upto = c + e
    OBVIOUS
  <2>8. prod[n] = b
    OBVIOUS
  <2> HIDE DEF a, b, c, upto
  <2>9. c + e = here + b /\ here + b \in Nat
    BY <2>5, <2>6
  <2> QED
    BY <2>7, <2>8, <2>9
<1> HIDE DEF upto
<1>10. t \in Schedule /\ t.every = e /\ t.first = from /\ t.next = upto
  BY <1>9 DEF Schedule, e, from
<1> HIDE DEF t
<1>11. upto = from + prod[m + n]
  <2>1. prod[m] \in Nat /\ prod[n] \in Nat
    BY <1>1, <1>2
  <2>2. prod[m + n] = prod[m] + prod[n]
    BY <1>1, <1>2a
  <2> QED
    <3> DEFINE a == prod[m]
               b == prod[n]
               c == prod[m + n]
    <3>1. a \in Nat /\ b \in Nat /\ c = a + b /\ upto = here + b /\ here = from + a /\ from \in Nat
      BY <1>1, <1>4, <1>9, <2>1, <2>2
    <3>2. prod[m + n] = c
      OBVIOUS
    <3> HIDE DEF a, b, c
    <3>3. upto = from + c
      BY <3>1
    <3> QED
      BY <3>2, <3>3
<1>12. ASSUME NEW k \in 1..(m + n) PROVE wr[k] = from + prod[k - 1]
  <2>1. CASE k \in 1..m
    BY <1>4a, <1>5, <2>1
  <2>2. ASSUME NEW i \in 1..n, k = m + i PROVE wr[k] = from + prod[k - 1]
    <3>1. wr[k] = here + prod[i - 1]
      BY <1>3a, <1>5, <2>2
    <3>2. k - 1 = m + (i - 1) /\ i - 1 \in Int
      BY <1>1, <2>2
    <3>3. prod[m] \in Int /\ prod[i - 1] \in Int
      BY <1>1, <1>2, <3>2
    <3>4. prod[k - 1] = prod[m] + prod[i - 1]
      BY <1>1, <1>2a, <3>2
    <3> QED
      <4> DEFINE a == prod[m]
                 b == prod[i - 1]
                 c == prod[k - 1]
                 d == wr[k]
      <4>1. a \in Int /\ b \in Int /\ c = a + b /\ d = here + b /\ here = from + a /\ from \in Nat
        BY <1>1, <1>4, <3>1, <3>3, <3>4
      <4>2. prod[k - 1] = c /\ wr[k] = d
        OBVIOUS
      <4> HIDE DEF a, b, c, d
      <4>3. d = from + c
        BY <4>1
      <4> QED
        BY <4>2, <4>3
  <2> QED
    BY <1>5, <2>1, <2>2
<1>13. ASSUME NEW i \in 1..n PROVE r[i] >= here /\ r[i] < upto /\ r[i] \in Nat
  <2>1. i - 1 \in Nat /\ i - 1 < n
    BY <1>1
  <2>2. prod[i - 1] \in Nat /\ prod[n] \in Nat
    BY <1>1, <1>2, <2>1
  <2>3. prod[i - 1] < prod[n]
    BY <1>1, <1>2b, <2>1
  <2>4. r[i] = here + prod[i - 1]
    BY <1>3a
  <2>5. here \in Nat /\ upto = here + prod[n]
    BY <1>1, <1>9
  <2> DEFINE a == prod[i - 1]
             b == prod[n]
  <2>6. a \in Nat /\ b \in Nat /\ a < b /\ r[i] = here + a /\ upto = here + b
    BY <2>2, <2>3, <2>4, <2>5
  <2> HIDE DEF a, b
  <2> QED
    BY <2>5, <2>6
<1>14. ASSUME NEW i \in 1..n, NEW j \in 1..n, i < j PROVE r[i] < r[j]
  <2>1. i - 1 \in Int /\ j - 1 \in Int /\ i - 1 < j - 1
    BY <1>1, <1>14
  <2>2. prod[i - 1] \in Int /\ prod[j - 1] \in Int
    BY <1>2, <2>1
  <2>3. prod[i - 1] < prod[j - 1]
    BY <1>2b, <2>1
  <2>4. r[i] = here + prod[i - 1] /\ r[j] = here + prod[j - 1]
    BY <1>3a
  <2> QED
    BY <1>1, <2>2, <2>3, <2>4
<1>15. \A i \in 1..l : em[i] < upto
  <2>1. prod[n] \in Nat
    BY <1>1, <1>2
  <2> QED
    BY <1>1, <1>4b, <1>7, <1>9, <2>1
<1>16. ASSUME NEW k \in 1..(l + n) PROVE er[k] < upto
  <2>1. CASE k \in 1..l
    BY <1>6, <1>15, <2>1
  <2>2. ASSUME NEW i \in 1..n, k = l + i PROVE er[k] < upto
    BY <1>6, <1>13, <2>2
  <2> QED
    BY <1>6, <2>1, <2>2
<1>17. ASSUME NEW j \in 1..(l + n), NEW k \in 1..(l + n), j < k PROVE er[j] < er[k]
  <2>1. CASE j \in 1..l /\ k \in 1..l
    BY <1>4b, <1>6, <1>17, <2>1
  <2>2. ASSUME j \in 1..l, NEW i \in 1..n, k = l + i PROVE er[j] < er[k]
    <3>1. er[j] = em[j] /\ em[j] < here /\ em[j] \in Nat
      BY <1>4b, <1>6, <1>7, <2>2
    <3>2. er[k] = r[i] /\ r[i] >= here /\ r[i] \in Nat
      BY <1>6, <1>13, <2>2
    <3> QED
      BY <1>1, <3>1, <3>2
  <2>3. ASSUME NEW h \in 1..n, j = l + h, NEW i \in 1..n, k = l + i PROVE er[j] < er[k]
    <3>1. h < i
      BY <1>1, <1>17, <2>3
    <3>2. er[j] = r[h] /\ er[k] = r[i]
      BY <1>6, <2>3
    <3> QED
      BY <1>14, <3>1, <3>2
  <2>4. ASSUME NEW h \in 1..n, j = l + h, k \in 1..l PROVE FALSE
    BY <1>1, <1>17, <2>4
  <2> QED
    BY <1>6, <2>1, <2>2, <2>3, <2>4
<1>18. ScheduleLawful(t, wr, em)
  <2>1. l <= Len(wr) /\ t.every # 0
    BY <1>1, <1>4, <1>5, <1>10
  <2>2. t.next = t.first + Len(wr) * t.every
    BY <1>5, <1>10, <1>11 DEF prod
  <2>3. \A i \in 1..Len(wr) : wr[i] = t.first + (i - 1) * t.every
    BY <1>5, <1>10, <1>12 DEF prod
  <2> QED
    BY <1>4b, <1>10, <1>15, <2>1, <2>2, <2>3 DEF ScheduleLawful, l
<1>19. ScheduleLawful(t, wr, er)
  <2>1. Len(er) <= Len(wr) /\ t.every # 0
    BY <1>1, <1>4, <1>5, <1>6, <1>10
  <2>2. t.next = t.first + Len(wr) * t.every
    BY <1>5, <1>10, <1>11 DEF prod
  <2>3. \A i \in 1..Len(wr) : wr[i] = t.first + (i - 1) * t.every
    BY <1>5, <1>10, <1>12 DEF prod
  <2> QED
    BY <1>6, <1>10, <1>16, <1>17, <2>1, <2>2, <2>3 DEF ScheduleLawful
<1>20. t = [s EXCEPT !.next = Last(r) + s.every] /\ wr = wk \o r /\ er = em \o r
  BY DEF t, upto, e, wr, er
<1> QED
  BY <1>10, <1>18, <1>19, <1>20

\* A tick leaves every schedule lawful, whether or not its caller is told.
LEMMA TickMoves ==
    ASSUME TwInv, NEW now \in Nat, NEW cap \in TickCaps, NEW returned \in BOOLEAN,
           Tick(now, cap, returned)
    PROVE  TwInv'
<1> DEFINE row(c) == TickRow(c, now, cap)
           s(c) == schedules[c]
           t(c) == IF row(c) = <<>> THEN s(c) ELSE [s(c) EXCEPT !.next = Last(row(c)) + s(c).every]
           em(c) == IF returned THEN emitted[c] \o row(c) ELSE emitted[c]
<1>1. \A c \in ScheduleIds :
          s(c) \in Schedule /\ wakes[c] \in Seq(Nat) /\ emitted[c] \in Seq(Nat)
  BY DEF TwInv, TwTyped
<1>2. /\ schedules' = [c \in ScheduleIds |-> t(c)]
      /\ wakes' = [c \in ScheduleIds |-> wakes[c] \o row(c)]
  BY Zenon DEF Tick
<1>3. emitted' = [c \in ScheduleIds |-> em(c)]
  <2>1. emitted' = IF returned THEN [c \in ScheduleIds |-> emitted[c] \o row(c)] ELSE emitted
    BY Zenon DEF Tick
  <2>2. emitted = [c \in ScheduleIds |-> emitted[c]]
    BY DEF TwInv, TwTyped
  <2> HIDE DEF row
  <2> QED
    BY <2>1, <2>2
<1>4. cpRows' = cpRows /\ cpKnown' = cpKnown
  BY DEF Tick, cpVars
<1>5. ASSUME NEW c \in ScheduleIds
      PROVE  /\ t(c) \in Schedule /\ wakes[c] \o row(c) \in Seq(Nat) /\ em(c) \in Seq(Nat)
             /\ ScheduleLawful(t(c), wakes[c] \o row(c), em(c))
  <2>1. Continues(s(c), row(c)) /\ ScheduleLawful(s(c), wakes[c], emitted[c])
    BY TickRowIs DEF TwInv, SchedulesLawful
  <2>2. row(c) \in Seq(Nat)
    BY <2>1 DEF Continues
  <2>3. s(c) \in Schedule /\ wakes[c] \in Seq(Nat) /\ emitted[c] \in Seq(Nat)
    BY <1>1
  <2> HIDE DEF row, s
  <2>4. wakes[c] \o row(c) \in Seq(Nat) /\ emitted[c] \o row(c) \in Seq(Nat)
    BY <2>2, <2>3
  <2>5. CASE row(c) = <<>>
    <3>1. wakes[c] \o row(c) = wakes[c] /\ emitted[c] \o row(c) = emitted[c]
      BY <2>3, <2>5
    <3>2. t(c) = s(c) /\ em(c) = emitted[c]
      BY <2>5, <3>1
    <3> QED
      BY <2>1, <2>3, <3>1, <3>2
  <2>6. CASE row(c) # <<>>
    <3>1. t(c) = [s(c) EXCEPT !.next = Last(row(c)) + s(c).every]
      BY <2>6
    <3> HIDE DEF t
    <3>2. /\ t(c) \in Schedule
          /\ ScheduleLawful(t(c), wakes[c] \o row(c), emitted[c])
          /\ ScheduleLawful(t(c), wakes[c] \o row(c), emitted[c] \o row(c))
      BY Zenon, <2>1, <2>3, <2>6, <3>1, ScheduleContinued
    <3> QED
      BY <2>3, <2>4, <3>2
  <2> QED
    BY <2>5, <2>6
<1> HIDE DEF row, s, t, em
<1>6. TwTyped'
  <2>1. /\ schedules' \in [ScheduleIds -> Schedule]
        /\ wakes' \in [ScheduleIds -> Seq(Nat)]
        /\ emitted' \in [ScheduleIds -> Seq(Nat)]
    BY <1>2, <1>3, <1>5
  <2>2. /\ cpRows' \in Seq([parent : Nat, basis : Nat])
        /\ cpKnown' \in [Workers -> Nat]
        /\ \A w \in Workers : cpKnown'[w] <= Len(cpRows')
    BY <1>4 DEF TwInv, TwTyped
  <2> QED
    BY <2>1, <2>2 DEF TwTyped
<1>7. SchedulesLawful'
  <2>1. ASSUME NEW c \in ScheduleIds
        PROVE  ScheduleLawful(schedules'[c], wakes'[c], emitted'[c])
    <3>1. schedules'[c] = t(c) /\ wakes'[c] = wakes[c] \o row(c) /\ emitted'[c] = em(c)
      BY <1>2, <1>3
    <3> QED
      BY <1>5, <3>1
  <2> QED
    BY <2>1 DEF SchedulesLawful, ScheduleLawful
<1>8. FrontierKept'
  BY <1>4 DEF TwInv, FrontierKept
<1> QED
  BY <1>6, <1>7, <1>8 DEF TwInv

\* A new schedule has stored and returned nothing.
LEMMA AddIntervalMoves ==
    ASSUME TwInv, NEW c \in ScheduleIds, NEW every \in Intervals, NEW first \in Nat,
           AddInterval(c, every, first)
    PROVE  TwInv'
<1> DEFINE t == [every |-> every, first |-> first, next |-> first]
<1>1. every \in Nat /\ every > 0
  BY TaskWakesAssumption
<1>2. t \in Schedule
  BY <1>1 DEF Schedule
<1>3. /\ schedules' = [schedules EXCEPT ![c] = t]
      /\ wakes' = wakes /\ emitted' = emitted /\ cpRows' = cpRows /\ cpKnown' = cpKnown
  BY DEF AddInterval, cpVars
<1>4. TwTyped'
  BY <1>2, <1>3 DEF TwInv, TwTyped
<1>5. wakes[c] = <<>> /\ emitted[c] = <<>>
  BY DEF AddInterval, TwInv, SchedulesLawful, ScheduleLawful
<1>6. ScheduleLawful(t, <<>>, <<>>)
  <2>1. Len(<<>>) = 0 /\ 1..0 = {}
    OBVIOUS
  <2>2. 0 * every = 0
    BY <1>1
  <2>3. t.next = t.first + 0 * t.every
    BY <2>2
  <2> QED
    BY <1>1, <2>1, <2>3 DEF ScheduleLawful
<1>7. SchedulesLawful'
  <2>1. ASSUME NEW d \in ScheduleIds
        PROVE  ScheduleLawful(schedules'[d], wakes'[d], emitted'[d])
    <3>1. CASE d = c
      <4>1. schedules'[d] = t /\ wakes'[d] = <<>> /\ emitted'[d] = <<>>
        BY <1>3, <1>5, <3>1 DEF TwInv, TwTyped
      <4> QED
        BY <1>6, <4>1
    <3>2. CASE d # c
      <4>1. schedules'[d] = schedules[d] /\ wakes'[d] = wakes[d] /\ emitted'[d] = emitted[d]
        BY <1>3, <3>2 DEF TwInv, TwTyped
      <4> QED
        BY <4>1 DEF TwInv, SchedulesLawful
    <3> QED
      BY <3>1, <3>2
  <2> QED
    BY <2>1 DEF SchedulesLawful, ScheduleLawful
<1>8. FrontierKept'
  BY <1>3 DEF TwInv, FrontierKept
<1> QED
  BY <1>4, <1>7, <1>8 DEF TwInv

\* A checkpoint continues the frontier its writer read.
LEMMA CheckpointMoves ==
    ASSUME TwInv, NEW w \in Workers, ReadHead(w) \/ AppendCheckpoint(w)
    PROVE  TwInv'
<1>1. schedules' = schedules /\ wakes' = wakes /\ emitted' = emitted
  BY DEF ReadHead, AppendCheckpoint, wakeVars
<1>2. SchedulesLawful'
  BY <1>1 DEF TwInv, SchedulesLawful, ScheduleLawful
<1>3. Len(cpRows) \in Nat /\ cpRows \in Seq([parent : Nat, basis : Nat])
  BY DEF TwInv, TwTyped
<1>4. CASE ReadHead(w)
  <2>1. cpRows' = cpRows /\ cpKnown' = [cpKnown EXCEPT ![w] = Len(cpRows)]
    BY <1>4 DEF ReadHead
  <2> QED
    BY <1>1, <1>2, <1>3, <2>1 DEF TwInv, TwTyped, FrontierKept
<1>5. CASE AppendCheckpoint(w)
  <2> DEFINE e == [parent |-> Len(cpRows), basis |-> cpKnown[w]]
  <2>1. cpRows' = Append(cpRows, e) /\ cpKnown' = [cpKnown EXCEPT ![w] = Len(cpRows')]
    BY <1>5 DEF AppendCheckpoint
  <2>2. cpKnown[w] = Len(cpRows)
    BY <1>5 DEF AppendCheckpoint, GenerationMatches
  <2>3. e \in [parent : Nat, basis : Nat] /\ e.parent = Len(cpRows) /\ e.basis = Len(cpRows)
    BY <1>3, <2>2
  <2> HIDE DEF e
  <2>4. /\ cpRows' \in Seq([parent : Nat, basis : Nat]) /\ Len(cpRows') = Len(cpRows) + 1
        /\ \A i \in 1..Len(cpRows) : cpRows'[i] = cpRows[i]
        /\ cpRows'[Len(cpRows) + 1] = e
    BY <1>3, <2>1, <2>3
  <2>5. TwTyped'
    BY <1>1, <1>3, <2>1, <2>4 DEF TwInv, TwTyped
  <2>6. FrontierKept'
    <3>1. \A i \in 1..Len(cpRows) : cpRows[i].parent = i - 1 /\ cpRows[i].basis = cpRows[i].parent
      BY <1>3 DEF TwInv, FrontierKept
    <3>2. DOMAIN cpRows' = 1..(Len(cpRows) + 1)
      BY <2>4
    <3> DEFINE n == Len(cpRows)
    <3>3. ASSUME NEW i \in 1..(n + 1)
          PROVE  cpRows'[i].parent = i - 1 /\ cpRows'[i].basis = cpRows'[i].parent
      <4>1. CASE i \in 1..n
        BY <2>4, <3>1, <4>1
      <4>2. CASE i = n + 1
        <5>1. cpRows'[i] = e
          BY <2>4, <4>2
        <5>2. i - 1 = n
          BY <1>3, <4>2
        <5> QED
          BY <2>3, <5>1, <5>2
      <4> HIDE DEF n
      <4>3. n \in Nat
        BY <1>3 DEF n
      <4>4. i \in 1..n \/ i = n + 1
        BY <4>3
      <4> QED
        BY <4>1, <4>2, <4>4
    <3> QED
      BY <3>2, <3>3 DEF FrontierKept
  <2> QED
    BY <1>2, <2>5, <2>6 DEF TwInv
<1> QED
  BY <1>4, <1>5

LEMMA TwInitLawful == TwInit => TwInv
<1> SUFFICES ASSUME TwInit PROVE TwInv
  OBVIOUS
<1> DEFINE t == [every |-> 0, first |-> 0, next |-> 0]
<1>1. t \in Schedule
  BY DEF Schedule
<1>2. /\ \A c \in ScheduleIds : schedules[c] = t /\ wakes[c] = <<>> /\ emitted[c] = <<>>
      /\ schedules \in [ScheduleIds -> {t}] /\ wakes \in [ScheduleIds -> {<<>>}]
      /\ emitted \in [ScheduleIds -> {<<>>}]
  BY DEF TwInit
<1>3. Len(<<>>) = 0 /\ <<>> \in Seq(Nat) /\ 1..0 = {} /\ <<>> \in Seq([parent : Nat, basis : Nat])
  OBVIOUS
<1>4. TwTyped
  BY <1>1, <1>2, <1>3 DEF TwInit, TwTyped
<1>5. SchedulesLawful
  BY <1>2, <1>3 DEF SchedulesLawful, ScheduleLawful
<1>6. FrontierKept
  BY DEF TwInit, FrontierKept
<1> QED
  BY <1>4, <1>5, <1>6 DEF TwInv

LEMMA TwInductive == TwSpec => []TwInv
<1>1. TwInv /\ [TwNext]_twVars => TwInv'
  <2> SUFFICES ASSUME TwInv, [TwNext]_twVars PROVE TwInv'
    OBVIOUS
  <2>1. \A x \in 0..WakeMaxTime : x \in Nat
    BY TaskWakesAssumption
  <2>2. ASSUME NEW c \in ScheduleIds, NEW every \in Intervals, NEW first \in 0..WakeMaxTime,
               AddInterval(c, every, first)
        PROVE  TwInv'
    BY <2>1, <2>2, AddIntervalMoves
  <2>3. ASSUME NEW now \in 0..WakeMaxTime, NEW cap \in TickCaps, NEW returned \in BOOLEAN,
               Tick(now, cap, returned)
        PROVE  TwInv'
    BY <2>1, <2>3, TickMoves
  <2>4. ASSUME NEW w \in Workers, ReadHead(w) \/ AppendCheckpoint(w)
        PROVE  TwInv'
    BY <2>4, CheckpointMoves
  <2>5. CASE UNCHANGED twVars
    BY <2>5 DEF twVars, wakeVars, cpVars, TwInv, TwTyped, SchedulesLawful, ScheduleLawful,
                FrontierKept
  <2> QED
    BY Zenon, <2>2, <2>3, <2>4, <2>5 DEF TwNext
<1> QED
  BY <1>1, TwInitLawful, PTL DEF TwSpec

(***************************************************************************)
(* Nothing is returned to a caller that is not stored, and nobody knows a  *)
(* checkpoint that is not written (task_wake_scheduler.py,                 *)
(* work_checkpoint.py).                                                    *)
(***************************************************************************)
THEOREM WakesTypeCorrect == TwSpec => []TwTypeOK
<1>1. TwInv => TwTypeOK
  BY DEF TwInv, TwTyped, SchedulesLawful, ScheduleLawful, TwTypeOK
<1> QED
  BY <1>1, TwInductive, PTL

(***************************************************************************)
(* TaskWakeScheduler.tick and RecoveryCheckpointStore.append: for any      *)
(* intervals, any caps, and clocks that run late or backwards, the stored  *)
(* wakes are exactly the occurrences up to next_at, what the ticks return  *)
(* is increasing, and no checkpoint is written over an unread one.         *)
(***************************************************************************)
THEOREM WakesKept == TwSpec => []WakesAndWorkKept
<1>1. TwInv => WakesAndWorkKept
  <2> SUFFICES ASSUME TwInv PROVE WakesExact
    BY DEF TwInv, WakesAndWorkKept
  <2> SUFFICES ASSUME NEW c \in ScheduleIds
               PROVE  LET s == schedules[c]
                      IN  /\ s.every > 0 =>
                                /\ s.next = s.first + Len(wakes[c]) * s.every
                                /\ \A i \in DOMAIN wakes[c] : wakes[c][i] = s.first + (i - 1) * s.every
                          /\ \A i \in DOMAIN emitted[c], j \in DOMAIN emitted[c] :
                                i < j => emitted[c][i] < emitted[c][j]
    BY DEF WakesExact
  <2>1. DOMAIN wakes[c] = 1..Len(wakes[c]) /\ DOMAIN emitted[c] = 1..Len(emitted[c])
    BY DEF TwInv, TwTyped
  <2>2. ScheduleLawful(schedules[c], wakes[c], emitted[c])
    BY DEF TwInv, SchedulesLawful
  <2> QED
    BY <2>1, <2>2 DEF ScheduleLawful
<1> QED
  BY <1>1, TwInductive, PTL

----------------------------------------------------------------------------
(* The closed loop.                                                        *)

RunSteps == {"idle", "consume", "admit", "m1", "m2", "claim", "act", "check", "update", "state", "start"}
RunRow == [mode : Modes, step : RunSteps, w : Works \cup {"none"}, token : Nat, now : Nat,
           ok : BOOLEAN, seen : BOOLEAN]
LeaseRow == [holder : Runners \cup {"none"}, token : Nat, expires : Nat, completed : BOOLEAN]
ReviewerRow == [w : Works \cup {"none"}, stage : Nat]

RunsTyped == runner \in [Runners -> RunRow]
GateTyped ==
    /\ budget \in [active : Nat, retries : Nat, backend : Nat, generation : Nat]
    /\ lease \in [Works -> LeaseRow] /\ completed \in [Works -> Seq(Nat)] /\ acts \in Nat
CycleTyped == cycle \in [Works -> Seq(Nat)] /\ reviewer \in [Reviewers -> ReviewerRow]
UsesTyped ==
    /\ review \in [rev : LearnedRevs \cup {"none"}, admitted : BOOLEAN, bound : SUBSET EvidenceIds]
    /\ cueUses \in [LearnedRevs -> [CueEvents -> Nat]]
    /\ evUses \in [LearnedRevs -> [EvidenceIds -> Nat]]
MeaningTyped == meaning \in Meanings \cup {"none"}

\* A run that holds an admission it has not acted under.
Holding(p) == p.step = "act" /\ p.mode \in {"bounded", "host"}
Admitted == {r \in Runners : Holding(runner[r])}

\* One run: only a host leaves out the semantic store, and who completes or
\* acts under an admission has its token.
RunLawful(p) ==
    /\ p.step # "idle" => p.w \in Works
    /\ p.mode = "host" => p.step \notin {"consume", "admit", "m1", "m2"}
    /\ p.step \in {"check", "update"} \/ Holding(p) => p.token > 0
RunsLawful == \A r \in Runners : RunLawful(runner[r])

\* The budget is charged once for every token, each act takes an admission.
GateCharged ==
    /\ budget.generation = SumOver([w \in Works |-> lease[w].token], Works)
    /\ budget.active + budget.generation = GateBudget.active
    /\ budget.backend + budget.generation = GateBudget.backend
ActsHeld == acts + Cardinality(Admitted) <= budget.generation

\* One piece of work: completed says whether its newest token was completed.
WorkLawful(l, done) ==
    /\ l.token = 0 => ~l.completed
    /\ IF l.completed THEN done = <<l.token>> ELSE done = <<>>
WorksLawful == \A w \in Works : WorkLawful(lease[w], completed[w])

\* One correction, and what an advance() in flight has read of it.
StagesLawful(cy) == Len(cy) <= CorrectiveStages /\ \A n \in 1..Len(cy) : cy[n] = n
CyclesLawful == \A w \in Works : StagesLawful(cycle[w])
ReadLawful(q) ==
    q.stage > 0 => /\ q.w \in Works /\ q.stage <= CorrectiveStages
                   /\ q.stage <= Len(cycle[q.w]) + 1
ReviewersLawful == \A q \in Reviewers : ReadLawful(reviewer[q])

\* What was consumed is on file.
UsesLawful ==
    \A v \in LearnedRevs :
        /\ \A c \in CueEvents : cueUses[v][c] <= 1 /\ (cueUses[v][c] > 0 => <<v, c>> \in consumed)
        /\ \A i \in EvidenceIds : evUses[v][i] <= 1 /\ (evUses[v][i] > 0 => <<v, i>> \in consumed)

RunsInv == RunsTyped /\ RunsLawful
GateInv == GateTyped /\ GateCharged /\ ActsHeld /\ WorksLawful
CycleInv == CycleTyped /\ CyclesLawful /\ ReviewersLawful
UsesInv == UsesTyped /\ UsesLawful
ClInv == RunsInv /\ GateInv /\ CycleInv /\ UsesInv /\ MeaningTyped

LEMMA RowMoved ==
    ASSUME NEW p \in RunRow, NEW g \in RunSteps
    PROVE  /\ [p EXCEPT !.step = g] \in RunRow /\ IdleRun \in RunRow /\ RunLawful(IdleRun)
           /\ LET q == [p EXCEPT !.step = g]
              IN  q.step = g /\ q.mode = p.mode /\ q.w = p.w /\ q.token = p.token
           /\ ~Holding(IdleRun)
<1>1. IdleRun \in RunRow
  <2>1. TRUE \in BOOLEAN /\ FALSE \in BOOLEAN
    OBVIOUS
  <2>2. "plain" \in Modes /\ "idle" \in RunSteps /\ "none" \in Works \cup {"none"} /\ 0 \in Nat
    BY DEF Modes, RunSteps
  <2> QED
    BY Zenon, <2>1, <2>2 DEF IdleRun, RunRow
<1>2. RunLawful(IdleRun) /\ ~Holding(IdleRun)
  <2>1. IdleRun.step = "idle" /\ IdleRun.mode = "plain"
    BY Zenon DEF IdleRun
  <2> QED
    BY <2>1 DEF RunLawful, Holding
<1>3. [p EXCEPT !.step = g] \in RunRow
  BY DEF RunRow
<1>4. LET q == [p EXCEPT !.step = g]
      IN  q.step = g /\ q.mode = p.mode /\ q.w = p.w /\ q.token = p.token
  BY DEF RunRow
<1> QED
  BY <1>1, <1>2, <1>3, <1>4

\* One run goes on to a lawful row.
LEMMA RunnerMoves ==
    ASSUME RunsInv, NEW r \in Runners, NEW p \in RunRow, RunLawful(p),
           runner' = [runner EXCEPT ![r] = p]
    PROVE  /\ RunsInv'
           /\ Holding(p) => Admitted' = Admitted \cup {r}
           /\ ~Holding(p) => Admitted' = Admitted \ {r}
<1> DEFINE next0 == [runner EXCEPT ![r] = p]
<1>1. next0 \in [Runners -> RunRow] /\ next0[r] = p /\ \A q \in Runners : q # r => next0[q] = runner[q]
  BY DEF RunsInv, RunsTyped
<1>2. runner' = next0
  OBVIOUS
<1> HIDE DEF next0
<1>3. RunsTyped'
  BY <1>1, <1>2 DEF RunsTyped
<1>4. \A q \in Runners : RunLawful(next0[q])
  BY <1>1 DEF RunsInv, RunsLawful
<1>5. RunsLawful'
  BY <1>2, <1>4 DEF RunsLawful, RunLawful, Holding
<1>6. Admitted' = {q \in Runners : Holding(next0[q])}
  BY <1>2 DEF Admitted, Holding
<1>7. \A q \in Runners : q # r => (Holding(next0[q]) <=> Holding(runner[q]))
  BY <1>1
<1>8. Holding(next0[r]) <=> Holding(p)
  BY <1>1
<1>9. Holding(p) => Admitted' = Admitted \cup {r}
  BY <1>6, <1>7, <1>8 DEF Admitted
<1>10. ~Holding(p) => Admitted' = Admitted \ {r}
  BY <1>6, <1>7, <1>8 DEF Admitted
<1> QED
  BY <1>3, <1>5, <1>9, <1>10 DEF RunsInv

\* Goes and Ends.
LEMMA RunnerGoes ==
    ASSUME RunsInv, NEW r \in Runners, NEW g \in RunSteps, Goes(r, g) \/ Ends(r),
           runner[r].step # "idle",
           runner[r].mode = "host" => g \notin {"consume", "admit", "m1", "m2"},
           g \in {"check", "update"} => runner[r].token > 0,
           g = "act" => runner[r].mode \notin {"bounded", "host"}
    PROVE  RunsInv' /\ Admitted' = Admitted \ {r}
<1> DEFINE p == runner[r]
           q == [p EXCEPT !.step = g]
<1>1. p \in RunRow /\ RunLawful(p)
  BY DEF RunsInv, RunsTyped, RunsLawful
<1>2. /\ q \in RunRow /\ IdleRun \in RunRow /\ RunLawful(IdleRun) /\ ~Holding(IdleRun)
      /\ q.step = g /\ q.mode = p.mode /\ q.w = p.w /\ q.token = p.token
  BY <1>1, RowMoved
<1>3. runner' = [runner EXCEPT ![r] = IdleRun] \/ runner' = [runner EXCEPT ![r] = q]
  BY Zenon DEF Goes, Ends
<1>4. p.step # "idle" /\ (p.mode = "host" => g \notin {"consume", "admit", "m1", "m2"})
      /\ (g \in {"check", "update"} => p.token > 0)
      /\ (g = "act" => p.mode \notin {"bounded", "host"})
  OBVIOUS
<1> HIDE DEF p, q
<1>5. RunLawful(q) /\ ~Holding(q)
  BY <1>1, <1>2, <1>4 DEF RunLawful, Holding
<1>6. CASE runner' = [runner EXCEPT ![r] = IdleRun]
  BY <1>2, <1>6, RunnerMoves
<1>7. CASE runner' = [runner EXCEPT ![r] = q]
  BY <1>2, <1>5, <1>7, RunnerMoves
<1> QED
  BY <1>3, <1>6, <1>7

\* Admissions held, counted.
LEMMA AdmittedCounts ==
    ASSUME NEW r \in Runners
    PROVE  /\ IsFiniteSet(Admitted) /\ Cardinality(Admitted) \in Nat
           /\ \A S : S \subseteq Admitted =>
                 Cardinality(S) \in Nat /\ Cardinality(S) <= Cardinality(Admitted)
           /\ Cardinality(Admitted \cup {r}) \in Nat
           /\ Cardinality(Admitted \cup {r}) <= Cardinality(Admitted) + 1
           /\ r \in Admitted => /\ Cardinality(Admitted \ {r}) = Cardinality(Admitted) - 1
                                /\ Cardinality(Admitted \ {r}) \in Nat
<1>1. Admitted \subseteq Runners
  BY DEF Admitted
<1>2. IsFiniteSet(Admitted)
  BY <1>1, ClosedLoopAssumption, FS_Subset
<1> DEFINE A == Admitted
<1> HIDE DEF A
<1>3. IsFiniteSet(A)
  BY <1>2 DEF A
<1>4. Cardinality(A) \in Nat
  BY <1>3, FS_CardinalityType
<1>5. \A S : S \subseteq A => Cardinality(S) \in Nat /\ Cardinality(S) <= Cardinality(A)
  <2> SUFFICES ASSUME NEW S, S \subseteq A
               PROVE  Cardinality(S) \in Nat /\ Cardinality(S) <= Cardinality(A)
    OBVIOUS
  <2>1. IsFiniteSet(S) /\ Cardinality(S) <= Cardinality(A)
    BY <1>3, FS_Subset
  <2> QED
    BY <2>1, FS_CardinalityType
<1>6. /\ Cardinality(A \cup {r}) \in Nat
      /\ Cardinality(A \cup {r}) <= Cardinality(A) + 1
  <2>1. IsFiniteSet(A \cup {r})
    BY <1>3, FS_AddElement
  <2>2. Cardinality(A \cup {r}) = Cardinality(A) \/ Cardinality(A \cup {r}) = Cardinality(A) + 1
    BY <1>3, FS_AddElement
  <2> QED
    BY <1>4, <2>1, <2>2, FS_CardinalityType
<1>7. ASSUME r \in A
      PROVE  Cardinality(A \ {r}) = Cardinality(A) - 1 /\ Cardinality(A \ {r}) \in Nat
  <2>1. IsFiniteSet(A \ {r}) /\ Cardinality(A \ {r}) = Cardinality(A) - 1
    BY <1>3, <1>7, FS_RemoveElement
  <2> QED
    BY <2>1, FS_CardinalityType
<1> QED
  BY <1>3, <1>4, <1>5, <1>6, <1>7 DEF A

\* What a step leaves alone stays lawful.
LEMMA GateStays ==
    ASSUME GateInv, UNCHANGED gateVars, NEW r \in Runners, Admitted' \subseteq Admitted
    PROVE  GateInv'
<1>1. budget' = budget /\ lease' = lease /\ completed' = completed /\ acts' = acts
  BY DEF gateVars
<1>2. GateTyped' /\ GateCharged' /\ WorksLawful'
  BY <1>1 DEF GateInv, GateTyped, GateCharged, WorksLawful, WorkLawful, SumOver, SumFun, First, Rest
<1>3. ActsHeld'
  <2> DEFINE a == Cardinality(Admitted)
             b == Cardinality(Admitted')
  <2>1. a \in Nat /\ b \in Nat /\ b <= a
    BY AdmittedCounts
  <2>2. acts \in Nat /\ budget.generation \in Nat /\ acts + a <= budget.generation
    BY DEF GateInv, GateTyped, ActsHeld
  <2>3. ActsHeld' <=> acts' + b <= budget'.generation
    BY DEF ActsHeld
  <2> HIDE DEF a, b
  <2>4. acts + b <= budget.generation
    BY <2>1, <2>2
  <2> QED
    BY <1>1, <2>3, <2>4
<1> QED
  BY <1>2, <1>3 DEF GateInv

LEMMA CycleStays ==
    ASSUME CycleInv, UNCHANGED <<cycle, reviewer>>
    PROVE  CycleInv'
BY DEF CycleInv, CycleTyped, CyclesLawful, ReviewersLawful, StagesLawful, ReadLawful

LEMMA UsesStay ==
    ASSUME UsesInv, UNCHANGED learnVars
    PROVE  UsesInv'
BY DEF UsesInv, UsesTyped, UsesLawful, learnVars

\* A run begins.
LEMMA RunBeginsMoves ==
    ASSUME ClInv, NEW r \in Runners, NEW mode \in Modes, NEW w \in Works, RunBegins(r, mode, w)
    PROVE  ClInv'
<1> DEFINE p0 == [IdleRun EXCEPT !.mode = mode, !.w = w]
<1>1. \E g \in {"consume", "claim", "admit"} :
         /\ runner' = [runner EXCEPT ![r] = [IdleRun EXCEPT !.mode = mode, !.w = w, !.step = g]]
         /\ mode = "host" => g = "claim"
  <2>1. CASE mode = "learning"
    BY Zenon, <2>1 DEF RunBegins
  <2>2. CASE mode = "host"
    BY Zenon, <2>2 DEF RunBegins
  <2>3. CASE mode # "learning" /\ mode # "host"
    BY Zenon, <2>3 DEF RunBegins
  <2> QED
    BY <2>1, <2>2, <2>3
<1>2. PICK g \in {"consume", "claim", "admit"} :
         /\ runner' = [runner EXCEPT ![r] = [IdleRun EXCEPT !.mode = mode, !.w = w, !.step = g]]
         /\ mode = "host" => g = "claim"
  BY <1>1
<1> DEFINE p == [IdleRun EXCEPT !.mode = mode, !.w = w, !.step = g]
<1>3. IdleRun \in RunRow
  <2>1. runner[r] \in RunRow
    BY DEF ClInv, RunsInv, RunsTyped
  <2>2. "idle" \in RunSteps
    BY DEF RunSteps
  <2> QED
    BY <2>1, <2>2, RowMoved
<1>4. p \in RunRow /\ p.mode = mode /\ p.w = w /\ p.step = g
  BY <1>3 DEF RunRow, RunSteps
<1> HIDE DEF p
<1>5. RunLawful(p) /\ ~Holding(p)
  BY <1>2, <1>4 DEF RunLawful, Holding
<1>6. runner' = [runner EXCEPT ![r] = p]
  BY <1>2 DEF p
<1>7. RunsInv' /\ Admitted' = Admitted \ {r}
  BY <1>4, <1>5, <1>6, RunnerMoves DEF ClInv
<1>8. UNCHANGED gateVars /\ UNCHANGED <<cycle, reviewer>> /\ UNCHANGED learnVars /\ meaning' = meaning
  BY DEF RunBegins
<1>9. GateInv'
  BY <1>7, <1>8, GateStays DEF ClInv
<1>10. CycleInv' /\ UsesInv'
  BY <1>8, CycleStays, UsesStay DEF ClInv
<1> QED
  BY <1>7, <1>8, <1>9, <1>10 DEF ClInv, MeaningTyped

\* The meaning a run acts on is admitted to the semantic store.
LEMMA AdmitMoves ==
    ASSUME ClInv, NEW r \in Runners, NEW m \in Meanings, AdmitRead(r, m) \/ AdmitInsert(r, m)
    PROVE  ClInv'
<1> DEFINE p == runner[r]
           known == (meaning = m)
           q == [p EXCEPT !.step = m, !.seen = known]
<1>1. p \in RunRow /\ RunLawful(p) /\ RunsInv
  BY DEF ClInv, RunsInv, RunsTyped, RunsLawful
<1>2. m \in {"m1", "m2"}
  BY DEF Meanings
<1>3. known \in BOOLEAN
  OBVIOUS
<1>4. runner \in [Runners -> RunRow]
  BY <1>1 DEF RunsInv, RunsTyped
<1>5. IdleRun \in RunRow /\ RunLawful(IdleRun) /\ ~Holding(IdleRun)
  BY <1>1, RowMoved DEF RunSteps
<1>6. RunsInv' /\ Admitted' \subseteq Admitted
  <2>1. CASE AdmitRead(r, m) /\ meaning \in {"none", m}
    <3>1. p.step = "admit" /\ runner' = [runner EXCEPT ![r].step = m, ![r].seen = known]
      BY <2>1 DEF AdmitRead
    <3> HIDE DEF known
    <3>2. runner' = [runner EXCEPT ![r] = q]
      BY <1>4, <3>1
    <3>3. q \in RunRow /\ q.step = m /\ q.mode = p.mode /\ q.w = p.w /\ q.token = p.token
      BY <1>1, <1>2, <1>3 DEF RunRow, RunSteps
    <3> HIDE DEF q, p
    <3>4. RunLawful(q) /\ ~Holding(q)
      BY <1>1, <1>2, <3>1, <3>3 DEF RunLawful, Holding
    <3>5. RunsInv' /\ Admitted' = Admitted \ {r}
      BY <1>1, <3>2, <3>3, <3>4, RunnerMoves
    <3> QED
      BY <3>5
  <2>2. CASE AdmitRead(r, m) /\ meaning \notin {"none", m}
    <3>1. runner' = [runner EXCEPT ![r] = IdleRun]
      BY <2>2 DEF AdmitRead, Ends
    <3>2. RunsInv' /\ Admitted' = Admitted \ {r}
      BY <1>1, <1>5, <3>1, RunnerMoves
    <3> QED
      BY <3>2
  <2>3. CASE AdmitInsert(r, m)
    <3>1. p.step = m
      BY <2>3 DEF AdmitInsert
    <3>2. p.step # "idle" /\ p.mode # "host"
      BY <1>1, <1>2, <3>1 DEF RunLawful
    <3>3. \/ Ends(r)
          \/ p.mode = "bounded" /\ Goes(r, "claim")
          \/ p.mode # "bounded" /\ Goes(r, "act")
      BY Zenon, <2>3 DEF AdmitInsert
    <3>4. "claim" \in RunSteps /\ "act" \in RunSteps /\ "idle" \in RunSteps
      BY DEF RunSteps
    <3>5. CASE Ends(r) \/ (p.mode = "bounded" /\ Goes(r, "claim"))
      BY <1>1, <3>2, <3>4, <3>5, RunnerGoes
    <3>6. CASE p.mode # "bounded" /\ Goes(r, "act")
      BY <1>1, <3>2, <3>4, <3>6, RunnerGoes
    <3> QED
      BY <3>3, <3>5, <3>6
  <2> QED
    BY <2>1, <2>2, <2>3
<1>7. UNCHANGED gateVars /\ UNCHANGED <<cycle, reviewer>> /\ UNCHANGED learnVars
  BY DEF AdmitRead, AdmitInsert
<1>8. GateInv'
  BY <1>6, <1>7, GateStays DEF ClInv
<1>9. CycleInv' /\ UsesInv'
  BY <1>7, CycleStays, UsesStay DEF ClInv
<1>10. MeaningTyped'
  <2>1. meaning' = meaning \/ meaning' = m
    BY Zenon DEF AdmitRead, AdmitInsert
  <2> QED
    BY <2>1 DEF ClInv, MeaningTyped
<1> QED
  BY <1>6, <1>8, <1>9, <1>10 DEF ClInv

\* A run that only goes on or ends.
LEMMA PassesOn ==
    ASSUME ClInv, NEW r \in Runners,
           (\E now \in Times : CompleteCheck(r, now)) \/ CorrectionState(r) \/ RunnerDies(r)
    PROVE  ClInv'
<1>1. RunsInv /\ RunLawful(runner[r])
  BY DEF ClInv, RunsInv, RunsLawful
<1>2. {"update", "idle", "start"} \subseteq RunSteps
  BY DEF RunSteps
<1>3. RunsInv' /\ Admitted' = Admitted \ {r}
  <2>1. CASE \E now \in Times : CompleteCheck(r, now)
    <3>1. runner[r].step = "check"
      BY <2>1 DEF CompleteCheck
    <3>2. runner[r].token > 0
      BY <1>1, <3>1 DEF RunLawful
    <3>3. Goes(r, "update") \/ Goes(r, "idle") \/ Goes(r, "start")
      BY Zenon, <2>1 DEF CompleteCheck, AfterGate
    <3>4. ASSUME NEW g \in {"update", "idle", "start"}, Goes(r, g)
          PROVE  RunsInv' /\ Admitted' = Admitted \ {r}
      BY <1>1, <1>2, <3>1, <3>2, <3>4, RunnerGoes
    <3> QED
      BY <3>3, <3>4
  <2>2. CASE CorrectionState(r)
    <3>1. runner[r].step = "state" /\ (Goes(r, "idle") \/ Goes(r, "start"))
      BY Zenon, <2>2 DEF CorrectionState
    <3>2. ASSUME NEW g \in {"idle", "start"}, Goes(r, g)
          PROVE  RunsInv' /\ Admitted' = Admitted \ {r}
      BY <1>1, <1>2, <3>1, <3>2, RunnerGoes
    <3> QED
      BY <3>1, <3>2
  <2>3. CASE RunnerDies(r)
    <3>1. runner[r].step # "idle" /\ Ends(r)
      BY <2>3 DEF RunnerDies
    <3> QED
      BY <1>1, <1>2, <3>1, RunnerGoes
  <2> QED
    BY <2>1, <2>2, <2>3
<1>4. /\ UNCHANGED gateVars /\ UNCHANGED <<cycle, reviewer>> /\ UNCHANGED learnVars
      /\ meaning' = meaning
  BY DEF CompleteCheck, CorrectionState, RunnerDies
<1>5. GateInv'
  BY <1>3, <1>4, GateStays DEF ClInv
<1>6. CycleInv' /\ UsesInv'
  BY <1>4, CycleStays, UsesStay DEF ClInv
<1> QED
  BY <1>3, <1>4, <1>5, <1>6 DEF ClInv, MeaningTyped

LEMMA RowClaimed ==
    ASSUME NEW p \in RunRow, NEW n \in Nat, NEW t \in Nat
    PROVE  LET q == [p EXCEPT !.step = "act", !.now = n, !.token = t]
           IN  q \in RunRow /\ q.step = "act" /\ q.mode = p.mode /\ q.w = p.w /\ q.token = t
<1> DEFINE q == [p EXCEPT !.step = "act", !.now = n, !.token = t]
<1>1. q.step = "act" /\ q.mode = p.mode /\ q.w = p.w /\ q.token = t
  BY DEF RunRow
<1>2. q \in RunRow
  BY DEF RunRow, RunSteps
<1> QED
  BY <1>1, <1>2

\* claim: one more token, one more charge, one more admission.
LEMMA GateClaimMoves ==
    ASSUME ClInv, NEW r \in Runners, NEW now \in Times, NEW retry \in BOOLEAN,
           GateClaim(r, now, retry)
    PROVE  ClInv'
<1> DEFINE p == runner[r]
           w == p.w
           new == [holder |-> r, token |-> lease[w].token + 1, expires |-> now + 1, completed |-> FALSE]
           q == [p EXCEPT !.step = "act", !.now = now, !.token = lease[w].token + 1]
<1>1. p \in RunRow /\ RunLawful(p) /\ RunsInv /\ runner \in [Runners -> RunRow]
  BY DEF ClInv, RunsInv, RunsTyped, RunsLawful
<1>2. p.step = "claim" /\ w \in Works
  BY <1>1 DEF GateClaim, RunLawful
<1>3. now \in Nat
  BY ClosedLoopAssumption DEF Times
<1>4. /\ UNCHANGED <<cycle, reviewer>> /\ UNCHANGED learnVars /\ meaning' = meaning
      /\ completed' = completed /\ acts' = acts
  BY DEF GateClaim
<1>5. CycleInv' /\ UsesInv' /\ MeaningTyped'
  BY <1>4, CycleStays, UsesStay DEF ClInv, MeaningTyped
<1>6. CASE ~Admissible(w, now, retry)
  <2>1. Ends(r) /\ UNCHANGED <<lease, budget>>
    BY <1>6 DEF GateClaim
  <2>2. RunsInv' /\ Admitted' = Admitted \ {r}
    <3>1. "idle" \in RunSteps
      BY DEF RunSteps
    <3> QED
      BY <1>1, <1>2, <2>1, <3>1, RunnerGoes
  <2>3. UNCHANGED gateVars
    BY <1>4, <2>1 DEF gateVars
  <2>4. GateInv'
    BY <2>2, <2>3, GateStays DEF ClInv
  <2> QED
    BY <1>5, <2>2, <2>4 DEF ClInv
<1>7. CASE Admissible(w, now, retry)
  <2>1. GateInv
    BY DEF ClInv
  <2>2. /\ budget.active \in Nat /\ budget.retries \in Nat /\ budget.backend \in Nat
        /\ budget.generation \in Nat /\ lease[w] \in LeaseRow /\ acts \in Nat
        /\ lease \in [Works -> LeaseRow] /\ completed \in [Works -> Seq(Nat)]
    BY <1>2, <2>1 DEF GateInv, GateTyped
  <2>3. lease[w].token \in Nat
    BY <2>2 DEF LeaseRow
  <2>4. lease' = [lease EXCEPT ![w] = new]
    BY <1>7 DEF GateClaim
  <2>5. runner' = [runner EXCEPT ![r] = q]
    <3>1. runner' = [runner EXCEPT ![r].step = "act", ![r].now = now,
                                   ![r].token = lease[runner[r].w].token + 1]
      BY <1>7 DEF GateClaim
    <3> QED
      BY <1>1, <3>1
  <2>6. /\ budget.active > 0 /\ budget.backend > 0 /\ (retry => budget.retries > 0)
        /\ lease[w].token > 0 => ~lease[w].completed
    BY <1>7 DEF Admissible
  <2>7. budget' = Charged(w, retry)
    BY <1>7 DEF GateClaim
  <2> DEFINE k == IF retry THEN 1 ELSE 0
             b == [active |-> budget.active - 1, backend |-> budget.backend - 1,
                   retries |-> budget.retries - k, generation |-> budget.generation + 1]
  <2>8. budget' = b /\ b.active = budget.active - 1 /\ b.backend = budget.backend - 1
        /\ b.generation = budget.generation + 1
    BY <2>7 DEF Charged
  <2>9. b \in [active : Nat, retries : Nat, backend : Nat, generation : Nat]
    BY <2>2, <2>6
  <2>10. new \in LeaseRow /\ new.token = lease[w].token + 1 /\ ~new.completed
    BY <1>3, <2>3 DEF LeaseRow
  <2>11. q \in RunRow /\ q.step = "act" /\ q.mode = p.mode /\ q.w = w /\ q.token = lease[w].token + 1
    <3> DEFINE t == lease[w].token + 1
    <3>1. t \in Nat
      BY <2>3
    <3> HIDE DEF t
    <3>2. LET u == [p EXCEPT !.step = "act", !.now = now, !.token = t]
          IN  u \in RunRow /\ u.step = "act" /\ u.mode = p.mode /\ u.w = p.w /\ u.token = t
      BY Zenon, <1>1, <1>3, <3>1, RowClaimed
    <3> QED
      BY <3>2 DEF t
  <2> HIDE DEF new, q, b, k
  <2>12. RunLawful(q)
    BY <1>2, <2>3, <2>11 DEF RunLawful, Holding
  <2>13. RunsInv' /\ (Admitted' = Admitted \cup {r} \/ Admitted' = Admitted \ {r})
    BY <1>1, <2>5, <2>11, <2>12, RunnerMoves
  <2>14. lease' \in [Works -> LeaseRow] /\ lease'[w] = new
         /\ \A v \in Works \ {w} : lease'[v] = lease[v]
    BY <1>2, <2>2, <2>4, <2>10
  <2>15. GateTyped'
    BY <1>4, <2>2, <2>8, <2>9, <2>14 DEF GateTyped
  <2>16. GateCharged'
    <3> DEFINE old == [v \in Works |-> lease[v].token]
               upd == [v \in Works |-> lease'[v].token]
    <3>1. old \in [Works -> Nat] /\ upd \in [Works -> Nat]
      BY <2>2, <2>14 DEF LeaseRow
    <3>2. upd[w] = old[w] + 1 /\ \A v \in Works \ {w} : upd[v] = old[v]
      BY <1>2, <2>10, <2>14
    <3>3. GateCharged' <=> /\ budget'.generation = SumOver(upd, Works)
                           /\ budget'.active + budget'.generation = GateBudget.active
                           /\ budget'.backend + budget'.generation = GateBudget.backend
      BY DEF GateCharged, SumOver, SumFun, First, Rest
    <3>4. /\ budget.generation = SumOver(old, Works)
          /\ budget.active + budget.generation = GateBudget.active
          /\ budget.backend + budget.generation = GateBudget.backend
      BY <2>1 DEF GateInv, GateCharged
    <3> HIDE DEF old, upd
    <3>5. SumOver(upd, Works) = SumOver(old, Works) + 1
      BY <1>2, <3>1, <3>2, SumOverBump, ClosedLoopAssumption
    <3>6. budget'.generation = SumOver(upd, Works)
      BY <2>8, <3>4, <3>5
    <3>7. /\ budget'.active + budget'.generation = GateBudget.active
          /\ budget'.backend + budget'.generation = GateBudget.backend
      <4> DEFINE x == budget.active
                 y == budget.backend
                 z == budget.generation
      <4>1. x \in Nat /\ y \in Nat /\ z \in Nat
        BY <2>2
      <4>2. x + z = GateBudget.active /\ y + z = GateBudget.backend
        BY <3>4
      <4>3. budget'.active = x - 1 /\ budget'.backend = y - 1 /\ budget'.generation = z + 1
        BY <2>8
      <4> HIDE DEF x, y, z
      <4>4. (x - 1) + (z + 1) = x + z /\ (y - 1) + (z + 1) = y + z
        BY <4>1
      <4> QED
        BY <4>2, <4>3, <4>4
    <3> QED
      BY <3>3, <3>6, <3>7
  <2>17. ActsHeld'
    <3> DEFINE a == Cardinality(Admitted)
               c == Cardinality(Admitted')
    <3>1. a \in Nat /\ c \in Nat /\ c <= a + 1
      <4>1. Admitted \ {r} \subseteq Admitted
        OBVIOUS
      <4>2. Cardinality(Admitted \ {r}) \in Nat /\ Cardinality(Admitted \ {r}) <= a
        BY <4>1, AdmittedCounts
      <4>3. Cardinality(Admitted \cup {r}) \in Nat /\ Cardinality(Admitted \cup {r}) <= a + 1 /\ a \in Nat
        BY AdmittedCounts
      <4> DEFINE x == Cardinality(Admitted \ {r})
                 y == Cardinality(Admitted \cup {r})
      <4>4. c = x \/ c = y
        BY <2>13
      <4>5. x \in Nat /\ x <= a /\ y \in Nat /\ y <= a + 1 /\ a \in Nat
        BY <4>2, <4>3
      <4> HIDE DEF x, y, a, c
      <4> QED
        BY <4>4, <4>5
    <3>2. acts + a <= budget.generation
      BY <2>1 DEF GateInv, ActsHeld
    <3>3. ActsHeld' <=> acts' + c <= budget'.generation
      BY DEF ActsHeld
    <3> HIDE DEF a, c
    <3>4. acts + c <= budget.generation + 1
      BY <2>2, <3>1, <3>2
    <3> QED
      BY <1>4, <2>8, <3>3, <3>4
  <2>18. WorksLawful'
    <3>1. ASSUME NEW v \in Works PROVE WorkLawful(lease'[v], completed'[v])
      <4>1. WorkLawful(lease[v], completed[v])
        BY <2>1 DEF GateInv, WorksLawful
      <4>2. CASE v # w
        BY <1>4, <2>14, <4>1, <4>2
      <4>3. CASE v = w
        <5>1. ~lease[w].completed
          BY <2>3, <2>6, <4>1, <4>3 DEF WorkLawful
        <5>2. completed[w] = <<>>
          BY <4>1, <4>3, <5>1 DEF WorkLawful
        <5> QED
          BY <1>4, <2>10, <2>14, <4>3, <5>2 DEF WorkLawful
      <4> QED
        BY <4>2, <4>3
    <3> QED
      BY <3>1 DEF WorksLawful, WorkLawful
  <2>19. GateInv'
    BY <2>15, <2>16, <2>17, <2>18 DEF GateInv
  <2> QED
    BY <1>5, <2>13, <2>19 DEF ClInv
<1> QED
  BY <1>6, <1>7

\* complete's update: the newest token's work is completed, and only once.
LEMMA CompleteUpdateMoves ==
    ASSUME ClInv, NEW r \in Runners, CompleteUpdate(r)
    PROVE  ClInv'
<1> DEFINE w == runner[r].w
           old == lease[w]
           new == [old EXCEPT !.completed = TRUE]
           done == Append(completed[w], runner[r].token)
<1>1. runner[r] \in RunRow /\ RunLawful(runner[r]) /\ RunsInv
  BY DEF ClInv, RunsInv, RunsTyped, RunsLawful
<1>2. runner[r].step = "update" /\ w \in Works /\ runner[r].token > 0 /\ runner[r].token \in Nat
  BY <1>1 DEF CompleteUpdate, RunLawful, RunRow
<1>3. RunsInv' /\ Admitted' = Admitted \ {r}
  <2>1. Goes(r, "idle") \/ Goes(r, "start")
    BY Zenon DEF CompleteUpdate, AfterGate
  <2>2. "idle" \in RunSteps /\ "start" \in RunSteps
    BY DEF RunSteps
  <2>3. ASSUME NEW g \in {"idle", "start"}, Goes(r, g)
        PROVE  RunsInv' /\ Admitted' = Admitted \ {r}
    BY <1>1, <1>2, <2>2, <2>3, RunnerGoes
  <2> QED
    BY <2>1, <2>3
<1>4. /\ UNCHANGED <<cycle, reviewer>> /\ UNCHANGED learnVars /\ meaning' = meaning
      /\ budget' = budget /\ acts' = acts
  BY DEF CompleteUpdate
<1>5. CycleInv' /\ UsesInv' /\ MeaningTyped'
  BY <1>4, CycleStays, UsesStay DEF ClInv, MeaningTyped
<1>6. CASE ~UpdateMatches(r)
  <2>1. UNCHANGED gateVars
    BY <1>4, <1>6 DEF CompleteUpdate, gateVars
  <2>2. GateInv'
    BY <1>3, <2>1, GateStays DEF ClInv
  <2> QED
    BY <1>3, <1>5, <2>2 DEF ClInv
<1>7. CASE UpdateMatches(r)
  <2>1. GateInv
    BY DEF ClInv
  <2>2. /\ lease \in [Works -> LeaseRow] /\ completed \in [Works -> Seq(Nat)]
        /\ acts \in Nat /\ budget.generation \in Nat
        /\ budget \in [active : Nat, retries : Nat, backend : Nat, generation : Nat]
    BY <2>1 DEF GateInv, GateTyped
  <2>3. lease' = [lease EXCEPT ![w] = new] /\ completed' = [completed EXCEPT ![w] = done]
    <3>1. /\ lease' = [lease EXCEPT ![runner[r].w].completed = TRUE]
          /\ completed' = [completed EXCEPT ![runner[r].w] = Append(completed[runner[r].w], runner[r].token)]
      BY <1>7 DEF CompleteUpdate
    <3> QED
      BY <2>2, <3>1
  <2>4. ~old.completed /\ old.token = runner[r].token
    BY <1>7 DEF UpdateMatches, Holds
  <2>5. old \in LeaseRow /\ completed[w] \in Seq(Nat)
    BY <1>2, <2>2
  <2>6. WorkLawful(old, completed[w])
    BY <1>2, <2>1 DEF GateInv, WorksLawful
  <2>7. completed[w] = <<>>
    BY <2>4, <2>6 DEF WorkLawful
  <2>8. done = <<old.token>> /\ done \in Seq(Nat)
    BY <1>2, <2>4, <2>7
  <2>9. new \in LeaseRow /\ new.token = old.token /\ new.completed
    BY <2>5 DEF LeaseRow
  <2> HIDE DEF old, new, done
  <2>10. /\ lease' \in [Works -> LeaseRow] /\ lease'[w] = new
         /\ completed' \in [Works -> Seq(Nat)] /\ completed'[w] = done
         /\ \A v \in Works \ {w} : lease'[v] = lease[v] /\ completed'[v] = completed[v]
    BY <1>2, <2>2, <2>3, <2>8, <2>9
  <2>11. GateTyped'
    BY <1>4, <2>2, <2>10 DEF GateTyped
  <2>12. GateCharged'
    <3>1. \A v \in Works : lease'[v].token = lease[v].token
      BY <2>9, <2>10 DEF old
    <3>2. [v \in Works |-> lease'[v].token] = [v \in Works |-> lease[v].token]
      BY <3>1
    <3>3. GateCharged' <=> /\ budget'.generation = SumOver([v \in Works |-> lease'[v].token], Works)
                           /\ budget'.active + budget'.generation = GateBudget.active
                           /\ budget'.backend + budget'.generation = GateBudget.backend
      BY DEF GateCharged, SumOver, SumFun, First, Rest
    <3>4. /\ budget.generation = SumOver([v \in Works |-> lease[v].token], Works)
          /\ budget.active + budget.generation = GateBudget.active
          /\ budget.backend + budget.generation = GateBudget.backend
      BY <2>1 DEF GateInv, GateCharged
    <3> QED
      BY <1>4, <3>2, <3>3, <3>4
  <2>13. ActsHeld'
    <3> DEFINE a == Cardinality(Admitted)
               b == Cardinality(Admitted')
    <3>1. a \in Nat /\ b \in Nat /\ b <= a
      BY <1>3, AdmittedCounts
    <3>2. acts + a <= budget.generation
      BY <2>1 DEF GateInv, ActsHeld
    <3>3. ActsHeld' <=> acts' + b <= budget'.generation
      BY DEF ActsHeld
    <3> HIDE DEF a, b
    <3>4. acts + b <= budget.generation
      BY <2>2, <3>1, <3>2
    <3> QED
      BY <1>4, <3>3, <3>4
  <2>14. WorksLawful'
    <3>1. ASSUME NEW v \in Works PROVE WorkLawful(lease'[v], completed'[v])
      <4>1. CASE v # w
        <5>1. WorkLawful(lease[v], completed[v])
          BY <2>1 DEF GateInv, WorksLawful
        <5> QED
          BY <2>10, <4>1, <5>1
      <4>2. CASE v = w
        <5>1. old.token # 0
          BY <1>2, <2>4
        <5> QED
          BY <2>8, <2>9, <2>10, <4>2, <5>1 DEF WorkLawful
      <4> QED
        BY <4>1, <4>2
    <3> QED
      BY <3>1 DEF WorksLawful, WorkLawful
  <2>15. GateInv'
    BY <2>11, <2>12, <2>13, <2>14 DEF GateInv
  <2> QED
    BY <1>3, <1>5, <2>15 DEF ClInv
<1> QED
  BY <1>6, <1>7

\* act: an act under an admission uses it up.
LEMMA ActMoves ==
    ASSUME ClInv, NEW r \in Runners, NEW ok \in BOOLEAN, Act(r, ok)
    PROVE  ClInv'
<1> DEFINE p == runner[r]
           gated == p.mode \in {"bounded", "host"}
           goes(g) == runner' = [runner EXCEPT ![r] = [@ EXCEPT !.ok = ok, !.step = g]]
<1>1. p \in RunRow /\ RunLawful(p) /\ RunsInv /\ IdleRun \in RunRow /\ RunLawful(IdleRun)
      /\ ~Holding(IdleRun)
  <2>1. p \in RunRow /\ RunLawful(p) /\ RunsInv
    BY DEF ClInv, RunsInv, RunsTyped, RunsLawful
  <2>2. "idle" \in RunSteps
    BY DEF RunSteps
  <2> QED
    BY <2>1, <2>2, RowMoved
<1>2. p.step = "act"
  BY DEF Act
<1>3. \/ ~gated /\ runner' = [runner EXCEPT ![r] = IdleRun]
      \/ \E g \in {"check", "state", "start"} : (gated <=> g = "check") /\ goes(g)
  <2>1. CASE gated
    <3>1. goes("check")
      BY Zenon, <2>1 DEF Act
    <3> HIDE DEF goes
    <3> QED
      BY <2>1, <3>1
  <2>2. CASE ~gated /\ p.mode = "learning" /\ ~ok
    <3>1. goes("state")
      BY Zenon, <2>2 DEF Act
    <3> HIDE DEF goes
    <3> QED
      BY <2>2, <3>1
  <2>3. CASE ~gated /\ ok
    <3>1. runner' = [runner EXCEPT ![r] = IdleRun]
      BY Zenon, <2>3 DEF Act
    <3> QED
      BY <2>3, <3>1
  <2>4. CASE ~gated /\ ~(p.mode = "learning" /\ ~ok) /\ ~ok
    <3>1. goes("start")
      BY Zenon, <2>4 DEF Act
    <3> HIDE DEF goes
    <3> QED
      BY <2>4, <3>1
  <2> HIDE DEF goes
  <2> QED
    BY <2>1, <2>2, <2>3, <2>4
<1>4. RunsInv' /\ Admitted' = Admitted \ {r}
  <2>1. CASE runner' = [runner EXCEPT ![r] = IdleRun]
    BY <1>1, <2>1, RunnerMoves
  <2>2. ASSUME NEW g \in {"check", "state", "start"}, gated <=> g = "check", goes(g)
        PROVE  RunsInv' /\ Admitted' = Admitted \ {r}
    <3> DEFINE q == [p EXCEPT !.ok = ok, !.step = g]
    <3>1. q \in RunRow /\ q.step = g /\ q.mode = p.mode /\ q.w = p.w /\ q.token = p.token
      BY <1>1 DEF RunRow, RunSteps
    <3>2. runner' = [runner EXCEPT ![r] = q]
      BY <2>2
    <3> HIDE DEF q
    <3>3. RunLawful(q) /\ ~Holding(q)
      BY <1>1, <1>2, <2>2, <3>1 DEF RunLawful, Holding
    <3> QED
      BY <1>1, <3>1, <3>2, <3>3, RunnerMoves
  <2> HIDE DEF goes
  <2> QED
    BY <1>3, <2>1, <2>2
<1>5. /\ UNCHANGED <<cycle, reviewer>> /\ UNCHANGED learnVars /\ meaning' = meaning
      /\ budget' = budget /\ lease' = lease /\ completed' = completed
      /\ acts' = IF gated THEN acts + 1 ELSE acts
  BY DEF Act
<1>6. CycleInv' /\ UsesInv' /\ MeaningTyped'
  BY <1>5, CycleStays, UsesStay DEF ClInv, MeaningTyped
<1>7. GateInv
  BY DEF ClInv
<1>8. acts \in Nat /\ budget.generation \in Nat /\ acts + Cardinality(Admitted) <= budget.generation
  BY <1>7 DEF GateInv, GateTyped, ActsHeld
<1>9. GateTyped'
  BY <1>5, <1>7, <1>8 DEF GateInv, GateTyped
<1>10. GateCharged' /\ WorksLawful'
  BY <1>5, <1>7 DEF GateInv, GateCharged, WorksLawful, WorkLawful, SumOver, SumFun, First, Rest
<1>11. ActsHeld'
  <2> DEFINE a == Cardinality(Admitted)
             b == Cardinality(Admitted')
  <2>1. a \in Nat /\ b \in Nat /\ b <= a
    BY <1>4, AdmittedCounts
  <2>2. gated => b = a - 1
    <3>1. gated => r \in Admitted
      BY <1>2 DEF Admitted, Holding
    <3> QED
      BY <1>4, <3>1, AdmittedCounts
  <2>3. ActsHeld' <=> acts' + b <= budget'.generation
    BY DEF ActsHeld
  <2>4. acts + a <= budget.generation
    BY <1>8
  <2> HIDE DEF a, b, gated
  <2>5. acts' + b <= budget.generation
    BY <1>5, <1>8, <2>1, <2>2, <2>4
  <2> QED
    BY <1>5, <2>3, <2>5
<1> QED
  BY <1>4, <1>6, <1>9, <1>10, <1>11 DEF ClInv, GateInv

\* start: the first stage of a correction that has none.
LEMMA CorrectionStartMoves ==
    ASSUME ClInv, NEW r \in Runners, CorrectionStart(r)
    PROVE  ClInv'
<1> DEFINE w == runner[r].w
<1>1. RunsInv /\ RunLawful(runner[r]) /\ runner[r].step = "start" /\ Ends(r)
  BY DEF ClInv, RunsInv, RunsLawful, CorrectionStart
<1>2. RunsInv' /\ Admitted' = Admitted \ {r}
  <2>1. "idle" \in RunSteps
    BY DEF RunSteps
  <2> QED
    BY <1>1, <2>1, RunnerGoes
<1>3. /\ UNCHANGED gateVars /\ UNCHANGED learnVars /\ meaning' = meaning /\ reviewer' = reviewer
      /\ cycle' = IF cycle[w] = <<>> THEN [cycle EXCEPT ![w] = <<1>>] ELSE cycle
  BY DEF CorrectionStart
<1>4. GateInv'
  BY <1>2, <1>3, GateStays DEF ClInv
<1>5. UsesInv' /\ MeaningTyped'
  BY <1>3, UsesStay DEF ClInv, MeaningTyped
<1>6. CycleInv'
  <2>1. CycleInv
    BY DEF ClInv
  <2>2. CASE cycle[w] # <<>>
    <3>1. cycle' = cycle
      BY <1>3, <2>2
    <3> QED
      BY <1>3, <2>1, <3>1, CycleStays
  <2>3. CASE cycle[w] = <<>>
    <3>1. w \in Works
      BY <1>1 DEF RunLawful
    <3> DEFINE one == <<1>>
    <3>2. one \in Seq(Nat) /\ Len(one) = 1 /\ one[1] = 1 /\ Len(<<>>) = 0
      OBVIOUS
    <3>3. StagesLawful(one)
      <4>1. \A n \in 1..1 : n = 1
        OBVIOUS
      <4> QED
        BY <3>2, <4>1 DEF StagesLawful, CorrectiveStages
    <3> HIDE DEF one
    <3>4. cycle' = [cycle EXCEPT ![w] = one] /\ cycle \in [Works -> Seq(Nat)]
      BY <1>3, <2>1, <2>3 DEF CycleInv, CycleTyped, one
    <3>5. /\ cycle' \in [Works -> Seq(Nat)] /\ cycle'[w] = one
          /\ \A v \in Works \ {w} : cycle'[v] = cycle[v]
      BY <3>1, <3>2, <3>4
    <3>6. CycleTyped' /\ CyclesLawful'
      BY <1>3, <2>1, <3>3, <3>5 DEF CycleInv, CycleTyped, CyclesLawful, StagesLawful
    <3>7. \A v \in Works : Len(cycle[v]) \in Nat /\ Len(cycle'[v]) >= Len(cycle[v])
      <4>1. \A v \in Works : Len(cycle[v]) \in Nat
        BY <3>4
      <4> QED
        BY <2>3, <3>2, <3>5, <4>1
    <3>8. ASSUME NEW q \in Reviewers PROVE ReadLawful(reviewer[q])'
      <4>1. ReadLawful(reviewer[q])
        BY <2>1 DEF CycleInv, ReviewersLawful
      <4>2. CASE reviewer[q].stage > 0
        <5>1. /\ reviewer[q].w \in Works /\ reviewer[q].stage <= CorrectiveStages
              /\ reviewer[q].stage <= Len(cycle[reviewer[q].w]) + 1
          BY <4>1, <4>2 DEF ReadLawful
        <5>2. reviewer[q].stage \in Nat
          BY <2>1 DEF CycleInv, CycleTyped, ReviewerRow
        <5> DEFINE a == Len(cycle[reviewer[q].w])
                   b == Len(cycle'[reviewer[q].w])
                   s == reviewer[q].stage
        <5>3. a \in Nat /\ b >= a /\ s <= a + 1 /\ s \in Nat
          BY <3>7, <5>1, <5>2
        <5>4. b \in Nat
          BY <3>5, <5>1
        <5> HIDE DEF a, b, s
        <5>5. s <= b + 1
          BY <5>3, <5>4
        <5> QED
          BY <1>3, <5>1, <5>5 DEF ReadLawful, b, s
      <4>3. CASE ~(reviewer[q].stage > 0)
        BY <1>3, <4>3 DEF ReadLawful
      <4> QED
        BY <4>2, <4>3
    <3>9. ReviewersLawful'
      BY <3>8 DEF ReviewersLawful
    <3> QED
      BY <3>6, <3>9 DEF CycleInv
  <2> QED
    BY <2>2, <2>3
<1> QED
  BY <1>2, <1>4, <1>5, <1>6 DEF ClInv

\* advance: read in one step, appended in another.
LEMMA AdvanceMoves ==
    ASSUME ClInv, NEW q \in Reviewers, AdvanceAppend(q) \/ \E w \in Works : AdvanceRead(q, w)
    PROVE  ClInv'
<1>1. /\ UNCHANGED gateVars /\ UNCHANGED learnVars /\ meaning' = meaning /\ runner' = runner
  BY DEF AdvanceRead, AdvanceAppend
<1>2. RunsInv' /\ Admitted' = Admitted
  BY <1>1 DEF ClInv, RunsInv, RunsTyped, RunsLawful, RunLawful, Holding, Admitted
<1>3. GateInv'
  <2>1. CASE Runners = {}
    <3>1. budget' = budget /\ lease' = lease /\ completed' = completed /\ acts' = acts
      BY <1>1 DEF gateVars
    <3> QED
      BY <1>2, <3>1 DEF ClInv, GateInv, GateTyped, GateCharged, ActsHeld, WorksLawful, WorkLawful,
                        SumOver, SumFun, First, Rest
  <2>2. CASE Runners # {}
    <3>1. PICK r \in Runners : TRUE
      BY <2>2
    <3> QED
      BY <1>1, <1>2, <3>1, GateStays DEF ClInv
  <2> QED
    BY <2>1, <2>2
<1>4. UsesInv' /\ MeaningTyped'
  BY <1>1, UsesStay DEF ClInv, MeaningTyped
<1>5. CycleInv
  BY DEF ClInv
<1>6. /\ cycle \in [Works -> Seq(Nat)] /\ reviewer \in [Reviewers -> ReviewerRow]
      /\ \A v \in Works : StagesLawful(cycle[v]) /\ Len(cycle[v]) \in Nat
      /\ \A p \in Reviewers : ReadLawful(reviewer[p])
  BY <1>5 DEF CycleInv, CycleTyped, CyclesLawful, ReviewersLawful
<1>7. CASE \E w \in Works : AdvanceRead(q, w)
  <2>1. PICK w \in Works : AdvanceRead(q, w)
    BY <1>7
  <2> DEFINE row == [w |-> w, stage |-> Len(cycle[w]) + 1]
  <2>2. reviewer' = [reviewer EXCEPT ![q] = row] /\ cycle' = cycle
        /\ Len(cycle[w]) \in 1..(CorrectiveStages - 1)
    BY <2>1 DEF AdvanceRead
  <2>3. row \in ReviewerRow /\ row.w = w /\ row.stage = Len(cycle[w]) + 1
    BY <1>6 DEF ReviewerRow
  <2>4. ReadLawful(row)
    <3>1. row.stage <= CorrectiveStages /\ row.stage <= Len(cycle[w]) + 1
      <4> DEFINE n == Len(cycle[w])
      <4>1. n \in 1..5 /\ row.stage = n + 1
        BY <2>2, <2>3 DEF CorrectiveStages
      <4> HIDE DEF n, row
      <4>2. row.stage <= 6 /\ row.stage <= n + 1
        BY <4>1
      <4> QED
        BY <4>2 DEF CorrectiveStages, n
    <3> QED
      BY <2>3, <3>1 DEF ReadLawful
  <2> HIDE DEF row
  <2>5. reviewer' \in [Reviewers -> ReviewerRow] /\ \A p \in Reviewers : ReadLawful(reviewer'[p])
    BY <1>6, <2>2, <2>3, <2>4
  <2>6. CycleTyped' /\ CyclesLawful' /\ ReviewersLawful'
    BY <1>6, <2>2, <2>5 DEF CycleTyped, CyclesLawful, ReviewersLawful, ReadLawful, StagesLawful
  <2> QED
    BY <1>2, <1>3, <1>4, <2>6 DEF ClInv, CycleInv
<1>8. CASE AdvanceAppend(q)
  <2> DEFINE w == reviewer[q].w
             s == reviewer[q].stage
             row == [w |-> w, stage |-> 0]
  <2>1. /\ s > 0 /\ reviewer' = [reviewer EXCEPT ![q] = row]
        /\ cycle' = IF Insertable(w, s) THEN [cycle EXCEPT ![w] = Append(cycle[w], s)] ELSE cycle
    BY <1>8 DEF AdvanceAppend
  <2>2. w \in Works /\ s <= CorrectiveStages /\ s <= Len(cycle[w]) + 1 /\ s \in Nat
    BY <1>6, <2>1 DEF ReadLawful, ReviewerRow
  <2>3. row \in ReviewerRow /\ row.stage = 0
    BY <2>2 DEF ReviewerRow
  <2> HIDE DEF row
  <2>4. /\ reviewer' \in [Reviewers -> ReviewerRow] /\ reviewer'[q].stage = 0
        /\ \A p \in Reviewers : p # q => reviewer'[p] = reviewer[p]
    BY <1>6, <2>1, <2>3
  <2> DEFINE old == cycle[w]
             new == Append(old, s)
  <2>5. old \in Seq(Nat) /\ Len(old) \in Nat /\ StagesLawful(old)
    BY <1>6, <2>2
  <2>6. /\ cycle' \in [Works -> Seq(Nat)]
        /\ \A v \in Works : /\ StagesLawful(cycle'[v])
                            /\ Len(cycle'[v]) \in Nat /\ Len(cycle'[v]) >= Len(cycle[v])
    <3>1. CASE ~Insertable(w, s)
      BY <1>6, <2>1, <3>1
    <3>2. CASE Insertable(w, s)
      <4>1. \A n \in 1..Len(old) : old[n] # s
        BY <3>2 DEF Insertable
      <4>2. cycle' = [cycle EXCEPT ![w] = new]
        BY <2>1, <3>2
      <4>3. s = Len(old) + 1
        <5>1. \A n \in 1..Len(old) : old[n] = n
          BY <2>5 DEF StagesLawful
        <5>2. s \notin 1..Len(old)
          BY <4>1, <5>1
        <5>3. s > 0 /\ s \in Nat /\ Len(old) \in Nat /\ s <= Len(old) + 1
          BY <2>1, <2>2, <2>5
        <5> HIDE DEF old, s
        <5> QED
          BY <5>2, <5>3
      <4>4. /\ new \in Seq(Nat) /\ Len(new) = Len(old) + 1
            /\ \A n \in 1..Len(old) : new[n] = old[n]
            /\ new[Len(old) + 1] = s
        BY <2>2, <2>5
      <4> HIDE DEF new, old, w, s
      <4>5. StagesLawful(new)
        <5>1. Len(new) <= CorrectiveStages
          BY <2>2, <4>3, <4>4
        <5>2. ASSUME NEW n \in 1..Len(new) PROVE new[n] = n
          <6>1. n \in 1..Len(old) \/ n = Len(old) + 1
            BY <2>5, <4>4
          <6> QED
            BY <2>5, <4>3, <4>4, <6>1 DEF StagesLawful
        <5> QED
          BY <5>1, <5>2 DEF StagesLawful
      <4>6. /\ cycle' \in [Works -> Seq(Nat)] /\ cycle'[w] = new
            /\ \A v \in Works \ {w} : cycle'[v] = cycle[v]
        BY <1>6, <2>2, <4>2, <4>4
      <4>7. Len(cycle[w]) = Len(old)
        BY DEF old
      <4>8. Len(new) \in Nat /\ Len(new) >= Len(old)
        BY <2>5, <4>4
      <4>9. ASSUME NEW v \in Works
            PROVE  /\ StagesLawful(cycle'[v])
                   /\ Len(cycle'[v]) \in Nat /\ Len(cycle'[v]) >= Len(cycle[v])
        <5>1. CASE v = w
          BY <4>5, <4>6, <4>7, <4>8, <5>1
        <5>2. CASE v # w
          BY <1>6, <4>6, <5>2
        <5> QED
          BY <5>1, <5>2
      <4> QED
        BY <4>6, <4>9
    <3> QED
      BY <3>1, <3>2
  <2>7. ASSUME NEW p \in Reviewers PROVE ReadLawful(reviewer[p])'
    <3>1. CASE p = q
      BY <2>4, <3>1 DEF ReadLawful
    <3>2. CASE p # q
      <4>1. reviewer'[p] = reviewer[p] /\ ReadLawful(reviewer[p])
        BY <1>6, <2>4, <3>2
      <4>2. CASE reviewer[p].stage > 0
        <5> DEFINE a == Len(cycle[reviewer[p].w])
                   b == Len(cycle'[reviewer[p].w])
                   t == reviewer[p].stage
        <5>1. reviewer[p].w \in Works /\ t <= CorrectiveStages /\ t <= a + 1
          BY <4>1, <4>2 DEF ReadLawful
        <5>2. t \in Nat
          BY <1>6 DEF ReviewerRow
        <5>3. a \in Nat /\ b \in Nat /\ b >= a
          BY <1>6, <2>6, <5>1
        <5> HIDE DEF a, b, t
        <5>4. t <= b + 1
          BY <5>1, <5>2, <5>3
        <5> QED
          BY <4>1, <5>1, <5>4 DEF ReadLawful, b, t
      <4>3. CASE ~(reviewer[p].stage > 0)
        BY <4>1, <4>3 DEF ReadLawful
      <4> QED
        BY <4>2, <4>3
    <3> QED
      BY <3>1, <3>2
  <2>8. CycleTyped' /\ CyclesLawful'
    BY <2>4, <2>6 DEF CycleTyped, CyclesLawful, StagesLawful
  <2>9. ReviewersLawful'
    BY <2>7 DEF ReviewersLawful
  <2> QED
    BY <1>2, <1>3, <1>4, <2>8, <2>9 DEF ClInv, CycleInv
<1> QED
  BY <1>7, <1>8

UsesOnFile(uses, V, X, file) ==
    /\ uses \in [V -> [X -> Nat]]
    /\ \A y \in V : \A z \in X : uses[y][z] <= 1 /\ (uses[y][z] > 0 => <<y, z>> \in file)

\* One more use of one thing in a table of uses.
LEMMA UseCounted ==
    ASSUME NEW V, NEW X, NEW uses, NEW old, UsesOnFile(uses, V, X, old),
           NEW v \in V, NEW x \in X, NEW file, old \subseteq file,
           <<v, x>> \notin old, <<v, x>> \in file
    PROVE  UsesOnFile([uses EXCEPT ![v][x] = @ + 1], V, X, file)
<1> DEFINE more == [uses EXCEPT ![v][x] = @ + 1]
<1>0. /\ uses \in [V -> [X -> Nat]]
      /\ \A y \in V : \A z \in X : uses[y][z] <= 1 /\ (uses[y][z] > 0 => <<y, z>> \in old)
  BY DEF UsesOnFile
<1> DEFINE row == [uses[v] EXCEPT ![x] = uses[v][x] + 1]
<1>1. uses[v] \in [X -> Nat] /\ uses[v][x] \in Nat
  BY <1>0
<1>2. more = [uses EXCEPT ![v] = row]
  BY <1>0
<1>3. row \in [X -> Nat] /\ row[x] = uses[v][x] + 1 /\ \A z \in X \ {x} : row[z] = uses[v][z]
  BY <1>1
<1>4. uses[v][x] = 0
  BY <1>0, <1>1
<1> HIDE DEF row, more
<1>5. more \in [V -> [X -> Nat]] /\ more[v] = row /\ \A y \in V \ {v} : more[y] = uses[y]
  BY <1>0, <1>2, <1>3
<1>6. ASSUME NEW y \in V, NEW z \in X
      PROVE  more[y][z] <= 1 /\ (more[y][z] > 0 => <<y, z>> \in file)
  <2>1. CASE y = v /\ z = x
    BY <1>0, <1>3, <1>4, <1>5, <2>1
  <2>2. CASE y = v /\ z # x
    BY <1>0, <1>3, <1>5, <2>2
  <2>3. CASE y # v
    BY <1>0, <1>5, <2>3
  <2> QED
    BY <2>1, <2>2, <2>3
<1>7. UsesOnFile(more, V, X, file)
  BY <1>5, <1>6 DEF UsesOnFile
<1> QED
  BY <1>7 DEF more

\* consume: a cue and a piece of evidence are used once.
LEMMA ConsumeMoves ==
    ASSUME ClInv, NEW r \in Runners, NEW v \in LearnedRevs, NEW c \in CueEvents,
           NEW i \in EvidenceIds \cup {"none"}, ConsumeInfluence(r, v, c, i)
    PROVE  ClInv'
<1>1. RunsInv /\ RunLawful(runner[r]) /\ runner[r].step = "consume"
  BY DEF ClInv, RunsInv, RunsLawful, ConsumeInfluence
<1>2. RunsInv' /\ Admitted' = Admitted \ {r}
  <2>1. "idle" \in RunSteps /\ "admit" \in RunSteps /\ runner[r].mode # "host"
    BY <1>1 DEF RunSteps, RunLawful
  <2>2. Goes(r, "admit") \/ Ends(r)
    BY Zenon DEF ConsumeInfluence
  <2>3. CASE Goes(r, "admit")
    BY <1>1, <2>1, <2>3, RunnerGoes
  <2>4. CASE Ends(r)
    BY <1>1, <2>1, <2>4, RunnerGoes
  <2> QED
    BY <2>2, <2>3, <2>4
<1>3. /\ UNCHANGED gateVars /\ UNCHANGED <<cycle, reviewer>> /\ meaning' = meaning
      /\ review' = review
  BY DEF ConsumeInfluence
<1>4. GateInv' /\ CycleInv' /\ MeaningTyped'
  BY <1>2, <1>3, GateStays, CycleStays DEF ClInv, MeaningTyped
<1>5. UsesInv
  BY DEF ClInv
<1>6. /\ UsesOnFile(cueUses, LearnedRevs, CueEvents, consumed)
      /\ UsesOnFile(evUses, LearnedRevs, EvidenceIds, consumed)
  BY <1>5 DEF UsesInv, UsesTyped, UsesLawful, UsesOnFile
<1>7. CASE ~Consumable(v, c, i)
  <2>1. UNCHANGED learnVars
    BY <1>3, <1>7 DEF ConsumeInfluence, learnVars
  <2> QED
    BY <1>2, <1>4, <1>5, <2>1, UsesStay DEF ClInv
<1>8. CASE Consumable(v, c, i)
  <2>1. /\ consumed \subseteq consumed' /\ <<v, c>> \in consumed'
        /\ i # "none" => <<v, i>> \in consumed'
        /\ cueUses' = [cueUses EXCEPT ![v][c] = @ + 1]
        /\ evUses' = IF i = "none" THEN evUses ELSE [evUses EXCEPT ![v][i] = @ + 1]
    BY <1>8 DEF ConsumeInfluence
  <2>2. <<v, c>> \notin consumed /\ (i # "none" => <<v, i>> \notin consumed)
    BY <1>8 DEF Consumable
  <2>3. UsesOnFile(cueUses', LearnedRevs, CueEvents, consumed')
    BY <1>6, <2>1, <2>2, UseCounted
  <2>4. UsesOnFile(evUses', LearnedRevs, EvidenceIds, consumed')
    <3>1. CASE i = "none"
      BY <1>6, <2>1, <3>1 DEF UsesOnFile
    <3>2. CASE i # "none"
      <4>1. i \in EvidenceIds /\ evUses' = [evUses EXCEPT ![v][i] = @ + 1]
        BY <2>1, <3>2
      <4>2. consumed \subseteq consumed' /\ <<v, i>> \notin consumed /\ <<v, i>> \in consumed'
        BY <2>1, <2>2, <3>2
      <4>3. UsesOnFile(evUses, LearnedRevs, EvidenceIds, consumed)
        BY <1>6
      <4> DEFINE more == [evUses EXCEPT ![v][i] = @ + 1]
      <4>4. UsesOnFile(more, LearnedRevs, EvidenceIds, consumed')
        BY <4>1, <4>2, <4>3, UseCounted
      <4>5. evUses' = more
        BY <4>1
      <4> HIDE DEF more
      <4> QED
        BY <4>4, <4>5
    <3> QED
      BY <3>1, <3>2
  <2>5. UsesInv'
    BY <1>3, <1>5, <2>3, <2>4 DEF UsesInv, UsesTyped, UsesLawful, UsesOnFile
  <2> QED
    BY <1>2, <1>4, <2>5 DEF ClInv
<1> QED
  BY <1>7, <1>8

\* review: what was consumed stays consumed.
LEMMA ReviewMoves ==
    ASSUME ClInv, NEW v \in LearnedRevs, NEW admitted \in BOOLEAN, NEW bound \in SUBSET EvidenceIds,
           ReviewLearning(v, admitted, bound)
    PROVE  ClInv'
<1> DEFINE row == [rev |-> v, admitted |-> admitted, bound |-> bound]
<1>1. /\ budget' = budget /\ lease' = lease /\ completed' = completed /\ acts' = acts
      /\ UNCHANGED <<cycle, reviewer>> /\ meaning' = meaning /\ runner' = runner
      /\ cueUses' = cueUses /\ evUses' = evUses /\ consumed' = consumed
      /\ review' = row
  BY DEF ReviewLearning, gateVars
<1>2. row \in [rev : LearnedRevs \cup {"none"}, admitted : BOOLEAN, bound : SUBSET EvidenceIds]
  OBVIOUS
<1> HIDE DEF row
<1>3. UsesInv'
  BY <1>1, <1>2 DEF ClInv, UsesInv, UsesTyped, UsesLawful
<1>4. RunsInv' /\ Admitted' = Admitted
  BY <1>1 DEF ClInv, RunsInv, RunsTyped, RunsLawful, RunLawful, Holding, Admitted
<1>5. GateInv'
  BY <1>1, <1>4 DEF ClInv, GateInv, GateTyped, GateCharged, ActsHeld, WorksLawful, WorkLawful,
                    SumOver, SumFun, First, Rest
<1>6. CycleInv' /\ MeaningTyped'
  BY <1>1, CycleStays DEF ClInv, MeaningTyped
<1> QED
  BY <1>3, <1>4, <1>5, <1>6 DEF ClInv

LEMMA ClInitLawful == ClInit => ClInv
<1> SUFFICES ASSUME ClInit PROVE ClInv
  OBVIOUS
<1> DEFINE l0 == [holder |-> "none", token |-> 0, expires |-> 0, completed |-> FALSE]
           q0 == [w |-> "none", stage |-> 0]
           b0 == [active |-> GateBudget.active, retries |-> GateBudget.retries,
                  backend |-> GateBudget.backend, generation |-> 0]
<1>1. /\ IdleRun.step = "idle" /\ IdleRun.mode = "plain"
      /\ IdleRun \in RunRow
  <2>1. TRUE \in BOOLEAN /\ FALSE \in BOOLEAN
    OBVIOUS
  <2>2. "plain" \in Modes /\ "idle" \in RunSteps /\ "none" \in Works \cup {"none"} /\ 0 \in Nat
    BY DEF Modes, RunSteps
  <2> QED
    BY Zenon, <2>1, <2>2 DEF IdleRun, RunRow
<1>2. l0 \in LeaseRow /\ l0.token = 0 /\ ~l0.completed /\ q0 \in ReviewerRow /\ q0.stage = 0
  BY DEF LeaseRow, ReviewerRow
<1>3. b0 \in [active : Nat, retries : Nat, backend : Nat, generation : Nat]
      /\ b0.generation = 0 /\ b0.active = GateBudget.active /\ b0.backend = GateBudget.backend
  BY ClosedLoopAssumption
<1>3a. GateBudget.active \in Nat /\ GateBudget.backend \in Nat
  BY ClosedLoopAssumption
<1>4. /\ budget = b0 /\ lease = [w \in Works |-> l0] /\ completed = [w \in Works |-> <<>>] /\ acts = 0
      /\ cycle = [w \in Works |-> <<>>] /\ runner = [r \in Runners |-> IdleRun]
      /\ reviewer = [q \in Reviewers |-> q0]
  BY DEF ClInit
<1> HIDE DEF l0, q0, b0
<1>5. RunsInv /\ Admitted = {}
  BY <1>1, <1>4 DEF RunsInv, RunsTyped, RunsLawful, RunLawful, Holding, Admitted
<1>6. <<>> \in Seq(Nat) /\ Len(<<>>) = 0 /\ 1..0 = {}
  OBVIOUS
<1>7. GateTyped
  BY <1>2, <1>3, <1>4, <1>6 DEF GateTyped
<1>8. GateCharged
  <2> DEFINE t == [w \in Works |-> lease[w].token]
  <2>1. t \in [Works -> Nat] /\ \A w \in Works : t[w] = 0
    BY <1>2, <1>4
  <2> HIDE DEF t
  <2>2. SumOver(t, Works) = 0
    BY <2>1, SumOverZero, ClosedLoopAssumption
  <2> QED
    BY <1>3, <1>3a, <1>4, <2>2 DEF GateCharged, t
<1>9. ActsHeld
  <2>1. Cardinality({}) = 0
    BY FS_EmptySet
  <2> QED
    BY <1>3, <1>4, <1>5, <2>1 DEF ActsHeld
<1>10. WorksLawful
  BY <1>2, <1>4 DEF WorksLawful, WorkLawful
<1>11. CycleInv
  BY <1>2, <1>4, <1>6 DEF CycleInv, CycleTyped, CyclesLawful, ReviewersLawful, StagesLawful,
                         ReadLawful, CorrectiveStages
<1>12. UsesInv
  <2>1. NoReview \in [rev : LearnedRevs \cup {"none"}, admitted : BOOLEAN, bound : SUBSET EvidenceIds]
    BY DEF NoReview
  <2>2. /\ review = NoReview /\ cueUses = [v \in LearnedRevs |-> [c \in CueEvents |-> 0]]
        /\ evUses = [v \in LearnedRevs |-> [i \in EvidenceIds |-> 0]]
    BY DEF ClInit
  <2> QED
    BY <2>1, <2>2 DEF UsesInv, UsesTyped, UsesLawful
<1>13. MeaningTyped
  BY DEF ClInit, MeaningTyped
<1> QED
  BY <1>5, <1>7, <1>8, <1>9, <1>10, <1>11, <1>12, <1>13 DEF ClInv, GateInv

LEMMA ClInductive == ClSpec => []ClInv
<1>1. ClInv /\ [ClNext]_clVars => ClInv'
  <2> SUFFICES ASSUME ClInv, [ClNext]_clVars PROVE ClInv'
    OBVIOUS
  <2>1. ASSUME NEW r \in Runners, NEW mode \in Modes, NEW w \in Works, RunBegins(r, mode, w)
        PROVE  ClInv'
    BY <2>1, RunBeginsMoves
  <2>2. ASSUME NEW r \in Runners, NEW m \in Meanings, AdmitRead(r, m) \/ AdmitInsert(r, m)
        PROVE  ClInv'
    BY <2>2, AdmitMoves
  <2>3. ASSUME NEW r \in Runners, NEW now \in Times, NEW retry \in BOOLEAN, GateClaim(r, now, retry)
        PROVE  ClInv'
    BY <2>3, GateClaimMoves
  <2>4. ASSUME NEW r \in Runners, NEW ok \in BOOLEAN, Act(r, ok)
        PROVE  ClInv'
    BY <2>4, ActMoves
  <2>5. ASSUME NEW r \in Runners,
               (\E now \in Times : CompleteCheck(r, now)) \/ CorrectionState(r) \/ RunnerDies(r)
        PROVE  ClInv'
    BY <2>5, PassesOn
  <2>6. ASSUME NEW r \in Runners, CompleteUpdate(r)
        PROVE  ClInv'
    BY <2>6, CompleteUpdateMoves
  <2>7. ASSUME NEW r \in Runners, CorrectionStart(r)
        PROVE  ClInv'
    BY <2>7, CorrectionStartMoves
  <2>8. ASSUME NEW r \in Runners, NEW v \in LearnedRevs, NEW c \in CueEvents,
               NEW i \in EvidenceIds \cup {"none"}, ConsumeInfluence(r, v, c, i)
        PROVE  ClInv'
    BY <2>8, ConsumeMoves
  <2>9. ASSUME NEW v \in LearnedRevs, NEW admitted \in BOOLEAN, NEW bound \in SUBSET EvidenceIds,
               ReviewLearning(v, admitted, bound)
        PROVE  ClInv'
    BY <2>9, ReviewMoves
  <2>10. ASSUME NEW q \in Reviewers, AdvanceAppend(q) \/ \E w \in Works : AdvanceRead(q, w)
         PROVE  ClInv'
    BY <2>10, AdvanceMoves
  <2>11. CASE UNCHANGED clVars
    <3>1. /\ UNCHANGED gateVars /\ UNCHANGED <<cycle, reviewer>> /\ UNCHANGED learnVars
          /\ meaning' = meaning /\ runner' = runner
          /\ budget' = budget /\ lease' = lease /\ completed' = completed /\ acts' = acts
      BY <2>11 DEF clVars, gateVars
    <3>2. RunsInv' /\ Admitted' = Admitted
      BY <3>1 DEF ClInv, RunsInv, RunsTyped, RunsLawful, RunLawful, Holding, Admitted
    <3>3. GateInv'
      BY <3>1, <3>2 DEF ClInv, GateInv, GateTyped, GateCharged, ActsHeld, WorksLawful, WorkLawful,
                        SumOver, SumFun, First, Rest
    <3>4. CycleInv' /\ UsesInv' /\ MeaningTyped'
      BY <3>1, CycleStays, UsesStay DEF ClInv, MeaningTyped
    <3> QED
      BY <3>2, <3>3, <3>4 DEF ClInv
  <2> QED
    BY Zenon, <2>1, <2>2, <2>3, <2>4, <2>5, <2>6, <2>7, <2>8, <2>9, <2>10, <2>11 DEF ClNext
<1> QED
  BY <1>1, ClInitLawful, PTL DEF ClSpec

(***************************************************************************)
(* The tables of the dispatch gate, the corrective ledger, the learned     *)
(* influence and the semantic store keep the values their schemas allow    *)
(* (durable_dispatch_gate.py, corrective_learning.py,                      *)
(* learned_influence.py, semantic_knowledge.py).                           *)
(***************************************************************************)
THEOREM LoopTypeCorrect == ClSpec => []ClTypeOK
<1>1. ClInv => ClTypeOK
  <2> SUFFICES ASSUME ClInv PROVE ClTypeOK
    OBVIOUS
  <2>1. /\ budget \in [active : Nat, retries : Nat, backend : Nat, generation : Nat] /\ acts \in Nat
        /\ \A w \in Works : lease[w].token \in Nat /\ lease[w].completed \in BOOLEAN
    BY DEF ClInv, GateInv, GateTyped, LeaseRow
  <2>2. \A w \in Works : \A n \in 1..Len(cycle[w]) : cycle[w][n] \in 1..CorrectiveStages
    <3> SUFFICES ASSUME NEW w \in Works, NEW n \in 1..Len(cycle[w])
                 PROVE  cycle[w][n] \in 1..CorrectiveStages
      OBVIOUS
    <3>1. Len(cycle[w]) \in Nat /\ Len(cycle[w]) <= CorrectiveStages /\ cycle[w][n] = n
      BY DEF ClInv, CycleInv, CycleTyped, CyclesLawful, StagesLawful
    <3> QED
      BY <3>1 DEF CorrectiveStages
  <2>3. /\ review.rev \in LearnedRevs \cup {"none"} /\ review.bound \subseteq EvidenceIds
        /\ meaning \in Meanings \cup {"none"}
    BY DEF ClInv, UsesInv, UsesTyped, MeaningTyped
  <2>4. \A r \in Runners : runner[r].mode \in Modes
    BY DEF ClInv, RunsInv, RunsTyped, RunRow
  <2> QED
    BY <2>1, <2>2, <2>3, <2>4 DEF ClTypeOK
<1> QED
  BY <1>1, ClInductive, PTL

(***************************************************************************)
(* agi_closed_loop.py and its stores: for any number of runners, pieces of *)
(* work and reviewers, the budget is charged once for every fencing token  *)
(* and covers every act under an admission, work is completed once and by  *)
(* its newest token, corrections keep the order of their stages, and cues  *)
(* and evidence are consumed once.                                         *)
(***************************************************************************)
THEOREM LoopIsGoverned == ClSpec => []LoopGoverned
<1>1. ClInv => LoopGoverned
  <2> SUFFICES ASSUME ClInv PROVE LoopGoverned
    OBVIOUS
  <2>1. ActsBudgeted
    <3> DEFINE handedOut == MapThenSumSet(LAMBDA w : lease[w].token, Works)
               a == Cardinality(Admitted)
               sum == SumOver([w \in Works |-> lease[w].token], Works)
    <3>1. handedOut = sum
      BY Zenon DEF MapThenSumSet, MapThenFoldSet, SumOver, SumFun, First, Rest
    <3>2. ActsBudgeted <=> /\ budget.generation = handedOut
                           /\ GateBudget.active - budget.active = handedOut
                           /\ GateBudget.backend - budget.backend = handedOut
                           /\ acts <= handedOut
      BY Zenon DEF ActsBudgeted
    <3>3. /\ budget.generation = sum
          /\ budget.active + budget.generation = GateBudget.active
          /\ budget.backend + budget.generation = GateBudget.backend
          /\ acts + a <= budget.generation
      BY DEF ClInv, GateInv, GateCharged, ActsHeld
    <3>4. /\ budget.generation \in Nat /\ budget.active \in Nat /\ budget.backend \in Nat /\ acts \in Nat
      BY DEF ClInv, GateInv, GateTyped
    <3>5. a \in Nat
      <4>1. IsFiniteSet(Admitted)
        <5>1. Admitted \subseteq Runners
          BY DEF Admitted
        <5> QED
          BY <5>1, ClosedLoopAssumption, FS_Subset
      <4> QED
        BY <4>1, FS_CardinalityType
    <3> HIDE DEF handedOut, a, sum
    <3> QED
      BY <3>1, <3>2, <3>3, <3>4, <3>5
  <2>2. CompletedOnce
    <3> SUFFICES ASSUME NEW w \in Works
                 PROVE  /\ Len(completed[w]) <= 1
                        /\ \A n \in 1..Len(completed[w]) :
                               completed[w][n] = lease[w].token /\ lease[w].completed
      BY DEF CompletedOnce
    <3>1. WorkLawful(lease[w], completed[w])
      BY DEF ClInv, GateInv, WorksLawful
    <3>2. CASE lease[w].completed
      <4> DEFINE one == <<lease[w].token>>
      <4>1. completed[w] = one
        BY <3>1, <3>2 DEF WorkLawful
      <4>2. Len(one) = 1 /\ \A n \in 1..1 : one[n] = lease[w].token
        OBVIOUS
      <4> HIDE DEF one
      <4> QED
        BY <3>2, <4>1, <4>2
    <3>3. CASE ~lease[w].completed
      <4>1. completed[w] = <<>>
        BY <3>1, <3>3 DEF WorkLawful
      <4> QED
        BY <4>1
    <3> QED
      BY <3>2, <3>3
  <2>3. CycleOrdered
    BY DEF ClInv, CycleInv, CyclesLawful, StagesLawful, CycleOrdered
  <2>4. CueUsedOnce
    BY DEF ClInv, UsesInv, UsesLawful, CueUsedOnce
  <2> QED
    BY <2>1, <2>2, <2>3, <2>4 DEF LoopGoverned
<1> QED
  BY <1>1, ClInductive, PTL

----------------------------------------------------------------------------
(* The supervised feedback journal.                                        *)

Evaluation == [rev : Revisions, baseline : Revisions, cases : SUBSET HeldoutCases]
FbState == [active : Revisions, pending : Evaluation, canaries : SUBSET HeldoutCases,
            order : Seq(Revisions), revoked : SUBSET Revisions]

\* One state: the active version is not revoked, Genesis never is, and what
\* waits for approval passed every canary.
FbStateLawful(st) ==
    /\ st.active \notin st.revoked /\ Genesis \notin st.revoked
    /\ st.pending # NoEvaluation =>
           /\ st.canaries \subseteq st.pending.cases
           /\ Passes(st.pending.rev, st.pending.cases) = st.pending.cases

\* One event: nothing revoked is forgotten and no canary dropped.
Follows(before, st) ==
    /\ before.revoked \subseteq st.revoked
    /\ before.canaries \subseteq st.canaries
    /\ Len(st.order) > Len(before.order) => Passes(st.active, st.canaries) = st.canaries

PriorState(h, i) == IF i = 1 THEN FbStart ELSE h[i - 1]

HistoryLawful(h) ==
    /\ \A i \in 1..Len(h) : FbStateLawful(h[i])
    /\ \A i \in 1..Len(h) : Follows(PriorState(h, i), h[i])
    /\ \A i, j \in 1..Len(h) : i <= j => h[i].revoked \subseteq h[j].revoked

\* The journal j went on from h.
Reached(h, j) == Len(h) <= Len(j) /\ \A i \in 1..Len(h) : h[i] = j[i]

Histories == {h \in Seq(FbState) : Len(h) <= FbMaxEvents}

FbHistories ==
    /\ fbJournal \in Histories /\ pinned \in Histories /\ resident \in [FbProcs -> Histories]
    /\ HistoryLawful(fbJournal) /\ HistoryLawful(pinned)
    /\ \A p \in FbProcs : HistoryLawful(resident[p])

\* What a process knew when it opened is part of what it replayed.
FbKnown ==
    /\ knownAt \in [FbProcs -> SUBSET Revisions]
    /\ \A p \in FbProcs : knownAt[p] \subseteq StateOf(resident[p]).revoked

\* Unless the file was replaced, it went on from every head there is.
FbOnward ==
    \/ replaced
    \/ /\ opened # {} => Reached(pinned, fbJournal)
       /\ \A p \in opened : Reached(resident[p], fbJournal)

FbInv ==
    /\ FbHistories /\ FbKnown /\ FbOnward
    /\ unpinned \subseteq opened /\ opened \subseteq FbProcs /\ replaced \in BOOLEAN

\* The latest of some events.
LEMMA LatestOf ==
    ASSUME NEW n \in Nat, NEW K \in SUBSET (1..n), K # {}
    PROVE  \E i \in K : \A j \in K : j <= i
<1> DEFINE S == 1..n
           T == {k..n : k \in K}
<1>1. IsFiniteSet(S)
  BY FS_Interval
<1>2. T \in SUBSET (SUBSET S) /\ T # {}
  <2>1. \A k \in K : k..n \in SUBSET S
    OBVIOUS
  <2>2. PICK k \in K : TRUE
    OBVIOUS
  <2>3. k..n \in T
    OBVIOUS
  <2> HIDE DEF S
  <2> QED
    BY <2>1, <2>3
<1>3. PICK x \in T : \A y \in T : y \subseteq x => y = x
  <2> HIDE DEF S, T
  <2> QED
    BY <1>1, <1>2, SmallestSubset
<1>4. PICK i \in K : x = i..n
  BY <1>3
<1>5. ASSUME NEW j \in K PROVE j <= i
  <2>1. ~(j > i)
    <3> SUFFICES ASSUME j > i PROVE FALSE
      OBVIOUS
    <3>1. j..n \in T /\ j..n \subseteq i..n
      OBVIOUS
    <3>2. j..n = i..n
      BY <1>3, <1>4, <3>1
    <3>3. i \in i..n /\ i \notin j..n
      OBVIOUS
    <3> QED
      BY <3>2, <3>3
  <2> QED
    BY <2>1
<1> QED
  BY <1>5

LEMMA GenesisIs ==
    /\ Genesis \in Revisions /\ NoEvaluation \in Evaluation
    /\ FbStart \in FbState /\ FbStateLawful(FbStart)
<1>1. Genesis \in Revisions
  BY DEF Genesis, Revisions
<1>2. NoEvaluation \in Evaluation
  BY <1>1 DEF NoEvaluation, Evaluation
<1>3. <<>> \in Seq(Revisions)
  OBVIOUS
<1>4. FbStart \in FbState /\ FbStart.revoked = {} /\ FbStart.pending = NoEvaluation
  BY <1>1, <1>2, <1>3 DEF FbStart, FbState
<1>5. FbStateLawful(FbStart)
  BY <1>4 DEF FbStateLawful
<1> QED
  BY <1>1, <1>2, <1>4, <1>5

\* A revoked active version falls back to one that is not revoked.
LEMMA FallbackIs ==
    ASSUME NEW st \in FbState, FbStateLawful(st), NEW rev, rev # Genesis
    PROVE  Fallback(st, rev) \in Revisions /\ Fallback(st, rev) \notin st.revoked \cup {rev}
<1> DEFINE kept == {i \in 1..Len(st.order) : st.order[i] \notin st.revoked \cup {rev}}
<1>1. st.order \in Seq(Revisions) /\ Len(st.order) \in Nat
  BY DEF FbState
<1>2. CASE kept = {}
  <2>1. Fallback(st, rev) = Genesis
    BY <1>2 DEF Fallback
  <2>2. Genesis \notin st.revoked
    BY DEF FbStateLawful
  <2> QED
    BY <2>1, <2>2, GenesisIs
<1>3. CASE kept # {}
  <2> DEFINE last == CHOOSE i \in kept : \A j \in kept : j <= i
  <2>1. Fallback(st, rev) = st.order[last]
    BY <1>3 DEF Fallback
  <2>2. \E i \in kept : \A j \in kept : j <= i
    <3>1. kept \in SUBSET (1..Len(st.order))
      OBVIOUS
    <3> HIDE DEF kept
    <3> QED
      BY <1>1, <1>3, <3>1, LatestOf
  <2>3. last \in kept
    <3> HIDE DEF kept
    <3> QED
      BY <2>2
  <2> HIDE DEF last
  <2> QED
    BY <1>1, <2>1, <2>3
<1> QED
  BY <1>2, <1>3

\* Whatever may be asked for is a version.
LEMMA VersionsAre ==
    ASSUME NEW st \in FbState, NEW rev \in Versions(st)
    PROVE  rev \in Revisions
BY GenesisIs DEF Versions, FbState

\* apply_review: an event that was verified leaves the state lawful.
LEMMA ReviewApplied ==
    ASSUME NEW st \in FbState, FbStateLawful(st), NEW head, NEW d, Verified(st, head, d)
    PROVE  LET new == AppliedReview(st, d)
           IN  new \in FbState /\ FbStateLawful(new) /\ Follows(st, new)
<1> DEFINE new == AppliedReview(st, d)
           e == st.pending
<1>1. /\ st.active \in Revisions /\ st.pending \in Evaluation /\ st.canaries \in SUBSET HeldoutCases
      /\ st.order \in Seq(Revisions) /\ st.revoked \in SUBSET Revisions /\ Len(st.order) \in Nat
      /\ e.rev \in Revisions /\ e.cases \in SUBSET HeldoutCases
  BY DEF FbState, Evaluation
<1>2. CASE d.action = "APPROVE"
  <2>1. st.pending # NoEvaluation /\ d.rev = e.rev /\ d.rev \notin st.revoked
    BY Zenon, <1>2 DEF Verified, Reviewable
  <2>2. new = Approved(st)
    BY Zenon, <1>2 DEF AppliedReview
  <2> DEFINE ord == Append(st.order, e.rev)
             q == [st EXCEPT !.active = e.rev, !.canaries = e.cases, !.order = ord,
                             !.pending = NoEvaluation]
  <2>3. new = q
    BY Zenon, <2>2 DEF Approved
  <2>4. ord \in Seq(Revisions)
    BY <1>1
  <2> HIDE DEF ord, new
  <2>5. /\ q \in FbState /\ q.active = e.rev /\ q.canaries = e.cases /\ q.pending = NoEvaluation
        /\ q.revoked = st.revoked
    BY <1>1, <2>4, GenesisIs DEF FbState
  <2>6. /\ st.canaries \subseteq e.cases /\ Passes(e.rev, e.cases) = e.cases
        /\ Genesis \notin st.revoked
    BY <2>1 DEF FbStateLawful
  <2> HIDE DEF q, e
  <2>7. FbStateLawful(q) /\ Follows(st, q)
    BY <2>1, <2>5, <2>6 DEF FbStateLawful, Follows
  <2> QED
    BY <2>3, <2>5, <2>7 DEF new
<1>3. CASE d.action = "ROLLBACK"
  <2>1. d.rev \in Versions(st) \ st.revoked
    BY Zenon, <1>3 DEF Verified, Reviewable
  <2>2. new = RolledBack(st, d.rev)
    BY Zenon, <1>3 DEF AppliedReview
  <2> DEFINE rev == d.rev
             q == [st EXCEPT !.active = rev, !.pending = NoEvaluation]
  <2>3. new = q
    BY Zenon, <2>2 DEF RolledBack
  <2>4. rev \in Revisions /\ rev \notin st.revoked
    BY <2>1, VersionsAre
  <2> HIDE DEF rev, new
  <2>5. /\ q \in FbState /\ q.active = rev /\ q.canaries = st.canaries /\ q.pending = NoEvaluation
        /\ q.revoked = st.revoked /\ q.order = st.order
    BY <1>1, <2>4, GenesisIs DEF FbState
  <2>6. Genesis \notin st.revoked
    BY DEF FbStateLawful
  <2> HIDE DEF q
  <2>7. FbStateLawful(q) /\ Follows(st, q)
    BY <1>1, <2>4, <2>5, <2>6 DEF FbStateLawful, Follows
  <2> QED
    BY <2>3, <2>5, <2>7 DEF new
<1>4. CASE d.action \notin {"APPROVE", "ROLLBACK"}
  <2> DEFINE rev == d.rev
             act == IF st.active = rev THEN Fallback(st, rev) ELSE st.active
             gone == st.revoked \cup {rev}
             q == [st EXCEPT !.revoked = gone, !.active = act, !.pending = NoEvaluation]
  <2>1. rev \in (Versions(st) \ {Genesis}) \ st.revoked
    BY Zenon, <1>4 DEF Verified, Reviewable
  <2>2. new = Revoked(st, rev)
    BY Zenon, <1>4 DEF AppliedReview
  <2>3. new = q
    BY Zenon, <2>2 DEF Revoked
  <2>4. rev \in Revisions /\ rev # Genesis
    BY <2>1, VersionsAre
  <2>5. act \in Revisions /\ act \notin gone
    <3>1. st.active \notin st.revoked
      BY DEF FbStateLawful
    <3>2. Fallback(st, rev) \in Revisions /\ Fallback(st, rev) \notin gone
      BY <2>4, FallbackIs
    <3> HIDE DEF rev
    <3> QED
      BY <1>1, <3>1, <3>2
  <2>6. gone \in SUBSET Revisions /\ Genesis \notin gone
    BY <1>1, <2>4 DEF FbStateLawful
  <2>7. st.revoked \subseteq gone
    OBVIOUS
  <2> HIDE DEF rev, act, gone, new
  <2>8. /\ q \in FbState /\ q.active = act /\ q.canaries = st.canaries /\ q.pending = NoEvaluation
        /\ q.revoked = gone /\ q.order = st.order
    BY <1>1, <2>5, <2>6, GenesisIs DEF FbState
  <2> HIDE DEF q
  <2>9. FbStateLawful(q) /\ Follows(st, q)
    BY <1>1, <2>5, <2>6, <2>7, <2>8 DEF FbStateLawful, Follows
  <2> QED
    BY <2>3, <2>8, <2>9 DEF new
<1> QED
  BY <1>2, <1>3, <1>4

\* What replay of a lawful history leads to.
LEMMA StateOfIs ==
    ASSUME NEW h \in Seq(FbState), HistoryLawful(h)
    PROVE  /\ StateOf(h) \in FbState /\ FbStateLawful(StateOf(h))
           /\ StateOf(h) = PriorState(h, Len(h) + 1)
           /\ \A i \in 1..Len(h) : h[i].revoked \subseteq StateOf(h).revoked
<1>1. Len(h) \in Nat /\ \A i \in 1..Len(h) : h[i] \in FbState
  OBVIOUS
<1>2. CASE h = <<>>
  <2>1. StateOf(h) = FbStart
    BY <1>2 DEF StateOf
  <2>2. Len(h) = 0
    BY <1>2
  <2>3. PriorState(h, Len(h) + 1) = FbStart
    BY <2>2 DEF PriorState
  <2> QED
    BY <2>1, <2>2, <2>3, GenesisIs
<1>3. CASE h # <<>>
  <2>1. Len(h) > 0 /\ Len(h) \in 1..Len(h)
    BY <1>3, <1>1
  <2>2. StateOf(h) = h[Len(h)]
    BY <1>3 DEF StateOf
  <2>3. Len(h) + 1 # 1 /\ (Len(h) + 1) - 1 = Len(h)
    BY <1>1, <2>1
  <2>4. PriorState(h, Len(h) + 1) = h[Len(h)]
    BY <2>3 DEF PriorState
  <2>5. \A i \in 1..Len(h) : i <= Len(h)
    BY <1>1
  <2> QED
    BY <1>1, <2>1, <2>2, <2>4, <2>5 DEF HistoryLawful
<1> QED
  BY <1>2, <1>3

\* One more event.
LEMMA HistoryGrows ==
    ASSUME NEW h \in Seq(FbState), HistoryLawful(h),
           NEW st \in FbState, FbStateLawful(st), Follows(StateOf(h), st)
    PROVE  /\ Append(h, st) \in Seq(FbState) /\ HistoryLawful(Append(h, st))
           /\ Len(Append(h, st)) = Len(h) + 1
           /\ \A i \in 1..Len(h) : Append(h, st)[i] = h[i]
<1> DEFINE g == Append(h, st)
           n == Len(h)
<1>1. n \in Nat /\ g \in Seq(FbState) /\ Len(g) = n + 1
      /\ (\A i \in 1..n : g[i] = h[i]) /\ g[n + 1] = st
  OBVIOUS
<1>2. /\ StateOf(h) = PriorState(h, n + 1)
      /\ \A i \in 1..n : h[i].revoked \subseteq StateOf(h).revoked
  BY StateOfIs
<1>3. /\ \A i \in 1..n : FbStateLawful(h[i])
      /\ \A i \in 1..n : Follows(PriorState(h, i), h[i])
      /\ \A i, j \in 1..n : i <= j => h[i].revoked \subseteq h[j].revoked
  BY DEF HistoryLawful
<1> HIDE DEF g, n
<1>4. \A i \in 1..(n + 1) : i \in 1..n \/ i = n + 1
  BY <1>1
<1>5. ASSUME NEW i \in 1..(n + 1) PROVE FbStateLawful(g[i])
  BY <1>1, <1>3, <1>4
<1>6. ASSUME NEW i \in 1..(n + 1) PROVE Follows(PriorState(g, i), g[i])
  <2>1. PriorState(g, i) = PriorState(h, i)
    <3>1. CASE i = 1
      BY <3>1 DEF PriorState
    <3>2. CASE i # 1
      <4>1. i - 1 \in 1..n
        BY <1>1, <3>2
      <4> QED
        BY <1>1, <3>2, <4>1 DEF PriorState
    <3> QED
      BY <3>1, <3>2
  <2>2. CASE i \in 1..n
    BY <1>1, <1>3, <2>1, <2>2
  <2>3. CASE i = n + 1
    BY <1>1, <1>2, <2>1, <2>3
  <2> QED
    BY <1>4, <2>2, <2>3
<1>7. ASSUME NEW i \in 1..(n + 1), NEW j \in 1..(n + 1), i <= j
      PROVE  g[i].revoked \subseteq g[j].revoked
  <2>1. CASE j \in 1..n
    <3>1. i \in 1..n
      BY <1>1, <1>7, <2>1
    <3> QED
      BY <1>1, <1>3, <1>7, <2>1, <3>1
  <2>2. CASE j = n + 1 /\ i \in 1..n
    <3>1. h[i].revoked \subseteq StateOf(h).revoked
      BY <1>2, <2>2
    <3>2. StateOf(h).revoked \subseteq st.revoked
      BY DEF Follows
    <3> QED
      BY <1>1, <2>2, <3>1, <3>2
  <2>3. CASE j = n + 1 /\ i = n + 1
    BY <2>3
  <2> QED
    BY <1>4, <2>1, <2>2, <2>3
<1>8. HistoryLawful(g)
  BY <1>1, <1>5, <1>6, <1>7 DEF HistoryLawful
<1>9. g = Append(h, st) /\ n = Len(h)
  BY DEF g, n
<1> QED
  BY <1>1, <1>8, <1>9

\* An older copy of the file.
LEMMA HistoryCut ==
    ASSUME NEW h \in Seq(FbState), HistoryLawful(h), NEW n \in Nat, n <= Len(h)
    PROVE  /\ SubSeq(h, 1, n) \in Seq(FbState) /\ HistoryLawful(SubSeq(h, 1, n))
           /\ Len(SubSeq(h, 1, n)) = n
<1> DEFINE g == SubSeq(h, 1, n)
<1>1. g \in Seq(FbState) /\ Len(g) = n /\ (\A i \in 1..n : g[i] = h[i]) /\ Len(h) \in Nat
  OBVIOUS
<1>2. \A i \in 1..n : i \in 1..Len(h)
  BY <1>1
<1> HIDE DEF g
<1>3. ASSUME NEW i \in 1..n PROVE PriorState(g, i) = PriorState(h, i)
  <2>1. CASE i = 1
    BY <2>1 DEF PriorState
  <2>2. CASE i # 1
    <3>1. i - 1 \in 1..n
      BY <2>2
    <3> QED
      BY <1>1, <2>2, <3>1 DEF PriorState
  <2> QED
    BY <2>1, <2>2
<1>4. HistoryLawful(g)
  BY <1>1, <1>2, <1>3 DEF HistoryLawful
<1> QED
  BY <1>1, <1>4 DEF g

\* _append: an event that follows what the file holds.
LEMMA AppendEventMoves ==
    ASSUME FbInv, NEW p \in FbProcs, NEW st \in FbState, FbStateLawful(st),
           Follows(StateOf(fbJournal), st), AppendEvent(p, st)
    PROVE  FbInv'
<1> DEFINE g == Append(fbJournal, st)
<1>1. /\ fbJournal' = g /\ resident' = [resident EXCEPT ![p] = g]
      /\ unpinned' = unpinned \cup {p} /\ opened' = opened /\ pinned' = pinned
      /\ Len(fbJournal) < FbMaxEvents /\ p \in opened /\ fbJournal = resident[p]
      /\ knownAt' = knownAt
  BY DEF AppendEvent
<1>2. replaced' = replaced
  BY Zenon DEF AppendEvent
<1>3. /\ fbJournal \in Seq(FbState) /\ Len(fbJournal) \in Nat /\ FbMaxEvents \in Nat
      /\ pinned \in Histories /\ resident \in [FbProcs -> Histories]
      /\ HistoryLawful(fbJournal) /\ HistoryLawful(pinned)
      /\ \A q \in FbProcs : HistoryLawful(resident[q])
  BY FeedbackAssumption DEF FbInv, FbHistories, Histories
<1>4. /\ g \in Seq(FbState) /\ HistoryLawful(g) /\ Len(g) = Len(fbJournal) + 1
      /\ \A i \in 1..Len(fbJournal) : g[i] = fbJournal[i]
  BY <1>3, HistoryGrows
<1>5. StateOf(g) = st
  <2>1. g # <<>> /\ g[Len(g)] = st
    BY <1>3
  <2> QED
    BY <2>1 DEF StateOf
<1> HIDE DEF g
<1>6. g \in Histories
  BY <1>1, <1>3, <1>4 DEF Histories
<1>7. \A q \in FbProcs : resident'[q] = IF q = p THEN g ELSE resident[q]
  BY <1>1, <1>3
<1>8. FbHistories'
  <2>1. \A q \in FbProcs : HistoryLawful(resident'[q])
    BY <1>3, <1>4, <1>7
  <2>2. resident' \in [FbProcs -> Histories]
    BY <1>1, <1>3, <1>6
  <2> QED
    BY <1>1, <1>3, <1>4, <1>6, <2>1, <2>2 DEF FbHistories
<1>9. FbKnown'
  <2>1. \A q \in FbProcs : knownAt[q] \subseteq StateOf(resident[q]).revoked
    BY DEF FbInv, FbKnown
  <2>2. StateOf(fbJournal).revoked \subseteq st.revoked
    BY DEF Follows
  <2>3. ASSUME NEW q \in FbProcs PROVE knownAt[q] \subseteq StateOf(resident'[q]).revoked
    <3>1. CASE q = p
      BY <1>1, <1>5, <1>7, <2>1, <2>2, <3>1
    <3>2. CASE q # p
      BY <1>7, <2>1, <3>2
    <3> QED
      BY <3>1, <3>2
  <2> QED
    BY <1>1, <2>3 DEF FbInv, FbKnown
<1>10. ASSUME NEW h \in Histories, Reached(h, fbJournal) PROVE Reached(h, fbJournal')
  <2>1. Len(h) \in Nat /\ Len(h) <= Len(fbJournal) /\ \A i \in 1..Len(h) : h[i] = fbJournal[i]
    BY <1>10 DEF Reached, Histories
  <2>2. \A i \in 1..Len(h) : h[i] = g[i]
    BY <1>3, <1>4, <2>1
  <2>3. Len(h) <= Len(g)
    BY <1>3, <1>4, <2>1
  <2> QED
    BY <1>1, <2>2, <2>3 DEF Reached
<1>11. ASSUME \A q \in opened : Reached(resident[q], fbJournal),
             NEW q \in opened
      PROVE  Reached(resident'[q], fbJournal')
  <2>1. q \in FbProcs
    BY DEF FbInv
  <2>2. CASE q = p
    <3>1. Len(g) \in Nat
      BY <1>4
    <3> QED
      BY <1>1, <1>7, <2>1, <2>2, <3>1 DEF Reached
  <2>3. CASE q # p
    <3>1. resident'[q] = resident[q] /\ resident[q] \in Histories
      BY <1>3, <1>7, <2>1, <2>3
    <3> QED
      BY <1>10, <1>11, <3>1
  <2> QED
    BY <2>2, <2>3
<1>12. FbOnward'
  <2>1. CASE replaced
    BY Zenon, <1>2, <2>1 DEF FbOnward
  <2>2. CASE ~replaced
    <3>1. (opened # {} => Reached(pinned, fbJournal)) /\ \A q \in opened : Reached(resident[q], fbJournal)
      BY Zenon, <2>2 DEF FbInv, FbOnward
    <3>2. opened' # {} => Reached(pinned', fbJournal')
      BY <1>1, <1>3, <1>10, <3>1
    <3>3. \A q \in opened' : Reached(resident'[q], fbJournal')
      BY <1>1, <1>11, <3>1
    <3> QED
      BY <3>2, <3>3 DEF FbOnward
  <2> QED
    BY Zenon, <2>1, <2>2
<1>13. replaced' \in BOOLEAN
  BY Zenon, <1>2 DEF FbInv
<1>14. unpinned' \subseteq opened' /\ opened' \subseteq FbProcs
  BY <1>1 DEF FbInv
<1> QED
  BY <1>8, <1>9, <1>12, <1>13, <1>14 DEF FbInv

\* stage and evaluate: a version that passed every canary waits for approval.
LEMMA StageMoves ==
    ASSUME FbInv, NEW p \in FbProcs, StageSamples(p)
    PROVE  FbInv'
<1> DEFINE st == StateOf(resident[p])
<1>1. PICK rev \in Staged(st), holdout \in Holdouts(st) :
          /\ Qualifies(st, rev, st.canaries \cup holdout)
          /\ AppendEvent(p, [st EXCEPT !.pending =
                 [rev |-> rev, baseline |-> st.active, cases |-> st.canaries \cup holdout]])
  BY Zenon DEF StageSamples
<1> DEFINE cases == st.canaries \cup holdout
           e == [rev |-> rev, baseline |-> st.active, cases |-> cases]
           q == [st EXCEPT !.pending = e]
<1>2. AppendEvent(p, q) /\ Qualifies(st, rev, cases)
  BY <1>1
<1>3. fbJournal = resident[p]
  BY <1>2 DEF AppendEvent
<1>4. st = StateOf(fbJournal) /\ fbJournal \in Seq(FbState) /\ HistoryLawful(fbJournal)
  BY <1>3 DEF FbInv, FbHistories, Histories
<1>5. st \in FbState /\ FbStateLawful(st)
  BY <1>4, StateOfIs
<1> HIDE DEF st
<1>6. /\ st.active \in Revisions /\ st.canaries \in SUBSET HeldoutCases
      /\ st.revoked \in SUBSET Revisions /\ Len(st.order) \in Nat
  BY <1>5 DEF FbState
<1>7. rev \in Revisions /\ holdout \in SUBSET HeldoutCases
  BY DEF Staged, Holdouts
<1>8. cases \in SUBSET HeldoutCases /\ st.canaries \subseteq cases /\ Passes(rev, cases) = cases
  BY <1>2, <1>6, <1>7 DEF Qualifies
<1> HIDE DEF cases
<1>9. e \in Evaluation /\ e.rev = rev /\ e.cases = cases
  BY <1>6, <1>7, <1>8 DEF Evaluation
<1> HIDE DEF e
<1>10. /\ q \in FbState /\ q.active = st.active /\ q.canaries = st.canaries /\ q.pending = e
       /\ q.revoked = st.revoked /\ q.order = st.order
  BY <1>5, <1>9 DEF FbState
<1> HIDE DEF q
<1>11. FbStateLawful(q) /\ Follows(st, q)
  BY <1>5, <1>6, <1>8, <1>9, <1>10 DEF FbStateLawful, Follows
<1> QED
  BY <1>2, <1>4, <1>10, <1>11, AppendEventMoves

LEMMA ApplyReviewMoves ==
    ASSUME FbInv, NEW p \in FbProcs, NEW d \in signed, ApplyReview(p, d)
    PROVE  FbInv'
<1> DEFINE st == StateOf(fbJournal)
           new == AppliedReview(st, d)
<1>1. Verified(st, fbJournal, d) /\ AppendEvent(p, new)
  BY DEF ApplyReview
<1>2. fbJournal \in Seq(FbState) /\ HistoryLawful(fbJournal)
  BY DEF FbInv, FbHistories, Histories
<1>3. st \in FbState /\ FbStateLawful(st)
  BY <1>2, StateOfIs
<1>4. new \in FbState /\ FbStateLawful(new) /\ Follows(st, new)
  <2> HIDE DEF st
  <2> QED
    BY <1>1, <1>3, ReviewApplied
<1> HIDE DEF new
<1> QED
  BY <1>1, <1>4, AppendEventMoves

\* Opening, pinning, ending and an older copy of the file.
LEMMA ProcessMoves ==
    ASSUME FbInv, NEW p \in FbProcs, OpenJournal(p) \/ PinHead(p) \/ ProcessEnds(p)
    PROVE  FbInv'
<1>1. /\ fbJournal \in Histories /\ pinned \in Histories /\ resident \in [FbProcs -> Histories]
      /\ HistoryLawful(fbJournal) /\ HistoryLawful(pinned)
      /\ \A q \in FbProcs : HistoryLawful(resident[q])
      /\ knownAt \in [FbProcs -> SUBSET Revisions]
      /\ \A q \in FbProcs : knownAt[q] \subseteq StateOf(resident[q]).revoked
      /\ unpinned \subseteq opened /\ opened \subseteq FbProcs
  BY DEF FbInv, FbHistories, FbKnown
<1>2. fbJournal' = fbJournal
  BY DEF OpenJournal, PinHead, ProcessEnds
<1>3. Reached(fbJournal, fbJournal)
  <2>1. Len(fbJournal) \in Nat
    BY <1>1 DEF Histories
  <2> QED
    BY <2>1 DEF Reached
<1>4. replaced \in BOOLEAN
  BY Zenon DEF FbInv
<1>5. ~replaced => /\ opened # {} => Reached(pinned, fbJournal)
                   /\ \A q \in opened : Reached(resident[q], fbJournal)
  BY Zenon DEF FbInv, FbOnward
<1>6. CASE OpenJournal(p)
  <2>1. /\ opened' = opened \cup {p} /\ resident' = [resident EXCEPT ![p] = fbJournal]
        /\ fbJournal = pinned /\ pinned' = pinned /\ unpinned' = unpinned
        /\ knownAt' = [knownAt EXCEPT ![p] = StateOf(pinned).revoked]
    BY <1>6 DEF OpenJournal
  <2>2. replaced' = replaced
    BY Zenon, <1>6 DEF OpenJournal
  <2>3. \A q \in FbProcs : resident'[q] = IF q = p THEN fbJournal ELSE resident[q]
    BY <1>1, <2>1
  <2>4. FbHistories'
    BY <1>1, <1>2, <2>1, <2>3 DEF FbHistories
  <2>5. FbKnown'
    <3>1. StateOf(pinned).revoked \in SUBSET Revisions
      <4>1. pinned \in Seq(FbState)
        BY <1>1 DEF Histories
      <4>2. StateOf(pinned) \in FbState
        BY <1>1, <4>1, StateOfIs
      <4> QED
        BY <4>2 DEF FbState
    <3> DEFINE known == StateOf(pinned).revoked
    <3>2. known = StateOf(fbJournal).revoked
      BY <2>1
    <3> HIDE DEF known
    <3>3. knownAt' = [knownAt EXCEPT ![p] = known] /\ known \in SUBSET Revisions
      BY <2>1, <3>1 DEF known
    <3>4. \A q \in FbProcs : knownAt'[q] = IF q = p THEN known ELSE knownAt[q]
      BY <1>1, <3>3
    <3>5. ASSUME NEW q \in FbProcs PROVE knownAt'[q] \subseteq StateOf(resident'[q]).revoked
      <4>1. CASE q = p
        BY <2>3, <3>2, <3>4, <4>1
      <4>2. CASE q # p
        BY <1>1, <2>3, <3>4, <4>2
      <4> QED
        BY <4>1, <4>2
    <3>6. knownAt' \in [FbProcs -> SUBSET Revisions]
      BY <1>1, <3>3
    <3> QED
      BY <3>5, <3>6 DEF FbKnown
  <2>6. FbOnward'
    <3>1. CASE replaced
      BY Zenon, <2>2, <3>1 DEF FbOnward
    <3>2. CASE ~replaced
      <4>1. \A q \in opened : Reached(resident[q], fbJournal)
        BY <1>5, <3>2
      <4>2. \A q \in opened' : Reached(resident'[q], fbJournal')
        BY <1>1, <1>2, <1>3, <2>1, <2>3, <4>1
      <4>3. Reached(pinned', fbJournal')
        BY <1>2, <1>3, <2>1
      <4> QED
        BY <4>2, <4>3 DEF FbOnward
    <3> QED
      BY Zenon, <3>1, <3>2
  <2>7. replaced' \in BOOLEAN
    BY Zenon, <1>4, <2>2
  <2>8. unpinned' \subseteq opened' /\ opened' \subseteq FbProcs
    BY <1>1, <2>1
  <2> QED
    BY <2>4, <2>5, <2>6, <2>7, <2>8 DEF FbInv
<1>7. CASE PinHead(p)
  <2>1. /\ p \in unpinned /\ pinned' = resident[p] /\ unpinned' = unpinned \ {p}
        /\ opened' = opened /\ resident' = resident /\ knownAt' = knownAt
    BY <1>7 DEF PinHead
  <2>2. replaced' = replaced
    BY Zenon, <1>7 DEF PinHead
  <2>3. FbHistories' /\ FbKnown'
    BY <1>1, <1>2, <2>1 DEF FbHistories, FbKnown
  <2>4. FbOnward'
    <3>1. CASE replaced
      BY Zenon, <2>2, <3>1 DEF FbOnward
    <3>2. CASE ~replaced
      <4>1. \A q \in opened : Reached(resident[q], fbJournal)
        BY <1>5, <3>2
      <4>2. Reached(pinned', fbJournal')
        BY <1>1, <1>2, <2>1, <4>1
      <4>3. \A q \in opened' : Reached(resident'[q], fbJournal')
        BY <1>2, <2>1, <4>1
      <4> QED
        BY <4>2, <4>3 DEF FbOnward
    <3> QED
      BY Zenon, <3>1, <3>2
  <2>5. replaced' \in BOOLEAN
    BY Zenon, <1>4, <2>2
  <2>6. unpinned' \subseteq opened' /\ opened' \subseteq FbProcs
    BY <1>1, <2>1
  <2> QED
    BY <2>3, <2>4, <2>5, <2>6 DEF FbInv
<1>8. CASE ProcessEnds(p)
  <2> DEFINE none == <<>>
  <2>1. /\ opened' = opened \ {p} /\ resident' = [resident EXCEPT ![p] = none]
        /\ unpinned' = unpinned \ {p} /\ pinned' = pinned
        /\ knownAt' = [knownAt EXCEPT ![p] = {}]
    BY <1>8 DEF ProcessEnds
  <2>2. replaced' = (replaced /\ opened' # {})
    BY Zenon, <1>8 DEF ProcessEnds
  <2>3. none \in Histories /\ Len(none) = 0 /\ 1..0 = {}
    BY FeedbackAssumption DEF Histories
  <2> HIDE DEF none
  <2>4. HistoryLawful(none)
    BY <2>3 DEF HistoryLawful
  <2>5. \A q \in FbProcs : /\ resident'[q] = IF q = p THEN none ELSE resident[q]
                           /\ knownAt'[q] = IF q = p THEN {} ELSE knownAt[q]
    BY <1>1, <2>1
  <2>6. FbHistories'
    <3>1. resident' \in [FbProcs -> Histories]
      BY <1>1, <2>1, <2>3
    <3>2. \A q \in FbProcs : HistoryLawful(resident'[q])
      BY <1>1, <2>4, <2>5
    <3> QED
      BY <1>1, <1>2, <2>1, <3>1, <3>2 DEF FbHistories
  <2>7. FbKnown'
    <3>1. knownAt' \in [FbProcs -> SUBSET Revisions]
      BY <1>1, <2>1
    <3>2. \A q \in FbProcs : knownAt'[q] \subseteq StateOf(resident'[q]).revoked
      BY <1>1, <2>5
    <3> QED
      BY <3>1, <3>2 DEF FbKnown
  <2>8. FbOnward'
    <3>1. CASE opened' = {}
      BY <3>1 DEF FbOnward
    <3>2. CASE opened' # {} /\ replaced
      BY Zenon, <2>2, <3>2 DEF FbOnward
    <3>3. CASE ~replaced
      <4>1. \A q \in opened : Reached(resident[q], fbJournal)
        BY <1>5, <3>3
      <4>2. \A q \in opened' : Reached(resident'[q], fbJournal')
        BY <1>1, <1>2, <2>1, <2>5, <4>1
      <4>3. opened' # {} => Reached(pinned', fbJournal')
        BY <1>2, <1>5, <2>1, <3>3
      <4> QED
        BY <4>2, <4>3 DEF FbOnward
    <3> QED
      BY Zenon, <3>1, <3>2, <3>3
  <2>9. replaced' \in BOOLEAN
    BY Zenon, <2>2
  <2>10. unpinned' \subseteq opened' /\ opened' \subseteq FbProcs
    BY <1>1, <2>1
  <2> QED
    BY <2>6, <2>7, <2>8, <2>9, <2>10 DEF FbInv
<1> QED
  BY <1>6, <1>7, <1>8

LEMMA OlderCopyMoves ==
    ASSUME FbInv, NEW n \in Nat, RestoreOlderCopy(n)
    PROVE  FbInv'
<1> DEFINE g == SubSeq(fbJournal, 1, n)
<1>1. /\ fbJournal' = g /\ opened' = opened /\ resident' = resident /\ knownAt' = knownAt
      /\ pinned' = pinned /\ unpinned' = unpinned /\ n < Len(fbJournal)
  BY DEF RestoreOlderCopy
<1>2. replaced' = (opened # {})
  BY Zenon DEF RestoreOlderCopy
<1>3. fbJournal \in Seq(FbState) /\ HistoryLawful(fbJournal) /\ Len(fbJournal) <= FbMaxEvents
      /\ Len(fbJournal) \in Nat
  BY DEF FbInv, FbHistories, Histories
<1>4. g \in Seq(FbState) /\ HistoryLawful(g) /\ Len(g) = n
  BY <1>1, <1>3, HistoryCut
<1>5. g \in Histories
  BY <1>1, <1>3, <1>4, FeedbackAssumption DEF Histories
<1> HIDE DEF g
<1>6. FbHistories' /\ FbKnown'
  BY <1>1, <1>4, <1>5 DEF FbInv, FbHistories, FbKnown
<1>7. FbOnward'
  <2>1. CASE opened = {}
    BY <1>1, <2>1 DEF FbOnward
  <2>2. CASE opened # {}
    BY Zenon, <1>2, <2>2 DEF FbOnward
  <2> QED
    BY <2>1, <2>2
<1>8. replaced' \in BOOLEAN
  BY Zenon, <1>2
<1>9. unpinned' \subseteq opened' /\ opened' \subseteq FbProcs
  BY <1>1 DEF FbInv
<1> QED
  BY <1>6, <1>7, <1>8, <1>9 DEF FbInv

LEMMA FbInductive == FbSpec => []FbInv
<1>1. FbInit => FbInv
  <2> SUFFICES ASSUME FbInit PROVE FbInv
    OBVIOUS
  <2> DEFINE none == <<>>
  <2>1. none \in Histories /\ Len(none) = 0 /\ 1..0 = {}
    BY FeedbackAssumption DEF Histories
  <2>2. /\ fbJournal = none /\ pinned = none /\ resident = [p \in FbProcs |-> none]
        /\ opened = {} /\ unpinned = {} /\ knownAt = [p \in FbProcs |-> {}]
    BY DEF FbInit
  <2>3. replaced = FALSE
    BY Zenon DEF FbInit
  <2> HIDE DEF none
  <2>4. HistoryLawful(none)
    BY <2>1 DEF HistoryLawful
  <2>5. FbHistories /\ FbKnown
    BY <2>1, <2>2, <2>4 DEF FbHistories, FbKnown
  <2>6. FbOnward
    BY <2>2 DEF FbOnward
  <2>7. replaced \in BOOLEAN
    BY Zenon, <2>3
  <2> QED
    BY <2>2, <2>5, <2>6, <2>7 DEF FbInv
<1>2. FbInv /\ [FbNext]_fbVars => FbInv'
  <2> SUFFICES ASSUME FbInv, [FbNext]_fbVars PROVE FbInv'
    OBVIOUS
  <2>1. ASSUME NEW p \in FbProcs, OpenJournal(p) \/ PinHead(p) \/ ProcessEnds(p)
        PROVE  FbInv'
    BY <2>1, ProcessMoves
  <2>2. ASSUME NEW p \in FbProcs, StageSamples(p)
        PROVE  FbInv'
    BY <2>2, StageMoves
  <2>3. ASSUME NEW p \in FbProcs, NEW d \in signed, ApplyReview(p, d)
        PROVE  FbInv'
    BY <2>3, ApplyReviewMoves
  <2>4. ASSUME NEW n \in 0..FbMaxEvents, RestoreOlderCopy(n)
        PROVE  FbInv'
    <3>1. n \in Nat
      BY FeedbackAssumption
    <3> QED
      BY <2>4, <3>1, OlderCopyMoves
  <2>5. CASE /\ fbJournal' = fbJournal /\ opened' = opened /\ resident' = resident
             /\ pinned' = pinned /\ unpinned' = unpinned /\ knownAt' = knownAt
             /\ replaced' = replaced
    <3>1. FbHistories' /\ FbKnown'
      BY <2>5 DEF FbInv, FbHistories, FbKnown
    <3>2. FbOnward' /\ replaced' \in BOOLEAN
      BY Zenon, <2>5 DEF FbInv, FbOnward
    <3> QED
      BY <2>5, <3>1, <3>2 DEF FbInv
  <2>6. ASSUME NEW p \in FbProcs, NEW action, NEW rev, ReviewChallenge(p, action, rev)
        PROVE  FbInv'
    BY <2>5, <2>6 DEF ReviewChallenge
  <2>7. ASSUME NEW d, DecisionExpires(d)
        PROVE  FbInv'
    BY <2>5, <2>7 DEF DecisionExpires
  <2>8. CASE UNCHANGED fbVars
    BY <2>5, <2>8 DEF fbVars
  <2> QED
    BY Zenon, <2>1, <2>2, <2>3, <2>4, <2>6, <2>7, <2>8 DEF FbNext
<1> QED
  BY <1>1, <1>2, PTL DEF FbSpec

(***************************************************************************)
(* Every state of the journal holds a revision for the cues and canaries   *)
(* that were held out, within _MAX_EVENTS, and only a process that has it  *)
(* open owes the control plane a report (supervised_feedback.py).          *)
(***************************************************************************)
THEOREM FeedbackTypeCorrect == FbSpec => []FbTypeOK
<1>1. FbInv => FbTypeOK
  <2> SUFFICES ASSUME FbInv PROVE FbTypeOK
    OBVIOUS
  <2>1. \A i \in 1..Len(fbJournal) : fbJournal[i] \in FbState
    BY DEF FbInv, FbHistories, Histories
  <2>2. \A p \in FbProcs : Len(resident[p]) <= FbMaxEvents
    BY DEF FbInv, FbHistories, Histories
  <2>3. Len(pinned) <= FbMaxEvents /\ \A p \in FbProcs : knownAt[p] \subseteq Revisions
    BY DEF FbInv, FbHistories, FbKnown, Histories
  <2>4. unpinned \subseteq opened /\ opened \subseteq FbProcs /\ replaced \in BOOLEAN
    BY Zenon DEF FbInv
  <2> QED
    BY <2>1, <2>2, <2>3, <2>4 DEF FbState, FbTypeOK
<1> QED
  BY <1>1, FbInductive, PTL

(***************************************************************************)
(* SupervisedFeedbackJournal: for any cues, samples and processes, through *)
(* approvals, rollbacks, revocations, crashes and older copies of the file,*)
(* the active version is never a revoked one, no process serves what was   *)
(* known to be revoked when it opened the journal nor, until the file is   *)
(* replaced under it, what the control plane knows by now, no canary is    *)
(* dropped and every approved version passed them all.                     *)
(***************************************************************************)
THEOREM FeedbackIsGoverned == FbSpec => []FeedbackGoverned
<1>1. FbInv => FeedbackGoverned
  <2> SUFFICES ASSUME FbInv PROVE FeedbackGoverned
    OBVIOUS
  <2>1. /\ fbJournal \in Seq(FbState) /\ Len(fbJournal) \in Nat /\ HistoryLawful(fbJournal)
        /\ pinned \in Seq(FbState) /\ Len(pinned) \in Nat
    BY DEF FbInv, FbHistories, Histories
  <2>2. \A i \in 1..Len(fbJournal) : fbJournal[i].active \notin fbJournal[i].revoked
    BY <2>1 DEF HistoryLawful, FbStateLawful
  <2>3. ASSUME NEW p \in FbProcs, Serves(p)
        PROVE  /\ StateOf(resident[p]).active \notin knownAt[p]
               /\ ~replaced => StateOf(resident[p]).active \notin StateOf(pinned).revoked
    <3>1. p \in opened /\ fbJournal = resident[p]
      BY <2>3 DEF Serves
    <3>2. /\ StateOf(fbJournal).active \notin StateOf(fbJournal).revoked
          /\ \A i \in 1..Len(fbJournal) : fbJournal[i].revoked \subseteq StateOf(fbJournal).revoked
      BY <2>1, StateOfIs DEF FbStateLawful
    <3>3. knownAt[p] \subseteq StateOf(fbJournal).revoked
      BY <3>1 DEF FbInv, FbKnown
    <3>4. ASSUME ~replaced PROVE StateOf(fbJournal).active \notin StateOf(pinned).revoked
      <4>1. opened # {} => Reached(pinned, fbJournal)
        BY Zenon, <3>4 DEF FbInv, FbOnward
      <4>2. Reached(pinned, fbJournal)
        BY <3>1, <4>1
      <4>3. CASE pinned = <<>>
        <5>1. StateOf(pinned).revoked = {}
          BY <4>3 DEF StateOf, FbStart
        <5> QED
          BY <5>1
      <4>4. CASE pinned # <<>>
        <5>1. Len(pinned) \in 1..Len(pinned)
          BY <2>1, <4>4
        <5>2. StateOf(pinned) = fbJournal[Len(pinned)] /\ Len(pinned) \in 1..Len(fbJournal)
          BY <2>1, <4>2, <4>4, <5>1 DEF StateOf, Reached
        <5> QED
          BY <3>2, <5>2
      <4> QED
        BY <4>3, <4>4
    <3>5. StateOf(resident[p]).active \notin knownAt[p]
      BY <3>1, <3>2, <3>3
    <3>6. ~replaced => StateOf(resident[p]).active \notin StateOf(pinned).revoked
      BY Zenon, <3>1, <3>4
    <3> QED
      BY Zenon, <3>5, <3>6
  <2>4. RevokedStaysOut
    BY <2>2, <2>3 DEF RevokedStaysOut
  <2>5. ASSUME NEW i \in 1..Len(fbJournal)
        PROVE  StateOf(SubSeq(fbJournal, 1, i - 1)) = PriorState(fbJournal, i)
    <3> DEFINE n == i - 1
               g == SubSeq(fbJournal, 1, n)
    <3>1. n \in Nat /\ n <= Len(fbJournal) /\ i = n + 1
      BY <2>1
    <3>2. g \in Seq(FbState) /\ Len(g) = n /\ \A k \in 1..n : g[k] = fbJournal[k]
      BY <2>1, <3>1
    <3> HIDE DEF g, n
    <3>3. CASE n = 0
      <4>1. g = <<>>
        BY <3>2, <3>3
      <4> QED
        BY <3>1, <3>3, <4>1 DEF StateOf, PriorState, g, n
    <3>4. CASE n # 0
      <4>1. g # <<>> /\ n \in 1..n
        BY <3>1, <3>2, <3>4
      <4>2. StateOf(g) = fbJournal[n]
        BY <3>2, <4>1 DEF StateOf
      <4>3. PriorState(fbJournal, i) = fbJournal[n]
        <5>1. i # 1 /\ i - 1 = n
          BY <3>1, <3>4
        <5> QED
          BY <5>1 DEF PriorState
      <4> QED
        BY <4>2, <4>3 DEF g, n
    <3> QED
      BY <3>3, <3>4
  <2>6. CanariesKept
    <3> SUFFICES ASSUME NEW i \in 1..Len(fbJournal)
                 PROVE  LET st == fbJournal[i]
                            before == StateOf(SubSeq(fbJournal, 1, i - 1))
                        IN  /\ before.canaries \subseteq st.canaries
                            /\ Len(st.order) > Len(before.order) =>
                                   Passes(st.active, st.canaries) = st.canaries
      BY DEF CanariesKept
    <3>1. Follows(PriorState(fbJournal, i), fbJournal[i])
      BY <2>1 DEF HistoryLawful
    <3> QED
      BY <2>5, <3>1 DEF Follows
  <2> QED
    BY <2>4, <2>6 DEF FeedbackGoverned
<1> QED
  BY <1>1, FbInductive, PTL
=============================================================================
