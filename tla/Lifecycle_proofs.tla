--------------------------- MODULE Lifecycle_proofs ---------------------------
(***************************************************************************)
(* A checkpoint is accepted at most once, a commit event tells the truth   *)
(* and a permit-bound operation keeps its accepted state, for every number *)
(* of processes, checkpoints, admissions and crashes.                      *)
(***************************************************************************)
EXTENDS Lifecycle, TLAPS

\* Labels inside the action lock, whatever was called.
LockLabels == {"prepare", "assure", "publish", "commit", "act"}

\* Labels of a checkpoint in progress; those after its CANDIDATE_PREPARED.
CheckpointLabels == {"prepare", "assure", "publish", "commit"}
PreparedLabels == {"assure", "publish", "commit"}

LockInv ==
    \A p \in Processes : pc[p] \in LockLabels => lock = p

\* An id names one checkpoint, and an event names the checkpoint of its id.
StoreInv ==
    /\ \A c, d \in DOMAIN ckpts : ckpts[c].id = ckpts[d].id => c = d
    /\ \A ev \in journal : ev.ckpt \in DOMAIN ckpts /\ ckpts[ev.ckpt].id = ev.id

\* The local values of a checkpoint and of a reconstruction in progress.
LocalInv ==
    \A p \in Processes :
        /\ pc[p] \in CheckpointLabels =>
               loc[p].ckpt \in DOMAIN ckpts /\ ckpts[loc[p].ckpt].id = loc[p].id
        /\ pc[p] \in {"payload", "reconcile"} => Len(published) > 0
        /\ pc[p] = "reconcile" => loc[p].ckpt \in DOMAIN ckpts
        /\ pc[p] = "status" /\ loc[p].ckpt # 0 => Len(published) > 0

\* One event per id and type; the prepared event of a checkpoint in progress.
PreparedInv ==
    /\ \A ev, old \in journal : ev.id = old.id /\ ev.type = old.type => ev = old
    /\ \A p \in Processes : pc[p] \in PreparedLabels => PreparedEvent(p) \in journal

\* A checkpoint accepted as generation g was prepared against generation g - 1:
\* the journal pins the only generation at which it can ever be published.
PublishedInv ==
    \A g \in DOMAIN published :
        \E ev \in journal : /\ ev.type = "CANDIDATE_PREPARED"
                            /\ ev.ckpt = published[g]
                            /\ ev.gen = g - 2

CommitInv ==
    \A p \in Processes :
        pc[p] = "commit" => /\ loc[p].gen + 2 \in DOMAIN published
                            /\ published[loc[p].gen + 2] = loc[p].ckpt

IInv ==
    /\ TypeOK /\ LockInv /\ StoreInv /\ LocalInv /\ PreparedInv /\ PublishedInv
    /\ CommitInv /\ PublishedOnce /\ CommitTruthful /\ ActsUnderAccepted

\* Fresh local values are typed.
LEMMA FreshLocals == NoLocals \in Locals
BY LifecycleAssumption DEF NoLocals, Locals

\* So are those a reconstruction starts with.
LEMMA ReadLocals ==
    ASSUME NEW n \in Nat, NEW g \in Int, NEW m \in 0..MaxMemory, NEW mint \in BOOLEAN
    PROVE  [NoLocals EXCEPT !.mem = m, !.mint = mint, !.latest = n, !.gen = g] \in Locals
BY FreshLocals DEF Locals

\* And those a permit-bound operation starts with.
LEMMA PermitLocals ==
    ASSUME NEW c \in Nat, NEW g \in Int
    PROVE  [NoLocals EXCEPT !.ckpt = c, !.gen = g] \in Locals
BY FreshLocals DEF Locals

\* Without an accepted checkpoint reconstruct() reports no accepted status.
LEMMA NothingAccepted ==
    ASSUME NEW latest \in Nat, NEW mem, NEW reconciled
    PROVE  Status(0, latest, mem, reconciled) \in {"EMPTY", "PENDING_CANDIDATE"}
BY DEF Status

\* The local values of a checkpoint in progress are typed.
LEMMA CheckpointLocals ==
    ASSUME TypeOK, LocalInv, NEW p \in Processes, pc[p] \in CheckpointLabels
    PROVE  loc[p].id \in CheckpointIds /\ loc[p].ckpt \in Nat \ {0} /\ loc[p].gen \in Int
<1>1. loc[p].ckpt \in 1..Len(ckpts) /\ ckpts[loc[p].ckpt].id = loc[p].id
  BY DEF LocalInv, TypeOK
<1>2. ckpts[loc[p].ckpt] \in Checkpoint
  BY <1>1 DEF TypeOK
<1>3. loc[p] \in Locals
  BY DEF TypeOK
<1> QED
  BY <1>1, <1>2, <1>3 DEF Checkpoint, Locals, TypeOK

\* What checkpoint() does to the recovery chain: stored checkpoints stay, ids stay
\* unique, and the checkpoint of this id is the one the process goes on with.
LEMMA BeginFacts ==
    ASSUME TypeOK, StoreInv, NEW p \in Processes, NEW id \in CheckpointIds,
           NEW gen \in -1..Generation, NEW drifted \in BOOLEAN,
           CheckpointBegin(p, id, gen, drifted)
    PROVE  /\ ckpts' \in Seq(Checkpoint)
           /\ Len(ckpts) <= Len(ckpts')
           /\ \A c \in DOMAIN ckpts : c \in DOMAIN ckpts' /\ ckpts'[c] = ckpts[c]
           /\ \A c, d \in DOMAIN ckpts' : ckpts'[c].id = ckpts'[d].id => c = d
           /\ loc' = [loc EXCEPT ![p] = loc'[p]]
           /\ loc'[p] \in Locals
           /\ loc'[p].id = id
           /\ loc'[p].ckpt \in DOMAIN ckpts'
           /\ ckpts'[loc'[p].ckpt].id = id
<1> DEFINE c0 == CHOOSE c \in DOMAIN ckpts' : ckpts'[c].id = id
           l0 == [NoLocals EXCEPT !.id = id, !.gen = gen, !.drifted = drifted,
                                  !.ckpt = c0]
<1>1. loc' = [loc EXCEPT ![p] = l0] /\ loc'[p] = l0
  BY DEF CheckpointBegin, TypeOK
<1>4. ASSUME c0 \in Nat PROVE l0 \in Locals /\ l0.id = id /\ l0.ckpt = c0
  <2>1. gen \in Int
    BY DEF Generation, TypeOK
  <2> HIDE DEF c0
  <2> QED
    BY <1>4, <2>1, FreshLocals DEF Locals
<1>2. CASE Stored(id) = {} /\ ckpts' = Append(ckpts, [id |-> id, mem |-> memory])
  <2>1. /\ ckpts' \in Seq(Checkpoint)
        /\ Len(ckpts') = Len(ckpts) + 1
        /\ \A c \in DOMAIN ckpts : c \in DOMAIN ckpts' /\ ckpts'[c] = ckpts[c]
        /\ Len(ckpts) + 1 \in DOMAIN ckpts'
        /\ ckpts'[Len(ckpts) + 1].id = id
    BY <1>2 DEF TypeOK, Checkpoint
  <2>2. \A c, d \in DOMAIN ckpts' : ckpts'[c].id = ckpts'[d].id => c = d
    BY <1>2, <2>1 DEF TypeOK, StoreInv, Stored
  <2>3. c0 \in DOMAIN ckpts' /\ ckpts'[c0].id = id
    BY <2>1
  <2>4. c0 \in Nat
    BY <2>1, <2>3
  <2>5. Len(ckpts) <= Len(ckpts')
    BY <2>1 DEF TypeOK
  <2> HIDE DEF c0, l0
  <2>6. loc'[p] \in Locals /\ loc'[p].id = id /\ loc'[p].ckpt = c0
    BY <1>1, <1>4, <2>4
  <2>7. loc' = [loc EXCEPT ![p] = loc'[p]]
    BY <1>1
  <2> QED
    BY <2>1, <2>2, <2>3, <2>5, <2>6, <2>7
<1>3. CASE ckpts' = ckpts /\ \E c \in Stored(id) : ckpts[c].mem = memory
  <2>1. c0 \in DOMAIN ckpts' /\ ckpts'[c0].id = id
    BY <1>3 DEF Stored
  <2>2. c0 \in Nat
    BY <1>3, <2>1 DEF TypeOK
  <2> HIDE DEF c0, l0
  <2> QED
    BY <1>1, <1>4, <1>3, <2>1, <2>2 DEF TypeOK, StoreInv
<1> QED
  BY <1>2, <1>3 DEF CheckpointBegin

\* What an append does to the journal: nothing is lost, at most the new event is
\* added, it is there unless append raised, and ids and types stay unique.
LEMMA AppendFacts ==
    ASSUME NEW ev, JournalAppend(ev),
           \A e, old \in journal : e.id = old.id /\ e.type = old.type => e = old
    PROVE  /\ journal \subseteq journal'
           /\ journal' \subseteq journal \cup {ev}
           /\ JournalAccepts(ev) => ev \in journal'
           /\ \A e, old \in journal' : e.id = old.id /\ e.type = old.type => e = old
BY DEF JournalAppend, HasEvent, JournalAccepts

\* The action lock is held from the first to the last step of its operation.
LEMMA LockStep == IInv /\ [Next]_vars => LockInv'
<1> SUFFICES ASSUME IInv, [Next]_vars PROVE LockInv'
  OBVIOUS
<1> USE LifecycleAssumption
<1> USE DEF IInv, TypeOK, LockInv, LockLabels
<1>1. ASSUME NEW p \in Processes, NEW id \in CheckpointIds, NEW gen \in -1..Generation,
             NEW drifted \in BOOLEAN, CheckpointBegin(p, id, gen, drifted)
      PROVE  LockInv'
  BY <1>1 DEF CheckpointBegin, Goto
<1>2. ASSUME NEW p \in Processes, CheckpointPrepare(p)
      PROVE  LockInv'
  BY <1>2 DEF CheckpointPrepare, PreparedEvent, JournalEvent, Goto
<1>3. ASSUME NEW p \in Processes, CheckpointBlock(p)
      PROVE  LockInv'
  BY <1>3 DEF CheckpointBlock, JournalEvent, Finish, Goto
<1>4. ASSUME NEW p \in Processes, CheckpointAssure(p)
      PROVE  LockInv'
  BY <1>4 DEF CheckpointAssure, JournalEvent, Goto
<1>5. ASSUME NEW p \in Processes, CheckpointPublish(p)
      PROVE  LockInv'
  BY <1>5 DEF CheckpointPublish, Generation, Goto
<1>6. ASSUME NEW p \in Processes, CheckpointCommit(p)
      PROVE  LockInv'
  BY <1>6 DEF CheckpointCommit, JournalEvent, Finish, Goto
<1>7. ASSUME NEW p \in Processes, NEW mint \in BOOLEAN, ReconstructBegin(p, mint)
      PROVE  LockInv'
  BY <1>7 DEF ReconstructBegin, Generation, Goto
<1>8. ASSUME NEW p \in Processes, ReconstructPayload(p)
      PROVE  LockInv'
  BY <1>8 DEF ReconstructPayload, Accepted, Goto
<1>9. ASSUME NEW p \in Processes, ReconstructReconcile(p)
      PROVE  LockInv'
  BY <1>9 DEF ReconstructReconcile, ReconciledEvent, JournalEvent, Goto
<1>10. ASSUME NEW p \in Processes, MintPermit(p)
      PROVE  LockInv'
  BY <1>10 DEF MintPermit, Finish, Goto
<1>11. ASSUME NEW p \in Processes, NEW i \in DOMAIN permits, ActBegin(p, i)
      PROVE  LockInv'
  BY <1>11 DEF ActBegin, Goto
<1>12. ASSUME NEW p \in Processes, Raise(p)
      PROVE  LockInv'
  BY <1>12 DEF Raise, Finish, Goto
<1>13. ASSUME NEW p \in Processes, Crash(p)
      PROVE  LockInv'
  BY <1>13 DEF Crash, Finish, Goto
<1>14. CASE MemoryAdmit
  BY <1>14 DEF MemoryAdmit
<1>15. CASE UNCHANGED vars
  BY <1>15 DEF vars
<1> HIDE DEF IInv, TypeOK, LockInv, LockLabels
<1> QED
  BY <1>1, <1>2, <1>3, <1>4, <1>5, <1>6, <1>7, <1>8, <1>9, <1>10, <1>11,
     <1>12, <1>13, <1>14, <1>15
  DEF Next, Begin, Continue, PrepareRefused, AssureRefused, PublishRefused,
      ReconcileRefused, ReconstructEnd, ActEnd

\* Only the holder of the lock publishes, so what it published stays the last.
LEMMA CommitStep == IInv /\ [Next]_vars => CommitInv'
<1> SUFFICES ASSUME IInv, [Next]_vars PROVE CommitInv'
  OBVIOUS
<1> USE LifecycleAssumption
<1> USE DEF IInv, TypeOK, LockInv, CommitInv, LockLabels
<1>1. ASSUME NEW p \in Processes, NEW id \in CheckpointIds, NEW gen \in -1..Generation,
             NEW drifted \in BOOLEAN, CheckpointBegin(p, id, gen, drifted)
      PROVE  CommitInv'
  BY <1>1 DEF CheckpointBegin, Goto
<1>2. ASSUME NEW p \in Processes, CheckpointPrepare(p)
      PROVE  CommitInv'
  BY <1>2 DEF CheckpointPrepare, PreparedEvent, JournalEvent, Goto
<1>3. ASSUME NEW p \in Processes, CheckpointBlock(p)
      PROVE  CommitInv'
  BY <1>3 DEF CheckpointBlock, JournalEvent, Finish, Goto
<1>4. ASSUME NEW p \in Processes, CheckpointAssure(p)
      PROVE  CommitInv'
  BY <1>4 DEF CheckpointAssure, JournalEvent, Goto
<1>5. ASSUME NEW p \in Processes, CheckpointPublish(p)
      PROVE  CommitInv'
  <2>1. loc[p].gen + 2 = Len(published) + 1 /\ loc[p].gen \in Int
    BY <1>5 DEF CheckpointPublish, Generation, Locals
  <2>2. published' = Append(published, loc[p].ckpt)
    BY <1>5 DEF CheckpointPublish
  <2>3. Len(published) + 1 \in DOMAIN published'
        /\ published'[Len(published) + 1] = loc[p].ckpt
    BY <2>2
  <2>4. \A q \in Processes : pc'[q] = "commit" => q = p
    BY <1>5 DEF CheckpointPublish, Goto
  <2> QED
    BY <1>5, <2>1, <2>3, <2>4 DEF CheckpointPublish
<1>6. ASSUME NEW p \in Processes, CheckpointCommit(p)
      PROVE  CommitInv'
  BY <1>6 DEF CheckpointCommit, JournalEvent, Finish, Goto
<1>7. ASSUME NEW p \in Processes, NEW mint \in BOOLEAN, ReconstructBegin(p, mint)
      PROVE  CommitInv'
  BY <1>7 DEF ReconstructBegin, Generation, Goto
<1>8. ASSUME NEW p \in Processes, ReconstructPayload(p)
      PROVE  CommitInv'
  BY <1>8 DEF ReconstructPayload, Accepted, Goto
<1>9. ASSUME NEW p \in Processes, ReconstructReconcile(p)
      PROVE  CommitInv'
  BY <1>9 DEF ReconstructReconcile, ReconciledEvent, JournalEvent, Goto
<1>10. ASSUME NEW p \in Processes, MintPermit(p)
      PROVE  CommitInv'
  BY <1>10 DEF MintPermit, Finish, Goto
<1>11. ASSUME NEW p \in Processes, NEW i \in DOMAIN permits, ActBegin(p, i)
      PROVE  CommitInv'
  BY <1>11 DEF ActBegin, Goto
<1>12. ASSUME NEW p \in Processes, Raise(p)
      PROVE  CommitInv'
  BY <1>12 DEF Raise, Finish, Goto
<1>13. ASSUME NEW p \in Processes, Crash(p)
      PROVE  CommitInv'
  BY <1>13 DEF Crash, Finish, Goto
<1>14. CASE MemoryAdmit
  BY <1>14 DEF MemoryAdmit
<1>15. CASE UNCHANGED vars
  BY <1>15 DEF vars
<1> HIDE DEF IInv, TypeOK, LockInv, CommitInv, LockLabels
<1> QED
  BY <1>1, <1>2, <1>3, <1>4, <1>5, <1>6, <1>7, <1>8, <1>9, <1>10, <1>11,
     <1>12, <1>13, <1>14, <1>15
  DEF Next, Begin, Continue, PrepareRefused, AssureRefused, PublishRefused,
      ReconcileRefused, ReconstructEnd, ActEnd

\* No checkpoint starts or publishes while an operation holds the lock.
LEMMA ActsStep == IInv /\ [Next]_vars => ActsUnderAccepted'
<1> SUFFICES ASSUME IInv, [Next]_vars PROVE ActsUnderAccepted'
  OBVIOUS
<1> USE LifecycleAssumption
<1> USE DEF IInv, TypeOK, LockInv, LockLabels, ActsUnderAccepted, Accepted,
        Generation
<1>1. ASSUME NEW p \in Processes, NEW id \in CheckpointIds, NEW gen \in -1..Generation,
             NEW drifted \in BOOLEAN, CheckpointBegin(p, id, gen, drifted)
      PROVE  ActsUnderAccepted'
  BY <1>1 DEF CheckpointBegin, Goto
<1>2. ASSUME NEW p \in Processes, CheckpointPrepare(p)
      PROVE  ActsUnderAccepted'
  BY <1>2 DEF CheckpointPrepare, PreparedEvent, JournalEvent, Goto
<1>3. ASSUME NEW p \in Processes, CheckpointBlock(p)
      PROVE  ActsUnderAccepted'
  BY <1>3 DEF CheckpointBlock, JournalEvent, Finish, Goto
<1>4. ASSUME NEW p \in Processes, CheckpointAssure(p)
      PROVE  ActsUnderAccepted'
  BY <1>4 DEF CheckpointAssure, JournalEvent, Goto
<1>5. ASSUME NEW p \in Processes, CheckpointPublish(p)
      PROVE  ActsUnderAccepted'
  BY <1>5 DEF CheckpointPublish, Generation, Goto
<1>6. ASSUME NEW p \in Processes, CheckpointCommit(p)
      PROVE  ActsUnderAccepted'
  BY <1>6 DEF CheckpointCommit, JournalEvent, Finish, Goto
<1>7. ASSUME NEW p \in Processes, NEW mint \in BOOLEAN, ReconstructBegin(p, mint)
      PROVE  ActsUnderAccepted'
  BY <1>7 DEF ReconstructBegin, Generation, Goto
<1>8. ASSUME NEW p \in Processes, ReconstructPayload(p)
      PROVE  ActsUnderAccepted'
  BY <1>8 DEF ReconstructPayload, Accepted, Goto
<1>9. ASSUME NEW p \in Processes, ReconstructReconcile(p)
      PROVE  ActsUnderAccepted'
  BY <1>9 DEF ReconstructReconcile, ReconciledEvent, JournalEvent, Goto
<1>10. ASSUME NEW p \in Processes, MintPermit(p)
      PROVE  ActsUnderAccepted'
  BY <1>10 DEF MintPermit, Finish, Goto
<1>11. ASSUME NEW p \in Processes, NEW i \in DOMAIN permits, ActBegin(p, i)
      PROVE  ActsUnderAccepted'
  <2>1. Len(published) > 0 /\ permits[i].ckpt = Accepted /\ permits[i].gen = Generation
    BY <1>11 DEF ActBegin, PermitValid
  <2>2. ~ Len(ckpts) > Accepted
    BY <1>11 DEF ActBegin, PermitValid, Status
  <2>3. Accepted <= Len(ckpts)
    BY <2>1
  <2>4. loc'[p].ckpt = Accepted /\ loc'[p].gen = Generation
    BY <1>11, <2>1 DEF ActBegin, NoLocals
  <2> QED
    BY <1>11, <2>1, <2>2, <2>3, <2>4 DEF ActBegin, Goto
<1>12. ASSUME NEW p \in Processes, Raise(p)
      PROVE  ActsUnderAccepted'
  BY <1>12 DEF Raise, Finish, Goto
<1>13. ASSUME NEW p \in Processes, Crash(p)
      PROVE  ActsUnderAccepted'
  BY <1>13 DEF Crash, Finish, Goto
<1>14. CASE MemoryAdmit
  BY <1>14 DEF MemoryAdmit
<1>15. CASE UNCHANGED vars
  BY <1>15 DEF vars
<1> HIDE DEF IInv, TypeOK, LockInv, LockLabels, ActsUnderAccepted, Accepted,
        Generation
<1> QED
  BY <1>1, <1>2, <1>3, <1>4, <1>5, <1>6, <1>7, <1>8, <1>9, <1>10, <1>11,
     <1>12, <1>13, <1>14, <1>15
  DEF Next, Begin, Continue, PrepareRefused, AssureRefused, PublishRefused,
      ReconcileRefused, ReconstructEnd, ActEnd

\* An id keeps its checkpoint and every event names the checkpoint of its id.
LEMMA StoreStep == IInv /\ [Next]_vars => StoreInv'
<1> SUFFICES ASSUME IInv, [Next]_vars PROVE StoreInv'
  OBVIOUS
<1> USE LifecycleAssumption
<1> USE DEF IInv, TypeOK, StoreInv
<1>1. ASSUME NEW p \in Processes, NEW id \in CheckpointIds, NEW gen \in -1..Generation,
             NEW drifted \in BOOLEAN, CheckpointBegin(p, id, gen, drifted)
      PROVE  StoreInv'
  <2>1. journal' = journal
    BY <1>1 DEF CheckpointBegin
  <2> QED
    BY <1>1, <2>1, BeginFacts
<1>2. ASSUME NEW p \in Processes, CheckpointPrepare(p)
      PROVE  StoreInv'
  <2> DEFINE ev == PreparedEvent(p)
  <2>1. JournalAppend(ev)
    BY <1>2 DEF CheckpointPrepare
  <2>2. journal' \subseteq journal \cup {ev}
    BY <2>1, AppendFacts DEF PreparedInv
  <2>3. ev.ckpt \in DOMAIN ckpts /\ ckpts[ev.ckpt].id = ev.id
    BY <1>2 DEF CheckpointPrepare, LocalInv, CheckpointLabels, PreparedEvent, ReconciledEvent, JournalEvent
  <2> QED
    BY <1>2, <2>2, <2>3 DEF CheckpointPrepare
<1>3. ASSUME NEW p \in Processes, CheckpointBlock(p)
      PROVE  StoreInv'
  <2> DEFINE ev == JournalEvent(loc[p].id, "ASSURANCE_BLOCKED", loc[p].ckpt, -1)
  <2>1. JournalAppend(ev)
    BY <1>3 DEF CheckpointBlock
  <2>2. journal' \subseteq journal \cup {ev}
    BY <2>1, AppendFacts DEF PreparedInv
  <2>3. ev.ckpt \in DOMAIN ckpts /\ ckpts[ev.ckpt].id = ev.id
    BY <1>3 DEF CheckpointBlock, LocalInv, CheckpointLabels, PreparedEvent, ReconciledEvent, JournalEvent
  <2> QED
    BY <1>3, <2>2, <2>3 DEF CheckpointBlock
<1>4. ASSUME NEW p \in Processes, CheckpointAssure(p)
      PROVE  StoreInv'
  <2> DEFINE ev == JournalEvent(loc[p].id, "ASSURANCE_PASSED", loc[p].ckpt, -1)
  <2>1. JournalAppend(ev)
    BY <1>4 DEF CheckpointAssure
  <2>2. journal' \subseteq journal \cup {ev}
    BY <2>1, AppendFacts DEF PreparedInv
  <2>3. ev.ckpt \in DOMAIN ckpts /\ ckpts[ev.ckpt].id = ev.id
    BY <1>4 DEF CheckpointAssure, LocalInv, CheckpointLabels, PreparedEvent, ReconciledEvent, JournalEvent
  <2> QED
    BY <1>4, <2>2, <2>3 DEF CheckpointAssure
<1>5. ASSUME NEW p \in Processes, CheckpointPublish(p)
      PROVE  StoreInv'
  BY <1>5 DEF CheckpointPublish, Generation, Goto
<1>6. ASSUME NEW p \in Processes, CheckpointCommit(p)
      PROVE  StoreInv'
  <2> DEFINE ev == JournalEvent(loc[p].id, "CURRENTNESS_COMMITTED", loc[p].ckpt,
                            loc[p].gen + 1)
  <2>1. JournalAppend(ev)
    BY <1>6 DEF CheckpointCommit
  <2>2. journal' \subseteq journal \cup {ev}
    BY <2>1, AppendFacts DEF PreparedInv
  <2>3. ev.ckpt \in DOMAIN ckpts /\ ckpts[ev.ckpt].id = ev.id
    BY <1>6 DEF CheckpointCommit, LocalInv, CheckpointLabels, PreparedEvent, ReconciledEvent, JournalEvent
  <2> QED
    BY <1>6, <2>2, <2>3 DEF CheckpointCommit
<1>7. ASSUME NEW p \in Processes, NEW mint \in BOOLEAN, ReconstructBegin(p, mint)
      PROVE  StoreInv'
  BY <1>7 DEF ReconstructBegin, Generation, Goto
<1>8. ASSUME NEW p \in Processes, ReconstructPayload(p)
      PROVE  StoreInv'
  BY <1>8 DEF ReconstructPayload, Accepted, Goto
<1>9. ASSUME NEW p \in Processes, ReconstructReconcile(p)
      PROVE  StoreInv'
  <2> DEFINE ev == ReconciledEvent(p)
  <2>1. JournalAppend(ev)
    BY <1>9 DEF ReconstructReconcile
  <2>2. journal' \subseteq journal \cup {ev}
    BY <2>1, AppendFacts DEF PreparedInv
  <2>3. ev.ckpt \in DOMAIN ckpts /\ ckpts[ev.ckpt].id = ev.id
    BY <1>9 DEF ReconstructReconcile, LocalInv, CheckpointLabels, PreparedEvent, ReconciledEvent, JournalEvent
  <2> QED
    BY <1>9, <2>2, <2>3 DEF ReconstructReconcile
<1>10. ASSUME NEW p \in Processes, MintPermit(p)
      PROVE  StoreInv'
  BY <1>10 DEF MintPermit, Finish, Goto
<1>11. ASSUME NEW p \in Processes, NEW i \in DOMAIN permits, ActBegin(p, i)
      PROVE  StoreInv'
  BY <1>11 DEF ActBegin, Goto
<1>12. ASSUME NEW p \in Processes, Raise(p)
      PROVE  StoreInv'
  BY <1>12 DEF Raise, Finish, Goto
<1>13. ASSUME NEW p \in Processes, Crash(p)
      PROVE  StoreInv'
  BY <1>13 DEF Crash, Finish, Goto
<1>14. CASE MemoryAdmit
  BY <1>14 DEF MemoryAdmit
<1>15. CASE UNCHANGED vars
  BY <1>15 DEF vars
<1> HIDE DEF IInv, TypeOK, StoreInv
<1> QED
  BY <1>1, <1>2, <1>3, <1>4, <1>5, <1>6, <1>7, <1>8, <1>9, <1>10, <1>11,
     <1>12, <1>13, <1>14, <1>15
  DEF Next, Begin, Continue, PrepareRefused, AssureRefused, PublishRefused,
      ReconcileRefused, ReconstructEnd, ActEnd

\* Stored checkpoints and publications never disappear.
LEMMA LocalStep == IInv /\ [Next]_vars => LocalInv'
<1> SUFFICES ASSUME IInv, [Next]_vars PROVE LocalInv'
  OBVIOUS
<1> USE LifecycleAssumption
<1> USE DEF IInv, TypeOK, LocalInv, CheckpointLabels
<1>1. ASSUME NEW p \in Processes, NEW id \in CheckpointIds, NEW gen \in -1..Generation,
             NEW drifted \in BOOLEAN, CheckpointBegin(p, id, gen, drifted)
      PROVE  LocalInv'
  <2>1. /\ \A c \in DOMAIN ckpts : c \in DOMAIN ckpts' /\ ckpts'[c] = ckpts[c]
        /\ loc'[p].id = id
        /\ loc'[p].ckpt \in DOMAIN ckpts' /\ ckpts'[loc'[p].ckpt].id = id
        /\ \A q \in Processes : q # p => loc'[q] = loc[q]
    BY <1>1, BeginFacts
  <2>2. pc' = [pc EXCEPT ![p] = "prepare"] /\ published' = published
    BY <1>1 DEF CheckpointBegin, Goto
  <2> QED
    BY <2>1, <2>2
<1>2. ASSUME NEW p \in Processes, CheckpointPrepare(p)
      PROVE  LocalInv'
  BY <1>2 DEF CheckpointPrepare, PreparedEvent, JournalEvent, Goto
<1>3. ASSUME NEW p \in Processes, CheckpointBlock(p)
      PROVE  LocalInv'
  BY <1>3 DEF CheckpointBlock, JournalEvent, Finish, Goto
<1>4. ASSUME NEW p \in Processes, CheckpointAssure(p)
      PROVE  LocalInv'
  BY <1>4 DEF CheckpointAssure, JournalEvent, Goto
<1>5. ASSUME NEW p \in Processes, CheckpointPublish(p)
      PROVE  LocalInv'
  <2>1. Len(published') = Len(published) + 1
    BY <1>5 DEF CheckpointPublish, Locals
  <2> QED
    BY <1>5, <2>1 DEF CheckpointPublish, Goto
<1>6. ASSUME NEW p \in Processes, CheckpointCommit(p)
      PROVE  LocalInv'
  BY <1>6 DEF CheckpointCommit, JournalEvent, Finish, Goto
<1>7. ASSUME NEW p \in Processes, NEW mint \in BOOLEAN, ReconstructBegin(p, mint)
      PROVE  LocalInv'
  <2>1. loc'[p].ckpt = 0 /\ \A q \in Processes : q # p => loc'[q] = loc[q]
    BY <1>7 DEF ReconstructBegin, NoLocals
  <2>2. published = <<>> \/ Len(published) > 0
    OBVIOUS
  <2> QED
    BY <1>7, <2>1, <2>2 DEF ReconstructBegin, Goto
<1>8. ASSUME NEW p \in Processes, ReconstructPayload(p)
      PROVE  LocalInv'
  <2>1. Accepted \in DOMAIN ckpts
    BY <1>8 DEF ReconstructPayload, Accepted
  <2>2. loc' = [loc EXCEPT ![p].ckpt = Accepted]
    BY <1>8 DEF ReconstructPayload
  <2>3. loc'[p].ckpt = Accepted /\ \A q \in Processes : q # p => loc'[q] = loc[q]
    BY <2>2 DEF Locals
  <2> QED
    BY <1>8, <2>1, <2>3 DEF ReconstructPayload, Goto
<1>9. ASSUME NEW p \in Processes, ReconstructReconcile(p)
      PROVE  LocalInv'
  <2>1. loc'[p].ckpt = loc[p].ckpt /\ \A q \in Processes : q # p => loc'[q] = loc[q]
    BY <1>9 DEF ReconstructReconcile, Locals
  <2>2. Len(ckpts) > 0 /\ loc[p].ckpt # 0
    BY <1>9 DEF ReconstructReconcile
  <2> QED
    BY <1>9, <2>1 DEF ReconstructReconcile, Goto
<1>10. ASSUME NEW p \in Processes, MintPermit(p)
      PROVE  LocalInv'
  BY <1>10 DEF MintPermit, Finish, Goto
<1>11. ASSUME NEW p \in Processes, NEW i \in DOMAIN permits, ActBegin(p, i)
      PROVE  LocalInv'
  BY <1>11 DEF ActBegin, Goto
<1>12. ASSUME NEW p \in Processes, Raise(p)
      PROVE  LocalInv'
  BY <1>12 DEF Raise, Finish, Goto
<1>13. ASSUME NEW p \in Processes, Crash(p)
      PROVE  LocalInv'
  BY <1>13 DEF Crash, Finish, Goto
<1>14. CASE MemoryAdmit
  BY <1>14 DEF MemoryAdmit
<1>15. CASE UNCHANGED vars
  BY <1>15 DEF vars
<1> HIDE DEF IInv, TypeOK, LocalInv, CheckpointLabels
<1> QED
  BY <1>1, <1>2, <1>3, <1>4, <1>5, <1>6, <1>7, <1>8, <1>9, <1>10, <1>11,
     <1>12, <1>13, <1>14, <1>15
  DEF Next, Begin, Continue, PrepareRefused, AssureRefused, PublishRefused,
      ReconcileRefused, ReconstructEnd, ActEnd

\* The journal keeps one event per id and type and loses none.
LEMMA PreparedStep == IInv /\ [Next]_vars => PreparedInv'
<1> SUFFICES ASSUME IInv, [Next]_vars PROVE PreparedInv'
  OBVIOUS
<1> USE LifecycleAssumption
<1> USE DEF IInv, TypeOK, PreparedInv, PreparedLabels
<1>1. ASSUME NEW p \in Processes, NEW id \in CheckpointIds, NEW gen \in -1..Generation,
             NEW drifted \in BOOLEAN, CheckpointBegin(p, id, gen, drifted)
      PROVE  PreparedInv'
  <2>1. \A q \in Processes : pc'[q] \in PreparedLabels =>
            pc[q] \in PreparedLabels /\ loc'[q] = loc[q]
    BY <1>1 DEF CheckpointBegin, Goto
  <2>2. journal' = journal
    BY <1>1 DEF CheckpointBegin
  <2> QED
    BY <2>1, <2>2 DEF PreparedEvent, JournalEvent
<1>2. ASSUME NEW p \in Processes, CheckpointPrepare(p)
      PROVE  PreparedInv'
  <2> DEFINE ev == PreparedEvent(p)
  <2>1. JournalAppend(ev)
    BY <1>2 DEF CheckpointPrepare
  <2>2. journal' \subseteq journal \cup {ev}
    BY <2>1, AppendFacts DEF PreparedInv
  <2>3. journal \subseteq journal'
        /\ \A e, old \in journal' : e.id = old.id /\ e.type = old.type => e = old
    BY <2>1, AppendFacts
  <2>4. ev \in journal'
    BY <1>2, <2>1, AppendFacts DEF CheckpointPrepare
  <2>5. loc' = loc /\ pc' = [pc EXCEPT ![p] = "assure"]
    BY <1>2 DEF CheckpointPrepare, Goto
  <2> QED
    BY <2>3, <2>4, <2>5 DEF PreparedEvent, JournalEvent
<1>3. ASSUME NEW p \in Processes, CheckpointBlock(p)
      PROVE  PreparedInv'
  <2> DEFINE ev == JournalEvent(loc[p].id, "ASSURANCE_BLOCKED", loc[p].ckpt, -1)
  <2>1. JournalAppend(ev)
    BY <1>3 DEF CheckpointBlock
  <2>2. journal' \subseteq journal \cup {ev}
    BY <2>1, AppendFacts DEF PreparedInv
  <2>3. journal \subseteq journal'
        /\ \A e, old \in journal' : e.id = old.id /\ e.type = old.type => e = old
    BY <2>1, AppendFacts
  <2>4. \A q \in Processes : pc'[q] \in PreparedLabels =>
            pc[q] \in PreparedLabels /\ loc'[q] = loc[q]
    BY <1>3 DEF CheckpointBlock, Finish, Goto
  <2> QED
    BY <2>3, <2>4 DEF PreparedEvent, JournalEvent
<1>4. ASSUME NEW p \in Processes, CheckpointAssure(p)
      PROVE  PreparedInv'
  <2> DEFINE ev == JournalEvent(loc[p].id, "ASSURANCE_PASSED", loc[p].ckpt, -1)
  <2>1. JournalAppend(ev)
    BY <1>4 DEF CheckpointAssure
  <2>2. journal' \subseteq journal \cup {ev}
    BY <2>1, AppendFacts DEF PreparedInv
  <2>3. journal \subseteq journal'
        /\ \A e, old \in journal' : e.id = old.id /\ e.type = old.type => e = old
    BY <2>1, AppendFacts
  <2>4. \A q \in Processes : pc'[q] \in PreparedLabels =>
            pc[q] \in PreparedLabels /\ loc'[q] = loc[q]
    BY <1>4 DEF CheckpointAssure, Finish, Goto
  <2> QED
    BY <2>3, <2>4 DEF PreparedEvent, JournalEvent
<1>5. ASSUME NEW p \in Processes, CheckpointPublish(p)
      PROVE  PreparedInv'
  <2>1. \A q \in Processes : pc'[q] \in PreparedLabels =>
            pc[q] \in PreparedLabels /\ loc'[q] = loc[q]
    BY <1>5 DEF CheckpointPublish, Goto
  <2>2. journal' = journal
    BY <1>5 DEF CheckpointPublish
  <2> QED
    BY <2>1, <2>2 DEF PreparedEvent, JournalEvent
<1>6. ASSUME NEW p \in Processes, CheckpointCommit(p)
      PROVE  PreparedInv'
  <2> DEFINE ev == JournalEvent(loc[p].id, "CURRENTNESS_COMMITTED", loc[p].ckpt,
                            loc[p].gen + 1)
  <2>1. JournalAppend(ev)
    BY <1>6 DEF CheckpointCommit
  <2>2. journal' \subseteq journal \cup {ev}
    BY <2>1, AppendFacts DEF PreparedInv
  <2>3. journal \subseteq journal'
        /\ \A e, old \in journal' : e.id = old.id /\ e.type = old.type => e = old
    BY <2>1, AppendFacts
  <2>4. \A q \in Processes : pc'[q] \in PreparedLabels =>
            pc[q] \in PreparedLabels /\ loc'[q] = loc[q]
    BY <1>6 DEF CheckpointCommit, Finish, Goto
  <2> QED
    BY <2>3, <2>4 DEF PreparedEvent, JournalEvent
<1>7. ASSUME NEW p \in Processes, NEW mint \in BOOLEAN, ReconstructBegin(p, mint)
      PROVE  PreparedInv'
  <2>1. \A q \in Processes : pc'[q] \in PreparedLabels =>
            pc[q] \in PreparedLabels /\ loc'[q] = loc[q]
    BY <1>7 DEF ReconstructBegin, Goto
  <2>2. journal' = journal
    BY <1>7 DEF ReconstructBegin
  <2> QED
    BY <2>1, <2>2 DEF PreparedEvent, JournalEvent
<1>8. ASSUME NEW p \in Processes, ReconstructPayload(p)
      PROVE  PreparedInv'
  <2>1. \A q \in Processes : pc'[q] \in PreparedLabels =>
            pc[q] \in PreparedLabels /\ loc'[q] = loc[q]
    BY <1>8 DEF ReconstructPayload, Goto
  <2>2. journal' = journal
    BY <1>8 DEF ReconstructPayload
  <2> QED
    BY <2>1, <2>2 DEF PreparedEvent, JournalEvent
<1>9. ASSUME NEW p \in Processes, ReconstructReconcile(p)
      PROVE  PreparedInv'
  <2> DEFINE ev == ReconciledEvent(p)
  <2>1. JournalAppend(ev)
    BY <1>9 DEF ReconstructReconcile
  <2>2. journal' \subseteq journal \cup {ev}
    BY <2>1, AppendFacts DEF PreparedInv
  <2>3. journal \subseteq journal'
        /\ \A e, old \in journal' : e.id = old.id /\ e.type = old.type => e = old
    BY <2>1, AppendFacts
  <2>4. \A q \in Processes : pc'[q] \in PreparedLabels =>
            pc[q] \in PreparedLabels /\ loc'[q] = loc[q]
    BY <1>9 DEF ReconstructReconcile, Finish, Goto
  <2> QED
    BY <2>3, <2>4 DEF PreparedEvent, JournalEvent
<1>10. ASSUME NEW p \in Processes, MintPermit(p)
      PROVE  PreparedInv'
  <2>1. \A q \in Processes : pc'[q] \in PreparedLabels =>
            pc[q] \in PreparedLabels /\ loc'[q] = loc[q]
    BY <1>10 DEF MintPermit, Finish, Goto
  <2>2. journal' = journal
    BY <1>10 DEF MintPermit
  <2> QED
    BY <2>1, <2>2 DEF PreparedEvent, JournalEvent
<1>11. ASSUME NEW p \in Processes, NEW i \in DOMAIN permits, ActBegin(p, i)
      PROVE  PreparedInv'
  <2>1. \A q \in Processes : pc'[q] \in PreparedLabels =>
            pc[q] \in PreparedLabels /\ loc'[q] = loc[q]
    BY <1>11 DEF ActBegin, Goto
  <2>2. journal' = journal
    BY <1>11 DEF ActBegin
  <2> QED
    BY <2>1, <2>2 DEF PreparedEvent, JournalEvent
<1>12. ASSUME NEW p \in Processes, Raise(p)
      PROVE  PreparedInv'
  <2>1. \A q \in Processes : pc'[q] \in PreparedLabels =>
            pc[q] \in PreparedLabels /\ loc'[q] = loc[q]
    BY <1>12 DEF Raise, Finish, Goto
  <2>2. journal' = journal
    BY <1>12 DEF Raise
  <2> QED
    BY <2>1, <2>2 DEF PreparedEvent, JournalEvent
<1>13. ASSUME NEW p \in Processes, Crash(p)
      PROVE  PreparedInv'
  <2>1. \A q \in Processes : pc'[q] \in PreparedLabels =>
            pc[q] \in PreparedLabels /\ loc'[q] = loc[q]
    BY <1>13 DEF Crash, Finish, Goto
  <2>2. journal' = journal
    BY <1>13 DEF Crash
  <2> QED
    BY <2>1, <2>2 DEF PreparedEvent, JournalEvent
<1>14. CASE MemoryAdmit
  BY <1>14 DEF MemoryAdmit, PreparedEvent, JournalEvent
<1>15. CASE UNCHANGED vars
  BY <1>15 DEF vars, PreparedEvent, JournalEvent
<1> HIDE DEF IInv, TypeOK, PreparedInv, PreparedLabels
<1> QED
  BY <1>1, <1>2, <1>3, <1>4, <1>5, <1>6, <1>7, <1>8, <1>9, <1>10, <1>11,
     <1>12, <1>13, <1>14, <1>15
  DEF Next, Begin, Continue, PrepareRefused, AssureRefused, PublishRefused,
      ReconcileRefused, ReconstructEnd, ActEnd

\* The steps that publish: the one publication of a checkpoint in progress.
LEMMA PublishFrame ==
    [Next]_vars => published' = published \/ \E p \in Processes : CheckpointPublish(p)
BY DEF vars, Next, Begin, Continue, PrepareRefused, AssureRefused, PublishRefused,
   ReconcileRefused, ReconstructEnd, ActEnd, Raise, CheckpointBegin,
   CheckpointPrepare, CheckpointBlock, CheckpointAssure, CheckpointCommit,
   ReconstructBegin, ReconstructPayload, ReconstructReconcile, MintPermit, ActBegin,
   Crash, MemoryAdmit

\* The steps that write the journal lose no event; the only commit event they add
\* is that of the checkpoint being committed.
LEMMA JournalFrame ==
    [Next]_vars =>
        /\ journal \subseteq journal'
        /\ \A ev \in journal' \ journal :
               ev.type = "CURRENTNESS_COMMITTED" =>
                   \E p \in Processes :
                       /\ pc[p] = "commit"
                       /\ ev.ckpt = loc[p].ckpt
                       /\ ev.gen = loc[p].gen + 1
<1> SUFFICES ASSUME [Next]_vars,
                    ~ \/ journal' = journal
                      \/ \E p \in Processes : CheckpointCommit(p)
             PROVE  /\ journal \subseteq journal'
                    /\ \A ev \in journal' \ journal : ev.type # "CURRENTNESS_COMMITTED"
  BY DEF CheckpointCommit, JournalAppend, JournalEvent
<1>1. ASSUME NEW p \in Processes,
             \/ CheckpointPrepare(p) \/ CheckpointBlock(p)
             \/ CheckpointAssure(p)  \/ ReconstructReconcile(p)
      PROVE  /\ journal \subseteq journal'
             /\ \A ev \in journal' \ journal : ev.type # "CURRENTNESS_COMMITTED"
  BY <1>1 DEF CheckpointPrepare, CheckpointBlock, CheckpointAssure,
     ReconstructReconcile, JournalAppend, PreparedEvent, ReconciledEvent, JournalEvent
<1>2. \E p \in Processes : \/ CheckpointPrepare(p) \/ CheckpointBlock(p)
                           \/ CheckpointAssure(p)  \/ ReconstructReconcile(p)
  BY DEF vars, Next, Begin, Continue, PrepareRefused, AssureRefused, PublishRefused,
     ReconcileRefused, ReconstructEnd, ActEnd, Raise, CheckpointBegin,
     CheckpointPublish, ReconstructBegin, ReconstructPayload, MintPermit, ActBegin,
     Crash, MemoryAdmit
<1> QED
  BY <1>1, <1>2

\* A publication is the prepared one, and earlier ones keep their events.
LEMMA PublishedStep == IInv /\ [Next]_vars => PublishedInv'
<1> SUFFICES ASSUME IInv, [Next]_vars PROVE PublishedInv'
  OBVIOUS
<1>1. journal \subseteq journal'
  BY JournalFrame
<1>2. CASE published' = published
  BY <1>1, <1>2 DEF IInv, PublishedInv
<1>3. ASSUME NEW p \in Processes, CheckpointPublish(p) PROVE PublishedInv'
  <2>1. /\ published' = Append(published, loc[p].ckpt)
        /\ loc[p].gen = Len(published) - 1
        /\ published \in Seq(1..Len(ckpts)) /\ loc[p].ckpt \in 1..Len(ckpts)
    BY <1>3 DEF CheckpointPublish, Generation, IInv, TypeOK, LocalInv,
       CheckpointLabels
  <2>2. PreparedEvent(p) \in journal'
    BY <1>1, <1>3 DEF IInv, PreparedInv, PreparedLabels, CheckpointPublish
  <2>3. /\ PreparedEvent(p).type = "CANDIDATE_PREPARED"
        /\ PreparedEvent(p).ckpt = loc[p].ckpt
        /\ PreparedEvent(p).gen = (Len(published) + 1) - 2
    BY <2>1 DEF PreparedEvent, JournalEvent
  <2>4. /\ DOMAIN published' = DOMAIN published \cup {Len(published) + 1}
        /\ published'[Len(published) + 1] = loc[p].ckpt
        /\ \A g \in DOMAIN published : published'[g] = published[g]
    BY <2>1
  <2>5. ASSUME NEW g \in DOMAIN published'
        PROVE  \E ev \in journal' : /\ ev.type = "CANDIDATE_PREPARED"
                                    /\ ev.ckpt = published'[g]
                                    /\ ev.gen = g - 2
    BY <1>1, <2>2, <2>3, <2>4, <2>5 DEF IInv, PublishedInv
  <2> QED
    BY <2>5 DEF PublishedInv
<1> QED
  BY <1>2, <1>3, PublishFrame

\* The generation a checkpoint was prepared against is behind once it is
\* published, and it cannot be prepared against another.
LEMMA OnceStep == IInv /\ [Next]_vars => PublishedOnce'
<1> SUFFICES ASSUME IInv, [Next]_vars PROVE PublishedOnce'
  OBVIOUS
<1>1. CASE published' = published
  BY <1>1 DEF IInv, PublishedOnce
<1>2. ASSUME NEW p \in Processes, CheckpointPublish(p) PROVE PublishedOnce'
  <2>1. /\ published' = Append(published, loc[p].ckpt)
        /\ loc[p].gen = Len(published) - 1
        /\ published \in Seq(1..Len(ckpts)) /\ loc[p].ckpt \in 1..Len(ckpts)
    BY <1>2 DEF CheckpointPublish, Generation, IInv, TypeOK, LocalInv,
       CheckpointLabels
  <2>2. ASSUME NEW g \in DOMAIN published, published[g] = loc[p].ckpt PROVE FALSE
    <3>1. PICK ev \in journal : /\ ev.type = "CANDIDATE_PREPARED"
                                /\ ev.ckpt = loc[p].ckpt
                                /\ ev.gen = g - 2
      BY <2>2 DEF IInv, PublishedInv
    <3>2. PreparedEvent(p) \in journal
      BY <1>2 DEF IInv, PreparedInv, PreparedLabels, CheckpointPublish
    <3>3. ev.id = ckpts[loc[p].ckpt].id /\ loc[p].id = ckpts[loc[p].ckpt].id
      BY <1>2, <3>1 DEF IInv, StoreInv, LocalInv, CheckpointLabels, CheckpointPublish
    <3>4. ev = PreparedEvent(p)
      BY <3>1, <3>2, <3>3 DEF IInv, PreparedInv, PreparedEvent, JournalEvent
    <3>5. ev.gen = Len(published) - 1
      BY <2>1, <3>4 DEF PreparedEvent, JournalEvent
    <3>6. g <= Len(published)
      BY <2>1
    <3> QED
      BY <2>1, <3>1, <3>5, <3>6
  <2>3. /\ DOMAIN published' = DOMAIN published \cup {Len(published) + 1}
        /\ published'[Len(published) + 1] = loc[p].ckpt
        /\ \A g \in DOMAIN published : published'[g] = published[g]
    BY <2>1
  <2> QED
    BY <2>2, <2>3 DEF IInv, PublishedOnce
<1> QED
  BY <1>1, <1>2, PublishFrame

\* A commit event is written by the process that published, and a publication is
\* never overwritten.
LEMMA TruthfulStep == IInv /\ [Next]_vars => CommitTruthful'
<1> SUFFICES ASSUME IInv, [Next]_vars,
                    NEW ev \in journal', ev.type = "CURRENTNESS_COMMITTED"
             PROVE  Names(ev)'
  BY DEF CommitTruthful, Names
<1>1. \A g \in DOMAIN published : g \in DOMAIN published' /\ published'[g] = published[g]
  <2>1. ASSUME NEW p \in Processes, CheckpointPublish(p)
        PROVE  \A g \in DOMAIN published :
                   g \in DOMAIN published' /\ published'[g] = published[g]
    BY <2>1 DEF IInv, TypeOK, CheckpointPublish, LocalInv, CheckpointLabels
  <2> QED
    BY <2>1, PublishFrame
<1>2. CASE ev \in journal
  BY <1>1, <1>2 DEF IInv, CommitTruthful, Names
<1>3. CASE ev \notin journal
  <2>1. PICK p \in Processes : /\ pc[p] = "commit"
                               /\ ev.ckpt = loc[p].ckpt
                               /\ ev.gen = loc[p].gen + 1
    BY <1>3, JournalFrame
  <2>2. loc[p].gen \in Int
    BY DEF IInv, TypeOK, Locals
  <2>3. ev.gen + 1 = loc[p].gen + 2
    BY <2>1, <2>2
  <2>4. ev.gen + 1 \in DOMAIN published /\ published[ev.gen + 1] = ev.ckpt
    BY <2>1, <2>3 DEF IInv, CommitInv
  <2> QED
    BY <1>1, <2>4 DEF Names
<1> QED
  BY <1>2, <1>3

\* Every variable keeps its type.
LEMMA TypeStep == IInv /\ [Next]_vars => TypeOK'
<1> SUFFICES ASSUME IInv, [Next]_vars PROVE TypeOK'
  OBVIOUS
<1> USE LifecycleAssumption
<1> USE DEF IInv, TypeOK, Labels
<1>1. ASSUME NEW p \in Processes, NEW id \in CheckpointIds, NEW gen \in -1..Generation,
             NEW drifted \in BOOLEAN, CheckpointBegin(p, id, gen, drifted)
      PROVE  TypeOK'
  <2>1. /\ ckpts' \in Seq(Checkpoint) /\ Len(ckpts) <= Len(ckpts')
        /\ loc' \in [Processes -> Locals]
    <3> HIDE DEF TypeOK
    <3>1. /\ ckpts' \in Seq(Checkpoint) /\ Len(ckpts) <= Len(ckpts')
          /\ loc' = [loc EXCEPT ![p] = loc'[p]] /\ loc'[p] \in Locals
      BY <1>1, BeginFacts
    <3>2. loc \in [Processes -> Locals]
      BY DEF TypeOK
    <3> QED
      BY <3>1, <3>2
  <2>2. published' \in Seq(1..Len(ckpts'))
    BY <1>1, <2>1 DEF CheckpointBegin
  <2>3. pc' \in [Processes -> Labels] /\ lock' \in Processes
    BY <1>1 DEF CheckpointBegin, Goto
  <2> QED
    BY <1>1, <2>1, <2>2, <2>3 DEF CheckpointBegin
<1>2. ASSUME NEW p \in Processes, CheckpointPrepare(p)
      PROVE  TypeOK'
  <2> DEFINE ev == PreparedEvent(p)
  <2>1. JournalAppend(ev)
    BY <1>2 DEF CheckpointPrepare
  <2>2. journal' \subseteq journal \cup {ev}
    BY <2>1, AppendFacts DEF PreparedInv
  <2>3. pc[p] \in CheckpointLabels
    BY <1>2 DEF CheckpointPrepare, CheckpointLabels
  <2>4. loc[p].id \in CheckpointIds /\ loc[p].ckpt \in Nat \ {0} /\ loc[p].gen \in Int
    BY <2>3, CheckpointLocals
  <2>5. ev \in Event
    BY <2>3, <2>4 DEF PreparedEvent, JournalEvent, Event, EventTypes
  <2>6. journal' \subseteq Event
    BY <2>2, <2>5
  <2>7. loc' \in [Processes -> Locals]
    BY <1>2, FreshLocals DEF CheckpointPrepare, Finish, Locals
  <2> QED
    BY <1>2, <2>6, <2>7 DEF CheckpointPrepare, Finish, Goto
<1>3. ASSUME NEW p \in Processes, CheckpointBlock(p)
      PROVE  TypeOK'
  <2> DEFINE ev == JournalEvent(loc[p].id, "ASSURANCE_BLOCKED", loc[p].ckpt, -1)
  <2>1. JournalAppend(ev)
    BY <1>3 DEF CheckpointBlock
  <2>2. journal' \subseteq journal \cup {ev}
    BY <2>1, AppendFacts DEF PreparedInv
  <2>3. pc[p] \in CheckpointLabels
    BY <1>3 DEF CheckpointBlock, CheckpointLabels
  <2>4. loc[p].id \in CheckpointIds /\ loc[p].ckpt \in Nat \ {0} /\ loc[p].gen \in Int
    BY <2>3, CheckpointLocals
  <2>5. ev \in Event
    BY <2>3, <2>4 DEF JournalEvent, Event, EventTypes
  <2>6. journal' \subseteq Event
    BY <2>2, <2>5
  <2>7. loc' \in [Processes -> Locals]
    BY <1>3, FreshLocals DEF CheckpointBlock, Finish, Locals
  <2> QED
    BY <1>3, <2>6, <2>7 DEF CheckpointBlock, Finish, Goto
<1>4. ASSUME NEW p \in Processes, CheckpointAssure(p)
      PROVE  TypeOK'
  <2> DEFINE ev == JournalEvent(loc[p].id, "ASSURANCE_PASSED", loc[p].ckpt, -1)
  <2>1. JournalAppend(ev)
    BY <1>4 DEF CheckpointAssure
  <2>2. journal' \subseteq journal \cup {ev}
    BY <2>1, AppendFacts DEF PreparedInv
  <2>3. pc[p] \in CheckpointLabels
    BY <1>4 DEF CheckpointAssure, CheckpointLabels
  <2>4. loc[p].id \in CheckpointIds /\ loc[p].ckpt \in Nat \ {0} /\ loc[p].gen \in Int
    BY <2>3, CheckpointLocals
  <2>5. ev \in Event
    BY <2>3, <2>4 DEF JournalEvent, Event, EventTypes
  <2>6. journal' \subseteq Event
    BY <2>2, <2>5
  <2>7. loc' \in [Processes -> Locals]
    BY <1>4, FreshLocals DEF CheckpointAssure, Finish, Locals
  <2> QED
    BY <1>4, <2>6, <2>7 DEF CheckpointAssure, Finish, Goto
<1>5. ASSUME NEW p \in Processes, CheckpointPublish(p)
      PROVE  TypeOK'
  <2>1. loc[p].ckpt \in 1..Len(ckpts)
    BY <1>5 DEF CheckpointPublish, LocalInv, CheckpointLabels
  <2>2. published' \in Seq(1..Len(ckpts'))
    BY <1>5, <2>1 DEF CheckpointPublish
  <2> QED
    BY <1>5, <2>2 DEF CheckpointPublish, Goto
<1>6. ASSUME NEW p \in Processes, CheckpointCommit(p)
      PROVE  TypeOK'
  <2> DEFINE ev == JournalEvent(loc[p].id, "CURRENTNESS_COMMITTED", loc[p].ckpt,
                            loc[p].gen + 1)
  <2>1. JournalAppend(ev)
    BY <1>6 DEF CheckpointCommit
  <2>2. journal' \subseteq journal \cup {ev}
    BY <2>1, AppendFacts DEF PreparedInv
  <2>3. pc[p] \in CheckpointLabels
    BY <1>6 DEF CheckpointCommit, CheckpointLabels
  <2>4. loc[p].id \in CheckpointIds /\ loc[p].ckpt \in Nat \ {0} /\ loc[p].gen \in Int
    BY <2>3, CheckpointLocals
  <2>5. ev \in Event
    BY <2>3, <2>4 DEF JournalEvent, Event, EventTypes
  <2>6. journal' \subseteq Event
    BY <2>2, <2>5
  <2>7. loc' \in [Processes -> Locals]
    BY <1>6, FreshLocals DEF CheckpointCommit, Finish, Locals
  <2> QED
    BY <1>6, <2>6, <2>7 DEF CheckpointCommit, Finish, Goto
<1>7. ASSUME NEW p \in Processes, NEW mint \in BOOLEAN, ReconstructBegin(p, mint)
      PROVE  TypeOK'
  <2>1. [NoLocals EXCEPT !.mem = memory, !.mint = mint, !.latest = Len(ckpts),
                         !.gen = Generation] \in Locals
    <3>1. Len(ckpts) \in Nat /\ Generation \in Int /\ memory \in 0..MaxMemory
      BY DEF Generation
    <3> HIDE DEF TypeOK, IInv
    <3> QED
      BY <3>1, ReadLocals
  <2>2. loc' \in [Processes -> Locals]
    BY <1>7, <2>1 DEF ReconstructBegin
  <2> QED
    BY <1>7, <2>2 DEF ReconstructBegin, Goto
<1>8. ASSUME NEW p \in Processes, ReconstructPayload(p)
      PROVE  TypeOK'
  <2>1. Accepted \in Nat
    BY <1>8 DEF ReconstructPayload, LocalInv, Accepted
  <2>2. loc' \in [Processes -> Locals]
    BY <1>8, <2>1 DEF ReconstructPayload, Locals
  <2> QED
    BY <1>8, <2>2 DEF ReconstructPayload, Goto
<1>9. ASSUME NEW p \in Processes, ReconstructReconcile(p)
      PROVE  TypeOK'
  <2> DEFINE ev == ReconciledEvent(p)
  <2>1. JournalAppend(ev)
    BY <1>9 DEF ReconstructReconcile
  <2>2. journal' \subseteq journal \cup {ev}
    BY <2>1, AppendFacts DEF PreparedInv
  <2>3. ckpts[loc[p].ckpt] \in Checkpoint /\ loc[p].ckpt \in Nat \ {0}
    BY <1>9 DEF ReconstructReconcile, LocalInv
  <2>4. loc[p].gen \in Int
    BY DEF Locals
  <2>5. ev \in Event
    BY <2>3, <2>4 DEF ReconciledEvent, Checkpoint, JournalEvent, Event, EventTypes
  <2>6. journal' \subseteq Event
    BY <2>2, <2>5
  <2>7. loc' \in [Processes -> Locals]
    BY <1>9, FreshLocals DEF ReconstructReconcile, Finish, Locals
  <2> QED
    BY <1>9, <2>6, <2>7 DEF ReconstructReconcile, Finish, Goto
<1>10. ASSUME NEW p \in Processes, MintPermit(p)
      PROVE  TypeOK'
  <2>1. loc[p].ckpt # 0
    <3> SUFFICES ASSUME loc[p].ckpt = 0 PROVE FALSE
      OBVIOUS
    <3>1. loc[p].latest \in Nat
      BY DEF Locals
    <3>2. StatusOf(p) \in {"EMPTY", "PENDING_CANDIDATE"}
      BY <3>1, NothingAccepted DEF StatusOf
    <3> QED
      BY <1>10, <3>2 DEF MintPermit
  <2>2. loc[p].ckpt \in Nat /\ Len(published) > 0
    BY <1>10, <2>1 DEF MintPermit, LocalInv, Locals
  <2>3. Generation \in Nat
    BY <2>2 DEF Generation
  <2>4. [ckpt |-> loc[p].ckpt, gen |-> Generation, head |-> JournalHead] \in Permit
    BY <2>1, <2>2, <2>3 DEF JournalHead, Permit
  <2>5. permits' \in Seq(Permit)
    BY <1>10, <2>4 DEF MintPermit
  <2> QED
    BY <1>10, <2>5, FreshLocals DEF MintPermit, Finish, Goto
<1>11. ASSUME NEW p \in Processes, NEW i \in DOMAIN permits, ActBegin(p, i)
      PROVE  TypeOK'
  <2>1. [NoLocals EXCEPT !.ckpt = permits[i].ckpt, !.gen = permits[i].gen] \in Locals
    <3>1. permits[i] \in Permit
      OBVIOUS
    <3>2. permits[i].ckpt \in Nat /\ permits[i].gen \in Int
      BY <3>1 DEF Permit
    <3> HIDE DEF TypeOK, IInv
    <3> QED
      BY <3>2, PermitLocals
  <2>2. loc' \in [Processes -> Locals]
    BY <1>11, <2>1 DEF ActBegin
  <2> QED
    BY <1>11, <2>2 DEF ActBegin, Goto
<1>12. ASSUME NEW p \in Processes, Raise(p)
      PROVE  TypeOK'
  BY <1>12 DEF Raise, Finish, Goto, NoLocals, Locals
<1>13. ASSUME NEW p \in Processes, Crash(p)
      PROVE  TypeOK'
  BY <1>13 DEF Crash, Finish, Goto, NoLocals, Locals
<1>14. CASE MemoryAdmit
  BY <1>14 DEF MemoryAdmit
<1>15. CASE UNCHANGED vars
  BY <1>15 DEF vars
<1> HIDE DEF IInv, TypeOK, Labels
<1> QED
  BY <1>1, <1>2, <1>3, <1>4, <1>5, <1>6, <1>7, <1>8, <1>9, <1>10, <1>11,
     <1>12, <1>13, <1>14, <1>15
  DEF Next, Begin, Continue, PrepareRefused, AssureRefused, PublishRefused,
      ReconcileRefused, ReconstructEnd, ActEnd

\* Nothing is stored yet and nobody is at work.
LEMMA InitInv == Init => IInv
<1> SUFFICES ASSUME Init PROVE IInv
  OBVIOUS
<1> USE LifecycleAssumption DEF Init
<1>1. TypeOK
  BY DEF TypeOK, Labels, Locals, NoLocals
<1>2. LockInv /\ StoreInv /\ LocalInv /\ CommitInv /\ ActsUnderAccepted
  BY DEF LockInv, LockLabels, StoreInv, LocalInv, CheckpointLabels, CommitInv,
     ActsUnderAccepted
<1>3. PreparedInv /\ PublishedInv /\ PublishedOnce /\ CommitTruthful
  BY DEF PreparedInv, PreparedLabels, PublishedInv, PublishedOnce, CommitTruthful
<1> QED
  BY <1>1, <1>2, <1>3 DEF IInv

\* The invariant is inductive.
THEOREM LifecycleInvariant == Spec => []IInv
<1>1. IInv /\ [Next]_vars => IInv'
  BY TypeStep, LockStep, StoreStep, LocalStep, PreparedStep, PublishedStep,
     CommitStep, OnceStep, TruthfulStep, ActsStep
  DEF IInv
<1> QED
  BY <1>1, InitInv, PTL DEF Spec

\* Every variable of the lifecycle keeps its type.
THEOREM LifecycleTypeCorrect == Spec => []TypeOK
<1>1. IInv => TypeOK
  BY DEF IInv
<1> QED
  BY <1>1, LifecycleInvariant, PTL

\* No checkpoint is published under two generations, whatever is retried.
THEOREM LifecyclePublishedOnce == Spec => []PublishedOnce
<1>1. IInv => PublishedOnce
  BY DEF IInv
<1> QED
  BY <1>1, LifecycleInvariant, PTL

\* CURRENTNESS_COMMITTED always names a publication that took place.
THEOREM LifecycleCommitTruthful == Spec => []CommitTruthful
<1>1. IInv => CommitTruthful
  BY DEF IInv
<1> QED
  BY <1>1, LifecycleInvariant, PTL

\* The action lock keeps the accepted state of a permit-bound operation.
THEOREM LifecycleActsUnderAccepted == Spec => []ActsUnderAccepted
<1>1. IInv => ActsUnderAccepted
  BY DEF IInv
<1> QED
  BY <1>1, LifecycleInvariant, PTL
=============================================================================
