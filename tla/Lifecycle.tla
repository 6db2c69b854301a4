----------------------------- MODULE Lifecycle -----------------------------
(***************************************************************************)
(* The native lifecycle of vera_core: processes that share a state         *)
(* directory checkpoint memory into accepted currentness, reconstruct the  *)
(* accepted state after a restart, and mint and use permits for it.        *)
(*                                                                         *)
(*   vera_core/lifecycle.py          checkpoint, reconstruct, permits      *)
(*   vera_core/lifecycle_journal.py  the digest-chained journal            *)
(*   vera_recovery/native.py         the recovery checkpoint chain         *)
(*   vera_assurance/effect_fence.py  AtomicCurrentnessStore                *)
(*   vera_assurance/drift.py         compare_snapshots                     *)
(*   vera_memory/ledger.py           the memory head                       *)
(*                                                                         *)
(* Four SQLite files: each append or publish is one durable step, and a    *)
(* process may die between two.  checkpoint() and accepted_action_permit() *)
(* hold the action lock; reconstruct() called on its own holds no lock and *)
(* yet may append to the journal; memory admission takes no lock either.   *)
(* The outbound barrier, which all of these also check, is in              *)
(* module EffectGateway.                                                   *)
(***************************************************************************)
EXTENDS Integers, Sequences

CONSTANTS
    Processes,
    CheckpointIds,   \* transition identities chosen by callers
    Nil,             \* no process: the action lock is free
    MaxMemory,       \* bound: memory admissions
    MaxPermits,      \* bound: permits minted
    MaxCrashes       \* bound: process deaths

ASSUME LifecycleAssumption ==
    /\ Nil \notin Processes
    /\ MaxMemory \in Nat /\ MaxPermits \in Nat /\ MaxCrashes \in Nat

VARIABLES
    memory,      \* head of the memory ledger
    ckpts,       \* recovery checkpoints; the position is the generation
    published,   \* published[g + 1]: the checkpoint accepted as generation g
    journal,     \* the lifecycle journal: its events (see JournalHead)
    permits,     \* permits handed out, in order
    lock,        \* holder of the action lock, or Nil
    pc, loc,     \* control point and local values of each process
    crashes

vars == <<memory, ckpts, published, journal, permits, lock, pc, loc, crashes>>

----------------------------------------------------------------------------
(* The stores.                                                             *)

\* The currentness row: its generation (None is -1) and the checkpoint it names.
Generation == Len(published) - 1
Accepted == published[Len(published)]

\* Checkpoints with a given id: at most one.
Stored(id) == {c \in DOMAIN ckpts : ckpts[c].id = id}

EventTypes == {"CANDIDATE_PREPARED", "ASSURANCE_BLOCKED", "ASSURANCE_PASSED",
               "CURRENTNESS_COMMITTED", "RESTART_RECONCILED_COMMITTED"}

\* The payload of an event: the checkpoint it is about and a generation (the
\* expected one when prepared, the committed one when committed, else none).
JournalEvent(id, type, ckpt, gen) ==
    [id |-> id, type |-> type, ckpt |-> ckpt, gen |-> gen]

HasEvent(id, type) ==
    \E ev \in journal : ev.id = id /\ ev.type = type

\* LifecycleJournal.append: a replay of the stored payload returns the stored
\* event, a replay with another payload raises.
JournalAccepts(ev) ==
    \A old \in journal : old.id = ev.id /\ old.type = ev.type => old = ev

JournalAppend(ev) ==
    journal' = IF HasEvent(ev.id, ev.type) THEN journal ELSE journal \cup {ev}

\* The head digest commits to all events so far.  No decision that changes state
\* depends on their order, so the set of events stands for it.
JournalHead == journal

Committed(id) ==
    HasEvent(id, "CURRENTNESS_COMMITTED") \/ HasEvent(id, "RESTART_RECONCILED_COMMITTED")

\* The status of reconstruct() for the accepted checkpoint `acc`, the latest
\* checkpoint and the memory head it read.  (The control source is fixed.)
Status(acc, latest, mem, reconciled) ==
    IF acc = 0 /\ latest = 0 THEN "EMPTY"
    ELSE IF latest > acc THEN "PENDING_CANDIDATE"
    ELSE IF mem # ckpts[acc].mem THEN "MEMORY_AHEAD_OF_CURRENTNESS"
    ELSE IF reconciled THEN "ACCEPTED_RECONCILED"
    ELSE "ACCEPTED_CURRENT"

\* validate_action_permit: the permit still names the exact accepted state.
PermitValid(p) ==
    /\ Len(published) > 0
    /\ Status(Accepted, Len(ckpts), memory, FALSE) = "ACCEPTED_CURRENT"
    /\ p = [ckpt |-> Accepted, gen |-> Generation, head |-> JournalHead]

----------------------------------------------------------------------------
NoLocals == [id |-> Nil, ckpt |-> 0, gen |-> -1, mem |-> 0, latest |-> 0,
             drifted |-> FALSE, mint |-> FALSE, reconciled |-> FALSE]

Init ==
    /\ memory = 0
    /\ ckpts = <<>>
    /\ published = <<>>
    /\ journal = {}
    /\ permits = <<>>
    /\ lock = Nil
    /\ pc = [p \in Processes |-> "idle"]
    /\ loc = [p \in Processes |-> NoLocals]
    /\ crashes = 0

Goto(p, label) == pc' = [pc EXCEPT ![p] = label]

\* Return or exception: the action lock is released if it is held.
Finish(p) ==
    /\ Goto(p, "idle")
    /\ loc' = [loc EXCEPT ![p] = NoLocals]
    /\ lock' = IF lock = p THEN Nil ELSE lock

Raise(p) ==
    /\ Finish(p)
    /\ UNCHANGED <<memory, ckpts, published, journal, permits, crashes>>

Crash(p) ==
    /\ pc[p] # "idle"
    /\ crashes < MaxCrashes
    /\ crashes' = crashes + 1
    /\ Finish(p)
    /\ UNCHANGED <<memory, ckpts, published, journal, permits>>

\* MemoryLedger.admit.
MemoryAdmit ==
    /\ memory < MaxMemory
    /\ memory' = memory + 1
    /\ UNCHANGED <<ckpts, published, journal, permits, lock, pc, loc, crashes>>

----------------------------------------------------------------------------
(* checkpoint().                                                           *)

\* Mutation: checkpoint() does not take the action lock.
CheckpointBegin_NoLock(p, id, gen, drifted) ==
    /\ pc[p] = "idle"
    /\ UNCHANGED lock
    /\ \/ /\ Stored(id) = {}
          /\ ckpts' = Append(ckpts, [id |-> id, mem |-> memory])
       \/ /\ \E c \in Stored(id) : ckpts[c].mem = memory
          /\ UNCHANGED ckpts
    /\ loc' = [loc EXCEPT ![p] =
                 [NoLocals EXCEPT !.id = id, !.gen = gen, !.drifted = drifted,
                     !.ckpt = CHOOSE c \in DOMAIN ckpts' : ckpts'[c].id = id]]
    /\ Goto(p, "prepare")
    /\ UNCHANGED <<memory, published, journal, permits, crashes>>

\* The memory head is the expected one; then the recovery checkpoint.  A new id
\* extends the chain from its head; the replay of a stored id returns the stored
\* checkpoint whatever the head is now, unless its content differs.  `gen` is
\* the currentness generation the caller expects, `drifted` whether its baseline
\* differs from the candidate in a critical field.
CheckpointBegin(p, id, gen, drifted) ==
    /\ pc[p] = "idle"
    /\ lock = Nil
    /\ lock' = p
    /\ \/ /\ Stored(id) = {}
          /\ ckpts' = Append(ckpts, [id |-> id, mem |-> memory])
       \/ /\ \E c \in Stored(id) : ckpts[c].mem = memory
          /\ UNCHANGED ckpts
    /\ loc' = [loc EXCEPT ![p] =
                 [NoLocals EXCEPT !.id = id, !.gen = gen, !.drifted = drifted,
                     !.ckpt = CHOOSE c \in DOMAIN ckpts' : ckpts'[c].id = id]]
    /\ Goto(p, "prepare")
    /\ UNCHANGED <<memory, published, journal, permits, crashes>>

PreparedEvent(p) ==
    JournalEvent(loc[p].id, "CANDIDATE_PREPARED", loc[p].ckpt, loc[p].gen)

\* Mutation: the journal does not compare the payload of a replayed event.
CheckpointPrepare_AnyReplay(p) ==
    /\ pc[p] = "prepare"
    /\ JournalAppend(PreparedEvent(p))
    /\ Goto(p, "assure")
    /\ UNCHANGED <<memory, ckpts, published, permits, lock, loc, crashes>>

CheckpointPrepare(p) ==
    /\ pc[p] = "prepare"
    /\ JournalAccepts(PreparedEvent(p))
    /\ JournalAppend(PreparedEvent(p))
    /\ Goto(p, "assure")
    /\ UNCHANGED <<memory, ckpts, published, permits, lock, loc, crashes>>

\* The id was prepared against another generation: append raises.
PrepareRefused(p) ==
    /\ pc[p] = "prepare"
    /\ ~JournalAccepts(PreparedEvent(p))
    /\ Raise(p)

\* compare_snapshots finds critical drift: ASSURANCE_BLOCKED, then an exception.
CheckpointBlock(p) ==
    /\ pc[p] = "assure"
    /\ loc[p].drifted
    /\ JournalAppend(JournalEvent(loc[p].id, "ASSURANCE_BLOCKED", loc[p].ckpt, -1))
    /\ Finish(p)
    /\ UNCHANGED <<memory, ckpts, published, permits, crashes>>

CheckpointAssure(p) ==
    /\ pc[p] = "assure"
    /\ ~loc[p].drifted
    /\ JournalAppend(JournalEvent(loc[p].id, "ASSURANCE_PASSED", loc[p].ckpt, -1))
    /\ Goto(p, "publish")
    /\ UNCHANGED <<memory, ckpts, published, permits, lock, loc, crashes>>

\* The event is already stored with another assurance baseline: append raises.
AssureRefused(p) ==
    /\ pc[p] = "assure"
    /\ HasEvent(loc[p].id, IF loc[p].drifted THEN "ASSURANCE_BLOCKED"
                                             ELSE "ASSURANCE_PASSED")
    /\ Raise(p)

\* Mutation: the publication does not compare the generation.
CheckpointPublish_NoCas(p) ==
    /\ pc[p] = "publish"
    /\ published' = Append(published, loc[p].ckpt)
    /\ Goto(p, "commit")
    /\ UNCHANGED <<memory, ckpts, journal, permits, lock, loc, crashes>>

\* AtomicCurrentnessStore.publish, a compare-and-set on the generation.
CheckpointPublish(p) ==
    /\ pc[p] = "publish"
    /\ loc[p].gen = Generation
    /\ published' = Append(published, loc[p].ckpt)
    /\ Goto(p, "commit")
    /\ UNCHANGED <<memory, ckpts, journal, permits, lock, loc, crashes>>

PublishRefused(p) ==
    /\ pc[p] = "publish"
    /\ loc[p].gen # Generation
    /\ Raise(p)

CheckpointCommit(p) ==
    /\ pc[p] = "commit"
    /\ JournalAppend(JournalEvent(loc[p].id, "CURRENTNESS_COMMITTED", loc[p].ckpt,
                                  loc[p].gen + 1))
    /\ Finish(p)
    /\ UNCHANGED <<memory, ckpts, published, permits, crashes>>

----------------------------------------------------------------------------
(* reconstruct(), on its own or under the action lock to mint a permit.    *)

\* The memory head, the latest checkpoint and the currentness row are read.
ReconstructBegin(p, mint) ==
    /\ pc[p] = "idle"
    /\ mint => lock = Nil /\ Len(permits) < MaxPermits
    /\ lock' = IF mint THEN p ELSE lock
    /\ loc' = [loc EXCEPT ![p] = [NoLocals EXCEPT !.mem = memory, !.mint = mint,
                                     !.latest = Len(ckpts), !.gen = Generation]]
    /\ Goto(p, IF published = <<>> THEN "status" ELSE "payload")
    /\ UNCHANGED <<memory, ckpts, published, journal, permits, crashes>>

\* The payload is a second read of the row; then has_event.
ReconstructPayload(p) ==
    /\ pc[p] = "payload"
    /\ loc' = [loc EXCEPT ![p].ckpt = Accepted]
    /\ Goto(p, IF Committed(ckpts[Accepted].id) THEN "status" ELSE "reconcile")
    /\ UNCHANGED <<memory, ckpts, published, journal, permits, lock, crashes>>

ReconciledEvent(p) ==
    JournalEvent(ckpts[loc[p].ckpt].id, "RESTART_RECONCILED_COMMITTED",
                 loc[p].ckpt, loc[p].gen)

\* Mutation: the interrupted commit is reported but not written to the journal.
ReconstructReconcile_NoAppend(p) ==
    /\ pc[p] = "reconcile"
    /\ JournalAccepts(ReconciledEvent(p))
    /\ loc' = [loc EXCEPT ![p].reconciled = TRUE]
    /\ Goto(p, "status")
    /\ UNCHANGED <<memory, ckpts, published, journal, permits, lock, crashes>>

ReconstructReconcile(p) ==
    /\ pc[p] = "reconcile"
    /\ JournalAccepts(ReconciledEvent(p))
    /\ JournalAppend(ReconciledEvent(p))
    /\ loc' = [loc EXCEPT ![p].reconciled = TRUE]
    /\ Goto(p, "status")
    /\ UNCHANGED <<memory, ckpts, published, permits, lock, crashes>>

ReconcileRefused(p) ==
    /\ pc[p] = "reconcile"
    /\ ~JournalAccepts(ReconciledEvent(p))
    /\ Raise(p)

StatusOf(p) == Status(loc[p].ckpt, loc[p].latest, loc[p].mem, loc[p].reconciled)

\* reconstruct() returns; accepted_action_permit mints from an accepted status.
ReconstructEnd(p) ==
    /\ pc[p] = "status"
    /\ ~loc[p].mint \/ StatusOf(p) \notin {"ACCEPTED_CURRENT", "ACCEPTED_RECONCILED"}
    /\ Raise(p)

MintPermit(p) ==
    /\ pc[p] = "status"
    /\ loc[p].mint
    /\ StatusOf(p) \in {"ACCEPTED_CURRENT", "ACCEPTED_RECONCILED"}
    /\ permits' = Append(permits, [ckpt |-> loc[p].ckpt, gen |-> Generation,
                                   head |-> JournalHead])
    /\ Finish(p)
    /\ UNCHANGED <<memory, ckpts, published, journal, crashes>>

\* A permit-bound operation: validated under the action lock and held to its end.
ActBegin(p, i) ==
    /\ pc[p] = "idle"
    /\ lock = Nil
    /\ lock' = p
    /\ PermitValid(permits[i])
    /\ loc' = [loc EXCEPT ![p] = [NoLocals EXCEPT !.ckpt = permits[i].ckpt,
                                                  !.gen = permits[i].gen]]
    /\ Goto(p, "act")
    /\ UNCHANGED <<memory, ckpts, published, journal, permits, crashes>>

ActEnd(p) == pc[p] = "act" /\ Raise(p)

----------------------------------------------------------------------------
Continue(p) ==
    \/ CheckpointPrepare(p)     \/ PrepareRefused(p)
    \/ CheckpointBlock(p)       \/ CheckpointAssure(p)     \/ AssureRefused(p)
    \/ CheckpointPublish(p)     \/ PublishRefused(p)
    \/ CheckpointCommit(p)
    \/ ReconstructPayload(p)
    \/ ReconstructReconcile(p)  \/ ReconcileRefused(p)
    \/ ReconstructEnd(p)        \/ MintPermit(p)
    \/ ActEnd(p)

Begin(p) ==
    \/ \E id \in CheckpointIds, gen \in -1..Generation, drifted \in BOOLEAN :
           CheckpointBegin(p, id, gen, drifted)
    \/ \E mint \in BOOLEAN : ReconstructBegin(p, mint)
    \/ \E i \in DOMAIN permits : ActBegin(p, i)

Next ==
    \/ \E p \in Processes : Begin(p) \/ Continue(p) \/ Crash(p)
    \/ MemoryAdmit

Spec == Init /\ [][Next]_vars

\* A process goes on with what it began, and status is asked for again and again.
FairSpec ==
    /\ Spec
    /\ \A p \in Processes :
           WF_vars(Continue(p)) /\ SF_vars(ReconstructBegin(p, FALSE))
----------------------------------------------------------------------------
Labels == {"idle", "prepare", "assure", "publish", "commit", "payload",
           "reconcile", "status", "act"}

Checkpoint == [id : CheckpointIds, mem : 0..MaxMemory]
Event == [id : CheckpointIds, type : EventTypes, ckpt : Nat \ {0}, gen : Int]
Permit == [ckpt : Nat \ {0}, gen : Nat, head : SUBSET Event]
Locals == [id : CheckpointIds \cup {Nil}, ckpt : Nat, gen : Int, mem : 0..MaxMemory,
           latest : Nat, drifted : BOOLEAN, mint : BOOLEAN, reconciled : BOOLEAN]

TypeOK ==
    /\ memory \in 0..MaxMemory
    /\ ckpts \in Seq(Checkpoint)
    /\ published \in Seq(1..Len(ckpts))
    /\ journal \subseteq Event
    /\ permits \in Seq(Permit)
    /\ lock \in Processes \cup {Nil}
    /\ pc \in [Processes -> Labels]
    /\ loc \in [Processes -> Locals]
    /\ crashes \in 0..MaxCrashes

(***************************************************************************)
(* A checkpoint is accepted at most once: whatever is retried after a      *)
(* crash, no checkpoint_id is published under two generations.             *)
(***************************************************************************)
PublishedOnce ==
    \A g, h \in DOMAIN published : published[g] = published[h] => g = h

Names(ev) ==
    ev.gen + 1 \in DOMAIN published /\ published[ev.gen + 1] = ev.ckpt

(***************************************************************************)
(* CURRENTNESS_COMMITTED in the journal names the generation under which   *)
(* the currentness store did accept that checkpoint.                       *)
(***************************************************************************)
CommitTruthful ==
    \A ev \in journal : ev.type = "CURRENTNESS_COMMITTED" => Names(ev)

(***************************************************************************)
(* "RESTART_RECONCILED_COMMITTED event is appended after exact state       *)
(* verification" (VERA_NATIVE_LIFECYCLE_V1): it, too, names the generation *)
(* under which its checkpoint was accepted.                                *)
(***************************************************************************)
ReconciledTruthful ==
    \A ev \in journal : ev.type = "RESTART_RECONCILED_COMMITTED" => Names(ev)

(***************************************************************************)
(* Acceptance moves forward: a publication never replaces the accepted     *)
(* checkpoint by one of an older recovery generation ("stale_checkpoint_   *)
(* head": "FAIL_CLOSED_AT_RECOVERY_CAS", VERA_NATIVE_LIFECYCLE_V1).        *)
(***************************************************************************)
AcceptedAdvances ==
    \A g, h \in DOMAIN published : g < h => published[g] < published[h]

(***************************************************************************)
(* While a permit-bound operation holds the action lock, the state its     *)
(* permit names stays the accepted one and no newer candidate appears.     *)
(***************************************************************************)
ActsUnderAccepted ==
    \A p \in Processes :
        pc[p] = "act" => /\ loc[p].ckpt = Accepted
                         /\ loc[p].gen = Generation
                         /\ Len(ckpts) = Accepted

Current(id) == published # <<>> /\ ckpts[Accepted].id = id

(***************************************************************************)
(* A commit that a crash kept out of the journal is recorded there, or is  *)
(* superseded by a later publication.                                      *)
(***************************************************************************)
CommitRecorded ==
    \A id \in CheckpointIds : Current(id) ~> Committed(id) \/ ~Current(id)
=============================================================================
