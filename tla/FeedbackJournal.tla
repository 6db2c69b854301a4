--------------------------- MODULE FeedbackJournal ---------------------------
(***************************************************************************)
(* The supervised feedback journal of vera_memory (supervised_feedback.py) *)
(* and the learner it replays (local_feedback_learning.py).                *)
(*                                                                         *)
(* Several processes hold the journal open.  Each keeps the state it       *)
(* replayed and the head it replayed it to; every operation replays the    *)
(* file and compares heads first.  A head is the hash of a chain, so it is *)
(* the history itself here: the sequence of the states the events lead to, *)
(* which replay reproduces.  The control plane keeps the pinned head.      *)
(*                                                                         *)
(* A revision is the digest of its samples, hence the samples themselves:  *)
(* for each cue an answer and the identity of the sample, which stands for *)
(* its identifier, source and references.  The same answer under another   *)
(* identity is another revision.  Case identities, approval references and *)
(* nonces are fresh in every call.  The broker signs what it is asked to; a*)
(* decision that expired is one that was lost.  The file may be replaced by*)
(* an older copy of itself at any time, also under processes that have it  *)
(* open; what is appended then may match the head of another copy, which   *)
(* nonces tell apart in the code: the model has the more behaviours.       *)
(***************************************************************************)
EXTENDS Naturals, Sequences, FiniteSets

CONSTANTS Cues, Answers, NoAnswer,
          SampleIds,     \* identities of the samples of a cue
          FbProcs,       \* processes that open the journal
          FbMaxEvents,   \* bound: _MAX_EVENTS
          FbMaxSigned    \* bound: decisions in flight

ASSUME FeedbackAssumption ==
    NoAnswer \notin Answers /\ FbMaxEvents \in Nat /\ FbMaxSigned \in Nat

VARIABLES fbJournal,   \* the file: the states after each event
          opened,      \* processes that have the journal open
          resident,    \* resident[p]: the history p replayed last
          pinned,      \* the checkpoint in the control plane
          unpinned,    \* processes that have yet to report their new head
          signed,      \* signed decisions that may still arrive
          knownAt,     \* history: what was known to be revoked when p opened
          replaced     \* history: the file was replaced under an open process

fbVars == <<fbJournal, opened, resident, pinned, unpinned, signed, knownAt, replaced>>

----------------------------------------------------------------------------
(* LocalFeedbackLearner                                                    *)

Samples == [answer : Answers, id : SampleIds]

NoSample == [answer |-> NoAnswer, id |-> NoAnswer]

Revisions == [Cues -> Samples \cup {NoSample}]

Genesis == [c \in Cues |-> NoSample]

HeldoutCases == [cue : Cues, expected : Answers]

NoEvaluation == [rev |-> Genesis, baseline |-> Genesis, cases |-> {}]

\* _State: what the events so far amount to.
FbStart == [active |-> Genesis, pending |-> NoEvaluation, canaries |-> {},
            order |-> <<>>, revoked |-> {}]

Versions(st) == {Genesis} \cup {st.order[i] : i \in 1..Len(st.order)}

\* stage lays samples over the active version; it removes no cue.
Staged(st) ==
    {r \in Revisions : r # st.active /\ \A c \in Cues : r[c] = NoSample => st.active[c] = NoSample}

Passes(rev, cases) == {k \in cases : rev[k.cue].answer = k.expected}

OncePerCue(cases) == \A k, l \in cases : k.cue = l.cue => k = l

\* Mutation: better than the baseline is enough.
Qualifies_Better(st, rev, cases) ==
    /\ cases # {} /\ OncePerCue(cases)
    /\ Passes(st.active, cases) \subseteq Passes(rev, cases)
    /\ Cardinality(Passes(rev, cases)) > Cardinality(Passes(st.active, cases))

\* evaluate: all cases, the accepted canaries among them, and more than before.
Qualifies(st, rev, cases) ==
    /\ cases # {} /\ OncePerCue(cases)
    /\ Passes(rev, cases) = cases
    /\ Cardinality(Passes(rev, cases)) > Cardinality(Passes(st.active, cases))

\* The new cases bring cues that no canary has.
Holdouts(st) ==
    {h \in SUBSET HeldoutCases : \A k \in h : \A l \in st.canaries : k.cue # l.cue}

\* approve
Approved(st) ==
    [st EXCEPT !.active = st.pending.rev, !.canaries = st.pending.cases,
               !.order = Append(st.order, st.pending.rev),
               !.pending = NoEvaluation]

\* rollback
RolledBack(st, rev) ==
    [st EXCEPT !.active = rev, !.pending = NoEvaluation]

----------------------------------------------------------------------------
(* SupervisedFeedbackJournal                                               *)

StateOf(history) == IF history = <<>> THEN FbStart ELSE history[Len(history)]

\* Where a revoked active version leaves the journal.
Fallback(st, rev) ==
    LET kept == {i \in 1..Len(st.order) : st.order[i] \notin st.revoked \cup {rev}}
    IN  IF kept = {} THEN Genesis
        ELSE st.order[CHOOSE i \in kept : \A j \in kept : j <= i]

Revoked(st, rev) ==
    [st EXCEPT !.revoked = @ \cup {rev},
               !.active = IF st.active = rev THEN Fallback(st, rev) ELSE @,
               !.pending = NoEvaluation]

\* Mutation: a rollback may go to any version there ever was.
Reviewable_AnyVersion(st, action, rev) ==
    CASE action = "APPROVE" ->
              st.pending # NoEvaluation /\ rev = st.pending.rev
      [] action = "ROLLBACK" -> rev \in Versions(st) /\ rev # st.active
      [] OTHER -> rev \in (Versions(st) \ {Genesis}) \ st.revoked

\* What may be asked for; review_challenge asks it of the resident state and
\* _verify_review of the replayed one.
Reviewable(st, action, rev) ==
    CASE action = "APPROVE" ->
              st.pending # NoEvaluation /\ rev = st.pending.rev
      [] action = "ROLLBACK" ->
              rev \in Versions(st) \ st.revoked /\ rev # st.active
      [] OTHER ->
              rev \in (Versions(st) \ {Genesis}) \ st.revoked

\* _verify_review and _apply_event
Verified(st, head, d) ==
    /\ d.head = head /\ d.baseline = st.active
    /\ Reviewable(st, d.action, d.rev)
    /\ d.action = "APPROVE" => d.cases = st.pending.cases /\ d.rev \notin st.revoked
                               /\ st.pending.baseline = st.active

AppliedReview(st, d) ==
    CASE d.action = "APPROVE" -> Approved(st)
      [] d.action = "ROLLBACK" -> RolledBack(st, d.rev)
      [] OTHER -> Revoked(st, d.rev)

FbInit ==
    /\ fbJournal = <<>> /\ pinned = <<>>
    /\ opened = {} /\ resident = [p \in FbProcs |-> <<>>]
    /\ unpinned = {} /\ signed = {}
    /\ knownAt = [p \in FbProcs |-> {}] /\ replaced = FALSE

\* Mutation: the checkpoint is required but not compared.
OpenJournal_Unpinned(p) ==
    /\ p \notin opened
    /\ opened' = opened \cup {p}
    /\ resident' = [resident EXCEPT ![p] = fbJournal]
    /\ knownAt' = [knownAt EXCEPT ![p] = StateOf(pinned).revoked]
    /\ UNCHANGED <<fbJournal, pinned, unpinned, signed, replaced>>

\* __init__: replay, and compare with the pinned head.
OpenJournal(p) ==
    /\ p \notin opened
    /\ opened' = opened \cup {p}
    /\ fbJournal = pinned
    /\ resident' = [resident EXCEPT ![p] = fbJournal]
    /\ knownAt' = [knownAt EXCEPT ![p] = StateOf(pinned).revoked]
    /\ UNCHANGED <<fbJournal, pinned, unpinned, signed, replaced>>

\* _append, under BEGIN IMMEDIATE: the file must be where the process left it.
AppendEvent(p, st) ==
    /\ p \in opened /\ p \notin unpinned
    /\ fbJournal = resident[p]
    /\ Len(fbJournal) < FbMaxEvents
    /\ fbJournal' = Append(fbJournal, st)
    /\ resident' = [resident EXCEPT ![p] = fbJournal']
    /\ unpinned' = unpinned \cup {p}
    /\ UNCHANGED <<opened, pinned, knownAt, replaced>>

StageSamples(p) ==
    LET st == StateOf(resident[p]) IN
    /\ p \in opened
    /\ \E rev \in Staged(st), holdout \in Holdouts(st) :
           /\ Qualifies(st, rev, st.canaries \cup holdout)
           /\ AppendEvent(p, [st EXCEPT !.pending =
                  [rev |-> rev, baseline |-> st.active, cases |-> st.canaries \cup holdout]])
    /\ UNCHANGED signed

\* review_challenge looks at the resident state alone; the broker signs.
ReviewChallenge(p, action, rev) ==
    LET st == StateOf(resident[p]) IN
    /\ p \in opened /\ p \notin unpinned
    /\ Cardinality(signed) < FbMaxSigned
    /\ Reviewable(st, action, rev)
    /\ signed' = signed \cup
           {[action |-> action, rev |-> rev, head |-> resident[p],
             baseline |-> st.active, cases |-> IF action = "APPROVE" THEN st.pending.cases ELSE {}]}
    /\ UNCHANGED <<fbJournal, opened, resident, pinned, unpinned, knownAt, replaced>>

\* apply_review; a delivered decision may be delivered again.
ApplyReview(p, d) ==
    /\ p \in opened
    /\ Verified(StateOf(fbJournal), fbJournal, d)
    /\ AppendEvent(p, AppliedReview(StateOf(fbJournal), d))
    /\ UNCHANGED signed

\* The decision's window is over.
DecisionExpires(d) ==
    /\ signed' = signed \ {d}
    /\ UNCHANGED <<fbJournal, opened, resident, pinned, unpinned, knownAt, replaced>>

\* The host reports the new head to the control plane.
PinHead(p) ==
    /\ p \in unpinned
    /\ pinned' = resident[p]
    /\ unpinned' = unpinned \ {p}
    /\ UNCHANGED <<fbJournal, opened, resident, signed, knownAt, replaced>>

\* A process ends, also between its commit and its report.
ProcessEnds(p) ==
    /\ p \in opened
    /\ opened' = opened \ {p}
    /\ resident' = [resident EXCEPT ![p] = <<>>]
    /\ unpinned' = unpinned \ {p}
    /\ knownAt' = [knownAt EXCEPT ![p] = {}]
    /\ replaced' = (replaced /\ opened' # {})
    /\ UNCHANGED <<fbJournal, pinned, signed>>

RestoreOlderCopy(n) ==
    /\ n < Len(fbJournal)
    /\ fbJournal' = SubSeq(fbJournal, 1, n)
    /\ replaced' = (opened # {})
    /\ UNCHANGED <<opened, resident, pinned, unpinned, signed, knownAt>>

FbNext ==
    \/ \E p \in FbProcs :
           \/ OpenJournal(p) \/ StageSamples(p) \/ PinHead(p) \/ ProcessEnds(p)
           \/ \E action \in {"APPROVE", "ROLLBACK", "REVOKE"}, rev \in Revisions :
                  ReviewChallenge(p, action, rev)
           \/ \E d \in signed : ApplyReview(p, d)
    \/ \E d \in signed : DecisionExpires(d)
    \/ \E n \in 0..FbMaxEvents : RestoreOlderCopy(n)

FbSpec == FbInit /\ [][FbNext]_fbVars

\* Mutation: a read trusts the resident state.
Serves_Resident(p) == p \in opened /\ p \notin unpinned

\* lookup answers from the resident state, once the replayed head is its own.
Serves(p) == p \in opened /\ p \notin unpinned /\ fbJournal = resident[p]

----------------------------------------------------------------------------
FbTypeOK ==
    /\ \A i \in 1..Len(fbJournal) :
           /\ fbJournal[i].active \in Revisions
           /\ fbJournal[i].canaries \subseteq HeldoutCases
    /\ \A p \in FbProcs : Len(resident[p]) <= FbMaxEvents
    /\ Len(pinned) <= FbMaxEvents
    /\ unpinned \subseteq opened /\ opened \subseteq FbProcs
    /\ \A p \in FbProcs : knownAt[p] \subseteq Revisions
    /\ replaced \in BOOLEAN

(***************************************************************************)
(* "REVOKE: cannot resurrect a revoked version with later rollback"        *)
(* (supervised_feedback.py): whatever is approved, rolled back, revoked and*)
(* staged again, the active version of the journal is never a revoked one. *)
(* A process never serves what the control plane knew to be revoked when it*)
(* opened the journal, whatever happens to the file; and as long as the    *)
(* file is not replaced under an open process, no process serves what the  *)
(* control plane knows by now, also one that was open before.              *)
(***************************************************************************)
RevokedStaysOut ==
    /\ \A i \in 1..Len(fbJournal) : fbJournal[i].active \notin fbJournal[i].revoked
    /\ \A p \in FbProcs : Serves(p) =>
           /\ StateOf(resident[p]).active \notin knownAt[p]
           /\ ~replaced => StateOf(resident[p]).active \notin StateOf(pinned).revoked

(***************************************************************************)
(* "Immutable accepted canaries stay in every later qualification suite,   *)
(* including after a rollback" (local_feedback_learning.py): no event drops*)
(* a canary, and a version that was approved passed all canaries accepted  *)
(* until then, whatever happened to the version they came from.            *)
(***************************************************************************)
CanariesKept ==
    \A i \in 1..Len(fbJournal) :
        LET st == fbJournal[i]
            before == StateOf(SubSeq(fbJournal, 1, i - 1))
        IN  /\ before.canaries \subseteq st.canaries
            /\ Len(st.order) > Len(before.order) =>
                   Passes(st.active, st.canaries) = st.canaries

(***************************************************************************)
(* Supervised feedback stays under its reviews: nothing revoked comes back *)
(* and no accepted canary is lost (supervised_feedback.py,                 *)
(* local_feedback_learning.py).                                            *)
(***************************************************************************)
FeedbackGoverned == RevokedStaysOut /\ CanariesKept
=============================================================================
