-------------------------- MODULE Evidence_proofs --------------------------
(***************************************************************************)
(* What is proved of the records other parties read: the events of the     *)
(* coordination bus (CoordinationBus), the verification receipts of a task *)
(* with the closeout that cites them (Verification), and the evidence that *)
(* governed retrieval cites for its results (EvidenceCycle).               *)
(***************************************************************************)
EXTENDS CoordinationBus, Verification, EvidenceCycle, FiniteSetTheorems, SequenceTheorems,
        WellFoundedInduction, TLAPS

----------------------------------------------------------------------------
(* The coordination bus.                                                   *)

\* A set of naturals that is not empty has a least element.
LEMMA LeastNatural ==
    ASSUME NEW T, T \subseteq Nat, T # {}
    PROVE  \E x \in T : \A y \in T : x <= y
<1> DEFINE R == OpToRel(<, Nat)
<1>1. IsWellFoundedOn(R, Nat)
  BY NatLessThanWellFounded
<1> HIDE DEF R
<1>2. PICK x \in T : \A y \in T : ~(<<y, x>> \in R)
  BY <1>1, WFMin
<1>3. \A y \in T : ~(y < x)
  BY <1>2 DEF R, OpToRel
<1> QED
  BY <1>3

\* The greatest of finitely many events.
LEMMA MaxOfInterval ==
    ASSUME NEW n \in Nat, NEW S, S \subseteq 1..n, S # {}
    PROVE  Max(S) \in S /\ \A y \in S : y <= Max(S)
<1> DEFINE T == {n - i : i \in S}
<1>0. \A k \in S : k \in Nat /\ k <= n
  OBVIOUS
<1>1. T \subseteq Nat /\ T # {}
  <2>1. \A k \in S : n - k \in Nat
    BY <1>0
  <2>2. T # {}
    OBVIOUS
  <2> QED
    BY <2>1, <2>2
<1>2. PICK t \in T : \A y \in T : t <= y
  BY <1>1, LeastNatural
<1>3. PICK i \in S : t = n - i
  OBVIOUS
<1>4. \A y \in S : i >= y
  <2>1. \A y \in S : t <= n - y
    BY <1>2
  <2> QED
    BY <1>0, <1>3, <2>1
<1> QED
  BY <1>4 DEF Max

\* A page is the beginning of the inbox: what comes before an event of the
\* page is on it too.
LEMMA FirstOfDownward ==
    ASSUME NEW n \in Nat, NEW S, S \subseteq 1..n, NEW m \in Nat, NEW i \in FirstOf(S, m),
           NEW j \in S, j <= i
    PROVE  j \in FirstOf(S, m)
<1> DEFINE A == {k \in S : k <= j}
           B == {k \in S : k <= i}
<1>1. i \in S /\ Cardinality(B) <= m
  BY DEF FirstOf
<1>2. A \subseteq B
  <2>1. i \in Nat /\ j \in Nat /\ \A k \in S : k \in Nat
    BY <1>1
  <2>2. \A k \in S : k <= j => k <= i
    BY <2>1
  <2> QED
    BY <2>2
<1>3. IsFiniteSet(1..n)
  BY FS_Interval
<1>4. IsFiniteSet(B)
  BY <1>3, FS_Subset
<1>5. Cardinality(A) <= Cardinality(B) /\ Cardinality(A) \in Nat /\ Cardinality(B) \in Nat
  BY <1>2, <1>4, FS_Subset, FS_CardinalityType
<1> HIDE DEF B
<1>6. Cardinality(A) <= m
  BY <1>1, <1>5
<1> QED
  BY <1>6 DEF FirstOf

MessageKinds == {"STATUS", "ISSUE", "ACKNOWLEDGEMENT", "REVIEW", "DECISION", "RESOLUTION"}
DraftSet == [thread : {x.thread : x \in Messages}, src : Streams, tgt : Streams \cup {NoStream},
             kind : MessageKinds, ack : Nat, sup : Nat]
CallSet == [draft : DraftSet, at : Int]
GuardSet == [draft : DraftSet, at : Nat]

BusTyped ==
    /\ busLog \in Seq(DraftSet)
    /\ busCall \in [BusProcs -> {NoCall} \cup CallSet]
    /\ usedTokens \in [BusProcs -> SUBSET DraftSet]
    /\ seen \in [BusProcs -> SUBSET GuardSet]
    /\ lastNow \in [BusProcs -> Nat]
    /\ mine \in [BusProcs -> SUBSET [seq : Nat, at : Int]]
    /\ cursor \in [Streams -> Nat]
    /\ page \in [Streams -> [events : SUBSET Nat, next : Int]]
    /\ handled \in [Streams -> SUBSET Nat]

\* An answer names an earlier event, and its author may answer that one.
Answers(log, d) ==
    /\ d.kind \in {"ACKNOWLEDGEMENT", "REVIEW", "RESOLUTION"} => d.ack # 0
    /\ d.kind \in {"ACKNOWLEDGEMENT", "REVIEW"} =>
           d.src = log[d.ack].tgt /\ d.tgt = log[d.ack].src
    /\ d.kind = "RESOLUTION" => d.src \in {log[d.ack].src, log[d.ack].tgt}

EventInv ==
    \A i \in EventNumbers :
        LET e == busLog[i] IN
        /\ e.ack < i /\ e.sup < i /\ Answers(busLog, e)
        /\ e.ack # 0 => busLog[e.ack].thread = e.thread
        /\ e.sup # 0 => busLog[e.sup].thread = e.thread
        /\ e.sup # 0 => \A j \in EventNumbers \ {i} : busLog[j].sup # e.sup

\* A draft that was checked stays within what authority and guard allowed.
PostInv ==
    \A p \in BusProcs :
        LET c == busCall[p] IN
        c # NoCall =>
            /\ c.draft.ack <= Len(busLog) /\ c.draft.sup <= Len(busLog) /\ Answers(busLog, c.draft)
            /\ c.draft.kind = "DECISION" =>
                   /\ c.draft \in usedTokens[p]
                   /\ \A x \in mine[p] : busLog[x.seq] # c.draft
            /\ c.at # NoTime =>
                   /\ c.at <= lastNow[p]
                   /\ c \in seen[p]
                   /\ \A x \in mine[p] :
                          x.at # NoTime /\ busLog[x.seq] = c.draft => c.at - x.at > GuardWindow

\* What a process has written is remembered by its verifier, and by its guard
\* or it is older than the window.
MineInv ==
    \A p \in BusProcs : \A x \in mine[p] :
        /\ x.seq \in EventNumbers
        /\ busLog[x.seq].kind = "DECISION" => busLog[x.seq] \in usedTokens[p]
        /\ x.at # NoTime =>
               /\ x.at <= lastNow[p]
               /\ \/ lastNow[p] - x.at > GuardWindow
                  \/ \E e \in seen[p] : e.draft = busLog[x.seq] /\ e.at >= x.at

\* A page leaves out nothing between the cursor before it and the one after it.
PageInv ==
    \A w \in Streams :
        /\ cursor[w] <= Len(busLog) /\ handled[w] \subseteq EventNumbers
        /\ page[w] # NoPage =>
               /\ page[w].next \in EventNumbers /\ page[w].events \subseteq EventNumbers
               /\ \A i \in 1..page[w].next :
                      i > cursor[w] /\ busLog[i].tgt = w => i \in page[w].events \/ AnsweredBy(w, i)

BusInv == BusTyped /\ EventInv /\ PostInv /\ MineInv /\ PageInv /\ NoDoublePost /\ InboxComplete

\* CoordinationEventDraft.validate: what a draft is.
LEMMA DraftTyped ==
    ASSUME BusTyped, NEW d \in Drafts
    PROVE  /\ d \in DraftSet /\ d.ack <= Len(busLog) /\ d.sup <= Len(busLog)
           /\ d.kind \in {"ACKNOWLEDGEMENT", "REVIEW", "RESOLUTION"} => d.ack # 0
<1>1. PICK x \in Messages, r \in References :
        d = [thread |-> x.thread, src |-> x.src, tgt |-> x.tgt, kind |-> x.kind, ack |-> r[1], sup |-> r[2]]
  BY DEF Drafts
<1>2. /\ {d.ack, d.sup} \subseteq 0..Len(busLog)
      /\ d.kind \in {"ACKNOWLEDGEMENT", "REVIEW", "RESOLUTION"} => d.ack # 0
  BY DEF Drafts
<1>3. /\ x.src \in Streams /\ x.tgt \in Streams \cup {NoStream} /\ x.kind \in MessageKinds
  BY CoordinationBusAssumption DEF MessageKinds
<1>4. Len(busLog) \in Nat
  BY LenProperties DEF BusTyped
<1>5. d.ack \in Nat /\ d.sup \in Nat /\ d.ack <= Len(busLog) /\ d.sup <= Len(busLog)
  BY <1>2, <1>4
<1>6. d \in DraftSet
  BY <1>1, <1>3, <1>5 DEF DraftSet
<1> QED
  BY <1>2, <1>5, <1>6

\* The repository grows at its end; what is there stays.
LEMMA LogGrows ==
    ASSUME BusTyped, NEW e \in DraftSet, busLog' = Append(busLog, e)
    PROVE  /\ busLog' \in Seq(DraftSet) /\ Len(busLog) \in Nat /\ Len(busLog') = Len(busLog) + 1
           /\ busLog'[Len(busLog) + 1] = e
           /\ \A i \in 1..Len(busLog) : busLog'[i] = busLog[i] /\ busLog[i] \in DraftSet
BY DEF BusTyped

\* append: the transaction of one post.
LEMMA AppendStep ==
    ASSUME BusInv, NEW p \in BusProcs, AppendEvent(p)
    PROVE  BusInv'
<1> DEFINE c == busCall[p]
           d == busCall[p].draft
           n == Len(busLog)
<1> USE DEF BusInv, EventNumbers
<1>1. /\ c # NoCall /\ c \in CallSet /\ d \in DraftSet /\ c.at \in Int /\ n \in Nat
      /\ d.ack \in Nat /\ d.sup \in Nat
  BY LenProperties DEF AppendEvent, BusTyped, CallSet, DraftSet
<1>2. /\ busCall' = [busCall EXCEPT ![p] = NoCall]
      /\ UNCHANGED <<usedTokens, lastNow, inboxVars>>
  BY DEF AppendEvent
<1>3. /\ busCall' \in [BusProcs -> {NoCall} \cup CallSet] /\ busCall'[p] = NoCall
      /\ \A q \in BusProcs \ {p} : busCall'[q] = busCall[q]
  BY <1>2 DEF BusTyped
<1>4. CASE Insertable(d)
  <2>1. /\ busLog' = Append(busLog, d)
        /\ mine' = [mine EXCEPT ![p] = @ \cup {[seq |-> n + 1, at |-> c.at]}]
        /\ UNCHANGED seen
    BY <1>4 DEF AppendEvent
  <2>2. /\ busLog' \in Seq(DraftSet) /\ Len(busLog') = n + 1
        /\ busLog'[n + 1] = d
        /\ \A i \in 1..n : busLog'[i] = busLog[i] /\ busLog[i] \in DraftSet
    BY <1>1, <2>1, LogGrows
  <2>3. /\ d.ack <= n /\ d.sup <= n /\ Answers(busLog, d)
        /\ d.ack # 0 => busLog[d.ack].thread = d.thread
        /\ d.sup # 0 => busLog[d.sup].thread = d.thread /\ \A i \in 1..n : busLog[i].sup # d.sup
    BY <1>1, <1>4 DEF Insertable, PostInv
  <2>4. ASSUME NEW e \in DraftSet, e.ack <= n, Answers(busLog, e) PROVE Answers(busLog', e)
    <3>1. e.ack # 0 => e.ack \in 1..n
      BY <1>1, <2>4 DEF DraftSet
    <3> QED
      BY <2>2, <2>4, <3>1 DEF Answers
  <2>5. EventInv'
    <3>1. Answers(busLog', d)
      BY <1>1, <2>3, <2>4
    <3>2. ASSUME NEW i \in 1..n PROVE Answers(busLog', busLog[i]) /\ busLog[i].ack < i /\ busLog[i].sup < i
                                     /\ busLog[i].ack \in Nat /\ busLog[i].sup \in Nat
      <4>1. busLog[i].ack < i /\ busLog[i].sup < i /\ Answers(busLog, busLog[i]) /\ busLog[i] \in DraftSet
        BY <2>2 DEF EventInv
      <4>2. busLog[i].ack \in Nat /\ busLog[i].sup \in Nat /\ busLog[i].ack <= n
        BY <1>1, <4>1 DEF DraftSet
      <4>3. busLog'[i] = busLog[i]
        BY <2>2
      <4>4. Answers(busLog', busLog[i])
        <5> DEFINE b == busLog[i]
        <5>1. b.ack # 0 => b.ack \in 1..n
          BY <1>1, <4>2
        <5> QED
          BY <2>2, <4>1, <4>3, <5>1 DEF Answers
      <4> QED
        BY <4>1, <4>2, <4>4
    <3>3. ASSUME NEW i \in 1..(n + 1)
          PROVE  LET e == busLog'[i] IN
                 /\ e.ack < i /\ e.sup < i /\ Answers(busLog', e)
                 /\ e.ack # 0 => busLog'[e.ack].thread = e.thread
                 /\ e.sup # 0 => busLog'[e.sup].thread = e.thread
                 /\ e.sup # 0 => \A j \in 1..(n + 1) \ {i} : busLog'[j].sup # e.sup
      <4>1. CASE i = n + 1
        BY <1>1, <2>2, <2>3, <3>1, <4>1
      <4>2. CASE i \in 1..n
        <5>1. busLog'[i] = busLog[i]
          BY <2>2, <4>2
        <5>2. busLog[i].ack # 0 => busLog[i].ack \in 1..n
          BY <1>1, <3>2, <4>2
        <5>3. busLog[i].sup # 0 => busLog[i].sup \in 1..n
          BY <1>1, <3>2, <4>2
        <5>4. /\ busLog[i].ack # 0 => busLog[busLog[i].ack].thread = busLog[i].thread
              /\ busLog[i].sup # 0 => busLog[busLog[i].sup].thread = busLog[i].thread
              /\ busLog[i].sup # 0 => \A j \in 1..n \ {i} : busLog[j].sup # busLog[i].sup
          BY <4>2 DEF EventInv
        <5>5. busLog[i].sup # 0 => d.sup # busLog[i].sup
          BY <2>3, <4>2
        <5>6. busLog[i].sup # 0 => \A j \in 1..(n + 1) \ {i} : busLog'[j].sup # busLog[i].sup
          BY <1>1, <2>2, <5>4, <5>5
        <5> QED
          BY <2>2, <3>2, <4>2, <5>1, <5>2, <5>3, <5>4, <5>6
      <4> QED
        BY <1>1, <4>1, <4>2
    <3> QED
      BY <2>2, <3>3 DEF EventInv
  <2>6. /\ mine' \in [BusProcs -> SUBSET [seq : Nat, at : Int]]
        /\ \A q \in BusProcs : \A x \in mine'[q] :
               x \in mine[q] \/ (q = p /\ x.seq = n + 1 /\ x.at = c.at)
    BY <1>1, <2>1 DEF BusTyped
  <2>7. \A q \in BusProcs : \A x \in mine[q] : x.seq \in 1..n /\ busLog'[x.seq] = busLog[x.seq]
    BY <2>2 DEF MineInv
  <2>8. BusTyped'
    BY <1>2, <1>3, <2>1, <2>2, <2>6 DEF BusTyped, inboxVars
  <2>9. PostInv'
    <3> SUFFICES ASSUME NEW q \in BusProcs, busCall'[q] # NoCall
                 PROVE  LET b == busCall'[q] IN
                        /\ b.draft.ack <= Len(busLog') /\ b.draft.sup <= Len(busLog')
                        /\ Answers(busLog', b.draft)
                        /\ b.draft.kind = "DECISION" =>
                               /\ b.draft \in usedTokens'[q]
                               /\ \A x \in mine'[q] : busLog'[x.seq] # b.draft
                        /\ b.at # NoTime =>
                               /\ b.at <= lastNow'[q]
                               /\ b \in seen'[q]
                               /\ \A x \in mine'[q] :
                                      x.at # NoTime /\ busLog'[x.seq] = b.draft => b.at - x.at > GuardWindow
      BY DEF PostInv
    <3>1. q # p /\ busCall'[q] = busCall[q] /\ busCall[q] # NoCall
      BY <1>3
    <3>2. busCall[q] \in CallSet
      BY <3>1 DEF BusTyped
    <3>3. /\ busCall[q].draft \in DraftSet /\ busCall[q].draft.ack \in Nat /\ busCall[q].draft.sup \in Nat
          /\ busCall[q].draft.ack <= n /\ busCall[q].draft.sup <= n /\ Answers(busLog, busCall[q].draft)
      BY <3>1, <3>2 DEF PostInv, CallSet, DraftSet
    <3>4. Answers(busLog', busCall[q].draft)
      <4> DEFINE b == busCall[q].draft
      <4>1. b.ack # 0 => b.ack \in 1..n
        BY <1>1, <3>3
      <4>2. b = busCall'[q].draft
        BY <3>1
      <4> QED
        BY <2>2, <3>3, <4>1, <4>2 DEF Answers
    <3>5. mine'[q] = mine[q]
      BY <2>1, <3>1 DEF BusTyped
    <3> QED
      BY <1>1, <1>2, <2>1, <2>2, <2>7, <3>1, <3>3, <3>4, <3>5 DEF PostInv
  <2>10. MineInv'
    <3> SUFFICES ASSUME NEW q \in BusProcs, NEW x \in mine'[q]
                 PROVE  /\ x.seq \in 1..(n + 1)
                        /\ busLog'[x.seq].kind = "DECISION" => busLog'[x.seq] \in usedTokens[q]
                        /\ x.at # NoTime =>
                               /\ x.at <= lastNow[q]
                               /\ \/ lastNow[q] - x.at > GuardWindow
                                  \/ \E e \in seen[q] : e.draft = busLog'[x.seq] /\ e.at >= x.at
      BY <1>2, <2>1, <2>2 DEF MineInv
    <3>1. CASE x \in mine[q]
      <4>1. x.seq \in 1..n /\ busLog'[x.seq] = busLog[x.seq]
        BY <2>7, <3>1
      <4> QED
        BY <1>1, <3>1, <4>1 DEF MineInv
    <3>2. CASE q = p /\ x.seq = n + 1 /\ x.at = c.at
      BY <1>1, <2>2, <3>2 DEF PostInv
    <3> QED
      BY <2>6, <3>1, <3>2
  <2>11. NoDoublePost'
    <3> SUFFICES ASSUME NEW q \in BusProcs, NEW x \in mine'[q], NEW y \in mine'[q],
                        x.seq # y.seq, busLog'[x.seq] = busLog'[y.seq]
                 PROVE  /\ busLog'[x.seq].kind # "DECISION"
                        /\ x.at # NoTime /\ y.at # NoTime =>
                               x.at - y.at > GuardWindow \/ y.at - x.at > GuardWindow
      BY DEF NoDoublePost
    <3>1. CASE x \in mine[q] /\ y \in mine[q]
      BY <2>7, <3>1 DEF NoDoublePost
    <3>2. CASE x \in mine[q] /\ q = p /\ y.seq = n + 1 /\ y.at = c.at
      <4>1. busLog[x.seq] = d
        BY <2>2, <2>7, <3>2
      <4> QED
        BY <1>1, <2>2, <2>7, <3>2, <4>1 DEF PostInv
    <3>3. CASE y \in mine[q] /\ q = p /\ x.seq = n + 1 /\ x.at = c.at
      <4>1. busLog[y.seq] = d
        BY <2>2, <2>7, <3>3
      <4> QED
        BY <1>1, <2>2, <2>7, <3>3, <4>1 DEF PostInv
    <3> QED
      BY <2>6, <3>1, <3>2, <3>3
  <2>12. ASSUME NEW w \in Streams, NEW i \in 1..n, AnsweredBy(w, i) PROVE AnsweredBy(w, i)'
    BY <1>1, <2>2, <2>12 DEF AnsweredBy
  <2>13. UNCHANGED <<cursor, page, handled>>
    BY <1>2 DEF inboxVars
  <2>14. PageInv'
    <3> SUFFICES ASSUME NEW w \in Streams
                 PROVE  /\ cursor[w] <= n + 1 /\ handled[w] \subseteq 1..(n + 1)
                        /\ page[w] # NoPage =>
                               /\ page[w].next \in 1..(n + 1) /\ page[w].events \subseteq 1..(n + 1)
                               /\ \A i \in 1..page[w].next :
                                      i > cursor[w] /\ busLog'[i].tgt = w =>
                                          i \in page[w].events \/ AnsweredBy(w, i)'
      BY <2>2, <2>13 DEF PageInv
    <3>1. cursor[w] \in Nat /\ cursor[w] <= n /\ handled[w] \subseteq 1..n
      BY DEF PageInv, BusTyped
    <3>2. ASSUME page[w] # NoPage PROVE page[w].next \in 1..n /\ page[w].events \subseteq 1..n
      BY <3>2 DEF PageInv
    <3>3. ASSUME page[w] # NoPage, NEW i \in 1..page[w].next, i > cursor[w], busLog'[i].tgt = w
          PROVE  i \in page[w].events \/ AnsweredBy(w, i)'
      <4>1. i \in 1..n
        BY <1>1, <3>2, <3>3
      <4>2. busLog[i].tgt = w
        BY <2>2, <3>3, <4>1
      <4> QED
        BY <2>12, <3>3, <4>1, <4>2 DEF PageInv
    <3> QED
      BY <1>1, <3>1, <3>2, <3>3
  <2>15. InboxComplete'
    <3> SUFFICES ASSUME NEW w \in Streams, NEW i \in 1..cursor[w], busLog'[i].tgt = w
                 PROVE  i \in handled[w] \/ AnsweredBy(w, i)'
      BY <2>13 DEF InboxComplete
    <3>1. cursor[w] \in Nat /\ cursor[w] <= n
      BY DEF PageInv, BusTyped
    <3>2. i \in 1..n
      BY <1>1, <3>1
    <3>3. busLog[i].tgt = w
      BY <2>2, <3>2
    <3> QED
      BY <2>12, <3>2, <3>3 DEF InboxComplete
  <2> QED
    BY <2>5, <2>8, <2>9, <2>10, <2>11, <2>14, <2>15
<1>5. CASE ~Insertable(d)
  <2>1. /\ seen' = [seen EXCEPT ![p] = {e \in @ : ~(e.draft = d /\ e.at = c.at)}]
        /\ UNCHANGED <<busLog, mine>>
    BY <1>5 DEF AppendEvent
  <2>2. /\ seen' \in [BusProcs -> SUBSET GuardSet]
        /\ seen'[p] = {e \in seen[p] : ~(e.draft = d /\ e.at = c.at)}
        /\ \A q \in BusProcs \ {p} : seen'[q] = seen[q]
    BY <2>1 DEF BusTyped
  <2>3. BusTyped'
    BY <1>2, <1>3, <2>1, <2>2 DEF BusTyped, inboxVars
  <2>4. EventInv' /\ PageInv' /\ NoDoublePost' /\ InboxComplete'
    BY <1>2, <2>1 DEF EventInv, Answers, PageInv, NoDoublePost, InboxComplete, AnsweredBy, inboxVars
  <2>5. PostInv'
    BY <1>2, <1>3, <2>1, <2>2 DEF PostInv, Answers
  <2>6. MineInv'
    <3> SUFFICES ASSUME NEW q \in BusProcs, NEW x \in mine[q], x.at # NoTime
                 PROVE  \/ lastNow[q] - x.at > GuardWindow
                        \/ \E e \in seen'[q] : e.draft = busLog[x.seq] /\ e.at >= x.at
      BY <1>2, <2>1 DEF MineInv
    <3>1. x.at \in Int /\ lastNow[q] \in Nat
      BY DEF BusTyped
    <3>2. \/ lastNow[q] - x.at > GuardWindow
          \/ \E e \in seen[q] : e.draft = busLog[x.seq] /\ e.at >= x.at
      BY DEF MineInv
    <3>3. CASE lastNow[q] - x.at > GuardWindow
      BY <3>3
    <3>4. ASSUME NEW e \in seen[q], e.draft = busLog[x.seq], e.at >= x.at,
                 q = p, e.draft = d, e.at = c.at
          PROVE  lastNow[q] - x.at > GuardWindow
      <4>1. CASE c.at # NoTime
        <5>1. c.at - x.at > GuardWindow /\ c.at <= lastNow[q]
          BY <1>1, <3>4, <4>1 DEF PostInv
        <5> QED
          BY <1>1, <3>1, <5>1, CoordinationBusAssumption
      <4>2. CASE c.at = NoTime
        BY <3>4, <4>2 DEF NoTime, BusTyped, GuardSet
      <4> QED
        BY <4>1, <4>2
    <3> QED
      BY <2>2, <3>2, <3>3, <3>4
  <2> QED
    BY <2>3, <2>4, <2>5, <2>6
<1> QED
  BY <1>4, <1>5

\* coordination_post up to the append: the draft may answer what it answers,
\* and a decision's token is spent.
LEMMA CheckedPost ==
    ASSUME BusInv, NEW p \in BusProcs, NEW d \in Drafts, NEW at \in Int, CheckPost(p, d, at)
    PROVE  /\ d \in DraftSet /\ d.ack <= Len(busLog) /\ d.sup <= Len(busLog) /\ Answers(busLog, d)
           /\ busCall[p] = NoCall
           /\ busCall' \in [BusProcs -> {NoCall} \cup CallSet]
           /\ \A q \in BusProcs \ {p} : busCall'[q] = busCall[q] /\ usedTokens'[q] = usedTokens[q]
           /\ busCall'[p] # NoCall => LineageHolds(d) /\ busCall'[p] = [draft |-> d, at |-> at]
           /\ usedTokens' \in [BusProcs -> SUBSET DraftSet]
           /\ usedTokens[p] \subseteq usedTokens'[p]
           /\ d.kind = "DECISION" => d \notin usedTokens[p] /\ d \in usedTokens'[p]
<1>1. /\ d \in DraftSet /\ d.ack <= Len(busLog) /\ d.sup <= Len(busLog)
      /\ d.kind \in {"ACKNOWLEDGEMENT", "REVIEW", "RESOLUTION"} => d.ack # 0
  BY DraftTyped DEF BusInv
<1>2. Answers(busLog, d)
  BY <1>1 DEF CheckPost, Authorized, AnswerAuthorized, Answers
<1>3. [draft |-> d, at |-> at] \in CallSet
  BY <1>1 DEF CallSet
<1>4. busCall[p] = NoCall /\ busCall' \in {busCall, [busCall EXCEPT ![p] = [draft |-> d, at |-> at]]}
      /\ (~LineageHolds(d) => busCall' = busCall)
  BY DEF CheckPost
<1>5. /\ d.kind = "DECISION" => d \notin usedTokens[p] /\ usedTokens' = [usedTokens EXCEPT ![p] = @ \cup {d}]
      /\ d.kind # "DECISION" => usedTokens' = usedTokens
  BY DEF CheckPost, TokenAccepted, TokensAfter
<1>6. /\ usedTokens' \in [BusProcs -> SUBSET DraftSet]
      /\ usedTokens[p] \subseteq usedTokens'[p]
      /\ d.kind = "DECISION" => d \notin usedTokens[p] /\ d \in usedTokens'[p]
      /\ \A q \in BusProcs \ {p} : usedTokens'[q] = usedTokens[q]
  BY <1>1, <1>5 DEF BusInv, BusTyped
<1> QED
  BY <1>1, <1>2, <1>3, <1>4, <1>6 DEF BusInv, BusTyped

\* A post without the guard, up to its append.
LEMMA PostStep ==
    ASSUME BusInv, NEW p \in BusProcs, NEW d \in Drafts, Post(p, d)
    PROVE  BusInv'
<1>1. CheckPost(p, d, NoTime) /\ UNCHANGED <<busLog, seen, lastNow, mine, inboxVars>> /\ NoTime \in Int
  BY DEF Post, NoTime
<1> DEFINE c == [draft |-> d, at |-> NoTime]
<1>2. /\ d \in DraftSet /\ d.ack <= Len(busLog) /\ d.sup <= Len(busLog) /\ Answers(busLog, d)
      /\ busCall' \in [BusProcs -> {NoCall} \cup CallSet]
      /\ \A q \in BusProcs \ {p} : busCall'[q] = busCall[q] /\ usedTokens'[q] = usedTokens[q]
      /\ busCall'[p] # NoCall => busCall'[p] = c
      /\ usedTokens' \in [BusProcs -> SUBSET DraftSet]
      /\ usedTokens[p] \subseteq usedTokens'[p]
      /\ d.kind = "DECISION" => d \notin usedTokens[p] /\ d \in usedTokens'[p]
  BY <1>1, CheckedPost
<1>3. c.draft = d /\ c.at = NoTime
  OBVIOUS
<1> HIDE DEF c
<1>4. BusTyped'
  BY <1>1, <1>2 DEF BusInv, BusTyped, inboxVars
<1>5. (EventInv /\ PageInv /\ NoDoublePost /\ InboxComplete)'
  BY <1>1 DEF BusInv, EventInv, PageInv, NoDoublePost, InboxComplete, AnsweredBy, inboxVars, EventNumbers
<1>6. MineInv'
  BY <1>1, <1>2 DEF BusInv, MineInv, EventNumbers
<1>7. PostInv'
  BY <1>1, <1>2, <1>3 DEF BusInv, PostInv, MineInv
<1> QED
  BY <1>4, <1>5, <1>6, <1>7 DEF BusInv

\* guarded_coordination_post, up to its append.
LEMMA GuardedStep ==
    ASSUME BusInv, NEW p \in BusProcs, NEW d \in Drafts, NEW now \in 0..BusMaxTime,
           GuardedPost(p, d, now)
    PROVE  BusInv'
<1>1. /\ now \in Nat /\ now \in Int /\ now # NoTime /\ GuardWindow \in Nat
  BY CoordinationBusAssumption DEF NoTime
<1>2. /\ CheckPost(p, d, now) /\ UNCHANGED <<busLog, mine, inboxVars>>
      /\ now >= lastNow[p] /\ lastNow' = [lastNow EXCEPT ![p] = now]
      /\ \A e \in seen[p] : e.draft = d => ~(now - e.at <= GuardWindow)
  BY DEF GuardedPost, Suppressed
<1> DEFINE c == [draft |-> d, at |-> now]
           others == {e \in seen[p] : e.draft # d /\ e.at >= now - GuardWindow}
<1>3. seen' = [seen EXCEPT ![p] = IF LineageHolds(d) THEN others \cup {c} ELSE others]
  BY DEF GuardedPost, Kept
<1>4. /\ d \in DraftSet /\ d.ack <= Len(busLog) /\ d.sup <= Len(busLog) /\ Answers(busLog, d)
      /\ busCall[p] = NoCall
      /\ busCall' \in [BusProcs -> {NoCall} \cup CallSet]
      /\ \A q \in BusProcs \ {p} : busCall'[q] = busCall[q] /\ usedTokens'[q] = usedTokens[q]
      /\ busCall'[p] # NoCall => LineageHolds(d) /\ busCall'[p] = c
      /\ usedTokens' \in [BusProcs -> SUBSET DraftSet]
      /\ usedTokens[p] \subseteq usedTokens'[p]
      /\ d.kind = "DECISION" => d \notin usedTokens[p] /\ d \in usedTokens'[p]
  BY <1>1, <1>2, CheckedPost
<1>5. c.draft = d /\ c.at = now /\ c \in GuardSet
  BY <1>1, <1>4 DEF GuardSet
<1> HIDE DEF c
<1>6. /\ seen' \in [BusProcs -> SUBSET GuardSet]
      /\ \A q \in BusProcs \ {p} : seen'[q] = seen[q] /\ lastNow'[q] = lastNow[q]
      /\ others \subseteq seen'[p] /\ (LineageHolds(d) => c \in seen'[p])
      /\ lastNow' \in [BusProcs -> Nat] /\ lastNow'[p] = now
  BY <1>1, <1>2, <1>3, <1>5 DEF BusInv, BusTyped
<1>7. (BusTyped /\ EventInv /\ PageInv /\ NoDoublePost /\ InboxComplete)'
  BY <1>2, <1>4, <1>6
  DEF BusInv, BusTyped, EventInv, PageInv, NoDoublePost, InboxComplete, AnsweredBy, inboxVars, EventNumbers
<1>8. ASSUME NEW x \in mine[p], x.at # NoTime
      PROVE  /\ x.at \in Int /\ x.at <= now
             /\ busLog[x.seq] = d => now - x.at > GuardWindow
             /\ \/ now - x.at > GuardWindow
                \/ \E e \in others : e.draft = busLog[x.seq] /\ e.at >= x.at
  <2>1. x.at \in Int /\ lastNow[p] \in Nat /\ \A e \in seen[p] : e.at \in Nat
    BY DEF BusInv, BusTyped, GuardSet
  <2>2. /\ x.at <= lastNow[p]
        /\ \/ lastNow[p] - x.at > GuardWindow
           \/ \E e \in seen[p] : e.draft = busLog[x.seq] /\ e.at >= x.at
    BY <1>8 DEF BusInv, MineInv
  <2>3. CASE lastNow[p] - x.at > GuardWindow
    BY <1>1, <1>2, <2>1, <2>2, <2>3
  <2>4. ASSUME NEW e \in seen[p], e.draft = busLog[x.seq], e.at >= x.at
        PROVE  /\ busLog[x.seq] = d => now - x.at > GuardWindow
               /\ now - x.at > GuardWindow \/ e \in others
    <3>1. CASE e.draft = d
      BY <1>1, <1>2, <2>1, <2>4, <3>1
    <3>2. CASE e.draft # d
      BY <1>1, <1>2, <2>1, <2>4, <3>2
    <3> QED
      BY <3>1, <3>2
  <2> HIDE DEF others
  <2>5. x.at <= now
    BY <1>1, <1>2, <2>1, <2>2
  <2> QED
    BY <2>1, <2>2, <2>3, <2>4, <2>5
<1> HIDE DEF others
<1>9. MineInv'
  <2> SUFFICES ASSUME NEW q \in BusProcs, NEW x \in mine'[q]
               PROVE  /\ x.seq \in EventNumbers'
                      /\ busLog'[x.seq].kind = "DECISION" => busLog'[x.seq] \in usedTokens'[q]
                      /\ x.at # NoTime =>
                             /\ x.at <= lastNow'[q]
                             /\ \/ lastNow'[q] - x.at > GuardWindow
                                \/ \E e \in seen'[q] : e.draft = busLog'[x.seq] /\ e.at >= x.at
    BY DEF MineInv
  <2>1. x \in mine[q]
    BY <1>2
  <2>2. CASE q = p
    BY <1>2, <1>4, <1>6, <1>8, <2>1, <2>2 DEF BusInv, MineInv, EventNumbers
  <2>3. CASE q # p
    BY <1>2, <1>4, <1>6, <2>1, <2>3 DEF BusInv, MineInv, EventNumbers
  <2> QED
    BY <2>2, <2>3
<1>10. PostInv'
  <2> SUFFICES ASSUME NEW q \in BusProcs, busCall'[q] # NoCall
               PROVE  LET b == busCall'[q] IN
                      /\ b.draft.ack <= Len(busLog') /\ b.draft.sup <= Len(busLog')
                      /\ Answers(busLog', b.draft)
                      /\ b.draft.kind = "DECISION" =>
                             /\ b.draft \in usedTokens'[q]
                             /\ \A x \in mine'[q] : busLog'[x.seq] # b.draft
                      /\ b.at # NoTime =>
                             /\ b.at <= lastNow'[q]
                             /\ b \in seen'[q]
                             /\ \A x \in mine'[q] :
                                    x.at # NoTime /\ busLog'[x.seq] = b.draft => b.at - x.at > GuardWindow
    BY DEF PostInv
  <2>1. CASE q = p
    BY <1>1, <1>2, <1>4, <1>5, <1>6, <1>8, <2>1 DEF BusInv, MineInv
  <2>2. CASE q # p
    BY <1>2, <1>4, <1>6, <2>2 DEF BusInv, PostInv
  <2> QED
    BY <2>1, <2>2
<1> QED
  BY <1>7, <1>9, <1>10 DEF BusInv

\* A process dies with its guard, its verifier and its draft.
LEMMA BusCrashStep ==
    ASSUME BusInv, NEW p \in BusProcs, BusCrash(p)
    PROVE  BusInv'
BY DEF BusInv, BusCrash, BusTyped, EventInv, PostInv, MineInv, PageInv, NoDoublePost, InboxComplete,
       AnsweredBy, inboxVars, EventNumbers

\* A reader takes a page, commits its cursor or loses the page.
LEMMA ReaderStep ==
    ASSUME BusInv, NEW w \in Streams, ReadPage(w) \/ CommitCursor(w) \/ DropPage(w)
    PROVE  BusInv'
<1>1. UNCHANGED <<busLog, procVars>>
  BY DEF ReadPage, CommitCursor, DropPage
<1>2. (EventInv /\ PostInv /\ MineInv /\ NoDoublePost)'
  BY <1>1 DEF BusInv, EventInv, PostInv, MineInv, NoDoublePost, procVars, EventNumbers
<1>3. Len(busLog) \in Nat /\ \A v \in Streams : cursor[v] \in Nat
  BY LenProperties DEF BusInv, BusTyped
<1>4. NoPage \in [events : SUBSET Nat, next : Int]
  BY DEF NoPage
<1>5. CASE ReadPage(w)
  <2> DEFINE events == FirstOf(Inbox(w), PageLimit)
             next == CursorOut(w, events)
  <2>1. /\ page[w] = NoPage /\ events # {}
        /\ page' = [page EXCEPT ![w] = [events |-> events, next |-> next]]
        /\ UNCHANGED <<cursor, handled>>
    BY <1>5 DEF ReadPage
  <2>2. Inbox(w) \subseteq 1..Len(busLog) /\ events \subseteq Inbox(w)
    BY DEF Inbox, EventNumbers, FirstOf
  <2>3. next = Max(events)
    BY <2>1 DEF CursorOut
  <2>4. next \in events /\ \A i \in events : i <= next
    BY <1>3, <2>1, <2>2, <2>3, MaxOfInterval
  <2>5. ASSUME NEW i \in 1..next, i > cursor[w], busLog[i].tgt = w
        PROVE  i \in events \/ AnsweredBy(w, i)
    <3>1. next \in 1..Len(busLog) /\ i \in 1..Len(busLog) /\ i <= next
      BY <1>3, <2>2, <2>4
    <3>2. CASE ~AnsweredBy(w, i)
      <4>1. i \in Inbox(w)
        BY <2>5, <3>1, <3>2 DEF Inbox, EventNumbers
      <4> QED
        BY <1>3, <2>2, <2>4, <3>1, <4>1, FirstOfDownward, CoordinationBusAssumption
    <3> QED
      BY <3>2
  <2>6. events \subseteq 1..Len(busLog) /\ next \in 1..Len(busLog)
    BY <2>2, <2>4
  <2> HIDE DEF events, next
  <2>7. /\ page' \in [Streams -> [events : SUBSET Nat, next : Int]]
        /\ page'[w].events = events /\ page'[w].next = next
        /\ \A v \in Streams \ {w} : page'[v] = page[v]
    BY <1>3, <2>1, <2>6 DEF BusInv, BusTyped
  <2>8. BusTyped'
    BY <1>1, <2>1, <2>7 DEF BusInv, BusTyped, procVars
  <2>9. PageInv'
    <3>1. UNCHANGED <<busLog, cursor, handled>>
      BY <1>1, <2>1 DEF procVars
    <3> SUFFICES ASSUME NEW v \in Streams
                 PROVE  /\ cursor[v] <= Len(busLog) /\ handled[v] \subseteq EventNumbers
                        /\ page'[v] # NoPage =>
                             /\ page'[v].next \in EventNumbers /\ page'[v].events \subseteq EventNumbers
                             /\ \A i \in 1..page'[v].next :
                                   i > cursor[v] /\ busLog[i].tgt = v =>
                                     i \in page'[v].events \/ AnsweredBy(v, i)
      BY <3>1 DEF PageInv, AnsweredBy, EventNumbers
    <3>2. CASE v = w
      BY <2>5, <2>6, <2>7, <3>2 DEF BusInv, PageInv, EventNumbers
    <3>3. CASE v # w
      BY <2>7, <3>3 DEF BusInv, PageInv
    <3> QED
      BY <3>2, <3>3
  <2>10. InboxComplete'
    BY <1>1, <2>1 DEF BusInv, InboxComplete, AnsweredBy, EventNumbers
  <2> QED
    BY <1>2, <2>8, <2>9, <2>10 DEF BusInv
<1>6. CASE CommitCursor(w)
  <2> DEFINE n == page[w].next
  <2>1. /\ page[w] # NoPage
        /\ handled' = [handled EXCEPT ![w] = @ \cup page[w].events]
        /\ cursor' = [cursor EXCEPT ![w] = n]
        /\ page' = [page EXCEPT ![w] = NoPage]
    BY <1>6 DEF CommitCursor
  <2>2. /\ n \in 1..Len(busLog) /\ page[w].events \subseteq 1..Len(busLog)
        /\ \A i \in 1..n : i > cursor[w] /\ busLog[i].tgt = w => i \in page[w].events \/ AnsweredBy(w, i)
    BY <2>1 DEF BusInv, PageInv, EventNumbers
  <2> HIDE DEF n
  <2>3. /\ cursor'[w] = n /\ page'[w] = NoPage /\ handled'[w] = handled[w] \cup page[w].events
        /\ \A v \in Streams \ {w} :
               cursor'[v] = cursor[v] /\ page'[v] = page[v] /\ handled'[v] = handled[v]
    BY <2>1 DEF BusInv, BusTyped
  <2>4. BusTyped'
    <3>1. n \in Nat /\ page[w].events \subseteq Nat
      BY <1>3, <2>2
    <3> QED
      BY <1>1, <1>4, <2>1, <3>1 DEF BusInv, BusTyped, procVars
  <2>5. PageInv'
    BY <1>1, <1>3, <2>2, <2>3 DEF BusInv, PageInv, AnsweredBy, EventNumbers
  <2>6. InboxComplete'
    <3> SUFFICES ASSUME NEW v \in Streams, NEW i \in 1..cursor'[v], busLog[i].tgt = v
                 PROVE  i \in handled'[v] \/ AnsweredBy(v, i)
      BY <1>1 DEF InboxComplete, AnsweredBy, EventNumbers
    <3>1. CASE v # w
      BY <2>3, <3>1 DEF BusInv, InboxComplete
    <3>2. CASE v = w /\ i <= cursor[w]
      BY <1>3, <2>3, <3>2 DEF BusInv, InboxComplete
    <3>3. CASE v = w /\ ~(i <= cursor[w])
      BY <1>3, <2>2, <2>3, <3>3
    <3> QED
      BY <3>1, <3>2, <3>3
  <2> QED
    BY <1>2, <2>4, <2>5, <2>6 DEF BusInv
<1>7. CASE DropPage(w)
  <2>1. /\ page' = [page EXCEPT ![w] = NoPage] /\ UNCHANGED <<cursor, handled>>
    BY <1>7 DEF DropPage
  <2>2. BusTyped'
    BY <1>1, <1>4, <2>1 DEF BusInv, BusTyped, procVars
  <2>3. PageInv' /\ InboxComplete'
    BY <1>1, <2>1 DEF BusInv, BusTyped, PageInv, InboxComplete, AnsweredBy, EventNumbers
  <2> QED
    BY <1>2, <2>2, <2>3 DEF BusInv
<1> QED
  BY <1>5, <1>6, <1>7

\* The invariant holds of any messages, processes and readers.
LEMMA BusInductive == BusSpec => []BusInv
<1>1. BusInit => BusInv
  <2> SUFFICES ASSUME BusInit PROVE BusInv
    OBVIOUS
  <2>1. busLog \in Seq(DraftSet) /\ Len(busLog) = 0
    BY EmptySeq DEF BusInit
  <2>2. NoPage \in [events : SUBSET Nat, next : Int]
    BY DEF NoPage
  <2>3. BusTyped
    BY <2>1, <2>2 DEF BusInit, BusTyped
  <2> QED
    BY <2>1, <2>3
    DEF BusInit, BusInv, EventInv, PostInv, MineInv, PageInv, NoDoublePost, InboxComplete, EventNumbers
<1>2. BusInv /\ [BusNext]_busVars => BusInv'
  <2> SUFFICES ASSUME BusInv, [BusNext]_busVars PROVE BusInv'
    OBVIOUS
  <2>1. CASE UNCHANGED busVars
    <3> USE <2>1 DEF busVars, procVars, inboxVars, BusInv
    <3>1. BusTyped' /\ EventInv'
      BY DEF BusTyped, EventInv, EventNumbers
    <3>2. PostInv' /\ MineInv'
      BY DEF PostInv, MineInv, EventNumbers
    <3>3. PageInv' /\ NoDoublePost' /\ InboxComplete'
      BY DEF PageInv, NoDoublePost, InboxComplete, AnsweredBy, EventNumbers
    <3> QED
      BY <3>1, <3>2, <3>3
  <2>2. CASE BusNext
    BY <2>2, AppendStep, PostStep, GuardedStep, BusCrashStep, ReaderStep DEF BusNext
  <2> QED
    BY <2>1, <2>2
<1> QED
  BY <1>1, <1>2, PTL DEF BusSpec

\* Cursors, handled events and what a process has written stay within the
\* repository (sqlite_repository.py, core.py).
THEOREM BusTypeCorrect == BusSpec => []BusTypeOK
<1>1. BusInv => BusTypeOK
  BY DEF BusInv, BusTyped, BusTypeOK, PageInv, MineInv, EventNumbers
<1> QED
  BY <1>1, BusInductive, PTL

\* Every event keeps to its thread and its addressee and has one successor at
\* most, a process posts nothing twice within its guard's window, and no
\* event falls behind the cursor of its addressee unread, for any messages,
\* processes, window and page size (core.py, sqlite_repository.py,
\* retry_guard.py, temporal.py).
THEOREM BusIsLawful == BusSpec => []BusLawful
<1>1. BusInv => BusLawful
  <2> SUFFICES ASSUME BusInv PROVE BusLawful
    OBVIOUS
  <2>1. EventsLawful
    BY DEF BusInv, EventInv, Answers, EventsLawful
  <2> QED
    BY <2>1 DEF BusInv, BusLawful
<1> QED
  BY <1>1, BusInductive, PTL

----------------------------------------------------------------------------
(* Verification stores and closeout.                                       *)

AnyObs == SourceObs \cup InstallObs \cup RouteObs \cup ConsumeObs \cup BehaviorObs \cup AttestObs
          \cup ReviewObs
AllStates == ContentStates \cup {"PENDING", "STALE_HEAD"}
ReceiptSet == [status : AllStates, seen : AnyObs, base : Nat]
VerCallSet == [step : VerSteps, kind : Kinds \cup {"none"}, base : Nat, seen : AnyObs \cup {NoObservation},
               refs : [Kinds -> Nat]]
WorldSet == [source : SourceObs, install : InstallObs, route : RouteObs, consume : ConsumeObs,
             behavior : BehaviorObs, attest : AttestObs, review : ReviewObs]

VerTyped ==
    /\ packet \in Packets
    /\ taskClosed \in BOOLEAN /\ accepted \in BOOLEAN
    /\ moves \in 0..VerMaxMoves
    /\ world \in WorldSet
    /\ receipts \in [Kinds -> Seq(ReceiptSet)]
    /\ verCall \in [Verifiers -> VerCallSet]
    /\ closeout \in [Kinds -> Nat]

\* Every row is one its table accepts.
RowsTyped == \A k \in Kinds : \A i \in 1..Len(receipts[k]) : receipts[k][i] \in Rows[k]

\* Some route receipt that passed recorded this content.
RouteBacked(rs, content) ==
    \E j \in 1..Len(rs["route"]) :
        rs["route"][j].status = "PASS" /\ rs["route"][j].seen.content = content

\* References to receipts, none older than what a later one rests on.
RefsLawful(rs, refs) ==
    /\ \A k \in Kinds : refs[k] <= Len(rs[k]) /\ (refs[k] # 0 => rs[k][refs[k]].status = "PASS")
    /\ refs["behavior"] # 0 => rs["behavior"][refs["behavior"]].base >= refs["consume"]
    /\ \A k \in {"attest", "review"} : refs[k] # 0 => rs[k][refs[k]].base >= refs["behavior"]

\* What a verify() has established so far.
VerifyOK(rs, v) ==
    /\ v.step = "assess" => v.kind \in {"behavior", "attest", "review"}
    /\ v.step = "reread" => v.kind \in {"attest", "review"}
    /\ v.step = "route" => v.kind = "consume" /\ v.base = 0 /\ v.seen \in ConsumeObs
    /\ v.step = "append" => v.kind \in Kinds /\ v.seen \in Observations[v.kind]
    /\ v.step \in {"observe", "append"} /\ v.kind \notin {"behavior", "attest", "review"} => v.base = 0
    /\ v.step = "append" /\ v.kind = "consume" /\ ConsumeStatus(v.seen) = "PASS" /\ "route" \in packet =>
           RouteBacked(rs, v.seen.loaded)
    /\ v.step \in {"observe", "append"} /\ v.kind = "behavior" =>
           v.base \in 1..Len(rs["consume"]) /\ rs["consume"][v.base].status = "PASS"
    /\ v.step \in {"reread", "observe", "append"} /\ v.kind \in {"attest", "review"} =>
           v.base \in 1..Len(rs["behavior"])

\* What a closeout has collected so far: nothing of the kinds to come.
CloseOK(v) ==
    /\ v.step \in {"decide", "collect"} => v.kind \in Kinds
    /\ v.step = "decide" \/ (v.step = "collect" /\ v.kind \in {"source", "install", "route", "consume"}) =>
           v.refs["behavior"] = 0
    /\ v.step = "decide" \/ (v.step = "collect" /\ v.kind \notin {"attest", "review"}) =>
           v.refs["attest"] = 0 /\ v.refs["review"] = 0

CallsLawful == \A c \in Verifiers :
                   VerifyOK(receipts, verCall[c]) /\ CloseOK(verCall[c]) /\ RefsLawful(receipts, verCall[c].refs)

VerInv == VerTyped /\ RowsTyped /\ CallsLawful /\ RefsLawful(receipts, closeout) /\ PassBacked
          /\ NonceSingleUse

\* The seven kinds.
LEMMA KindsAre ==
    /\ Kinds = {"source", "install", "route", "consume", "behavior", "attest", "review"}
    /\ "none" \notin Kinds
<1>1. 1..7 = {1, 2, 3, 4, 5, 6, 7}
  OBVIOUS
<1> QED
  BY <1>1 DEF Kinds, KindOrder

\* The next kind of a closeout comes after the one before it.
LEMMA FollowingOrder ==
    ASSUME packet \subseteq Kinds, packet # {}, NEW k \in Kinds \cup {"none"}
    PROVE  /\ Following(k) \in Kinds \cup {"none"}
           /\ k = "none" => Following(k) \in Kinds
           /\ k \in {"behavior", "attest", "review"} =>
                  Following(k) \notin {"source", "install", "route", "consume", "behavior"}
<1> DEFINE after == {i \in 1..7 : KindOrder[i] \in packet /\ \A j \in 1..7 : KindOrder[j] = k => i > j}
           first == CHOOSE i \in after : \A j \in after : i <= j
<1>1. Following(k) = IF after = {} THEN "none" ELSE KindOrder[first]
  BY DEF Following
<1>2. after # {} => first \in after
  <2>1. after \subseteq Nat
    OBVIOUS
  <2> QED
    BY <2>1, LeastNatural
<1>3. ASSUME k = "none" PROVE after # {}
  <2>1. PICK i \in 1..7 : KindOrder[i] \in packet
    BY DEF Kinds
  <2>2. \A j \in 1..7 : KindOrder[j] # k
    BY <1>3, KindsAre DEF Kinds
  <2> QED
    BY <2>1, <2>2
<1>4. 1..7 = {1, 2, 3, 4, 5, 6, 7}
  OBVIOUS
<1>5. ASSUME after # {}, k \in {"behavior", "attest", "review"}
      PROVE  first \in {6, 7}
  <2>1. first \in 1..7 /\ \A j \in 1..7 : KindOrder[j] = k => first > j
    BY <1>2, <1>5
  <2> HIDE DEF first
  <2>2. KindOrder[5] = "behavior" /\ KindOrder[6] = "attest" /\ KindOrder[7] = "review"
    BY DEF KindOrder
  <2>3. first > 5
    BY <1>5, <2>1, <2>2
  <2> QED
    BY <2>1, <2>3
<1>6. KindOrder[6] = "attest" /\ KindOrder[7] = "review"
  BY DEF KindOrder
<1>7. after # {} => KindOrder[first] \in Kinds
  BY <1>2 DEF Kinds
<1> HIDE DEF after, first
<1> QED
  BY <1>1, <1>3, <1>5, <1>6, <1>7, KindsAre

\* Logs that are appended to keep what they hold.
Grown(rs, qs) ==
    \A k \in Kinds : Len(rs[k]) <= Len(qs[k]) /\ \A i \in 1..Len(rs[k]) : qs[k][i] = rs[k][i]

\* What was established of receipts stays so while logs grow.
LEMMA GrownKeeps ==
    ASSUME NEW rs \in [Kinds -> Seq(ReceiptSet)], NEW qs \in [Kinds -> Seq(ReceiptSet)], Grown(rs, qs)
    PROVE  /\ \A refs \in [Kinds -> Nat] : RefsLawful(rs, refs) => RefsLawful(qs, refs)
           /\ \A v \in VerCallSet : VerifyOK(rs, v) => VerifyOK(qs, v)
<1>1. /\ \A k \in Kinds : Len(rs[k]) \in Nat /\ Len(qs[k]) \in Nat
      /\ \A k \in {"route", "consume", "behavior", "attest", "review"} : k \in Kinds
  BY KindsAre, LenProperties
<1>2. ASSUME NEW refs \in [Kinds -> Nat], RefsLawful(rs, refs) PROVE RefsLawful(qs, refs)
  <2>1. ASSUME NEW k \in Kinds
        PROVE  /\ refs[k] <= Len(qs[k])
               /\ refs[k] # 0 => refs[k] \in 1..Len(rs[k]) /\ qs[k][refs[k]] = rs[k][refs[k]]
    <3>1. refs[k] \in Nat /\ Len(rs[k]) \in Nat /\ Len(qs[k]) \in Nat
      BY <1>1
    <3>2. refs[k] <= Len(rs[k]) /\ Len(rs[k]) <= Len(qs[k])
      BY <1>2 DEF RefsLawful, Grown
    <3>3. refs[k] # 0 => refs[k] \in 1..Len(rs[k])
      BY <3>1, <3>2
    <3>4. refs[k] <= Len(qs[k])
      BY <3>1, <3>2
    <3> QED
      BY <3>3, <3>4 DEF Grown
  <2>2. \A k \in Kinds : refs[k] # 0 => qs[k][refs[k]].status = "PASS"
    BY <1>2, <2>1 DEF RefsLawful
  <2> QED
    BY <1>1, <1>2, <2>1, <2>2 DEF RefsLawful
<1>3. ASSUME NEW v \in VerCallSet, VerifyOK(rs, v) PROVE VerifyOK(qs, v)
  <2>1. ASSUME NEW x, RouteBacked(rs, x) PROVE RouteBacked(qs, x)
    <3>1. PICK j \in 1..Len(rs["route"]) :
              rs["route"][j].status = "PASS" /\ rs["route"][j].seen.content = x
      BY <2>1 DEF RouteBacked
    <3>2. j \in 1..Len(qs["route"]) /\ qs["route"][j] = rs["route"][j]
      BY <1>1 DEF Grown
    <3> QED
      BY <3>1, <3>2 DEF RouteBacked
  <2>2. \A b \in 1..Len(rs["consume"]) : b \in 1..Len(qs["consume"])
                                         /\ qs["consume"][b] = rs["consume"][b]
    BY <1>1 DEF Grown
  <2>3. \A b \in 1..Len(rs["behavior"]) : b \in 1..Len(qs["behavior"])
    BY <1>1 DEF Grown
  <2> QED
    BY <1>3, <2>1, <2>2, <2>3 DEF VerifyOK
<1> QED
  BY <1>2, <1>3

\* One row at the end of one log.
LEMMA RowAppended ==
    ASSUME receipts \in [Kinds -> Seq(ReceiptSet)], NEW k \in Kinds, NEW r \in ReceiptSet,
           receipts' = [receipts EXCEPT ![k] = Append(@, r)]
    PROVE  /\ receipts' \in [Kinds -> Seq(ReceiptSet)]
           /\ Grown(receipts, receipts')
           /\ \A j \in Kinds : Len(receipts[j]) \in Nat
           /\ \A j \in Kinds \ {k} : receipts'[j] = receipts[j]
           /\ Len(receipts'[k]) = Len(receipts[k]) + 1
           /\ receipts'[k][Len(receipts[k]) + 1] = r
           /\ \A i \in 1..Len(receipts[k]) : receipts'[k][i] = receipts[k][i]
<1>1. \A j \in Kinds : receipts[j] \in Seq(ReceiptSet) /\ Len(receipts[j]) \in Nat
  BY LenProperties
<1>2. receipts'[k] = Append(receipts[k], r) /\ \A j \in Kinds \ {k} : receipts'[j] = receipts[j]
  OBVIOUS
<1> DEFINE s == receipts[k]
           t == Append(s, r)
<1>3. /\ t \in Seq(ReceiptSet) /\ Len(t) = Len(s) + 1 /\ t[Len(s) + 1] = r
      /\ \A i \in 1..Len(s) : t[i] = s[i]
  BY <1>1
<1> HIDE DEF s, t
<1>4. receipts' \in [Kinds -> Seq(ReceiptSet)]
  <2>1. receipts' = [receipts EXCEPT ![k] = t]
    BY DEF s, t
  <2> QED
    BY <1>3, <2>1
<1>5. receipts'[k] = t
  BY <1>2 DEF s, t
<1>6. Grown(receipts, receipts')
  BY <1>1, <1>2, <1>3, <1>5 DEF Grown, s
<1> QED
  BY <1>1, <1>2, <1>3, <1>4, <1>5, <1>6 DEF s

\* _status and _aggregate of every kind: which states they return.
LEMMA StatusRange ==
    /\ \A o \in SourceObs : SourceStatus(o) \in AllStates
    /\ \A o : ContentStatus(o) \in ContentStates
    /\ \A o : ConsumeStatus(o) \in ContentStates
    /\ \A o, b : BehaviorStatus(o, b) \in ContentStates
    /\ \A o, b : AttestStatus(o, b) \in ContentStates
    /\ \A o, b : ReviewStatus(o, b) \in ContentStates
<1>1. \A o \in SourceObs : SourceStatus(o) \in AllStates
  BY DEF SourceObs, SourceStatus, AllStates, ContentStates
<1>2. \A o : ContentStatus(o) \in ContentStates
  BY DEF ContentStatus, ContentStates
<1>3. \A o : ConsumeStatus(o) \in ContentStates
  BY DEF ConsumeStatus, ContentStates
<1>4. \A o, b : BehaviorStatus(o, b) \in ContentStates
  BY DEF BehaviorStatus, ContentStates
<1>5. \A o, b : AttestStatus(o, b) \in ContentStates
  BY DEF AttestStatus, ContentStates
<1>6. \A o, b : ReviewStatus(o, b) \in ContentStates
  BY DEF ReviewStatus, ContentStates
<1> QED
  BY <1>1, <1>2, <1>3, <1>4, <1>5, <1>6

\* What a PASS rests on.
LEMMA PassMeaning ==
    ASSUME NEW o, NEW b
    PROVE  /\ BehaviorStatus(o, b) = "PASS" => o.proc = receipts.consume[b].seen.proc
           /\ AttestStatus(o, b) = "PASS" => receipts.behavior[b].status = "PASS" /\ o.signs = b
           /\ ReviewStatus(o, b) = "PASS" => receipts.behavior[b].status = "PASS" /\ o.signs = b
<1>1. BehaviorStatus(o, b) = "PASS" => o.proc = receipts.consume[b].seen.proc
  BY DEF BehaviorStatus
<1>2. AttestStatus(o, b) = "PASS" => receipts.behavior[b].status = "PASS" /\ o.signs = b
  BY DEF AttestStatus
<1>3. ReviewStatus(o, b) = "PASS" => receipts.behavior[b].status = "PASS" /\ o.signs = b
  BY DEF ReviewStatus
<1> QED
  BY <1>1, <1>2, <1>3

\* The status function of each kind.
LEMMA StatusByKind ==
    ASSUME NEW o, NEW b
    PROVE  /\ StatusOf("source", o, b) = SourceStatus(o)
           /\ StatusOf("install", o, b) = ContentStatus(o)
           /\ StatusOf("route", o, b) = ContentStatus(o)
           /\ StatusOf("consume", o, b) = ConsumeStatus(o)
           /\ StatusOf("behavior", o, b) = BehaviorStatus(o, b)
           /\ StatusOf("attest", o, b) = AttestStatus(o, b)
           /\ StatusOf("review", o, b) = ReviewStatus(o, b)
BY DEF StatusOf, InstallStatus, RouteStatus

\* Which assessment each kind has, and that it holds of the latest receipt.
LEMMA PassedByKind ==
    /\ \A k \in Kinds : Passed(k) => LatestPass(k)
    /\ Passed("behavior") => receipts.behavior[Newest("behavior")].base = Newest("consume")
    /\ Passed("attest") => receipts.attest[Newest("attest")].base = Newest("behavior")
    /\ Passed("review") => receipts.review[Newest("review")].base = Newest("behavior")
<1>1. /\ Passed("source") => SourcePassed
      /\ Passed("install") => InstallPassed
      /\ Passed("route") => RoutePassed
      /\ Passed("consume") => ConsumePassed
      /\ Passed("behavior") => BehaviorPassed
      /\ Passed("attest") => AttestPassed
      /\ Passed("review") => ReviewPassed
  BY DEF Passed
<1> QED
  BY <1>1, KindsAre
  DEF SourcePassed, InstallPassed, RoutePassed, ConsumePassed, BehaviorPassed, AttestPassed, ReviewPassed

\* A step that writes no store and moves one call.
LEMMA QuietStep ==
    ASSUME VerInv, NEW c \in Verifiers, VerQuiet,
           verCall' \in [Verifiers -> VerCallSet],
           \A d \in Verifiers \ {c} : verCall'[d] = verCall[d],
           VerifyOK(receipts, verCall'[c]), CloseOK(verCall'[c]), RefsLawful(receipts, verCall'[c].refs)
    PROVE  VerInv'
<1>1. UNCHANGED <<packet, taskClosed, accepted, world, moves, receipts, closeout>>
  BY DEF VerQuiet
<1>2. VerTyped' /\ RowsTyped'
  BY <1>1 DEF VerInv, VerTyped, RowsTyped
<1>3. \A d \in Verifiers : VerifyOK(receipts, verCall'[d]) /\ CloseOK(verCall'[d])
                           /\ RefsLawful(receipts, verCall'[d].refs)
  BY DEF VerInv, CallsLawful
<1>4. CallsLawful'
  BY <1>1, <1>3 DEF CallsLawful, VerifyOK, CloseOK, RefsLawful
<1>5. RefsLawful(receipts, closeout)'
  BY <1>1 DEF VerInv, RefsLawful
<1>6. PassBacked' /\ NonceSingleUse'
  BY <1>1 DEF VerInv, PassBacked, NonceSingleUse, Newest
<1> QED
  BY <1>2, <1>4, <1>5, <1>6 DEF VerInv

\* A call that is over holds nothing.
LEMMA ReturnLawful ==
    ASSUME VerInv, NEW c \in Verifiers, VerReturn(c)
    PROVE  /\ verCall' \in [Verifiers -> VerCallSet] /\ verCall'[c] = VerIdle
           /\ \A d \in Verifiers \ {c} : verCall'[d] = verCall[d]
           /\ \A rs \in [Kinds -> Seq(ReceiptSet)] :
                  VerifyOK(rs, VerIdle) /\ CloseOK(VerIdle) /\ RefsLawful(rs, VerIdle.refs)
<1>1. NoRefs \in [Kinds -> Nat] /\ \A k \in Kinds : NoRefs[k] = 0
  BY DEF NoRefs
<1>2. VerIdle \in VerCallSet
  BY <1>1 DEF VerIdle, VerCallSet, VerSteps, Closing
<1>3. /\ VerIdle.step = "idle" /\ VerIdle.kind = "none" /\ VerIdle.base = 0 /\ VerIdle.refs = NoRefs
  BY DEF VerIdle
<1>4. ASSUME NEW rs \in [Kinds -> Seq(ReceiptSet)]
      PROVE  VerifyOK(rs, VerIdle) /\ CloseOK(VerIdle) /\ RefsLawful(rs, VerIdle.refs)
  <2>1. \A k \in Kinds : Len(rs[k]) \in Nat
    BY LenProperties
  <2>2. RefsLawful(rs, NoRefs)
    BY <1>1, <2>1, KindsAre DEF RefsLawful
  <2>3. VerifyOK(rs, VerIdle)
    BY <1>3 DEF VerifyOK
  <2>4. CloseOK(VerIdle)
    BY <1>3 DEF CloseOK
  <2> QED
    BY <1>3, <2>2, <2>3, <2>4
<1> QED
  BY <1>2, <1>4 DEF VerReturn, VerInv, VerTyped

\* A call that returns without having written.
LEMMA ReturnStep ==
    ASSUME VerInv, NEW c \in Verifiers, VerReturn(c), VerQuiet
    PROVE  VerInv'
BY ReturnLawful, QuietStep DEF VerInv, VerTyped

\* verify() opens; what is verified against a prerequisite assesses that first.
LEMMA BeginStep ==
    ASSUME VerInv, NEW c \in Verifiers, NEW k \in Kinds, NEW s,
           \/ s = "observe" /\ k \in {"source", "install", "route", "consume"}
           \/ s = "assess" /\ k \in {"behavior", "attest", "review"},
           VerifyBegin(c, k, s)
    PROVE  VerInv'
<1> DEFINE w == [VerIdle EXCEPT !.step = s, !.kind = k]
<1>1. NoRefs \in [Kinds -> Nat] /\ \A j \in Kinds : NoRefs[j] = 0
  BY DEF NoRefs
<1>2. w \in VerCallSet /\ w.step = s /\ w.kind = k /\ w.base = 0 /\ w.refs = NoRefs
  BY <1>1 DEF VerIdle, VerCallSet, VerSteps, Closing
<1>3. verCall' = [verCall EXCEPT ![c] = w] /\ VerQuiet
  BY DEF VerifyBegin, VerQuiet
<1> HIDE DEF w
<1>4. /\ verCall' \in [Verifiers -> VerCallSet] /\ verCall'[c] = w
      /\ \A d \in Verifiers \ {c} : verCall'[d] = verCall[d]
  BY <1>2, <1>3 DEF VerInv, VerTyped
<1>5. VerifyOK(receipts, w) /\ CloseOK(w)
  BY <1>2 DEF VerifyOK, CloseOK
<1>6. \A j \in Kinds : Len(receipts[j]) \in Nat
  BY LenProperties DEF VerInv, VerTyped
<1>7. RefsLawful(receipts, w.refs)
  BY <1>1, <1>2, <1>6, KindsAre DEF RefsLawful
<1> QED
  BY <1>3, <1>4, <1>5, <1>7, QuietStep

\* The prerequisite of a behaviour, an attestation or a review is assessed, and
\* the latter two read its latest receipt again.
LEMMA AssessStep ==
    ASSUME VerInv, NEW c \in Verifiers, VerifyAssess(c) \/ VerifyReread(c)
    PROVE  VerInv'
<1> DEFINE v == verCall[c]
<1>0. v \in VerCallSet /\ VerifyOK(receipts, v) /\ RefsLawful(receipts, v.refs) /\ VerQuiet
  BY DEF VerInv, VerTyped, CallsLawful, VerifyAssess, VerifyReread
<1>1. \A k \in Kinds : Len(receipts[k]) \in Nat
  BY LenProperties DEF VerInv, VerTyped
<1>2. CASE VerifyAssess(c)
  <2> DEFINE p == Prerequisite(v.kind)
             s == IF v.kind = "behavior" THEN "observe" ELSE "reread"
  <2>1. v.step = "assess" /\ v.kind \in {"behavior", "attest", "review"}
    BY <1>0, <1>2 DEF VerifyAssess, VerifyOK
  <2>2. /\ p \in Kinds
        /\ v.kind = "behavior" => p = "consume" /\ s = "observe"
        /\ v.kind # "behavior" => p = "behavior" /\ s = "reread"
    BY KindsAre DEF Prerequisite
  <2>3. CASE VerReturn(c)
    BY <1>0, <2>3, ReturnStep
  <2>4. CASE Passed(p) /\ verCall' = [verCall EXCEPT ![c].base = Newest(p), ![c].step = s]
    <3>1. LatestPass(p)
      BY <2>2, <2>4, PassedByKind
    <3>2. Newest(p) \in 1..Len(receipts[p]) /\ receipts[p][Newest(p)].status = "PASS"
      BY <1>1, <2>2, <3>1 DEF LatestPass, Newest
    <3> HIDE DEF p, s
    <3>3. /\ verCall' \in [Verifiers -> VerCallSet]
          /\ \A d \in Verifiers \ {c} : verCall'[d] = verCall[d]
          /\ verCall'[c].step = s /\ verCall'[c].kind = v.kind /\ verCall'[c].base = Newest(p)
          /\ verCall'[c].refs = v.refs
      BY <1>0, <1>1, <2>1, <2>2, <2>4 DEF VerInv, VerTyped, VerCallSet, VerSteps, Newest
    <3>4. VerifyOK(receipts, verCall'[c])
      BY <2>1, <2>2, <3>2, <3>3 DEF VerifyOK
    <3>5. CloseOK(verCall'[c])
      BY <2>1, <2>2, <3>3 DEF CloseOK
    <3> QED
      BY <1>0, <3>3, <3>4, <3>5, QuietStep
  <2> QED
    BY <1>2, <2>3, <2>4 DEF VerifyAssess
<1>3. CASE VerifyReread(c)
  <2>1. v.step = "reread" /\ v.kind \in {"attest", "review"} /\ v.base \in 1..Len(receipts["behavior"])
    BY <1>0, <1>3 DEF VerifyReread, VerifyOK
  <2>2. CASE VerReturn(c)
    BY <1>0, <2>2, ReturnStep
  <2>3. CASE verCall' = [verCall EXCEPT ![c].base = Newest("behavior"), ![c].step = "observe"]
    <3>1. Newest("behavior") \in 1..Len(receipts["behavior"])
      BY <1>1, <2>1, KindsAre DEF Newest
    <3>2. /\ verCall' \in [Verifiers -> VerCallSet]
          /\ \A d \in Verifiers \ {c} : verCall'[d] = verCall[d]
          /\ verCall'[c].step = "observe" /\ verCall'[c].kind = v.kind
          /\ verCall'[c].base = Newest("behavior") /\ verCall'[c].refs = v.refs
      BY <1>0, <1>1, <2>3, KindsAre DEF VerInv, VerTyped, VerCallSet, VerSteps, Newest
    <3>3. VerifyOK(receipts, verCall'[c]) /\ CloseOK(verCall'[c])
      BY <2>1, <3>1, <3>2 DEF VerifyOK, CloseOK
    <3> QED
      BY <1>0, <3>2, <3>3, QuietStep
  <2> QED
    BY <1>3, <2>2, <2>3 DEF VerifyReread
<1> QED
  BY <1>2, <1>3

\* What the transports show is of the shape their kind records.
LEMMA ObservationsTyped ==
    /\ world \in WorldSet => \A k \in Kinds : world[k] \in Observations[k]
    /\ \A k \in Kinds : Observations[k] \subseteq AnyObs
    /\ Observations["consume"] = ConsumeObs
BY KindsAre DEF WorldSet, Observations, AnyObs

\* transport.observe
LEMMA ObserveStep ==
    ASSUME VerInv, NEW c \in Verifiers, NEW k \in Kinds, NEW s,
           \/ s = "append" /\ (k = "consume" => ConsumeStatus(world["consume"]) # "PASS")
           \/ s = "route" /\ k = "consume",
           Observe(c, k, s)
    PROVE  VerInv'
<1> DEFINE v == verCall[c]
<1>1. /\ v \in VerCallSet /\ VerifyOK(receipts, v) /\ RefsLawful(receipts, v.refs) /\ VerQuiet
      /\ v.step = "observe" /\ v.kind = k
      /\ verCall' = [verCall EXCEPT ![c].seen = world[k], ![c].step = s]
  BY DEF VerInv, VerTyped, CallsLawful, Observe
<1>2. world[k] \in Observations[k] /\ world[k] \in AnyObs
  BY ObservationsTyped DEF VerInv, VerTyped
<1>3. /\ verCall' \in [Verifiers -> VerCallSet]
      /\ \A d \in Verifiers \ {c} : verCall'[d] = verCall[d]
      /\ verCall'[c].step = s /\ verCall'[c].kind = k /\ verCall'[c].base = v.base
      /\ verCall'[c].refs = v.refs /\ verCall'[c].seen = world[k]
  BY <1>1, <1>2 DEF VerInv, VerTyped, VerCallSet, VerSteps
<1>4. VerifyOK(receipts, verCall'[c])
  BY <1>1, <1>2, <1>3, ObservationsTyped DEF VerifyOK
<1>5. CloseOK(verCall'[c])
  BY <1>3 DEF CloseOK
<1> QED
  BY <1>1, <1>3, <1>4, <1>5, QuietStep

\* A PASS consumption agrees with the declared route.
LEMMA ConsumedRouteStep ==
    ASSUME VerInv, NEW c \in Verifiers, VerifyConsumedRoute(c)
    PROVE  VerInv'
<1> DEFINE v == verCall[c]
<1>1. /\ v \in VerCallSet /\ VerifyOK(receipts, v) /\ RefsLawful(receipts, v.refs) /\ VerQuiet
      /\ v.step = "route"
  BY DEF VerInv, VerTyped, CallsLawful, VerifyConsumedRoute
<1>2. v.kind = "consume" /\ v.base = 0 /\ v.seen \in ConsumeObs
  BY <1>1 DEF VerifyOK
<1>3. CASE VerReturn(c)
  BY <1>1, <1>3, ReturnStep
<1>4. CASE RouteCurrent(v.seen.loaded) /\ verCall' = [verCall EXCEPT ![c].step = "append"]
  <2>1. ASSUME "route" \in packet PROVE RouteBacked(receipts, v.seen.loaded)
    <3>1. /\ Newest("route") > 0 /\ receipts["route"][Newest("route")].status = "PASS"
          /\ world["route"] = receipts["route"][Newest("route")].seen
          /\ world["route"].content = v.seen.loaded
      BY <1>4, <2>1 DEF RouteCurrent, RoutePassed, LatestPass, Unchanged
    <3>2. Len(receipts["route"]) \in Nat
      BY KindsAre, LenProperties DEF VerInv, VerTyped
    <3> QED
      BY <3>1, <3>2 DEF RouteBacked, Newest
  <2>2. /\ verCall' \in [Verifiers -> VerCallSet]
        /\ \A d \in Verifiers \ {c} : verCall'[d] = verCall[d]
        /\ verCall'[c].step = "append" /\ verCall'[c].kind = v.kind /\ verCall'[c].base = v.base
        /\ verCall'[c].refs = v.refs /\ verCall'[c].seen = v.seen
    BY <1>1, <1>4 DEF VerInv, VerTyped, VerCallSet, VerSteps
  <2>3. VerifyOK(receipts, verCall'[c])
    BY <1>2, <2>1, <2>2, ObservationsTyped, KindsAre DEF VerifyOK
  <2>4. CloseOK(verCall'[c])
    BY <2>2 DEF CloseOK
  <2> QED
    BY <1>1, <2>2, <2>3, <2>4, QuietStep
<1> QED
  BY <1>3, <1>4 DEF VerifyConsumedRoute

\* The row a verify() appends, and what its PASS rests on.
LEMMA NewRow ==
    ASSUME VerInv, NEW c \in Verifiers, verCall[c].step = "append"
    PROVE  LET v == verCall[c]
               r == NewReceipt(StatusOf(v.kind, v.seen, v.base), v.seen, v.base)
           IN  /\ v.kind \in Kinds /\ r \in ReceiptSet /\ r \in Rows[v.kind]
               /\ r.seen = v.seen /\ r.base = v.base
               /\ r.status = "PASS" /\ v.kind = "consume" /\ "route" \in packet =>
                      RouteBacked(receipts, v.seen.loaded)
               /\ r.status = "PASS" /\ v.kind = "behavior" =>
                      /\ v.base \in 1..Len(receipts["consume"])
                      /\ receipts["consume"][v.base].status = "PASS"
                      /\ receipts["consume"][v.base].seen.proc = v.seen.proc
               /\ r.status = "PASS" /\ v.kind \in {"attest", "review"} =>
                      /\ v.base \in 1..Len(receipts["behavior"]) /\ v.seen.signs = v.base
                      /\ receipts["behavior"][v.base].status = "PASS"
<1> DEFINE v == verCall[c]
           st == StatusOf(v.kind, v.seen, v.base)
           r == NewReceipt(st, v.seen, v.base)
<1>1. v \in VerCallSet /\ VerifyOK(receipts, v) /\ v.step = "append"
  BY DEF VerInv, VerTyped, CallsLawful
<1>2. v.kind \in Kinds /\ v.seen \in Observations[v.kind] /\ v.seen \in AnyObs /\ v.base \in Nat
  BY <1>1, ObservationsTyped DEF VerifyOK, VerCallSet
<1>3. /\ v.kind = "source" => st = SourceStatus(v.seen)
      /\ v.kind = "install" => st = ContentStatus(v.seen)
      /\ v.kind = "route" => st = ContentStatus(v.seen)
      /\ v.kind = "consume" => st = ConsumeStatus(v.seen)
      /\ v.kind = "behavior" => st = BehaviorStatus(v.seen, v.base)
      /\ v.kind = "attest" => st = AttestStatus(v.seen, v.base)
      /\ v.kind = "review" => st = ReviewStatus(v.seen, v.base)
  BY StatusByKind
<1> HIDE DEF st
<1>4. /\ v.kind = "source" => st \in AllStates
      /\ v.kind # "source" => st \in ContentStates
  <2>1. v.kind = "source" => v.seen \in SourceObs
    BY <1>2 DEF Observations
  <2> QED
    BY <1>2, <1>3, <2>1, StatusRange, KindsAre
<1>5. st \in AllStates
  BY <1>4 DEF AllStates
<1>6. r \in ReceiptSet /\ r.status = st /\ r.seen = v.seen /\ r.base = v.base
  BY <1>2, <1>5 DEF NewReceipt, ReceiptSet
<1>7. r \in Rows[v.kind]
  <2>1. r = [status |-> st, seen |-> v.seen, base |-> v.base]
    BY DEF NewReceipt
  <2>2. v.kind \notin {"behavior", "attest", "review"} => v.base = 0
    BY <1>1 DEF VerifyOK
  <2>3. v.kind \in {"behavior", "attest", "review"} => v.base \in Nat \ {0}
    BY <1>1, <1>2, KindsAre DEF VerifyOK
  <2>4. \A b : r \in RowsOf(v.kind, AllStates, b) <=> v.base \in b
    BY <1>2, <1>5, <2>1 DEF RowsOf
  <2>5. v.kind # "source" => \A b : r \in RowsOf(v.kind, ContentStates, b) <=> v.base \in b
    BY <1>2, <1>4, <2>1 DEF RowsOf
  <2> HIDE DEF r, v
  <2>6. /\ Rows["source"] = RowsOf("source", AllStates, {0})
        /\ Rows["install"] = RowsOf("install", ContentStates, {0})
        /\ Rows["route"] = RowsOf("route", ContentStates, {0})
        /\ Rows["consume"] = RowsOf("consume", ContentStates, {0})
        /\ Rows["behavior"] = RowsOf("behavior", ContentStates, Nat \ {0})
        /\ Rows["attest"] = RowsOf("attest", ContentStates, Nat \ {0})
        /\ Rows["review"] = RowsOf("review", ContentStates, Nat \ {0})
    BY DEF Rows, SourceRows, InstallRows, RouteRows, ConsumeRows, BehaviorRows, AttestRows, ReviewRows,
           AllStates
  <2> QED
    BY <1>2, <2>2, <2>3, <2>4, <2>5, <2>6, KindsAre
<1>8. st = "PASS" /\ v.kind = "consume" /\ "route" \in packet => RouteBacked(receipts, v.seen.loaded)
  BY <1>1, <1>3 DEF VerifyOK
<1>9. st = "PASS" /\ v.kind = "behavior" =>
          /\ v.base \in 1..Len(receipts["consume"]) /\ receipts["consume"][v.base].status = "PASS"
          /\ receipts["consume"][v.base].seen.proc = v.seen.proc
  BY <1>1, <1>3, PassMeaning DEF VerifyOK
<1>10. st = "PASS" /\ v.kind \in {"attest", "review"} =>
          /\ v.base \in 1..Len(receipts["behavior"]) /\ v.seen.signs = v.base
          /\ receipts["behavior"][v.base].status = "PASS"
  BY <1>1, <1>3, PassMeaning DEF VerifyOK
<1> QED
  BY <1>2, <1>6, <1>7, <1>8, <1>9, <1>10 DEF st

\* One row in the store of one kind: what holds of the receipts goes on
\* holding, and holds of the new one.
LEMMA RowStep ==
    ASSUME VerInv, NEW c \in Verifiers, NEW k \in Kinds, AppendRow(c, k),
           k \in {"attest", "review"} => ~NonceReplayed(k, verCall[c].seen)
    PROVE  VerInv'
<1> DEFINE v == verCall[c]
           r == NewReceipt(StatusOf(v.kind, v.seen, v.base), v.seen, v.base)
           n == Len(receipts[k])
<1>1. /\ v.step = "append" /\ v.kind = k
      /\ receipts' = [receipts EXCEPT ![k] = Append(@, r)]
      /\ VerReturn(c)
      /\ UNCHANGED <<packet, taskClosed, accepted, world, moves, closeout>>
  BY DEF AppendRow
<1>2. /\ r \in ReceiptSet /\ r \in Rows[k] /\ r.seen = v.seen /\ r.base = v.base
      /\ r.status = "PASS" /\ k = "consume" /\ "route" \in packet => RouteBacked(receipts, v.seen.loaded)
      /\ r.status = "PASS" /\ k = "behavior" =>
             /\ v.base \in 1..Len(receipts["consume"])
             /\ receipts["consume"][v.base].status = "PASS"
             /\ receipts["consume"][v.base].seen.proc = v.seen.proc
      /\ r.status = "PASS" /\ k \in {"attest", "review"} =>
             /\ v.base \in 1..Len(receipts["behavior"]) /\ v.seen.signs = v.base
             /\ receipts["behavior"][v.base].status = "PASS"
  BY <1>1, NewRow
<1> HIDE DEF r
<1>3. /\ receipts' \in [Kinds -> Seq(ReceiptSet)]
      /\ Grown(receipts, receipts')
      /\ \A j \in Kinds : Len(receipts[j]) \in Nat
      /\ \A j \in Kinds \ {k} : receipts'[j] = receipts[j]
      /\ Len(receipts'[k]) = n + 1
      /\ receipts'[k][n + 1] = r
      /\ \A i \in 1..n : receipts'[k][i] = receipts[k][i]
  BY <1>1, <1>2, RowAppended DEF VerInv, VerTyped
<1>4. /\ verCall' \in [Verifiers -> VerCallSet] /\ verCall'[c] = VerIdle
      /\ \A d \in Verifiers \ {c} : verCall'[d] = verCall[d]
      /\ VerifyOK(receipts', VerIdle) /\ CloseOK(VerIdle) /\ RefsLawful(receipts', VerIdle.refs)
  BY <1>1, <1>3, ReturnLawful
<1>5. VerTyped'
  BY <1>1, <1>3, <1>4 DEF VerInv, VerTyped
<1>6. /\ \A refs \in [Kinds -> Nat] : RefsLawful(receipts, refs) => RefsLawful(receipts', refs)
      /\ \A w \in VerCallSet : VerifyOK(receipts, w) => VerifyOK(receipts', w)
  BY <1>3, GrownKeeps DEF VerInv, VerTyped
<1>7. CallsLawful'
  <2>1. ASSUME NEW d \in Verifiers
        PROVE  VerifyOK(receipts', verCall'[d]) /\ CloseOK(verCall'[d]) /\ RefsLawful(receipts', verCall'[d].refs)
    <3>1. CASE d = c
      BY <1>4, <3>1
    <3>2. CASE d # c
      <4>1. /\ verCall'[d] = verCall[d] /\ verCall[d] \in VerCallSet /\ verCall[d].refs \in [Kinds -> Nat]
            /\ VerifyOK(receipts, verCall[d]) /\ CloseOK(verCall[d]) /\ RefsLawful(receipts, verCall[d].refs)
        BY <1>4, <3>2 DEF VerInv, VerTyped, CallsLawful, VerCallSet
      <4> QED
        BY <1>6, <4>1
    <3> QED
      BY <3>1, <3>2
  <2> QED
    BY <1>1, <2>1 DEF CallsLawful, VerifyOK, CloseOK, RefsLawful
<1>8. RefsLawful(receipts, closeout)'
  <2>1. RefsLawful(receipts', closeout)
    BY <1>6 DEF VerInv, VerTyped
  <2> QED
    BY <1>1, <2>1 DEF RefsLawful
<1>9. ASSUME NEW j \in Kinds, NEW i \in 1..Len(receipts'[j])
      PROVE  (i \in 1..Len(receipts[j]) /\ receipts'[j][i] = receipts[j][i]) \/ (j = k /\ i = n + 1)
  BY <1>3
<1>10. RowsTyped'
  <2>1. ASSUME NEW j \in Kinds, NEW i \in 1..Len(receipts'[j]) PROVE receipts'[j][i] \in Rows[j]
    <3>1. CASE i \in 1..Len(receipts[j]) /\ receipts'[j][i] = receipts[j][i]
      BY <3>1 DEF VerInv, RowsTyped
    <3>2. CASE j = k /\ i = n + 1
      BY <1>2, <1>3, <3>2
    <3> QED
      BY <1>9, <3>1, <3>2
  <2> QED
    BY <2>1 DEF RowsTyped
<1>11. ASSUME NEW j \in Kinds, NEW i \in 1..Len(receipts[j])
       PROVE  i \in 1..Len(receipts'[j]) /\ receipts'[j][i] = receipts[j][i]
  BY <1>3 DEF Grown
<1>12. PassBacked'
  <2>1. ASSUME NEW i \in 1..Len(receipts'["consume"]), receipts'["consume"][i].status = "PASS",
               "route" \in packet
        PROVE  \E j \in 1..Len(receipts'["route"]) :
                   /\ receipts'["route"][j].status = "PASS"
                   /\ receipts'["route"][j].seen.content = receipts'["consume"][i].seen.loaded
    <3>1. \E j \in 1..Len(receipts["route"]) :
              /\ receipts["route"][j].status = "PASS"
              /\ receipts["route"][j].seen.content = receipts'["consume"][i].seen.loaded
      <4>1. CASE i \in 1..Len(receipts["consume"]) /\ receipts'["consume"][i] = receipts["consume"][i]
        BY <2>1, <4>1 DEF VerInv, PassBacked, Newest
      <4>2. CASE "consume" = k /\ i = n + 1
        BY <1>2, <1>3, <2>1, <4>2 DEF RouteBacked
      <4> QED
        BY <1>9, <4>1, <4>2, KindsAre
    <3> QED
      BY <1>11, <3>1, KindsAre
  <2>2. ASSUME NEW i \in 1..Len(receipts'["behavior"]), receipts'["behavior"][i].status = "PASS"
        PROVE  LET b == receipts'["behavior"][i] IN
               /\ b.base \in 1..Len(receipts'["consume"])
               /\ receipts'["consume"][b.base].status = "PASS"
               /\ receipts'["consume"][b.base].seen.proc = b.seen.proc
    <3> DEFINE b == receipts'["behavior"][i]
    <3>1. /\ b.base \in 1..Len(receipts["consume"])
          /\ receipts["consume"][b.base].status = "PASS"
          /\ receipts["consume"][b.base].seen.proc = b.seen.proc
      <4>1. CASE i \in 1..Len(receipts["behavior"]) /\ receipts'["behavior"][i] = receipts["behavior"][i]
        BY <2>2, <4>1 DEF VerInv, PassBacked, Newest
      <4>2. CASE "behavior" = k /\ i = n + 1
        BY <1>2, <1>3, <2>2, <4>2
      <4> QED
        BY <1>9, <4>1, <4>2, KindsAre
    <3> QED
      BY <1>11, <3>1, KindsAre
  <2>3. ASSUME NEW j \in {"attest", "review"}, NEW i \in 1..Len(receipts'[j]), receipts'[j][i].status = "PASS"
        PROVE  LET b == receipts'[j][i] IN
               /\ b.base \in 1..Len(receipts'["behavior"]) /\ b.seen.signs = b.base
               /\ receipts'["behavior"][b.base].status = "PASS"
    <3> DEFINE b == receipts'[j][i]
    <3>1. /\ b.base \in 1..Len(receipts["behavior"]) /\ b.seen.signs = b.base
          /\ receipts["behavior"][b.base].status = "PASS"
      <4>1. CASE i \in 1..Len(receipts[j]) /\ receipts'[j][i] = receipts[j][i]
        BY <2>3, <4>1 DEF VerInv, PassBacked, Newest
      <4>2. CASE j = k /\ i = n + 1
        BY <1>2, <1>3, <2>3, <4>2
      <4> QED
        BY <1>9, <4>1, <4>2, KindsAre
    <3> QED
      BY <1>11, <3>1, KindsAre
  <2> QED
    BY <1>1, <2>1, <2>2, <2>3 DEF PassBacked, Newest
<1>13. NonceSingleUse'
  <2>1. ASSUME NEW j \in {"attest", "review"}, NEW i \in 1..Len(receipts'[j]), NEW h \in 1..Len(receipts'[j]),
               receipts'[j][i].seen.nonce = receipts'[j][h].seen.nonce,
               receipts'[j][i].seen.nonce # NoDocument
        PROVE  i = h
    <3>1. j \in Kinds
      BY KindsAre
    <3>2. CASE j # k
      <4>1. receipts'[j] = receipts[j]
        BY <1>3, <3>1, <3>2
      <4> QED
        BY <2>1, <4>1 DEF VerInv, NonceSingleUse, Newest
    <3>3. CASE j = k
      <4>1. ASSUME NEW m \in 1..n, r.seen.nonce # NoDocument PROVE receipts[k][m].seen.nonce # r.seen.nonce
        BY <1>2, <3>3, <4>1 DEF NonceReplayed, Newest
      <4>2. CASE i \in 1..n /\ h \in 1..n
        <5>1. receipts'[k][i] = receipts[k][i] /\ receipts'[k][h] = receipts[k][h]
          BY <1>3, <4>2
        <5> QED
          BY <2>1, <3>3, <4>2, <5>1 DEF VerInv, NonceSingleUse, Newest
      <4>3. CASE i \in 1..n /\ h = n + 1
        BY <1>3, <2>1, <3>3, <4>1, <4>3
      <4>4. CASE i = n + 1 /\ h \in 1..n
        BY <1>3, <2>1, <3>3, <4>1, <4>4
      <4> QED
        BY <1>3, <2>1, <3>3, <4>2, <4>3, <4>4
    <3> QED
      BY <3>2, <3>3
  <2> QED
    BY <2>1 DEF NonceSingleUse, Newest
<1> QED
  BY <1>5, <1>7, <1>8, <1>10, <1>12, <1>13 DEF VerInv

\* The packet is one of those the constants allow.
LEMMA PacketKinds ==
    ASSUME VerInv
    PROVE  packet \subseteq Kinds /\ packet # {}
BY VerificationAssumption DEF VerInv, VerTyped

\* A closeout begins with the first kind of the packet.
LEMMA CloseBeginStep ==
    ASSUME VerInv, NEW c \in Verifiers, CloseBegin(c)
    PROVE  VerInv'
<1> DEFINE f == Following("none")
           w == [VerIdle EXCEPT !.step = "decide", !.kind = f]
<1>1. f \in Kinds
  BY PacketKinds, FollowingOrder
<1> HIDE DEF f
<1>2. verCall' = [verCall EXCEPT ![c] = w] /\ VerQuiet
  BY DEF CloseBegin, f
<1>3. NoRefs \in [Kinds -> Nat] /\ \A k \in Kinds : NoRefs[k] = 0
  BY DEF NoRefs
<1>4. w \in VerCallSet /\ w.step = "decide" /\ w.kind = f /\ w.refs = NoRefs
  BY <1>1, <1>3 DEF VerIdle, VerCallSet, VerSteps, Closing
<1> HIDE DEF w
<1>5. /\ verCall' \in [Verifiers -> VerCallSet] /\ verCall'[c] = w
      /\ \A d \in Verifiers \ {c} : verCall'[d] = verCall[d]
  BY <1>2, <1>4 DEF VerInv, VerTyped
<1>6. VerifyOK(receipts, w)
  BY <1>4 DEF VerifyOK
<1>7. CloseOK(w)
  BY <1>1, <1>3, <1>4, KindsAre DEF CloseOK
<1>8. RefsLawful(receipts, w.refs)
  <2>1. \A k \in Kinds : Len(receipts[k]) \in Nat
    BY LenProperties DEF VerInv, VerTyped
  <2> QED
    BY <1>3, <1>4, <2>1, KindsAre DEF RefsLawful
<1> QED
  BY <1>2, <1>5, <1>6, <1>7, <1>8, QuietStep

\* A reference to a receipt that passes now, none of those that rest on its
\* kind being referred to yet.
LEMMA CollectedLawful ==
    ASSUME VerInv, NEW refs \in [Kinds -> Nat], RefsLawful(receipts, refs), NEW k \in Kinds, Passed(k),
           k = "consume" => refs["behavior"] = 0,
           k = "behavior" => refs["attest"] = 0 /\ refs["review"] = 0
    PROVE  /\ [refs EXCEPT ![k] = Newest(k)] \in [Kinds -> Nat]
           /\ RefsLawful(receipts, [refs EXCEPT ![k] = Newest(k)])
<1> DEFINE n == Len(receipts[k])
           q == [refs EXCEPT ![k] = Newest(k)]
<1>1. \A j \in Kinds : Len(receipts[j]) \in Nat /\ refs[j] \in Nat
  BY LenProperties DEF VerInv, VerTyped
<1>2. n > 0 /\ receipts[k][n].status = "PASS"
  BY PassedByKind DEF LatestPass, Newest
<1>3. q \in [Kinds -> Nat] /\ q[k] = n /\ \A j \in Kinds \ {k} : q[j] = refs[j]
  BY <1>1 DEF Newest
<1> HIDE DEF q
<1>4. \A j \in Kinds : q[j] <= Len(receipts[j]) /\ (q[j] # 0 => receipts[j][q[j]].status = "PASS")
  BY <1>1, <1>2, <1>3 DEF RefsLawful
<1>5. q["behavior"] # 0 => receipts["behavior"][q["behavior"]].base >= q["consume"]
  <2>1. CASE k = "behavior"
    <3>1. receipts["behavior"][n].base = Len(receipts["consume"])
      BY <2>1, PassedByKind DEF Newest
    <3>2. q["consume"] = refs["consume"] /\ refs["consume"] <= Len(receipts["consume"])
      BY <1>3, <2>1, KindsAre DEF RefsLawful
    <3> QED
      BY <1>1, <1>3, <2>1, <3>1, <3>2, KindsAre
  <2>2. CASE k = "consume"
    BY <1>3, <2>2, KindsAre
  <2>3. CASE k \notin {"behavior", "consume"}
    BY <1>3, <2>3, KindsAre DEF RefsLawful
  <2> QED
    BY <2>1, <2>2, <2>3
<1>6. ASSUME NEW j \in {"attest", "review"}, q[j] # 0
      PROVE  receipts[j][q[j]].base >= q["behavior"]
  <2>1. CASE k = j
    <3>1. receipts[j][n].base = Len(receipts["behavior"])
      BY <2>1, PassedByKind DEF Newest
    <3>2. q["behavior"] = refs["behavior"] /\ refs["behavior"] <= Len(receipts["behavior"])
      BY <1>3, <2>1, KindsAre DEF RefsLawful
    <3> QED
      BY <1>1, <1>3, <2>1, <3>1, <3>2, KindsAre
  <2>2. CASE k = "behavior"
    BY <1>3, <1>6, <2>2, KindsAre
  <2>3. CASE k # j /\ k # "behavior"
    BY <1>3, <1>6, <2>3, KindsAre DEF RefsLawful
  <2> QED
    BY <2>1, <2>2, <2>3
<1>7. RefsLawful(receipts, q)
  BY <1>4, <1>5, <1>6 DEF RefsLawful
<1> QED
  BY <1>3, <1>7 DEF q

\* assess_task_closeout, one kind further.
LEMMA CloseDecideStep ==
    ASSUME VerInv, NEW c \in Verifiers, CloseDecide(c)
    PROVE  VerInv'
<1> DEFINE v == verCall[c]
           k == v.kind
           f == Following("none")
           g == Following(k)
           s == IF g = "none" THEN "collect" ELSE "decide"
           h == IF g = "none" THEN f ELSE g
           q == IF k = "source" THEN [v.refs EXCEPT ![k] = Newest(k)] ELSE v.refs
<1>1. /\ v \in VerCallSet /\ CloseOK(v) /\ RefsLawful(receipts, v.refs) /\ VerQuiet
      /\ v.step = "decide" /\ v.refs \in [Kinds -> Nat]
  BY DEF VerInv, VerTyped, CallsLawful, CloseDecide, VerCallSet
<1>2. k \in Kinds /\ v.refs["behavior"] = 0 /\ v.refs["attest"] = 0 /\ v.refs["review"] = 0
  BY <1>1 DEF CloseOK
<1>3. f \in Kinds /\ g \in Kinds \cup {"none"}
  BY <1>2, PacketKinds, FollowingOrder
<1>4. CASE VerReturn(c)
  BY <1>1, <1>4, ReturnStep
<1>5. CASE Passed(k) /\ verCall' = [verCall EXCEPT ![c].step = s, ![c].kind = h, ![c].refs = q]
  <2>1. q \in [Kinds -> Nat] /\ RefsLawful(receipts, q)
    BY <1>1, <1>2, <1>5, CollectedLawful
  <2>2. q["behavior"] = 0 /\ q["attest"] = 0 /\ q["review"] = 0
    BY <1>1, <1>2, KindsAre
  <2>3. s \in {"decide", "collect"} /\ h \in Kinds
    BY <1>3
  <2> HIDE DEF q, s, h, f, g
  <2>4. /\ verCall' \in [Verifiers -> VerCallSet]
        /\ \A d \in Verifiers \ {c} : verCall'[d] = verCall[d]
        /\ verCall'[c].step = s /\ verCall'[c].kind = h /\ verCall'[c].refs = q
    BY <1>1, <1>5, <2>1, <2>3 DEF VerInv, VerTyped, VerCallSet, VerSteps, Closing
  <2>5. VerifyOK(receipts, verCall'[c])
    BY <2>3, <2>4 DEF VerifyOK
  <2>6. CloseOK(verCall'[c])
    BY <2>2, <2>3, <2>4 DEF CloseOK
  <2> QED
    BY <1>1, <2>1, <2>4, <2>5, <2>6, QuietStep
<1> QED
  BY <1>4, <1>5 DEF CloseDecide

\* close_task collects, one kind further.
LEMMA CloseCollectStep ==
    ASSUME VerInv, NEW c \in Verifiers, CloseCollect(c)
    PROVE  VerInv'
<1> DEFINE v == verCall[c]
           k == v.kind
           g == Following(k)
           s == IF g = "none" THEN "close" ELSE "collect"
           h == IF g = "none" THEN "none" ELSE g
           q == IF k = "source" THEN v.refs ELSE Collected(v.refs, k)
<1>1. /\ v \in VerCallSet /\ CloseOK(v) /\ RefsLawful(receipts, v.refs) /\ VerQuiet
      /\ v.step = "collect" /\ v.refs \in [Kinds -> Nat]
      /\ verCall' = [verCall EXCEPT ![c].step = s, ![c].kind = h, ![c].refs = q]
  BY DEF VerInv, VerTyped, CallsLawful, CloseCollect, VerCallSet
<1>2. /\ k \in Kinds
      /\ k \in {"source", "install", "route", "consume"} => v.refs["behavior"] = 0
      /\ k \notin {"attest", "review"} => v.refs["attest"] = 0 /\ v.refs["review"] = 0
  BY <1>1 DEF CloseOK
<1>3. /\ g \in Kinds \cup {"none"}
      /\ k \in {"behavior", "attest", "review"} =>
             g \notin {"source", "install", "route", "consume", "behavior"}
  BY <1>2, PacketKinds, FollowingOrder
<1>4. q \in [Kinds -> Nat] /\ RefsLawful(receipts, q)
  <2>1. CASE Passed(k)
    BY <1>1, <1>2, <2>1, CollectedLawful DEF Collected
  <2>2. CASE ~Passed(k)
    BY <1>1, <2>2 DEF Collected
  <2> QED
    BY <2>1, <2>2
<1>5. \A j \in Kinds \ {k} : q[j] = v.refs[j]
  BY <1>1 DEF Collected
<1>6. /\ s \in {"close", "collect"} /\ h \in Kinds \cup {"none"} /\ (s = "collect" => h = g /\ g \in Kinds)
  BY <1>3
<1> HIDE DEF q, s, h, g
<1>7. /\ verCall' \in [Verifiers -> VerCallSet]
      /\ \A d \in Verifiers \ {c} : verCall'[d] = verCall[d]
      /\ verCall'[c].step = s /\ verCall'[c].kind = h /\ verCall'[c].refs = q
  BY <1>1, <1>4, <1>6 DEF VerInv, VerTyped, VerCallSet, VerSteps, Closing
<1>8. VerifyOK(receipts, verCall'[c])
  BY <1>6, <1>7 DEF VerifyOK
<1>9. CloseOK(verCall'[c])
  BY <1>2, <1>3, <1>5, <1>6, <1>7, KindsAre DEF CloseOK
<1> QED
  BY <1>1, <1>4, <1>7, <1>8, <1>9, QuietStep

\* The TASK_CLOSED event cites what the closeout collected.
LEMMA CloseAppendStep ==
    ASSUME VerInv, NEW c \in Verifiers, CloseAppend(c)
    PROVE  VerInv'
<1>1. /\ taskClosed' = TRUE /\ closeout' = verCall[c].refs /\ VerReturn(c)
      /\ UNCHANGED <<packet, accepted, world, moves, receipts>>
  BY DEF CloseAppend
<1>2. /\ verCall[c].refs \in [Kinds -> Nat] /\ RefsLawful(receipts, verCall[c].refs)
      /\ receipts \in [Kinds -> Seq(ReceiptSet)]
  BY DEF VerInv, VerTyped, CallsLawful, VerCallSet
<1>3. /\ verCall' \in [Verifiers -> VerCallSet] /\ verCall'[c] = VerIdle
      /\ \A d \in Verifiers \ {c} : verCall'[d] = verCall[d]
      /\ VerifyOK(receipts, VerIdle) /\ CloseOK(VerIdle) /\ RefsLawful(receipts, VerIdle.refs)
  BY <1>1, <1>2, ReturnLawful
<1>4. VerTyped' /\ RowsTyped'
  BY <1>1, <1>2, <1>3 DEF VerInv, VerTyped, RowsTyped
<1>5. \A d \in Verifiers : VerifyOK(receipts, verCall'[d]) /\ CloseOK(verCall'[d])
                           /\ RefsLawful(receipts, verCall'[d].refs)
  BY <1>3 DEF VerInv, CallsLawful
<1>6. CallsLawful'
  BY <1>1, <1>5 DEF CallsLawful, VerifyOK, CloseOK, RefsLawful
<1>7. RefsLawful(receipts, closeout)'
  BY <1>1, <1>2 DEF RefsLawful
<1>8. PassBacked' /\ NonceSingleUse'
  BY <1>1 DEF VerInv, PassBacked, NonceSingleUse, Newest
<1> QED
  BY <1>4, <1>6, <1>7, <1>8 DEF VerInv

\* The outside world moves: nothing recorded does.
LEMMA WorldStep ==
    ASSUME VerInv, UNCHANGED <<packet, taskClosed, receipts, verCall, closeout>>,
           accepted' \in BOOLEAN, moves' \in 0..VerMaxMoves, world' \in WorldSet
    PROVE  VerInv'
<1>1. VerTyped' /\ RowsTyped'
  BY DEF VerInv, VerTyped, RowsTyped
<1>2. CallsLawful'
  BY DEF VerInv, CallsLawful, VerifyOK, CloseOK, RefsLawful
<1>3. RefsLawful(receipts, closeout)'
  BY DEF VerInv, RefsLawful
<1>4. PassBacked' /\ NonceSingleUse'
  BY DEF VerInv, PassBacked, NonceSingleUse, Newest
<1> QED
  BY <1>1, <1>2, <1>3, <1>4 DEF VerInv

\* A transport observes something else.
LEMMA MoveStep ==
    ASSUME VerInv, NEW k \in Kinds, NEW o \in Observations[k], MoveWorld(k, o)
    PROVE  VerInv'
<1>1. /\ UNCHANGED <<packet, taskClosed, accepted, receipts, verCall, closeout>>
      /\ moves < VerMaxMoves /\ moves' = moves + 1 /\ world' = [world EXCEPT ![k] = o]
  BY DEF MoveWorld
<1>2. world' \in WorldSet
  <2>0. world \in WorldSet
    BY DEF VerInv, VerTyped
  <2>1. CASE k = "source"
    <3>1. o \in SourceObs /\ world' = [world EXCEPT !.source = o]
      BY <1>1, <2>1 DEF Observations
    <3> QED
      BY <2>0, <3>1 DEF WorldSet
  <2>2. CASE k = "install"
    <3>1. o \in InstallObs /\ world' = [world EXCEPT !.install = o]
      BY <1>1, <2>2 DEF Observations
    <3> QED
      BY <2>0, <3>1 DEF WorldSet
  <2>3. CASE k = "route"
    <3>1. o \in RouteObs /\ world' = [world EXCEPT !.route = o]
      BY <1>1, <2>3 DEF Observations
    <3> QED
      BY <2>0, <3>1 DEF WorldSet
  <2>4. CASE k = "consume"
    <3>1. o \in ConsumeObs /\ world' = [world EXCEPT !.consume = o]
      BY <1>1, <2>4 DEF Observations
    <3> QED
      BY <2>0, <3>1 DEF WorldSet
  <2>5. CASE k = "behavior"
    <3>1. o \in BehaviorObs /\ world' = [world EXCEPT !.behavior = o]
      BY <1>1, <2>5 DEF Observations
    <3> QED
      BY <2>0, <3>1 DEF WorldSet
  <2>6. CASE k = "attest"
    <3>1. o \in AttestObs /\ world' = [world EXCEPT !.attest = o]
      BY <1>1, <2>6 DEF Observations
    <3> QED
      BY <2>0, <3>1 DEF WorldSet
  <2>7. CASE k = "review"
    <3>1. o \in ReviewObs /\ world' = [world EXCEPT !.review = o]
      BY <1>1, <2>7 DEF Observations
    <3> QED
      BY <2>0, <3>1 DEF WorldSet
  <2> QED
    BY <2>1, <2>2, <2>3, <2>4, <2>5, <2>6, <2>7, KindsAre
<1>3. moves' \in 0..VerMaxMoves /\ accepted' \in BOOLEAN
  BY <1>1, VerificationAssumption DEF VerInv, VerTyped
<1> QED
  BY <1>1, <1>2, <1>3, WorldStep

LEMMA WorldMovesStep ==
    ASSUME VerInv, WorldMoves
    PROVE  VerInv'
<1>1. /\ Observations["source"] = SourceObs /\ Observations["install"] = InstallObs
      /\ Observations["route"] = RouteObs /\ Observations["consume"] = ConsumeObs
      /\ Observations["behavior"] = BehaviorObs /\ Observations["attest"] = AttestObs
      /\ Observations["review"] = ReviewObs
  BY DEF Observations
<1>2. /\ world.route.content \in Contents /\ world.consume.proc \in Nat /\ moves + 2 \in Nat
      /\ Len(receipts["behavior"]) \in Nat
  <2>1. world \in WorldSet /\ moves \in Nat /\ receipts \in [Kinds -> Seq(ReceiptSet)]
    BY VerificationAssumption DEF VerInv, VerTyped
  <2>2. world.route \in RouteObs /\ world.consume \in ConsumeObs
    BY <2>1 DEF WorldSet
  <2>3. Len(receipts["behavior"]) \in Nat
    BY <2>1, KindsAre, LenProperties
  <2> QED
    BY <2>1, <2>2, <2>3 DEF RouteObs, ConsumeObs
<1>3. CASE SourceMoves
  BY <1>1, <1>3, MoveStep, KindsAre DEF SourceMoves
<1>4. CASE InstallMoves
  BY <1>1, <1>4, MoveStep, KindsAre DEF InstallMoves
<1>5. CASE RouteMoves
  BY <1>1, <1>5, MoveStep, KindsAre DEF RouteMoves
<1>6. CASE ConsumerRestarts
  <2>1. [proc |-> moves + 2, loaded |-> world.route.content] \in ConsumeObs
    BY <1>2 DEF ConsumeObs
  <2> QED
    BY <1>1, <1>6, <2>1, MoveStep, KindsAre DEF ConsumerRestarts
<1>7. CASE ConsumerStops
  <2>1. [proc |-> NoDocument, loaded |-> "gone"] \in ConsumeObs
    BY DEF ConsumeObs, NoDocument, Contents
  <2> QED
    BY <1>1, <1>7, <2>1, MoveStep, KindsAre DEF ConsumerStops
<1>8. CASE ProbeRuns
  <2>1. PICK o \in {"wrong", "a"} : MoveWorld("behavior", [proc |-> world.consume.proc, outcome |-> o])
    BY <1>8 DEF ProbeRuns
  <2>2. [proc |-> world.consume.proc, outcome |-> o] \in BehaviorObs
    BY <1>2 DEF BehaviorObs, Contents
  <2> QED
    BY <1>1, <2>1, <2>2, MoveStep, KindsAre
<1>9. CASE ProviderSigns
  <2>1. PICK n \in 1..2, i \in 1..Newest("behavior") : MoveWorld("attest", [nonce |-> n, signs |-> i])
    BY <1>9 DEF ProviderSigns
  <2>2. [nonce |-> n, signs |-> i] \in AttestObs
    BY <1>2 DEF AttestObs, Newest
  <2> QED
    BY <1>1, <2>1, <2>2, MoveStep, KindsAre
<1>10. CASE EvaluatorSigns
  <2>1. PICK n \in 1..2, i \in 1..Newest("behavior"), a \in BOOLEAN :
            MoveWorld("review", [nonce |-> n, signs |-> i, authority |-> a])
    BY <1>10 DEF EvaluatorSigns
  <2>2. [nonce |-> n, signs |-> i, authority |-> a] \in ReviewObs
    BY <1>2 DEF ReviewObs, Newest
  <2> QED
    BY <1>1, <2>1, <2>2, MoveStep, KindsAre
<1>11. CASE LifecycleMoves
  <2>1. /\ UNCHANGED <<packet, taskClosed, receipts, verCall, closeout>>
        /\ accepted' \in BOOLEAN /\ world' = world /\ moves < VerMaxMoves /\ moves' = moves + 1
    BY <1>11 DEF LifecycleMoves
  <2>2. moves' \in 0..VerMaxMoves /\ world' \in WorldSet
    BY <2>1, VerificationAssumption DEF VerInv, VerTyped
  <2> QED
    BY <2>1, <2>2, WorldStep
<1> QED
  BY <1>3, <1>4, <1>5, <1>6, <1>7, <1>8, <1>9, <1>10, <1>11 DEF WorldMoves

\* Empty stores, no call, nothing cited.
LEMMA VerInitLawful == VerInit => VerInv
<1> SUFFICES ASSUME VerInit PROVE VerInv
  OBVIOUS
<1>1. NoRefs \in [Kinds -> Nat] /\ \A k \in Kinds : NoRefs[k] = 0
  BY DEF NoRefs
<1>2. VerIdle \in VerCallSet
  BY <1>1 DEF VerIdle, VerCallSet, VerSteps, Closing
<1>3. VerIdle.step = "idle" /\ VerIdle.kind = "none" /\ VerIdle.base = 0 /\ VerIdle.refs = NoRefs
  BY DEF VerIdle
<1>4. \A k \in Kinds : receipts[k] = <<>> /\ Len(receipts[k]) = 0 /\ 1..Len(receipts[k]) = {}
  BY DEF VerInit
<1>5. world \in WorldSet
  BY DEF VerInit, WorldSet, SourceObs, InstallObs, RouteObs, ConsumeObs, BehaviorObs, AttestObs, ReviewObs,
         Contents, NoDocument
<1>6. VerTyped
  <2>1. receipts \in [Kinds -> Seq(ReceiptSet)]
    BY DEF VerInit
  <2>2. verCall \in [Verifiers -> VerCallSet]
    BY <1>2 DEF VerInit
  <2>3. packet \in Packets /\ taskClosed \in BOOLEAN /\ accepted \in BOOLEAN /\ closeout \in [Kinds -> Nat]
    BY <1>1 DEF VerInit
  <2>4. moves \in 0..VerMaxMoves
    BY VerificationAssumption DEF VerInit
  <2> QED
    BY <1>5, <2>1, <2>2, <2>3, <2>4 DEF VerTyped
<1>7. RowsTyped
  BY <1>4 DEF RowsTyped
<1>8. RefsLawful(receipts, NoRefs)
  BY <1>1, <1>4, KindsAre DEF RefsLawful
<1>9. CallsLawful
  <2>1. VerifyOK(receipts, VerIdle)
    BY <1>3 DEF VerifyOK
  <2>2. CloseOK(VerIdle)
    BY <1>3 DEF CloseOK
  <2>3. \A c \in Verifiers : verCall[c] = VerIdle
    BY DEF VerInit
  <2> QED
    BY <1>3, <1>8, <2>1, <2>2, <2>3 DEF CallsLawful
<1>10. PassBacked
  BY <1>4, KindsAre DEF PassBacked, Newest
<1>11. NonceSingleUse
  BY <1>4, KindsAre DEF NonceSingleUse, Newest
<1> QED
  BY <1>6, <1>7, <1>8, <1>9, <1>10, <1>11 DEF VerInv, VerInit

\* A step of one caller.
LEMMA VerifierStep ==
    ASSUME VerInv, NEW c \in Verifiers,
           \/ VerifySource(c) \/ VerifyInstall(c) \/ VerifyRoute(c) \/ VerifyConsume(c)
           \/ VerifyBehavior(c) \/ VerifyAttest(c) \/ VerifyReview(c)
           \/ VerifyAssess(c) \/ VerifyReread(c) \/ VerifyConsumedRoute(c)
           \/ ObserveSource(c) \/ ObserveInstall(c) \/ ObserveRoute(c) \/ ObserveConsume(c)
           \/ ObserveBehavior(c) \/ ObserveAttest(c) \/ ObserveReview(c)
           \/ AppendSource(c) \/ AppendInstall(c) \/ AppendRoute(c) \/ AppendConsume(c)
           \/ AppendBehavior(c) \/ AppendAttest(c) \/ AppendReview(c) \/ AppendRaises(c)
           \/ CloseBegin(c) \/ CloseDecide(c) \/ CloseCollect(c) \/ CloseAppend(c)
    PROVE  VerInv'
<1>1. CASE VerifySource(c) \/ VerifyInstall(c) \/ VerifyRoute(c) \/ VerifyConsume(c)
  BY <1>1, BeginStep, KindsAre DEF VerifySource, VerifyInstall, VerifyRoute, VerifyConsume
<1>2. CASE VerifyBehavior(c) \/ VerifyAttest(c) \/ VerifyReview(c)
  BY <1>2, BeginStep, KindsAre DEF VerifyBehavior, VerifyAttest, VerifyReview
<1>3. CASE VerifyAssess(c) \/ VerifyReread(c)
  BY <1>3, AssessStep
<1>4. CASE VerifyConsumedRoute(c)
  BY <1>4, ConsumedRouteStep
<1>5. CASE ObserveConsume(c)
  <2>1. CASE ConsumeStatus(world.consume) = "PASS"
    <3>1. Observe(c, "consume", "route")
      BY <1>5, <2>1 DEF ObserveConsume
    <3> QED
      BY <3>1, ObserveStep, KindsAre
  <2>2. CASE ConsumeStatus(world.consume) # "PASS"
    <3>1. Observe(c, "consume", "append")
      BY <1>5, <2>2 DEF ObserveConsume
    <3> QED
      BY <2>2, <3>1, ObserveStep, KindsAre
  <2> QED
    BY <2>1, <2>2
<1>6. CASE ObserveSource(c) \/ ObserveInstall(c) \/ ObserveRoute(c)
  BY <1>6, ObserveStep, KindsAre DEF ObserveSource, ObserveInstall, ObserveRoute
<1>7. CASE ObserveBehavior(c) \/ ObserveAttest(c) \/ ObserveReview(c)
  BY <1>7, ObserveStep, KindsAre DEF ObserveBehavior, ObserveAttest, ObserveReview
<1>8. CASE AppendSource(c) \/ AppendInstall(c) \/ AppendRoute(c) \/ AppendConsume(c) \/ AppendBehavior(c)
  BY <1>8, RowStep, KindsAre DEF AppendSource, AppendInstall, AppendRoute, AppendConsume, AppendBehavior
<1>9. CASE AppendAttest(c) \/ AppendReview(c)
  BY <1>9, RowStep, KindsAre DEF AppendAttest, AppendReview
<1>10. CASE AppendRaises(c)
  BY <1>10, ReturnStep DEF AppendRaises
<1>11. CASE CloseBegin(c)
  BY <1>11, CloseBeginStep
<1>12. CASE CloseDecide(c)
  BY <1>12, CloseDecideStep
<1>13. CASE CloseCollect(c)
  BY <1>13, CloseCollectStep
<1>14. CASE CloseAppend(c)
  BY <1>14, CloseAppendStep
<1> QED
  BY <1>1, <1>2, <1>3, <1>4, <1>5, <1>6, <1>7, <1>8, <1>9, <1>10, <1>11, <1>12, <1>13, <1>14

\* A step that changes nothing.
LEMMA VerStutter ==
    ASSUME VerInv, UNCHANGED verVars
    PROVE  VerInv'
<1>1. UNCHANGED <<packet, taskClosed, receipts, verCall, closeout, accepted, world, moves>>
  BY DEF verVars
<1>2. accepted' \in BOOLEAN /\ moves' \in 0..VerMaxMoves /\ world' \in WorldSet
  BY <1>1 DEF VerInv, VerTyped
<1> QED
  BY <1>1, <1>2, WorldStep

LEMMA VerInductive == VerSpec => []VerInv
<1>1. VerInv /\ [VerNext]_verVars => VerInv'
  BY WorldMovesStep, VerifierStep, VerStutter DEF VerNext
<1> QED
  BY <1>1, VerInitLawful, PTL DEF VerSpec

\* Type correctness of the verification stores: every row is one its table
\* accepts (_row and verify_chain of the seven stores), whatever is verified
\* when.
THEOREM VerificationTypeCorrect == VerSpec => []VerTypeOK
<1>1. VerInv => VerTypeOK
  <2> SUFFICES ASSUME VerInv PROVE VerTypeOK
    OBVIOUS
  <2>1. \A k \in Kinds : /\ world[k] \in Observations[k]
                         /\ \A i \in 1..Newest(k) : receipts[k][i] \in Rows[k]
    BY ObservationsTyped DEF VerInv, VerTyped, RowsTyped, Newest
  <2>2. \A c \in Verifiers : /\ verCall[c].step \in VerSteps
                             /\ verCall[c].kind \in Kinds \cup {"none"}
                             /\ verCall[c].base \in Nat
                             /\ verCall[c].refs \in [Kinds -> Nat]
    BY DEF VerInv, VerTyped, VerCallSet
  <2> QED
    BY <2>1, <2>2 DEF VerTypeOK, VerInv, VerTyped
<1> QED
  BY <1>1, VerInductive, PTL

\* Verification tells the truth for any number of callers, any packets and any
\* movement of the world between the steps of a verify(): every PASS is backed
\* by the receipt it rests on, a nonce is used once, and close_task cites
\* passes in their order.
THEOREM VerificationIsHonest == VerSpec => []VerificationHonest
<1>1. VerInv => VerificationHonest
  <2> SUFFICES ASSUME VerInv PROVE VerificationHonest
    OBVIOUS
  <2>1. RefsLawful(receipts, closeout) /\ PassBacked /\ NonceSingleUse
    BY DEF VerInv
  <2>2. CloseoutOrdered
    BY <2>1 DEF RefsLawful, CloseoutOrdered
  <2> QED
    BY <2>1, <2>2 DEF VerificationHonest
<1> QED
  BY <1>1, VerInductive, PTL

----------------------------------------------------------------------------
(* Retrieval of evidence: the walk over the domains and the plan.          *)

\* A function that is built up in steps exists and stays within its type.
Built(f, c, step, m) ==
    f = [i \in 0..m |-> IF i = 0 THEN c ELSE step[i][f[i - 1]]]

LEMMA BuiltAt ==
    ASSUME NEW m \in Nat, NEW c, NEW step, NEW f, Built(f, c, step, m)
    PROVE  f[0] = c /\ \A i \in 1..m : f[i] = step[i][f[i - 1]]
<1>1. 0 \in 0..m /\ \A i \in 1..m : i \in 0..m /\ i # 0
  OBVIOUS
<1>2. \A i \in 0..m : f[i] = IF i = 0 THEN c ELSE step[i][f[i - 1]]
  BY DEF Built
<1> QED
  BY <1>1, <1>2

LEMMA BuiltExists ==
    ASSUME NEW S, NEW c \in S, NEW m \in Nat, NEW step,
           \A i \in 1..m : \A x \in S : step[i][x] \in S
    PROVE  \E f : Built(f, c, step, m) /\ f \in [0..m -> S]
<1> DEFINE good(n) == \E f : Built(f, c, step, n) /\ f \in [0..n -> S]
           bad == {n \in 0..m : ~good(n)}
<1> SUFFICES ASSUME bad # {} PROVE FALSE
  <2>1. bad = {} => good(m)
    BY DEF bad
  <2> QED
    BY <2>1
<1>1. PICK n \in bad : \A k \in bad : n <= k
  <2>1. bad \subseteq Nat
    OBVIOUS
  <2> HIDE DEF bad
  <2> QED
    BY <2>1, LeastNatural
<1>2. n \in 0..m /\ ~good(n)
  BY <1>1
<1>3. CASE n = 0
  <2> DEFINE f == [i \in 0..0 |-> c]
  <2>1. f \in [0..0 -> S] /\ f = [i \in 0..0 |-> IF i = 0 THEN c ELSE step[i][f[i - 1]]]
    OBVIOUS
  <2>2. Built(f, c, step, 0)
    BY <2>1, Zenon DEF Built
  <2>3. good(0)
    BY <2>1, <2>2
  <2> QED
    BY <1>2, <1>3, <2>3
<1>4. CASE n # 0
  <2>1. n - 1 \in 0..m /\ n - 1 < n /\ n \in 1..m
    BY <1>2, <1>4
  <2>2. good(n - 1)
    BY <1>1, <2>1
  <2>3. PICK f : Built(f, c, step, n - 1) /\ f \in [0..(n - 1) -> S]
    BY <2>2
  <2> DEFINE g == [i \in 0..n |-> IF i = n THEN step[n][f[n - 1]] ELSE f[i]]
  <2>4. f[0] = c /\ \A i \in 1..(n - 1) : f[i] = step[i][f[i - 1]]
    BY <2>1, <2>3, BuiltAt
  <2>5. step[n][f[n - 1]] \in S
    BY <2>1, <2>3
  <2>6. g \in [0..n -> S]
    BY <2>1, <2>3, <2>5
  <2>7. g[0] = c /\ \A i \in 1..n : g[i] = step[i][g[i - 1]]
    BY <2>1, <2>4
  <2>8. g = [i \in 0..n |-> IF i = 0 THEN c ELSE step[i][g[i - 1]]]
    <3> HIDE DEF g
    <3>1. g = [i \in 0..n |-> g[i]]
      BY <2>6
    <3>2. \A i \in 0..n : g[i] = IF i = 0 THEN c ELSE step[i][g[i - 1]]
      BY <2>7, <1>2
    <3> QED
      BY <3>1, <3>2
  <2> HIDE DEF g
  <2>9. Built(g, c, step, n)
    BY <2>8, Zenon DEF Built
  <2> QED
    BY <1>2, <2>6, <2>9
<1> QED
  BY <1>3, <1>4

\* What is built in steps stays within its type.
LEMMA BuiltTyped ==
    ASSUME NEW S, NEW c \in S, NEW m \in Nat, NEW f,
           f[0] = c, \A i \in 1..m : f[i - 1] \in S => f[i] \in S
    PROVE  \A i \in 0..m : f[i] \in S
<1> DEFINE bad == {n \in 0..m : f[n] \notin S}
<1> SUFFICES ASSUME bad # {} PROVE FALSE
  OBVIOUS
<1>1. PICK n \in bad : \A k \in bad : n <= k
  <2>1. bad \subseteq Nat
    OBVIOUS
  <2> HIDE DEF bad
  <2> QED
    BY <2>1, LeastNatural
<1>2. n \in 0..m /\ f[n] \notin S /\ n # 0
  BY <1>1
<1>3. n - 1 \in 0..m /\ n \in 1..m /\ ~(n <= n - 1)
  BY <1>2
<1>4. f[n - 1] \in S
  BY <1>1, <1>3
<1> QED
  BY <1>2, <1>3, <1>4

----------------------------------------------------------------------------
(* The retrieval of evidence: the walk over the dependencies.              *)

\* A walk only gets further.
Grows(v, w) == ToSet(v.visited) \subseteq ToSet(w.visited) /\ v.unresolved \subseteq w.unresolved

Visitors == {F \in [Names -> [Walks -> Walks]] :
                \A d \in Names, v \in Walks : Grows(v, F[d][v])}

LEMMA AlongGrows ==
    ASSUME NEW F \in Visitors, NEW w \in Walks, NEW names \in Seq(Names)
    PROVE  Along(F, w, names) \in Walks /\ Grows(w, Along(F, w, names))
<1> DEFINE S == {v \in Walks : Grows(w, v)}
           m == Len(names)
           step == [i \in 1..m |-> F[names[i]]]
           P(r) == r = [i \in 0..m |-> IF i = 0 THEN w ELSE F[names[i]][r[i - 1]]]
           run == CHOOSE r : P(r)
<1>1. m \in Nat /\ \A i \in 1..m : names[i] \in Names
  OBVIOUS
<1>2. w \in S
  BY DEF Grows
<1>3. \A d \in Names : \A x \in S : F[d][x] \in S
  BY DEF Visitors, Grows
<1>4. \A i \in 1..m : \A x \in S : step[i][x] \in S
  BY <1>1, <1>3
<1>5. \E r : P(r)
  <2>1. PICK f : Built(f, w, step, m) /\ f \in [0..m -> S]
    <3> HIDE DEF S, step, m
    <3> QED
      BY <1>1, <1>2, <1>4, BuiltExists
  <2>2. f[0] = w /\ \A i \in 1..m : f[i] = step[i][f[i - 1]]
    <3> HIDE DEF S, step, m
    <3> QED
      BY <1>1, <2>1, BuiltAt
  <2>3. \A i \in 1..m : f[i] = F[names[i]][f[i - 1]]
    BY <2>2
  <2>4. f = [i \in 0..m |-> f[i]]
    BY <2>1
  <2>5. \A i \in 0..m : f[i] = IF i = 0 THEN w ELSE F[names[i]][f[i - 1]]
    BY <1>1, <2>2, <2>3
  <2>6. P(f)
    BY <2>4, <2>5
  <2> QED
    BY <2>6
<1>6. P(run)
  <2> HIDE DEF P
  <2> QED
    BY <1>5
<1>7. run[0] = w /\ \A i \in 1..m : run[i] = F[names[i]][run[i - 1]]
  <2>1. \A i \in 0..m : run[i] = IF i = 0 THEN w ELSE F[names[i]][run[i - 1]]
    <3> HIDE DEF run
    <3> QED
      BY <1>6
  <2> HIDE DEF run, m
  <2> QED
    BY <1>1, <2>1
<1>8. \A i \in 0..m : run[i] \in S
  <2>1. \A i \in 1..m : run[i - 1] \in S => run[i] \in S
    <3> HIDE DEF S, run
    <3> QED
      BY <1>1, <1>3, <1>7
  <2> HIDE DEF S, run, m
  <2> QED
    BY <1>1, <1>2, <1>7, <2>1, BuiltTyped
<1>9. Along(F, w, names) = run[m]
  BY DEF Along
<1>10. run[m] \in S
  <2> HIDE DEF S, run
  <2> QED
    BY <1>1, <1>8
<1> HIDE DEF run
<1> QED
  BY <1>9, <1>10

LEMMA ListsOfDomain ==
    ASSUME NEW d \in DOMAIN Domains
    PROVE  /\ d \in Names /\ Domains[d].deps \in Seq(Names)
           /\ Domains[d].targets \in Seq(ToSet(Domains[d].targets))
<1>1. Domains[d].deps \in Seq(ToSet(Domains[d].deps))
  BY EvidenceAssumption
<1>2. ToSet(Domains[d].deps) \subseteq Names /\ d \in Names
  BY DEF Names
<1>3. Domains[d].deps \in Seq(Names)
  BY <1>1, <1>2
<1> QED
  BY <1>2, <1>3, EvidenceAssumption

LEMMA GrowsOn ==
    ASSUME NEW u, NEW v, NEW w, Grows(u, v), Grows(v, w)
    PROVE  Grows(u, w)
BY DEF Grows

LEMMA ExhaustGrows ==
    ASSUME NEW w \in Walks, NEW d \in Names
    PROVE  /\ Exhaust(w, d) \in Walks /\ Grows(w, Exhaust(w, d))
           /\ Exhaust(w, d).unresolved # {}
           /\ Exhaust(w, d).visited = w.visited
<1>1. <<"BUDGET_EXHAUSTED", d>> \in {"BUDGET_EXHAUSTED", "UNKNOWN_DEPENDENCY"} \X Names
  OBVIOUS
<1> QED
  BY <1>1 DEF Exhaust, Grows, Walks

LEMMA DeeperGrows ==
    ASSUME NEW below \in Visitors, NEW w \in Walks, NEW p \in Names
    PROVE  Deeper(below, w, p) \in Walks /\ Grows(w, Deeper(below, w, p))
BY ExhaustGrows DEF Deeper, Visitors

LEMMA DependencyVisitors ==
    ASSUME NEW below \in Visitors
    PROVE  HardDependency(below) \in Visitors /\ ContextualDependency(below) \in Visitors
<1>1. \A w \in Walks : Grows(w, w)
  BY DEF Grows
<1>2. \A p \in Names, w \in Walks : /\ Deeper(below, w, p) \in Walks
                                    /\ Grows(w, Deeper(below, w, p))
  BY DeeperGrows
<1>3. HardDependency(below) \in Visitors
  BY <1>1, <1>2 DEF HardDependency, Visitors
<1>4. ContextualDependency(below) \in Visitors
  BY <1>1, <1>2 DEF ContextualDependency, Visitors
<1> QED
  BY <1>3, <1>4

LEMMA AppendVisited ==
    ASSUME NEW w \in Walks, NEW d \in DOMAIN Domains
    PROVE  LET v == [w EXCEPT !.visited = Append(@, d)]
           IN  v \in Walks /\ Grows(w, v) /\ d \in ToSet(v.visited)
<1> DEFINE s == w.visited
<1>1. s \in Seq(DOMAIN Domains)
  BY DEF Walks
<1>2. Append(s, d) \in Seq(DOMAIN Domains) /\ Len(Append(s, d)) = Len(s) + 1
      /\ (\A i \in 1..Len(s) : Append(s, d)[i] = s[i]) /\ Append(s, d)[Len(s) + 1] = d
  <2> HIDE DEF s
  <2> QED
    BY <1>1
<1>3. \A e \in ToSet(s) : e \in ToSet(Append(s, d))
  <2> SUFFICES ASSUME NEW i \in DOMAIN s PROVE s[i] \in ToSet(Append(s, d))
    BY DEF ToSet
  <2> HIDE DEF s
  <2>1. i \in 1..Len(s) /\ i \in DOMAIN Append(s, d)
    BY <1>1, <1>2
  <2>2. Append(s, d)[i] = s[i]
    BY <1>2, <2>1
  <2> QED
    BY <2>1, <2>2 DEF ToSet
<1>4. d \in ToSet(Append(s, d))
  <2> HIDE DEF s
  <2>1. Len(s) + 1 \in DOMAIN Append(s, d)
    BY <1>1, <1>2
  <2> QED
    BY <1>2, <2>1 DEF ToSet
<1> DEFINE v == [w EXCEPT !.visited = Append(@, d)]
<1>5. v.visited = Append(s, d) /\ v.unresolved = w.unresolved /\ v \in Walks
  BY <1>2 DEF Walks
<1> HIDE DEF s, v
<1>6. w.visited = s
  BY DEF s
<1> QED
  BY <1>3, <1>4, <1>5, <1>6 DEF Grows, v

LEMMA VisitingFree ==
    ASSUME NEW w \in Walks, NEW X, X \subseteq DOMAIN Domains
    PROVE  /\ [w EXCEPT !.visiting = X] \in Walks
           /\ [w EXCEPT !.visiting = X].visited = w.visited
           /\ [w EXCEPT !.visiting = X].unresolved = w.unresolved
BY DEF Walks

LEMMA VisitDomainGrows ==
    ASSUME NEW below \in Visitors, NEW w \in Walks, NEW d \in DOMAIN Domains
    PROVE  LET v == VisitDomain(below, w, d)
           IN  v \in Walks /\ Grows(w, v) /\ (d \in ToSet(v.visited) \/ v.unresolved # {})
<1> DEFINE deps == Domains[d].deps
           start == [w EXCEPT !.visiting = @ \cup {d}]
           before == Along(HardDependency(below), start, deps)
           here == IF Full(before) THEN Exhaust(before, d)
                   ELSE [before EXCEPT !.visited = Append(@, d)]
           after == IF Full(before) \/ Domains[d].privacy = "none" THEN here
                    ELSE Along(ContextualDependency(below), here, deps)
           done == [after EXCEPT !.visiting = @ \ {d}]
           Dealt(v) == d \in ToSet(v.visited) \/ v.unresolved # {}
<1>0. deps \in Seq(Names) /\ d \in Names
  BY ListsOfDomain
<1>1. start \in Walks /\ Grows(w, start)
  <2>1. w.visiting \cup {d} \subseteq DOMAIN Domains
    BY DEF Walks
  <2> QED
    BY <2>1, VisitingFree DEF Grows
<1>2. before \in Walks /\ Grows(start, before)
  <2> HIDE DEF start, deps
  <2> QED
    BY <1>0, <1>1, DependencyVisitors, AlongGrows
<1>3. here \in Walks /\ Grows(before, here) /\ Dealt(here)
  <2> HIDE DEF before
  <2>1. CASE Full(before)
    BY <1>0, <1>2, <2>1, ExhaustGrows
  <2>2. CASE ~Full(before)
    <3>1. here = [before EXCEPT !.visited = Append(@, d)]
      BY <2>2
    <3> HIDE DEF here
    <3> QED
      BY <1>2, <3>1, AppendVisited
  <2> QED
    BY <2>1, <2>2
<1>4. after \in Walks /\ Grows(here, after)
  <2> HIDE DEF before, here, deps
  <2>1. Grows(here, here)
    BY DEF Grows
  <2> QED
    BY <1>0, <1>3, <2>1, DependencyVisitors, AlongGrows
<1>5. Dealt(after)
  BY <1>3, <1>4 DEF Grows
<1>6. done \in Walks /\ Grows(after, done) /\ Dealt(done)
  <2> HIDE DEF after
  <2>1. after.visiting \ {d} \subseteq DOMAIN Domains
    BY <1>4 DEF Walks
  <2> QED
    BY <1>4, <1>5, <2>1, VisitingFree DEF Grows
<1>7. Grows(w, done)
  <2> HIDE DEF start, before, here, after, done
  <2> QED
    BY <1>1, <1>2, <1>3, <1>4, <1>6, GrowsOn
<1>8. VisitDomain(below, w, d) = done
  BY DEF VisitDomain
<1> HIDE DEF done
<1> QED
  BY <1>6, <1>7, <1>8

LEMMA LevelVisitors ==
    ASSUME NEW below \in Visitors
    PROVE  Level(below) \in Visitors
<1> DEFINE V(d, w) ==
        IF d \in ToSet(w.visited) \cup w.visiting THEN w
        ELSE IF Full(w) THEN Exhaust(w, d)
        ELSE IF d \notin DOMAIN Domains
             THEN [w EXCEPT !.unresolved = @ \cup {<<"UNKNOWN_DEPENDENCY", d>>}]
        ELSE VisitDomain(below, w, d)
<1>1. ASSUME NEW d \in Names, NEW w \in Walks PROVE V(d, w) \in Walks /\ Grows(w, V(d, w))
  <2> DEFINE u == [w EXCEPT !.unresolved = @ \cup {<<"UNKNOWN_DEPENDENCY", d>>}]
  <2>1. u \in Walks /\ Grows(w, u)
    <3>1. <<"UNKNOWN_DEPENDENCY", d>> \in {"BUDGET_EXHAUSTED", "UNKNOWN_DEPENDENCY"} \X Names
      OBVIOUS
    <3> QED
      BY <3>1 DEF Walks, Grows
  <2>2. Grows(w, w)
    BY DEF Grows
  <2>3. Exhaust(w, d) \in Walks /\ Grows(w, Exhaust(w, d))
    BY ExhaustGrows
  <2>4. d \in DOMAIN Domains => /\ VisitDomain(below, w, d) \in Walks
                                /\ Grows(w, VisitDomain(below, w, d))
    BY VisitDomainGrows
  <2> HIDE DEF u
  <2> QED
    BY <2>1, <2>2, <2>3, <2>4 DEF u
<1>2. Level(below) = [d \in Names |-> [w \in Walks |-> V(d, w)]]
  BY DEF Level
<1> HIDE DEF V
<1> QED
  BY <1>1, <1>2 DEF Visitors

LEMMA BeyondVisitors == Beyond \in Visitors
BY ExhaustGrows DEF Beyond, Visitors

LEMMA VisitLevels ==
    /\ Visit[0] = Beyond /\ \A n \in 1..(MaxDepth + 1) : Visit[n] = Level(Visit[n - 1])
    /\ \A n \in 0..(MaxDepth + 1) : Visit[n] \in Visitors
<1> DEFINE m == MaxDepth + 1
           step == [i \in 1..m |-> [b \in Visitors |-> Level(b)]]
           P(f) == f = [n \in 0..m |-> IF n = 0 THEN Beyond ELSE Level(f[n - 1])]
<1>1. m \in Nat
  BY EvidenceAssumption
<1>2. \A i \in 1..m : \A b \in Visitors : step[i][b] = Level(b) /\ step[i][b] \in Visitors
  BY LevelVisitors
<1>3. \E f : P(f)
  <2>1. PICK f : Built(f, Beyond, step, m) /\ f \in [0..m -> Visitors]
    <3> HIDE DEF step, m
    <3> QED
      BY <1>1, <1>2, BeyondVisitors, BuiltExists
  <2>2. f[0] = Beyond /\ \A i \in 1..m : f[i] = step[i][f[i - 1]]
    <3> HIDE DEF step, m
    <3> QED
      BY <1>1, <2>1, BuiltAt
  <2>3. \A i \in 0..m : f[i] = IF i = 0 THEN Beyond ELSE Level(f[i - 1])
    <3> HIDE DEF step, m
    <3> SUFFICES ASSUME NEW i \in 0..m, i # 0 PROVE f[i] = Level(f[i - 1])
      BY <2>2
    <3>1. i \in 1..m /\ i - 1 \in 0..m
      BY <1>1
    <3> QED
      BY <1>2, <2>1, <2>2, <3>1
  <2>4. f = [i \in 0..m |-> f[i]]
    BY <2>1
  <2> HIDE DEF m
  <2>5. P(f)
    BY <2>3, <2>4
  <2> QED
    BY <2>5
<1>4. Visit = CHOOSE f : P(f)
  BY DEF Visit
<1>5. P(Visit)
  <2> HIDE DEF P
  <2> QED
    BY <1>3, <1>4
<1>6. Visit[0] = Beyond /\ \A n \in 1..m : Visit[n] = Level(Visit[n - 1])
  <2> HIDE DEF m
  <2>1. \A n \in 0..m : Visit[n] = IF n = 0 THEN Beyond ELSE Level(Visit[n - 1])
    BY <1>5
  <2> QED
    BY <1>1, <2>1
<1>7. \A n \in 0..m : Visit[n] \in Visitors
  <2> HIDE DEF m
  <2>1. \A n \in 1..m : Visit[n - 1] \in Visitors => Visit[n] \in Visitors
    BY <1>6, LevelVisitors
  <2> QED
    BY <1>1, <1>6, <2>1, BeyondVisitors, BuiltTyped
<1> QED
  BY <1>6, <1>7

\* The walk is a list of domains; it has met the one that was asked for or
\* reports what it could not do.
LEMMA WalkReaches ==
    ASSUME NEW d \in Asked
    PROVE  /\ Walk(d).visited \in Seq(DOMAIN Domains)
           /\ d \in ToSet(Walk(d).visited) \/ Walk(d).unresolved # {}
           /\ Walk(d).unresolved \subseteq {"BUDGET_EXHAUSTED", "UNKNOWN_DEPENDENCY"} \X Names
<1> DEFINE below == Visit[MaxDepth]
<1>1. MaxDepth \in 0..(MaxDepth + 1) /\ MaxDepth + 1 \in 1..(MaxDepth + 1)
      /\ (MaxDepth + 1) - 1 = MaxDepth
  BY EvidenceAssumption
<1>2. below \in Visitors /\ Visit[MaxDepth + 1] = Level(below)
  BY <1>1, VisitLevels
<1>3. d \in DOMAIN Domains /\ d \in Names
  BY EvidenceAssumption DEF Names
<1>4. Unvisited \in Walks /\ Unvisited.visiting = {} /\ ToSet(Unvisited.visited) = {}
  BY DEF Unvisited, Walks, ToSet
<1> DEFINE w == Unvisited
<1>5. Walk(d) = IF Full(w) THEN Exhaust(w, d) ELSE VisitDomain(below, w, d)
  <2> HIDE DEF below, w
  <2>1. Level(below)[d][w] = IF d \in ToSet(w.visited) \cup w.visiting THEN w
        ELSE IF Full(w) THEN Exhaust(w, d)
        ELSE IF d \notin DOMAIN Domains
             THEN [w EXCEPT !.unresolved = @ \cup {<<"UNKNOWN_DEPENDENCY", d>>}]
        ELSE VisitDomain(below, w, d)
    BY <1>3, <1>4 DEF Level, w
  <2>2. d \notin ToSet(w.visited) \cup w.visiting
    BY <1>4 DEF w
  <2>3. Walk(d) = Level(below)[d][w]
    BY <1>2 DEF Walk, w
  <2> QED
    BY <1>3, <2>1, <2>2, <2>3
<1>6. Walk(d) \in Walks /\ (d \in ToSet(Walk(d).visited) \/ Walk(d).unresolved # {})
  <2> HIDE DEF below
  <2>1. CASE Full(w)
    BY <1>3, <1>4, <1>5, <2>1, ExhaustGrows
  <2>2. CASE ~Full(w)
    BY <1>2, <1>3, <1>4, <1>5, <2>2, VisitDomainGrows
  <2> QED
    BY <2>1, <2>2
<1> QED
  BY <1>6 DEF Walks

----------------------------------------------------------------------------
(* What a plan offers.                                                     *)

Placed(keys) == \A k \in keys : k.pos[1] \in Nat /\ k.pos[2] \in Nat

\* Of several places one comes first.
LEMMA EarliestPlace ==
    ASSUME NEW keys, keys # {}, Placed(keys)
    PROVE  \E k \in keys : \A l \in keys : ~Earlier(l, k)
<1> DEFINE T == {k.pos[1] : k \in keys}
<1>1. PICK i \in T : \A x \in T : i <= x
  <2>1. T \subseteq Nat /\ T # {}
    BY DEF Placed
  <2> HIDE DEF T
  <2> QED
    BY <2>1, LeastNatural
<1> DEFINE row == {k \in keys : k.pos[1] = i}
           U == {k.pos[2] : k \in row}
<1>2. U \subseteq Nat /\ U # {}
  BY DEF Placed
<1>3. PICK j \in U : \A x \in U : j <= x
  <2> HIDE DEF U
  <2> QED
    BY <1>2, LeastNatural
<1>4. PICK k \in keys : k.pos[1] = i /\ k.pos[2] = j
  OBVIOUS
<1>5. \A l \in keys : i <= l.pos[1] /\ (l.pos[1] = i => j <= l.pos[2])
  BY <1>1, <1>3
<1>6. i \in Nat /\ j \in Nat
  BY <1>4 DEF Placed
<1> HIDE DEF T, U, row
<1>7. \A l \in keys : ~Earlier(l, k)
  BY <1>4, <1>5, <1>6 DEF Earlier, Placed
<1> QED
  BY <1>7

LEMMA ForemostIn ==
    ASSUME NEW keys, keys # {}, Placed(keys)
    PROVE  Foremost(keys) \in keys
BY EarliestPlace DEF Foremost

LEMMA PlacesAre ==
    ASSUME NEW d \in Asked, NEW gov
    PROVE  \A k \in Places(Walk(d), gov) :
               /\ k.dom \in ToSet(Walk(d).visited) /\ k.dom \in DOMAIN Domains
               /\ Open(k.dom, gov) /\ k.at \in ToSet(Domains[k.dom].targets)
               /\ k.pos[1] \in Nat /\ k.pos[2] \in Nat
<1> DEFINE v == Walk(d).visited
<1> SUFFICES ASSUME NEW k \in Places(Walk(d), gov)
             PROVE  /\ k.dom \in ToSet(v) /\ k.dom \in DOMAIN Domains
                    /\ Open(k.dom, gov) /\ k.at \in ToSet(Domains[k.dom].targets)
                    /\ k.pos[1] \in Nat /\ k.pos[2] \in Nat
  OBVIOUS
<1>0. PICK i \in DOMAIN v : \E j \in DOMAIN Domains[v[i]].targets :
        /\ Open(v[i], gov)
        /\ k = [dom |-> v[i], at |-> Domains[v[i]].targets[j], pos |-> <<i, j>>]
  BY DEF Places
<1>1. PICK j \in DOMAIN Domains[v[i]].targets :
        /\ Open(v[i], gov)
        /\ k = [dom |-> v[i], at |-> Domains[v[i]].targets[j], pos |-> <<i, j>>]
  BY <1>0
<1>2. v \in Seq(DOMAIN Domains)
  BY WalkReaches
<1> HIDE DEF v
<1>3. v[i] \in DOMAIN Domains /\ i \in Nat /\ v[i] \in ToSet(v)
  BY <1>2 DEF ToSet
<1>4. j \in Nat /\ Domains[v[i]].targets[j] \in ToSet(Domains[v[i]].targets)
  <2> DEFINE t == Domains[v[i]].targets
  <2>1. t \in Seq(ToSet(t))
    BY <1>3, ListsOfDomain
  <2> HIDE DEF t
  <2>2. j \in DOMAIN t => j \in Nat /\ t[j] \in ToSet(t)
    BY <2>1 DEF ToSet
  <2> QED
    BY <2>2 DEF t
<1>5. k.dom = v[i] /\ k.at = Domains[v[i]].targets[j] /\ k.pos[1] = i /\ k.pos[2] = j
  BY <1>1
<1> QED
  BY <1>1, <1>3, <1>4, <1>5

LEMMA PlacesHave ==
    ASSUME NEW walk, NEW gov
    PROVE  \A e, t : e \in ToSet(walk.visited) /\ Open(e, gov) /\ t \in ToSet(Domains[e].targets)
             => \E k \in Places(walk, gov) : k.dom = e /\ k.at = t
<1> SUFFICES ASSUME NEW e, NEW t, e \in ToSet(walk.visited), Open(e, gov),
                    t \in ToSet(Domains[e].targets)
             PROVE  \E k \in Places(walk, gov) : k.dom = e /\ k.at = t
  OBVIOUS
<1>1. PICK i \in DOMAIN walk.visited : walk.visited[i] = e
  BY DEF ToSet
<1>2. PICK j \in DOMAIN Domains[e].targets : Domains[e].targets[j] = t
  BY DEF ToSet
<1> DEFINE k == [dom |-> walk.visited[i], at |-> Domains[walk.visited[i]].targets[j], pos |-> <<i, j>>]
<1>3. k \in Places(walk, gov)
  <2> DEFINE in == {n \in DOMAIN walk.visited : Open(walk.visited[n], gov)}
             at(n) == {[dom |-> walk.visited[n], at |-> Domains[walk.visited[n]].targets[m],
                        pos |-> <<n, m>>] : m \in DOMAIN Domains[walk.visited[n]].targets}
  <2>1. i \in in
    BY <1>1
  <2>2. k \in at(i)
    BY <1>1, <1>2
  <2>3. Places(walk, gov) = UNION {at(n) : n \in in}
    BY DEF Places
  <2> HIDE DEF in, at, k
  <2> QED
    BY <2>1, <2>2, <2>3
<1>4. k.dom = e /\ k.at = t
  BY <1>1, <1>2
<1> QED
  BY <1>3, <1>4

\* Every target of an open domain of the walk is offered, if not under its name.
LEMMA CandidateFor ==
    ASSUME NEW d \in Asked, NEW gov, NEW e \in ToSet(Walk(d).visited), Open(e, gov),
           NEW t \in ToSet(Domains[e].targets)
    PROVE  \E k \in Candidates(Walk(d), gov) : k.at = t
<1> DEFINE P == Places(Walk(d), gov)
           same == {k \in P : k.at = t}
<1>1. same # {}
  <2>1. \E k \in Places(Walk(d), gov) : k.dom = e /\ k.at = t
    <3>1. \A x, y : x \in ToSet(Walk(d).visited) /\ Open(x, gov) /\ y \in ToSet(Domains[x].targets)
             => \E k \in Places(Walk(d), gov) : k.dom = x /\ k.at = y
      BY PlacesHave
    <3> HIDE DEF P, same
    <3> QED
      BY <3>1
  <2> QED
    BY <2>1
<1>2. Placed(same)
  BY PlacesAre DEF Placed
<1>3. PICK k \in same : \A l \in same : ~Earlier(l, k)
  <2> HIDE DEF same
  <2> QED
    BY <1>1, <1>2, EarliestPlace
<1>4. k \in Candidates(Walk(d), gov) /\ k.at = t
  BY <1>3 DEF Candidates
<1> QED
  BY <1>4

LEMMA CandidatesAre ==
    ASSUME NEW d \in Asked, NEW gov
    PROVE  \A k \in Candidates(Walk(d), gov) :
               /\ k.dom \in ToSet(Walk(d).visited) /\ k.dom \in DOMAIN Domains
               /\ Open(k.dom, gov) /\ k.at \in ToSet(Domains[k.dom].targets)
               /\ k.pos[1] \in Nat /\ k.pos[2] \in Nat
               /\ k.at.route \in Routes
<1>1. \A k \in Candidates(Walk(d), gov) : k \in Places(Walk(d), gov)
  BY DEF Candidates
<1>2. \A e \in DOMAIN Domains : \A t \in ToSet(Domains[e].targets) : t.route \in Routes
  BY DEF Routes
<1> QED
  BY <1>1, <1>2, PlacesAre

----------------------------------------------------------------------------
(* Resolutions.                                                            *)

BoundTo(p, obs) == {i \in obs : i.dom = p /\ i.bound}
CurrentOf(p, obs) == {i \in BoundTo(p, obs) : i.current /\ i.conflict = "NONE"}
Conflicts(p, obs) == \E i \in BoundTo(p, obs) : i.conflict = "CONFLICT"

\* What is admitted of evidence is admitted of more, and what the dispatch
\* alone decides stays so.
LEMMA AbstractMonotone ==
    ASSUME NEW d, NEW prop, NEW I, NEW J, I \subseteq J
    PROVE  LET a == AbstractAdmission(d, prop, I)
               b == AbstractAdmission(d, prop, J)
           IN  /\ a.status \in {"ADMITTED", "CONFLICT", "UNRESOLVED"}
               /\ b.status \in {"ADMITTED", "CONFLICT", "UNRESOLVED"}
               /\ a.id = b.id /\ a.resolver = b.resolver
               /\ a.status = "CONFLICT" <=> b.status = "CONFLICT"
               /\ a.status = "ADMITTED" => b.status = "ADMITTED"
<1> DEFINE best == Best({r \in Dispatches : r.prop = prop /\ r.scope \in {"*", d}}, d)
           row == CHOOSE r \in best : \A q \in best : r.id <= q.id
           need == Decisive[row.id]
           split == Cardinality({r.resolver : r \in best}) # 1
           bare == row.id \notin DOMAIN Decisive
           beyond == ~(need.all \cup need.any \subseteq AcceptedBy[row.resolver])
           E(K) == Enough(need, {i.class : i \in K})
           status(K) == IF split THEN "CONFLICT" ELSE IF bare THEN "UNRESOLVED"
                        ELSE IF beyond THEN "CONFLICT"
                        ELSE IF E(K) THEN "ADMITTED" ELSE "UNRESOLVED"
           id == IF split THEN 0 ELSE row.id
           resolver == IF split THEN "none" ELSE row.resolver
<1>1. ASSUME NEW K
      PROVE  /\ AbstractAdmission(d, prop, K).status = status(K)
             /\ AbstractAdmission(d, prop, K).id = id
             /\ AbstractAdmission(d, prop, K).resolver = resolver
  <2>1. AbstractAdmission(d, prop, K) =
          IF split THEN [status |-> "CONFLICT", id |-> 0, resolver |-> "none"]
          ELSE IF bare THEN [status |-> "UNRESOLVED", id |-> row.id, resolver |-> row.resolver]
          ELSE [status |-> (IF beyond THEN "CONFLICT" ELSE IF E(K) THEN "ADMITTED" ELSE "UNRESOLVED"),
                id |-> row.id, resolver |-> row.resolver]
    BY DEF AbstractAdmission
  <2> HIDE DEF best, row, need, split, bare, beyond, E
  <2> QED
    BY <2>1
<1>2. E(I) => E(J)
  <2>1. {i.class : i \in I} \subseteq {i.class : i \in J}
    OBVIOUS
  <2> HIDE DEF need
  <2> QED
    BY <2>1 DEF Enough
<1> HIDE DEF best, row, need, split, bare, beyond, E, id, resolver
<1> QED
  BY <1>1, <1>2

Verdicts == {"SATISFIED", "UNRESOLVED", "CONFLICT"}

\* What a decision on the current items means for a prerequisite.
Verdict(expected, decision) ==
    IF decision.id # expected.id \/ decision.resolver # expected.resolver THEN "CONFLICT"
    ELSE IF decision.status = "ADMITTED" THEN "SATISFIED" ELSE decision.status

LEMMA ResolutionIs ==
    ASSUME NEW d, NEW obs
    PROVE  Resolution(d, obs) =
             IF ExpectedDispatch(d) = NoDispatch \/ BoundTo(d, obs) = {} THEN "UNRESOLVED"
             ELSE IF Conflicts(d, obs) THEN "CONFLICT"
             ELSE IF CurrentOf(d, obs) = {} THEN "UNRESOLVED"
             ELSE Verdict(ExpectedDispatch(d),
                          Admission(d, ExpectedDispatch(d).prop, CurrentOf(d, obs)))
BY DEF Resolution, Verdict, BoundTo, CurrentOf, Conflicts

LEMMA BoundMonotone ==
    ASSUME NEW d, NEW obs, NEW later, obs \subseteq later
    PROVE  /\ BoundTo(d, obs) \subseteq BoundTo(d, later)
           /\ CurrentOf(d, obs) \subseteq CurrentOf(d, later)
           /\ Conflicts(d, obs) => Conflicts(d, later)
           /\ CurrentOf(d, obs) \subseteq BoundTo(d, obs)
BY DEF BoundTo, CurrentOf, Conflicts

\* Of a prerequisite with an abstract rule, evidence settles and conflicts, and
\* neither is taken back by more of it, but that it may still come to conflict.
LEMMA AbstractResolution ==
    ASSUME NEW d, d # SemanticDomain, NEW obs, NEW later, obs \subseteq later
    PROVE  /\ Resolution(d, obs) \in Verdicts
           /\ Resolution(d, obs) = "CONFLICT" => Resolution(d, later) = "CONFLICT"
           /\ Resolution(d, obs) = "SATISFIED" => Resolution(d, later) # "UNRESOLVED"
<1> DEFINE e == ExpectedDispatch(d)
           D(K) == AbstractAdmission(d, e.prop, K)
           I == CurrentOf(d, obs)
           J == CurrentOf(d, later)
<1>1. \A K : Admission(d, e.prop, K) = D(K)
  BY DEF Admission
<1>2. /\ D(I).status \in {"ADMITTED", "CONFLICT", "UNRESOLVED"}
      /\ D(J).status \in {"ADMITTED", "CONFLICT", "UNRESOLVED"}
      /\ D(I).id = D(J).id /\ D(I).resolver = D(J).resolver
      /\ D(I).status = "CONFLICT" <=> D(J).status = "CONFLICT"
      /\ D(I).status = "ADMITTED" => D(J).status = "ADMITTED"
  <2>1. I \subseteq J
    BY BoundMonotone
  <2> HIDE DEF e, I, J
  <2> QED
    BY <2>1, AbstractMonotone
<1>3. /\ Resolution(d, obs) =
             IF e = NoDispatch \/ BoundTo(d, obs) = {} THEN "UNRESOLVED"
             ELSE IF Conflicts(d, obs) THEN "CONFLICT"
             ELSE IF I = {} THEN "UNRESOLVED" ELSE Verdict(e, D(I))
      /\ Resolution(d, later) =
             IF e = NoDispatch \/ BoundTo(d, later) = {} THEN "UNRESOLVED"
             ELSE IF Conflicts(d, later) THEN "CONFLICT"
             ELSE IF J = {} THEN "UNRESOLVED" ELSE Verdict(e, D(J))
  BY <1>1, ResolutionIs
<1>4. /\ BoundTo(d, obs) \subseteq BoundTo(d, later) /\ I \subseteq J
      /\ Conflicts(d, obs) => Conflicts(d, later)
  BY BoundMonotone
<1> HIDE DEF e, D, I, J
<1>5. /\ Verdict(e, D(I)) \in Verdicts
      /\ Verdict(e, D(I)) = "CONFLICT" => Verdict(e, D(J)) = "CONFLICT"
      /\ Verdict(e, D(I)) = "SATISFIED" => Verdict(e, D(J)) = "SATISFIED"
  BY <1>2 DEF Verdict, Verdicts
<1> QED
  BY <1>3, <1>4, <1>5 DEF Verdicts

\* Semantic currentness is never satisfied: decisive evidence of it leaves it
\* unresolved, and without both decisive classes nothing is admitted.
LEMMA SemanticResolution ==
    ASSUME NEW obs, NEW d, d = SemanticDomain
    PROVE  Resolution(d, obs) \in {"UNRESOLVED", "CONFLICT"}
<1> DEFINE e == ExpectedDispatch(d)
           I == CurrentOf(d, obs)
           rule == AbstractAdmission(d, e.prop, I)
           decided == Admission(d, e.prop, I)
<1>1. rule.status \in {"ADMITTED", "CONFLICT", "UNRESOLVED"}
  <2> HIDE DEF e, I
  <2> QED
    BY AbstractMonotone
<1>2. decided.status \in {"CONFLICT", "UNRESOLVED"}
  <2> HIDE DEF e, I
  <2>1. CASE \E i \in I : i.class \in SemanticDecisive /\ ~ValidatedSemanticOrigin(i)
    <3>1. decided = [status |-> "UNRESOLVED", id |-> ExpectedDispatch(d).id,
                     resolver |-> ExpectedDispatch(d).resolver]
      BY <2>1 DEF Admission
    <3> QED
      BY <3>1
  <2>2. CASE ~\E i \in I : i.class \in SemanticDecisive /\ ~ValidatedSemanticOrigin(i)
    <3>1. decided = Relational(rule, I)
      BY <2>2 DEF Admission
    <3>2. ~(SemanticDecisive \subseteq {i.class : i \in I})
      BY <2>2 DEF SemanticDecisive, ValidatedSemanticOrigin
    <3>3. Relational(rule, I) = IF rule.status = "ADMITTED"
                                THEN [rule EXCEPT !.status = "UNRESOLVED"] ELSE rule
      BY <3>2 DEF Relational
    <3>4. rule = [status |-> rule.status, id |-> rule.id, resolver |-> rule.resolver]
      BY DEF AbstractAdmission
    <3> HIDE DEF rule
    <3> QED
      BY <1>1, <3>1, <3>3, <3>4
  <2> QED
    BY <2>1, <2>2
<1>3. Verdict(e, decided) \in {"UNRESOLVED", "CONFLICT"}
  <2> HIDE DEF e, decided
  <2> QED
    BY <1>2 DEF Verdict
<1>4. Resolution(d, obs) =
          IF e = NoDispatch \/ BoundTo(d, obs) = {} THEN "UNRESOLVED"
          ELSE IF Conflicts(d, obs) THEN "CONFLICT"
          ELSE IF I = {} THEN "UNRESOLVED" ELSE Verdict(e, decided)
  BY ResolutionIs
<1> HIDE DEF e, I, decided
<1> QED
  BY <1>3, <1>4

LEMMA ResolutionTyped ==
    ASSUME NEW d, NEW obs
    PROVE  Resolution(d, obs) \in Verdicts /\ (d = SemanticDomain => Resolution(d, obs) # "SATISFIED")
BY SemanticResolution, AbstractResolution DEF Verdicts

\* Satisfied means settled by evidence.
LEMMA SatisfiedSettled ==
    ASSUME NEW d, NEW obs, Resolution(d, obs) = "SATISFIED"
    PROVE  Settled(d, obs)
<1>1. d # SemanticDomain
  BY ResolutionTyped
<1>2. /\ ~Conflicts(d, obs) /\ CurrentOf(d, obs) # {}
  <2> DEFINE v == Verdict(ExpectedDispatch(d),
                          Admission(d, ExpectedDispatch(d).prop, CurrentOf(d, obs)))
             none == ExpectedDispatch(d) = NoDispatch \/ BoundTo(d, obs) = {}
  <2>1. Resolution(d, obs) = IF none THEN "UNRESOLVED"
             ELSE IF Conflicts(d, obs) THEN "CONFLICT"
             ELSE IF CurrentOf(d, obs) = {} THEN "UNRESOLVED" ELSE v
    BY ResolutionIs
  <2> HIDE DEF v, none
  <2> QED
    BY <2>1
<1> QED
  BY <1>1, <1>2 DEF Settled, Conflicts, CurrentOf, BoundTo

----------------------------------------------------------------------------
(* Progress of the rounds.                                                 *)

\* How far a domain has come: all its hard prerequisites have been resolved,
\* one of them has come to conflict.  Neither is taken back.
Reached(d, n, obs) ==
    \/ n = 1 /\ \A p \in HardOf(d) : p # SemanticDomain /\ Resolution(p, obs) # "UNRESOLVED"
    \/ n = 2 /\ \E p \in HardOf(d) : p # SemanticDomain /\ Resolution(p, obs) = "CONFLICT"

Steps(obs) == {x \in (DOMAIN Domains) \X (1..2) : Reached(x[1], x[2], obs)}
Progress(obs) == Cardinality(Steps(obs))

LEMMA StepsMonotone ==
    ASSUME NEW obs, NEW later, obs \subseteq later
    PROVE  Steps(obs) \subseteq Steps(later)
<1>1. ASSUME NEW p, p # SemanticDomain
      PROVE  /\ Resolution(p, obs) # "UNRESOLVED" => Resolution(p, later) # "UNRESOLVED"
             /\ Resolution(p, obs) = "CONFLICT" => Resolution(p, later) = "CONFLICT"
  BY <1>1, AbstractResolution DEF Verdicts
<1>2. ASSUME NEW d, NEW n, Reached(d, n, obs) PROVE Reached(d, n, later)
  BY <1>1, <1>2 DEF Reached
<1> QED
  BY <1>2 DEF Steps

\* A domain is released between its two steps.
LEMMA ReleasedBetween ==
    ASSUME NEW obs, NEW d \in DOMAIN Domains
    PROVE  Unsatisfied(d, Resolutions(obs)) = {}
             <=> <<d, 1>> \in Steps(obs) /\ <<d, 2>> \notin Steps(obs)
<1>1. \A p \in HardOf(d) : Resolutions(obs)[p] = Resolution(p, obs)
  BY DEF HardOf, Resolutions
<1>2. Unsatisfied(d, Resolutions(obs)) = {}
        <=> \A p \in HardOf(d) : Resolution(p, obs) = "SATISFIED"
  BY <1>1 DEF Unsatisfied
<1>3. /\ <<d, 1>> \in Steps(obs) <=> Reached(d, 1, obs)
      /\ <<d, 2>> \in Steps(obs) <=> Reached(d, 2, obs)
  <2>1. /\ <<d, 1>> \in (DOMAIN Domains) \X (1..2) /\ <<d, 1>>[1] = d /\ <<d, 1>>[2] = 1
        /\ <<d, 2>> \in (DOMAIN Domains) \X (1..2) /\ <<d, 2>>[1] = d /\ <<d, 2>>[2] = 2
    OBVIOUS
  <2> QED
    BY <2>1 DEF Steps
<1>4. \A p : Resolution(p, obs) \in Verdicts
             /\ (p = SemanticDomain => Resolution(p, obs) # "SATISFIED")
  BY ResolutionTyped
<1>5. Reached(d, 1, obs) <=>
         \A p \in HardOf(d) : p # SemanticDomain /\ Resolution(p, obs) # "UNRESOLVED"
  BY DEF Reached
<1>6. Reached(d, 2, obs) <=>
         \E p \in HardOf(d) : p # SemanticDomain /\ Resolution(p, obs) = "CONFLICT"
  BY DEF Reached
<1> QED
  BY <1>2, <1>3, <1>4, <1>5, <1>6 DEF Verdicts

\* What a plan offers depends on the resolutions only by what they release.
LEMMA SameOffer ==
    ASSUME NEW d \in Asked, NEW gov, NEW later, NEW routes,
           \A e \in DOMAIN Domains : Unsatisfied(e, gov) = {} <=> Unsatisfied(e, later) = {}
    PROVE  /\ Candidates(Walk(d), later) = Candidates(Walk(d), gov)
           /\ Targets(Walk(d), later, routes) = Targets(Walk(d), gov, routes)
<1> DEFINE v == Walk(d).visited
           in(g) == {n \in DOMAIN v : Open(v[n], g)}
           at(i) == {[dom |-> v[i], at |-> Domains[v[i]].targets[j], pos |-> <<i, j>>] :
                        j \in DOMAIN Domains[v[i]].targets}
<1>1. in(later) = in(gov)
  <2>1. v \in Seq(DOMAIN Domains)
    BY WalkReaches
  <2> HIDE DEF v
  <2>2. \A n \in DOMAIN v : v[n] \in DOMAIN Domains
    BY <2>1
  <2> QED
    BY <2>2 DEF Open
<1>2. /\ Places(Walk(d), gov) = UNION {at(i) : i \in in(gov)}
      /\ Places(Walk(d), later) = UNION {at(i) : i \in in(later)}
  BY Zenon DEF Places
<1>3. Places(Walk(d), later) = Places(Walk(d), gov)
  <2> HIDE DEF in, at
  <2> QED
    BY <1>1, <1>2
<1>4. Candidates(Walk(d), later) = Candidates(Walk(d), gov)
  BY <1>3, Zenon DEF Candidates
<1> QED
  BY <1>4, Zenon DEF Targets

LEMMA DomainsFinite ==
    IsFiniteSet(DOMAIN Domains) /\ Cardinality(DOMAIN Domains) \in Nat
BY EvidenceAssumption, FS_CardinalityType

\* Two steps for every domain: the rounds are two more.
LEMMA ProgressBounded ==
    ASSUME NEW obs
    PROVE  /\ IsFiniteSet(Steps(obs)) /\ Progress(obs) \in Nat
           /\ Progress(obs) + 2 <= MaxRounds
<1> DEFINE D == DOMAIN Domains
           two == D \X (1..2)
<1>1. /\ IsFiniteSet(two) /\ Cardinality(two) = Cardinality(D) * 2
  <2>1. IsFiniteSet(1..2) /\ Cardinality(1..2) = 2
    <3>1. 1 \in Int /\ 2 \in Int
      OBVIOUS
    <3>2. IsFiniteSet(1..2) /\ Cardinality(1..2) = IF 1 > 2 THEN 0 ELSE 2 - 1 + 1
      BY <3>1, FS_Interval
    <3> QED
      BY <3>2
  <2> QED
    BY <2>1, DomainsFinite, FS_Product
<1>2. Steps(obs) \subseteq two
  BY DEF Steps
<1>3. /\ IsFiniteSet(Steps(obs)) /\ Cardinality(Steps(obs)) <= Cardinality(two)
      /\ Cardinality(Steps(obs)) \in Nat
  <2> HIDE DEF two
  <2> QED
    BY <1>1, <1>2, FS_Subset, FS_CardinalityType
<1>4. Cardinality(D) \in Nat /\ MaxRounds = 2 * Cardinality(D) + 2
  BY DomainsFinite DEF MaxRounds
<1> HIDE DEF D, two
<1> QED
  BY <1>1, <1>3, <1>4 DEF Progress

LEMMA ProgressMonotone ==
    ASSUME NEW obs, NEW later, obs \subseteq later
    PROVE  /\ Progress(obs) <= Progress(later)
           /\ Steps(obs) # Steps(later) => Progress(obs) + 1 <= Progress(later)
<1>1. /\ IsFiniteSet(Steps(later)) /\ Progress(obs) \in Nat /\ Progress(later) \in Nat
  BY ProgressBounded
<1>2. Steps(obs) \subseteq Steps(later)
  BY StepsMonotone
<1>3. /\ Cardinality(Steps(obs)) <= Cardinality(Steps(later))
      /\ Cardinality(Steps(obs)) = Cardinality(Steps(later)) => Steps(obs) = Steps(later)
  BY <1>1, <1>2, FS_Subset
<1>4. Progress(obs) <= Progress(later) /\ (Progress(obs) = Progress(later) => Steps(obs) = Steps(later))
  BY <1>3 DEF Progress
<1> QED
  BY <1>1, <1>4

----------------------------------------------------------------------------
(* The invariant of a domain cycle.                                        *)

RouteStates == {"RESULT", "CURRENTLY_OBSERVED_REACHABLE", "UNAVAILABLE", "UNOBSERVED"}
Outcomes == {"none", "RAISED", "UNRESOLVED", "EXECUTED", "EXECUTED_WITH_UNRESOLVED"}

\* A cycle is a record of these fields.
CycleFields == {"step", "ask", "round", "basis", "todo", "changed", "gov", "routes", "probed",
                "read", "obs", "unresolved", "log", "outcome"}
Fields(c) == c = [x \in CycleFields |-> c[x]]

CycleShape ==
    /\ Fields(cyc)
    /\ cyc.step \in {"idle", "probe", "read", "done"} /\ cyc.ask \in Asked \cup {"none"}
    /\ cyc.round \in 0..MaxRounds /\ cyc.basis \in Nat /\ cyc.changed \in BOOLEAN
    /\ cyc.gov \in [HardDomains -> Verdicts] /\ cyc.routes \in [Routes -> RouteStates]
    /\ cyc.outcome \in Outcomes

\* Items are numbered in the order they were observed in.
Numbered == IsFiniteSet(cyc.obs) /\ \A i \in cyc.obs : i.nth \in 1..Cardinality(cyc.obs)

\* What had been observed when the round began.
Known == {i \in cyc.obs : i.nth <= cyc.basis}

InWalk(d) == d \in ToSet(Walk(cyc.ask).visited) /\ Domains[d].privacy \in Allowed
Touchable(k) == InWalk(k.dom) /\ k.at \in ToSet(Domains[k.dom].targets)

\* What was asked and answered lies in the walk, and an answer that did not
\* come is reported.
Answered ==
    /\ \A k \in cyc.probed \cup cyc.read : Touchable(k)
    /\ \A i \in cyc.obs : InWalk(i.dom)
    /\ \A k \in cyc.probed : \/ cyc.routes[k.at.route] \in {"RESULT", "UNAVAILABLE"}
                             \/ <<"MISSING_ADAPTER", k.at.route>> \in cyc.unresolved
    /\ \A k \in cyc.read : \/ \E i \in cyc.obs : i.dom = k.dom /\ i.at = k.at
                           \/ <<"ABSENT_ITEM", k.dom, k.at>> \in cyc.unresolved

\* A provider was asked under resolutions derived from what was known then.
Released ==
    \A io \in cyc.log :
        /\ io.after \in 0..Cardinality(cyc.obs)
        /\ \A p \in HardOf(io.dom) :
               Resolution(p, {i \in cyc.obs : i.nth <= io.after}) = "SATISFIED"

\* Nothing is left to ask: the round ends as it began.
Quiet ==
    /\ ~cyc.changed /\ cyc.todo = {} /\ Known = cyc.obs
    /\ Targets(Walk(cyc.ask), cyc.gov, cyc.routes) \subseteq cyc.read

\* Every round but the last one makes progress.
Advancing ==
    \/ cyc.round <= Progress(Known) + 1
    \/ cyc.round <= Progress(Known) + 2 /\ Quiet

\* A round plans from what was known at its start and leaves nothing out.
Planned ==
    /\ cyc.ask \in Asked /\ cyc.outcome = "none" /\ cyc.round >= 1
    /\ cyc.basis <= Cardinality(cyc.obs) /\ cyc.gov = Resolutions(Known)
    /\ cyc.todo \subseteq Candidates(Walk(cyc.ask), cyc.gov)
    /\ Candidates(Walk(cyc.ask), cyc.gov) \subseteq
           cyc.probed \cup (IF cyc.step = "probe" THEN cyc.todo ELSE {})
    /\ cyc.step = "read" =>
           Targets(Walk(cyc.ask), cyc.gov, cyc.routes) \subseteq cyc.read \cup cyc.todo

RoundInv == cyc.step \in {"probe", "read"} => Planned /\ Advancing

IdleCycle ==
    cyc.step = "idle" =>
        /\ cyc.probed = {} /\ cyc.read = {} /\ cyc.obs = {} /\ cyc.unresolved = {}
        /\ cyc.log = {} /\ cyc.outcome = "none" /\ cyc.round = 0

CycleInv ==
    /\ CycleShape /\ Numbered /\ Answered /\ Released /\ RoundInv /\ IdleCycle
    /\ ExecutedComplete /\ FixedPointReached

\* Later items change nothing of what was known.
LEMMA KnownStays ==
    ASSUME NEW obs, NEW later, obs \subseteq later, NEW n \in Nat, NEW top \in Nat, n <= top,
           \A i \in later \ obs : i.nth = top + 1
    PROVE  {i \in later : i.nth <= n} = {i \in obs : i.nth <= n}
<1>1. \A i \in later : i.nth <= n => i \in obs
  OBVIOUS
<1> QED
  BY <1>1

\* A provider is asked for a domain that the plan offers.
LEMMA ReleasedKept ==
    ASSUME CycleInv, Planned, NEW k \in Candidates(Walk(cyc.ask), cyc.gov),
           cyc'.log \subseteq cyc.log \cup {[dom |-> k.dom, after |-> cyc.basis]},
           cyc.obs \subseteq cyc'.obs, IsFiniteSet(cyc'.obs),
           \A i \in cyc'.obs \ cyc.obs : i.nth = Cardinality(cyc.obs) + 1
    PROVE  Released'
<1> DEFINE n == Cardinality(cyc.obs)
           m == Cardinality(cyc'.obs)
<1>1. IsFiniteSet(cyc.obs) /\ n \in Nat /\ m \in Nat /\ n <= m
  <2>1. IsFiniteSet(cyc.obs)
    BY DEF CycleInv, Numbered
  <2> QED
    BY <2>1, FS_CardinalityType, FS_Subset
<1>2. cyc.basis \in 0..n
  BY <1>1 DEF Planned, CycleInv, CycleShape
<1>3. \A p \in HardOf(k.dom) : Resolution(p, Known) = "SATISFIED"
  <2>1. Open(k.dom, cyc.gov)
    BY CandidatesAre DEF Planned
  <2> SUFFICES ASSUME NEW p \in HardOf(k.dom) PROVE Resolution(p, Known) = "SATISFIED"
    OBVIOUS
  <2>2. cyc.gov[p] = "SATISFIED" /\ p \in HardDomains
    BY <2>1 DEF Open, Unsatisfied, HardOf
  <2>3. cyc.gov = [x \in HardDomains |-> Resolution(x, Known)]
    BY DEF Planned, Resolutions
  <2> QED
    BY <2>2, <2>3
<1> HIDE DEF n, m
<1>4. \A x \in 0..n : {i \in cyc'.obs : i.nth <= x} = {i \in cyc.obs : i.nth <= x}
  <2> SUFFICES ASSUME NEW x \in 0..n
               PROVE  {i \in cyc'.obs : i.nth <= x} = {i \in cyc.obs : i.nth <= x}
    OBVIOUS
  <2>1. x \in Nat /\ x <= n
    BY <1>1
  <2>2. \A i \in cyc'.obs \ cyc.obs : i.nth = n + 1
    BY DEF n
  <2> QED
    BY <1>1, <2>1, <2>2, KnownStays
<1>5. ASSUME NEW io \in cyc'.log
      PROVE  /\ io.after \in 0..m
             /\ \A p \in HardOf(io.dom) :
                    Resolution(p, {i \in cyc'.obs : i.nth <= io.after}) = "SATISFIED"
  <2>1. CASE io \in cyc.log
    <3>1. /\ io.after \in 0..n
          /\ \A p \in HardOf(io.dom) :
                 Resolution(p, {i \in cyc.obs : i.nth <= io.after}) = "SATISFIED"
      BY <2>1 DEF CycleInv, Released, n
    <3>2. {i \in cyc'.obs : i.nth <= io.after} = {i \in cyc.obs : i.nth <= io.after}
      BY <1>4, <3>1
    <3> QED
      BY <1>1, <3>1, <3>2
  <2>2. CASE io = [dom |-> k.dom, after |-> cyc.basis]
    <3>1. io.dom = k.dom /\ io.after = cyc.basis
      BY <2>2
    <3>2. {i \in cyc'.obs : i.nth <= cyc.basis} = Known
      BY <1>2, <1>4 DEF Known
    <3>3. cyc.basis \in 0..m
      BY <1>1, <1>2
    <3> QED
      BY <1>3, <3>1, <3>2, <3>3
  <2> QED
    BY <2>1, <2>2
<1> QED
  BY <1>5 DEF Released, m

\* The candidate taken is one of those the plan offers.
LEMMA TakenIsOffered ==
    ASSUME CycleInv, cyc.step \in {"probe", "read"}, cyc.todo # {}
    PROVE  LET k == Foremost(cyc.todo)
           IN  /\ k \in cyc.todo /\ k \in Candidates(Walk(cyc.ask), cyc.gov)
               /\ Touchable(k) /\ k.at.route \in Routes /\ Open(k.dom, cyc.gov)
<1>1. cyc.ask \in Asked /\ cyc.todo \subseteq Candidates(Walk(cyc.ask), cyc.gov)
  BY DEF CycleInv, RoundInv, Planned
<1> DEFINE todo == cyc.todo
<1>2. Placed(todo)
  BY <1>1, CandidatesAre DEF Placed
<1>3. Foremost(todo) \in todo
  <2> HIDE DEF todo
  <2>1. todo # {}
    BY DEF todo
  <2> QED
    BY <1>2, <2>1, ForemostIn
<1> QED
  BY <1>1, <1>3, CandidatesAre DEF Touchable, InWalk, Open

\* A check that fails leaves everything else as it was.
LEMMA RaiseInv ==
    ASSUME CycleInv, Raise
    PROVE  CycleInv'
<1>1. CycleShape
  BY DEF CycleInv
<1>2. /\ CycleShape' /\ cyc'.step = "done" /\ cyc'.outcome = "RAISED" /\ cyc'.ask = cyc.ask
      /\ cyc'.obs = cyc.obs /\ cyc'.probed = cyc.probed /\ cyc'.read = cyc.read
      /\ cyc'.routes = cyc.routes /\ cyc'.unresolved = cyc.unresolved /\ cyc'.log = cyc.log
  BY <1>1 DEF CycleShape, Fields, CycleFields, Raise, Outcomes
<1>3. Numbered' /\ Released' /\ FixedPointReached'
  BY <1>2 DEF CycleInv, Numbered, Released, FixedPointReached
<1>4. Answered'
  BY <1>2 DEF CycleInv, Answered, Touchable, InWalk
<1>5. RoundInv' /\ IdleCycle' /\ ExecutedComplete'
  BY <1>2 DEF RoundInv, IdleCycle, ExecutedComplete
<1> QED
  BY <1>2, <1>3, <1>4, <1>5 DEF CycleInv

LEMMA ResolutionsTyped ==
    ASSUME NEW obs
    PROVE  Resolutions(obs) \in [HardDomains -> Verdicts]
BY ResolutionTyped DEF Resolutions

LEMMA RoundsTyped == MaxRounds \in Nat /\ MaxRounds >= 2
BY DomainsFinite DEF MaxRounds

\* The first round starts from what is resolved without evidence.
LEMMA StartInv ==
    ASSUME CycleInv, NEW d \in Asked, CycleStart(d)
    PROVE  CycleInv'
<1>1. CycleShape /\ cyc.step = "idle"
  BY DEF CycleInv, CycleStart
<1>2. /\ cyc.probed = {} /\ cyc.read = {} /\ cyc.obs = {} /\ cyc.unresolved = {}
      /\ cyc.log = {} /\ cyc.outcome = "none" /\ cyc.round = 0
  BY <1>1 DEF CycleInv, IdleCycle
<1> DEFINE G == Resolutions({})
           C == Candidates(Walk(d), G)
<1>3. Cardinality({}) = 0 /\ IsFiniteSet({})
  BY FS_EmptySet
<1>4. /\ Fields(cyc)' /\ cyc'.step = "probe" /\ cyc'.ask = d /\ cyc'.round = 1 /\ cyc'.basis = 0
      /\ cyc'.todo = C /\ cyc'.changed = FALSE /\ cyc'.gov = G /\ cyc'.routes = cyc.routes
      /\ cyc'.probed = {} /\ cyc'.read = {} /\ cyc'.obs = {} /\ cyc'.unresolved = {}
      /\ cyc'.log = {} /\ cyc'.outcome = "none"
  <2> DEFINE c == [cyc EXCEPT !.ask = d, !.step = "probe", !.gov = G]
  <2>1. Fields(cyc)
    BY <1>1 DEF CycleShape
  <2>2. cyc' = Round(c)
    BY DEF CycleStart
  <2> HIDE DEF G
  <2>3. /\ Fields(c) /\ c.step = "probe" /\ c.ask = d /\ c.round = 0 /\ c.gov = G
        /\ c.routes = cyc.routes /\ c.probed = {} /\ c.read = {} /\ c.obs = {}
        /\ c.unresolved = {} /\ c.log = {} /\ c.outcome = "none"
    BY <1>2, <2>1 DEF Fields, CycleFields
  <2> HIDE DEF c
  <2>4. Candidates(Walk(c.ask), c.gov) \ c.probed = C /\ Cardinality(c.obs) = 0
    BY <1>3, <2>3
  <2> HIDE DEF C
  <2>5. cyc' = [c EXCEPT !.round = @ + 1, !.changed = FALSE, !.step = "probe",
                         !.basis = 0, !.todo = C]
    BY <2>2, <2>4 DEF Round
  <2>6. Fields(cyc')
    BY <2>3, <2>5 DEF Fields, CycleFields
  <2>7. /\ cyc'.step = "probe" /\ cyc'.ask = d /\ cyc'.round = 1 /\ cyc'.basis = 0
        /\ cyc'.todo = C /\ cyc'.changed = FALSE /\ cyc'.gov = G /\ cyc'.routes = cyc.routes
    BY <2>3, <2>5 DEF Fields, CycleFields
  <2>8. /\ cyc'.probed = {} /\ cyc'.read = {} /\ cyc'.obs = {} /\ cyc'.unresolved = {}
        /\ cyc'.log = {} /\ cyc'.outcome = "none"
    BY <2>3, <2>5 DEF Fields, CycleFields
  <2> QED
    BY <2>6, <2>7, <2>8
<1>5. G \in [HardDomains -> Verdicts]
  BY ResolutionsTyped
<1> HIDE DEF G, C
<1>7. CycleShape'
  <2>1. cyc.routes \in [Routes -> RouteStates]
    BY <1>1 DEF CycleShape
  <2>2. 1 \in 0..MaxRounds
    BY RoundsTyped
  <2>3. cyc'.gov \in [HardDomains -> Verdicts] /\ cyc'.routes \in [Routes -> RouteStates]
    BY <1>4, <1>5, <2>1
  <2>4. /\ cyc'.step \in {"idle", "probe", "read", "done"} /\ cyc'.ask \in Asked \cup {"none"}
        /\ cyc'.round \in 0..MaxRounds /\ cyc'.basis \in Nat
    BY <1>4, <2>2
  <2>6. cyc'.changed \in BOOLEAN
    BY <1>4, Zenon
  <2>5. cyc'.outcome \in Outcomes
    BY <1>4 DEF Outcomes
  <2> QED
    BY <1>4, <2>3, <2>4, <2>5, <2>6 DEF CycleShape
<1>8. Numbered' /\ Answered' /\ Released' /\ IdleCycle' /\ ExecutedComplete' /\ FixedPointReached'
  BY <1>3, <1>4
     DEF Numbered, Answered, Released, IdleCycle, ExecutedComplete, FixedPointReached
<1>9. Known' = {}
  BY <1>4 DEF Known
<1>10. Planned'
  BY <1>3, <1>4, <1>9 DEF Planned, G, C
<1>11. Advancing'
  <2>1. Progress({}) \in Nat
    BY ProgressBounded
  <2> QED
    BY <1>4, <1>9, <2>1 DEF Advancing
<1> QED
  BY <1>7, <1>8, <1>10, <1>11 DEF CycleInv, RoundInv

\* Reports of different kinds differ in what they name.
LEMMA DifferentLengths ==
    ASSUME NEW a, NEW b, NEW c, NEW d, NEW e, NEW f
    PROVE  <<a>> # <<b, c>> /\ <<a>> # <<d, e, f>>
OBVIOUS

\* What a probe changes, whatever its answer.
ProbeKeeps(k) ==
    /\ Fields(cyc') /\ cyc'.step = "probe" /\ cyc'.ask = cyc.ask /\ cyc'.round = cyc.round
    /\ cyc'.basis = cyc.basis /\ cyc'.gov = cyc.gov /\ cyc'.read = cyc.read /\ cyc'.obs = cyc.obs
    /\ cyc'.outcome = cyc.outcome /\ cyc'.todo = cyc.todo \ {k} /\ cyc'.changed \in BOOLEAN
    /\ cyc'.probed = cyc.probed \cup {k} /\ cyc'.routes \in [Routes -> RouteStates]
    /\ cyc'.log \subseteq cyc.log \cup {[dom |-> k.dom, after |-> cyc.basis]}
    /\ \A r \in Routes \ {k.at.route} : cyc'.routes[r] = cyc.routes[r]
    /\ \/ cyc'.routes[k.at.route] \in {"RESULT", "UNAVAILABLE"}
       \/ <<"MISSING_ADAPTER", k.at.route>> \in cyc'.unresolved
    /\ cyc.unresolved \subseteq cyc'.unresolved
    /\ cyc'.unresolved \subseteq cyc.unresolved \cup {<<"MISSING_ADAPTER", k.at.route>>}

LEMMA ProbeKeepsFields ==
    ASSUME CycleInv, CycleProbe, ~Raise
    PROVE  ProbeKeeps(Foremost(cyc.todo))
<1> DEFINE k == Foremost(cyc.todo)
           asked == [cyc EXCEPT !.todo = @ \ {k}, !.probed = @ \cup {k}, !.changed = TRUE,
                                !.log = @ \cup {[dom |-> k.dom, after |-> cyc.basis]}]
<1>1. CycleShape /\ Fields(cyc) /\ cyc.step = "probe" /\ cyc.todo # {}
      /\ cyc.routes \in [Routes -> RouteStates]
  BY DEF CycleInv, CycleShape, CycleProbe
<1>2. k.at.route \in Routes
  BY <1>1, TakenIsOffered
<1>3. \/ /\ k.at.route \notin Connected
         /\ cyc' = [asked EXCEPT !.log = cyc.log,
                        !.unresolved = @ \cup {<<"MISSING_ADAPTER", k.at.route>>}]
      \/ \E state \in {"RESULT", "UNAVAILABLE"} :
            cyc' = [asked EXCEPT !.routes[k.at.route] = state]
  BY DEF CycleProbe
<1> HIDE DEF k
<1>4. /\ Fields(asked) /\ asked.step = "probe" /\ asked.ask = cyc.ask /\ asked.round = cyc.round
      /\ asked.basis = cyc.basis /\ asked.gov = cyc.gov /\ asked.read = cyc.read
      /\ asked.obs = cyc.obs /\ asked.outcome = cyc.outcome /\ asked.todo = cyc.todo \ {k}
      /\ asked.probed = cyc.probed \cup {k} /\ asked.routes = cyc.routes
      /\ asked.unresolved = cyc.unresolved
      /\ asked.log = cyc.log \cup {[dom |-> k.dom, after |-> cyc.basis]}
  BY <1>1 DEF Fields, CycleFields
<1>5. asked.changed \in BOOLEAN
  BY <1>1, Zenon DEF Fields, CycleFields
<1> HIDE DEF asked
<1>6. ASSUME cyc' = [asked EXCEPT !.log = cyc.log,
                          !.unresolved = @ \cup {<<"MISSING_ADAPTER", k.at.route>>}]
      PROVE  ProbeKeeps(k)
  <2>1. /\ Fields(cyc') /\ cyc'.step = asked.step /\ cyc'.ask = asked.ask
        /\ cyc'.round = asked.round /\ cyc'.basis = asked.basis /\ cyc'.gov = asked.gov
        /\ cyc'.read = asked.read /\ cyc'.obs = asked.obs /\ cyc'.outcome = asked.outcome
        /\ cyc'.todo = asked.todo /\ cyc'.probed = asked.probed /\ cyc'.routes = asked.routes
        /\ cyc'.unresolved = asked.unresolved \cup {<<"MISSING_ADAPTER", k.at.route>>}
        /\ cyc'.log = cyc.log /\ cyc'.changed = asked.changed
    BY <1>4, <1>6 DEF Fields, CycleFields
  <2> QED
    BY <1>1, <1>4, <1>5, <2>1 DEF ProbeKeeps
<1>7. ASSUME \E state \in {"RESULT", "UNAVAILABLE"} :
                cyc' = [asked EXCEPT !.routes[k.at.route] = state]
      PROVE  ProbeKeeps(k)
  <2>1. PICK state \in {"RESULT", "UNAVAILABLE"} :
             cyc' = [asked EXCEPT !.routes[k.at.route] = state]
    BY <1>7
  <2>2. /\ Fields(cyc') /\ cyc'.step = asked.step /\ cyc'.ask = asked.ask
        /\ cyc'.round = asked.round /\ cyc'.basis = asked.basis /\ cyc'.gov = asked.gov
        /\ cyc'.read = asked.read /\ cyc'.obs = asked.obs /\ cyc'.outcome = asked.outcome
        /\ cyc'.todo = asked.todo /\ cyc'.probed = asked.probed
        /\ cyc'.routes = [asked.routes EXCEPT ![k.at.route] = state]
        /\ cyc'.unresolved = asked.unresolved /\ cyc'.log = asked.log
        /\ cyc'.changed = asked.changed
    BY <1>4, <2>1 DEF Fields, CycleFields
  <2>3. /\ cyc'.routes \in [Routes -> RouteStates] /\ cyc'.routes[k.at.route] = state
        /\ \A r \in Routes \ {k.at.route} : cyc'.routes[r] = cyc.routes[r]
    BY <1>1, <1>2, <1>4, <2>2 DEF RouteStates
  <2> QED
    BY <1>1, <1>4, <1>5, <2>2, <2>3 DEF ProbeKeeps
<1> QED
  BY <1>3, <1>6, <1>7 DEF k

\* A probe, whatever its answer.
LEMMA ProbeInv ==
    ASSUME CycleInv, CycleProbe
    PROVE  CycleInv'
<1> DEFINE k == Foremost(cyc.todo)
<1>1. CASE Raise
  BY <1>1, RaiseInv
<1>2. CASE ~Raise
  <2>1. ProbeKeeps(k)
    BY <1>2, ProbeKeepsFields
  <2>2. cyc.step = "probe" /\ cyc.todo # {} /\ Planned /\ Advancing
    BY DEF CycleInv, RoundInv, CycleProbe
  <2>3. /\ k \in cyc.todo /\ k \in Candidates(Walk(cyc.ask), cyc.gov)
        /\ Touchable(k) /\ k.at.route \in Routes
    BY <2>2, TakenIsOffered
  <2> HIDE DEF k
  <2>4. CycleShape'
    BY <2>1 DEF ProbeKeeps, CycleInv, CycleShape
  <2>5. Numbered' /\ IdleCycle' /\ ExecutedComplete'
    <3>1. cyc'.outcome = "none"
      BY <2>1, <2>2 DEF ProbeKeeps, Planned
    <3> QED
      BY <2>1, <3>1 DEF ProbeKeeps, CycleInv, Numbered, IdleCycle, ExecutedComplete
  <2>6. Answered'
    <3>1. \A d : InWalk(d)' <=> InWalk(d)
      BY <2>1 DEF ProbeKeeps, InWalk
    <3>2. \A x \in (cyc.probed \cup cyc.read)' : Touchable(x)'
      BY <2>1, <2>3, <3>1 DEF ProbeKeeps, CycleInv, Answered, Touchable
    <3>3. ASSUME NEW x \in cyc'.probed
          PROVE  \/ cyc'.routes[x.at.route] \in {"RESULT", "UNAVAILABLE"}
                 \/ <<"MISSING_ADAPTER", x.at.route>> \in cyc'.unresolved
      <4>1. CASE x.at.route = k.at.route
        BY <2>1, <4>1 DEF ProbeKeeps
      <4>2. CASE x.at.route # k.at.route
        <5>1. x \in cyc.probed
          BY <2>1, <3>3, <4>2 DEF ProbeKeeps
        <5>2. x.at.route \in Routes
          <6>1. x.at \in ToSet(Domains[x.dom].targets) /\ x.dom \in ToSet(Walk(cyc.ask).visited)
            BY <5>1 DEF CycleInv, Answered, Touchable, InWalk
          <6>2. x.dom \in DOMAIN Domains
            <7> DEFINE v == Walk(cyc.ask).visited
            <7>1. v \in Seq(DOMAIN Domains)
              BY <2>2, WalkReaches DEF Planned
            <7> HIDE DEF v
            <7>2. \A d \in ToSet(v) : d \in DOMAIN Domains
              BY <7>1 DEF ToSet
            <7> QED
              BY <6>1, <7>2 DEF v
          <6> QED
            BY <6>1, <6>2 DEF Routes
        <5>3. \/ cyc.routes[x.at.route] \in {"RESULT", "UNAVAILABLE"}
              \/ <<"MISSING_ADAPTER", x.at.route>> \in cyc.unresolved
          BY <5>1 DEF CycleInv, Answered
        <5>4. cyc'.routes[x.at.route] = cyc.routes[x.at.route]
          BY <2>1, <4>2, <5>2 DEF ProbeKeeps
        <5> QED
          BY <2>1, <5>3, <5>4 DEF ProbeKeeps
      <4> QED
        BY <4>1, <4>2
    <3>4. /\ \A i \in cyc'.obs : InWalk(i.dom)'
          /\ \A x \in cyc'.read : \/ \E i \in cyc'.obs : i.dom = x.dom /\ i.at = x.at
                                  \/ <<"ABSENT_ITEM", x.dom, x.at>> \in cyc'.unresolved
      BY <2>1, <3>1 DEF ProbeKeeps, CycleInv, Answered
    <3> QED
      BY <3>2, <3>3, <3>4 DEF Answered
  <2>7. Released'
    <3>1. IsFiniteSet(cyc'.obs) /\ cyc.obs \subseteq cyc'.obs /\ cyc'.obs \ cyc.obs = {}
      BY <2>1 DEF ProbeKeeps, CycleInv, Numbered
    <3>2. cyc'.log \subseteq cyc.log \cup {[dom |-> k.dom, after |-> cyc.basis]}
      BY <2>1 DEF ProbeKeeps
    <3> QED
      BY <2>2, <2>3, <3>1, <3>2, ReleasedKept
  <2>8. FixedPointReached'
    <3>1. <<"FIXED_POINT_EXHAUSTED">> # <<"MISSING_ADAPTER", k.at.route>>
      BY DifferentLengths
    <3> QED
      BY <2>1, <3>1 DEF ProbeKeeps, CycleInv, FixedPointReached
  <2>9. Known' = Known
    BY <2>1 DEF ProbeKeeps, Known
  <2>10. Planned'
    BY <2>1, <2>2, <2>9 DEF ProbeKeeps, Planned
  <2>11. Advancing'
    BY <2>1, <2>2, <2>9 DEF ProbeKeeps, Advancing, Quiet
  <2> QED
    BY <2>4, <2>5, <2>6, <2>7, <2>8, <2>10, <2>11 DEF CycleInv, RoundInv
<1> QED
  BY <1>1, <1>2

\* The reads of a round follow its probes.
LEMMA PlanReadsInv ==
    ASSUME CycleInv, CyclePlanReads
    PROVE  CycleInv'
<1> DEFINE T == Targets(Walk(cyc.ask), cyc.gov, cyc.routes)
<1>1. /\ CycleShape /\ Fields(cyc) /\ cyc.step = "probe" /\ cyc.todo = {} /\ Planned /\ Advancing
  BY DEF CycleInv, CycleShape, RoundInv, CyclePlanReads
<1>2. cyc' = [cyc EXCEPT !.step = "read", !.todo = T \ cyc.read]
  BY DEF CyclePlanReads
<1>3. T \subseteq Candidates(Walk(cyc.ask), cyc.gov)
  BY DEF Targets
<1> HIDE DEF T
<1>4. /\ Fields(cyc') /\ cyc'.step = "read" /\ cyc'.todo = T \ cyc.read /\ cyc'.ask = cyc.ask
      /\ cyc'.round = cyc.round /\ cyc'.basis = cyc.basis /\ cyc'.gov = cyc.gov
      /\ cyc'.read = cyc.read /\ cyc'.obs = cyc.obs /\ cyc'.outcome = cyc.outcome
      /\ cyc'.changed = cyc.changed /\ cyc'.probed = cyc.probed /\ cyc'.routes = cyc.routes
      /\ cyc'.unresolved = cyc.unresolved /\ cyc'.log = cyc.log
  BY <1>1, <1>2 DEF Fields, CycleFields
<1>5. CycleShape'
  BY <1>1, <1>4 DEF CycleShape
<1>6. Numbered' /\ IdleCycle' /\ ExecutedComplete' /\ Released' /\ FixedPointReached'
  <2>1. cyc'.outcome = "none"
    BY <1>1, <1>4 DEF Planned
  <2> QED
    BY <1>4, <2>1
       DEF CycleInv, Numbered, IdleCycle, ExecutedComplete, Released, FixedPointReached
<1>7. Answered'
  BY <1>4 DEF CycleInv, Answered, Touchable, InWalk
<1>8. Known' = Known
  BY <1>4 DEF Known
<1>9. T' = T
  BY <1>4 DEF T
<1>10. Planned'
  BY <1>1, <1>3, <1>4, <1>8, <1>9 DEF Planned, T
<1>11. Advancing'
  <2>1. CASE cyc.round <= Progress(Known) + 1
    BY <1>4, <1>8, <2>1 DEF Advancing
  <2>2. CASE cyc.round <= Progress(Known) + 2 /\ Quiet
    <3>1. T \subseteq cyc.read /\ Known = cyc.obs /\ ~cyc.changed
      BY <2>2 DEF Quiet, T
    <3>2. Quiet'
      BY <1>4, <1>8, <1>9, <3>1 DEF Quiet, T
    <3> QED
      BY <1>4, <1>8, <2>2, <3>2 DEF Advancing
  <2> QED
    BY <1>1, <2>1, <2>2 DEF Advancing
<1> QED
  BY <1>5, <1>6, <1>7, <1>10, <1>11 DEF CycleInv, RoundInv

\* What a read changes, whatever it returns.
ReadKeeps(k) ==
    /\ Fields(cyc') /\ cyc'.step = "read" /\ cyc'.ask = cyc.ask /\ cyc'.round = cyc.round
    /\ cyc'.basis = cyc.basis /\ cyc'.gov = cyc.gov /\ cyc'.probed = cyc.probed
    /\ cyc'.routes = cyc.routes /\ cyc'.outcome = cyc.outcome /\ cyc'.todo = cyc.todo \ {k}
    /\ cyc'.changed \in BOOLEAN /\ cyc'.read = cyc.read \cup {k}
    /\ cyc'.log = cyc.log \cup {[dom |-> k.dom, after |-> cyc.basis]}
    /\ \/ /\ cyc'.unresolved = cyc.unresolved
          /\ \E i : /\ cyc'.obs = cyc.obs \cup {i} /\ i.dom = k.dom /\ i.at = k.at
                    /\ i.nth = Cardinality(cyc.obs) + 1
       \/ /\ cyc'.obs = cyc.obs
          /\ cyc'.unresolved = cyc.unresolved \cup {<<"ABSENT_ITEM", k.dom, k.at>>}

LEMMA ReadKeepsFields ==
    ASSUME CycleInv, CycleRead, ~Raise
    PROVE  ReadKeeps(Foremost(cyc.todo))
<1> DEFINE k == Foremost(cyc.todo)
           asked == [cyc EXCEPT !.todo = @ \ {k}, !.read = @ \cup {k}, !.changed = TRUE,
                                !.log = @ \cup {[dom |-> k.dom, after |-> cyc.basis]}]
           item(i) == [dom |-> k.dom, at |-> k.at, class |-> i.class, bound |-> i.bound,
                       current |-> i.current, conflict |-> i.conflict,
                       coherent |-> i.coherent, nth |-> Cardinality(cyc.obs) + 1]
<1>1. CycleShape /\ Fields(cyc) /\ cyc.step = "read" /\ cyc.todo # {}
  BY DEF CycleInv, CycleShape, CycleRead
<1>2. \/ \E i \in Returned(k.dom) : cyc' = [asked EXCEPT !.obs = @ \cup {item(i)}]
      \/ cyc' = [asked EXCEPT !.unresolved = @ \cup {<<"ABSENT_ITEM", k.dom, k.at>>}]
  BY DEF CycleRead
<1>3. \A i : /\ item(i).dom = k.dom /\ item(i).at = k.at
             /\ item(i).nth = Cardinality(cyc.obs) + 1
  OBVIOUS
<1> HIDE DEF k, item
<1>4. /\ Fields(asked) /\ asked.step = "read" /\ asked.ask = cyc.ask /\ asked.round = cyc.round
      /\ asked.basis = cyc.basis /\ asked.gov = cyc.gov /\ asked.read = cyc.read \cup {k}
      /\ asked.obs = cyc.obs /\ asked.outcome = cyc.outcome /\ asked.todo = cyc.todo \ {k}
      /\ asked.probed = cyc.probed /\ asked.routes = cyc.routes
      /\ asked.unresolved = cyc.unresolved
      /\ asked.log = cyc.log \cup {[dom |-> k.dom, after |-> cyc.basis]}
  BY <1>1 DEF Fields, CycleFields
<1>5. asked.changed \in BOOLEAN
  BY <1>1, Zenon DEF Fields, CycleFields
<1> HIDE DEF asked
<1>6. ASSUME \E i \in Returned(k.dom) : cyc' = [asked EXCEPT !.obs = @ \cup {item(i)}]
      PROVE  ReadKeeps(k)
  <2>1. PICK i \in Returned(k.dom) : cyc' = [asked EXCEPT !.obs = @ \cup {item(i)}]
    BY <1>6
  <2>2. /\ Fields(cyc') /\ cyc'.step = asked.step /\ cyc'.ask = asked.ask
        /\ cyc'.round = asked.round /\ cyc'.basis = asked.basis /\ cyc'.gov = asked.gov
        /\ cyc'.read = asked.read /\ cyc'.obs = asked.obs \cup {item(i)}
        /\ cyc'.outcome = asked.outcome /\ cyc'.todo = asked.todo
        /\ cyc'.probed = asked.probed /\ cyc'.routes = asked.routes
        /\ cyc'.unresolved = asked.unresolved /\ cyc'.log = asked.log
        /\ cyc'.changed = asked.changed
    BY <1>4, <2>1 DEF Fields, CycleFields
  <2> QED
    BY <1>1, <1>3, <1>4, <1>5, <2>2 DEF ReadKeeps
<1>7. ASSUME cyc' = [asked EXCEPT !.unresolved = @ \cup {<<"ABSENT_ITEM", k.dom, k.at>>}]
      PROVE  ReadKeeps(k)
  <2>1. /\ Fields(cyc') /\ cyc'.step = asked.step /\ cyc'.ask = asked.ask
        /\ cyc'.round = asked.round /\ cyc'.basis = asked.basis /\ cyc'.gov = asked.gov
        /\ cyc'.read = asked.read /\ cyc'.obs = asked.obs
        /\ cyc'.outcome = asked.outcome /\ cyc'.todo = asked.todo
        /\ cyc'.probed = asked.probed /\ cyc'.routes = asked.routes
        /\ cyc'.unresolved = asked.unresolved \cup {<<"ABSENT_ITEM", k.dom, k.at>>}
        /\ cyc'.log = asked.log /\ cyc'.changed = asked.changed
    BY <1>4, <1>7 DEF Fields, CycleFields
  <2> QED
    BY <1>1, <1>4, <1>5, <2>1 DEF ReadKeeps
<1> QED
  BY <1>2, <1>6, <1>7 DEF k

\* A read, whatever it returns.
LEMMA ReadInv ==
    ASSUME CycleInv, CycleRead
    PROVE  CycleInv'
<1> DEFINE k == Foremost(cyc.todo)
           n == Cardinality(cyc.obs)
<1>1. CASE Raise
  BY <1>1, RaiseInv
<1>2. CASE ~Raise
  <2>1. ReadKeeps(k)
    BY <1>2, ReadKeepsFields
  <2>2. cyc.step = "read" /\ cyc.todo # {} /\ Planned /\ Advancing /\ CycleShape
    BY DEF CycleInv, RoundInv, CycleRead
  <2>3. /\ k \in cyc.todo /\ k \in Candidates(Walk(cyc.ask), cyc.gov) /\ Touchable(k)
    BY <2>2, TakenIsOffered
  <2> HIDE DEF k
  <2>4. CycleShape'
    BY <2>1, <2>2 DEF ReadKeeps, CycleShape
  <2>5. /\ IsFiniteSet(cyc.obs) /\ n \in Nat /\ IsFiniteSet(cyc'.obs)
        /\ cyc.obs \subseteq cyc'.obs /\ \A i \in cyc'.obs \ cyc.obs : i.nth = n + 1
        /\ Cardinality(cyc'.obs) \in Nat /\ n <= Cardinality(cyc'.obs)
        /\ cyc'.obs # cyc.obs => Cardinality(cyc'.obs) = n + 1
    <3>1. IsFiniteSet(cyc.obs) /\ n \in Nat /\ \A i \in cyc.obs : i.nth \in 1..n
      BY FS_CardinalityType DEF CycleInv, Numbered
    <3>2. CASE cyc'.obs = cyc.obs
      BY <3>1, <3>2
    <3>3. CASE cyc'.obs # cyc.obs
      <4>1. PICK i : cyc'.obs = cyc.obs \cup {i} /\ i.nth = n + 1
        BY <2>1, <3>3 DEF ReadKeeps
      <4>2. /\ IsFiniteSet(cyc'.obs)
            /\ Cardinality(cyc'.obs) = IF i \in cyc.obs THEN n ELSE n + 1
        <5> DEFINE more == cyc.obs \cup {i}
        <5>1. /\ IsFiniteSet(more)
              /\ Cardinality(more) = IF i \in cyc.obs THEN Cardinality(cyc.obs)
                                     ELSE Cardinality(cyc.obs) + 1
          BY <3>1, FS_AddElement
        <5>2. cyc'.obs = more
          BY <4>1
        <5> HIDE DEF more
        <5> QED
          BY <5>1, <5>2
      <4>3. i \notin cyc.obs
        BY <3>1, <4>1
      <4> HIDE DEF n
      <4>4. Cardinality(cyc'.obs) = n + 1
        BY <4>2, <4>3
      <4>5. cyc.obs \subseteq cyc'.obs /\ \A x \in cyc'.obs \ cyc.obs : x.nth = n + 1
        BY <4>1
      <4> QED
        BY <3>1, <4>2, <4>4, <4>5
    <3> QED
      BY <3>2, <3>3
  <2>6. Numbered'
    <3>1. \A i \in cyc.obs : i.nth \in 1..n
      BY DEF CycleInv, Numbered
    <3> HIDE DEF n
    <3>2. \A i \in cyc'.obs : i.nth \in 1..Cardinality(cyc'.obs)
      BY <2>5, <3>1
    <3> QED
      BY <2>5, <3>2 DEF Numbered
  <2>7. IdleCycle' /\ ExecutedComplete'
    <3>1. cyc'.outcome = "none" /\ cyc'.step = "read"
      BY <2>1, <2>2 DEF ReadKeeps, Planned
    <3> QED
      BY <3>1 DEF IdleCycle, ExecutedComplete
  <2>8. Answered'
    <3>1. \A d : InWalk(d)' <=> InWalk(d)
      BY <2>1 DEF ReadKeeps, InWalk
    <3>2. InWalk(k.dom)
      BY <2>3 DEF Touchable
    <3>3. \A x \in (cyc.probed \cup cyc.read)' : Touchable(x)'
      BY <2>1, <2>3, <3>1 DEF ReadKeeps, CycleInv, Answered, Touchable
    <3>4. \A i \in cyc'.obs : InWalk(i.dom)'
      <4>1. \A i \in cyc'.obs : i \in cyc.obs \/ i.dom = k.dom
        BY <2>1 DEF ReadKeeps
      <4>2. \A i \in cyc.obs : InWalk(i.dom)
        BY DEF CycleInv, Answered
      <4> QED
        BY <3>1, <3>2, <4>1, <4>2
    <3>5. cyc.unresolved \subseteq cyc'.unresolved
      BY <2>1 DEF ReadKeeps
    <3>6. \A x \in cyc'.probed : \/ cyc'.routes[x.at.route] \in {"RESULT", "UNAVAILABLE"}
                                 \/ <<"MISSING_ADAPTER", x.at.route>> \in cyc'.unresolved
      BY <2>1, <3>5 DEF ReadKeeps, CycleInv, Answered
    <3>7. ASSUME NEW x \in cyc'.read
          PROVE  \/ \E i \in cyc'.obs : i.dom = x.dom /\ i.at = x.at
                 \/ <<"ABSENT_ITEM", x.dom, x.at>> \in cyc'.unresolved
      <4>1. CASE x = k
        BY <2>1, <4>1 DEF ReadKeeps
      <4>2. CASE x \in cyc.read
        BY <2>5, <3>5, <4>2 DEF CycleInv, Answered
      <4> QED
        BY <2>1, <4>1, <4>2 DEF ReadKeeps
    <3> QED
      BY <3>3, <3>4, <3>6, <3>7 DEF Answered
  <2>9. Released'
    <3>1. cyc'.log \subseteq cyc.log \cup {[dom |-> k.dom, after |-> cyc.basis]}
      BY <2>1 DEF ReadKeeps
    <3> QED
      BY <2>2, <2>3, <2>5, <3>1, ReleasedKept
  <2>10. FixedPointReached'
    <3>1. <<"FIXED_POINT_EXHAUSTED">> # <<"ABSENT_ITEM", k.dom, k.at>>
      BY DifferentLengths
    <3> QED
      BY <2>1, <3>1 DEF ReadKeeps, CycleInv, FixedPointReached
  <2>11. Known' = Known
    <3>1. cyc.basis \in Nat /\ cyc.basis <= n
      BY <2>2 DEF Planned, CycleShape
    <3> HIDE DEF n
    <3>2. {i \in cyc'.obs : i.nth <= cyc.basis} = {i \in cyc.obs : i.nth <= cyc.basis}
      BY <2>5, <3>1, KnownStays
    <3> QED
      BY <2>1, <3>2 DEF ReadKeeps, Known
  <2>12. Planned'
    <3>1. cyc'.basis <= Cardinality(cyc'.obs)
      <4>1. cyc'.basis = cyc.basis /\ cyc.basis \in Nat /\ cyc.basis <= n
        BY <2>1, <2>2 DEF ReadKeeps, Planned, CycleShape
      <4> HIDE DEF n
      <4> QED
        BY <2>5, <4>1
    <3> QED
      BY <2>1, <2>2, <2>11, <3>1 DEF ReadKeeps, Planned
  <2>13. Advancing'
    BY <2>1, <2>2, <2>11 DEF ReadKeeps, Advancing, Quiet
  <2> QED
    BY <2>4, <2>6, <2>7, <2>8, <2>9, <2>10, <2>12, <2>13 DEF CycleInv, RoundInv
<1> QED
  BY <1>1, <1>2

\* What a plan without unresolved items has dealt with.
LEMMA NothingUnresolved ==
    ASSUME NEW d \in Asked, NEW gov, NEW routes, Unresolved(Walk(d), gov, routes) = {}
    PROVE  /\ d \in ToSet(Walk(d).visited)
           /\ \A e \in ToSet(Walk(d).visited) : Open(e, gov)
           /\ Candidates(Walk(d), gov) \subseteq Targets(Walk(d), gov, routes)
<1> DEFINE W == Walk(d)
           U == Unresolved(W, gov, routes)
           met == ToSet(W.visited)
<1>1. \A x \in W.unresolved : x \in U
  BY DEF Unresolved
<1>2. \A e \in met : Domains[e].privacy \notin Allowed => <<"PRIVACY", e>> \in U
  BY DEF Unresolved
<1>3. \A e \in met : Domains[e].privacy \in Allowed =>
         \A p \in Unsatisfied(e, gov) : <<"HARD_PREREQUISITE_UNRESOLVED", e, p>> \in U
  <2> SUFFICES ASSUME NEW e \in met, Domains[e].privacy \in Allowed, NEW p \in Unsatisfied(e, gov)
               PROVE  <<"HARD_PREREQUISITE_UNRESOLVED", e, p>> \in U
    OBVIOUS
  <2> QED
    BY DEF Unresolved
<1>4. \A k \in Candidates(W, gov) \ Targets(W, gov, routes) :
         <<"ROUTE_NOT_CURRENTLY_OBSERVED_REACHABLE", k.dom, k.at.route>> \in U
  BY DEF Unresolved
<1>5. U = {}
  OBVIOUS
<1>6. d \in met
  <2>1. W.unresolved = {}
    <3> HIDE DEF U
    <3> QED
      BY <1>1, <1>5
  <2> QED
    BY <2>1, WalkReaches
<1> HIDE DEF U, met, W
<1>7. \A e \in met : Open(e, gov)
  BY <1>2, <1>3, <1>5 DEF Open
<1>8. Candidates(W, gov) \subseteq Targets(W, gov, routes)
  BY <1>4, <1>5
<1> QED
  BY <1>6, <1>7, <1>8 DEF met, W

\* At the fixed point, with nothing unresolved, nothing is missing.
LEMMA CompleteAtFixedPoint ==
    ASSUME CycleInv, Planned, cyc.step = "read", cyc.todo = {},
           cyc.gov = Resolutions(cyc.obs), cyc.unresolved = {},
           Unresolved(Walk(cyc.ask), cyc.gov, cyc.routes) = {}
    PROVE  /\ OwnTarget(cyc.ask) => cyc.ask \in {i.dom : i \in cyc.obs}
           /\ \A i \in cyc.obs : \A p \in HardOf(i.dom) : Settled(p, cyc.obs)
           /\ \A k \in cyc.probed : cyc.routes[k.at.route] = "RESULT"
           /\ \A k \in cyc.read : \E i \in cyc.obs : i.dom = k.dom /\ i.at = k.at
<1> DEFINE d == cyc.ask
           C == Candidates(Walk(d), cyc.gov)
<1>1. /\ d \in Asked /\ d \in ToSet(Walk(d).visited)
      /\ \A e \in ToSet(Walk(d).visited) : Open(e, cyc.gov)
      /\ C \subseteq Targets(Walk(d), cyc.gov, cyc.routes)
  BY NothingUnresolved DEF Planned
<1>2. \A k \in C : k \in cyc.read /\ cyc.routes[k.at.route] \in Retrievable
  BY <1>1 DEF Planned, Targets
<1>3. \A k \in cyc.read : \E i \in cyc.obs : i.dom = k.dom /\ i.at = k.at
  BY DEF CycleInv, Answered
<1>4. ASSUME OwnTarget(d) PROVE d \in {i.dom : i \in cyc.obs}
  <2>1. PICK t \in ToSet(Domains[d].targets) :
            \A e \in DOMAIN Domains \ {d} : t \notin ToSet(Domains[e].targets)
    BY <1>4 DEF OwnTarget
  <2>2. PICK k \in C : k.at = t
    <3>1. Open(d, cyc.gov)
      BY <1>1
    <3> HIDE DEF d
    <3> QED
      BY <1>1, <3>1, CandidateFor DEF C
  <2>3. k.dom \in DOMAIN Domains /\ k.at \in ToSet(Domains[k.dom].targets)
    BY <1>1, CandidatesAre
  <2>4. k.dom = d
    BY <2>1, <2>2, <2>3
  <2> HIDE DEF C
  <2>5. PICK i \in cyc.obs : i.dom = k.dom
    BY <1>2, <1>3
  <2> QED
    BY <2>4, <2>5
<1>5. ASSUME NEW i \in cyc.obs, NEW p \in HardOf(i.dom) PROVE Settled(p, cyc.obs)
  <2>1. Open(i.dom, cyc.gov)
    BY <1>1 DEF CycleInv, Answered, InWalk
  <2>2. p \in HardDomains /\ cyc.gov[p] = "SATISFIED"
    BY <2>1 DEF Open, Unsatisfied, HardOf
  <2>3. Resolution(p, cyc.obs) = "SATISFIED"
    BY <2>2 DEF Resolutions
  <2> QED
    BY <2>3, SatisfiedSettled
<1>6. ASSUME NEW k \in cyc.probed PROVE cyc.routes[k.at.route] = "RESULT"
  <2>1. /\ k.dom \in ToSet(Walk(d).visited) /\ k.at \in ToSet(Domains[k.dom].targets)
        /\ cyc.routes[k.at.route] \in {"RESULT", "UNAVAILABLE"}
    BY DEF CycleInv, Answered, Touchable, InWalk
  <2>2. PICK l \in C : l.at = k.at
    <3>1. Open(k.dom, cyc.gov)
      BY <1>1, <2>1
    <3> HIDE DEF d
    <3> QED
      BY <1>1, <2>1, <3>1, CandidateFor DEF C
  <2>3. cyc.routes[k.at.route] \in Retrievable
    BY <1>2, <2>2
  <2> QED
    BY <2>1, <2>3 DEF Retrievable
<1> QED
  BY <1>3, <1>4, <1>5, <1>6

\* A plan never reports the rounds as used up.
LEMMA UnresolvedKinds ==
    ASSUME NEW d \in Asked, NEW gov, NEW routes
    PROVE  <<"FIXED_POINT_EXHAUSTED">> \notin Unresolved(Walk(d), gov, routes)
<1> DEFINE W == Walk(d)
           x == <<"FIXED_POINT_EXHAUSTED">>
<1> SUFFICES ASSUME x \in Unresolved(W, gov, routes) PROVE FALSE
  OBVIOUS
<1>1. \/ x \in W.unresolved
      \/ \E e : x = <<"PRIVACY", e>>
      \/ \E e, p : x = <<"HARD_PREREQUISITE_UNRESOLVED", e, p>>
      \/ \E k : x = <<"ROUTE_NOT_CURRENTLY_OBSERVED_REACHABLE", k.dom, k.at.route>>
  <2> HIDE DEF W, x
  <2> QED
    BY DEF Unresolved
<1>2. x \notin W.unresolved
  <2>1. W.unresolved \subseteq {"BUDGET_EXHAUSTED", "UNKNOWN_DEPENDENCY"} \X Names
    BY WalkReaches
  <2>2. x \notin {"BUDGET_EXHAUSTED", "UNKNOWN_DEPENDENCY"} \X Names
    OBVIOUS
  <2> QED
    BY <2>1, <2>2
<1>3. \A e : x # <<"PRIVACY", e>>
  BY DifferentLengths
<1>4. \A e, p : x # <<"HARD_PREREQUISITE_UNRESOLVED", e, p>>
  BY DifferentLengths
<1>5. \A k : x # <<"ROUTE_NOT_CURRENTLY_OBSERVED_REACHABLE", k.dom, k.at.route>>
  BY DifferentLengths
<1> HIDE DEF x
<1> QED
  BY <1>1, <1>2, <1>3, <1>4, <1>5

\* The conclusion: with nothing unresolved, all that was asked is complete.
LEMMA ConcludedInv ==
    ASSUME CycleInv, Planned, cyc.step = "read", cyc.todo = {},
           cyc.gov = Resolutions(cyc.obs), cyc' = Concluded(cyc)
    PROVE  CycleInv'
<1> DEFINE G == cyc.gov
           U == cyc.unresolved \cup Unresolved(Walk(cyc.ask), G, cyc.routes)
           O == IF cyc.obs = {} THEN "UNRESOLVED"
                ELSE IF U = {} /\ Walk(cyc.ask).within THEN "EXECUTED"
                ELSE "EXECUTED_WITH_UNRESOLVED"
<1>1. CycleShape /\ Fields(cyc)
  BY DEF CycleInv, CycleShape
<1>2. /\ Fields(cyc') /\ cyc'.step = "done" /\ cyc'.unresolved = U /\ cyc'.outcome = O
      /\ cyc'.ask = cyc.ask /\ cyc'.round = cyc.round /\ cyc'.basis = cyc.basis
      /\ cyc'.gov = G /\ cyc'.routes = cyc.routes /\ cyc'.probed = cyc.probed
      /\ cyc'.read = cyc.read /\ cyc'.obs = cyc.obs /\ cyc'.log = cyc.log
      /\ cyc'.changed = cyc.changed
  <2>1. cyc' = [cyc EXCEPT !.step = "done", !.unresolved = U, !.outcome = O]
    BY DEF Concluded
  <2> HIDE DEF U, O
  <2> QED
    BY <1>1, <2>1 DEF Fields, CycleFields
<1>3. O \in Outcomes /\ (O = "EXECUTED" => U = {})
  <2> HIDE DEF U
  <2> QED
    BY DEF Outcomes
<1> HIDE DEF U, O, G
<1>5. CycleShape'
  BY <1>1, <1>2, <1>3 DEF CycleShape, G
<1>6. Numbered' /\ Released' /\ RoundInv' /\ IdleCycle'
  BY <1>2 DEF CycleInv, Numbered, Released, RoundInv, IdleCycle
<1>7. Answered'
  <2>1. cyc.unresolved \subseteq cyc'.unresolved
    BY <1>2 DEF U
  <2> QED
    BY <1>2, <2>1 DEF CycleInv, Answered, Touchable, InWalk
<1>8. FixedPointReached'
  <2>1. <<"FIXED_POINT_EXHAUSTED">> \notin U
    BY UnresolvedKinds DEF CycleInv, FixedPointReached, Planned, U
  <2> QED
    BY <1>2, <2>1 DEF FixedPointReached
<1>9. ExecutedComplete'
  <2>1. ASSUME O = "EXECUTED"
        PROVE  /\ OwnTarget(cyc.ask) => cyc.ask \in {i.dom : i \in cyc.obs}
               /\ \A i \in cyc.obs : \A p \in HardOf(i.dom) : Settled(p, cyc.obs)
               /\ \A k \in cyc.probed : cyc.routes[k.at.route] = "RESULT"
               /\ \A k \in cyc.read : \E i \in cyc.obs : i.dom = k.dom /\ i.at = k.at
    <3>1. U = {}
      BY <1>3, <2>1
    <3>2. cyc.unresolved = {} /\ Unresolved(Walk(cyc.ask), G, cyc.routes) = {}
      BY <3>1 DEF U
    <3> QED
      BY <3>2, CompleteAtFixedPoint DEF G
  <2> QED
    BY <1>2, <2>1 DEF ExecutedComplete
<1> QED
  BY <1>5, <1>6, <1>7, <1>8, <1>9 DEF CycleInv

\* Another round follows only while resolutions change, or to see that the last
\* one changed nothing.
LEMMA RoundEndInv ==
    ASSUME CycleInv, CycleRoundEnd
    PROVE  CycleInv'
<1> DEFINE G == Resolutions(cyc.obs)
           next == [cyc EXCEPT !.gov = G]
           W == Walk(cyc.ask)
<1>1. /\ CycleShape /\ Fields(cyc) /\ cyc.step = "read" /\ cyc.todo = {} /\ Planned /\ Advancing
  BY DEF CycleInv, CycleShape, RoundInv, CycleRoundEnd
<1>2. cyc' = IF ~cyc.changed /\ G = cyc.gov THEN Concluded(next)
             ELSE IF cyc.round = MaxRounds
             THEN Concluded([next EXCEPT !.unresolved = @ \cup {<<"FIXED_POINT_EXHAUSTED">>}])
             ELSE Round(next)
  BY DEF CycleRoundEnd
<1>3. Quiet => ~cyc.changed /\ G = cyc.gov
  BY <1>1 DEF Quiet, Planned
<1>4. Known \subseteq cyc.obs /\ cyc.gov = Resolutions(Known)
  BY <1>1 DEF Known, Planned
<1>5. /\ Progress(Known) \in Nat /\ Progress(cyc.obs) \in Nat /\ Progress(Known) + 2 <= MaxRounds
      /\ Progress(Known) <= Progress(cyc.obs)
      /\ Steps(Known) # Steps(cyc.obs) => Progress(Known) + 1 <= Progress(cyc.obs)
  BY <1>4, ProgressMonotone, ProgressBounded
<1>6. cyc.round \in Nat /\ MaxRounds \in Nat /\ cyc.round <= MaxRounds
  BY <1>1, RoundsTyped DEF CycleShape
<1>7. CASE ~cyc.changed /\ G = cyc.gov
  <2>1. next = cyc
    BY <1>1, <1>7 DEF Fields, CycleFields
  <2> QED
    BY <1>1, <1>2, <1>7, <2>1, ConcludedInv
<1>8. ASSUME ~(~cyc.changed /\ G = cyc.gov)
      PROVE  cyc.round # MaxRounds /\ cyc.round <= Progress(Known) + 1
  <2>1. cyc.round <= Progress(Known) + 1
    BY <1>1, <1>3, <1>8 DEF Advancing
  <2> QED
    BY <1>5, <1>6, <1>8, <2>1
<1>9. CASE ~(~cyc.changed /\ G = cyc.gov)
  <2>1. cyc.round # MaxRounds /\ cyc.round <= Progress(Known) + 1
    BY <1>8, <1>9
  <2>2. cyc.round + 1 \in 0..MaxRounds
    BY <1>6, <2>1
  <2>3. cyc' = Round(next)
    BY <1>2, <1>9, <2>1
  <2> DEFINE n == Cardinality(cyc.obs)
             C == Candidates(W, G) \ cyc.probed
  <2>4. /\ Fields(cyc') /\ cyc'.step = "probe" /\ cyc'.ask = cyc.ask
        /\ cyc'.round = cyc.round + 1 /\ cyc'.basis = n /\ cyc'.todo = C
        /\ cyc'.gov = G /\ cyc'.routes = cyc.routes /\ cyc'.probed = cyc.probed
        /\ cyc'.read = cyc.read /\ cyc'.obs = cyc.obs /\ cyc'.unresolved = cyc.unresolved
        /\ cyc'.log = cyc.log /\ cyc'.outcome = cyc.outcome /\ cyc'.changed = FALSE
    <3> HIDE DEF G
    <3>1. /\ Fields(next) /\ next.ask = cyc.ask /\ next.round = cyc.round /\ next.gov = G
          /\ next.routes = cyc.routes /\ next.probed = cyc.probed /\ next.read = cyc.read
          /\ next.obs = cyc.obs /\ next.unresolved = cyc.unresolved /\ next.log = cyc.log
          /\ next.outcome = cyc.outcome
      BY <1>1 DEF Fields, CycleFields
    <3> HIDE DEF next
    <3>2. Candidates(Walk(next.ask), next.gov) \ next.probed = C /\ Cardinality(next.obs) = n
      BY <3>1
    <3> HIDE DEF C, n
    <3>3. cyc' = [next EXCEPT !.round = @ + 1, !.changed = FALSE, !.step = "probe",
                              !.basis = n, !.todo = C]
      BY <2>3, <3>2 DEF Round
    <3>4. Fields(cyc')
      BY <3>1, <3>3 DEF Fields, CycleFields
    <3>5. /\ cyc'.step = "probe" /\ cyc'.ask = cyc.ask
          /\ cyc'.round = cyc.round + 1 /\ cyc'.basis = n /\ cyc'.todo = C
          /\ cyc'.gov = G /\ cyc'.routes = cyc.routes /\ cyc'.changed = FALSE
      BY <3>1, <3>3 DEF Fields, CycleFields
    <3>6. /\ cyc'.probed = cyc.probed
          /\ cyc'.read = cyc.read /\ cyc'.obs = cyc.obs /\ cyc'.unresolved = cyc.unresolved
          /\ cyc'.log = cyc.log /\ cyc'.outcome = cyc.outcome
      BY <3>1, <3>3 DEF Fields, CycleFields
    <3> QED
      BY <3>4, <3>5, <3>6
  <2>5. n \in Nat /\ IsFiniteSet(cyc.obs) /\ \A i \in cyc.obs : i.nth \in 1..n
    BY FS_CardinalityType DEF CycleInv, Numbered
  <2>6. G \in [HardDomains -> Verdicts]
    BY ResolutionsTyped
  <2> HIDE DEF G, C, n
  <2>7. CycleShape'
    <3>1. cyc'.changed \in BOOLEAN
      BY <2>4, Zenon
    <3> QED
      BY <1>1, <2>2, <2>4, <2>5, <2>6, <3>1 DEF CycleShape
  <2>8. Numbered' /\ IdleCycle' /\ ExecutedComplete' /\ Released' /\ FixedPointReached'
    <3>1. cyc'.outcome = "none"
      BY <1>1, <2>4 DEF Planned
    <3> QED
      BY <2>4, <3>1
         DEF CycleInv, Numbered, IdleCycle, ExecutedComplete, Released, FixedPointReached
  <2>9. Answered'
    BY <2>4 DEF CycleInv, Answered, Touchable, InWalk
  <2>10. Known' = cyc.obs
    <3>1. \A i \in cyc.obs : i.nth <= n
      BY <2>5
    <3> QED
      BY <2>4, <3>1 DEF Known
  <2>11. Planned'
    <3>1. cyc'.round >= 1 /\ cyc'.basis <= Cardinality(cyc'.obs)
      BY <1>6, <2>4, <2>5 DEF n
    <3>2. cyc'.gov = Resolutions(Known')
      BY <2>4, <2>10 DEF G
    <3>3. C = Candidates(W, G) \ cyc.probed
      BY DEF C
    <3> QED
      BY <1>1, <2>4, <3>1, <3>2, <3>3 DEF Planned
  <2>12. Advancing'
    <3>1. CASE Steps(Known) # Steps(cyc.obs)
      <4>1. cyc.round + 1 <= Progress(cyc.obs) + 1
        BY <1>5, <1>6, <2>1, <3>1
      <4> QED
        BY <2>4, <2>10, <4>1 DEF Advancing
    <3>2. CASE Steps(Known) = Steps(cyc.obs)
      <4>1. cyc.round + 1 <= Progress(cyc.obs) + 2
        BY <1>5, <1>6, <2>1
      <4>2. \A e \in DOMAIN Domains : Unsatisfied(e, cyc.gov) = {} <=> Unsatisfied(e, G) = {}
        BY <1>4, <3>2, ReleasedBetween DEF G
      <4>3. /\ Candidates(W, G) = Candidates(W, cyc.gov)
            /\ Targets(W, G, cyc.routes) = Targets(W, cyc.gov, cyc.routes)
        <5>1. cyc.ask \in Asked
          BY <1>1 DEF Planned
        <5> QED
          BY <4>2, <5>1, SameOffer
      <4>4. Candidates(W, G) \subseteq cyc.probed /\ Targets(W, G, cyc.routes) \subseteq cyc.read
        BY <1>1, <4>3 DEF Planned
      <4>5. Quiet'
        BY <2>4, <2>10, <4>4 DEF Quiet, C
      <4> QED
        BY <2>4, <2>10, <4>1, <4>5 DEF Advancing
    <3> QED
      BY <3>1, <3>2
  <2> QED
    BY <2>7, <2>8, <2>9, <2>11, <2>12 DEF CycleInv, RoundInv
<1> QED
  BY <1>7, <1>9

----------------------------------------------------------------------------
(* The invariant of a projection cycle.                                    *)

ItemFields == {"rev", "of", "event", "digest", "conflict", "marked", "read"}
ProjectionFields == {"step", "mode", "source", "target", "status", "supplied", "own"}
ProjectionSteps ==
    {"idle", "source probe", "source read", "target probe", "target read", "done"}
ProjectionStatus ==
    {"none", "VERIFIED_EXACT", "STALE_PROJECTION", "CONFLICT", "ABSENT", "UNAVAILABLE",
     "UNRESOLVED", "NOT_APPLICABLE", "RAISED"}

Item(i) == i = [f \in ItemFields |-> i[f]]

\* A projection as it is stored, of this event or of another one.
StoredShape(i) ==
    /\ Item(i) /\ i.rev \in Nat /\ i.conflict \in ConflictStates
    /\ i.digest \in {<<>>, <<0>>, <<i.rev>>}

\* The source as it was read.
SourceShape(s) ==
    /\ Item(s) /\ s.rev \in Nat /\ s.conflict \in ConflictStates
    /\ s.digest \in {<<>>, <<s.rev>>}

\* The target, if it was read at all: proved to be of this event.
TargetShape(t) == Item(t) /\ t.of = "this" /\ (t = NoItem \/ StoredShape(t))

OutsideShape ==
    /\ outside = [f \in {"rev", "stored"} |-> outside[f]] /\ outside.rev \in 1..MaxRevision
    /\ outside.stored = {} \/ \E i \in outside.stored : outside.stored = {i} /\ StoredShape(i)

ProjectionShape ==
    /\ prj = [f \in ProjectionFields |-> prj[f]] /\ prj.step \in ProjectionSteps
    /\ prj.status \in ProjectionStatus /\ prj.supplied \in ProjectionStatus
    /\ SourceShape(prj.source) /\ TargetShape(prj.target)
    /\ prj.step # "done" => prj.status = "none" /\ prj.supplied = "none"

ProjectionInv == OutsideShape /\ ProjectionShape /\ ProjectionVerified

LEMMA NoItemShape ==
    /\ Item(NoItem) /\ SourceShape(NoItem) /\ TargetShape(NoItem) /\ NoItem.of = "this"
<1>1. Item(NoItem)
  BY DEF Item, ItemFields, NoItem
<1>2. /\ NoItem.of = "this" /\ NoItem.rev = 0 /\ NoItem.conflict = "NONE" /\ NoItem.digest = <<>>
  BY DEF NoItem
<1> QED
  BY <1>1, <1>2 DEF SourceShape, TargetShape, ConflictStates

\* Exactly verified means qualified for the event, of the same revision, and,
\* where contents are compared, without conflict and of the same content.
LEMMA AuditExact ==
    ASSUME NEW mode, NEW s, NEW t, NEW event, Audit(mode, s, t, event) = "VERIFIED_EXACT"
    PROVE  /\ s # NoItem /\ t # NoItem /\ Qualified(s, t, event) /\ t.rev = s.rev
           /\ mode # "SEMANTIC_COMPANION" =>
                /\ {s.conflict, t.conflict} \cap {"CONFLICT", "UNKNOWN"} = {}
                /\ s.digest = <<>> \/ t.digest = <<>> \/ t.digest = s.digest
           /\ mode = "EXACT_RECEIPT" => s.digest # <<>> /\ t.digest = s.digest
<1> DEFINE verdict == CASE mode = "EXACT_REVISION" -> ReconcileExact(s, t)
                        [] mode = "EXACT_RECEIPT" -> ReconcileReceipt(s, t)
                        [] mode = "SEMANTIC_COMPANION" -> ReconcileCompanion(s, t)
                        [] OTHER -> "UNRESOLVED"
<1>1. /\ s # NoItem /\ t # NoItem
      /\ verdict = "VERIFIED_EXACT" /\ Qualified(s, t, event)
  <2>1. Audit(mode, s, t, event) =
          IF s = NoItem \/ t = NoItem THEN "ABSENT"
          ELSE IF verdict = "VERIFIED_EXACT" /\ ~Qualified(s, t, event)
          THEN "UNRESOLVED" ELSE verdict
    BY DEF Audit
  <2> HIDE DEF verdict
  <2> QED
    BY <2>1
<1>2. \/ mode = "EXACT_REVISION" /\ ReconcileExact(s, t) = "VERIFIED_EXACT"
      \/ mode = "EXACT_RECEIPT" /\ ReconcileReceipt(s, t) = "VERIFIED_EXACT"
      \/ mode = "SEMANTIC_COMPANION" /\ ReconcileCompanion(s, t) = "VERIFIED_EXACT"
  BY <1>1
<1>3. Conflicted(s, t) = "none" => {s.conflict, t.conflict} \cap {"CONFLICT", "UNKNOWN"} = {}
  BY DEF Conflicted
<1>4. Conflicted(s, t) \in {"CONFLICT", "UNRESOLVED", "none"}
  BY DEF Conflicted
<1>5. ReconcileExact(s, t) = "VERIFIED_EXACT" =>
         /\ Conflicted(s, t) = "none" /\ t.rev = s.rev
         /\ s.digest = <<>> \/ t.digest = <<>> \/ t.digest = s.digest
  BY <1>4 DEF ReconcileExact
<1>6. ReconcileReceipt(s, t) = "VERIFIED_EXACT" =>
         /\ Conflicted(s, t) = "none" /\ t.rev = s.rev /\ s.digest # <<>>
         /\ t.digest = s.digest
  BY <1>4 DEF ReconcileReceipt
<1>7. ReconcileCompanion(s, t) = "VERIFIED_EXACT" => t.rev = s.rev
  BY DEF ReconcileCompanion
<1> HIDE DEF verdict
<1> QED
  BY <1>1, <1>2, <1>3, <1>5, <1>6, <1>7

LEMMA AuditTyped ==
    ASSUME NEW mode, NEW s, NEW t, NEW event
    PROVE  Audit(mode, s, t, event) \in ProjectionStatus
<1>1. Conflicted(s, t) \in {"CONFLICT", "UNRESOLVED", "none"}
  BY DEF Conflicted
<1>2. ReconcileExact(s, t) \in ProjectionStatus
  BY <1>1 DEF ReconcileExact, ProjectionStatus
<1>3. ReconcileReceipt(s, t) \in ProjectionStatus
  BY <1>1 DEF ReconcileReceipt, ProjectionStatus
<1>4. ReconcileCompanion(s, t) \in ProjectionStatus
  BY DEF ReconcileCompanion, ProjectionStatus
<1> DEFINE verdict == CASE mode = "EXACT_REVISION" -> ReconcileExact(s, t)
                        [] mode = "EXACT_RECEIPT" -> ReconcileReceipt(s, t)
                        [] mode = "SEMANTIC_COMPANION" -> ReconcileCompanion(s, t)
                        [] OTHER -> "UNRESOLVED"
<1>5. verdict \in ProjectionStatus
  <2>1. "UNRESOLVED" \in ProjectionStatus
    BY DEF ProjectionStatus
  <2> QED
    BY <1>2, <1>3, <1>4, <2>1
<1>6. Audit(mode, s, t, event) =
          IF s = NoItem \/ t = NoItem THEN "ABSENT"
          ELSE IF verdict = "VERIFIED_EXACT" /\ ~Qualified(s, t, event)
          THEN "UNRESOLVED" ELSE verdict
  BY DEF Audit
<1> HIDE DEF verdict
<1> QED
  BY <1>5, <1>6 DEF ProjectionStatus

\* A step that ends the cycle without verifying anything.
LEMMA EndsUnverified ==
    ASSUME ProjectionInv, prj.step # "done", UNCHANGED outside,
           NEW status \in ProjectionStatus \ {"VERIFIED_EXACT"},
           NEW source, SourceShape(source), NEW target, TargetShape(target),
           prj' = [PrjResult(status) EXCEPT !.source = source, !.target = target]
    PROVE  ProjectionInv'
<1>1. /\ prj' = [f \in ProjectionFields |-> prj'[f]] /\ prj'.step = "done"
      /\ prj'.status = status /\ prj'.supplied = "none"
      /\ prj'.source = source /\ prj'.target = target
  BY DEF ProjectionInv, ProjectionShape, PrjResult, ProjectionFields
<1>2. OutsideShape'
  BY DEF ProjectionInv, OutsideShape
<1>3. ProjectionShape'
  BY <1>1 DEF ProjectionShape, ProjectionSteps, ProjectionStatus
<1>4. ProjectionVerified'
  BY <1>1 DEF ProjectionVerified
<1> QED
  BY <1>2, <1>3, <1>4 DEF ProjectionInv

LEMMA PrjResultPlain ==
    ASSUME ProjectionInv, prj.step # "done", UNCHANGED outside,
           NEW status \in ProjectionStatus \ {"VERIFIED_EXACT"}, prj' = PrjResult(status)
    PROVE  ProjectionInv'
<1>1. prj' = [PrjResult(status) EXCEPT !.source = prj.source, !.target = prj.target]
  BY DEF ProjectionInv, ProjectionShape, PrjResult, ProjectionFields
<1>2. SourceShape(prj.source) /\ TargetShape(prj.target)
  BY DEF ProjectionInv, ProjectionShape
<1> QED
  BY <1>1, <1>2, EndsUnverified

\* A step on the way.
LEMMA GoesOn ==
    ASSUME ProjectionInv, prj.step # "done", UNCHANGED outside,
           NEW step \in ProjectionSteps \ {"done"}, NEW mode, NEW source, SourceShape(source),
           prj' = [prj EXCEPT !.step = step, !.mode = mode, !.source = source]
    PROVE  ProjectionInv'
<1>1. /\ prj' = [f \in ProjectionFields |-> prj'[f]] /\ prj'.step = step
      /\ prj'.status = "none" /\ prj'.supplied = "none"
      /\ prj'.source = source /\ prj'.target = prj.target
  BY DEF ProjectionInv, ProjectionShape, ProjectionFields
<1>2. OutsideShape'
  BY DEF ProjectionInv, OutsideShape
<1>3. ProjectionShape'
  BY <1>1 DEF ProjectionInv, ProjectionShape, ProjectionSteps, ProjectionStatus
<1>4. ProjectionVerified'
  BY <1>1 DEF ProjectionVerified
<1> QED
  BY <1>2, <1>3, <1>4 DEF ProjectionInv

LEMMA PrjStartInv ==
    ASSUME ProjectionInv, NEW mode, PrjStart(mode)
    PROVE  ProjectionInv'
<1>1. prj.step # "done" /\ UNCHANGED outside /\ SourceShape(prj.source)
  BY DEF PrjStart, ProjectionInv, ProjectionShape
<1>2. CASE prj' = [prj EXCEPT !.step = "source probe", !.mode = mode]
  <2>1. prj' = [prj EXCEPT !.step = "source probe", !.mode = mode, !.source = prj.source]
    BY <1>2 DEF ProjectionInv, ProjectionShape, ProjectionFields
  <2>2. "source probe" \in ProjectionSteps \ {"done"}
    BY DEF ProjectionSteps
  <2> QED
    BY <1>1, <2>1, <2>2, GoesOn
<1>3. CASE prj' \in {PrjResult("NOT_APPLICABLE"), PrjResult("UNRESOLVED")}
  <2>1. {"NOT_APPLICABLE", "UNRESOLVED"} \subseteq ProjectionStatus \ {"VERIFIED_EXACT"}
    BY DEF ProjectionStatus
  <2> QED
    BY <1>1, <1>3, <2>1, PrjResultPlain
<1> QED
  BY <1>2, <1>3 DEF PrjStart

LEMMA PrjProbeInv ==
    ASSUME ProjectionInv, PrjProbeSource \/ PrjProbeTarget
    PROVE  ProjectionInv'
<1>1. PICK here \in {"source probe", "target probe"}, next \in {"source read", "target read"} :
         PrjProbe(here, next)
  BY DEF PrjProbeSource, PrjProbeTarget
<1>2. prj.step # "done" /\ UNCHANGED outside /\ SourceShape(prj.source)
  BY <1>1 DEF PrjProbe, ProjectionInv, ProjectionShape
<1>3. CASE prj' = [prj EXCEPT !.step = next]
  <2>1. prj' = [prj EXCEPT !.step = next, !.mode = prj.mode, !.source = prj.source]
    BY <1>3 DEF ProjectionInv, ProjectionShape, ProjectionFields
  <2>2. next \in ProjectionSteps \ {"done"}
    BY DEF ProjectionSteps
  <2> QED
    BY <1>2, <2>1, <2>2, GoesOn
<1>4. CASE prj' \in {PrjResult("UNRESOLVED"), PrjResult("UNAVAILABLE")}
  <2>1. {"UNAVAILABLE", "UNRESOLVED"} \subseteq ProjectionStatus \ {"VERIFIED_EXACT"}
    BY DEF ProjectionStatus
  <2> QED
    BY <1>2, <1>4, <2>1, PrjResultPlain
<1> QED
  BY <1>1, <1>3, <1>4 DEF PrjProbe

LEMMA BindingIssues ==
    ASSUME NEW i
    PROVE  BindingIssue(i) \in {"UNRESOLVED", "CONFLICT", "none"}
BY DEF BindingIssue

LEMMA PrjReadSourceInv ==
    ASSUME ProjectionInv, PrjReadSource
    PROVE  ProjectionInv'
<1>1. prj.step # "done" /\ UNCHANGED outside /\ SourceShape(prj.source) /\ TargetShape(prj.target)
  BY DEF PrjReadSource, ProjectionInv, ProjectionShape
<1>2. CASE prj' = PrjResult("ABSENT") \/ prj' = PrjResult("RAISED")
  <2>1. {"ABSENT", "RAISED"} \subseteq ProjectionStatus \ {"VERIFIED_EXACT"}
    BY DEF ProjectionStatus
  <2> QED
    BY <1>1, <1>2, <2>1, PrjResultPlain
<1>3. CASE \E event \in {"this", "other", "none"}, conflict \in ConflictStates,
               exposed \in BOOLEAN :
            LET s == [NoItem EXCEPT !.rev = outside.rev, !.event = event, !.conflict = conflict,
                         !.digest = IF exposed THEN <<outside.rev>> ELSE <<>>, !.read = TRUE]
            IN  prj' = IF BindingIssue(s) # "none"
                       THEN [PrjResult(BindingIssue(s)) EXCEPT !.source = s]
                       ELSE [prj EXCEPT !.step = "target probe", !.source = s]
  <2>0. PICK event \in {"this", "other", "none"}, conflict \in ConflictStates,
             exposed \in BOOLEAN :
            LET s == [NoItem EXCEPT !.rev = outside.rev, !.event = event, !.conflict = conflict,
                         !.digest = IF exposed THEN <<outside.rev>> ELSE <<>>, !.read = TRUE]
            IN  prj' = IF BindingIssue(s) # "none"
                       THEN [PrjResult(BindingIssue(s)) EXCEPT !.source = s]
                       ELSE [prj EXCEPT !.step = "target probe", !.source = s]
    BY <1>3, Zenon
  <2> DEFINE s == [NoItem EXCEPT !.rev = outside.rev, !.event = event, !.conflict = conflict,
                       !.digest = IF exposed THEN <<outside.rev>> ELSE <<>>, !.read = TRUE]
  <2>1. outside.rev \in Nat
    BY DEF ProjectionInv, OutsideShape
  <2>2. SourceShape(s)
    <3>1. Item(s) /\ s.rev = outside.rev /\ s.conflict = conflict
          /\ s.digest = IF exposed THEN <<outside.rev>> ELSE <<>>
      BY DEF Item, ItemFields, NoItem
    <3> HIDE DEF s
    <3> QED
      BY <2>1, <3>1 DEF SourceShape
  <2>3. prj' = IF BindingIssue(s) # "none"
               THEN [PrjResult(BindingIssue(s)) EXCEPT !.source = s]
               ELSE [prj EXCEPT !.step = "target probe", !.source = s]
    BY <2>0
  <2> HIDE DEF s
  <2>4. CASE BindingIssue(s) # "none"
    <3>1. BindingIssue(s) \in ProjectionStatus \ {"VERIFIED_EXACT"}
      BY <2>4, BindingIssues DEF ProjectionStatus
    <3> DEFINE b == BindingIssue(s)
    <3>2. prj' = [PrjResult(b) EXCEPT !.source = s]
      BY <2>3, <2>4
    <3> HIDE DEF b
    <3>3. prj' = [PrjResult(b) EXCEPT !.source = s, !.target = prj.target]
      BY <3>2 DEF ProjectionInv, ProjectionShape, PrjResult, ProjectionFields
    <3> QED
      BY <1>1, <2>2, <3>1, <3>3, EndsUnverified DEF b
  <2>5. CASE BindingIssue(s) = "none"
    <3>1. prj' = [prj EXCEPT !.step = "target probe", !.mode = prj.mode, !.source = s]
      BY <2>3, <2>5 DEF ProjectionInv, ProjectionShape, ProjectionFields
    <3>2. "target probe" \in ProjectionSteps \ {"done"}
      BY DEF ProjectionSteps
    <3> QED
      BY <1>1, <2>2, <3>1, <3>2, GoesOn
  <2> QED
    BY <2>4, <2>5
<1> QED
  BY <1>2, <1>3 DEF PrjReadSource

\* What is verified was read as an intact projection of the revision that was
\* read before.
LEMMA PrjReadTargetInv ==
    ASSUME ProjectionInv, PrjReadTarget
    PROVE  ProjectionInv'
<1>1. prj.step # "done" /\ UNCHANGED outside /\ SourceShape(prj.source) /\ TargetShape(prj.target)
      /\ prj.supplied = "none"
  BY DEF PrjReadTarget, ProjectionInv, ProjectionShape
<1>2. PICK t \in {NoItem} \cup {[i EXCEPT !.read = TRUE] : i \in outside.stored} :
         prj' = IF ~Typed(t) THEN PrjResult("RAISED")
                ELSE IF t # NoItem /\ BindingIssue(t) # "none"
                THEN [PrjResult(BindingIssue(t)) EXCEPT !.target = t]
                ELSE [PrjResult(Audit(prj.mode, prj.source, t, "this")) EXCEPT !.target = t]
  BY DEF PrjReadTarget
<1>3. t = NoItem \/ StoredShape(t)
  <2> SUFFICES ASSUME t # NoItem PROVE StoredShape(t)
    OBVIOUS
  <2>1. PICK i \in outside.stored : t = [i EXCEPT !.read = TRUE]
    BY <1>2
  <2>2. StoredShape(i)
    BY DEF ProjectionInv, OutsideShape
  <2> QED
    BY <2>1, <2>2 DEF StoredShape, Item, ItemFields
<1>4. CASE ~Typed(t)
  <2>1. "RAISED" \in ProjectionStatus \ {"VERIFIED_EXACT"}
    BY DEF ProjectionStatus
  <2> QED
    BY <1>1, <1>2, <1>4, <2>1, PrjResultPlain
<1>5. CASE Typed(t)
  <2>1. TargetShape(t)
    BY <1>3, <1>5, NoItemShape DEF TargetShape, Typed, StoredShape
  <2>2. ASSUME NEW status \in ProjectionStatus \ {"VERIFIED_EXACT"},
               prj' = [PrjResult(status) EXCEPT !.target = t]
        PROVE  ProjectionInv'
    <3>1. prj' = [PrjResult(status) EXCEPT !.source = prj.source, !.target = t]
      BY <2>2 DEF ProjectionInv, ProjectionShape, PrjResult, ProjectionFields
    <3> QED
      BY <1>1, <2>1, <3>1, EndsUnverified
  <2>3. CASE t # NoItem /\ BindingIssue(t) # "none"
    <3>1. BindingIssue(t) \in ProjectionStatus \ {"VERIFIED_EXACT"}
      BY <2>3, BindingIssues DEF ProjectionStatus
    <3> QED
      BY <1>2, <1>5, <2>2, <2>3, <3>1
  <2>4. CASE ~(t # NoItem /\ BindingIssue(t) # "none")
    <3> DEFINE a == Audit(prj.mode, prj.source, t, "this")
    <3>1. prj' = [PrjResult(a) EXCEPT !.target = t] /\ a \in ProjectionStatus
      BY <1>2, <1>5, <2>4, AuditTyped
    <3>2. a = "VERIFIED_EXACT" =>
             /\ t # NoItem /\ t.rev = prj.source.rev
             /\ prj.mode # "SEMANTIC_COMPANION" =>
                  /\ {prj.source.conflict, t.conflict} \cap {"CONFLICT", "UNKNOWN"} = {}
                  /\ prj.source.digest = <<>> \/ t.digest = <<>> \/ t.digest = prj.source.digest
             /\ prj.mode = "EXACT_RECEIPT" => prj.source.digest # <<>> /\ t.digest = prj.source.digest
      BY AuditExact
    <3> HIDE DEF a
    <3>3. CASE a = "VERIFIED_EXACT"
      <4>1. /\ prj' = [f \in ProjectionFields |-> prj'[f]] /\ prj'.step = "done"
            /\ prj'.status = a /\ prj'.supplied = "none" /\ prj'.mode = prj.mode
            /\ prj'.source = prj.source /\ prj'.target = t
        BY <1>1, <3>1 DEF ProjectionInv, ProjectionShape, PrjResult, ProjectionFields
      <4>2. OutsideShape'
        BY <1>1 DEF ProjectionInv, OutsideShape
      <4>3. ProjectionShape'
        BY <1>1, <2>1, <3>1, <4>1 DEF ProjectionShape, ProjectionSteps, ProjectionStatus
      <4>4. StoredShape(t) /\ t.of = "this" /\ t.rev = prj.source.rev
        BY <1>3, <2>1, <3>2, <3>3 DEF TargetShape
      <4>5. prj.mode # "SEMANTIC_COMPANION" =>
               /\ prj.source.conflict = "NONE" /\ t.conflict = "NONE"
               /\ prj.source.digest = <<>> \/ t.digest = <<>> \/ t.digest = <<prj.source.rev>>
        <5>1. prj.source.conflict \in ConflictStates /\ t.conflict \in ConflictStates
          BY <1>1, <4>4 DEF SourceShape, StoredShape
        <5>2. prj.source.digest \in {<<>>, <<prj.source.rev>>}
          BY <1>1 DEF SourceShape
        <5> QED
          BY <3>2, <3>3, <5>1, <5>2 DEF ConflictStates
      <4>7. prj.mode = "EXACT_RECEIPT" => t.digest = <<prj.source.rev>>
        BY <1>1, <3>2, <3>3 DEF SourceShape
      <4>6. ProjectionVerified'
        BY <4>1, <4>4, <4>5, <4>7 DEF ProjectionVerified
      <4> QED
        BY <4>2, <4>3, <4>6 DEF ProjectionInv
    <3>4. CASE a # "VERIFIED_EXACT"
      BY <2>2, <3>1, <3>4
    <3> QED
      BY <3>3, <3>4
  <2> QED
    BY <2>3, <2>4
<1> QED
  BY <1>4, <1>5

\* Copies do not qualify.
LEMMA AuditSuppliedInv ==
    ASSUME ProjectionInv, AuditSupplied
    PROVE  ProjectionInv'
<1>1. /\ prj.step = "done" /\ UNCHANGED outside /\ ProjectionShape /\ ProjectionVerified
  BY DEF AuditSupplied, ProjectionInv
<1> DEFINE held(i, copied, event) ==
             IF copied THEN [i EXCEPT !.read = FALSE, !.event = event] ELSE i
<1>2. PICK event \in {"this", "other"} : \E copied \in BOOLEAN :
         LET s == IF prj.source = NoItem THEN NoItem ELSE held(prj.source, copied, event)
             t == IF prj.target = NoItem THEN NoItem ELSE held(prj.target, copied, event)
         IN  prj' = [prj EXCEPT !.supplied = Audit(prj.mode, s, t, event),
                                !.own = ~copied /\ event = "this"]
  BY DEF AuditSupplied
<1>3. PICK copied \in BOOLEAN :
         LET s == IF prj.source = NoItem THEN NoItem ELSE held(prj.source, copied, event)
             t == IF prj.target = NoItem THEN NoItem ELSE held(prj.target, copied, event)
         IN  prj' = [prj EXCEPT !.supplied = Audit(prj.mode, s, t, event),
                                !.own = ~copied /\ event = "this"]
  BY <1>2
<1> DEFINE s == IF prj.source = NoItem THEN NoItem ELSE held(prj.source, copied, event)
           t == IF prj.target = NoItem THEN NoItem ELSE held(prj.target, copied, event)
           a == Audit(prj.mode, s, t, event)
           own == ~copied /\ event = "this"
<1>4. prj' = [prj EXCEPT !.supplied = a, !.own = own]
  BY <1>3
<1>5. a \in ProjectionStatus
  BY AuditTyped
<1>6. a = "VERIFIED_EXACT" => own /\ prj.target.of = "this" /\ prj.target.rev = prj.source.rev
  <2> SUFFICES ASSUME a = "VERIFIED_EXACT"
               PROVE  own /\ prj.target.of = "this" /\ prj.target.rev = prj.source.rev
    OBVIOUS
  <2>1. s # NoItem /\ t # NoItem /\ s.read /\ t.read /\ event = "this" /\ t.rev = s.rev
    <3> HIDE DEF s, t
    <3> QED
      BY AuditExact DEF Qualified
  <2>2. s = held(prj.source, copied, event) /\ t = held(prj.target, copied, event)
    BY <2>1
  <2>3. ~copied
    <3> SUFFICES ASSUME copied PROVE FALSE
      OBVIOUS
    <3>1. s = [prj.source EXCEPT !.read = FALSE, !.event = event]
      BY <2>2
    <3>2. Item(prj.source)
      BY <1>1 DEF ProjectionShape, SourceShape
    <3> DEFINE p == prj.source
    <3> HIDE DEF s, p
    <3>3. s.read = FALSE
      BY <3>1, <3>2 DEF Item, ItemFields, p
    <3> QED
      BY <2>1, <3>3
  <2>4. s = prj.source /\ t = prj.target
    BY <2>2, <2>3
  <2>5. prj.target.of = "this"
    BY <1>1 DEF ProjectionShape, TargetShape
  <2> HIDE DEF s, t
  <2> QED
    BY <2>1, <2>3, <2>4, <2>5
<1> HIDE DEF s, t, a, own
<1>7. /\ prj' = [f \in ProjectionFields |-> prj'[f]] /\ prj'.step = "done"
      /\ prj'.status = prj.status /\ prj'.supplied = a /\ prj'.mode = prj.mode
      /\ prj'.source = prj.source /\ prj'.target = prj.target
  BY <1>1, <1>4 DEF ProjectionShape, ProjectionFields
<1>8. prj'.own = own
  BY <1>1, <1>4, Zenon DEF ProjectionShape, ProjectionFields
<1>9. OutsideShape'
  BY <1>1 DEF ProjectionInv, OutsideShape
<1>10. ProjectionShape'
  BY <1>1, <1>5, <1>7 DEF ProjectionShape
<1>11. a = "VERIFIED_EXACT" => prj'.own
  BY <1>6, <1>8, Zenon
<1>12. ProjectionVerified'
  BY <1>1, <1>6, <1>7, <1>11 DEF ProjectionVerified
<1> QED
  BY <1>9, <1>10, <1>12 DEF ProjectionInv

LEMMA OutsideInv ==
    ASSUME ProjectionInv, SourceAdvances \/ TargetStored
    PROVE  ProjectionInv'
<1>1. UNCHANGED prj
  BY DEF SourceAdvances, TargetStored
<1>2. OutsideShape /\ MaxRevision \in Nat
  BY EvidenceAssumption DEF ProjectionInv
<1>3. CASE SourceAdvances
  <2>1. /\ outside' = [f \in {"rev", "stored"} |-> outside'[f]]
        /\ outside'.rev = outside.rev + 1 /\ outside'.stored = outside.stored
    BY <1>2, <1>3 DEF SourceAdvances, OutsideShape
  <2>2. outside.rev + 1 \in 1..MaxRevision
    <3>1. outside.rev < MaxRevision
      BY <1>3 DEF SourceAdvances
    <3>2. outside.rev \in 1..MaxRevision
      BY <1>2 DEF OutsideShape
    <3> QED
      BY <1>2, <3>1, <3>2
  <2>3. OutsideShape'
    BY <1>2, <2>1, <2>2 DEF OutsideShape
  <2> QED
    BY <1>1, <2>3 DEF ProjectionInv, ProjectionShape, ProjectionVerified
<1>4. CASE TargetStored
  <2>1. PICK r \in 1..outside.rev, of \in {"this", "other"}, event \in {"this", "other", "none"},
             conflict \in ConflictStates, marked \in BOOLEAN :
          \E digest \in {<<>>, <<0>>, <<r>>} :
            outside' = [outside EXCEPT !.stored =
               {[NoItem EXCEPT !.rev = r, !.of = of, !.event = event, !.conflict = conflict,
                               !.marked = marked, !.digest = digest]}]
    BY <1>4, Zenon DEF TargetStored
  <2>2. PICK digest \in {<<>>, <<0>>, <<r>>} :
            outside' = [outside EXCEPT !.stored =
               {[NoItem EXCEPT !.rev = r, !.of = of, !.event = event, !.conflict = conflict,
                               !.marked = marked, !.digest = digest]}]
    BY <2>1, Zenon
  <2> DEFINE i == [NoItem EXCEPT !.rev = r, !.of = of, !.event = event, !.conflict = conflict,
                                 !.marked = marked, !.digest = digest]
  <2>3. StoredShape(i)
    <3>1. Item(i) /\ i.rev = r /\ i.digest = digest /\ i.conflict = conflict
      BY DEF Item, ItemFields, NoItem
    <3>2. r \in Nat
      OBVIOUS
    <3> HIDE DEF i
    <3> QED
      BY <3>1, <3>2 DEF StoredShape
  <2>4. outside' = [outside EXCEPT !.stored = {i}]
    BY <2>2
  <2> HIDE DEF i
  <2>5. /\ outside' = [f \in {"rev", "stored"} |-> outside'[f]]
        /\ outside'.rev = outside.rev /\ outside'.stored = {i}
    BY <1>2, <2>4 DEF OutsideShape
  <2>6. OutsideShape'
    BY <1>2, <2>3, <2>5 DEF OutsideShape
  <2> QED
    BY <1>1, <2>6 DEF ProjectionInv, ProjectionShape, ProjectionVerified
<1> QED
  BY <1>3, <1>4

----------------------------------------------------------------------------
(* The theorems about retrieval.                                           *)

EvInv == CycleInv /\ ProjectionInv

LEMMA EvidenceStarts ==
    ASSUME EvInit
    PROVE  EvInv
<1>1. Fields(cyc)
  BY DEF EvInit, Fields, CycleFields
<1>2. /\ cyc.step = "idle" /\ cyc.ask = "none" /\ cyc.round = 0 /\ cyc.basis = 0
      /\ cyc.gov = [d \in HardDomains |-> "UNRESOLVED"]
      /\ cyc.routes = [r \in Routes |-> "UNOBSERVED"] /\ cyc.probed = {} /\ cyc.read = {}
      /\ cyc.obs = {} /\ cyc.unresolved = {} /\ cyc.log = {} /\ cyc.outcome = "none"
  BY DEF EvInit
<1>3. cyc.changed \in BOOLEAN
  BY Zenon DEF EvInit
<1>4. CycleShape
  <2>1. cyc.gov \in [HardDomains -> Verdicts] /\ cyc.routes \in [Routes -> RouteStates]
    BY <1>2 DEF Verdicts, RouteStates
  <2> QED
    BY <1>1, <1>2, <1>3, <2>1, RoundsTyped DEF CycleShape, Outcomes
<1>5. CycleInv
  BY <1>2, <1>4, FS_EmptySet
     DEF CycleInv, Numbered, Answered, Released, RoundInv, IdleCycle, ExecutedComplete,
         FixedPointReached
<1>6. /\ prj = [f \in ProjectionFields |-> prj[f]] /\ prj.step = "idle" /\ prj.source = NoItem
      /\ prj.target = NoItem /\ prj.status = "none" /\ prj.supplied = "none"
  BY DEF EvInit, ProjectionFields
<1>7. /\ outside = [f \in {"rev", "stored"} |-> outside[f]]
      /\ outside.rev = 1 /\ outside.stored = {}
  BY DEF EvInit
<1>8. ProjectionInv
  <2>1. 1 \in 1..MaxRevision
    BY EvidenceAssumption
  <2> QED
    BY <1>6, <1>7, <2>1, NoItemShape
       DEF ProjectionInv, OutsideShape, ProjectionShape, ProjectionSteps, ProjectionStatus,
           ProjectionVerified
<1> QED
  BY <1>5, <1>8 DEF EvInv

LEMMA CycleStays ==
    ASSUME CycleInv, UNCHANGED cyc
    PROVE  CycleInv'
BY DEF CycleInv, CycleShape, Numbered, Answered, Touchable, InWalk, Released, RoundInv, Planned,
       Advancing, Quiet, Known, IdleCycle, ExecutedComplete, FixedPointReached

LEMMA ProjectionStays ==
    ASSUME ProjectionInv, UNCHANGED <<prj, outside>>
    PROVE  ProjectionInv'
BY DEF ProjectionInv, OutsideShape, ProjectionShape, ProjectionVerified

LEMMA EvidenceSteps ==
    ASSUME EvInv, [EvNext]_evVars
    PROVE  EvInv'
<1>1. CycleInv /\ ProjectionInv
  BY DEF EvInv
<1>2. ASSUME NEW d \in Asked, CycleStart(d) PROVE EvInv'
  BY <1>1, <1>2, StartInv, ProjectionStays DEF CycleStart, EvInv
<1>3. CASE CycleProbe
  BY <1>1, <1>3, ProbeInv, ProjectionStays DEF CycleProbe, EvInv
<1>4. CASE CyclePlanReads
  BY <1>1, <1>4, PlanReadsInv, ProjectionStays DEF CyclePlanReads, EvInv
<1>5. CASE CycleRead
  BY <1>1, <1>5, ReadInv, ProjectionStays DEF CycleRead, EvInv
<1>6. CASE CycleRoundEnd
  BY <1>1, <1>6, RoundEndInv, ProjectionStays DEF CycleRoundEnd, EvInv
<1>7. ASSUME NEW m \in Modes, PrjStart(m) PROVE EvInv'
  BY <1>1, <1>7, PrjStartInv, CycleStays DEF PrjStart, EvInv
<1>8. CASE PrjProbeSource \/ PrjProbeTarget
  BY <1>1, <1>8, PrjProbeInv, CycleStays DEF PrjProbeSource, PrjProbeTarget, PrjProbe, EvInv
<1>9. CASE PrjReadSource
  BY <1>1, <1>9, PrjReadSourceInv, CycleStays DEF PrjReadSource, EvInv
<1>10. CASE PrjReadTarget
  BY <1>1, <1>10, PrjReadTargetInv, CycleStays DEF PrjReadTarget, EvInv
<1>11. CASE AuditSupplied
  BY <1>1, <1>11, AuditSuppliedInv, CycleStays DEF AuditSupplied, EvInv
<1>12. CASE SourceAdvances \/ TargetStored
  BY <1>1, <1>12, OutsideInv, CycleStays DEF SourceAdvances, TargetStored, EvInv
<1>13. CASE UNCHANGED evVars
  BY <1>1, <1>13, CycleStays, ProjectionStays DEF evVars, EvInv
<1> QED
  BY <1>2, <1>3, <1>4, <1>5, <1>6, <1>7, <1>8, <1>9, <1>10, <1>11, <1>12, <1>13 DEF EvNext

LEMMA EvidenceInvariant == EvSpec => []EvInv
<1>1. EvInit => EvInv
  BY EvidenceStarts
<1>2. EvInv /\ [EvNext]_evVars => EvInv'
  BY EvidenceSteps
<1> QED
  BY <1>1, <1>2, PTL DEF EvSpec

\* Both cycles keep to their steps, results and limits: a domain cycle never
\* runs more rounds than its limit, and every prerequisite has one of the three
\* resolutions, whatever the providers answer.
THEOREM EvidenceTypeCorrect == EvSpec => []EvTypeOK
<1>1. EvInv => EvTypeOK
  <2> SUFFICES ASSUME EvInv PROVE EvTypeOK
    OBVIOUS
  <2>1. CycleShape /\ ProjectionShape /\ OutsideShape
    BY DEF EvInv, CycleInv, ProjectionInv
  <2>2. \A r \in Routes : cyc.routes[r] \in Retrievable \cup {"UNAVAILABLE", "UNOBSERVED"}
    BY <2>1 DEF CycleShape, RouteStates, Retrievable
  <2>3. {prj.status, prj.supplied} \subseteq ProjectionStatus
    BY <2>1 DEF ProjectionShape
  <2>4. outside.rev \in 1..MaxRevision /\ Cardinality(outside.stored) <= 1
    <3>1. outside.stored = {} \/ \E i \in outside.stored : outside.stored = {i}
      BY <2>1 DEF OutsideShape
    <3>2. Cardinality(outside.stored) \in {0, 1}
      BY <3>1, FS_EmptySet, FS_Singleton
    <3> QED
      BY <2>1, <3>2 DEF OutsideShape
  <2> QED
    BY <2>1, <2>2, <2>3, <2>4
       DEF EvTypeOK, CycleShape, Outcomes, Verdicts, ProjectionShape, ProjectionSteps,
           ProjectionStatus
<1> QED
  BY <1>1, EvidenceInvariant, PTL

\* What was satisfied when a provider was asked had been settled by evidence.
LEMMA ReleasedMeans ==
    ASSUME EvInv
    PROVE  ReleasedByEvidence
<1> SUFFICES ASSUME NEW io \in cyc.log, NEW p \in HardOf(io.dom)
             PROVE  Settled(p, {i \in cyc.obs : i.nth <= io.after})
  BY DEF ReleasedByEvidence
<1>1. Resolution(p, {i \in cyc.obs : i.nth <= io.after}) = "SATISFIED"
  BY DEF EvInv, CycleInv, Released
<1> QED
  BY <1>1, SatisfiedSettled

\* For any index of domains, any dispatch and rules, and any provider: a domain
\* is probed and read only after evidence of earlier rounds has settled all its
\* hard prerequisites; a cycle reports EXECUTED only when nothing it read is
\* unsettled, unreachable or missing at the end, the late reads included;
\* 2 * domains + 2 rounds always reach the fixed point, since in every round but
\* the last one some domain takes one of its two steps, that its prerequisites
\* are all resolved and that one of them conflicts; and a projection is verified
\* only for the revision and event its source was read for, and never against a
\* digest that says otherwise (execute_domain_cycle, execute_projection_cycle,
\* _qualification_gate).
THEOREM RetrievalIsGoverned == EvSpec => []RetrievalGoverned
<1>1. EvInv => RetrievalGoverned
  BY ReleasedMeans DEF EvInv, CycleInv, ProjectionInv, RetrievalGoverned
<1> QED
  BY <1>1, EvidenceInvariant, PTL
=============================================================================
