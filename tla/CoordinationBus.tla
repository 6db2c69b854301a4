--------------------------- MODULE CoordinationBus ---------------------------
(***************************************************************************)
(* The coordination bus of vera_coordination: workstreams leave events for *)
(* each other in one append-only repository (core.py, temporal.py,         *)
(* verified_temporal.py, sqlite_repository.py), read their inbox page by   *)
(* page behind a cursor they keep, and may post through a process-local    *)
(* guard against retries (retry_guard.py).                                 *)
(*                                                                         *)
(* A post first reads the events it refers to and only then appends, in a  *)
(* transaction of its own; other processes append in between.  A process   *)
(* that dies forgets its guard and the decision tokens it has seen.        *)
(***************************************************************************)
EXTENDS Integers, Sequences, FiniteSets, FiniteSetsExt

CONSTANTS Streams,      \* workstreams
          NoStream,     \* target_branch is None
          Messages,     \* what is posted: [thread, src, tgt, kind]
          References,   \* what posts refer to: <<acknowledges, supersedes>>, 0 for none
          BusProcs,     \* processes, each with its bus and its verifiers
          GuardedProcs, \* those that post through a retry guard
          GuardWindow,  \* window_ms of the guard
          PageLimit,    \* limit of a page
          BusMaxEvents, \* bound on the repository
          BusMaxTime    \* bound on the guard's clock

ASSUME CoordinationBusAssumption ==
    /\ NoStream \notin Streams
    /\ \A x \in Messages :
           /\ x.src \in Streams /\ x.tgt \in Streams \cup {NoStream}
           /\ x.kind \in {"STATUS", "ISSUE", "ACKNOWLEDGEMENT", "REVIEW", "DECISION", "RESOLUTION"}
    /\ GuardedProcs \subseteq BusProcs
    /\ GuardWindow \in Nat /\ PageLimit \in Nat \ {0} /\ BusMaxTime \in Nat

VARIABLES busLog,    \* the events, by sequence number
          busCall,   \* busCall[p]: the draft p has checked and not yet appended
          usedTokens,\* usedTokens[p]: DECISION drafts whose token p's verifier has seen
          seen,      \* seen[p]: draft :> time of its newest accepted post
          lastNow,   \* lastNow[p]: newest time p's guard was asked with
          mine,      \* mine[p]: what p wrote in this life, as [seq, at]
          cursor,    \* cursor[w]: the committed high-water mark of w's inbox
          page,      \* page[w]: the page w is working on, [events, next]
          handled    \* handled[w]: events w has handled

procVars == <<busCall, usedTokens, seen, lastNow, mine>>
inboxVars == <<cursor, page, handled>>
busVars == <<busLog, procVars, inboxVars>>

EventNumbers == 1..Len(busLog)
NoPage == [events |-> {}, next |-> -1]
NoTime == -1
NoCall == [draft |-> <<>>, at |-> NoTime]

BusInit ==
    /\ busLog = <<>>
    /\ busCall = [p \in BusProcs |-> NoCall]
    /\ usedTokens = [p \in BusProcs |-> {}]
    /\ seen = [p \in BusProcs |-> {}]
    /\ lastNow = [p \in BusProcs |-> 0]
    /\ mine = [p \in BusProcs |-> {}]
    /\ cursor = [w \in Streams |-> 0]
    /\ page = [w \in Streams |-> NoPage]
    /\ handled = [w \in Streams |-> {}]

----------------------------------------------------------------------------
\* CoordinationEventDraft.validate: an answer says what it answers.
Drafts ==
    {d \in {[thread |-> x.thread, src |-> x.src, tgt |-> x.tgt, kind |-> x.kind, ack |-> r[1], sup |-> r[2]] :
                x \in Messages, r \in References} :
        /\ {d.ack, d.sup} \subseteq 0..Len(busLog)
        /\ d.kind \in {"ACKNOWLEDGEMENT", "REVIEW", "RESOLUTION"} => d.ack # 0}

\* _authorize_generic_post: an answer comes from the branch it was asked of.
AnswerAuthorized(d) ==
    LET original == busLog[d.ack]
    IN  d.kind \in {"ACKNOWLEDGEMENT", "REVIEW"} =>
            d.src = original.tgt /\ d.tgt = original.src

\* The drafts that the named operations build, a resolution among participants.
Authorized(d) ==
    LET original == busLog[d.ack]
        other == IF d.src # original.src THEN original.src ELSE original.tgt
    IN  /\ AnswerAuthorized(d)
        /\ d.kind = "RESOLUTION" => d.src \in {original.src, original.tgt} /\ d.tgt = other

\* _lineage, read before the append.
LineageHolds(d) ==
    /\ d.ack # 0 => busLog[d.ack].thread = d.thread /\ d.ack # d.sup
    /\ d.sup # 0 => /\ busLog[d.sup].thread = d.thread
                    /\ \A i \in EventNumbers : busLog[i].sup # d.sup

\* The decision authority's token is the digest of the draft: its verifier
\* takes it once, whatever then becomes of the post.
TokenAccepted(p, d) == d.kind = "DECISION" => d \notin usedTokens[p]
TokensAfter(p, d) ==
    IF d.kind = "DECISION" THEN [usedTokens EXCEPT ![p] = @ \cup {d}] ELSE usedTokens

\* Mutation: an entry as old as the window is evicted.
Kept_Younger(entries, now) == {e \in entries : e.at > now - GuardWindow}

\* accept: entries older than the window are evicted, oldest first.
Kept(entries, now) == {e \in entries : e.at >= now - GuardWindow}

Suppressed(p, d, now) == \E e \in seen[p] : e.draft = d /\ now - e.at <= GuardWindow

\* coordination_post up to the append; at is NoTime without the guard.
CheckPost(p, d, at) ==
    /\ busCall[p] = NoCall /\ Len(busLog) < BusMaxEvents
    /\ Authorized(d) /\ TokenAccepted(p, d)
    /\ usedTokens' = TokensAfter(p, d)
    /\ LineageHolds(d) \/ d.kind = "DECISION"
    /\ IF LineageHolds(d) THEN busCall' = [busCall EXCEPT ![p] = [draft |-> d, at |-> at]]
       ELSE UNCHANGED busCall

\* Posts without the guard: acknowledgements and exit checkpoints among them.
Post(p, d) ==
    /\ CheckPost(p, d, NoTime)
    /\ UNCHANGED <<busLog, seen, lastNow, mine, inboxVars>>

\* guarded_coordination_post: the reservation stands while the post is under
\* way; a post that fails its checks gives it back.
GuardedPost(p, d, now) ==
    /\ now >= lastNow[p]
    /\ lastNow' = [lastNow EXCEPT ![p] = now]
    /\ ~Suppressed(p, d, now)
    /\ CheckPost(p, d, now)
    /\ LET others == Kept({e \in seen[p] : e.draft # d}, now)
       IN  seen' = [seen EXCEPT ![p] =
               IF LineageHolds(d) THEN others \cup {[draft |-> d, at |-> now]} ELSE others]
    /\ UNCHANGED <<busLog, mine, inboxVars>>

\* Mutation: the index on supersedes_event_id is not unique.
Insertable_AnySuccessor(d) ==
    /\ d.ack # 0 => busLog[d.ack].thread = d.thread
    /\ d.sup # 0 => busLog[d.sup].thread = d.thread /\ d.sup # d.ack

\* What the transaction of append checks again, the unique index included.
Insertable(d) ==
    /\ d.ack # 0 => busLog[d.ack].thread = d.thread
    /\ d.sup # 0 => busLog[d.sup].thread = d.thread /\ d.sup # d.ack
    /\ d.sup # 0 => \A i \in EventNumbers : busLog[i].sup # d.sup

\* append; a conflict gives the guard's reservation back.
AppendEvent(p) ==
    LET call == busCall[p]
        event == call.draft
    IN  /\ call # NoCall
        /\ busCall' = [busCall EXCEPT ![p] = NoCall]
        /\ IF Insertable(event)
           THEN /\ busLog' = Append(busLog, event)
                /\ mine' = [mine EXCEPT ![p] = @ \cup {[seq |-> Len(busLog) + 1, at |-> call.at]}]
                /\ UNCHANGED seen
           ELSE /\ seen' = [seen EXCEPT ![p] = {e \in @ : ~(e.draft = event /\ e.at = call.at)}]
                /\ UNCHANGED <<busLog, mine>>
        /\ UNCHANGED <<usedTokens, lastNow, inboxVars>>

\* The process dies and another takes its place.
BusCrash(p) ==
    /\ busCall' = [busCall EXCEPT ![p] = NoCall]
    /\ usedTokens' = [usedTokens EXCEPT ![p] = {}]
    /\ seen' = [seen EXCEPT ![p] = {}]
    /\ lastNow' = [lastNow EXCEPT ![p] = 0]
    /\ mine' = [mine EXCEPT ![p] = {}]
    /\ UNCHANGED <<busLog, inboxVars>>

----------------------------------------------------------------------------
AnsweredBy(w, i) == \E j \in EventNumbers : busLog[j].src = w /\ busLog[j].ack = i

\* read_inbox without acknowledged events, in order, past the cursor.
Inbox(w) == {i \in EventNumbers : i > cursor[w] /\ busLog[i].tgt = w /\ ~AnsweredBy(w, i)}

FirstOf(S, n) == {i \in S : Cardinality({j \in S : j <= i}) <= n}

\* Mutation: the repository's newest event is the next cursor.
CursorOut_Newest(w, events) == Len(busLog)

\* cursor_out
CursorOut(w, events) == IF events = {} THEN cursor[w] ELSE Max(events)

\* entry_checkpoint, coordination_read_inbox: one page is read and kept.
ReadPage(w) ==
    LET events == FirstOf(Inbox(w), PageLimit)
    IN  /\ page[w] = NoPage /\ events # {}
        /\ page' = [page EXCEPT ![w] = [events |-> events, next |-> CursorOut(w, events)]]
        /\ UNCHANGED <<busLog, procVars, cursor, handled>>

\* The reader has handled the whole page and will ask after the cursor it was
\* given (after_sequence of the next entry_checkpoint).
CommitCursor(w) ==
    /\ page[w] # NoPage
    /\ handled' = [handled EXCEPT ![w] = @ \cup page[w].events]
    /\ cursor' = [cursor EXCEPT ![w] = page[w].next]
    /\ page' = [page EXCEPT ![w] = NoPage]
    /\ UNCHANGED <<busLog, procVars>>

\* The reader dies with the page.
DropPage(w) ==
    /\ page[w] # NoPage
    /\ page' = [page EXCEPT ![w] = NoPage]
    /\ UNCHANGED <<busLog, procVars, cursor, handled>>

BusNext ==
    \/ \E p \in BusProcs :
           \/ AppendEvent(p) \/ BusCrash(p)
           \/ \E d \in Drafts :
                  \/ p \notin GuardedProcs /\ Post(p, d)
                  \/ p \in GuardedProcs /\ \E now \in 0..BusMaxTime : GuardedPost(p, d, now)
    \/ \E w \in Streams : ReadPage(w) \/ CommitCursor(w) \/ DropPage(w)

BusSpec == BusInit /\ [][BusNext]_busVars

----------------------------------------------------------------------------
BusTypeOK ==
    /\ \A w \in Streams : cursor[w] \in 0..Len(busLog) /\ handled[w] \subseteq EventNumbers
    /\ \A p \in BusProcs : \A x \in mine[p] : x.seq \in EventNumbers

(***************************************************************************)
(* An event refers to earlier events of its own thread, is superseded by   *)
(* one event at most - though two processes may both have found it without *)
(* a successor - and only the workstream an event was addressed to         *)
(* acknowledges or reviews it, only a participant resolves it.             *)
(***************************************************************************)
EventsLawful ==
    \A i \in EventNumbers :
        LET e == busLog[i] IN
        /\ \A r \in {e.ack, e.sup} \ {0} : r < i /\ busLog[r].thread = e.thread
        /\ e.sup # 0 => \A j \in EventNumbers \ {i} : busLog[j].sup # e.sup
        /\ e.kind \in {"ACKNOWLEDGEMENT", "REVIEW"} =>
               e.src = busLog[e.ack].tgt /\ e.tgt = busLog[e.ack].src
        /\ e.kind = "RESOLUTION" => e.src \in {busLog[e.ack].src, busLog[e.ack].tgt}

(***************************************************************************)
(* A reader that handles each page before it commits the page's cursor     *)
(* misses no event: what lies behind its cursor and was addressed to it,   *)
(* it has handled or answered, however many events were appended while it  *)
(* was reading.                                                            *)
(***************************************************************************)
InboxComplete ==
    \A w \in Streams : \A i \in 1..cursor[w] :
        busLog[i].tgt = w => i \in handled[w] \/ AnsweredBy(w, i)

(***************************************************************************)
(* While a process lives it writes a DECISION once per token, and a draft  *)
(* posted through its guard once per window, however posts fail, conflict  *)
(* or evict one another's entries in between.                              *)
(***************************************************************************)
NoDoublePost ==
    \A p \in BusProcs : \A x \in mine[p], y \in mine[p] :
        x.seq # y.seq /\ busLog[x.seq] = busLog[y.seq] =>
            /\ busLog[x.seq].kind # "DECISION"
            /\ x.at # NoTime /\ y.at # NoTime =>
                   x.at - y.at > GuardWindow \/ y.at - x.at > GuardWindow

(***************************************************************************)
(* What is on the bus is lawful and reaches its readers: every event keeps *)
(* to its thread and its addressee, a process posts nothing twice, and no  *)
(* event falls behind the cursor of its addressee unread (core.py,         *)
(* sqlite_repository.py, retry_guard.py, temporal.py).                     *)
(***************************************************************************)
BusLawful == EventsLawful /\ NoDoublePost /\ InboxComplete
=============================================================================
