------------------------------ MODULE TaskWakes ------------------------------
(***************************************************************************)
(* Two small durable ledgers of vera_core: the interval wake scheduler     *)
(* (task_wake_scheduler.py) and the recovery checkpoints of a workspace    *)
(* (work_checkpoint.py).  Several processes use each of them; every method *)
(* is one IMMEDIATE transaction, and the caller passes the time it         *)
(* believes it is.                                                         *)
(***************************************************************************)
EXTENDS Naturals, Sequences, FiniteSets, SequencesExt, FiniteSetsExt

CONSTANTS ScheduleIds,    \* numbers, in the order of the ids they stand for
          Intervals,      \* every_seconds a caller may ask for
          WakeMaxTime,    \* bound on the callers' clocks
          TickCaps,       \* max_occurrences a caller may pass
          Workers,        \* processes that checkpoint the workspace
          MaxCheckpoints  \* bound on the checkpoints

ASSUME TaskWakesAssumption ==
    /\ ScheduleIds \subseteq Nat /\ IsFiniteSet(ScheduleIds)
    /\ Intervals \subseteq Nat \ {0} /\ TickCaps \subseteq Nat \ {0}
    /\ WakeMaxTime \in Nat

VARIABLES schedules,  \* schedules[c]: [every, first, next]; every = 0: no row
          wakes,      \* wakes[c]: the due times stored for schedule c, in order
          emitted,    \* emitted[c]: the due times ticks returned for c, in order
          cpRows,     \* the checkpoints, each [parent, basis]
          cpKnown     \* cpKnown[w]: generation of the head that w last read

wakeVars == <<schedules, wakes, emitted>>
cpVars == <<cpRows, cpKnown>>
twVars == <<wakeVars, cpVars>>

TwInit ==
    /\ schedules = [c \in ScheduleIds |-> [every |-> 0, first |-> 0, next |-> 0]]
    /\ wakes = [c \in ScheduleIds |-> <<>>] /\ emitted = wakes
    /\ cpRows = <<>> /\ cpKnown = [w \in Workers |-> 0]

AddInterval(c, every, first) ==
    /\ schedules[c].every = 0
    /\ schedules' = [schedules EXCEPT ![c] = [every |-> every, first |-> first, next |-> first]]
    /\ UNCHANGED <<wakes, emitted, cpVars>>

Due(now) == {c \in ScheduleIds : schedules[c].every > 0 /\ schedules[c].next <= now}

\* ORDER BY next_at, schedule_id
Before(d, c) == schedules[d].next < schedules[c].next \/ (schedules[d].next = schedules[c].next /\ d < c)

\* The occurrences of c that are due and not yet stored, oldest first.
Missed(c, now) ==
    [i \in 1..((now - schedules[c].next) \div schedules[c].every + 1) |->
        schedules[c].next + (i - 1) * schedules[c].every]

\* Mutation: of what was missed the newest are kept.
Taken_Newest(missed, left) ==
    IF left >= Len(missed) THEN missed ELSE SubSeq(missed, Len(missed) - left + 1, Len(missed))

\* One pass of the while loop: the oldest, as many as the cap leaves.
Taken(missed, left) == IF left >= Len(missed) THEN missed ELSE SubSeq(missed, 1, left)

\* What tick stores for c: the rows before it have used up part of the cap.
TickRow(c, now, cap) ==
    LET used == MapThenSumSet(LAMBDA d : Len(Missed(d, now)), {d \in Due(now) : Before(d, c)})
    IN  IF c \notin Due(now) \/ used >= cap THEN <<>> ELSE Taken(Missed(c, now), cap - used)

\* tick, one transaction; a process that dies after the commit returns nothing.
Tick(now, cap, returned) ==
    LET new == [c \in ScheduleIds |-> TickRow(c, now, cap)]
    IN  /\ Due(now) # {}
        /\ wakes' = [c \in ScheduleIds |-> wakes[c] \o new[c]]
        /\ emitted' = IF returned THEN [c \in ScheduleIds |-> emitted[c] \o new[c]] ELSE emitted
        /\ schedules' = [c \in ScheduleIds |->
               IF new[c] = <<>> THEN schedules[c]
               ELSE [schedules[c] EXCEPT !.next = Last(new[c]) + schedules[c].every]]
        /\ UNCHANGED cpVars

----------------------------------------------------------------------------
\* head(): the frontier a process goes on from.
ReadHead(w) ==
    /\ cpRows # <<>> /\ cpKnown[w] # Len(cpRows)
    /\ cpKnown' = [cpKnown EXCEPT ![w] = Len(cpRows)]
    /\ UNCHANGED <<cpRows, wakeVars>>

\* Mutation: the newest generation is extended whatever the writer knew.
GenerationMatches_Any(w) == TRUE

\* The generation check of append.
GenerationMatches(w) == cpKnown[w] = Len(cpRows)

\* append: what is written continues the frontier its writer read.
AppendCheckpoint(w) ==
    /\ Len(cpRows) < MaxCheckpoints
    /\ GenerationMatches(w)
    /\ cpRows' = Append(cpRows, [parent |-> Len(cpRows), basis |-> cpKnown[w]])
    /\ cpKnown' = [cpKnown EXCEPT ![w] = Len(cpRows')]
    /\ UNCHANGED wakeVars

TwNext ==
    \/ \E c \in ScheduleIds, every \in Intervals, first \in 0..WakeMaxTime : AddInterval(c, every, first)
    \/ \E now \in 0..WakeMaxTime, cap \in TickCaps, returned \in BOOLEAN : Tick(now, cap, returned)
    \/ \E w \in Workers : ReadHead(w) \/ AppendCheckpoint(w)

TwSpec == TwInit /\ [][TwNext]_twVars

----------------------------------------------------------------------------
TwTypeOK ==
    /\ \A c \in ScheduleIds : Len(emitted[c]) <= Len(wakes[c])
    /\ \A w \in Workers : cpKnown[w] \in 0..Len(cpRows)

(***************************************************************************)
(* Whatever times and caps the processes tick with, late or out of order,  *)
(* the wakes stored for a schedule are its occurrences from the first to   *)
(* the one before next_at, each once and none left out, and what the ticks *)
(* returned is in that order with nothing twice.                           *)
(***************************************************************************)
WakesExact ==
    \A c \in ScheduleIds :
        LET s == schedules[c]
        IN  /\ s.every > 0 =>
                   /\ s.next = s.first + Len(wakes[c]) * s.every
                   /\ \A i \in DOMAIN wakes[c] : wakes[c][i] = s.first + (i - 1) * s.every
            /\ \A i \in DOMAIN emitted[c], j \in DOMAIN emitted[c] :
                   i < j => emitted[c][i] < emitted[c][j]

(***************************************************************************)
(* RecoveryCheckpointStore: no checkpoint is written over one its writer   *)
(* has not read, so what one process finished is on the frontier every     *)
(* later one goes on from.                                                 *)
(***************************************************************************)
FrontierKept == \A i \in DOMAIN cpRows : cpRows[i].parent = i - 1 /\ cpRows[i].basis = cpRows[i].parent

(***************************************************************************)
(* Neither a wake nor finished work is lost to a concurrent process        *)
(* (task_wake_scheduler.py, work_checkpoint.py).                           *)
(***************************************************************************)
WakesAndWorkKept == WakesExact /\ FrontierKept
=============================================================================
