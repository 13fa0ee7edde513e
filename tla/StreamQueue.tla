---------------------------- MODULE StreamQueue ----------------------------
(* The robot queue of PostProcessor (real_world/postprocess.py, stage 5) and *)
(* the threads that touch it, at the granularity of the shared lock:         *)
(*   - the inference thread runs append_actions: one locked section reads    *)
(*     the clock and the cursor (AppendRead), IK and the simulator then      *)
(*     validate the rows without the lock, and a second locked section       *)
(*     splices the result into the queue (AppendSplice);                     *)
(*   - the release thread pops one substep per tick (PopNextSubstep);        *)
(*   - the E-stop, homing, a retreat and the release macros clear the queue  *)
(*     (ClearQueue) and the manual release buttons add untagged substeps at  *)
(*     its tail (EnqueueManual), whatever append_actions is doing.           *)
(* Joint configurations are left out: a substep is the master row it is      *)
(* tagged with, and an opaque tag for the modules that extend this one.      *)
EXTENDS Integers, Sequences

CONSTANTS
    Aheads,         \* the values of append_ahead_rows (live-tunable)
    MaxAhead,       \* the largest of them
    MaxRow,         \* bound: the highest master row a chunk reaches
    MaxTraj,        \* bound: substeps of one validated trajectory
    MaxQueue,       \* bound: EnqueueManual leaves at most this many queued
    Tags            \* what else a substep carries

ASSUME AheadAssumption == MaxAhead \in Nat /\ Aheads \subseteq 0..MaxAhead
ASSUME BoundsAssumption ==
    MaxRow \in Nat /\ MaxTraj \in Nat /\ MaxTraj > MaxAhead /\ MaxQueue \in Nat

VARIABLES
    robot_q,            \* _robot_q
    current_row_id,     \* _current_row_id, the master clock
    queued_through,     \* _queued_through, the streaming cursor
    append              \* the append_actions call in flight, if any

queueVars == <<robot_q, current_row_id, queued_through, append>>

-----------------------------------------------------------------------------
Untagged == -1          \* the row of a manual substep, a tuple without an id
Rows == 0..MaxRow
Substep == [row : Rows \cup {Untagged}, tag : Tags]

NoAppend == [busy |-> FALSE, start_id |-> 0, last_id |-> 0]
AppendCall == [busy : BOOLEAN, start_id : Rows, last_id : Rows]

IsTagged(sub) == sub.row # Untagged
TaggedIn(q) == {i \in 1..Len(q) : IsTagged(q[i])}
TaggedRows == {robot_q[i].row : i \in TaggedIn(robot_q)}

\* The row numbers of the substeps the simulator returns for first..last: every
\* row yields at least one substep (K of them, more where the velocity cap
\* bites) and the rows come in order.
Expansions(first, last) ==
    {traj \in UNION {[1..n -> first..last] : n \in 1..MaxTraj} :
        /\ \A r \in first..last : \E i \in 1..Len(traj) : traj[i] = r
        /\ \A i, j \in 1..Len(traj) : i < j => traj[i] <= traj[j]}

QueueInit ==
    /\ robot_q = <<>>
    /\ current_row_id = 0
    /\ queued_through = -1
    /\ append = NoAppend

-----------------------------------------------------------------------------
\* The rows append_actions wants: the first one not queued and not passed, to
\* ahead rows beyond the clock.
Mutant_FirstNeeded == IF queued_through + 1 > current_row_id
                      THEN queued_through + 2 ELSE current_row_id
FirstNeeded == IF queued_through + 1 > current_row_id
               THEN queued_through + 1 ELSE current_row_id

LastNeeded(ahead) == current_row_id + ahead

\* append_actions up to the slice of the chunk, which holds the rows base..end.
\* The call returns early, changing nothing, when the buffer is full, when the
\* chunk starts past the next needed row, and when it does not reach it.
AppendRead(base, end, ahead) ==
    LET last == IF LastNeeded(ahead) < end THEN LastNeeded(ahead) ELSE end
    IN  /\ ~append.busy
        /\ FirstNeeded <= LastNeeded(ahead)
        /\ base <= FirstNeeded
        /\ FirstNeeded <= last
        /\ append' = [busy |-> TRUE, start_id |-> FirstNeeded, last_id |-> last]
        /\ UNCHANGED <<robot_q, current_row_id, queued_through>>

\* An unreachable row, or a collision in the simulator: the whole chunk is
\* given up and the arm holds.
AppendAbort ==
    /\ append.busy
    /\ append' = NoAppend
    /\ UNCHANGED <<robot_q, current_row_id, queued_through>>

\* The second locked section.  Rows the clock has passed, or that are queued by
\* now, are dropped from the front; what is left goes to the tail, behind a
\* bridge when its first row is not the one the call started from.
AppendSplice(traj, tag) ==
    LET Wanted(i) == traj[i] >= current_row_id /\ traj[i] > queued_through
    IN  /\ append.busy
        /\ traj \in Expansions(append.start_id, append.last_id)
        /\ \E k \in 1..(Len(traj) + 1) :
             LET new == [i \in 1..(Len(traj) - k + 1) |->
                           [row |-> traj[k + i - 1], tag |-> tag]]
             IN  /\ \A i \in 1..(k - 1) : ~Wanted(i)
                 /\ \A i \in k..Len(traj) : Wanted(i)
                 /\ IF new = <<>>
                    THEN UNCHANGED <<robot_q, queued_through>>
                    ELSE /\ \E bridge \in {<<>>, <<new[1]>>} :
                              robot_q' = IF new[1].row = append.start_id
                                         THEN robot_q \o new
                                         ELSE robot_q \o bridge \o new
                         /\ queued_through' = new[Len(new)].row
        /\ append' = NoAppend
        /\ UNCHANGED current_row_id

\* The release thread takes the head; a tagged substep moves the clock.
PopNextSubstep ==
    /\ robot_q # <<>>
    /\ robot_q' = Tail(robot_q)
    /\ current_row_id' = IF IsTagged(Head(robot_q)) THEN Head(robot_q).row
                                                    ELSE current_row_id
    /\ UNCHANGED <<queued_through, append>>

\* Everything queued is dropped and the cursor re-anchors to the clock.
Mutant_ClearQueueKeepsCursor ==
    /\ robot_q' = <<>>
    /\ UNCHANGED <<queued_through, current_row_id, append>>
Mutant_ClearQueueKeepsHead ==
    /\ robot_q' = IF robot_q = <<>> THEN <<>> ELSE <<Head(robot_q)>>
    /\ queued_through' = -1
    /\ UNCHANGED <<current_row_id, append>>
ClearQueue ==
    /\ robot_q' = <<>>
    /\ queued_through' = -1
    /\ UNCHANGED <<current_row_id, append>>

\* _enqueue_for_release: manual substeps join the tail, without a row.
EnqueueManual(subs) ==
    /\ subs # <<>>
    /\ Len(robot_q) + Len(subs) <= MaxQueue
    /\ robot_q' = robot_q \o subs
    /\ UNCHANGED <<current_row_id, queued_through, append>>

ManualBatches == UNION {[1..n -> [row : {Untagged}, tag : Tags]] : n \in 1..MaxQueue}

QueueNext ==
    \/ \E base, end \in Rows, ahead \in Aheads : AppendRead(base, end, ahead)
    \/ AppendAbort
    \/ \E traj \in Expansions(append.start_id, append.last_id), tag \in Tags :
          AppendSplice(traj, tag)
    \/ PopNextSubstep
    \/ ClearQueue
    \/ \E subs \in ManualBatches : EnqueueManual(subs)

QueueSpec == QueueInit /\ [][QueueNext]_queueVars

-----------------------------------------------------------------------------
(* Properties.                                                              *)

\* The values the queue, the clock, the cursor and the call in flight may have.
QueueTypeOK ==
    /\ robot_q \in Seq(Substep)
    /\ current_row_id \in Rows
    /\ queued_through \in Rows \cup {-1}
    /\ append \in AppendCall

\* "The arm runs one master id at a time, in order" (append_actions): tagged
\* substeps leave the queue in row order, none of them behind the clock or past
\* the cursor, and the queue itself has no hole in its rows.
StreamOrder ==
    /\ \A i \in TaggedIn(robot_q) :
          robot_q[i].row \in current_row_id..queued_through
    /\ \A i, j \in TaggedIn(robot_q) : i < j => robot_q[i].row <= robot_q[j].row
    /\ \A r \in Rows : (\E a, b \in TaggedRows : a <= r /\ r <= b) => r \in TaggedRows

\* The cursor never claims a row nobody queued: when it is ahead of the clock,
\* its row is in the queue.  Otherwise append_actions would answer "buffer full"
\* with an empty queue, and the clock would never move again.
CursorTruthful ==
    queued_through > current_row_id => queued_through \in TaggedRows

\* The arm is never committed to more than MaxAhead rows beyond the clock,
\* however long a validation takes.
CommitBound == queued_through <= current_row_id + MaxAhead

\* While rows are being validated neither the clock nor the cursor can pass the
\* first of them, so a splice is always contiguous: the "fell behind" return and
\* the catch-up bridge of append_actions are out of reach of its callers.
NoCatchUp ==
    append.busy => /\ append.start_id >= current_row_id
                   /\ append.start_id > queued_through

\* The queue keeps the promise of RowStream: rows in order, without a hole
\* except after a drop, inside the commit window.
Stream == INSTANCE RowStream WITH
    Window  <- MaxAhead,
    clock   <- current_row_id,
    pending <- TaggedRows,
    dropped <- (queued_through = -1)

StreamSpec == Stream!Spec
=============================================================================
