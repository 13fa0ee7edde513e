------------------------------ MODULE Ensemble ------------------------------
(* The temporal-ensemble merge (PostProcessor.merge, real_world/postprocess.py, *)
(* stages 1 and 2) in front of the queue it feeds: the inference thread reads   *)
(* the cursor (queue_status), merges the newest chunk into a buffer keyed by    *)
(* master row, and offers the contiguous run of that buffer to append_actions.  *)
(* Rows up to the cursor are frozen, the others are written anew by each merge. *)
(* The poses and their weights are left out: the buffer is the set of rows it   *)
(* holds.  E-stop and homing clear the queue but not the buffer; the merge has  *)
(* to notice.                                                                   *)
EXTENDS StreamQueue, Functions

CONSTANTS
    ChunkLen,       \* rows of a chunk of the policy
    Radii,          \* values of te_radius (live-tunable)
    Depths          \* values of te_buffer_len (live-tunable)

ASSUME ChunkAssumption == ChunkLen \in Nat \ {0}
ASSUME TuningAssumption == Radii \subseteq Nat /\ Depths \subseteq Nat \ {0}

VARIABLES
    te_buffer,      \* _te_buffer: the first rows of the recent chunks, oldest first
    buffer,         \* _buffer: the rows it holds
    last_qt,        \* _last_queued_through
    tuning,         \* te_radius and te_buffer_len
    inference,      \* where the inference thread is
    sid,            \* the row the newest observation is anchored to
    seen,           \* the cursor as queue_status returned it
    written,        \* history: the rows the merge of this cycle wrote
    bare            \* history: the row the cursor is at was pruned or cleared away

mergeVars == <<te_buffer, buffer, last_qt>>
cycleVars == <<tuning, inference, sid, seen, written>>
vars == <<queueVars, mergeVars, cycleVars, bare>>

MergeInit == te_buffer = <<>> /\ buffer = {} /\ last_qt = -1

Init ==
    /\ QueueInit /\ MergeInit
    /\ tuning \in [radius : Radii, depth : Depths]
    /\ inference = "idle" /\ sid = 0 /\ seen = -1 /\ written = {}
    /\ bare = FALSE

-----------------------------------------------------------------------------
(* The merge.                                                               *)

ChunkRows(first) == first..(first + ChunkLen - 1)

\* A deque of depth n keeps the newest.
Newest(chunks, n) ==
    IF Len(chunks) > n THEN SubSeq(chunks, Len(chunks) - n + 1, Len(chunks)) ELSE chunks

\* The rows a merge writes: those of its chunks that are behind the cursor.
Covered(chunks) == UNION {ChunkRows(first) : first \in Range(chunks)}
Mutant_Mutable(chunks) == Covered(chunks)
Mutable(chunks) == {r \in Covered(chunks) : r > seen}

\* Frozen rows are kept for the radius of the filter.
Mutant_Retained(rows) == {r \in rows : r >= seen + tuning.radius}
Retained(rows) == {r \in rows : r >= seen - tuning.radius + 1}

\* A cursor that went back tells that the queue was cleared: both buffers are
\* stale then.
Merge ==
    /\ inference = "status" /\ inference' = "merged"
    /\ LET stale == seen < last_qt
           chunks == Newest((IF stale THEN <<>> ELSE te_buffer) \o <<sid>>, tuning.depth)
       IN  /\ te_buffer' = chunks
           /\ written' = Mutable(chunks)
           /\ buffer' = Retained((IF stale THEN {} ELSE buffer) \cup Mutable(chunks))
           /\ bare' = (stale \/ tuning.radius = 0 \/ (bare /\ seen = last_qt))
    /\ last_qt' = seen
    /\ UNCHANGED <<queueVars, tuning, sid, seen>>

\* _materialize: the rows from the lowest on, up to the first that is missing.
Run == {r \in buffer : \A low \in buffer : low..r \subseteq buffer}

-----------------------------------------------------------------------------
(* The cycle of the inference thread.                                       *)

\* A chunk arrived for an observation that is not older than the one before; the
\* cursor is read.
QueueStatus ==
    /\ inference = "idle" /\ inference' = "status"
    /\ sid' \in sid..current_row_id
    /\ sid' + ChunkLen - 1 <= MaxRow
    /\ seen' = queued_through
    /\ UNCHANGED <<queueVars, mergeVars, tuning, written, bare>>

\* append_actions, or an early return: nothing to append, no preview, E-stop.
Submit(ahead) ==
    /\ inference = "merged"
    /\ \/ /\ \E base, end \in Run : /\ \A r \in Run : base <= r /\ r <= end
                                   /\ AppendRead(base, end, ahead)
          /\ inference' = "append"
       \/ inference' = "idle" /\ UNCHANGED queueVars
    /\ written' = {}
    /\ UNCHANGED <<mergeVars, tuning, sid, seen, bare>>

Finish ==
    /\ inference = "append" /\ inference' = "idle"
    /\ \/ AppendAbort
       \/ \E traj \in Expansions(append.start_id, append.last_id), tag \in Tags :
             AppendSplice(traj, tag)
    /\ UNCHANGED <<mergeVars, tuning, sid, seen, written, bare>>

\* A retreat and the place macros clear the queue and reset the merge.
Retreat ==
    /\ inference = "idle"
    /\ ClearQueue
    /\ te_buffer' = <<>> /\ buffer' = {} /\ last_qt' = -1
    /\ bare' = FALSE
    /\ UNCHANGED cycleVars

\* The tuning controls of the panel, which are locked during a cycle.
Tune(radius, depth) ==
    /\ inference = "idle"
    /\ tuning' = [radius |-> radius, depth |-> depth]
    /\ te_buffer' = Newest(te_buffer, depth)
    /\ UNCHANGED <<queueVars, buffer, last_qt, inference, sid, seen, written, bare>>

-----------------------------------------------------------------------------
(* The threads beside it.                                                   *)

\* The E-stop, at any time; and homing, from the inference thread.
Clear ==
    /\ ClearQueue
    /\ UNCHANGED <<mergeVars, cycleVars, bare>>

Release ==
    /\ \/ PopNextSubstep
       \/ \E subs \in ManualBatches : EnqueueManual(subs)
    /\ UNCHANGED <<mergeVars, cycleVars, bare>>

Next ==
    \/ QueueStatus \/ Merge \/ Finish \/ Retreat
    \/ \E ahead \in Aheads : Submit(ahead)
    \/ \E radius \in Radii, depth \in Depths : Tune(radius, depth)
    \/ Clear \/ Release

Spec == Init /\ [][Next]_vars

-----------------------------------------------------------------------------
(* Properties.                                                              *)

\* The values of the queue and of the merge.
TypeOK ==
    /\ QueueTypeOK
    /\ te_buffer \in Seq(Rows) /\ Len(te_buffer) <= tuning.depth
    /\ buffer \subseteq Rows /\ written \subseteq Rows
    /\ last_qt \in Rows \cup {-1} /\ seen \in Rows \cup {-1} /\ sid \in Rows
    /\ tuning \in [radius : Radii, depth : Depths]
    /\ inference \in {"idle", "status", "merged", "append"}
    /\ bare \in BOOLEAN

\* "Frozen untouched": no merge rewrites a row that waits in the robot's queue,
\* although the cursor it goes by is read before and moves meanwhile.
PendingIsFrozen == written \cap TaggedRows = {}

\* The run a merge hands on has no gap before the row append_actions needs next,
\* when a chunk reaches that row, and holds the last row that was committed, for
\* the seam: whatever was aborted, cleared or tuned in the cycles before, as long
\* as no clear comes between the merge and the cursor it went by.  Only a merge
\* that was tuned to a radius of 0, or that finds the cursor back at an older row,
\* lets go of the committed row.
RunSpansSeam ==
    (inference = "merged" /\ queued_through = seen) =>
        /\ FirstNeeded \in Covered(te_buffer) => FirstNeeded \in Run
        /\ (seen > -1 /\ ~bare) => seen \in Run
=============================================================================
