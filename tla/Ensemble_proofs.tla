-------------------------- MODULE Ensemble_proofs --------------------------
(* For every chunk length, tuning and commit-ahead distance: the merge uses   *)
(* the queue as StreamQueue specifies it, leaves rows alone that wait in the   *)
(* robot's queue, and hands on a run without a gap that holds the last         *)
(* committed row.                                                             *)
EXTENDS Ensemble, StreamQueue_proofs

\* The first rows a chunk may have.
Firsts == {r \in Rows : r + ChunkLen - 1 <= MaxRow}

\* The types of the merge.
MergeTypes ==
    /\ te_buffer \in Seq(Firsts) /\ Len(te_buffer) <= tuning.depth
    /\ buffer \subseteq Rows /\ written \subseteq Rows
    /\ last_qt \in Rows \cup {-1} /\ seen \in Rows \cup {-1} /\ sid \in Rows
    /\ inference = "status" => sid \in Firsts
    /\ tuning \in [radius : Radii, depth : Depths]
    /\ inference \in {"idle", "status", "merged", "append"}
    /\ bare \in BOOLEAN

\* The cursor only falls between queue_status and append_actions, and what a merge
\* wrote is beyond the cursor it was given.
BeyondCursor ==
    /\ inference \in {"status", "merged"} => queued_through <= seen
    /\ inference # "merged" => written = {}
    /\ \A r \in written : r > seen

EnsembleInv == QueueInv /\ MergeTypes /\ BeyondCursor

-----------------------------------------------------------------------------
\* The newest of a sequence of chunks are chunks, and at most as many as asked for.
LEMMA NewestChunks ==
    ASSUME NEW chunks \in Seq(Firsts), NEW n \in Nat \ {0}
    PROVE  Newest(chunks, n) \in Seq(Firsts) /\ Len(Newest(chunks, n)) <= n
<1>1. CASE Len(chunks) > n
  <2> DEFINE m == Len(chunks) - n + 1
  <2>1. Len(chunks) \in Nat /\ m \in 1..Len(chunks)
    BY <1>1
  <2>2. SubSeq(chunks, m, Len(chunks)) \in Seq(Firsts)
    BY <2>1, SubSeqProperties
  <2>3. Len(SubSeq(chunks, m, Len(chunks))) = n
    BY <2>1, SubSeqProperties
  <2> QED
    BY <1>1, <2>2, <2>3 DEF Newest
<1>2. CASE ~(Len(chunks) > n)
  BY <1>2 DEF Newest
<1> QED
  BY <1>1, <1>2

\* Chunks cover rows that exist.
LEMMA CoveredRows ==
    ASSUME NEW chunks \in Seq(Firsts)
    PROVE  Covered(chunks) \subseteq Rows
<1> SUFFICES ASSUME NEW i \in DOMAIN chunks, NEW r \in ChunkRows(chunks[i])
             PROVE  r \in Rows
  BY DEF Covered, Range
<1>1. chunks[i] \in Firsts
  OBVIOUS
<1> QED
  BY <1>1, ChunkAssumption, BoundsAssumption DEF Firsts, Rows, ChunkRows

-----------------------------------------------------------------------------
\* The initial state satisfies the invariant.
LEMMA EnsembleStarts == ASSUME Init PROVE EnsembleInv
<1>1. QueueInv
  BY QueueStarts DEF Init
<1>2. te_buffer = <<>> /\ buffer = {} /\ last_qt = -1 /\ queued_through = -1
  BY DEF Init, MergeInit, QueueInit
<1>3. tuning.depth \in Nat \ {0}
  BY TuningAssumption DEF Init
<1>4. te_buffer \in Seq(Firsts) /\ Len(te_buffer) = 0
  BY <1>2
<1>5. Len(te_buffer) <= tuning.depth
  BY <1>3, <1>4
<1>6. MergeTypes
  <2>1. 0 \in Rows
    BY BoundsAssumption DEF Rows
  <2>2. /\ tuning \in [radius : Radii, depth : Depths] /\ inference = "idle"
        /\ sid = 0 /\ seen = -1 /\ written = {} /\ bare = FALSE
    BY DEF Init
  <2> QED
    BY <1>2, <1>4, <1>5, <2>1, <2>2 DEF MergeTypes
<1>7. BeyondCursor
  BY DEF Init, BeyondCursor
<1> QED
  BY <1>1, <1>6, <1>7 DEF EnsembleInv

\* queue_status and the arrival of a chunk.
LEMMA StatusKeeps ==
    ASSUME EnsembleInv, QueueStatus PROVE MergeTypes' /\ BeyondCursor'
<1>1. /\ current_row_id \in Rows /\ queued_through \in Rows \cup {-1}
      /\ queued_through \in Int
  BY BoundsAssumption DEF EnsembleInv, QueueInv, QueueTypeOK, Rows
<1>2. sid' \in Firsts
  BY <1>1, BoundsAssumption DEF EnsembleInv, MergeTypes, QueueStatus, Firsts, Rows
<1>3. MergeTypes'
  BY <1>1, <1>2 DEF EnsembleInv, MergeTypes, QueueStatus, mergeVars, Firsts
<1>4. BeyondCursor'
  BY <1>1 DEF EnsembleInv, BeyondCursor, QueueStatus, mergeVars, queueVars
<1> QED
  BY <1>3, <1>4

\* The merge.
LEMMA MergeKeeps ==
    ASSUME EnsembleInv, Merge PROVE MergeTypes' /\ BeyondCursor'
<1> DEFINE older == IF seen < last_qt THEN <<>> ELSE te_buffer
           kept == IF seen < last_qt THEN {} ELSE buffer
           chunks == Newest(older \o <<sid>>, tuning.depth)
<1>1. /\ inference = "status" /\ inference' = "merged"
      /\ te_buffer' = chunks /\ written' = Mutable(chunks)
      /\ buffer' = Retained(kept \cup Mutable(chunks))
      /\ last_qt' = seen /\ UNCHANGED <<queueVars, tuning, sid, seen>>
  BY DEF Merge
<1>2. tuning.depth \in Nat \ {0} /\ sid \in Firsts
  BY <1>1, TuningAssumption DEF EnsembleInv, MergeTypes
<1>3. older \o <<sid>> \in Seq(Firsts)
  BY <1>2 DEF EnsembleInv, MergeTypes
<1> HIDE DEF older
<1>4. chunks \in Seq(Firsts) /\ Len(chunks) <= tuning.depth
  BY <1>2, <1>3, NewestChunks
<1> HIDE DEF chunks
<1>5. Mutable(chunks) \subseteq Rows /\ \A r \in Mutable(chunks) : r > seen
  BY <1>4, CoveredRows DEF Mutable
<1>6. buffer' \subseteq Rows
  BY <1>1, <1>5 DEF EnsembleInv, MergeTypes, Retained
<1>7. bare' \in BOOLEAN
  BY Zenon DEF Merge
<1>8. MergeTypes'
  BY <1>1, <1>4, <1>5, <1>6, <1>7 DEF EnsembleInv, MergeTypes, Firsts
<1>9. BeyondCursor'
  BY <1>1, <1>5 DEF EnsembleInv, BeyondCursor, queueVars
<1> QED
  BY <1>8, <1>9

\* Offering the run to append_actions.
LEMMA SubmitKeeps ==
    ASSUME EnsembleInv, NEW ahead \in Aheads, Submit(ahead)
    PROVE  [QueueNext]_queueVars /\ MergeTypes' /\ BeyondCursor'
<1>1. Run \subseteq Rows
  BY DEF EnsembleInv, MergeTypes, Run
<1>2. [QueueNext]_queueVars
  BY <1>1 DEF Submit, QueueNext
<1>3. inference' \in {"idle", "append"} /\ written' = {}
      /\ UNCHANGED <<te_buffer, buffer, last_qt, tuning, sid, seen, bare>>
  BY DEF Submit, mergeVars
<1>4. MergeTypes' /\ BeyondCursor'
  BY <1>3 DEF EnsembleInv, MergeTypes, BeyondCursor, Firsts
<1> QED
  BY <1>2, <1>4

\* The other steps touch the queue as one of its operations or the merge alone.
LEMMA OthersKeep ==
    ASSUME EnsembleInv,
           \/ Finish \/ Retreat \/ Clear \/ Release
           \/ \E radius \in Radii, depth \in Depths : Tune(radius, depth)
    PROVE  [QueueNext]_queueVars /\ MergeTypes' /\ BeyondCursor'
<1>1. ASSUME Finish PROVE [QueueNext]_queueVars /\ MergeTypes' /\ BeyondCursor'
  <2>1. [QueueNext]_queueVars
    BY <1>1 DEF Finish, QueueNext
  <2>2. /\ inference' = "idle" /\ inference = "append"
        /\ UNCHANGED <<te_buffer, buffer, last_qt, tuning, sid, seen, written,
                       bare>>
    BY <1>1 DEF Finish, mergeVars
  <2> QED
    BY <2>1, <2>2 DEF EnsembleInv, MergeTypes, BeyondCursor, Firsts
<1>2. ASSUME ClearQueue, UNCHANGED cycleVars, bare' \in BOOLEAN,
             te_buffer' = te_buffer \/ te_buffer' = <<>>,
             buffer' = buffer \/ buffer' = {}, last_qt' = last_qt \/ last_qt' = -1
      PROVE  [QueueNext]_queueVars /\ MergeTypes' /\ BeyondCursor'
  <2>1. [QueueNext]_queueVars
    BY <1>2 DEF QueueNext
  <2>2. queued_through' = -1 /\ bare' \in BOOLEAN
        /\ UNCHANGED <<tuning, inference, sid, seen, written>>
    BY <1>2 DEF ClearQueue, cycleVars
  <2>3. tuning.depth \in Nat /\ seen \in Int /\ -1 <= seen
    <3>1. tuning \in [radius : Radii, depth : Depths] /\ seen \in Rows \cup {-1}
      BY DEF EnsembleInv, MergeTypes
    <3>2. tuning.depth \in Nat
      BY <3>1, TuningAssumption
    <3>3. seen \in Int /\ -1 <= seen
      BY <3>1, BoundsAssumption DEF Rows
    <3> QED
      BY <3>2, <3>3
  <2>4. te_buffer' \in Seq(Firsts) /\ Len(te_buffer') <= tuning.depth
    <3>1. te_buffer \in Seq(Firsts) /\ Len(te_buffer) <= tuning.depth
      BY DEF EnsembleInv, MergeTypes
    <3>2. <<>> \in Seq(Firsts) /\ Len(<<>>) <= tuning.depth
      BY <2>3
    <3> QED
      BY <1>2, <3>1, <3>2
  <2>5. MergeTypes'
    BY <1>2, <2>2, <2>4 DEF EnsembleInv, MergeTypes, Firsts
  <2>6. BeyondCursor'
    BY <2>2, <2>3 DEF EnsembleInv, BeyondCursor
  <2> QED
    BY <2>1, <2>5, <2>6
<1>3. ASSUME Release PROVE [QueueNext]_queueVars /\ MergeTypes' /\ BeyondCursor'
  <2>1. [QueueNext]_queueVars
    BY <1>3 DEF Release, QueueNext
  <2>2. UNCHANGED <<te_buffer, buffer, last_qt, tuning, inference, sid, seen, written,
                    bare, queued_through>>
    BY <1>3 DEF Release, PopNextSubstep, EnqueueManual, mergeVars, cycleVars
  <2> QED
    BY <2>1, <2>2 DEF EnsembleInv, MergeTypes, BeyondCursor, Firsts
<1>4. ASSUME NEW radius \in Radii, NEW depth \in Depths, Tune(radius, depth)
      PROVE  [QueueNext]_queueVars /\ MergeTypes' /\ BeyondCursor'
  <2>1. /\ tuning' = [radius |-> radius, depth |-> depth]
        /\ te_buffer' = Newest(te_buffer, depth)
        /\ UNCHANGED <<queueVars, buffer, last_qt, inference, sid, seen, written,
                       bare>>
    BY <1>4 DEF Tune
  <2>2. te_buffer' \in Seq(Firsts) /\ Len(te_buffer') <= tuning'.depth
    BY <2>1, NewestChunks, TuningAssumption DEF EnsembleInv, MergeTypes
  <2>3. MergeTypes'
    BY <2>1, <2>2 DEF EnsembleInv, MergeTypes, Firsts
  <2> QED
    BY <2>1, <2>3 DEF EnsembleInv, BeyondCursor, queueVars
<1>5. ASSUME Retreat PROVE [QueueNext]_queueVars /\ MergeTypes' /\ BeyondCursor'
  BY <1>5, <1>2 DEF Retreat
<1>6. ASSUME Clear PROVE [QueueNext]_queueVars /\ MergeTypes' /\ BeyondCursor'
  BY <1>6, <1>2 DEF Clear, mergeVars, EnsembleInv, MergeTypes
<1> QED
  BY <1>1, <1>3, <1>4, <1>5, <1>6

\* Every step is one of the queue's or leaves the queue alone, and keeps the
\* invariant.
LEMMA EnsembleSteps ==
    ASSUME EnsembleInv, [Next]_vars
    PROVE  [QueueNext]_queueVars /\ EnsembleInv'
<1>1. [QueueNext]_queueVars /\ MergeTypes' /\ BeyondCursor'
  <2>1. CASE QueueStatus
    BY <2>1, StatusKeeps DEF QueueStatus
  <2>2. CASE Merge
    BY <2>2, MergeKeeps DEF Merge
  <2>3. CASE \E ahead \in Aheads : Submit(ahead)
    BY <2>3, SubmitKeeps
  <2>4. CASE UNCHANGED vars
    BY <2>4 DEF vars, mergeVars, cycleVars, queueVars, EnsembleInv, MergeTypes,
       BeyondCursor, Firsts
  <2> QED
    BY <2>1, <2>2, <2>3, <2>4, OthersKeep DEF Next
<1>2. QueueInv'
  BY <1>1, QueueSteps DEF EnsembleInv
<1> QED
  BY <1>1, <1>2 DEF EnsembleInv

\* The inductive invariant always holds.
THEOREM EnsembleInvariant == Spec => []EnsembleInv
BY EnsembleStarts, EnsembleSteps, PTL DEF Spec

-----------------------------------------------------------------------------
\* The inference thread, the E-stop, the retreats and the release thread together
\* use the queue as StreamQueue lets them ...
THEOREM MergeUsesQueue == Spec => QueueSpec
<1>1. Init => QueueInit
  BY DEF Init
<1> QED
  BY <1>1, EnsembleSteps, EnsembleInvariant, PTL DEF Spec, QueueSpec

\* ... so that the rows the merge hands on reach the arm as RowStream promises.
THEOREM MergeStreams == Spec => StreamSpec
BY MergeUsesQueue, QueueImplementsStream, PTL

\* Types of the queue and of the merge.
THEOREM EnsembleTypes == Spec => []TypeOK
<1>1. EnsembleInv => TypeOK
  <2> SUFFICES ASSUME EnsembleInv PROVE TypeOK
    OBVIOUS
  <2>1. te_buffer \in Seq(Rows)
    BY DEF EnsembleInv, MergeTypes, Firsts
  <2> QED
    BY <2>1 DEF EnsembleInv, MergeTypes, TypeOK, QueueInv
<1> QED
  BY <1>1, EnsembleInvariant, PTL

\* A row that waits in the robot's queue is not written anew: the cursor a merge
\* goes by can only have fallen since it was read.
THEOREM FrozenStays == Spec => []PendingIsFrozen
<1>1. EnsembleInv => PendingIsFrozen
  <2> SUFFICES ASSUME EnsembleInv, NEW r \in written, r \in TaggedRows PROVE FALSE
    BY DEF PendingIsFrozen
  <2>1. inference = "merged" /\ r > seen /\ queued_through <= seen
    BY DEF EnsembleInv, BeyondCursor
  <2>2. r \in current_row_id..queued_through
    BY DEF EnsembleInv, QueueInv, StreamOrder, TaggedRows
  <2>3. seen \in Int /\ queued_through \in Int /\ r \in Int
    BY BoundsAssumption DEF EnsembleInv, MergeTypes, QueueInv, QueueTypeOK, Rows
  <2> QED
    BY <2>1, <2>2, <2>3
<1> QED
  BY <1>1, EnsembleInvariant, PTL

-----------------------------------------------------------------------------
(* RunSpansSeam.  Where the rows of the buffer lie relative to the clock, the *)
(* cursor and the newest chunk, between merges as well as after one.          *)

\* No row is missing between a row of the buffer and the cursor, or the clock.
Gapless ==
    /\ \A low \in buffer : low <= queued_through => low..queued_through \subseteq buffer
    /\ \A low \in buffer : low <= current_row_id => low..(current_row_id - 1) \subseteq buffer

\* The buffer holds what its chunks cover, the newest of which reaches furthest.
HoldsChunks ==
    /\ {r \in Covered(te_buffer) : r > last_qt} \subseteq buffer
    /\ \A r \in buffer \cup {queued_through, current_row_id} : r <= sid + ChunkLen - 1

\* The cursor read for a merge is still the cursor, unless that was reset, and
\* not behind the clock.
SeenCursor ==
    /\ inference \in {"status", "merged"} =>
          /\ queued_through \in {seen, -1}
          /\ seen > -1 => current_row_id <= seen
    /\ inference = "merged" => last_qt = seen

\* The row under the cursor is in the buffer, unless it is bare.
HoldsCursor ==
    (queued_through > -1 /\ (~bare \/ queued_through # last_qt)) => queued_through \in buffer

\* A call in flight was offered the run that is still in the buffer.
Offered == append.busy => inference = "append" /\ append.last_id \in Run

SeamInv == Gapless /\ HoldsChunks /\ SeenCursor /\ HoldsCursor /\ Offered

\* The types the arithmetic of the proofs needs.
LEMMA RowTypes ==
    ASSUME EnsembleInv
    PROVE  /\ buffer \subseteq Nat /\ current_row_id \in Nat /\ sid \in Nat
           /\ queued_through \in Int /\ -1 <= queued_through
           /\ seen \in Int /\ -1 <= seen /\ last_qt \in Int /\ -1 <= last_qt
           /\ tuning.radius \in Nat /\ tuning.depth \in Nat \ {0} /\ ChunkLen \in Nat \ {0}
           /\ append.last_id \in Nat
           /\ te_buffer \in Seq(Firsts) /\ Firsts \subseteq Nat
<1>1. Rows \subseteq Nat
  BY BoundsAssumption DEF Rows
<1>2. /\ current_row_id \in Rows /\ queued_through \in Rows \cup {-1} /\ append.last_id \in Rows
  BY DEF EnsembleInv, QueueInv, QueueTypeOK, AppendCall
<1>3. /\ buffer \subseteq Rows /\ sid \in Rows /\ seen \in Rows \cup {-1}
      /\ last_qt \in Rows \cup {-1} /\ tuning \in [radius : Radii, depth : Depths]
      /\ te_buffer \in Seq(Firsts)
  BY DEF EnsembleInv, MergeTypes
<1>4. tuning.radius \in Nat /\ tuning.depth \in Nat \ {0}
  BY <1>3, TuningAssumption
<1>5. Firsts \subseteq Nat
  BY <1>1 DEF Firsts
<1>6. \A r \in Rows \cup {-1} : r \in Int /\ -1 <= r
  BY <1>1
<1>7. /\ queued_through \in Int /\ -1 <= queued_through
      /\ seen \in Int /\ -1 <= seen /\ last_qt \in Int /\ -1 <= last_qt
  BY <1>2, <1>3, <1>6
<1>8. /\ buffer \subseteq Nat /\ current_row_id \in Nat /\ sid \in Nat
      /\ append.last_id \in Nat
  BY <1>1, <1>2, <1>3
<1> QED
  BY <1>3, <1>4, <1>5, <1>7, <1>8, ChunkAssumption

\* The newest chunks cover no other rows, and all rows of the last.
LEMMA NewestCovers ==
    ASSUME NEW chunks \in Seq(Firsts), NEW n \in Nat \ {0}
    PROVE  /\ Covered(Newest(chunks, n)) \subseteq Covered(chunks)
           /\ chunks # <<>> => ChunkRows(chunks[Len(chunks)]) \subseteq Covered(Newest(chunks, n))
<1>1. Len(chunks) \in Nat /\ DOMAIN chunks = 1..Len(chunks)
  OBVIOUS
<1>2. CASE Len(chunks) > n
  <2>1. PICK m : m = Len(chunks) - n + 1
    OBVIOUS
  <2>2. m \in 1..Len(chunks) /\ m \in Int
    BY <1>1, <1>2, <2>1
  <2>3. PICK w : w = SubSeq(chunks, m, Len(chunks))
    OBVIOUS
  <2>4. /\ w \in Seq(Firsts) /\ Len(w) = n /\ DOMAIN w = 1..n
        /\ \A i \in 1..n : w[i] = chunks[m + i - 1]
    BY <1>1, <2>1, <2>2, <2>3, SubSeqProperties
  <2>5. Newest(chunks, n) = w
    BY <1>2, <2>1, <2>3 DEF Newest
  <2>6. \A i \in 1..n : m + i - 1 \in 1..Len(chunks)
    BY <1>1, <2>1, <2>2
  <2>7. Covered(w) \subseteq Covered(chunks)
    BY <1>1, <2>4, <2>6 DEF Covered, Range
  <2>8. n \in 1..n /\ w[n] = chunks[Len(chunks)]
    BY <1>1, <2>1, <2>4
  <2>9. ChunkRows(w[n]) \subseteq Covered(w)
    BY <2>4, <2>8 DEF Covered, Range
  <2> QED
    BY <2>5, <2>7, <2>8, <2>9
<1>3. CASE ~(Len(chunks) > n)
  <2>1. Newest(chunks, n) = chunks
    BY <1>3 DEF Newest
  <2>2. ASSUME chunks # <<>> PROVE ChunkRows(chunks[Len(chunks)]) \subseteq Covered(chunks)
    <3>1. Len(chunks) \in DOMAIN chunks
      BY <1>1, <2>2
    <3> QED
      BY <3>1 DEF Covered, Range
  <2> QED
    BY <2>1, <2>2
<1> QED
  BY <1>2, <1>3

\* A chunk more covers its own rows.
LEMMA ChunkJoins ==
    ASSUME NEW chunks \in Seq(Firsts), NEW first \in Firsts
    PROVE  /\ chunks \o <<first>> \in Seq(Firsts) /\ chunks \o <<first>> # <<>>
           /\ (chunks \o <<first>>)[Len(chunks \o <<first>>)] = first
           /\ Covered(chunks \o <<first>>) \subseteq Covered(chunks) \cup ChunkRows(first)
<1>1. PICK w : w = chunks \o <<first>>
  OBVIOUS
<1>2. /\ w \in Seq(Firsts) /\ Len(chunks) \in Nat /\ Len(w) = Len(chunks) + 1
      /\ \A i \in 1..Len(chunks) : w[i] = chunks[i]
      /\ w[Len(chunks) + 1] = first
  BY <1>1, ConcatElements
<1>3. ASSUME NEW i \in 1..Len(w) PROVE ChunkRows(w[i]) \subseteq Covered(chunks) \cup ChunkRows(first)
  <2>1. CASE i \in 1..Len(chunks)
    BY <1>2, <2>1 DEF Covered, Range
  <2>2. CASE i = Len(chunks) + 1
    BY <1>2, <2>2
  <2> QED
    BY <1>2, <2>1, <2>2
<1>4. Covered(w) \subseteq Covered(chunks) \cup ChunkRows(first)
  BY <1>2, <1>3 DEF Covered, Range
<1> QED
  BY <1>1, <1>2, <1>4

-----------------------------------------------------------------------------
\* A step that leaves the merge and the queue's numbers alone.
LEMMA SeamStays ==
    ASSUME EnsembleInv, SeamInv,
           UNCHANGED <<te_buffer, buffer, last_qt, bare, sid, seen, current_row_id>>,
           queued_through' \in {queued_through, -1},
           inference' = inference \/ inference' \in {"append", "idle"},
           append'.busy => inference' = "append" /\ append'.last_id \in Run
    PROVE  SeamInv'
<1>1. Run' = Run /\ Covered(te_buffer') = Covered(te_buffer)
  BY DEF Run
<1>2. /\ buffer \subseteq Nat /\ sid \in Nat /\ current_row_id \in Nat
      /\ queued_through \in Int /\ -1 <= queued_through /\ ChunkLen \in Nat \ {0}
  BY RowTypes
<1>3. Gapless'
  <2>1. ASSUME NEW low \in buffer, low <= queued_through' PROVE queued_through' = queued_through
    BY <1>2, <2>1
  <2> QED
    BY <2>1 DEF SeamInv, Gapless
<1>4. HoldsChunks'
  <2>1. \A r \in buffer \cup {queued_through, current_row_id, -1} : r <= sid + ChunkLen - 1
    BY <1>2 DEF SeamInv, HoldsChunks
  <2>2. {r \in Covered(te_buffer) : r > last_qt} \subseteq buffer
    BY DEF SeamInv, HoldsChunks
  <2> QED
    BY <1>1, <2>1, <2>2 DEF HoldsChunks
<1>5. SeenCursor'
  BY DEF SeamInv, SeenCursor
<1>6. HoldsCursor'
  BY DEF SeamInv, HoldsCursor
<1>7. Offered'
  BY <1>1 DEF Offered
<1> QED
  BY <1>3, <1>4, <1>5, <1>6, <1>7 DEF SeamInv

\* Reading the cursor for a chunk that is not older than the last.
LEMMA SeamStatus ==
    ASSUME EnsembleInv, SeamInv, QueueStatus PROVE SeamInv'
<1>1. /\ inference = "idle" /\ inference' = "status" /\ sid' \in sid..current_row_id
      /\ seen' = queued_through
      /\ UNCHANGED <<te_buffer, buffer, last_qt, bare, queued_through, current_row_id, append>>
  BY DEF QueueStatus, queueVars, mergeVars
<1>2. /\ sid \in Nat /\ current_row_id \in Nat /\ buffer \subseteq Nat
      /\ queued_through \in Int /\ -1 <= queued_through /\ ChunkLen \in Nat
  BY RowTypes
<1>3. Gapless' /\ HoldsCursor'
  BY <1>1 DEF SeamInv, Gapless, HoldsCursor
<1>4. HoldsChunks'
  <2>1. \A r \in buffer \cup {queued_through, current_row_id} : r <= sid' + ChunkLen - 1
    <3>1. \A a, b, c, d \in Int : a <= b + c - 1 /\ b <= d => a <= d + c - 1
      OBVIOUS
    <3>2. PICK n \in Int : n = sid' /\ sid <= n
      BY <1>1, <1>2
    <3>3. sid \in Int /\ ChunkLen \in Int
      BY <1>2
    <3>4. \A r \in Int : r <= sid + ChunkLen - 1 => r <= n + ChunkLen - 1
      BY <3>1, <3>2, <3>3, Zenon
    <3>5. \A r \in buffer \cup {queued_through, current_row_id} :
             r \in Int /\ r <= sid + ChunkLen - 1
      BY <1>2 DEF SeamInv, HoldsChunks
    <3> QED
      BY <3>2, <3>4, <3>5
  <2>2. {r \in Covered(te_buffer) : r > last_qt} \subseteq buffer
    BY DEF SeamInv, HoldsChunks
  <2>3. Covered(te_buffer') = Covered(te_buffer)
    BY <1>1
  <2> QED
    BY <1>1, <2>1, <2>2, <2>3 DEF HoldsChunks
<1>5. queued_through = -1 \/ queued_through >= current_row_id
  BY DEF EnsembleInv, QueueInv, CursorNotBehind
<1>6. SeenCursor'
  BY <1>1, <1>2, <1>5 DEF SeenCursor
<1>7. Offered'
  BY <1>1 DEF SeamInv, Offered
<1> QED
  BY <1>3, <1>4, <1>6, <1>7 DEF SeamInv

\* The merge.
LEMMA SeamMerge ==
    ASSUME EnsembleInv, SeamInv, Merge PROVE SeamInv'
<1>1. PICK older, kept, chunks :
        /\ older = IF seen < last_qt THEN <<>> ELSE te_buffer
        /\ kept = IF seen < last_qt THEN {} ELSE buffer
        /\ chunks = Newest(older \o <<sid>>, tuning.depth)
  OBVIOUS
<1>2. /\ inference = "status" /\ inference' = "merged"
      /\ te_buffer' = chunks /\ buffer' = Retained(kept \cup Mutable(chunks))
      /\ last_qt' = seen
      /\ UNCHANGED <<queued_through, current_row_id, append, sid, seen>>
  BY <1>1 DEF Merge, queueVars
<1>3. /\ buffer \subseteq Nat /\ current_row_id \in Nat /\ sid \in Nat
      /\ queued_through \in Int /\ -1 <= queued_through
      /\ seen \in Int /\ -1 <= seen /\ last_qt \in Int /\ -1 <= last_qt
      /\ tuning.radius \in Nat /\ tuning.depth \in Nat \ {0} /\ ChunkLen \in Nat \ {0}
      /\ te_buffer \in Seq(Firsts) /\ Firsts \subseteq Nat
  BY RowTypes
<1>4. sid \in Firsts
  BY <1>2 DEF EnsembleInv, MergeTypes
<1>5. older \in Seq(Firsts) /\ Covered(older) \subseteq Covered(te_buffer)
  BY <1>1, <1>3 DEF Covered, Range
<1>6. /\ Covered(chunks) \subseteq Covered(older) \cup ChunkRows(sid)
      /\ ChunkRows(sid) \subseteq Covered(chunks)
  <2>1. PICK w : w = older \o <<sid>>
    OBVIOUS
  <2>2. /\ w \in Seq(Firsts) /\ w # <<>> /\ w[Len(w)] = sid
        /\ Covered(w) \subseteq Covered(older) \cup ChunkRows(sid)
    BY <1>4, <1>5, <2>1, ChunkJoins
  <2>3. /\ Covered(Newest(w, tuning.depth)) \subseteq Covered(w)
        /\ ChunkRows(w[Len(w)]) \subseteq Covered(Newest(w, tuning.depth))
    BY <1>3, <2>2, NewestCovers
  <2> QED
    BY <1>1, <2>1, <2>2, <2>3
<1>7. \A r : r \in buffer' <=> /\ r \in kept \/ (r \in Covered(chunks) /\ r > seen)
                               /\ r >= seen - tuning.radius + 1
  BY <1>2 DEF Retained, Mutable
<1>8. queued_through \in {seen, -1} /\ (seen > -1 => current_row_id <= seen)
  BY <1>2 DEF SeamInv, SeenCursor
<1>9. kept \subseteq buffer
  BY <1>1
<1>10. Covered(chunks) \subseteq Int
  <2>1. Covered(te_buffer) \subseteq Rows
    BY <1>3, CoveredRows
  <2>2. ChunkRows(sid) \subseteq Int
    BY <1>3 DEF ChunkRows
  <2> QED
    BY <1>5, <1>6, <2>1, <2>2, BoundsAssumption DEF Rows
\* The rows up to the cursor are the old ones.
<1>11. ASSUME NEW low \in buffer', low <= queued_through, NEW r \in low..queued_through
       PROVE  r \in buffer'
  <2>1. queued_through = seen /\ low \in kept /\ low >= seen - tuning.radius + 1
    <3>1. low \in kept \/ (low \in Int /\ low > seen)
      BY <1>7, <1>10, <1>11
    <3>2. low \in kept
      BY <1>3, <1>8, <1>11, <3>1
    <3>3. low \in Nat
      BY <1>3, <1>9, <3>2
    <3> QED
      BY <1>3, <1>7, <1>8, <1>11, <3>2, <3>3
  <2>2. kept = buffer
    BY <1>1, <2>1
  <2>3. r \in buffer
    BY <1>11, <2>1, <2>2 DEF SeamInv, Gapless
  <2> QED
    BY <1>3, <1>7, <1>11, <2>1, <2>2, <2>3
<1>12. ASSUME NEW low \in buffer', low <= current_row_id, NEW r \in low..(current_row_id - 1)
       PROVE  r \in buffer'
  <2>1. CASE low \in kept
    <3>1. kept = buffer /\ low >= seen - tuning.radius + 1 /\ low \in Nat
      BY <1>1, <1>3, <1>7, <2>1
    <3>2. r \in buffer
      BY <1>12, <2>1, <3>1 DEF SeamInv, Gapless
    <3> QED
      BY <1>3, <1>7, <1>12, <3>1, <3>2
  <2>2. CASE low \notin kept
    <3>1. low \in Covered(chunks) /\ low > seen /\ low \in Int
      BY <1>7, <1>10, <2>2
    <3>2. seen = -1
      BY <1>3, <1>8, <1>12, <3>1
    <3>3. low \in ChunkRows(sid)
      <4>1. CASE low \in Covered(older)
        <5>1. ~(seen < last_qt)
          <6>1. CASE seen < last_qt
            BY <1>1, <4>1, <6>1 DEF Covered, Range
          <6> QED
            BY <6>1
        <5>2. older = te_buffer /\ kept = buffer /\ last_qt = -1
          BY <1>1, <1>3, <3>2, <5>1
        <5>3. low \in buffer
          BY <3>1, <3>2, <4>1, <5>2 DEF SeamInv, HoldsChunks
        <5> QED
          BY <2>2, <5>2, <5>3
      <4> QED
        BY <1>6, <3>1, <4>1
    <3>4. current_row_id <= sid + ChunkLen - 1
      BY DEF SeamInv, HoldsChunks
    <3>5. r \in ChunkRows(sid) /\ r > seen /\ r \in Int /\ r >= seen - tuning.radius + 1
      BY <1>3, <1>12, <3>1, <3>2, <3>3, <3>4 DEF ChunkRows
    <3> QED
      BY <1>6, <1>7, <3>5
  <2> QED
    BY <2>1, <2>2
<1>13. Gapless'
  BY <1>2, <1>11, <1>12 DEF Gapless
<1>14. HoldsChunks'
  <2>1. ASSUME NEW r \in Covered(chunks), r > seen PROVE r \in buffer'
    BY <1>3, <1>7, <1>10, <2>1
  <2>2. ASSUME NEW r \in buffer' PROVE r <= sid + ChunkLen - 1
    <3>1. CASE r \in buffer
      BY <3>1 DEF SeamInv, HoldsChunks
    <3>2. CASE r \in Covered(older) /\ r > seen /\ r \notin buffer
      <4>1. r \in Covered(te_buffer) /\ ~(r > last_qt)
        BY <1>5, <3>2 DEF SeamInv, HoldsChunks
      <4>2. seen < last_qt
        BY <1>3, <1>10, <3>2, <4>1, <1>5, CoveredRows, BoundsAssumption DEF Rows
      <4> QED
        BY <1>1, <3>2, <4>2 DEF Covered, Range
    <3>3. CASE r \in ChunkRows(sid)
      BY <1>3, <3>3 DEF ChunkRows
    <3> QED
      BY <1>6, <1>7, <1>9, <3>1, <3>2, <3>3
  <2>3. \A r \in {queued_through, current_row_id} : r <= sid + ChunkLen - 1
    BY DEF SeamInv, HoldsChunks
  <2> QED
    BY <1>2, <2>1, <2>2, <2>3 DEF HoldsChunks
<1>15. SeenCursor'
  BY <1>2, <1>8 DEF SeenCursor
<1>16. HoldsCursor'
  <2> SUFFICES ASSUME queued_through > -1, ~bare' PROVE queued_through \in buffer'
    <3>1. queued_through > -1 => queued_through = last_qt'
      BY <1>2, <1>3, <1>8
    <3> QED
      BY <1>2, <3>1 DEF HoldsCursor
  <2>1. ~(seen < last_qt) /\ tuning.radius # 0 /\ (~bare \/ seen # last_qt)
    BY DEF Merge
  <2>2. queued_through = seen
    BY <1>3, <1>8
  <2>3. queued_through \in buffer
    BY <2>1, <2>2 DEF SeamInv, HoldsCursor
  <2>4. kept = buffer
    BY <1>1, <2>1
  <2> QED
    BY <1>3, <1>7, <2>1, <2>2, <2>3, <2>4
<1>17. Offered'
  BY <1>2 DEF SeamInv, Offered
<1> QED
  BY <1>13, <1>14, <1>15, <1>16, <1>17 DEF SeamInv

\* The run is offered from its first row to its last.
LEMMA SeamSubmit ==
    ASSUME EnsembleInv, SeamInv, NEW ahead \in Aheads, Submit(ahead) PROVE SeamInv'
<1>1. /\ inference = "merged" /\ inference' \in {"append", "idle"}
      /\ UNCHANGED <<te_buffer, buffer, last_qt, bare, sid, seen, current_row_id,
                     queued_through>>
  BY DEF Submit, mergeVars, AppendRead, queueVars
<1>2. ~append.busy
  BY <1>1 DEF SeamInv, Offered
<1>3. append'.busy => inference' = "append" /\ append'.last_id \in Run
  <2>1. CASE inference' = "idle" /\ UNCHANGED queueVars
    BY <1>2, <2>1 DEF queueVars
  <2>2. ASSUME NEW base \in Run, NEW end \in Run, AppendRead(base, end, ahead),
               inference' = "append"
        PROVE  append'.last_id \in Run
    <3>1. PICK n : /\ n = append'.last_id /\ base <= FirstNeeded /\ FirstNeeded <= n
                   /\ n = IF LastNeeded(ahead) < end THEN LastNeeded(ahead) ELSE end
      BY <2>2 DEF AppendRead
    <3>2. /\ buffer \subseteq Nat /\ current_row_id \in Nat /\ queued_through \in Int
          /\ ahead \in Int /\ base \in Nat /\ end \in Nat /\ base \in buffer
      BY RowTypes, AheadAssumption DEF Run
    <3>3. n \in base..end
      BY <3>1, <3>2 DEF FirstNeeded, LastNeeded
    <3>4. n \in buffer
      BY <3>2, <3>3 DEF Run
    <3>5. ASSUME NEW low \in buffer PROVE low..n \subseteq buffer
      <4>1. low..end \subseteq buffer /\ low \in Nat
        BY <3>2 DEF Run
      <4> QED
        BY <3>2, <3>3, <4>1
    <3> QED
      BY <3>1, <3>4, <3>5 DEF Run
  <2> QED
    BY <2>1, <2>2 DEF Submit
<1> QED
  BY <1>1, <1>3, SeamStays

\* What was validated joins the queue, or the call is given up.
LEMMA SeamFinish ==
    ASSUME EnsembleInv, SeamInv, Finish PROVE SeamInv'
<1>1. /\ inference = "append" /\ inference' = "idle"
      /\ UNCHANGED <<te_buffer, buffer, last_qt, bare, sid, seen>>
  BY DEF Finish, mergeVars
<1>2. CASE AppendAbort
  <2>1. ~append'.busy /\ UNCHANGED <<current_row_id, queued_through>>
    BY <1>2 DEF AppendAbort, NoAppend
  <2> QED
    BY <1>1, <2>1, SeamStays
<1>3. ASSUME NEW traj \in Expansions(append.start_id, append.last_id), NEW tag \in Tags,
             AppendSplice(traj, tag)
      PROVE  SeamInv'
  <2>1. /\ queued_through' = append.last_id /\ append' = NoAppend
        /\ current_row_id' = current_row_id /\ append.busy
    BY <1>3, SpliceIsWhole DEF EnsembleInv
  <2>2. append.last_id \in Run
    BY <2>1 DEF SeamInv, Offered
  <2>3. append.last_id \in buffer /\ \A low \in buffer : low..append.last_id \subseteq buffer
    BY <2>2 DEF Run
  <2>4. Gapless'
    BY <1>1, <2>1, <2>3 DEF SeamInv, Gapless
  <2>5. HoldsChunks'
    <3>1. Covered(te_buffer') = Covered(te_buffer)
      BY <1>1
    <3> QED
      BY <1>1, <2>1, <2>3, <3>1 DEF SeamInv, HoldsChunks
  <2>6. SeenCursor' /\ HoldsCursor' /\ Offered'
    BY <1>1, <2>1, <2>3 DEF SeenCursor, HoldsCursor, Offered, NoAppend
  <2> QED
    BY <2>4, <2>5, <2>6 DEF SeamInv
<1> QED
  BY <1>2, <1>3 DEF Finish

\* The release thread: the clock follows rows the cursor has passed.
LEMMA SeamRelease ==
    ASSUME EnsembleInv, SeamInv, Release PROVE SeamInv'
<1>1. /\ UNCHANGED <<te_buffer, buffer, last_qt, bare, sid, seen, inference, append,
                     queued_through>>
  BY DEF Release, PopNextSubstep, EnqueueManual, mergeVars, cycleVars
<1>2. Run' = Run /\ Covered(te_buffer') = Covered(te_buffer)
  BY <1>1 DEF Run
<1>3. CASE UNCHANGED current_row_id
  <2>1. append'.busy => inference' = "append" /\ append'.last_id \in Run
    BY <1>1 DEF SeamInv, Offered
  <2> QED
    BY <1>1, <1>3, <2>1, SeamStays
<1>4. CASE current_row_id' \in current_row_id..queued_through
  <2>1. /\ buffer \subseteq Nat /\ sid \in Nat /\ current_row_id \in Nat
        /\ queued_through \in Int /\ ChunkLen \in Nat \ {0} /\ seen \in Int
    BY RowTypes
  <2>2. PICK row \in Nat : row = current_row_id' /\ row <= queued_through
    BY <1>4, <2>1
  <2>3. Gapless'
    <3>1. ASSUME NEW low \in buffer, low <= row, NEW r \in low..(row - 1) PROVE r \in buffer
      <4>1. low \in Nat
        BY <2>1
      <4>2. row <= queued_through /\ row \in Int /\ queued_through \in Int
        BY <2>1, <2>2
      <4>3. low <= queued_through /\ r \in low..queued_through
        BY <3>1, <4>1, <4>2
      <4> QED
        BY <4>3 DEF SeamInv, Gapless
    <3> QED
      BY <1>1, <2>2, <3>1 DEF SeamInv, Gapless
  <2>4. HoldsChunks'
    <3>1. row <= sid + ChunkLen - 1
      BY <2>1, <2>2 DEF SeamInv, HoldsChunks
    <3> QED
      BY <1>1, <1>2, <2>2, <3>1 DEF SeamInv, HoldsChunks
  <2>5. SeenCursor'
    BY <1>1, <2>1, <2>2 DEF SeamInv, SeenCursor
  <2>6. HoldsCursor' /\ Offered'
    BY <1>1, <1>2 DEF SeamInv, HoldsCursor, Offered
  <2> QED
    BY <2>3, <2>4, <2>5, <2>6 DEF SeamInv
<1>5. CASE PopNextSubstep
  <2>1. QueueTypeOK /\ StreamOrder
    BY DEF EnsembleInv, QueueInv
  <2>2. CASE IsTagged(robot_q[1])
    <3>1. 1 \in TaggedIn(robot_q) /\ current_row_id' = robot_q[1].row
      BY <1>5, <2>1, <2>2, PopRows
    <3>2. robot_q[1].row \in current_row_id..queued_through
      BY <2>1, <3>1 DEF StreamOrder
    <3> QED
      BY <1>4, <3>1, <3>2
  <2>3. CASE ~IsTagged(robot_q[1])
    BY <1>3, <1>5, <2>1, <2>3, PopRows
  <2> QED
    BY <2>2, <2>3
<1>6. CASE \E subs \in ManualBatches : EnqueueManual(subs)
  BY <1>3, <1>6 DEF EnqueueManual
<1> QED
  BY <1>5, <1>6 DEF Release

\* Clears, retreats and the tuning controls.
LEMMA SeamOthers ==
    ASSUME EnsembleInv, SeamInv,
           Clear \/ Retreat \/ \E radius \in Radii, depth \in Depths : Tune(radius, depth)
    PROVE  SeamInv'
<1>1. CASE Clear
  <2>1. /\ UNCHANGED <<te_buffer, buffer, last_qt, bare, sid, seen, inference, append,
                       current_row_id>>
        /\ queued_through' = -1
    BY <1>1 DEF Clear, ClearQueue, mergeVars, cycleVars
  <2>2. append'.busy => inference' = "append" /\ append'.last_id \in Run
    BY <2>1 DEF SeamInv, Offered
  <2> QED
    BY <2>1, <2>2, SeamStays
<1>2. CASE Retreat
  <2>1. /\ inference' = "idle" /\ te_buffer' = <<>> /\ buffer' = {}
        /\ queued_through' = -1 /\ last_qt' = -1 /\ ~append.busy
        /\ UNCHANGED <<sid, append, current_row_id>>
    BY <1>2 DEF Retreat, ClearQueue, cycleVars, SeamInv, Offered
  <2>2. Covered(te_buffer') = {}
    BY <2>1 DEF Covered, Range
  <2>3. -1 <= sid + ChunkLen - 1 /\ current_row_id <= sid + ChunkLen - 1
    BY RowTypes DEF SeamInv, HoldsChunks
  <2> QED
    BY <2>1, <2>2, <2>3
    DEF SeamInv, Gapless, HoldsChunks, SeenCursor, HoldsCursor, Offered
<1>3. ASSUME NEW radius \in Radii, NEW depth \in Depths, Tune(radius, depth) PROVE SeamInv'
  <2>1. /\ te_buffer' = Newest(te_buffer, depth) /\ inference' = inference /\ inference = "idle"
        /\ UNCHANGED <<buffer, last_qt, bare, sid, seen, append, current_row_id,
                       queued_through>>
    BY <1>3 DEF Tune, queueVars
  <2>2. depth \in Nat \ {0} /\ te_buffer \in Seq(Firsts)
    BY RowTypes, TuningAssumption
  <2>3. Covered(te_buffer') \subseteq Covered(te_buffer)
    BY <2>1, <2>2, NewestCovers
  <2>4. Run' = Run
    BY <2>1 DEF Run
  <2>5. HoldsChunks'
    BY <2>1, <2>3 DEF SeamInv, HoldsChunks
  <2> QED
    BY <2>1, <2>4, <2>5 DEF SeamInv, Gapless, SeenCursor, HoldsCursor, Offered
<1> QED
  BY <1>1, <1>2, <1>3

\* The run of a merge spans the seam: for every chunk length, radius, depth and
\* commit-ahead distance, whichever validations were given up, whenever the queue
\* was cleared, and however far the clock came meanwhile.
THEOREM RunSpans == Spec => []RunSpansSeam
<1>1. Init => SeamInv
  <2> SUFFICES ASSUME Init PROVE SeamInv
    OBVIOUS
  <2>1. /\ te_buffer = <<>> /\ buffer = {} /\ last_qt = -1 /\ queued_through = -1
        /\ current_row_id = 0 /\ sid = 0 /\ inference = "idle" /\ ~append.busy
    BY DEF Init, MergeInit, QueueInit, NoAppend
  <2>2. Covered(te_buffer) = {}
    BY <2>1 DEF Covered, Range
  <2>3. ChunkLen \in Nat \ {0}
    BY ChunkAssumption
  <2> QED
    BY <2>1, <2>2, <2>3
    DEF SeamInv, Gapless, HoldsChunks, SeenCursor, HoldsCursor, Offered
<1>2. EnsembleInv /\ SeamInv /\ [Next]_vars => SeamInv'
  <2> SUFFICES ASSUME EnsembleInv, SeamInv, [Next]_vars PROVE SeamInv'
    OBVIOUS
  <2>1. CASE UNCHANGED vars
    <3>1. /\ UNCHANGED <<te_buffer, buffer, last_qt, bare, sid, seen, current_row_id,
                         queued_through, inference, append>>
      BY <2>1 DEF vars, queueVars, mergeVars, cycleVars
    <3>2. append'.busy => inference' = "append" /\ append'.last_id \in Run
      BY <3>1 DEF SeamInv, Offered
    <3> QED
      BY <3>1, <3>2, SeamStays
  <2> QED
    BY <2>1, SeamStatus, SeamMerge, SeamSubmit, SeamFinish, SeamRelease, SeamOthers DEF Next
<1>3. EnsembleInv /\ SeamInv => RunSpansSeam
  <2> SUFFICES ASSUME EnsembleInv, SeamInv, inference = "merged", queued_through = seen
               PROVE  /\ FirstNeeded \in Covered(te_buffer) => FirstNeeded \in Run
                      /\ (seen > -1 /\ ~bare) => seen \in Run
    BY DEF RunSpansSeam
  <2>1. /\ buffer \subseteq Nat /\ current_row_id \in Nat /\ queued_through \in Int
        /\ -1 <= queued_through /\ last_qt = queued_through
    BY RowTypes DEF SeamInv, SeenCursor
  <2>2. ASSUME FirstNeeded \in Covered(te_buffer) PROVE FirstNeeded \in Run
    <3>1. FirstNeeded \in Nat /\ FirstNeeded > last_qt
      BY <2>1 DEF FirstNeeded
    <3>2. FirstNeeded \in buffer
      BY <2>2, <3>1 DEF SeamInv, HoldsChunks
    <3>3. ASSUME NEW low \in buffer, NEW r \in low..FirstNeeded, r # FirstNeeded
          PROVE  r \in buffer
      <4>1. low \in Nat /\ r \in Nat /\ low <= r /\ r < FirstNeeded
        BY <2>1, <3>1, <3>3
      <4>2. CASE FirstNeeded = queued_through + 1
        <5>1. low <= queued_through /\ r \in low..queued_through
          BY <2>1, <4>1, <4>2
        <5> QED
          BY <5>1 DEF SeamInv, Gapless
      <4>3. CASE FirstNeeded = current_row_id
        <5>1. low <= current_row_id /\ r \in low..(current_row_id - 1)
          BY <2>1, <4>1, <4>3
        <5> QED
          BY <5>1 DEF SeamInv, Gapless
      <4> QED
        BY <4>2, <4>3 DEF FirstNeeded
    <3> QED
      BY <3>2, <3>3 DEF Run
  <2>3. ASSUME seen > -1, ~bare PROVE seen \in Run
    <3>1. seen \in buffer
      BY <2>3 DEF SeamInv, HoldsCursor
    <3>2. ASSUME NEW low \in buffer PROVE low..seen \subseteq buffer
      <4>1. CASE low <= queued_through
        BY <4>1 DEF SeamInv, Gapless
      <4>2. CASE ~(low <= queued_through)
        BY <2>1, <4>2
      <4> QED
        BY <4>1, <4>2
    <3> QED
      BY <3>1, <3>2 DEF Run
  <2> QED
    BY <2>2, <2>3
<1> QED
  BY <1>1, <1>2, <1>3, EnsembleInvariant, PTL DEF Spec
=============================================================================
