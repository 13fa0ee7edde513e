------------------------- MODULE StreamQueue_proofs -------------------------
(* For every commit-ahead distance, chunk and trajectory: the queue keeps its *)
(* invariants, and it implements RowStream.                                   *)
EXTENDS StreamQueue, SequenceTheorems, TLAPS

\* What a call in flight remembers of the moment it read the queue: its rows are
\* inside the commit window and follow the cursor, unless a clear has reset it.
AppendFollowsCursor ==
    append.busy =>
        /\ append.start_id <= append.last_id
        /\ append.last_id <= current_row_id + MaxAhead
        /\ queued_through # -1 => append.start_id = queued_through + 1

\* The cursor is reset or not behind the clock.
CursorNotBehind == queued_through = -1 \/ queued_through >= current_row_id

\* The inductive invariant: the properties the runs check, strengthened by what
\* the call in flight and the cursor remember.
QueueInv ==
    /\ QueueTypeOK
    /\ StreamOrder
    /\ CursorTruthful
    /\ CommitBound
    /\ NoCatchUp
    /\ AppendFollowsCursor
    /\ CursorNotBehind

-----------------------------------------------------------------------------
\* The rows a trajectory of Expansions holds are exactly first..last, and it
\* ends on the last one.
LEMMA ExpansionRows ==
    ASSUME NEW first \in Int, NEW last \in Int, first <= last,
           NEW traj \in Expansions(first, last)
    PROVE  /\ traj \in Seq(first..last)
           /\ Len(traj) \in Nat \ {0}
           /\ \A i \in 1..Len(traj) : traj[i] \in first..last
           /\ \A r \in first..last : \E i \in 1..Len(traj) : traj[i] = r
           /\ \A i, j \in 1..Len(traj) : i < j => traj[i] <= traj[j]
           /\ traj[1] = first
           /\ traj[Len(traj)] = last
<1>1. PICK n \in 1..MaxTraj : traj \in [1..n -> first..last]
  BY DEF Expansions
<1>2. n \in Nat \ {0} /\ Len(traj) = n /\ traj \in Seq(first..last)
  BY <1>1, BoundsAssumption
<1>3. /\ \A r \in first..last : \E i \in 1..Len(traj) : traj[i] = r
      /\ \A i, j \in 1..Len(traj) : i < j => traj[i] <= traj[j]
  BY DEF Expansions
<1>4. \A i \in 1..Len(traj) : traj[i] \in first..last
  BY <1>1, <1>2
<1>5. traj[1] = first
  <2>1. PICK i \in 1..Len(traj) : traj[i] = first
    BY <1>3
  <2>2. 1 \in 1..Len(traj) /\ traj[1] \in first..last
    BY <1>2, <1>4
  <2> QED
    BY <2>1, <2>2, <1>2, <1>3
<1>6. traj[Len(traj)] = last
  <2>1. PICK i \in 1..Len(traj) : traj[i] = last
    BY <1>3
  <2>2. Len(traj) \in 1..Len(traj) /\ traj[Len(traj)] \in first..last
    BY <1>2, <1>4
  <2> QED
    BY <2>1, <2>2, <1>2, <1>3
<1> QED
  BY <1>2, <1>3, <1>4, <1>5, <1>6

\* Where the elements of two sequences are in their concatenation.
LEMMA ConcatElements ==
    ASSUME NEW S, NEW s \in Seq(S), NEW t \in Seq(S)
    PROVE  /\ s \o t \in Seq(S)
           /\ Len(s \o t) = Len(s) + Len(t)
           /\ \A i \in 1..Len(s) : (s \o t)[i] = s[i]
           /\ \A i \in 1..Len(t) : (s \o t)[Len(s) + i] = t[i]
<1>1. Len(s) \in Nat /\ Len(t) \in Nat
  OBVIOUS
<1>2. \A i \in 1..Len(s) : (s \o t)[i] = s[i]
  BY <1>1, ConcatProperties
<1>3. ASSUME NEW i \in 1..Len(t) PROVE (s \o t)[Len(s) + i] = t[i]
  <2>1. Len(s) + i \in 1..(Len(s) + Len(t)) /\ ~(Len(s) + i <= Len(s))
    BY <1>1
  <2>2. (s \o t)[Len(s) + i] = t[(Len(s) + i) - Len(s)]
    BY <2>1, ConcatProperties
  <2> QED
    BY <2>2, <1>1
<1> QED
  BY <1>2, <1>3, ConcatProperties

\* A validated trajectory as the queue holds it.
Spliced(traj, tag) == [i \in 1..Len(traj) |-> [row |-> traj[i], tag |-> tag]]

\* A splice takes the whole trajectory: nothing was passed or queued meanwhile,
\* and the new substeps join the tail without a bridge.
LEMMA SpliceIsWhole ==
    ASSUME QueueInv, NEW tag \in Tags,
           NEW traj \in Expansions(append.start_id, append.last_id),
           AppendSplice(traj, tag)
    PROVE  /\ robot_q' = robot_q \o Spliced(traj, tag)
           /\ queued_through' = append.last_id
           /\ append' = NoAppend /\ current_row_id' = current_row_id
           /\ append.busy
<1> USE DEF AppendCall, QueueTypeOK, QueueInv, Rows
<1>1. append.busy /\ append' = NoAppend /\ current_row_id' = current_row_id
  BY DEF AppendSplice
<1>2. append.start_id \in Int /\ append.last_id \in Int
  BY BoundsAssumption
<1>3. append.start_id <= append.last_id
  BY <1>1 DEF AppendFollowsCursor
<1>4. /\ Len(traj) \in Nat \ {0}
      /\ \A i \in 1..Len(traj) : traj[i] \in append.start_id..append.last_id
      /\ traj[1] = append.start_id
      /\ traj[Len(traj)] = append.last_id
  BY <1>2, <1>3, ExpansionRows, SMTT(30)
<1>5. traj[1] >= current_row_id /\ traj[1] > queued_through
  BY <1>1, <1>4 DEF NoCatchUp
<1>6. PICK k \in 1..(Len(traj) + 1) :
        LET new == [i \in 1..(Len(traj) - k + 1) |->
                      [row |-> traj[k + i - 1], tag |-> tag]]
        IN  /\ \A i \in 1..(k - 1) :
                 ~(traj[i] >= current_row_id /\ traj[i] > queued_through)
            /\ IF new = <<>>
               THEN UNCHANGED <<robot_q, queued_through>>
               ELSE /\ \E bridge \in {<<>>, <<new[1]>>} :
                         robot_q' = IF new[1].row = append.start_id
                                    THEN robot_q \o new
                                    ELSE robot_q \o bridge \o new
                    /\ queued_through' = new[Len(new)].row
  BY DEF AppendSplice
<1>7. k = 1
  <2>1. SUFFICES ASSUME k # 1 PROVE FALSE
    OBVIOUS
  <2>2. 1 \in 1..(k - 1)
    BY <2>1, <1>4
  <2> QED
    BY <2>2, <1>5, <1>6
<1>8. Spliced(traj, tag) = [i \in 1..(Len(traj) - k + 1) |->
                              [row |-> traj[k + i - 1], tag |-> tag]]
  <2>1. Len(traj) - k + 1 = Len(traj) /\ \A i \in 1..Len(traj) : k + i - 1 = i
    BY <1>7, <1>4
  <2> QED
    BY <2>1 DEF Spliced
<1>9. /\ Spliced(traj, tag) \in Seq([row : Int, tag : Tags])
      /\ Len(Spliced(traj, tag)) = Len(traj)
      /\ Spliced(traj, tag)[1].row = append.start_id
      /\ Spliced(traj, tag)[Len(traj)].row = append.last_id
      /\ Spliced(traj, tag) # <<>>
  <2>1. \A i \in 1..Len(traj) : traj[i] \in Int
    BY <1>2, <1>4
  <2> QED
    BY <2>1, <1>4 DEF Spliced
<1> HIDE DEF AppendCall, QueueTypeOK, QueueInv, Rows
<1> QED
  BY <1>1, <1>6, <1>8, <1>9


\* The rows queued after a splice: those that were, and the ones of the call.
LEMMA SpliceRows ==
    ASSUME QueueInv, NEW tag \in Tags,
           NEW traj \in Expansions(append.start_id, append.last_id),
           AppendSplice(traj, tag)
    PROVE  /\ robot_q' \in Seq(Substep)
           /\ Len(robot_q') = Len(robot_q) + Len(traj)
           /\ \A i \in 1..Len(robot_q) : robot_q'[i] = robot_q[i]
           /\ \A i \in 1..Len(traj) :
                 /\ robot_q'[Len(robot_q) + i].row = traj[i]
                 /\ Len(robot_q) + i \in TaggedIn(robot_q')
           /\ TaggedRows' = TaggedRows \cup append.start_id..append.last_id
<1>1. append.busy /\ robot_q' = robot_q \o Spliced(traj, tag)
  BY SpliceIsWhole
<1>2. /\ append.start_id \in Rows /\ append.start_id \in Int
      /\ append.last_id \in Rows /\ append.last_id \in Int
  BY BoundsAssumption DEF QueueInv, QueueTypeOK, AppendCall, Rows
<1>3. append.start_id <= append.last_id
  BY <1>1 DEF QueueInv, AppendFollowsCursor
<1>4. /\ Len(traj) \in Nat
      /\ \A i \in 1..Len(traj) : traj[i] \in append.start_id..append.last_id
      /\ \A r \in append.start_id..append.last_id : \E i \in 1..Len(traj) : traj[i] = r
  <2>1. Len(traj) \in Nat
    BY <1>2, <1>3, ExpansionRows, Zenon
  <2>2. \A i \in 1..Len(traj) : traj[i] \in append.start_id..append.last_id
    BY <1>2, <1>3, ExpansionRows, Zenon
  <2>3. \A r \in append.start_id..append.last_id : \E i \in 1..Len(traj) : traj[i] = r
    BY DEF Expansions
  <2> QED
    BY <2>1, <2>2, <2>3
<1>5. robot_q \in Seq(Substep)
  BY DEF QueueInv, QueueTypeOK
<1>6. Spliced(traj, tag) \in Seq(Substep) /\ Len(Spliced(traj, tag)) = Len(traj)
  BY <1>2, <1>4, BoundsAssumption DEF Spliced, Substep, Rows
<1>7. /\ robot_q' \in Seq(Substep)
      /\ Len(robot_q') = Len(robot_q) + Len(traj)
      /\ \A i \in 1..Len(robot_q) : robot_q'[i] = robot_q[i]
      /\ \A i \in 1..Len(traj) : robot_q'[Len(robot_q) + i] = Spliced(traj, tag)[i]
  <2> DEFINE new == Spliced(traj, tag)
  <2>1. new \in Seq(Substep) /\ Len(new) = Len(traj) /\ robot_q' = robot_q \o new
    BY <1>1, <1>6
  <2> HIDE DEF new
  <2>2. /\ robot_q \o new \in Seq(Substep)
        /\ Len(robot_q \o new) = Len(robot_q) + Len(new)
        /\ \A i \in 1..Len(robot_q) : (robot_q \o new)[i] = robot_q[i]
        /\ \A i \in 1..Len(new) : (robot_q \o new)[Len(robot_q) + i] = new[i]
    <3>1. new \in Seq(Substep)
      BY <2>1
    <3>2. robot_q \o new \in Seq(Substep)
      BY <1>5, <3>1
    <3>3. Len(robot_q \o new) = Len(robot_q) + Len(new)
      BY <1>5, <3>1
    <3>4. \A i \in 1..Len(robot_q) : (robot_q \o new)[i] = robot_q[i]
      BY <1>5, <3>1, ConcatElements
    <3>5. \A i \in 1..Len(new) : (robot_q \o new)[Len(robot_q) + i] = new[i]
      BY <1>5, <3>1, ConcatElements
    <3> QED
      BY <3>2, <3>3, <3>4, <3>5
  <2>3. \A i \in 1..Len(traj) : robot_q'[Len(robot_q) + i] = new[i]
    BY <2>1, <2>2
  <2> QED
    BY <2>1, <2>2, <2>3 DEF new
<1>8. \A i \in 1..Len(traj) :
         /\ robot_q'[Len(robot_q) + i].row = traj[i]
         /\ Len(robot_q) + i \in TaggedIn(robot_q')
  <2> SUFFICES ASSUME NEW i \in 1..Len(traj)
               PROVE  /\ robot_q'[Len(robot_q) + i].row = traj[i]
                      /\ Len(robot_q) + i \in TaggedIn(robot_q')
    OBVIOUS
  <2>1. robot_q'[Len(robot_q) + i].row = traj[i] /\ traj[i] # -1
    <3>1. robot_q'[Len(robot_q) + i] = [row |-> traj[i], tag |-> tag]
      BY <1>7 DEF Spliced
    <3>2. traj[i] \in append.start_id..append.last_id /\ append.start_id >= 0
      BY <1>2, <1>4 DEF Rows
    <3> QED
      BY <3>1, <3>2, <1>2
  <2>2. Len(robot_q) + i \in 1..Len(robot_q')
    BY <1>4, <1>5, <1>7
  <2> QED
    BY <2>1, <2>2 DEF TaggedIn, IsTagged, Untagged
<1>9. TaggedRows' = TaggedRows \cup append.start_id..append.last_id
  <2>1. ASSUME NEW r \in TaggedRows'
        PROVE  r \in TaggedRows \cup append.start_id..append.last_id
    <3>1. PICK i \in TaggedIn(robot_q') : robot_q'[i].row = r
      BY <2>1 DEF TaggedRows
    <3>2. i \in 1..(Len(robot_q) + Len(traj)) /\ robot_q'[i].row # Untagged
      BY <1>7, <3>1 DEF TaggedIn, IsTagged
    <3>3. CASE i \in 1..Len(robot_q)
      BY <3>1, <3>2, <3>3, <1>7 DEF TaggedRows, TaggedIn, IsTagged
    <3>4. CASE i \notin 1..Len(robot_q)
      <4>1. i - Len(robot_q) \in 1..Len(traj)
        BY <3>2, <3>4, <1>4, <1>5
      <4>2. robot_q'[Len(robot_q) + (i - Len(robot_q))].row = traj[i - Len(robot_q)]
        BY <4>1, <1>8
      <4>3. Len(robot_q) + (i - Len(robot_q)) = i
        BY <3>2, <1>4, <1>5
      <4> QED
        BY <4>1, <4>2, <4>3, <3>1, <1>4
    <3> QED
      BY <3>3, <3>4
  <2>2. ASSUME NEW r \in TaggedRows PROVE r \in TaggedRows'
    <3>1. PICK i \in TaggedIn(robot_q) : robot_q[i].row = r
      BY <2>2 DEF TaggedRows
    <3>2. i \in 1..Len(robot_q') /\ robot_q'[i] = robot_q[i]
      BY <3>1, <1>4, <1>5, <1>7 DEF TaggedIn
    <3> QED
      BY <3>1, <3>2 DEF TaggedRows, TaggedIn, IsTagged
  <2>3. ASSUME NEW r \in append.start_id..append.last_id PROVE r \in TaggedRows'
    <3>1. PICK i \in 1..Len(traj) : traj[i] = r
      BY <2>3, <1>4
    <3> QED
      BY <3>1, <1>8 DEF TaggedRows
  <2> QED
    BY <2>1, <2>2, <2>3
<1> QED
  BY <1>7, <1>8, <1>9

\* The rows queued after a pop: all of them, or all but the head's.
LEMMA PopRows ==
    ASSUME QueueTypeOK, PopNextSubstep
    PROVE  /\ robot_q' \in Seq(Substep)
           /\ Len(robot_q) \in Nat \ {0}
           /\ Len(robot_q') = Len(robot_q) - 1
           /\ \A i \in 1..Len(robot_q') : robot_q'[i] = robot_q[i + 1]
           /\ \A i \in TaggedIn(robot_q') : i + 1 \in TaggedIn(robot_q)
           /\ TaggedRows' \subseteq TaggedRows
           /\ IF IsTagged(robot_q[1])
              THEN /\ 1 \in TaggedIn(robot_q)
                   /\ robot_q[1].row \in TaggedRows
                   /\ current_row_id' = robot_q[1].row
                   /\ TaggedRows \subseteq TaggedRows' \cup {robot_q[1].row}
              ELSE /\ current_row_id' = current_row_id
                   /\ TaggedRows' = TaggedRows
<1>1. robot_q \in Seq(Substep) /\ robot_q # <<>> /\ robot_q' = Tail(robot_q)
  BY DEF QueueTypeOK, PopNextSubstep
<1>2. /\ robot_q' \in Seq(Substep)
      /\ Len(robot_q) \in Nat \ {0}
      /\ Len(robot_q') = Len(robot_q) - 1
      /\ \A i \in 1..Len(robot_q') : robot_q'[i] = robot_q[i + 1]
      /\ Head(robot_q) = robot_q[1]
  BY <1>1
<1>3. \A i \in TaggedIn(robot_q') : i + 1 \in TaggedIn(robot_q)
  BY <1>2 DEF TaggedIn, IsTagged
<1>4. TaggedRows' \subseteq TaggedRows
  <2>1. ASSUME NEW i \in TaggedIn(robot_q') PROVE robot_q'[i].row \in TaggedRows
    <3>1. i + 1 \in TaggedIn(robot_q) /\ robot_q'[i] = robot_q[i + 1]
      BY <1>2, <1>3 DEF TaggedIn
    <3> QED
      BY <3>1 DEF TaggedRows
  <2> QED
    BY <2>1 DEF TaggedRows
<1>5. \A i \in TaggedIn(robot_q) : i = 1 \/ robot_q[i].row \in TaggedRows'
  <2> SUFFICES ASSUME NEW i \in TaggedIn(robot_q), i # 1
               PROVE  robot_q[i].row \in TaggedRows'
    OBVIOUS
  <2>1. i - 1 \in 1..Len(robot_q') /\ robot_q'[i - 1] = robot_q[i]
    BY <1>2 DEF TaggedIn
  <2>2. i - 1 \in TaggedIn(robot_q')
    BY <2>1 DEF TaggedIn, IsTagged
  <2> QED
    BY <2>1, <2>2 DEF TaggedRows
<1>6. CASE IsTagged(robot_q[1])
  <2>1. 1 \in TaggedIn(robot_q) /\ current_row_id' = robot_q[1].row
    BY <1>2, <1>6 DEF TaggedIn, PopNextSubstep
  <2> QED
    BY <2>1, <1>2, <1>3, <1>4, <1>5, <1>6 DEF TaggedRows
<1>7. CASE ~IsTagged(robot_q[1])
  <2>1. 1 \notin TaggedIn(robot_q) /\ current_row_id' = current_row_id
    BY <1>2, <1>7 DEF TaggedIn, PopNextSubstep
  <2>2. TaggedRows \subseteq TaggedRows'
    BY <2>1, <1>5 DEF TaggedRows
  <2> QED
    BY <2>1, <2>2, <1>2, <1>3, <1>4, <1>7
<1> QED
  BY <1>6, <1>7

-----------------------------------------------------------------------------
\* Each operation keeps the inductive invariant.
LEMMA ReadKeepsInv ==
    ASSUME QueueInv, NEW base \in Rows, NEW end \in Rows, NEW ahead \in Aheads,
           AppendRead(base, end, ahead)
    PROVE  QueueInv'
<1> DEFINE last == IF LastNeeded(ahead) < end THEN LastNeeded(ahead) ELSE end
<1>1. /\ current_row_id \in Nat /\ current_row_id \in Rows
      /\ queued_through \in Int /\ queued_through >= -1
      /\ ahead \in Nat /\ ahead <= MaxAhead /\ end \in Nat /\ end <= MaxRow
  BY AheadAssumption, BoundsAssumption DEF QueueInv, QueueTypeOK, Rows
<1>2. /\ append' = [busy |-> TRUE, start_id |-> FirstNeeded, last_id |-> last]
      /\ FirstNeeded <= last
      /\ UNCHANGED <<robot_q, current_row_id, queued_through>>
  BY DEF AppendRead
<1>3. /\ FirstNeeded \in Nat /\ last \in Nat
      /\ FirstNeeded <= MaxRow /\ last <= MaxRow
      /\ FirstNeeded >= current_row_id /\ FirstNeeded > queued_through
      /\ last <= current_row_id + MaxAhead
      /\ FirstNeeded = queued_through + 1 \/ FirstNeeded = current_row_id
  BY <1>1, <1>2, AheadAssumption, BoundsAssumption DEF FirstNeeded, LastNeeded
<1>4. queued_through # -1 => FirstNeeded = queued_through + 1
  BY <1>1 DEF QueueInv, CursorNotBehind, FirstNeeded
<1> HIDE DEF last
<1>5. QueueTypeOK'
  BY <1>2, <1>3, BoundsAssumption DEF QueueInv, QueueTypeOK, AppendCall, Rows
<1>6. TaggedRows' = TaggedRows /\ TaggedIn(robot_q') = TaggedIn(robot_q)
  BY <1>2 DEF TaggedRows
<1>7. StreamOrder' /\ CursorTruthful' /\ CommitBound' /\ CursorNotBehind'
  BY <1>2, <1>6 DEF QueueInv, StreamOrder, CursorTruthful, CommitBound,
                    CursorNotBehind
<1>8. NoCatchUp' /\ AppendFollowsCursor'
  BY <1>2, <1>3, <1>4 DEF NoCatchUp, AppendFollowsCursor
<1> QED
  BY <1>5, <1>7, <1>8 DEF QueueInv

\* So does giving up a call.
LEMMA AbortKeepsInv ==
    ASSUME QueueInv, AppendAbort PROVE QueueInv'
<1>1. append' = NoAppend /\ UNCHANGED <<robot_q, current_row_id, queued_through>>
  BY DEF AppendAbort
<1>2. QueueTypeOK'
  BY <1>1, BoundsAssumption DEF QueueInv, QueueTypeOK, AppendCall, NoAppend, Rows
<1>3. TaggedRows' = TaggedRows /\ TaggedIn(robot_q') = TaggedIn(robot_q)
  BY <1>1 DEF TaggedRows
<1> QED
  BY <1>1, <1>2, <1>3 DEF QueueInv, StreamOrder, CursorTruthful, CommitBound,
       CursorNotBehind, NoCatchUp, AppendFollowsCursor, NoAppend

\* So does the splice.
LEMMA SpliceKeepsInv ==
    ASSUME QueueInv, NEW tag \in Tags,
           NEW traj \in Expansions(append.start_id, append.last_id),
           AppendSplice(traj, tag)
    PROVE  QueueInv'
<1>1. /\ queued_through' = append.last_id /\ append' = NoAppend
      /\ current_row_id' = current_row_id /\ append.busy
  BY SpliceIsWhole
<1>2. /\ robot_q' \in Seq(Substep)
      /\ Len(robot_q') = Len(robot_q) + Len(traj)
      /\ \A i \in 1..Len(robot_q) : robot_q'[i] = robot_q[i]
      /\ \A i \in 1..Len(traj) : robot_q'[Len(robot_q) + i].row = traj[i]
      /\ TaggedRows' = TaggedRows \cup append.start_id..append.last_id
  BY SpliceRows
<1>3. /\ append.start_id \in Rows /\ append.last_id \in Rows
      /\ append.start_id \in Nat /\ append.last_id \in Nat
      /\ append.start_id \in Int /\ append.last_id \in Int
      /\ current_row_id \in Rows /\ current_row_id \in Nat
      /\ queued_through \in Int /\ Len(robot_q) \in Nat
  BY BoundsAssumption DEF QueueInv, QueueTypeOK, AppendCall, Rows
<1>4. /\ append.start_id <= append.last_id
      /\ append.last_id <= current_row_id + MaxAhead
      /\ append.start_id >= current_row_id /\ append.start_id > queued_through
      /\ queued_through # -1 => append.start_id = queued_through + 1
  BY <1>1 DEF QueueInv, AppendFollowsCursor, NoCatchUp
<1>5. /\ Len(traj) \in Nat
      /\ \A i \in 1..Len(traj) : traj[i] \in append.start_id..append.last_id
      /\ \A i, j \in 1..Len(traj) : i < j => traj[i] <= traj[j]
  <2>1. Len(traj) \in Nat
    BY <1>3, <1>4, ExpansionRows, Zenon
  <2>2. \A i \in 1..Len(traj) : traj[i] \in append.start_id..append.last_id
    BY <1>3, <1>4, ExpansionRows, Zenon
  <2>3. \A i, j \in 1..Len(traj) : i < j => traj[i] <= traj[j]
    BY DEF Expansions
  <2> QED
    BY <2>1, <2>2, <2>3
\* A queued substep is an old one, below the first new row, or a new one.
<1>6. ASSUME NEW i \in TaggedIn(robot_q')
      PROVE  \/ /\ i \in TaggedIn(robot_q) /\ robot_q'[i] = robot_q[i]
                /\ robot_q[i].row \in current_row_id..queued_through
             \/ /\ i - Len(robot_q) \in 1..Len(traj)
                /\ robot_q'[i].row = traj[i - Len(robot_q)]
  <2>1. i \in 1..(Len(robot_q) + Len(traj)) /\ robot_q'[i].row # Untagged
    BY <1>2 DEF TaggedIn, IsTagged
  <2>2. CASE i \in 1..Len(robot_q)
    <3>1. i \in TaggedIn(robot_q) /\ robot_q'[i] = robot_q[i]
      BY <2>1, <2>2, <1>2 DEF TaggedIn, IsTagged
    <3> QED
      BY <3>1 DEF QueueInv, StreamOrder
  <2>3. CASE i \notin 1..Len(robot_q)
    <3>1. i - Len(robot_q) \in 1..Len(traj)
      BY <2>1, <2>3, <1>3, <1>5
    <3>2. robot_q'[Len(robot_q) + (i - Len(robot_q))].row = traj[i - Len(robot_q)]
      BY <3>1, <1>2
    <3>3. Len(robot_q) + (i - Len(robot_q)) = i
      BY <2>1, <1>3, <1>5
    <3> QED
      BY <3>1, <3>2, <3>3
  <2> QED
    BY <2>2, <2>3
<1>7. QueueTypeOK'
  BY <1>1, <1>2, <1>3, BoundsAssumption
     DEF QueueTypeOK, AppendCall, NoAppend, Rows
<1>8. StreamOrder'
  <2>1. ASSUME NEW i \in TaggedIn(robot_q')
        PROVE  robot_q'[i].row \in current_row_id'..queued_through'
    BY <1>1, <1>3, <1>4, <1>5, <1>6
  <2>2. ASSUME NEW i \in TaggedIn(robot_q'), NEW j \in TaggedIn(robot_q'), i < j
        PROVE  robot_q'[i].row <= robot_q'[j].row
    <3>1. i \in Nat /\ j \in Nat
      BY DEF TaggedIn
    <3>2. CASE i \in TaggedIn(robot_q) /\ j \in TaggedIn(robot_q)
               /\ robot_q'[i] = robot_q[i] /\ robot_q'[j] = robot_q[j]
      BY <2>2, <3>2 DEF QueueInv, StreamOrder
    <3>3. CASE /\ i - Len(robot_q) \in 1..Len(traj)
               /\ j - Len(robot_q) \in 1..Len(traj)
               /\ robot_q'[i].row = traj[i - Len(robot_q)]
               /\ robot_q'[j].row = traj[j - Len(robot_q)]
      <4>1. i - Len(robot_q) < j - Len(robot_q)
        BY <2>2, <3>1, <1>3
      <4> QED
        BY <3>3, <4>1, <1>5
    <3>4. CASE /\ robot_q'[i] = robot_q[i]
               /\ robot_q[i].row \in current_row_id..queued_through
               /\ j - Len(robot_q) \in 1..Len(traj)
               /\ robot_q'[j].row = traj[j - Len(robot_q)]
      BY <3>4, <1>3, <1>4, <1>5
    <3>5. CASE i - Len(robot_q) \in 1..Len(traj) /\ j \in TaggedIn(robot_q)
      BY <2>2, <3>1, <3>5, <1>3 DEF TaggedIn
    <3> QED
      BY <1>6, <3>2, <3>3, <3>4, <3>5
  <2>3. ASSUME NEW r \in Rows, NEW a \in TaggedRows', NEW b \in TaggedRows',
               a <= r, r <= b
        PROVE  r \in TaggedRows'
    <3>1. /\ \A x \in TaggedRows : x \in current_row_id..queued_through
          /\ \A x \in Rows : (\E c, d \in TaggedRows : c <= x /\ x <= d)
                                => x \in TaggedRows
      BY DEF QueueInv, StreamOrder, TaggedRows
    <3>2. r \in Int
      BY DEF Rows
    <3>3. CASE a \notin TaggedRows
      BY <3>1, <3>2, <3>3, <2>3, <1>2, <1>3, <1>4
    <3>4. CASE a \in TaggedRows /\ b \in TaggedRows
      BY <3>1, <3>4, <2>3, <1>2
    <3>5. CASE a \in TaggedRows /\ b \notin TaggedRows
      <4>1. b \in append.start_id..append.last_id
        BY <3>5, <2>3, <1>2
      <4>2. queued_through # -1 /\ append.start_id = queued_through + 1
        BY <3>1, <3>5, <1>3, <1>4
      <4>3. CASE r >= append.start_id
        BY <4>1, <4>3, <3>2, <2>3, <1>2, <1>3
      <4>4. CASE r <= queued_through
        \* the cursor's own row is queued, or it is the clock's
        <5>1. queued_through \in TaggedRows \/ queued_through = a
          BY <3>1, <3>5, <1>3 DEF QueueInv, CursorTruthful
        <5> QED
          BY <5>1, <4>4, <3>1, <3>5, <2>3, <1>2
      <4> QED
        BY <4>2, <4>3, <4>4, <3>2, <1>3
    <3> QED
      BY <3>3, <3>4, <3>5
  <2> QED
    BY <2>1, <2>2, <2>3 DEF StreamOrder
<1>9. CursorTruthful' /\ CommitBound' /\ CursorNotBehind'
  BY <1>1, <1>2, <1>3, <1>4 DEF CursorTruthful, CommitBound, CursorNotBehind
<1>10. NoCatchUp' /\ AppendFollowsCursor'
  BY <1>1 DEF NoCatchUp, AppendFollowsCursor, NoAppend
<1> QED
  BY <1>7, <1>8, <1>9, <1>10 DEF QueueInv

\* A bound relative to the clock still holds when the clock has advanced.
LEMMA BoundGrows ==
    ASSUME NEW q \in Int, NEW c \in Nat, NEW d \in Nat, NEW m \in Nat,
           c <= d, q <= c + m
    PROVE  q <= d + m
OBVIOUS

\* So does the release thread taking the head.
LEMMA PopKeepsInv ==
    ASSUME QueueInv, PopNextSubstep PROVE QueueInv'
<1>1. UNCHANGED <<queued_through, append>>
  BY DEF PopNextSubstep
<1>2. /\ robot_q' \in Seq(Substep)
      /\ Len(robot_q) \in Nat \ {0}
      /\ Len(robot_q') = Len(robot_q) - 1
      /\ \A i \in 1..Len(robot_q') : robot_q'[i] = robot_q[i + 1]
      /\ \A i \in TaggedIn(robot_q') : i + 1 \in TaggedIn(robot_q)
      /\ TaggedRows' \subseteq TaggedRows
  BY PopRows DEF QueueInv
<1>3. /\ current_row_id \in Rows /\ current_row_id \in Nat
      /\ queued_through \in Rows \cup {-1} /\ queued_through \in Int
      /\ append.start_id \in Nat /\ append.last_id \in Nat
  BY BoundsAssumption DEF QueueInv, QueueTypeOK, AppendCall, Rows
<1>4. /\ \A i \in TaggedIn(robot_q) : robot_q[i].row \in current_row_id..queued_through
      /\ \A i, j \in TaggedIn(robot_q) : i < j => robot_q[i].row <= robot_q[j].row
      /\ \A r \in Rows : (\E a, b \in TaggedRows : a <= r /\ r <= b) => r \in TaggedRows
  BY DEF QueueInv, StreamOrder
\* The clock is where it was, or on the head's row, which the cursor bounds.
<1>5. /\ current_row_id' \in Rows /\ current_row_id' \in Nat
      /\ current_row_id' >= current_row_id
      /\ \/ current_row_id' = current_row_id /\ TaggedRows' = TaggedRows
         \/ /\ 1 \in TaggedIn(robot_q) /\ current_row_id' = robot_q[1].row
            /\ current_row_id' <= queued_through
            /\ TaggedRows \subseteq TaggedRows' \cup {current_row_id'}
  <2>1. CASE IsTagged(robot_q[1])
    <3>1. /\ 1 \in TaggedIn(robot_q) /\ current_row_id' = robot_q[1].row
          /\ TaggedRows \subseteq TaggedRows' \cup {current_row_id'}
      BY <2>1, PopRows DEF QueueInv
    <3>2. current_row_id' \in current_row_id..queued_through
      BY <3>1, <1>4
    <3> QED
      BY <3>1, <3>2, <1>3, BoundsAssumption DEF Rows
  <2>2. CASE ~IsTagged(robot_q[1])
    BY <2>2, <1>3, PopRows DEF QueueInv
  <2> QED
    BY <2>1, <2>2
<1>6. ASSUME NEW i \in TaggedIn(robot_q')
      PROVE  /\ i \in Nat /\ i + 1 \in TaggedIn(robot_q)
             /\ robot_q'[i] = robot_q[i + 1]
             /\ robot_q'[i].row \in current_row_id'..queued_through
  <2>1. i \in Nat \ {0} /\ i + 1 \in TaggedIn(robot_q) /\ robot_q'[i] = robot_q[i + 1]
    BY <1>2 DEF TaggedIn
  <2>2. robot_q[i + 1].row \in current_row_id..queued_through
    BY <2>1, <1>4
  <2>3. 1 \in TaggedIn(robot_q) => robot_q[1].row <= robot_q[i + 1].row
    BY <2>1, <1>4
  <2> QED
    BY <2>1, <2>2, <2>3, <1>3, <1>5
<1>7. QueueTypeOK'
  BY <1>1, <1>2, <1>5 DEF QueueInv, QueueTypeOK
<1>8. StreamOrder'
  <2>1. ASSUME NEW i \in TaggedIn(robot_q'), NEW j \in TaggedIn(robot_q'), i < j
        PROVE  robot_q'[i].row <= robot_q'[j].row
    BY <2>1, <1>4, <1>6
  <2>2. ASSUME NEW r \in Rows, NEW a \in TaggedRows', NEW b \in TaggedRows',
               a <= r, r <= b
        PROVE  r \in TaggedRows'
    <3>1. r \in TaggedRows
      BY <2>2, <1>2, <1>4
    <3>2. \A x \in TaggedRows' : x \in current_row_id'..queued_through
      BY <1>6 DEF TaggedRows
    <3>3. CASE r = current_row_id'
      <4>1. a = r
        BY <3>2, <3>3, <2>2, <1>5
      <4> QED
        BY <4>1
    <3>4. CASE r # current_row_id'
      BY <3>1, <3>4, <1>5
    <3> QED
      BY <3>3, <3>4
  <2> QED
    BY <2>1, <2>2, <1>1, <1>6 DEF StreamOrder
<1>9. CursorTruthful' /\ CommitBound' /\ CursorNotBehind'
  <2>1. CursorTruthful'
    BY <1>1, <1>3, <1>5 DEF QueueInv, CursorTruthful
  <2>2. CommitBound'
    <3>1. /\ queued_through' = queued_through /\ queued_through \in Int
          /\ current_row_id \in Nat /\ current_row_id' \in Nat
          /\ current_row_id <= current_row_id' /\ MaxAhead \in Nat
      BY <1>1, <1>3, <1>5, AheadAssumption
    <3>2. queued_through <= current_row_id + MaxAhead
      BY DEF QueueInv, CommitBound
    <3>3. queued_through <= current_row_id' + MaxAhead
      BY <3>1, <3>2, BoundGrows
    <3> QED
      BY <3>1, <3>3 DEF CommitBound
  <2>3. CursorNotBehind'
    BY <1>1, <1>3, <1>5 DEF QueueInv, CursorNotBehind
  <2> QED
    BY <2>1, <2>2, <2>3
<1>10. NoCatchUp' /\ AppendFollowsCursor'
  BY <1>1, <1>3, <1>5, AheadAssumption
     DEF QueueInv, NoCatchUp, AppendFollowsCursor
<1> QED
  BY <1>7, <1>8, <1>9, <1>10 DEF QueueInv

\* So does dropping everything.
LEMMA ClearKeepsInv ==
    ASSUME QueueInv, ClearQueue PROVE QueueInv'
<1>1. robot_q' = <<>> /\ queued_through' = -1 /\ UNCHANGED <<current_row_id, append>>
  BY DEF ClearQueue
<1>2. TaggedIn(robot_q') = {} /\ TaggedRows' = {}
  BY <1>1 DEF TaggedRows, TaggedIn
<1>3. /\ current_row_id \in Nat /\ append.start_id \in Nat /\ append.last_id \in Nat
  BY BoundsAssumption DEF QueueInv, QueueTypeOK, AppendCall, Rows
<1>4. QueueTypeOK'
  BY <1>1 DEF QueueInv, QueueTypeOK
<1>5. StreamOrder'
  BY <1>2 DEF StreamOrder
<1>6. CursorTruthful' /\ CommitBound' /\ CursorNotBehind'
  BY <1>1, <1>3, AheadAssumption DEF CursorTruthful, CommitBound, CursorNotBehind
<1>7. NoCatchUp' /\ AppendFollowsCursor'
  BY <1>1, <1>3 DEF QueueInv, NoCatchUp, AppendFollowsCursor
<1> QED
  BY <1>4, <1>5, <1>6, <1>7 DEF QueueInv

\* Manual substeps carry no row, so the tagged part of the queue is untouched.
LEMMA EnqueueRows ==
    ASSUME QueueTypeOK, NEW subs \in ManualBatches, EnqueueManual(subs)
    PROVE  /\ robot_q' \in Seq(Substep)
           /\ TaggedIn(robot_q') = TaggedIn(robot_q)
           /\ \A i \in TaggedIn(robot_q) : robot_q'[i] = robot_q[i]
           /\ TaggedRows' = TaggedRows
<1>1. robot_q \in Seq(Substep) /\ robot_q' = robot_q \o subs
  BY DEF QueueTypeOK, EnqueueManual
<1>2. subs \in Seq(Substep) /\ \A i \in 1..Len(subs) : ~IsTagged(subs[i])
  <2>1. PICK n \in 1..MaxQueue : subs \in [1..n -> [row : {Untagged}, tag : Tags]]
    BY DEF ManualBatches
  <2>2. n \in Nat /\ [row : {Untagged}, tag : Tags] \subseteq Substep
    BY BoundsAssumption DEF Substep
  <2>3. subs \in [1..n -> Substep]
    BY <2>1, <2>2
  <2>4. subs \in Seq(Substep) /\ Len(subs) = n
    BY <2>2, <2>3
  <2>5. \A i \in 1..n : subs[i] \in [row : {Untagged}, tag : Tags]
    BY <2>1
  <2> QED
    BY <2>4, <2>5 DEF IsTagged
<1>3. /\ robot_q' \in Seq(Substep)
      /\ Len(robot_q') = Len(robot_q) + Len(subs)
      /\ \A i \in 1..Len(robot_q) : robot_q'[i] = robot_q[i]
      /\ \A i \in 1..Len(subs) : robot_q'[Len(robot_q) + i] = subs[i]
  BY <1>1, <1>2, ConcatElements
<1>4. Len(robot_q) \in Nat /\ Len(subs) \in Nat
  BY <1>1, <1>2
<1>5. TaggedIn(robot_q') = TaggedIn(robot_q)
  <2>1. \A i \in 1..(Len(robot_q) + Len(subs)) :
           \/ i \in 1..Len(robot_q)
           \/ \E j \in 1..Len(subs) : i = Len(robot_q) + j
    <3> SUFFICES ASSUME NEW i \in 1..(Len(robot_q) + Len(subs)), ~(i \in 1..Len(robot_q))
                 PROVE  \E j \in 1..Len(subs) : i = Len(robot_q) + j
      OBVIOUS
    <3>1. i - Len(robot_q) \in 1..Len(subs) /\ i = Len(robot_q) + (i - Len(robot_q))
      BY <1>4
    <3> QED
      BY <3>1
  <2>2. \A i \in 1..Len(robot_q) : i \in 1..(Len(robot_q) + Len(subs))
    BY <1>4
  <2>3. \A i \in TaggedIn(robot_q') : i \in 1..Len(robot_q) /\ IsTagged(robot_q'[i])
    BY <1>2, <1>3, <2>1 DEF TaggedIn
  <2> QED
    BY <1>3, <2>2, <2>3 DEF TaggedIn
<1>6. \A i \in TaggedIn(robot_q) : robot_q'[i] = robot_q[i]
  BY <1>3 DEF TaggedIn
<1>7. TaggedRows' = TaggedRows
  BY <1>5, <1>6 DEF TaggedRows
<1> QED
  BY <1>3, <1>5, <1>6, <1>7

\* So do manual substeps joining the tail.
LEMMA EnqueueKeepsInv ==
    ASSUME QueueInv, NEW subs \in ManualBatches, EnqueueManual(subs)
    PROVE  QueueInv'
<1>1. UNCHANGED <<current_row_id, queued_through, append>>
  BY DEF EnqueueManual
<1>2. /\ robot_q' \in Seq(Substep)
      /\ TaggedIn(robot_q') = TaggedIn(robot_q)
      /\ \A i \in TaggedIn(robot_q) : robot_q'[i] = robot_q[i]
      /\ TaggedRows' = TaggedRows
  BY EnqueueRows DEF QueueInv
<1>3. QueueTypeOK' /\ StreamOrder'
  BY <1>1, <1>2 DEF QueueInv, QueueTypeOK, StreamOrder
<1> QED
  BY <1>1, <1>2, <1>3 DEF QueueInv, CursorTruthful, CommitBound,
     CursorNotBehind, NoCatchUp, AppendFollowsCursor

-----------------------------------------------------------------------------
\* The inductive invariant holds initially ...
LEMMA QueueStarts == ASSUME QueueInit PROVE QueueInv
<1>1. /\ robot_q = <<>> /\ current_row_id = 0 /\ queued_through = -1
      /\ append = NoAppend
  BY DEF QueueInit
<1>2. TaggedIn(robot_q) = {} /\ TaggedRows = {}
  BY <1>1 DEF TaggedRows, TaggedIn
<1>3. QueueTypeOK
  BY <1>1, BoundsAssumption DEF QueueTypeOK, AppendCall, NoAppend, Rows
<1>4. StreamOrder
  BY <1>2 DEF StreamOrder
<1> QED
  BY <1>1, <1>3, <1>4, AheadAssumption DEF QueueInv, CursorTruthful, CommitBound,
     CursorNotBehind, NoCatchUp, AppendFollowsCursor, NoAppend

\* ... and every step of the queue keeps it, for every commit-ahead distance and
\* any interleaving of the threads.
LEMMA QueueSteps == ASSUME QueueInv, [QueueNext]_queueVars PROVE QueueInv'
<1>1. CASE \E base, end \in Rows, ahead \in Aheads : AppendRead(base, end, ahead)
  BY <1>1, ReadKeepsInv
<1>2. CASE AppendAbort
  BY <1>2, AbortKeepsInv
<1>3. CASE \E traj \in Expansions(append.start_id, append.last_id), tag \in Tags :
              AppendSplice(traj, tag)
  BY <1>3, SpliceKeepsInv
<1>4. CASE PopNextSubstep
  BY <1>4, PopKeepsInv
<1>5. CASE ClearQueue
  BY <1>5, ClearKeepsInv
<1>6. CASE \E subs \in ManualBatches : EnqueueManual(subs)
  BY <1>6, EnqueueKeepsInv
<1>7. CASE UNCHANGED queueVars
  BY <1>7 DEF queueVars, QueueInv, QueueTypeOK, StreamOrder, CursorTruthful,
     CommitBound, CursorNotBehind, NoCatchUp, AppendFollowsCursor, TaggedRows
<1> QED
  BY <1>1, <1>2, <1>3, <1>4, <1>5, <1>6, <1>7 DEF QueueNext

\* Hence it always holds.
THEOREM QueueInvariant == QueueSpec => []QueueInv
BY QueueStarts, QueueSteps, PTL DEF QueueSpec

\* Type correctness of the queue.
THEOREM QueueTypeCorrect == QueueSpec => []QueueTypeOK
BY QueueInvariant, PTL DEF QueueInv

\* Tagged substeps leave the queue in row order and without a hole, the cursor
\* claims only queued rows, the commitment is bounded, and a splice is always
\* contiguous.
THEOREM QueueSafe ==
    QueueSpec => [](StreamOrder /\ CursorTruthful /\ CommitBound /\ NoCatchUp)
BY QueueInvariant, PTL DEF QueueInv

\* Tagged substeps wait in the order of their rows, without a hole, between the
\* clock and the cursor.
THEOREM StreamInOrder == QueueSpec => []StreamOrder
BY QueueSafe, PTL

\* A cursor ahead of the clock names a row that is queued, so that append_actions
\* never takes an empty queue for a full one.
THEOREM CursorIsTruthful == QueueSpec => []CursorTruthful
BY QueueSafe, PTL

-----------------------------------------------------------------------------
\* The queue implements RowStream: a splice commits the rows of the call, a pop
\* executes the oldest row, a clear drops everything, and the rest stutters.
THEOREM QueueImplementsStream == QueueSpec => StreamSpec
<1>1. QueueInit => Stream!Init
  BY DEF QueueInit, Stream!Init, TaggedRows, TaggedIn
<1>2. QueueInv /\ [QueueNext]_queueVars => [Stream!Next]_(Stream!vars)
  <2> SUFFICES ASSUME QueueInv, [QueueNext]_queueVars
               PROVE  [Stream!Next]_(Stream!vars)
    OBVIOUS
  <2>1. CASE UNCHANGED <<robot_q, current_row_id, queued_through>>
    BY <2>1 DEF Stream!vars, TaggedRows
  <2>2. ASSUME NEW traj \in Expansions(append.start_id, append.last_id),
               NEW tag \in Tags, AppendSplice(traj, tag)
        PROVE  Stream!Next
    <3> DEFINE first == append.start_id  last == append.last_id
    <3>1. /\ queued_through' = last /\ current_row_id' = current_row_id
          /\ append.busy /\ TaggedRows' = TaggedRows \cup first..last
      BY <2>2, SpliceIsWhole, SpliceRows
    <3>2. /\ first \in Nat /\ last \in Nat /\ current_row_id \in Nat
          /\ queued_through \in Int
      BY BoundsAssumption DEF QueueInv, QueueTypeOK, AppendCall, Rows
    <3>3. /\ first <= last /\ last <= current_row_id + MaxAhead
          /\ first >= current_row_id
          /\ queued_through # -1 => first = queued_through + 1
      BY <3>1 DEF QueueInv, AppendFollowsCursor, NoCatchUp
    <3> HIDE DEF first, last
    <3>4. \A r \in TaggedRows : r \in current_row_id..queued_through
      BY DEF QueueInv, StreamOrder, TaggedRows
    <3>5. \/ queued_through = -1
          \/ TaggedRows = {} /\ first = current_row_id + 1
          \/ first - 1 \in TaggedRows /\ \A r \in TaggedRows : r < first
      <4>1. CASE queued_through > current_row_id
        BY <4>1, <3>2, <3>3, <3>4 DEF QueueInv, CursorTruthful
      <4>2. CASE queued_through = current_row_id
        BY <4>2, <3>2, <3>3, <3>4
      <4> QED
        BY <4>1, <4>2, <3>2 DEF QueueInv, CursorNotBehind
    <3>6. queued_through' # -1
      BY <3>1, <3>2
    <3>7. Stream!Commit(first, last)
      BY <3>1, <3>2, <3>3, <3>5, <3>6 DEF Stream!Commit
    <3>8. first \in current_row_id..(current_row_id + MaxAhead)
          /\ last \in current_row_id..(current_row_id + MaxAhead)
      BY <3>2, <3>3, AheadAssumption
    <3> QED
      BY <3>7, <3>8 DEF Stream!Next
  <2>3. ASSUME PopNextSubstep PROVE [Stream!Next]_(Stream!vars)
    <3>1. UNCHANGED queued_through
      BY <2>3 DEF PopNextSubstep
    <3>2. CASE IsTagged(robot_q[1])
      <4> DEFINE row == robot_q[1].row
      <4>1. /\ 1 \in TaggedIn(robot_q) /\ row \in TaggedRows /\ current_row_id' = row
            /\ TaggedRows' \subseteq TaggedRows
            /\ TaggedRows \subseteq TaggedRows' \cup {row}
        BY <2>3, <3>2, PopRows DEF QueueInv
      <4>2. \A r \in TaggedRows : row <= r
        <5> SUFFICES ASSUME NEW i \in TaggedIn(robot_q) PROVE row <= robot_q[i].row
          BY DEF TaggedRows
        <5>1. /\ \A j \in TaggedIn(robot_q) :
                    robot_q[j].row \in current_row_id..queued_through
              /\ \A j, k \in TaggedIn(robot_q) : j < k => robot_q[j].row <= robot_q[k].row
          BY DEF QueueInv, StreamOrder
        <5>2. current_row_id \in Int /\ queued_through \in Int
          BY BoundsAssumption DEF QueueInv, QueueTypeOK, Rows
        <5>3. i = 1 \/ 1 < i
          BY DEF TaggedIn
        <5> QED
          BY <4>1, <5>1, <5>2, <5>3
      <4>3. TaggedRows' = TaggedRows \/ TaggedRows' = TaggedRows \ {row}
        BY <4>1
      <4>4. Stream!Execute(row)
        BY <3>1, <4>1, <4>2, <4>3 DEF Stream!Execute
      <4> QED
        BY <4>1, <4>4 DEF Stream!Next
    <3>3. CASE ~IsTagged(robot_q[1])
      <4>1. UNCHANGED <<current_row_id, TaggedRows>>
        BY <2>3, <3>3, PopRows DEF QueueInv
      <4> QED
        BY <3>1, <4>1 DEF Stream!vars
    <3> QED
      BY <3>2, <3>3
  <2>4. ASSUME ClearQueue PROVE Stream!Next
    <3>1. TaggedRows' = {} /\ queued_through' = -1 /\ UNCHANGED current_row_id
      BY <2>4 DEF ClearQueue, TaggedRows, TaggedIn
    <3> QED
      BY <3>1 DEF Stream!Next, Stream!Drop
  <2>5. ASSUME NEW subs \in ManualBatches, EnqueueManual(subs)
        PROVE  UNCHANGED Stream!vars
    <3>1. UNCHANGED <<TaggedRows, current_row_id, queued_through>>
      BY <2>5, EnqueueRows DEF QueueInv, EnqueueManual
    <3> QED
      BY <3>1 DEF Stream!vars
  <2> QED
    BY <2>1, <2>2, <2>3, <2>4, <2>5
       DEF QueueNext, queueVars, AppendRead, AppendAbort
<1> QED
  BY <1>1, <1>2, QueueInvariant, PTL DEF QueueSpec, StreamSpec, Stream!Spec

=============================================================================
