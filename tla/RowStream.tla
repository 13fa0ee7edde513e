----------------------------- MODULE RowStream -----------------------------
(* What the streaming half of PostProcessor promises to the rest of the     *)
(* program (docstring of append_actions, real_world/postprocess.py): policy *)
(* rows are committed in blocks, never more than Window rows ahead of the   *)
(* master clock, and the arm runs them one row at a time, in order and      *)
(* without a hole.  Only a drop of everything that is pending (E-stop,      *)
(* retreat, homing) lets the stream skip rows, and then only forward.       *)
EXTENDS Integers

CONSTANT Window     \* a natural number: the most rows committed ahead of the clock

VARIABLES
    clock,          \* the row the arm is on
    pending,        \* the rows committed and not finished
    dropped         \* nothing was committed since the last drop

vars == <<clock, pending, dropped>>

Init ==
    /\ clock = 0
    /\ pending = {}
    /\ dropped = TRUE

\* Commit the rows first..last.  They follow the rows already committed, or,
\* when none is pending, the row the arm is on; after a drop they may start at
\* any row that is not in the past.
Commit(first, last) ==
    /\ clock <= first /\ first <= last /\ last <= clock + Window
    /\ \/ dropped
       \/ pending = {} /\ first = clock + 1
       \/ first - 1 \in pending /\ \A r \in pending : r < first
    /\ pending' = pending \cup first..last
    /\ dropped' = FALSE
    /\ UNCHANGED clock

\* Work on the oldest committed row; it stays pending until its last substep.
Execute(row) ==
    /\ row \in pending
    /\ \A r \in pending : row <= r
    /\ clock' = row
    /\ \/ UNCHANGED pending
       \/ pending' = pending \ {row}
    /\ UNCHANGED dropped

\* Everything that is pending is thrown away.
Drop ==
    /\ pending' = {}
    /\ dropped' = TRUE
    /\ UNCHANGED clock

Next ==
    \/ \E first, last \in clock..(clock + Window) : Commit(first, last)
    \/ \E row \in pending : Execute(row)
    \/ Drop

Spec == Init /\ [][Next]_vars
=============================================================================
