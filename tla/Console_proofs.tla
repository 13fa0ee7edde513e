--------------------------- MODULE Console_proofs ---------------------------
(* For every number of workers, previews, rows and polls: the types of the     *)
(* console, the lock of the tuning controls, and the order of the manual       *)
(* step-through.                                                               *)
EXTENDS Console, TLAPS

\* Places where a worker has read the rows it works on.
Reading == {"resync", "reset", "resetting", "solve", "submit", "validating",
            "store", "advance"}

\* The types of the preview, and the room one under construction has.
PreviewInv ==
    /\ SimTypeOK
    /\ loop = "build" => made < MaxSim
    /\ connected => made # 0

\* The types of the panel, and the rows of a worker that has read some.
PanelTypes ==
    /\ tk \in {"idle", "stopping", "closing", "ending", "joining", "closed"}
    /\ polls \in 0..MaxPolls
    /\ is_auto \in BOOLEAN /\ auto_pending \in BOOLEAN /\ busy \in BOOLEAN
    /\ published \in BOOLEAN /\ staged \in BOOLEAN /\ overlapped \in BOOLEAN
    /\ thread \in [Callers -> Places]
    /\ cursor \in 0..N
    /\ span \in [Workers -> Seq(1..N)] /\ stepped \in Seq(1..N)
    /\ \A w \in Workers : thread[w] \in Reading => span[w] # <<>>

-----------------------------------------------------------------------------
\* The initial state has the types.
LEMMA ConsoleStarts == ASSUME Init PROVE PreviewInv /\ PanelTypes
<1>1. PreviewInv
  <2>1. 0 \in {0} \cup Previews /\ <<>> \in Seq(Callers)
    OBVIOUS
  <2>2. /\ ref \in [Callers -> {0} \cup Previews]
        /\ box \in [Callers -> {"none", "empty"} \cup Replies]
    BY DEF Init, SimInit
  <2> QED
    BY <2>1, <2>2 DEF Init, SimInit, SimTypeOK, PreviewInv
<1>2. thread \in [Callers -> Places] /\ \A w \in Callers : thread[w] = "none"
  BY DEF Init, Places
<1>3. \A w \in Workers : thread[w] \notin Reading
  BY <1>2, CallersAssumption DEF Reading
<1>4. cursor \in 0..N /\ polls \in 0..MaxPolls
  BY RowsAssumption DEF Init
<1>5. span \in [Workers -> Seq(1..N)] /\ stepped \in Seq(1..N)
  BY DEF Init
<1>6. PanelTypes
  BY <1>2, <1>3, <1>4, <1>5 DEF Init, PanelTypes
<1> QED
  BY <1>1, <1>6

-----------------------------------------------------------------------------
(* The preview.                                                             *)

\* Handing a job to a preview.
LEMMA SubmitTypes ==
    ASSUME PreviewInv, NEW c \in Callers, NEW k \in {0} \cup Previews, Submit(c, k)
    PROVE  PreviewInv'
<1>1. jobs' \in Seq(Callers)
  BY DEF PreviewInv, SimTypeOK, Submit
<1>2. ref' \in [Callers -> {0} \cup Previews]
  BY DEF PreviewInv, SimTypeOK, Submit
<1>3. box' \in [Callers -> {"none", "empty"} \cup Replies]
  BY DEF PreviewInv, SimTypeOK, Submit
<1> QED
  BY <1>1, <1>2, <1>3 DEF PreviewInv, SimTypeOK, Submit, Previews

\* Taking the answer.
LEMMA ReceiveTypes ==
    ASSUME PreviewInv, NEW c \in Callers, NEW reply, Receive(c, reply)
    PROVE  PreviewInv'
<1>1. ref' \in [Callers -> {0} \cup Previews]
  BY DEF PreviewInv, SimTypeOK, Receive
<1>2. box' \in [Callers -> {"none", "empty"} \cup Replies]
  BY DEF PreviewInv, SimTypeOK, Receive
<1> QED
  BY <1>1, <1>2 DEF PreviewInv, SimTypeOK, Receive, Previews

\* Launching a preview and closing its window.
LEMMA LaunchTypes ==
    ASSUME PreviewInv, LaunchSim \/ CloseWindow
    PROVE  PreviewInv'
<1>1. CASE LaunchSim
  BY <1>1 DEF PreviewInv, SimTypeOK, LaunchSim, simVars, Previews
<1>2. CASE CloseWindow
  <2>1. made \in Previews
    BY <1>2, SimAssumption DEF CloseWindow, PreviewInv, SimTypeOK, Previews
  <2> QED
    BY <1>2, <2>1 DEF PreviewInv, SimTypeOK, CloseWindow, Previews
<1> QED
  BY <1>1, <1>2

\* The steps of the simulation thread.
LEMMA SimThreadTypes ==
    ASSUME PreviewInv, SimThread
    PROVE  PreviewInv'
<1>1. CASE Build
  <2>1. made \in Nat /\ made < MaxSim
    BY <1>1, SimAssumption DEF Build, PreviewInv, SimTypeOK, Previews
  <2>2. made + 1 \in Previews /\ made + 1 # 0
    BY <2>1, SimAssumption DEF Previews
  <2>3. CASE loop' = "test" /\ made' = made + 1 /\ sim' = made + 1
             /\ connected' = TRUE /\ jobs' = <<>>
    BY <1>1, <2>2, <2>3 DEF Build, PreviewInv, SimTypeOK
  <2>4. CASE loop' = "none" /\ UNCHANGED <<made, sim, connected, jobs>>
    BY <1>1, <2>4 DEF Build, PreviewInv, SimTypeOK
  <2> QED
    BY <1>1, <2>3, <2>4 DEF Build
<1>2. CASE LoopTest
  BY <1>2 DEF LoopTest, PreviewInv, SimTypeOK, Previews
<1>3. CASE TakeJob
  <2>1. jobs \in Seq(Callers) /\ jobs # <<>>
    BY <1>3 DEF TakeJob, PreviewInv, SimTypeOK
  <2>2. Head(jobs) \in Callers /\ Tail(jobs) \in Seq(Callers)
    BY <2>1
  <2> QED
    BY <1>3, <2>2 DEF TakeJob, PreviewInv, SimTypeOK, Previews
<1>4. CASE RunJob
  <2>1. PICK c \in running, reply \in Replies : box' = [box EXCEPT ![c] = reply]
    BY <1>4 DEF RunJob
  <2>2. box' \in [Callers -> {"none", "empty"} \cup Replies]
    BY <2>1 DEF PreviewInv, SimTypeOK
  <2> QED
    BY <1>4, <2>2 DEF RunJob, PreviewInv, SimTypeOK, Previews
<1>5. CASE Step
  BY <1>5 DEF Step, PreviewInv, SimTypeOK, Previews
<1>6. CASE Detach
  <2>1. CASE loop' = "close" /\ sim' = 0 /\ connected' = connected
    BY <1>6, <2>1 DEF Detach, PreviewInv, SimTypeOK
  <2>2. CASE loop' = "none" /\ connected' = FALSE /\ sim' = sim
    BY <1>6, <2>2 DEF Detach, PreviewInv, SimTypeOK
  <2> QED
    BY <1>6, <2>1, <2>2 DEF Detach
<1> QED
  BY <1>1, <1>2, <1>3, <1>4, <1>5, <1>6 DEF SimThread

-----------------------------------------------------------------------------
(* The panel.                                                               *)

\* A thread that goes on stays a thread at some place, and the others stay.
LEMMA GotoTypes ==
    ASSUME PanelTypes, NEW t \in Callers, NEW from, NEW to \in Places, Goto(t, from, to)
    PROVE  /\ thread' \in [Callers -> Places] /\ thread[t] = from
           /\ \A u \in Callers : thread'[u] = IF u = t THEN to ELSE thread[u]
BY DEF Goto, PanelTypes

\* The steps of the auto loop: the preview, the panel, and that a cycle begins
\* only under the flag.
LEMMA AutoTypes ==
    ASSUME PreviewInv, PanelTypes, AutoLoop
    PROVE  /\ PreviewInv' /\ PanelTypes' /\ UNCHANGED <<panelVars, is_auto>>
           /\ InCycle' => InCycle \/ is_auto
<1> DEFINE Moves(to) ==
        /\ to \in Places /\ Goto(Looper, thread[Looper], to)
        /\ UNCHANGED <<panelVars, is_auto, span, staged>>
        /\ published' \in BOOLEAN /\ overlapped' \in BOOLEAN
        /\ cursor' \in 0..N /\ stepped' \in Seq(1..N)
<1>1. ASSUME NEW to, Moves(to)
      PROVE  PanelTypes' /\ thread'[Looper] = to
  <2>1. Looper \in Callers /\ \A w \in Workers : w \in Callers /\ w # Looper
    BY CallersAssumption
  <2>2. thread' \in [Callers -> Places] /\ thread'[Looper] = to
        /\ \A w \in Workers : thread'[w] = thread[w]
    BY <1>1, <2>1, GotoTypes
  <2> QED
    BY <1>1, <2>2 DEF PanelTypes, panelVars
<1>2. cursor \in 0..N /\ 0 \in 0..N /\ stepped \in Seq(1..N) /\ <<>> \in Seq(1..N)
      /\ published \in BOOLEAN /\ overlapped \in BOOLEAN
  BY RowsAssumption DEF PanelTypes
<1>3. Looper \in Callers /\ PreviewInv /\ ref[Looper] \in {0} \cup Previews
      /\ sim \in {0} \cup Previews
  BY CallersAssumption DEF PreviewInv, SimTypeOK
<1>4. CASE AutoHead
  <2>1. Moves(IF is_auto THEN "infer" ELSE "ended")
    BY <1>2, <1>4 DEF AutoHead, Goto, stepVars, Places
  <2>2. PreviewInv'
    BY <1>3, <1>4 DEF AutoHead, simVars, PreviewInv, SimTypeOK
  <2> QED
    BY <1>1, <2>1, <2>2 DEF InCycle
<1>5. CASE AutoInfer
  <2>1. PreviewInv'
    BY <1>3, <1>5 DEF AutoInfer, simVars, PreviewInv, SimTypeOK
  <2>2. InCycle
    BY <1>5 DEF AutoInfer, Goto, InCycle
  <2>3. Moves("head") \/ Moves("publish")
    BY <1>2, <1>5 DEF AutoInfer, Goto, ResetCursor, Restart, Places
  <2> QED
    BY <1>1, <2>1, <2>2, <2>3
<1>6. CASE AutoPublish
  <2>1. PreviewInv'
    BY <1>3, <1>6 DEF AutoPublish, simVars, PreviewInv, SimTypeOK
  <2>2. Moves("append") /\ InCycle
    BY <1>2, <1>6 DEF AutoPublish, Goto, Places, InCycle
  <2> QED
    BY <1>1, <2>1, <2>2
<1>7. CASE AutoAppend
  <2>1. ref' \in [Callers -> {0} \cup Previews]
    BY <1>3, <1>7 DEF AutoAppend, PreviewInv, SimTypeOK
  <2>2. PreviewInv'
    BY <1>3, <1>7, <2>1 DEF AutoAppend, PreviewInv, SimTypeOK
  <2>3. Moves(IF sim = 0 THEN "head" ELSE "solve") /\ InCycle
    BY <1>2, <1>7 DEF AutoAppend, Goto, Places, stepVars, InCycle
  <2> QED
    BY <1>1, <2>2, <2>3
<1>8. CASE AutoSubmit
  <2>1. ASSUME Submit(Looper, ref[Looper]) PROVE PreviewInv'
    BY <1>3, <2>1, SubmitTypes
  <2>2. ASSUME ref' = [ref EXCEPT ![Looper] = 0],
               UNCHANGED <<sim, made, loop, connected, sim_stop, jobs, running, box, shut>>
        PROVE  PreviewInv'
    <3>1. ref' \in [Callers -> {0} \cup Previews]
      BY <1>3, <2>2 DEF PreviewInv, SimTypeOK
    <3> QED
      BY <1>3, <2>2, <3>1 DEF PreviewInv, SimTypeOK
  <2>3. PreviewInv' /\ InCycle
    BY <1>8, <2>1, <2>2 DEF AutoSubmit, Goto, InCycle
  <2>4. Moves("head") \/ Moves("wait")
    BY <1>2, <1>8 DEF AutoSubmit, Goto, Places, stepVars
  <2> QED
    BY <1>1, <2>3, <2>4
<1>9. CASE AutoResult
  <2>1. PreviewInv'
    BY <1>3, <1>9, ReceiveTypes DEF AutoResult
  <2>2. InCycle
    BY <1>9 DEF AutoResult, Goto, InCycle
  <2>3. Moves("head") \/ Moves("ended")
    BY <1>2, <1>9 DEF AutoResult, Goto, Places, stepVars
  <2> QED
    BY <1>1, <2>1, <2>2, <2>3
<1>10. UNCHANGED <<panelVars, is_auto>>
  BY DEF AutoLoop, AutoHead, AutoInfer, AutoPublish, AutoAppend, AutoSubmit, AutoResult
<1> QED
  BY <1>4, <1>5, <1>6, <1>7, <1>8, <1>9, <1>10 DEF AutoLoop

\* Sequences of rows.
LEMMA LastRow ==
    ASSUME NEW S, NEW rows \in Seq(S), rows # <<>>
    PROVE  rows[Len(rows)] \in S
<1>1. Len(rows) \in 1..Len(rows)
  OBVIOUS
<1> QED
  BY <1>1

LEMMA AppendedRows ==
    ASSUME NEW one \in Seq(1..N), NEW two \in Seq(1..N)
    PROVE  one \o two \in Seq(1..N)
OBVIOUS

\* A worker's steps keep the types and leave the buttons and the auto loop alone.
LEMMA WorkerTypes ==
    ASSUME PreviewInv, PanelTypes, NEW w \in Workers, Worker(w)
    PROVE  /\ PreviewInv' /\ PanelTypes' /\ UNCHANGED <<panelVars, is_auto>>
           /\ InCycle' = InCycle
<1> DEFINE Moves(to) ==
        /\ to \in Places /\ Goto(w, thread[w], to)
        /\ UNCHANGED <<panelVars, is_auto>>
        /\ to \in Reading => span'[w] # <<>>
        /\ \A v \in Workers : v # w => span'[v] = span[v]
        /\ published' \in BOOLEAN /\ overlapped' \in BOOLEAN /\ staged' \in BOOLEAN
        /\ cursor' \in 0..N /\ stepped' \in Seq(1..N)
        /\ span' \in [Workers -> Seq(1..N)]
<1>1. ASSUME NEW to, Moves(to)
      PROVE  PanelTypes' /\ InCycle' = InCycle
  <2>1. w \in Callers /\ Looper \in Callers /\ w # Looper /\ Workers \subseteq Callers
    BY CallersAssumption
  <2>2. /\ thread' \in [Callers -> Places] /\ thread'[Looper] = thread[Looper]
        /\ \A v \in Workers : thread'[v] = IF v = w THEN to ELSE thread[v]
    BY <1>1, <2>1, GotoTypes
  <2>3. \A v \in Workers : thread'[v] \in Reading => span'[v] # <<>>
    BY <1>1, <2>2 DEF PanelTypes
  <2>4. PanelTypes'
    BY <1>1, <2>2, <2>3 DEF PanelTypes, panelVars
  <2> QED
    BY <2>2, <2>4 DEF InCycle
<1>2. /\ cursor \in 0..N /\ 0 \in 0..N /\ stepped \in Seq(1..N) /\ <<>> \in Seq(1..N)
      /\ published \in BOOLEAN /\ overlapped \in BOOLEAN /\ staged \in BOOLEAN
      /\ span \in [Workers -> Seq(1..N)]
      /\ thread[w] \in Reading => span[w] # <<>>
  BY RowsAssumption DEF PanelTypes
<1>3. w \in Callers /\ sim \in {0} \cup Previews
  BY CallersAssumption DEF PreviewInv, SimTypeOK
<1>4. ASSUME UNCHANGED simVars PROVE PreviewInv'
  BY <1>4 DEF simVars, PreviewInv, SimTypeOK
<1>5. ASSUME NEW to \in Places, Goto(w, thread[w], to), UNCHANGED <<panelVars, is_auto, stepVars>>,
             thread[w] \in Reading \/ to \notin Reading
      PROVE  Moves(to)
  BY <1>2, <1>5 DEF stepVars
<1>6. CASE InferOnce(w)
  <2>1. Moves("done") \/ Moves("publish")
    BY <1>2, <1>6 DEF InferOnce, Goto, ResetCursor, Restart, Places, Reading
  <2> QED
    BY <1>1, <1>4, <1>6, <2>1 DEF InferOnce
<1>7. CASE InferPublish(w)
  <2>1. Moves("done")
    BY <1>2, <1>7 DEF InferPublish, Goto, Places, Reading
  <2> QED
    BY <1>1, <1>4, <1>7, <2>1 DEF InferPublish
<1>8. CASE ReadRows(w)
  <2>1. Moves("done") \/ Moves("resync")
    <3>1. CASE \E from \in {"step", "all"} : Goto(w, from, "done") /\ UNCHANGED span
      <4>1. Goto(w, thread[w], "done") /\ UNCHANGED <<panelVars, is_auto, stepVars>>
        BY <1>8, <3>1 DEF ReadRows, Goto, stepVars
      <4> QED
        BY <1>5, <4>1 DEF Places, Reading
    <3>2. ASSUME NEW rows, cursor < N, Goto(w, thread[w], "resync"),
                 span' = [span EXCEPT ![w] = rows], rows \in Seq(1..N), rows # <<>>
          PROVE  Moves("resync")
      <4>1. span' \in [Workers -> Seq(1..N)] /\ span'[w] = rows
            /\ \A v \in Workers : v # w => span'[v] = span[v]
        BY <1>2, <3>2
      <4> QED
        BY <1>2, <1>8, <3>2, <4>1 DEF ReadRows, Places
    <3>3. CASE cursor < N /\ Goto(w, "step", "resync")
               /\ span' = [span EXCEPT ![w] = <<cursor + 1>>]
      <4>1. cursor + 1 \in 1..N
        BY <1>2, <3>3, RowsAssumption
      <4>2. <<cursor + 1>> \in Seq(1..N) /\ <<cursor + 1>> # <<>>
        BY <4>1
      <4> QED
        BY <3>2, <3>3, <4>2 DEF Goto
    <3>4. CASE cursor < N /\ Goto(w, "all", "resync")
               /\ span' = [span EXCEPT ![w] = [i \in 1..(N - cursor) |-> cursor + i]]
      <4> DEFINE rows == [i \in 1..(N - cursor) |-> cursor + i]
      <4>1. N - cursor \in Nat /\ N - cursor > 0 /\ cursor \in Nat /\ N \in Nat
        BY <1>2, <3>4, RowsAssumption
      <4>2. \A i \in 1..(N - cursor) : cursor + i \in 1..N
        BY <4>1
      <4>3. rows \in [1..(N - cursor) -> 1..N]
        BY <4>2
      <4>4. rows \in Seq(1..N) /\ Len(rows) = N - cursor
        BY <4>1, <4>3
      <4>5. rows # <<>>
        BY <4>1, <4>4
      <4> HIDE DEF rows
      <4> QED
        BY <3>2, <3>4, <4>4, <4>5 DEF Goto, rows
    <3> QED
      BY <1>8, <3>1, <3>3, <3>4 DEF ReadRows
  <2> QED
    BY <1>1, <1>4, <1>8, <2>1 DEF ReadRows
<1>9. CASE Resync(w)
  <2>1. \E to \in {"done", "solve", "reset"} : Goto(w, thread[w], to)
    BY <1>9 DEF Resync, Goto
  <2>2. thread[w] \in Reading /\ UNCHANGED <<simVars, panelVars, is_auto, stepVars>>
    BY <1>9 DEF Resync, Goto, Reading
  <2>3. \E to \in {"done", "solve", "reset"} : Moves(to)
    BY <1>5, <2>1, <2>2 DEF Places
  <2> QED
    BY <1>1, <1>4, <2>2, <2>3
<1>10. ASSUME NEW from \in Reading, NEW to \in Places, SubmitJob(w, from, to)
       PROVE  /\ PreviewInv' /\ PanelTypes' /\ UNCHANGED <<panelVars, is_auto>>
              /\ InCycle' = InCycle
  <2>1. UNCHANGED <<panelVars, is_auto, stepVars>> /\ thread[w] \in Reading
        /\ (Goto(w, thread[w], "none") \/ Goto(w, thread[w], to))
    BY <1>10 DEF SubmitJob, Goto
  <2>2. PreviewInv'
    BY <1>3, <1>4, <1>10, SubmitTypes DEF SubmitJob
  <2>3. Moves("none") \/ Moves(to)
    BY <1>5, <1>10, <2>1 DEF Places
  <2> QED
    BY <1>1, <2>1, <2>2, <2>3
<1>11. ASSUME NEW to \in Places, NEW reply, Receive(w, reply), Goto(w, thread[w], to),
              thread[w] \in Reading, UNCHANGED <<panelVars, is_auto, stepVars>>
       PROVE  /\ PreviewInv' /\ PanelTypes' /\ UNCHANGED <<panelVars, is_auto>>
              /\ InCycle' = InCycle
  <2>1. PreviewInv'
    BY <1>3, <1>11, ReceiveTypes
  <2>2. Moves(to)
    BY <1>5, <1>11
  <2> QED
    BY <1>1, <1>11, <2>1, <2>2
<1>12. CASE ResetSim(w) \/ SubmitValidation(w)
  BY <1>10, <1>12 DEF ResetSim, SubmitValidation, Places, Reading
<1>13. CASE ResetDone(w) \/ Validated(w)
  <2>1. \E to \in {"solve", "none", "store", "done"}, reply \in Replies :
           Receive(w, reply) /\ Goto(w, thread[w], to)
    BY <1>13 DEF ResetDone, Validated, Goto, Receive
  <2>2. thread[w] \in Reading /\ UNCHANGED <<panelVars, is_auto, stepVars>>
    BY <1>13 DEF ResetDone, Validated, Goto, Reading
  <2> QED
    BY <1>11, <2>1, <2>2 DEF Places
<1>14. CASE Solve(w)
  <2>1. \E to \in {"done", "submit"} : Goto(w, thread[w], to)
    BY <1>14 DEF Solve, Goto
  <2>2. thread[w] \in Reading /\ UNCHANGED <<simVars, panelVars, is_auto, stepVars>>
    BY <1>14 DEF Solve, Goto, Reading
  <2>3. \E to \in {"done", "submit"} : Moves(to)
    BY <1>5, <2>1, <2>2 DEF Places
  <2> QED
    BY <1>1, <1>4, <2>2, <2>3
<1>15. CASE Store(w)
  <2>1. span[w] # <<>> /\ span[w] \in Seq(1..N)
    BY <1>2, <1>15 DEF Store, Goto, Reading
  <2>2. stepped' \in Seq(1..N)
    BY <1>2, <1>15, <2>1, AppendedRows DEF Store
  <2>3. Moves("advance")
    BY <1>2, <1>15, <2>1, <2>2 DEF Store, Goto, Places
  <2> QED
    BY <1>1, <1>4, <1>15, <2>3 DEF Store
<1>16. CASE Advance(w)
  <2>1. span[w] # <<>> /\ span[w] \in Seq(1..N)
    BY <1>2, <1>16 DEF Advance, Goto, Reading
  <2>2. span[w][Len(span[w])] \in 1..N
    BY <2>1, LastRow
  <2>4. cursor' \in 0..N
    BY <1>16, <2>2, RowsAssumption DEF Advance
  <2>5. Moves("done")
    BY <1>2, <1>16, <2>4 DEF Advance, Goto, Places, Reading
  <2> QED
    BY <1>1, <1>4, <1>16, <2>5 DEF Advance
<1> QED
  BY <1>6, <1>7, <1>8, <1>9, <1>12, <1>13, <1>14, <1>15, <1>16 DEF Worker

\* The buttons and the callbacks of Tk: the types, and that Tk is elsewhere whenever
\* it dropped the flag under a cycle.
Locked == InCycle => is_auto \/ tk # "idle"

\* A worker that is set in motion, or is through.
LEMMA WorkerButtons ==
    ASSUME PanelTypes, NEW w \in Workers,
           Done(w) \/ \E kind \in {"request", "step", "all"} : Press(w, kind)
    PROVE  PanelTypes' /\ InCycle' = InCycle /\ UNCHANGED <<simVars, tk, is_auto>>
<1>1. w \in Callers /\ Looper \in Callers /\ w # Looper /\ Workers \subseteq Callers
  BY CallersAssumption
<1>2. \E to \in {"none", "request", "step", "all"} : Goto(w, thread[w], to)
  BY DEF Done, Press, Goto
<1>3. PICK to \in {"none", "request", "step", "all"} : Goto(w, thread[w], to)
  BY <1>2
<1>4. /\ thread' \in [Callers -> Places] /\ thread'[Looper] = thread[Looper]
      /\ \A v \in Workers : thread'[v] = IF v = w THEN to ELSE thread[v]
  BY <1>1, <1>3, GotoTypes DEF Places
<1>5. /\ span' \in [Workers -> Seq(1..N)]
      /\ \A v \in Workers : v # w => span'[v] = span[v]
  <2>1. span \in [Workers -> Seq(1..N)] /\ <<>> \in Seq(1..N)
    BY DEF PanelTypes
  <2>2. span' = span \/ span' = [span EXCEPT ![w] = <<>>]
    BY DEF Done, Press
  <2> QED
    BY <2>1, <2>2
<1>6. \A v \in Workers : thread'[v] \in Reading => span'[v] # <<>>
  BY <1>4, <1>5 DEF PanelTypes, Reading
<1>7. /\ UNCHANGED <<simVars, tk, is_auto, polls, auto_pending, published, cursor, staged,
                     stepped>>
      /\ busy' \in BOOLEAN /\ overlapped' \in BOOLEAN
  BY DEF Done, Press, PanelTypes
<1>8. PanelTypes'
  BY <1>4, <1>5, <1>6, <1>7 DEF PanelTypes
<1> QED
  BY <1>4, <1>7, <1>8 DEF InCycle

\* Starting the auto loop, from the button or the poll.
LEMMA LoopStarts ==
    ASSUME PanelTypes, StartLoop \/ UNCHANGED <<is_auto, thread, overlapped>>,
           polls' \in 0..MaxPolls, auto_pending' \in BOOLEAN,
           UNCHANGED <<tk, busy, published, cursor, span, staged, stepped>>
    PROVE  PanelTypes' /\ (InCycle' => InCycle) /\ (is_auto => is_auto')
<1>1. CASE UNCHANGED <<is_auto, thread, overlapped>>
  BY <1>1 DEF PanelTypes, InCycle
<1>2. CASE StartLoop
  <2>1. Looper \in Callers /\ \A w \in Workers : w \in Callers /\ w # Looper
    BY CallersAssumption
  <2>2. is_auto' = TRUE /\ overlapped' \in BOOLEAN
    BY <1>2 DEF StartLoop, PanelTypes
  <2>3. /\ thread' \in [Callers -> Places] /\ \A w \in Workers : thread'[w] = thread[w]
        /\ thread'[Looper] \in {thread[Looper], "head"}
    BY <1>2, <2>1 DEF StartLoop, PanelTypes, Places
  <2>4. PanelTypes'
    BY <2>2, <2>3 DEF PanelTypes
  <2> QED
    BY <2>2, <2>3, <2>4 DEF InCycle
<1> QED
  BY <1>1, <1>2

\* The other buttons and the callbacks.
LEMMA TkTypes ==
    ASSUME PreviewInv, PanelTypes, Buttons \/ Callbacks
    PROVE  PreviewInv' /\ PanelTypes' /\ (Locked => Locked')
<1> DEFINE Goal == PreviewInv' /\ PanelTypes' /\ (Locked => Locked')
<1>1. ASSUME UNCHANGED simVars PROVE PreviewInv'
  BY <1>1 DEF simVars, PreviewInv, SimTypeOK
<1>2. CASE \E w \in Workers, kind \in {"request", "step", "all"} : Press(w, kind)
  BY <1>1, <1>2, WorkerButtons DEF Locked
<1>3. CASE Release
  <2>1. PanelTypes'
    BY <1>3 DEF Release, PanelTypes, panelVars
  <2> QED
    BY <1>1, <1>3, <2>1 DEF Release, Locked, InCycle, panelVars
<1>4. CASE LaunchButton
  <2>1. PreviewInv'
    BY <1>4, LaunchTypes DEF LaunchButton
  <2>2. PanelTypes'
    BY <1>4 DEF LaunchButton, PanelTypes, panelVars, stepVars
  <2> QED
    BY <1>4, <2>1, <2>2 DEF LaunchButton, Locked, InCycle, panelVars
<1>5. CASE StartAuto
  <2>1. PreviewInv'
    BY <1>1, <1>5, LaunchTypes DEF StartAuto
  <2>2. /\ StartLoop \/ UNCHANGED <<is_auto, thread, overlapped>>
        /\ auto_pending' \in BOOLEAN
        /\ UNCHANGED <<tk, busy, published, cursor, span, staged, stepped>>
    BY <1>5 DEF StartAuto
  <2>3. polls' \in 0..MaxPolls
    BY <1>5, RowsAssumption DEF StartAuto, PanelTypes
  <2> QED
    BY <2>1, <2>2, <2>3, LoopStarts DEF Locked
<1>6. CASE Poll
  <2>1. /\ StartLoop \/ UNCHANGED <<is_auto, thread, overlapped>>
        /\ auto_pending' \in BOOLEAN
        /\ UNCHANGED <<tk, busy, published, cursor, span, staged, stepped>>
    BY <1>6 DEF Poll
  <2>2. polls' \in 0..MaxPolls
    BY <1>6, RowsAssumption DEF Poll, PanelTypes
  <2> QED
    BY <1>1, <1>6, <2>1, <2>2, LoopStarts DEF Locked, Poll
<1>7. CASE Stop \/ Close
  <2>1. /\ tk' \in {"stopping", "closing"} /\ is_auto' = FALSE
        /\ UNCHANGED <<simVars, polls, auto_pending, busy, thread, stepVars>>
    BY <1>7 DEF Stop, Close, StopAuto
  <2>2. PanelTypes'
    BY <2>1 DEF PanelTypes, stepVars
  <2> QED
    BY <1>1, <2>1, <2>2 DEF Locked
<1>8. CASE StopJoined \/ CloseJoined
  <2>1. /\ tk' \in {"idle", "ending"}
        /\ thread' = [thread EXCEPT ![Looper] = "none"]
        /\ UNCHANGED <<simVars, polls, auto_pending, busy, is_auto, stepVars>>
    BY <1>8 DEF StopJoined, CloseJoined, Joined
  <2>2. Looper \in Callers /\ \A w \in Workers : w \in Callers /\ w # Looper
    BY CallersAssumption
  <2>3. /\ thread' \in [Callers -> Places] /\ thread'[Looper] = "none"
        /\ \A w \in Workers : thread'[w] = thread[w]
    BY <2>1, <2>2 DEF PanelTypes, Places
  <2>4. PanelTypes'
    BY <2>1, <2>3 DEF PanelTypes, stepVars
  <2> QED
    BY <1>1, <2>1, <2>3, <2>4 DEF Locked, InCycle
<1>9. CASE StopSim
  <2>1. PreviewInv'
    BY <1>9 DEF StopSim, PreviewInv, SimTypeOK
  <2>2. PanelTypes'
    BY <1>9 DEF StopSim, PanelTypes, stepVars
  <2> QED
    BY <1>9, <2>1, <2>2 DEF StopSim, Locked
<1>10. CASE Exit
  <2>1. PanelTypes'
    BY <1>10 DEF Exit, PanelTypes, stepVars
  <2> QED
    BY <1>1, <1>10, <2>1 DEF Exit, Locked
<1> QED
  BY <1>2, <1>3, <1>4, <1>5, <1>6, <1>7, <1>8, <1>9, <1>10 DEF Buttons, Callbacks

-----------------------------------------------------------------------------
\* Every step keeps the types and the lock.
LEMMA ConsoleSteps ==
    ASSUME PreviewInv, PanelTypes, Locked, [Next]_vars
    PROVE  PreviewInv' /\ PanelTypes' /\ Locked'
<1>1. CASE AutoLoop
  BY <1>1, AutoTypes DEF Locked, panelVars
<1>2. CASE Buttons \/ Callbacks
  BY <1>2, TkTypes
<1>3. CASE Preview(SimThread) \/ Preview(CloseWindow)
  <2>1. PreviewInv'
    BY <1>3, SimThreadTypes, LaunchTypes DEF Preview
  <2>2. PanelTypes'
    BY <1>3 DEF Preview, PanelTypes, panelVars, stepVars
  <2> QED
    BY <1>3, <2>1, <2>2 DEF Preview, Locked, InCycle, panelVars
<1>4. CASE \E w \in Workers : Worker(w)
  BY <1>4, WorkerTypes DEF Locked, panelVars
<1>5. CASE \E w \in Workers : Done(w)
  <2>1. PanelTypes' /\ InCycle' = InCycle /\ UNCHANGED <<simVars, tk, is_auto>>
    BY <1>5, WorkerButtons
  <2> QED
    BY <2>1 DEF simVars, PreviewInv, SimTypeOK, Locked
<1>6. CASE UNCHANGED vars
  BY <1>6 DEF vars, simVars, panelVars, stepVars, PreviewInv, SimTypeOK, PanelTypes,
     Locked, InCycle
<1> QED
  BY <1>1, <1>2, <1>3, <1>4, <1>5, <1>6 DEF Next

\* The types and the lock always hold.
LEMMA ConsoleInvariant == Spec => [](PreviewInv /\ PanelTypes /\ Locked)
<1>1. Init => Locked
  BY CallersAssumption DEF Init, Locked, InCycle
<1> QED
  BY <1>1, ConsoleStarts, ConsoleSteps, PTL DEF Spec

\* Types of preview, panel and threads.
THEOREM ConsoleTypes == Spec => []TypeOK
<1>1. PreviewInv /\ PanelTypes => TypeOK
  BY DEF PreviewInv, PanelTypes, TypeOK
<1> QED
  BY <1>1, ConsoleInvariant, PTL

\* The flag is dropped only by Tk on its way to join the loop, and Tk is back at its
\* buttons only when the loop has ended: the unlocked controls find no cycle.
THEOREM TuningIsLocked == Spec => []TunedOutsideCycle
<1>1. Locked => TunedOutsideCycle
  BY DEF Locked, TunedOutsideCycle, TuningLocked
<1> QED
  BY <1>1, ConsoleInvariant, PTL

-----------------------------------------------------------------------------
(* The manual step-through.                                                 *)

Resting == {"none", "done", "ended"}

\* As long as no thread was started beside another, one thread is at work at most,
\* the rows it has read follow the cursor, and the cursor counts what is staged but
\* between the staging and its advance.
Single == \A t, u \in Callers : Alive(t) /\ Alive(u) => t = u
Following == \A w \in Workers : thread[w] \in Reading \ {"advance"} =>
                \A i \in 1..Len(span[w]) : span[w][i] = cursor + i
Counted == (\A w \in Workers : thread[w] # "advance") => cursor = Len(stepped)
Advancing == \A w \in Workers : thread[w] = "advance" =>
                span[w][Len(span[w])] = Len(stepped)
InOrder == \A i \in 1..Len(stepped) : stepped[i] = i

StepInv == ~overlapped => Single /\ Following /\ Counted /\ Advancing /\ InOrder

\* A thread moves, and neither reads rows nor stages nor advances.
LEMMA QuietStep ==
    ASSUME PanelTypes, StepInv, NEW t \in Callers, NEW to \in Places,
           Goto(t, thread[t], to), thread[t] # "advance", to # "advance",
           to \in Reading => thread[t] \in Reading,
           UNCHANGED <<cursor, stepped>>,
           \A w \in Workers : w # t \/ to \in Reading => span'[w] = span[w],
           overlapped => overlapped',
           overlapped' \/ Alive(t) \/ to \in Resting \/ \A u \in Callers : ~Alive(u)
    PROVE  StepInv'
<1> SUFFICES ASSUME ~overlapped' PROVE (Single /\ Following /\ Counted /\ Advancing /\ InOrder)'
  BY DEF StepInv
<1>1. Single /\ Following /\ Counted /\ Advancing /\ InOrder
  BY DEF StepInv
<1>2. /\ \A u \in Callers : thread'[u] = IF u = t THEN to ELSE thread[u]
      /\ Workers \subseteq Callers
  BY GotoTypes, CallersAssumption
<1>3. Single'
  BY <1>1, <1>2 DEF Single, Alive, Resting
<1>4. Following'
  BY <1>1, <1>2 DEF Following
<1>5. Counted'
  BY <1>1, <1>2 DEF Counted
<1>6. Advancing'
  BY <1>1, <1>2 DEF Advancing
<1>7. InOrder'
  BY <1>1 DEF InOrder
<1> QED
  BY <1>3, <1>4, <1>5, <1>6, <1>7

\* An answer of the policy resets the cursor.
LEMMA ResetStep ==
    ASSUME PanelTypes, NEW t \in Callers, Goto(t, thread[t], "publish"), ResetCursor(t)
    PROVE  StepInv'
<1> SUFFICES ASSUME ~overlapped' PROVE (Single /\ Following /\ Counted /\ Advancing /\ InOrder)'
  BY DEF StepInv
<1>1. /\ stepped' = <<>> /\ cursor' = 0
      /\ \A u \in Callers \ {t} : ~Alive(u)
  BY DEF ResetCursor, Restart
<1>2. /\ \A u \in Callers : thread'[u] = IF u = t THEN "publish" ELSE thread[u]
      /\ Workers \subseteq Callers
  BY GotoTypes, CallersAssumption DEF Places
<1>3. \A w \in Workers : thread'[w] \notin Reading
  BY <1>1, <1>2 DEF Alive, Reading
<1>4. Single'
  BY <1>1, <1>2 DEF Single, Alive
<1>5. Following' /\ Advancing'
  BY <1>3 DEF Following, Advancing, Reading
<1>6. Counted' /\ InOrder'
  BY <1>1 DEF Counted, InOrder
<1> QED
  BY <1>4, <1>5, <1>6

\* The auto loop resets the cursor or moves quietly.
LEMMA AutoInStep ==
    ASSUME PanelTypes, StepInv, AutoLoop PROVE StepInv'
<1>1. Looper \in Callers /\ Looper \notin Workers
  BY CallersAssumption
<1>2. ASSUME NEW to \in {"head", "infer", "ended", "append", "solve", "wait"},
             Goto(Looper, thread[Looper], to), Alive(Looper), thread[Looper] # "advance",
             to = "solve" => thread[Looper] = "append",
             UNCHANGED <<cursor, stepped, span, overlapped>>
      PROVE  StepInv'
  <2> SUFFICES ASSUME ~overlapped' PROVE (Single /\ Following /\ Counted /\ Advancing /\ InOrder)'
    BY DEF StepInv
  <2>1. Single /\ Following /\ Counted /\ Advancing /\ InOrder
    BY <1>2 DEF StepInv
  <2>2. /\ \A u \in Callers : thread'[u] = IF u = Looper THEN to ELSE thread[u]
        /\ \A w \in Workers : w \in Callers /\ w # Looper
    BY <1>1, <1>2, GotoTypes, CallersAssumption DEF Places
  <2>3. \A w \in Workers : thread'[w] = thread[w]
    BY <2>2
  <2>4. Single'
    BY <1>2, <2>1, <2>2 DEF Single, Alive
  <2> QED
    BY <1>2, <2>1, <2>3, <2>4 DEF Following, Counted, Advancing, InOrder
<1>3. CASE AutoInfer
  <2>1. CASE Goto(Looper, "infer", "head") /\ UNCHANGED <<cursor, stepped, overlapped>>
    BY <1>2, <1>3, <2>1 DEF AutoInfer, Goto, Alive
  <2>2. CASE Goto(Looper, "infer", "publish") /\ ResetCursor(Looper)
    BY <1>1, <2>2, ResetStep DEF Goto
  <2> QED
    BY <1>3, <2>1, <2>2 DEF AutoInfer
<1>4. CASE ~AutoInfer
  <2>1. /\ \E to \in {"head", "infer", "ended", "append", "solve", "wait"} :
              Goto(Looper, thread[Looper], to) /\ (to = "solve" => thread[Looper] = "append")
        /\ thread[Looper] \in {"head", "publish", "append", "solve", "wait"}
    BY <1>4 DEF AutoLoop, AutoHead, AutoPublish, AutoAppend, AutoSubmit, AutoResult, Goto
  <2>2. UNCHANGED <<cursor, stepped, span, overlapped>>
    BY <1>4 DEF AutoLoop, AutoHead, AutoPublish, AutoAppend, AutoSubmit, AutoResult, stepVars
  <2> QED
    BY <1>2, <2>1, <2>2 DEF Alive
<1> QED
  BY <1>3, <1>4

\* Reading the rows from the cursor on.
LEMMA ReadStep ==
    ASSUME PanelTypes, StepInv, NEW w \in Workers, NEW rows,
           Goto(w, thread[w], "resync"), Alive(w), thread[w] # "advance",
           span' = [span EXCEPT ![w] = rows],
           \A i \in 1..Len(rows) : rows[i] = cursor + i,
           UNCHANGED <<cursor, stepped, overlapped>>
    PROVE  StepInv'
<1> SUFFICES ASSUME ~overlapped' PROVE (Single /\ Following /\ Counted /\ Advancing /\ InOrder)'
  BY DEF StepInv
<1>1. Single /\ Following /\ Counted /\ Advancing /\ InOrder
  BY DEF StepInv
<1>2. w \in Callers /\ Workers \subseteq Callers
  BY CallersAssumption
<1>3. \A u \in Callers : thread'[u] = IF u = w THEN "resync" ELSE thread[u]
  BY <1>2, GotoTypes DEF Places
<1>4. span'[w] = rows /\ \A v \in Workers : v # w => span'[v] = span[v]
  BY DEF PanelTypes
<1>5. Single'
  BY <1>1, <1>2, <1>3 DEF Single, Alive
<1>6. Following'
  BY <1>1, <1>2, <1>3, <1>4 DEF Following
<1>7. Counted'
  BY <1>1, <1>2, <1>3 DEF Counted
<1>8. Advancing'
  BY <1>1, <1>2, <1>3, <1>4 DEF Advancing
<1>9. InOrder'
  BY <1>1 DEF InOrder
<1> QED
  BY <1>5, <1>6, <1>7, <1>8, <1>9

\* Staging the rows read.
LEMMA StoreStep ==
    ASSUME PanelTypes, StepInv, NEW w \in Workers, Store(w) PROVE StepInv'
<1> SUFFICES ASSUME ~overlapped' PROVE (Single /\ Following /\ Counted /\ Advancing /\ InOrder)'
  BY DEF StepInv
<1>1. Single /\ Following /\ Counted /\ Advancing /\ InOrder
  BY DEF Store, StepInv
<1>2. w \in Callers /\ Workers \subseteq Callers /\ thread[w] = "store"
  BY CallersAssumption DEF Store, Goto
<1>3. \A u \in Callers : thread'[u] = IF u = w THEN "advance" ELSE thread[u]
  BY <1>2, GotoTypes DEF Places, Store
<1>4. \A v \in Workers : v # w => thread[v] \notin Reading
  BY <1>1, <1>2 DEF Single, Alive, Reading
<1>5. cursor = Len(stepped)
  BY <1>2, <1>4, <1>1 DEF Counted, Reading
<1> DEFINE rows == span[w]
<1>6. rows \in Seq(1..N) /\ rows # <<>> /\ stepped \in Seq(1..N)
      /\ \A i \in 1..Len(rows) : rows[i] = cursor + i
  BY <1>1, <1>2 DEF PanelTypes, Following, Reading
<1>7. stepped' = stepped \o rows /\ UNCHANGED <<cursor, span>>
  BY DEF Store
<1> HIDE DEF rows
<1>8. Len(rows) \in Nat /\ Len(rows) > 0 /\ Len(stepped) \in Nat
  BY <1>6
<1>9. /\ Len(stepped') = Len(stepped) + Len(rows)
      /\ \A i \in 1..(Len(stepped) + Len(rows)) :
            stepped'[i] = IF i <= Len(stepped) THEN stepped[i] ELSE rows[i - Len(stepped)]
  BY <1>6, <1>7
<1>10. InOrder'
  <2> SUFFICES ASSUME NEW i \in 1..Len(stepped') PROVE stepped'[i] = i
    BY DEF InOrder
  <2>1. CASE i <= Len(stepped)
    BY <1>1, <1>8, <1>9, <2>1 DEF InOrder
  <2>2. CASE i > Len(stepped)
    <3>1. i - Len(stepped) \in 1..Len(rows)
      BY <1>8, <1>9, <2>2
    <3> QED
      BY <1>5, <1>6, <1>8, <1>9, <2>2, <3>1
  <2> QED
    BY <1>8, <1>9, <2>1, <2>2
<1>11. Advancing'
  <2>1. rows[Len(rows)] = Len(stepped')
    BY <1>5, <1>6, <1>8, <1>9
  <2>2. span'[w] = rows
    BY <1>7 DEF rows
  <2> QED
    BY <1>2, <1>3, <1>4, <2>1, <2>2 DEF Advancing, Reading
<1>12. Following' /\ Counted'
  BY <1>2, <1>3, <1>4 DEF Following, Counted, Reading
<1>13. Single'
  BY <1>1, <1>2, <1>3 DEF Single, Alive
<1> QED
  BY <1>10, <1>11, <1>12, <1>13

\* Advancing the cursor over them.
LEMMA AdvanceStep ==
    ASSUME PanelTypes, StepInv, NEW w \in Workers, Advance(w) PROVE StepInv'
<1> SUFFICES ASSUME ~overlapped' PROVE (Single /\ Following /\ Counted /\ Advancing /\ InOrder)'
  BY DEF StepInv
<1>1. Single /\ Following /\ Counted /\ Advancing /\ InOrder
  BY DEF Advance, StepInv
<1>2. w \in Callers /\ Workers \subseteq Callers /\ thread[w] = "advance"
  BY CallersAssumption DEF Advance, Goto
<1>3. \A u \in Callers : thread'[u] = IF u = w THEN "done" ELSE thread[u]
  BY <1>2, GotoTypes DEF Places, Advance
<1>4. \A v \in Workers : thread'[v] \notin Reading
  BY <1>1, <1>2, <1>3 DEF Single, Alive, Reading
<1>5. cursor' = Len(stepped) /\ UNCHANGED stepped
  BY <1>1, <1>2 DEF Advance, Advancing
<1>6. Single'
  BY <1>1, <1>2, <1>3 DEF Single, Alive
<1>7. Following' /\ Advancing' /\ Counted' /\ InOrder'
  BY <1>1, <1>4, <1>5 DEF Following, Advancing, Counted, InOrder, Reading
<1> QED
  BY <1>6, <1>7

\* A worker's steps.
LEMMA WorkerInStep ==
    ASSUME PanelTypes, StepInv, NEW w \in Workers, Worker(w) PROVE StepInv'
<1>1. w \in Callers
  BY CallersAssumption
<1>2. ASSUME NEW to \in Places, Goto(w, thread[w], to), Alive(w),
             thread[w] # "advance", to # "advance", to \in Reading => thread[w] \in Reading,
             UNCHANGED <<cursor, stepped, span, overlapped>>
      PROVE  StepInv'
  BY <1>1, <1>2, QuietStep
<1>3. CASE InferOnce(w)
  <2>1. CASE Goto(w, "request", "done") /\ UNCHANGED <<cursor, stepped, overlapped>>
    BY <1>2, <1>3, <2>1 DEF InferOnce, Goto, Alive, Places, Reading
  <2>2. CASE Goto(w, "request", "publish") /\ ResetCursor(w)
    BY <1>1, <2>2, ResetStep DEF Goto
  <2> QED
    BY <1>3, <2>1, <2>2 DEF InferOnce
<1>4. CASE ReadRows(w)
  <2>1. CASE UNCHANGED span /\ \E from \in {"step", "all"} : Goto(w, from, "done")
    BY <1>2, <1>4, <2>1 DEF ReadRows, Goto, Alive, Places, Reading
  <2>2. CASE Goto(w, "step", "resync") /\ span' = [span EXCEPT ![w] = <<cursor + 1>>]
    <3>1. \A i \in 1..Len(<<cursor + 1>>) : <<cursor + 1>>[i] = cursor + i
      OBVIOUS
    <3> QED
      BY <1>4, <2>2, <3>1, ReadStep DEF ReadRows, Goto, Alive
  <2>3. CASE Goto(w, "all", "resync")
             /\ span' = [span EXCEPT ![w] = [i \in 1..(N - cursor) |-> cursor + i]]
    <3> DEFINE rows == [i \in 1..(N - cursor) |-> cursor + i]
    <3>1. N - cursor \in Nat
      BY RowsAssumption DEF PanelTypes
    <3>2. Len(rows) = N - cursor
      BY <3>1
    <3>3. \A i \in 1..Len(rows) : rows[i] = cursor + i
      BY <3>2
    <3>4. span' = [span EXCEPT ![w] = rows]
      BY <2>3
    <3> HIDE DEF rows
    <3> QED
      BY <1>4, <2>3, <3>3, <3>4, ReadStep DEF ReadRows, Goto, Alive
  <2> QED
    BY <1>4, <2>1, <2>2, <2>3 DEF ReadRows
<1>5. CASE Store(w)
  BY <1>5, StoreStep
<1>6. CASE Advance(w)
  BY <1>6, AdvanceStep
<1>7. CASE InferPublish(w)
  BY <1>2, <1>7 DEF InferPublish, Goto, Alive, Places, Reading
<1>8. CASE \/ Resync(w) \/ ResetSim(w) \/ ResetDone(w) \/ Solve(w)
           \/ SubmitValidation(w) \/ Validated(w)
  <2>1. /\ \E to \in Places \ {"advance"} : Goto(w, thread[w], to)
        /\ thread[w] \in Reading \ {"advance"}
    BY <1>8 DEF Resync, ResetSim, ResetDone, Solve, SubmitValidation, Validated, SubmitJob,
       Goto, Places, Reading
  <2>2. UNCHANGED <<cursor, stepped, span, overlapped>>
    BY <1>8 DEF Resync, ResetSim, ResetDone, Solve, SubmitValidation, Validated, SubmitJob,
       stepVars
  <2> QED
    BY <1>2, <2>1, <2>2 DEF Alive, Reading
<1> QED
  BY <1>3, <1>4, <1>5, <1>6, <1>7, <1>8 DEF Worker

\* The buttons and the callbacks start threads, beside others or not.
LEMMA TkInStep ==
    ASSUME PanelTypes, StepInv,
           Buttons \/ Callbacks \/ \E w \in Workers : Done(w)
    PROVE  StepInv'
<1>1. Looper \in Callers /\ Looper \notin Workers /\ Workers \subseteq Callers
  BY CallersAssumption
<1>2. ASSUME UNCHANGED <<thread, cursor, stepped, span, overlapped>> PROVE StepInv'
  BY <1>2 DEF StepInv, Single, Following, Counted, Advancing, InOrder, Alive
<1>3. ASSUME StartLoop, UNCHANGED <<cursor, stepped, span>> PROVE StepInv'
  <2>1. CASE Alive(Looper)
    BY <1>2, <1>3, <2>1 DEF StartLoop
  <2>2. CASE ~Alive(Looper)
    <3>1. Goto(Looper, thread[Looper], "head") /\ thread[Looper] # "advance"
      BY <1>3, <2>2 DEF StartLoop, Goto, Alive
    <3>2. overlapped' = (overlapped \/ \E u \in Callers : Alive(u))
      BY <1>3, <2>2 DEF StartLoop
    <3>3. "head" \in Places /\ "head" \notin Reading
      BY DEF Places, Reading
    <3> QED
      BY <1>1, <1>3, <3>1, <3>2, <3>3, QuietStep
  <2> QED
    BY <2>1, <2>2
<1>4. ASSUME NEW w \in Workers, NEW kind \in {"request", "step", "all"}, Press(w, kind)
      PROVE  StepInv'
  <2>1. Goto(w, thread[w], kind) /\ thread[w] # "advance"
        /\ overlapped' = (overlapped \/ \E u \in Callers : Alive(u))
        /\ UNCHANGED <<cursor, stepped, span>>
    BY <1>4 DEF Press, Goto
  <2>2. kind \in Places /\ kind \notin Reading /\ kind # "advance"
    BY DEF Places, Reading
  <2> QED
    BY <1>1, <2>1, <2>2, QuietStep
<1>5. ASSUME NEW w \in Workers, Done(w) PROVE StepInv'
  <2>1. Goto(w, thread[w], "none") /\ thread[w] # "advance"
        /\ UNCHANGED <<cursor, stepped, overlapped>>
        /\ span' = [span EXCEPT ![w] = <<>>]
    BY <1>5 DEF Done, Goto
  <2>2. \A v \in Workers : v # w => span'[v] = span[v]
    BY <2>1 DEF PanelTypes
  <2>3. "none" \in Places /\ "none" \notin Reading /\ "none" \in Resting
    BY DEF Places, Reading, Resting
  <2> QED
    BY <1>1, <2>1, <2>2, <2>3, QuietStep
<1>6. CASE StartAuto \/ Poll
  <2>1. /\ StartLoop \/ UNCHANGED <<is_auto, thread, overlapped>>
        /\ UNCHANGED <<cursor, stepped, span>>
    BY <1>6 DEF StartAuto, Poll
  <2> QED
    BY <1>2, <1>3, <2>1
<1>7. CASE StopJoined \/ CloseJoined
  <2>1. Goto(Looper, thread[Looper], "none") /\ ~Alive(Looper)
        /\ UNCHANGED <<cursor, stepped, span, overlapped>>
    BY <1>7 DEF StopJoined, CloseJoined, Joined, Goto, stepVars
  <2>2. thread[Looper] # "advance"
    BY <2>1 DEF Alive
  <2>3. "none" \in Places /\ "none" \notin Reading /\ "none" \in Resting
    BY DEF Places, Reading, Resting
  <2> QED
    BY <1>1, <2>1, <2>2, <2>3, QuietStep
<1>8. CASE Release \/ LaunchButton \/ Stop \/ Close \/ StopSim \/ Exit
  BY <1>2, <1>8 DEF Release, LaunchButton, Stop, Close, StopAuto, StopSim, Exit, stepVars
<1> QED
  BY <1>4, <1>5, <1>6, <1>7, <1>8 DEF Buttons, Callbacks

\* Rows are staged in order, none twice and none left out, for any number of workers
\* as long as they come one after the other.
THEOREM RowsAreInStep == Spec => []RowsInStep
<1>1. Init => StepInv
  <2> SUFFICES ASSUME Init PROVE StepInv
    OBVIOUS
  <2>1. \A t \in Callers : thread[t] = "none"
    BY DEF Init
  <2>2. stepped = <<>> /\ cursor = 0 /\ Workers \subseteq Callers
    BY CallersAssumption DEF Init
  <2> QED
    BY <2>1, <2>2 DEF StepInv, Single, Following, Counted, Advancing, InOrder, Alive, Reading
<1>2. PanelTypes /\ StepInv /\ [Next]_vars => StepInv'
  <2> SUFFICES ASSUME PanelTypes, StepInv, [Next]_vars PROVE StepInv'
    OBVIOUS
  <2>1. CASE AutoLoop
    BY <2>1, AutoInStep
  <2>2. CASE Buttons \/ Callbacks \/ \E w \in Workers : Done(w)
    BY <2>2, TkInStep
  <2>3. CASE \E w \in Workers : Worker(w)
    BY <2>3, WorkerInStep
  <2>4. CASE Preview(SimThread) \/ Preview(CloseWindow) \/ UNCHANGED vars
    BY <2>4 DEF Preview, vars, stepVars, StepInv, Single, Following, Counted, Advancing,
       InOrder, Alive
  <2> QED
    BY <2>1, <2>2, <2>3, <2>4 DEF Next
<1>3. StepInv => RowsInStep
  <2> SUFFICES ASSUME StepInv, ~overlapped
               PROVE  /\ \A i \in 1..Len(stepped) : stepped[i] = i
                      /\ (\A t \in Callers : ~Alive(t)) => cursor = Len(stepped)
    BY DEF RowsInStep
  <2>1. InOrder /\ Counted
    BY DEF StepInv
  <2>2. (\A t \in Callers : ~Alive(t)) => \A w \in Workers : thread[w] # "advance"
    BY CallersAssumption DEF Alive
  <2> QED
    BY <2>1, <2>2 DEF InOrder, Counted
<1> QED
  BY <1>1, <1>2, <1>3, ConsoleInvariant, PTL DEF Spec
=============================================================================
