-------------------------- MODULE Sessions_proofs --------------------------
(* The two components that write sessions to files.  Recording, for every set  *)
(* of cameras and every number of sessions and rows: the types, that the panel  *)
(* is in step with the recorder, that the pins of a recording hold, that a       *)
(* session being written is not touched any more, and that no frame outlives    *)
(* its subscription.  EvalTrials, for every length of the log and every number  *)
(* of keys, starts and rotations: that a session resumes, that outcomes go to   *)
(* the attempts in their order, and that an attempt has its own misses.         *)
EXTENDS Recording, EvalTrials, WellFoundedInduction, FiniteSetTheorems, TLAPS

-----------------------------------------------------------------------------
(* Recording: operators of the model.                                        *)

Ticks == [step : Steps, desired : SUBSET Cams, fresh : SUBSET Cams]

LEMMA EndedTicks ==
    ASSUME NEW step \in Steps
    PROVE  Ended(step) \in Ticks /\ Ended(step).step = step
  BY DEF Ended, Ticks

\* Sequences of sessions and of rows: one more, and one replaced.
LEMMA OneMore ==
    ASSUME NEW S, NEW q \in Seq(S), NEW x \in S
    PROVE  /\ Append(q, x) \in Seq(S) /\ Len(Append(q, x)) = Len(q) + 1 /\ Len(q) \in Nat
           /\ Append(q, x)[Len(q) + 1] = x
           /\ \A i \in 1..Len(q) : Append(q, x)[i] = q[i]
  OBVIOUS

LEMMA OneReplaced ==
    ASSUME NEW S, NEW q \in Seq(S), NEW i \in 1..Len(q), NEW x \in S
    PROVE  /\ [q EXCEPT ![i] = x] \in Seq(S) /\ Len([q EXCEPT ![i] = x]) = Len(q)
           /\ [q EXCEPT ![i] = x][i] = x
           /\ \A j \in 1..Len(q) : j # i => [q EXCEPT ![i] = x][j] = q[j]
  OBVIOUS

-----------------------------------------------------------------------------
(* Recording: the inductive invariant.                                       *)

\* The panel, the recorder and the flush threads go through the cycle together.
InCycle ==
    /\ gui \in {"idle", "stopped"} => rec = None
    /\ gui # "finalizing" => \A f \in Flushes : flush[f].step = "idle"
    /\ \A f \in Flushes : flush[f].step \in {"unpin", "finalize", "post"} => rec = None
    /\ \A f, g \in Flushes : flush[f].step # "idle" /\ flush[g].step # "idle" => f = g
    /\ main = "pin" => gui = "recording"
    /\ gui = "recording" /\ rec # None => sess[rec].name = name

\* Nobody but the recorder knows the session that is being recorded.
Unknown ==
    rec # None => /\ closing # rec
                  /\ \A f \in Flushes : flush[f].sid # rec
                  /\ \A n \in Names : disk[n] # rec

\* Until the hub is shut down a frame belongs to a camera that is open.
Current ==
    main \in {"tk", "pin", "closing", "finalize"} =>
        \A c \in Cams : frames[c] # "old" /\ (frames[c] = "live" => c \in open)

RecInv == TypeOK /\ InCycle /\ Unknown /\ PinsHold /\ Current

LEMMA RecStarts == Init => RecInv
<1> SUFFICES ASSUME Init PROVE RecInv
  OBVIOUS
<1> USE RecordingAssumption
<1>1. Len(<<>>) = 0 /\ <<>> \in Seq(Session)
  OBVIOUS
<1>2. HubTypeOK
  BY DEF Init, HubInit, HubTypeOK, Ended, Steps
<1>3. TypeOK
  BY <1>1, <1>2 DEF Init, TypeOK, None, NoDir, Names, Idle
<1> QED
  BY <1>3 DEF Init, HubInit, RecInv, InCycle, Unknown, PinsHold, Current, None, NoDir, Idle

-----------------------------------------------------------------------------
(* The hub: nothing of the recorder and the panel changes.                   *)

LEMMA HubKeeps ==
    ASSUME RecInv, HubTypeOK', fresh' \in BOOLEAN, UNCHANGED opVars,
           pinned' = pinned, Current'
    PROVE  RecInv'
<1> USE DEF RecInv, opVars
<1>1. TypeOK'
  BY DEF TypeOK
<1>2. InCycle' /\ Unknown' /\ PinsHold'
  BY DEF InCycle, Unknown, PinsHold
<1> QED
  BY <1>1, <1>2

LEMMA ConsumersKeep ==
    ASSUME RecInv, Consumers \/ TimePasses
    PROVE  RecInv'
<1>1. HubTypeOK /\ fresh \in BOOLEAN
  BY DEF RecInv, TypeOK
<1>2. /\ UNCHANGED <<pinned, open, frames, tick>> /\ UNCHANGED opVars
      /\ want' \in [Cams -> {"off", "recent", "idle"}] /\ fresh' \in BOOLEAN
  BY <1>1 DEF Consumers, TimePasses, Request, GoIdle, GetObs, TurnStale, hubVars, HubTypeOK
<1>3. HubTypeOK' /\ Current'
  BY <1>1, <1>2 DEF HubTypeOK, RecInv, Current, opVars
<1> QED
  BY <1>2, <1>3, HubKeeps

LEMMA HubTickKeeps ==
    ASSUME RecInv, UNCHANGED recVars,
           \/ BeginTick(main \in {"finalize", "closeall", "exit"})
           \/ \E names \in SUBSET Cams : Reconcile(names) \/ ReadFrames(names)
           \/ ReadRaises
    PROVE  RecInv'
<1>1. HubTypeOK /\ fresh \in BOOLEAN /\ fresh' = fresh /\ UNCHANGED opVars
  BY DEF RecInv, TypeOK, recVars
<1>2. CASE BeginTick(main \in {"finalize", "closeall", "exit"})
  <2>1. /\ tick' \in Ticks /\ want' \in [Cams -> {"off", "recent", "idle"}]
        /\ UNCHANGED <<pinned, open, frames>>
    BY <1>1, <1>2, EndedTicks DEF BeginTick, HubTypeOK, Ticks, Steps
  <2> QED
    BY <1>1, <2>1, HubKeeps DEF HubTypeOK, Ticks, RecInv, Current, opVars
<1>3. ASSUME NEW failed \in SUBSET Cams, Reconcile(failed) PROVE RecInv'
  <2>1. /\ tick' \in Ticks /\ open' \subseteq Cams
        /\ frames' \in [Cams -> {"none", "live", "old"}] /\ UNCHANGED <<want, pinned>>
    BY <1>1, <1>3 DEF Reconcile, HubTypeOK, Ticks, Steps
  <2>2. Current'
    BY <1>1, <1>3 DEF Reconcile, RecInv, Current, opVars, HubTypeOK
  <2> QED
    BY <1>1, <2>1, <2>2, HubKeeps DEF HubTypeOK, Ticks
<1>4. ASSUME NEW got \in SUBSET Cams, ReadFrames(got) PROVE RecInv'
  <2>1. /\ tick' \in Ticks /\ frames' \in [Cams -> {"none", "live", "old"}]
        /\ UNCHANGED <<want, pinned, open>>
    BY <1>1, <1>4 DEF ReadFrames, HubTypeOK, Ticks, Steps
  <2>2. Current'
    BY <1>1, <1>4 DEF ReadFrames, RecInv, Current, opVars, HubTypeOK
  <2> QED
    BY <1>1, <2>1, <2>2, HubKeeps DEF HubTypeOK, Ticks
<1>5. CASE ReadRaises
  <2>1. tick' \in Ticks /\ UNCHANGED <<want, pinned, open, frames>>
    BY <1>5, EndedTicks DEF ReadRaises, Steps
  <2> QED
    BY <1>1, <2>1, HubKeeps DEF HubTypeOK, Ticks, RecInv, Current, opVars
<1> QED
  BY <1>2, <1>3, <1>4, <1>5

LEMMA SdkReadKeeps ==
    ASSUME RecInv, SdkRead
    PROVE  RecInv'
<1>1. HubTypeOK /\ fresh \in BOOLEAN /\ tick.step = "sdk"
  BY DEF RecInv, TypeOK, SdkRead, Ingest
<1>2. /\ fresh' \in BOOLEAN /\ UNCHANGED <<want, pinned, open, frames>> /\ UNCHANGED opVars
      /\ tick' \in {[tick EXCEPT !.step = "record"], Ended("top")}
  BY <1>1 DEF SdkRead, Ingest
<1>3. tick' \in Ticks
  BY <1>1, <1>2, EndedTicks DEF HubTypeOK, Ticks, Steps
<1> QED
  BY <1>1, <1>2, <1>3, HubKeeps DEF HubTypeOK, Ticks, RecInv, Current, opVars

-----------------------------------------------------------------------------
(* The recorder.                                                             *)

\* A tick changes no session but the one that is being recorded, and not its name.
LEMMA TickTouches ==
    ASSUME RecInv, RecorderTick
    PROVE  /\ sess' \in Seq(Session) /\ Len(sess') = Len(sess)
           /\ \A s \in 1..Len(sess) : sess'[s].name = sess[s].name
           /\ \A s \in 1..Len(sess) : s # rec => sess'[s] = sess[s]
           /\ tick' \in {Ended("top"), Ended("dead")}
<1>1. sess \in Seq(Session) /\ rec \in 0..Len(sess) /\ Len(sess) \in Nat
      /\ HubTypeOK
  BY DEF RecInv, TypeOK
<1>2. CASE sess' = sess /\ tick' \in {Ended("top"), Ended("dead")}
  BY <1>1, <1>2
<1>3. CASE rec # None
  <2>1. rec \in 1..Len(sess) /\ sess[rec] \in Session /\ tick.fresh \subseteq Cams
    BY <1>1, <1>3 DEF None, HubTypeOK
  <2>2. Row \in Session /\ Row.name = sess[rec].name
    BY <2>1 DEF Row, Session
  <2>3. /\ [Row EXCEPT !.rows = Append(@, tick.fresh)] \in Session
        /\ [Row EXCEPT !.rows = Append(@, tick.fresh)].name = sess[rec].name
    <3>1. Row.rows \in Seq(SUBSET Cams) /\ tick.fresh \in SUBSET Cams
      BY <2>1, <2>2 DEF Session
    <3>2. Append(Row.rows, tick.fresh) \in Seq(SUBSET Cams)
      BY <3>1
    <3> QED
      BY <2>2, <3>2 DEF Session
  <2>4. /\ [Row EXCEPT !.torn = TRUE] \in Session
        /\ [Row EXCEPT !.torn = TRUE].name = sess[rec].name
    BY <2>2 DEF Session
  <2>5. PICK x \in Session : /\ x.name = sess[rec].name /\ sess' = [sess EXCEPT ![rec] = x]
                             /\ tick' \in {Ended("top"), Ended("dead")}
    BY <1>3, <2>2, <2>3, <2>4 DEF RecorderTick
  <2> QED
    BY <1>1, <2>1, <2>5, OneReplaced
<1> QED
  BY <1>2, <1>3 DEF RecorderTick

LEMMA TickKeeps ==
    ASSUME RecInv, RecorderTick
    PROVE  RecInv'
<1>1. /\ UNCHANGED <<want, pinned, open, frames>>
      /\ UNCHANGED <<fresh, rec, disk, gui, name, flush, main, closing>>
  BY DEF RecorderTick
<1>2. tick' \in Ticks
  BY TickTouches, EndedTicks DEF Steps
<1>3. TypeOK'
  BY <1>1, <1>2, TickTouches DEF RecInv, TypeOK, HubTypeOK, Ticks
<1>4. InCycle'
  <2>1. rec # None => rec \in 1..Len(sess)
    BY DEF RecInv, TypeOK, None
  <2> QED
    BY <1>1, <2>1, TickTouches DEF RecInv, InCycle
<1> QED
  BY <1>1, <1>3, <1>4 DEF RecInv, Unknown, PinsHold, Current

\* A start from idle or from stopped: nothing is being recorded, and what becomes
\* of it is new to everybody.
LEMMA BeginKeeps ==
    ASSUME RecInv, Handling, gui \in {"idle", "stopped"}, Begin
    PROVE  RecInv'
<1> DEFINE n == NextName
           new == [name |-> n, ready |-> {}, rows |-> <<>>, torn |-> FALSE]
<1>1. /\ rec = None /\ \A f \in Flushes : flush[f].step = "idle"
      /\ main = "tk"
  BY DEF RecInv, InCycle, Handling
<1>2. /\ n \in Names /\ gui' = "recording" /\ name' = n
      /\ UNCHANGED hubVars /\ UNCHANGED <<fresh, flush, closing>>
      /\ \/ /\ sess' = Append(sess, new) /\ rec' = Len(sess) + 1
            /\ disk' = [disk EXCEPT ![n] = IF @ = NoDir THEN 0 ELSE @] /\ main' = "pin"
         \/ UNCHANGED <<sess, rec, disk, main>>
  BY <1>1 DEF Begin, RecorderStart
<1>3. new \in Session
  <2>1. <<>> \in Seq(SUBSET Cams)
    OBVIOUS
  <2> QED
    BY <1>2, <2>1 DEF Session
<1>4. sess \in Seq(Session) /\ Len(sess) \in Nat /\ disk \in [Names -> NoDir..Len(sess)]
      /\ flush \in [Flushes -> [step : {"idle", "stop", "unpin", "finalize", "post"},
                                sid : 0..Len(sess)]]
      /\ closing \in 0..Len(sess)
  BY DEF RecInv, TypeOK
<1>5. n \in 1..MaxSessions /\ name' \in 0..MaxSessions /\ new.name = n
  BY <1>2, RecordingAssumption DEF Names
<1> HIDE DEF n, new
<1>6. CASE /\ sess' = Append(sess, new) /\ rec' = Len(sess) + 1
           /\ disk' = [disk EXCEPT ![n] = IF @ = NoDir THEN 0 ELSE @] /\ main' = "pin"
  <2>1. sess' \in Seq(Session) /\ Len(sess') = Len(sess) + 1 /\ sess'[rec'] = new
    BY <1>3, <1>4, <1>6, OneMore
  <2>2. disk' \in [Names -> NoDir..Len(sess)]
    <3>1. 0 \in NoDir..Len(sess)
      BY <1>4 DEF NoDir
    <3> QED
      BY <1>4, <1>6, <3>1
  <2>3. TypeOK'
    <3>1. disk' \in [Names -> NoDir..Len(sess')]
      BY <1>4, <2>1, <2>2 DEF NoDir
    <3>2. flush' \in [Flushes -> [step : {"idle", "stop", "unpin", "finalize", "post"},
                                  sid : 0..Len(sess')]]
      <4>1. \A f \in Flushes : flush[f].sid \in 0..(Len(sess) + 1)
        BY <1>4
      <4> QED
        BY <1>2, <1>4, <2>1, <4>1
    <3>3. rec' \in 0..Len(sess') /\ closing' \in 0..Len(sess')
      BY <1>2, <1>4, <1>6, <2>1
    <3> QED
      BY <1>2, <1>5, <1>6, <2>1, <3>1, <3>2, <3>3 DEF RecInv, TypeOK, HubTypeOK, hubVars
  <2>4. InCycle'
    BY <1>1, <1>2, <1>5, <1>6, <2>1 DEF RecInv, InCycle
  <2>5. Unknown'
    <3>1. closing # Len(sess) + 1 /\ \A f \in Flushes : flush[f].sid # Len(sess) + 1
      BY <1>4
    <3>2. \A m \in Names : disk'[m] # Len(sess) + 1
      BY <1>4, <2>2 DEF NoDir
    <3> QED
      BY <1>2, <1>6, <3>1, <3>2 DEF Unknown
  <2> QED
    BY <1>1, <1>2, <1>6, <2>3, <2>4, <2>5 DEF RecInv, PinsHold, Current, hubVars
<1>7. CASE UNCHANGED <<sess, rec, disk, main>>
  <2>1. TypeOK'
    BY <1>2, <1>5, <1>7 DEF RecInv, TypeOK, HubTypeOK, hubVars
  <2>2. InCycle'
    BY <1>1, <1>2, <1>7 DEF InCycle
  <2> QED
    BY <1>1, <1>2, <1>7, <2>1, <2>2 DEF RecInv, Unknown, PinsHold, Current, hubVars
<1> QED
  BY <1>2, <1>6, <1>7

-----------------------------------------------------------------------------
(* The other handlers of the panel, and the flush threads.                   *)

LEMMA PanelKeeps ==
    ASSUME RecInv, PinCameras \/ RecordingStop \/ RecordingSave \/ RecordingDelete
    PROVE  RecInv'
<1> USE DEF RecInv
<1>1. CASE PinCameras
  <2>1. HubTypeOK' /\ Cams \subseteq pinned'
    BY <1>1 DEF PinCameras, Pin, HubTypeOK, TypeOK
  <2> QED
    BY <1>1, <2>1 DEF PinCameras, Pin, TypeOK, InCycle, Unknown, PinsHold, Current
<1>2. CASE RecordingStop
  <2>1. PICK f \in Flushes : flush' = [flush EXCEPT ![f] = [step |-> "stop", sid |-> None]]
    BY <1>2 DEF RecordingStop
  <2>2. /\ gui = "recording" /\ gui' = "finalizing" /\ main = "tk"
        /\ UNCHANGED hubVars /\ UNCHANGED <<fresh, sess, rec, disk, name, main, closing>>
    BY <1>2 DEF RecordingStop, AfterStop, Handling
  <2>3. /\ flush' \in [Flushes -> [step : {"idle", "stop", "unpin", "finalize", "post"},
                                   sid : 0..Len(sess)]]
        /\ flush'[f].step = "stop" /\ flush'[f].sid = None
        /\ \A g \in Flushes : g # f => flush'[g] = flush[g]
    BY <2>1 DEF TypeOK, None
  <2>4. TypeOK' /\ InCycle'
    BY <2>2, <2>3 DEF TypeOK, HubTypeOK, hubVars, InCycle
  <2>5. Unknown'
    BY <2>2, <2>3 DEF Unknown
  <2> QED
    BY <2>2, <2>4, <2>5 DEF PinsHold, Current, hubVars
<1>3. CASE RecordingSave
  BY <1>3 DEF RecordingSave, Handling, TypeOK, HubTypeOK, hubVars, InCycle, Unknown,
              PinsHold, Current
<1>4. CASE RecordingDelete
  <2>1. disk' \in [Names -> NoDir..Len(sess)] /\ \A m \in Names : disk'[m] \in {disk[m], NoDir}
    <3>1. disk \in [Names -> NoDir..Len(sess)] /\ Len(sess) \in Nat
      BY DEF TypeOK
    <3>2. NoDir \in NoDir..Len(sess)
      BY <3>1 DEF NoDir
    <3> QED
      BY <1>4, <3>1, <3>2 DEF RecordingDelete
  <2>2. rec = None /\ gui' = "idle" /\ \A f \in Flushes : flush[f].step = "idle"
    BY <1>4 DEF RecordingDelete, InCycle
  <2> QED
    BY <1>4, <2>1, <2>2 DEF RecordingDelete, Handling, TypeOK, HubTypeOK, hubVars, InCycle,
       Unknown, PinsHold, Current
<1> QED
  BY <1>1, <1>2, <1>3, <1>4

\* Writing a session, by a flush thread or by the closing window.
LEMMA FinalizeTypes ==
    ASSUME RecInv, NEW s \in 0..Len(sess), Finalize(s)
    PROVE  /\ disk' \in [Names -> NoDir..Len(sess)]
           /\ \A n \in Names : disk'[n] \in {disk[n], s}
  BY DEF Finalize, RecInv, TypeOK, NoDir

LEMMA FlushKeeps ==
    ASSUME RecInv, NEW f \in Flushes,
           FlushStop(f) \/ FlushUnpin(f) \/ FlushFinalize(f) \/ ShowPostStop(f)
    PROVE  RecInv'
<1> DEFINE Flushing == [step : {"idle", "stop", "unpin", "finalize", "post"},
                        sid : 0..Len(sess)]
<1>1. /\ flush \in [Flushes -> Flushing] /\ rec \in 0..Len(sess) /\ Len(sess) \in Nat
      /\ HubTypeOK /\ flush[f] \in Flushing
  BY DEF RecInv, TypeOK
<1>2. PICK x \in Flushing : flush' = [flush EXCEPT ![f] = x]
  <2>1. Idle \in Flushing /\ [step |-> "post", sid |-> None] \in Flushing
        /\ [step |-> "unpin", sid |-> rec] \in Flushing
        /\ [flush[f] EXCEPT !.step = "finalize"] \in Flushing
    BY <1>1 DEF Idle, None
  <2> HIDE DEF Flushing
  <2> QED
    BY <2>1 DEF FlushStop, FlushUnpin, FlushFinalize, ShowPostStop
<1>3. /\ flush' \in [Flushes -> Flushing] /\ flush'[f] = x
      /\ \A g \in Flushes : g # f => flush'[g] = flush[g]
  BY <1>1, <1>2
<1>4. flush[f].step # "idle" /\ gui = "finalizing"
      /\ \A g \in Flushes : g # f => flush[g].step = "idle"
  BY DEF RecInv, InCycle, FlushStop, FlushUnpin, FlushFinalize, ShowPostStop
<1>5. main # "pin"
  BY <1>4 DEF RecInv, InCycle
<1>6. CASE FlushStop(f)
  <2>1. /\ rec' = None /\ UNCHANGED hubVars
        /\ UNCHANGED <<fresh, sess, disk, gui, name, main, closing>>
    BY <1>6 DEF FlushStop, Stopped
  <2>2. TypeOK'
    BY <1>1, <1>3, <2>1 DEF RecInv, TypeOK, HubTypeOK, hubVars, None
  <2>3. InCycle'
    BY <1>3, <1>4, <1>5, <2>1 DEF InCycle
  <2> QED
    BY <2>1, <2>2, <2>3 DEF RecInv, Unknown, PinsHold, Current, hubVars
<1>7. CASE FlushUnpin(f)
  <2>1. /\ rec = None /\ UNCHANGED <<want, open, frames, tick>> /\ pinned' \subseteq Cams
        /\ UNCHANGED <<fresh, sess, rec, disk, gui, name, main, closing>>
    BY <1>1, <1>7 DEF FlushUnpin, Unpin, RecInv, InCycle, HubTypeOK
  <2>2. TypeOK'
    BY <1>1, <1>3, <2>1 DEF RecInv, TypeOK, HubTypeOK
  <2>3. InCycle'
    BY <1>3, <1>4, <1>5, <2>1 DEF InCycle
  <2> QED
    BY <2>1, <2>2, <2>3 DEF RecInv, Unknown, PinsHold, Current
<1>8. CASE FlushFinalize(f)
  <2>1. /\ rec = None /\ UNCHANGED hubVars
        /\ UNCHANGED <<fresh, sess, rec, gui, name, main, closing>>
        /\ disk' \in [Names -> NoDir..Len(sess)]
    BY <1>1, <1>8, FinalizeTypes DEF FlushFinalize, RecInv, InCycle
  <2>2. TypeOK'
    BY <1>1, <1>3, <2>1 DEF RecInv, TypeOK, HubTypeOK, hubVars
  <2>3. InCycle'
    BY <1>3, <1>4, <1>5, <2>1 DEF InCycle
  <2> QED
    BY <2>1, <2>2, <2>3 DEF RecInv, Unknown, PinsHold, Current, hubVars
<1>9. CASE ShowPostStop(f)
  <2>1. /\ rec = None /\ UNCHANGED hubVars /\ x = Idle /\ gui' = "stopped"
        /\ UNCHANGED <<fresh, sess, rec, disk, name, main, closing>>
    BY <1>1, <1>3, <1>9 DEF ShowPostStop, RecInv, InCycle
  <2>2. TypeOK'
    BY <1>1, <1>3, <2>1 DEF RecInv, TypeOK, HubTypeOK, hubVars
  <2>3. InCycle'
    BY <1>3, <1>4, <1>5, <2>1 DEF InCycle, Idle
  <2> QED
    BY <2>1, <2>2, <2>3 DEF RecInv, Unknown, PinsHold, Current, hubVars
<1> QED
  BY <1>6, <1>7, <1>8, <1>9

LEMMA ClosingKeeps ==
    ASSUME RecInv, OnClosing \/ EnvStop \/ EnvFinalize \/ EnvCloseAll \/ Exit \/ Gone
    PROVE  RecInv'
<1> USE DEF RecInv, CloseVars
<1>1. CASE OnClosing
  BY <1>1 DEF OnClosing, Handling, TypeOK, HubTypeOK, hubVars, InCycle, Unknown, PinsHold,
              Current
<1>2. CASE EnvStop
  BY <1>2 DEF EnvStop, Stopped, TypeOK, HubTypeOK, hubVars, InCycle, Unknown, PinsHold,
              Current, None
<1>3. CASE EnvFinalize
  <2>1. /\ disk' \in [Names -> NoDir..Len(sess)]
        /\ \A n \in Names : disk'[n] \in {disk[n], closing}
    BY <1>3, FinalizeTypes DEF EnvFinalize, TypeOK
  <2>2. /\ main = "finalize" /\ main' \in {"closeall", "exit"} /\ UNCHANGED hubVars
        /\ UNCHANGED CloseVars /\ UNCHANGED <<rec, closing>>
    BY <1>3 DEF EnvFinalize
  <2> QED
    BY <2>1, <2>2 DEF TypeOK, HubTypeOK, hubVars, InCycle, Unknown, PinsHold, Current
<1>4. CASE EnvCloseAll \/ Exit
  BY <1>4 DEF EnvCloseAll, CloseAll, Exit, TypeOK, HubTypeOK, hubVars, InCycle, Unknown,
              PinsHold, Current
<1>5. CASE Gone
  BY <1>5 DEF Gone, vars, recVars, opVars, TypeOK, HubTypeOK, hubVars, InCycle, Unknown,
              PinsHold, Current
<1> QED
  BY <1>1, <1>2, <1>3, <1>4, <1>5

-----------------------------------------------------------------------------
(* The theorems.                                                             *)

LEMMA RecKeeps == RecInv /\ [Next]_vars => RecInv'
<1> SUFFICES ASSUME RecInv, [Next]_vars PROVE RecInv'
  OBVIOUS
<1>1. CASE Collect
  BY <1>1, HubTickKeeps, SdkReadKeeps, TickKeeps DEF Collect
<1>2. CASE RecordingStart \/ VrSaveAndStart
  BY <1>2, BeginKeeps DEF RecordingStart, Startable, VrSaveAndStart
<1>3. CASE UNCHANGED vars
  BY <1>3 DEF vars, recVars, opVars, RecInv, TypeOK, HubTypeOK, hubVars, InCycle, Unknown,
              PinsHold, Current
<1> QED
  BY <1>1, <1>2, <1>3, ConsumersKeep, PanelKeeps, FlushKeeps, ClosingKeeps DEF Next

THEOREM RecInvariant == Spec => []RecInv
BY RecStarts, RecKeeps, PTL DEF Spec

\* Type correctness of hub, recorder, panel and flush threads.
THEOREM RecordingTypes == Spec => []TypeOK
BY RecInvariant, PTL DEF RecInv

\* A record camera stays pinned from the end of start_recording to the stop.
THEOREM RecordingPins == Spec => []PinsHold
BY RecInvariant, PTL DEF RecInv

\* No consumer gets a frame of before its camera was switched off.
THEOREM FramesAreCurrent == Spec => []NoStaleFrame
<1>1. RecInv => NoStaleFrame
  BY DEF RecInv, Current, NoStaleFrame
<1> QED
  BY <1>1, RecInvariant, PTL

\* The panel lets the operator start only when the recorder is free.
THEOREM PanelAgrees == Spec => []PanelInStep
<1>1. RecInv => PanelInStep
  BY DEF RecInv, InCycle, PanelInStep
<1> QED
  BY <1>1, RecInvariant, PTL

\* A session that was handed over, or is written, is not touched any more.
THEOREM SessionsAreSealed == Spec => Sealed
<1>1. RecInv /\ [Next]_vars => [\A s \in DOMAIN sess : Held(s) => sess'[s] = sess[s]]_vars
  <2> SUFFICES ASSUME RecInv, Next, NEW s \in DOMAIN sess, Held(s)
               PROVE  sess'[s] = sess[s]
    OBVIOUS
  <2>1. s \in 1..Len(sess) /\ sess \in Seq(Session)
    BY DEF RecInv, TypeOK
  <2>2. s # rec
    BY <2>1 DEF RecInv, Unknown, Held, None
  <2>3. CASE RecorderTick
    BY <2>1, <2>2, <2>3, TickTouches
  <2>4. CASE Begin
    BY <2>1, <2>4, OneMore DEF Begin, RecorderStart
  <2>5. CASE UNCHANGED sess
    BY <2>5
  <2> QED
    BY <2>3, <2>4, <2>5
    DEF Next, Consumers, TimePasses, Collect, recVars, opVars, SdkRead, RecordingStart,
        VrSaveAndStart, PinCameras, RecordingStop, RecordingSave, RecordingDelete, FlushStop,
        FlushUnpin, FlushFinalize, ShowPostStop, OnClosing, EnvStop, EnvFinalize, EnvCloseAll,
        Exit, Gone, CloseVars, vars
<1> QED
  BY <1>1, RecInvariant, PTL DEF Spec, Sealed

-----------------------------------------------------------------------------
(* EvalTrials: induction over the naturals, as the least element of a set.   *)

LEMMA LeastNatural ==
    ASSUME NEW T \in SUBSET Nat, T # {}
    PROVE  \E m \in T : \A n \in T : m <= n
<1> DEFINE R == OpToRel(<, Nat)
<1>1. IsWellFoundedOn(R, Nat)
  BY NatLessThanWellFounded
<1>2. \A x, y \in Nat : x < y => <<x, y>> \in R
  BY DEF OpToRel
<1> HIDE DEF R
<1>3. PICK x \in T : \A y \in T : ~(<<y, x>> \in R)
  BY <1>1, WFMin
<1>4. \A y \in T : ~(y < x)
  BY <1>2, <1>3
<1> QED
  BY <1>3, <1>4

LEMMA UpTo ==
    ASSUME NEW n \in Nat, NEW P, 0 \in P, \A i \in 0..(n - 1) : i \in P => i + 1 \in P
    PROVE  0..n \subseteq P
<1> DEFINE T == {i \in Nat : i \in 0..n /\ i \notin P}
<1> SUFFICES ASSUME T # {} PROVE FALSE
  OBVIOUS
<1>1. T \in SUBSET Nat
  OBVIOUS
<1>2. PICK m \in T : \A i \in T : m <= i
  BY <1>1, LeastNatural
<1>3. m \in 0..n /\ m \notin P /\ m # 0
  OBVIOUS
<1>4. m - 1 \in 0..(n - 1) /\ m - 1 \notin T
  BY <1>2, <1>3
<1>5. m - 1 \in P /\ (m - 1) + 1 = m
  BY <1>3, <1>4
<1> QED
  BY <1>3, <1>4, <1>5

LEMMA MaxOf ==
    ASSUME NEW n \in Nat, NEW s \in SUBSET (1..n), s # {}
    PROVE  Max(s) \in s /\ \A i \in s : i <= Max(s)
<1> DEFINE T == {k \in Nat : \E i \in s : k = n - i}
<1>1. T \in SUBSET Nat /\ T # {}
  <2>1. PICK i \in s : TRUE
    OBVIOUS
  <2>2. n - i \in T
    BY <2>1
  <2> QED
    BY <2>2
<1>2. PICK k \in T : \A j \in T : k <= j
  BY <1>1, LeastNatural
<1>3. PICK m \in s : k = n - m
  OBVIOUS
<1>4. \A i \in s : i <= m
  <2>1. SUFFICES ASSUME NEW i \in s PROVE i <= m
    OBVIOUS
  <2>2. n - i \in T
    OBVIOUS
  <2> QED
    BY <1>2, <1>3, <2>2
<1>5. \E x \in s : \A y \in s : x >= y
  BY <1>3, <1>4
<1> QED
  BY <1>5 DEF Max

LEMMA MaxUpTo ==
    ASSUME NEW n \in Nat, NEW s \in SUBSET (1..(n + 1)), n + 1 \in s
    PROVE  Max(s) = n + 1 /\ s \ {Max(s)} \in SUBSET (1..n)
<1>1. n + 1 \in Nat /\ s # {}
  OBVIOUS
<1>2. Max(s) \in s /\ \A i \in s : i <= Max(s)
  BY <1>1, MaxOf
<1>3. Max(s) \in 1..(n + 1) /\ n + 1 <= Max(s)
  BY <1>2
<1>4. Max(s) = n + 1
  BY <1>3
<1> QED
  BY <1>4

\* The numbers up to the next one.
LEMMA OneMoreNumber ==
    ASSUME NEW n \in Nat
    PROVE  /\ 1..(n + 1) # {} /\ 1..(n + 1) \in SUBSET (1..(n + 1))
           /\ Max(1..(n + 1)) = n + 1 /\ (1..(n + 1)) \ {Max(1..(n + 1))} = 1..n
<1>1. n + 1 \in 1..(n + 1) /\ 1..(n + 1) \in SUBSET (1..(n + 1))
  OBVIOUS
<1>2. Max(1..(n + 1)) = n + 1
  BY <1>1, MaxUpTo
<1>3. (1..(n + 1)) \ {n + 1} = 1..n
  OBVIOUS
<1> QED
  BY <1>1, <1>2, <1>3

-----------------------------------------------------------------------------
(* Load and the tracker, whose folds are recursive.                          *)

Loading(file, f, n) ==
    f = [s \in SUBSET (1..n) |->
            IF s = {} THEN <<>> ELSE Replay(f[s \ {Max(s)}], file[Max(s)])]

LEMMA LoadingDefined ==
    ASSUME NEW S, NEW file \in Seq(S)
    PROVE  \E f : Loading(file, f, Len(file)) /\ Load(file) = f[1..Len(file)]
<1> DEFINE P == {n \in Nat : \E f : Loading(file, f, n)}
<1>1. 0 \in P
  <2> DEFINE f == [s \in SUBSET (1..0) |-> <<>>]
  <2>1. \A s \in SUBSET (1..0) : s = {}
    OBVIOUS
  <2>2. f = [s \in SUBSET (1..0) |->
                IF s = {} THEN <<>> ELSE Replay(f[s \ {Max(s)}], file[Max(s)])]
    BY <2>1
  <2> QED
    BY <2>2 DEF Loading
<1>2. ASSUME NEW n \in Nat, n \in P PROVE n + 1 \in P
  <2>1. PICK f : Loading(file, f, n)
    BY <1>2
  <2>2. \A s \in SUBSET (1..n) :
            f[s] = IF s = {} THEN <<>> ELSE Replay(f[s \ {Max(s)}], file[Max(s)])
    BY <2>1 DEF Loading
  <2> DEFINE g == [s \in SUBSET (1..(n + 1)) |->
                      IF n + 1 \in s THEN Replay(f[s \ {n + 1}], file[n + 1]) ELSE f[s]]
  <2>3. ASSUME NEW s \in SUBSET (1..(n + 1))
        PROVE  g[s] = IF s = {} THEN <<>> ELSE Replay(g[s \ {Max(s)}], file[Max(s)])
    <3>1. CASE n + 1 \in s
      <4>1. Max(s) = n + 1 /\ s \ {n + 1} \in SUBSET (1..(n + 1)) /\ n + 1 \notin s \ {n + 1}
        BY <3>1, MaxUpTo
      <4>2. g[s \ {n + 1}] = f[s \ {n + 1}]
        BY <4>1
      <4> QED
        BY <3>1, <4>1, <4>2
    <3>2. CASE n + 1 \notin s
      <4>1. s \in SUBSET (1..n)
        BY <3>2
      <4>2. CASE s = {}
        BY <2>2, <3>2, <4>1, <4>2
      <4>3. CASE s # {}
        <5>1. s \ {Max(s)} \in SUBSET (1..(n + 1)) /\ n + 1 \notin s \ {Max(s)}
          BY <3>2
        <5>2. g[s \ {Max(s)}] = f[s \ {Max(s)}]
          BY <5>1
        <5>3. g[s] = f[s]
          BY <3>2
        <5> QED
          BY <2>2, <4>1, <4>3, <5>2, <5>3
      <4> QED
        BY <4>2, <4>3
    <3> QED
      BY <3>1, <3>2
  <2>4. g = [s \in SUBSET (1..(n + 1)) |->
                IF s = {} THEN <<>> ELSE Replay(g[s \ {Max(s)}], file[Max(s)])]
    BY <2>3
  <2>5. Loading(file, g, n + 1)
    BY <2>4 DEF Loading
  <2> QED
    BY <2>5
<1>3. Len(file) \in P
  <2>1. Len(file) \in Nat
    OBVIOUS
  <2> HIDE DEF P
  <2>2. \A i \in 0..(Len(file) - 1) : i \in P => i + 1 \in P
    BY <1>2, <2>1
  <2>3. 0..Len(file) \subseteq P
    BY <1>1, <2>1, <2>2, UpTo
  <2> QED
    BY <2>1, <2>3
<1> DEFINE F == CHOOSE f : Loading(file, f, Len(file))
<1>4. Loading(file, F, Len(file))
  BY <1>3
<1>5. Load(file) = F[1..Len(file)]
  <2>1. DOMAIN file = 1..Len(file)
    OBVIOUS
  <2> QED
    BY <2>1 DEF Load, FoldLeft, MapThenFoldSet, Loading
<1> HIDE DEF F
<1> QED
  BY <1>4, <1>5

\* The next start reads nothing from an empty file, and one record more from one with
\* a record more.
LEMMA LoadEmpty == Load(<<>>) = <<>>
<1>1. <<>> \in Seq({}) /\ Len(<<>>) = 0
  OBVIOUS
<1>2. PICK f : Loading(<<>>, f, 0) /\ Load(<<>>) = f[1..0]
  BY <1>1, LoadingDefined
<1>3. 1..0 = {} /\ {} \in SUBSET (1..0)
  OBVIOUS
<1> QED
  BY <1>2, <1>3 DEF Loading

LEMMA LoadAppend ==
    ASSUME NEW S, NEW file \in Seq(S), NEW r \in S
    PROVE  Load(Append(file, r)) = Replay(Load(file), r)
<1> DEFINE more == Append(file, r)
           n == Len(file)
<1>1. /\ more \in Seq(S) /\ n \in Nat /\ Len(more) = n + 1 /\ more[n + 1] = r
      /\ \A i \in 1..n : more[i] = file[i]
  OBVIOUS
<1>2. PICK h : Loading(file, h, n) /\ Load(file) = h[1..n]
  BY LoadingDefined
<1>3. PICK f : Loading(more, f, n + 1) /\ Load(more) = f[1..(n + 1)]
  BY <1>1, LoadingDefined
<1> HIDE DEF more, n
<1>4. /\ \A s \in SUBSET (1..n) :
             h[s] = IF s = {} THEN <<>> ELSE Replay(h[s \ {Max(s)}], file[Max(s)])
      /\ \A s \in SUBSET (1..(n + 1)) :
             f[s] = IF s = {} THEN <<>> ELSE Replay(f[s \ {Max(s)}], more[Max(s)])
  BY <1>2, <1>3 DEF Loading
<1> DEFINE P == {i \in 0..n : f[1..i] = h[1..i]}
<1>5. 0 \in P
  <2>1. 1..0 = {} /\ {} \in SUBSET (1..n) /\ {} \in SUBSET (1..(n + 1)) /\ 0 \in 0..n
    BY <1>1
  <2> QED
    BY <1>4, <2>1
<1>6. ASSUME NEW i \in 0..(n - 1), i \in P PROVE i + 1 \in P
  <2>1. /\ i \in Nat /\ i + 1 \in 0..n /\ i + 1 \in 1..n
        /\ 1..(i + 1) \in SUBSET (1..n) /\ 1..(i + 1) \in SUBSET (1..(n + 1))
    BY <1>1
  <2>2. h[1..(i + 1)] = Replay(h[1..i], file[i + 1])
    BY <1>4, <2>1, OneMoreNumber
  <2>3. f[1..(i + 1)] = Replay(f[1..i], more[i + 1])
    BY <1>4, <2>1, OneMoreNumber
  <2> QED
    BY <1>1, <1>6, <2>1, <2>2, <2>3
<1>7. n \in P
  <2> HIDE DEF P
  <2>1. 0..n \subseteq P
    BY <1>1, <1>5, <1>6, UpTo
  <2> QED
    BY <1>1, <2>1
<1>8. f[1..(n + 1)] = Replay(f[1..n], more[n + 1])
  BY <1>1, <1>4, OneMoreNumber
<1> QED
  BY <1>1, <1>2, <1>3, <1>7, <1>8 DEF more

Tracking(data, t, f, n) ==
    f = [s \in SUBSET (1..n) |->
            IF s = {} THEN t ELSE Track(f[s \ {Max(s)}], data[Max(s)])]

LEMMA TrackingDefined ==
    ASSUME NEW S, NEW data \in Seq(S), NEW t
    PROVE  \E f : Tracking(data, t, f, Len(data)) /\ FoldLeft(Track, t, data) = f[1..Len(data)]
<1> DEFINE P == {n \in Nat : \E f : Tracking(data, t, f, n)}
<1>1. 0 \in P
  <2> DEFINE f == [s \in SUBSET (1..0) |-> t]
  <2>1. \A s \in SUBSET (1..0) : s = {}
    OBVIOUS
  <2>2. f = [s \in SUBSET (1..0) |->
                IF s = {} THEN t ELSE Track(f[s \ {Max(s)}], data[Max(s)])]
    BY <2>1
  <2> QED
    BY <2>2 DEF Tracking
<1>2. ASSUME NEW n \in Nat, n \in P PROVE n + 1 \in P
  <2>1. PICK f : Tracking(data, t, f, n)
    BY <1>2
  <2>2. \A s \in SUBSET (1..n) :
            f[s] = IF s = {} THEN t ELSE Track(f[s \ {Max(s)}], data[Max(s)])
    BY <2>1 DEF Tracking
  <2> DEFINE g == [s \in SUBSET (1..(n + 1)) |->
                      IF n + 1 \in s THEN Track(f[s \ {n + 1}], data[n + 1]) ELSE f[s]]
  <2>3. ASSUME NEW s \in SUBSET (1..(n + 1))
        PROVE  g[s] = IF s = {} THEN t ELSE Track(g[s \ {Max(s)}], data[Max(s)])
    <3>1. CASE n + 1 \in s
      <4>1. Max(s) = n + 1 /\ s \ {n + 1} \in SUBSET (1..(n + 1)) /\ n + 1 \notin s \ {n + 1}
        BY <3>1, MaxUpTo
      <4>2. g[s \ {n + 1}] = f[s \ {n + 1}]
        BY <4>1
      <4> QED
        BY <3>1, <4>1, <4>2
    <3>2. CASE n + 1 \notin s
      <4>1. s \in SUBSET (1..n)
        BY <3>2
      <4>2. CASE s = {}
        BY <2>2, <3>2, <4>1, <4>2
      <4>3. CASE s # {}
        <5>1. s \ {Max(s)} \in SUBSET (1..(n + 1)) /\ n + 1 \notin s \ {Max(s)}
          BY <3>2
        <5>2. g[s \ {Max(s)}] = f[s \ {Max(s)}]
          BY <5>1
        <5>3. g[s] = f[s]
          BY <3>2
        <5> QED
          BY <2>2, <4>1, <4>3, <5>2, <5>3
      <4> QED
        BY <4>2, <4>3
    <3> QED
      BY <3>1, <3>2
  <2>4. g = [s \in SUBSET (1..(n + 1)) |->
                IF s = {} THEN t ELSE Track(g[s \ {Max(s)}], data[Max(s)])]
    BY <2>3
  <2>5. Tracking(data, t, g, n + 1)
    BY <2>4 DEF Tracking
  <2> QED
    BY <2>5
<1>3. Len(data) \in P
  <2>1. Len(data) \in Nat
    OBVIOUS
  <2> HIDE DEF P
  <2>2. \A i \in 0..(Len(data) - 1) : i \in P => i + 1 \in P
    BY <1>2, <2>1
  <2>3. 0..Len(data) \subseteq P
    BY <1>1, <2>1, <2>2, UpTo
  <2> QED
    BY <2>1, <2>3
<1> DEFINE F == CHOOSE f : Tracking(data, t, f, Len(data))
<1>4. Tracking(data, t, F, Len(data))
  BY <1>3
<1>5. FoldLeft(Track, t, data) = F[1..Len(data)]
  <2>1. DOMAIN data = 1..Len(data)
    OBVIOUS
  <2> QED
    BY <2>1 DEF FoldLeft, MapThenFoldSet, Tracking
<1> HIDE DEF F
<1> QED
  BY <1>4, <1>5

\* What the lines of a poll lead to: a property every line keeps.
LEMMA TrackInduct ==
    ASSUME NEW S, NEW data \in Seq(S), NEW t, NEW Good, <<0, t>> \in Good,
           \A i \in 0..(Len(data) - 1) : \A u :
               <<i, u>> \in Good => <<i + 1, Track(u, data[i + 1])>> \in Good
    PROVE  <<Len(data), FoldLeft(Track, t, data)>> \in Good
<1> DEFINE n == Len(data)
<1>1. n \in Nat
  OBVIOUS
<1>2. PICK f : Tracking(data, t, f, n) /\ FoldLeft(Track, t, data) = f[1..n]
  BY TrackingDefined
<1>3. \A s \in SUBSET (1..n) :
          f[s] = IF s = {} THEN t ELSE Track(f[s \ {Max(s)}], data[Max(s)])
  BY <1>2 DEF Tracking
<1> DEFINE P == {i \in 0..n : <<i, f[1..i]>> \in Good}
<1> HIDE DEF n
<1>4. 0 \in P
  <2>1. 1..0 = {} /\ {} \in SUBSET (1..n) /\ 0 \in 0..n
    BY <1>1
  <2> QED
    BY <1>3, <2>1
<1>5. ASSUME NEW i \in 0..(n - 1), i \in P PROVE i + 1 \in P
  <2>1. i \in Nat /\ i + 1 \in 0..n /\ 1..(i + 1) \in SUBSET (1..n)
    BY <1>1
  <2>3. f[1..(i + 1)] = Track(f[1..i], data[i + 1])
    BY <1>3, <2>1, OneMoreNumber
  <2>4. <<i, f[1..i]>> \in Good
    BY <1>5
  <2>5. <<i + 1, Track(f[1..i], data[i + 1])>> \in Good
    BY <2>4 DEF n
  <2> QED
    BY <2>1, <2>3, <2>5
<1>6. n \in P
  <2> HIDE DEF P
  <2>1. 0..n \subseteq P
    BY <1>1, <1>4, <1>5, UpTo
  <2> QED
    BY <1>1, <2>1
<1> QED
  BY <1>2, <1>6 DEF n

-----------------------------------------------------------------------------
(* The invariant of EvalTrials.                                              *)

Kinds == {"start", "retreat", "complete"}
Bytes == {LineEnd} \cup [text : Kinds, n : Nat \ {0}]
Attempts == [from : Nat \cup {-1}, till : Nat, misses : Nat, by_hand : Nat]
Trials == [op : {"trial"}, of : Attempts, outcome : Digits, note : BOOLEAN]
Records == Trials \cup {Tombstone("undo"), Tombstone("note")}

ScoringTypes ==
    /\ gui_log \in Seq(Bytes) /\ lines \in Seq(Kinds) /\ rotated \in 0..Len(lines)
    /\ session \in Seq(Records) /\ tool \in {"poll", "key", "down"}
    /\ pos \in Nat \cup {-1} /\ buf \in Seq(Bytes)
    /\ active \in Attempts /\ active.till = 0 /\ pending \in Seq(Attempts)
    /\ trials \in Seq(Trials) /\ Load(session) \in Seq(Trials)

\* The log holds the lines since it was rotated, each with its end, but for the last
\* one while that is being written.
LogShape ==
    LET here == Len(lines) - rotated
    IN  /\ Len(gui_log) = 2 * here \/ (here > 0 /\ Len(gui_log) = 2 * here - 1)
        /\ \A k \in 1..here :
               /\ gui_log[2 * k - 1] = Text(lines[rotated + k], rotated + k)
               /\ 2 * k <= Len(gui_log) => gui_log[2 * k] = LineEnd

\* Attempts that began in the log did so in this order, and in a line that was written.
Before(a, b) == a.from > 0 /\ b.from > 0 => a.from < b.from
Written(a) == a.from <= Len(lines)

\* A whole line of the log up to last was read since the attempt began, and each of them
\* was a missed grasp.
Followed(a, last) ==
    /\ a.from <= last /\ last <= Len(lines)
    /\ \A n \in (a.from + 1)..last : lines[n] = "retreat"
    /\ a.misses = (last - a.from) + a.by_hand
Right(a) == a.from > rotated /\ a.till > 0 => Followed(a, a.till - 1)

Filed(list) ==
    /\ \A i, j \in 1..Len(list) : i < j => Before(list[i].of, list[j].of)
    /\ \A i \in 1..Len(list) : Written(list[i].of) /\ Right(list[i].of)

\* The attempts the tool knows of, in the order they are scored in.
Queued(now, queue) ==
    /\ Written(now) /\ \A i, j \in 1..Len(queue) : i < j => Before(queue[i], queue[j])
    /\ \A j \in 1..Len(queue) :
           /\ Before(queue[j], now) /\ Written(queue[j]) /\ Right(queue[j])
    /\ \A i \in 1..Len(trials) :
           /\ Before(trials[i].of, now)
           /\ \A j \in 1..Len(queue) : Before(trials[i].of, queue[j])

\* A line that is newer than every attempt.
Newer(n, now, queue) ==
    /\ now.from < n
    /\ \A j \in 1..Len(queue) : queue[j].from < n
    /\ \A i \in 1..Len(trials) : trials[i].of.from < n
Unread(i) == pos # -1 /\ (i > pos \/ Len(gui_log) < pos)
Watch ==
    /\ pos = -1 => buf = <<>> /\ active.from < 1
    /\ \A i \in 1..Len(gui_log) : Unread(i) /\ gui_log[i] # LineEnd =>
           /\ Newer(gui_log[i].n, active, pending)
           /\ buf # <<>> => buf[1].n < gui_log[i].n
    /\ buf # <<>> =>
           /\ Len(buf) = 1 /\ buf[1] # LineEnd /\ buf[1].n <= Len(lines)
           /\ Newer(buf[1].n, active, pending)
           /\ \E k \in Nat : pos = 2 * k + 1
           /\ buf[1].n > rotated => pos <= Len(gui_log) /\ buf[1] = gui_log[pos]
    /\ active.from > rotated => pos <= Len(gui_log) /\ \E k \in Nat :
           /\ (pos = 2 * k /\ buf = <<>>) \/ (pos = 2 * k + 1 /\ buf # <<>>)
           /\ Followed(active, rotated + k)

Shown ==
    /\ tool # "down" => trials = Load(session)
    /\ tool = "down" => /\ trials = <<>> /\ pending = <<>> /\ active = NoAttempt
                        /\ pos = -1 /\ buf = <<>>

ScoringInv ==
    /\ ScoringTypes /\ LogShape /\ Filed(Load(session)) /\ Queued(active, pending)
    /\ Watch /\ Shown

-----------------------------------------------------------------------------
(* Bytes, and what a poll reads.                                             *)

LEMMA LineEnds == LineEnd.text = "\n" /\ LineEnd.n = 0
  BY DEF LineEnd, Text

LEMMA ByteCases ==
    ASSUME NEW b \in Bytes, b # LineEnd
    PROVE  b.text \in Kinds /\ b.n \in Nat /\ b.n > 0
  BY DEF Bytes

\* The lines of the log are at the odd places, their ends at the even ones.
LEMMA LogByte ==
    ASSUME ScoringTypes, LogShape, NEW i \in 1..Len(gui_log)
    PROVE  \/ gui_log[i] = LineEnd /\ \E k \in Nat : i = 2 * k
           \/ /\ gui_log[i] # LineEnd
              /\ \E k \in 1..(Len(lines) - rotated) :
                     /\ i = 2 * k - 1 /\ rotated + k \in 1..Len(lines)
                     /\ gui_log[i].n = rotated + k /\ gui_log[i].text = lines[rotated + k]
<1> DEFINE here == Len(lines) - rotated
<1>1. /\ here \in Nat /\ rotated \in Nat /\ Len(lines) \in Nat /\ rotated + here = Len(lines)
      /\ Len(gui_log) \in Nat /\ lines \in [1..Len(lines) -> Kinds]
  BY DEF ScoringTypes
<1>2. /\ Len(gui_log) <= 2 * here
      /\ \A k \in 1..here :
             /\ gui_log[2 * k - 1] = Text(lines[rotated + k], rotated + k)
             /\ 2 * k <= Len(gui_log) => gui_log[2 * k] = LineEnd
  BY <1>1 DEF LogShape
<1> HIDE DEF here
<1>3. PICK k \in Nat : i = 2 * k \/ i = 2 * k + 1
  <2>1. i = 2 * (i \div 2) \/ i = 2 * (i \div 2) + 1
    OBVIOUS
  <2>2. i \div 2 \in Nat
    OBVIOUS
  <2> QED
    BY <2>1, <2>2
<1>4. CASE i = 2 * k
  <2>1. k \in 1..here /\ 2 * k <= Len(gui_log)
    BY <1>1, <1>2, <1>4
  <2> QED
    BY <1>2, <1>4, <2>1
<1>5. CASE i = 2 * k + 1
  <2>1. /\ k + 1 \in 1..here /\ i = 2 * (k + 1) - 1
        /\ rotated + (k + 1) \in 1..Len(lines)
    BY <1>1, <1>2, <1>5
  <2>2. gui_log[i] = Text(lines[rotated + (k + 1)], rotated + (k + 1))
    BY <1>2, <2>1
  <2>3. /\ gui_log[i].n = rotated + (k + 1)
        /\ gui_log[i].text = lines[rotated + (k + 1)]
    BY <2>2 DEF Text
  <2>4. gui_log[i] # LineEnd
    BY <1>1, <2>1, <2>3, LineEnds
  <2> QED
    BY <2>1, <2>3, <2>4 DEF here
<1> QED
  BY <1>3, <1>4, <1>5

\* The end of the last whole line.
LEMMA WholeIs ==
    ASSUME NEW data \in Seq(Bytes)
    PROVE  /\ Whole(data) \in 0..Len(data)
           /\ Whole(data) > 0 => data[Whole(data)] = LineEnd
           /\ \A i \in (Whole(data) + 1)..Len(data) : data[i] # LineEnd
<1> DEFINE I == {i \in 1..Len(data) : data[i] = LineEnd}
<1>1. Whole(data) = IF I # {} THEN Max(I) ELSE 0
  BY DEF Whole, SelectLastInSeq
<1>2. Len(data) \in Nat /\ I \in SUBSET (1..Len(data))
  OBVIOUS
<1>3. CASE I = {}
  BY <1>1, <1>2, <1>3
<1>4. CASE I # {}
  <2>1. Whole(data) \in I /\ \A i \in I : i <= Whole(data)
    <3> HIDE DEF I
    <3> QED
      BY <1>1, <1>2, <1>4, MaxOf
  <2>2. Whole(data) \in 1..Len(data) /\ data[Whole(data)] = LineEnd
    BY <2>1
  <2>3. \A i \in (Whole(data) + 1)..Len(data) : data[i] # LineEnd
    BY <1>2, <2>1, <2>2
  <2> QED
    BY <2>2, <2>3
<1> QED
  BY <1>3, <1>4

\* What a poll has to read: the torn line kept, and the log from some place on.
LEMMA DataIs ==
    ASSUME NEW kept \in Seq(Bytes), NEW log \in Seq(Bytes), NEW from \in 0..Len(log)
    PROVE  LET data == kept \o SubSeq(log, from + 1, Len(log))
           IN  /\ data \in Seq(Bytes) /\ Len(data) = Len(kept) + (Len(log) - from)
               /\ \A i \in 1..Len(kept) : data[i] = kept[i]
               /\ \A i \in (Len(kept) + 1)..Len(data) :
                      data[i] = log[from + (i - Len(kept))]
  OBVIOUS

-----------------------------------------------------------------------------
(* The tracker.                                                              *)

Trackers == [active : {a \in Attempts : a.till = 0}, pending : Seq(Attempts)]

LEMMA NewAttempt ==
    ASSUME NEW n \in Nat \cup {-1}
    PROVE  /\ Attempt(n) \in Attempts /\ Attempt(n).till = 0 /\ Attempt(n).from = n
           /\ Attempt(n).misses = 0 /\ Attempt(n).by_hand = 0
  BY DEF Attempt, Attempts

\* A line of the log begins an attempt, ends one, or counts in one.
LEMMA TrackIs ==
    ASSUME NEW a, NEW q, NEW t, t = [active |-> a, pending |-> q],
           NEW byte \in Bytes, byte # LineEnd
    PROVE  /\ byte.text = "start" =>
                  Track(t, byte) = [active |-> Attempt(byte.n), pending |-> q]
           /\ byte.text = "retreat" => Track(t, byte) = Missed(t, 0)
           /\ byte.text = "complete" => Track(t, byte) = Complete(t, byte.n)
<1>1. [t EXCEPT !.active = Attempt(byte.n)] = [active |-> Attempt(byte.n), pending |-> q]
  OBVIOUS
<1>2. ASSUME byte.text = "start"
      PROVE  Track(t, byte) = [active |-> Attempt(byte.n), pending |-> q]
  <2>1. byte.text # "retreat" /\ byte.text # "complete"
    BY <1>2
  <2> QED
    BY <1>1, <1>2, <2>1, Zenon DEF Track
<1>3. ASSUME byte.text = "retreat" PROVE Track(t, byte) = Missed(t, 0)
  <2>1. byte.text # "start" /\ byte.text # "complete"
    BY <1>3
  <2> QED
    BY <1>3, <2>1, Zenon DEF Track
<1>4. ASSUME byte.text = "complete" PROVE Track(t, byte) = Complete(t, byte.n)
  <2>1. byte.text # "start" /\ byte.text # "retreat"
    BY <1>4
  <2> QED
    BY <1>4, <2>1, Zenon DEF Track
<1> QED
  BY <1>2, <1>3, <1>4, Zenon

\* A miss counts for the attempt in progress.
Counted(after, a, h) == a.from >= 0 => /\ after.misses = a.misses + 1
                                       /\ after.by_hand = a.by_hand + h
LEMMA MissedIs ==
    ASSUME NEW a \in Attempts, NEW q, NEW h \in Nat, NEW t, t = [active |-> a, pending |-> q]
    PROVE  \E after \in Attempts :
               /\ Missed(t, h) = [active |-> after, pending |-> q]
               /\ after.from = a.from /\ after.till = a.till
               /\ Counted(after, a, h)
<1> DEFINE more == [from |-> a.from, till |-> a.till, misses |-> a.misses + 1,
                    by_hand |-> a.by_hand + h]
<1>1. CASE a = NoAttempt
  <2>1. a.from = -1
    BY <1>1 DEF NoAttempt, Attempt
  <2>2. Missed(t, h) = t
    BY <1>1 DEF Missed
  <2> QED
    BY <2>1, <2>2 DEF Counted
<1>2. CASE a # NoAttempt
  <2>1. Missed(t, h) = [active |-> more, pending |-> q]
    BY <1>2 DEF Missed, Attempts
  <2>2. more \in Attempts
    BY DEF Attempts
  <2> QED
    BY <2>1, <2>2 DEF Counted
<1> QED
  BY <1>1, <1>2

\* The end of an attempt.
LEMMA CompleteIs ==
    ASSUME NEW a \in Attempts, NEW q \in Seq(Attempts), NEW n \in Nat,
           NEW t, t = [active |-> a, pending |-> q]
    PROVE  \E after \in Seq(Attempts) :
               /\ Complete(t, n) = [active |-> Attempt(n), pending |-> after]
               /\ \/ after = q
                  \/ \E b \in Attempts :
                         /\ b.from = a.from /\ b.till = n /\ b.misses = a.misses
                         /\ b.by_hand = a.by_hand /\ after = Append(q, b)
<1> DEFINE b == [a EXCEPT !.till = n]
           after == IF a = NoAttempt THEN q ELSE Append(q, b)
<1>1. /\ b \in Attempts /\ b.from = a.from /\ b.till = n /\ b.misses = a.misses
      /\ b.by_hand = a.by_hand
  BY DEF Attempts
<1>2. Append(q, b) \in Seq(Attempts)
  BY <1>1
<1>3. Complete(t, n) = [active |-> Attempt(n), pending |-> after]
  BY DEF Complete
<1> HIDE DEF b
<1>4. after \in Seq(Attempts)
  BY <1>2
<1>5. \/ after = q
      \/ \E c \in Attempts : /\ c.from = a.from /\ c.till = n /\ c.misses = a.misses
                             /\ c.by_hand = a.by_hand /\ after = Append(q, c)
  BY <1>1
<1> HIDE DEF after
<1> QED
  BY <1>3, <1>4, <1>5

\* The queue with one attempt more.
LEMMA QueueMore ==
    ASSUME NEW q \in Seq(Attempts), NEW b \in Attempts
    PROVE  /\ Append(q, b) \in Seq(Attempts) /\ Len(Append(q, b)) = Len(q) + 1 /\ Len(q) \in Nat
           /\ Append(q, b)[Len(q) + 1] = b
           /\ \A j \in 1..Len(q) : Append(q, b)[j] = q[j] /\ q[j] \in Attempts
  OBVIOUS

\* How far the attempt in progress was followed when the log was read up to a place,
\* and which line a place is the text of.
Progress(now, place) ==
    now.from > rotated =>
        \E k \in Nat : (place = 2 * k \/ place + 1 = 2 * k) /\ Followed(now, rotated + k)
LineAt(byte, place) ==
    byte.n > rotated =>
        \E k \in Nat \ {0} : /\ place + 1 = 2 * k /\ byte.n = rotated + k
                             /\ byte.n <= Len(lines) /\ byte.text = lines[byte.n]
Tracked(t, place) ==
    t \in Trackers /\ Queued(t.active, t.pending) /\ Progress(t.active, place)

LEMMA AttemptNumbers ==
    ASSUME NEW a \in Attempts
    PROVE  /\ a.from \in Int /\ a.from >= -1 /\ a.till \in Nat /\ a.misses \in Nat
           /\ a.by_hand \in Nat
  BY DEF Attempts

LEMMA TrialNumbers ==
    ASSUME ScoringTypes
    PROVE  /\ \A i \in 1..Len(trials) : trials[i].of \in Attempts /\ trials[i].of.from \in Int
           /\ Len(lines) \in Nat /\ rotated \in Nat /\ rotated <= Len(lines)
<1>1. \A i \in 1..Len(trials) : trials[i] \in Trials
  BY DEF ScoringTypes
<1>2. \A i \in 1..Len(trials) : trials[i].of \in Attempts
  BY <1>1 DEF Trials
<1> QED
  BY <1>2, AttemptNumbers DEF ScoringTypes

\* A line begins an attempt: it is the newest.
LEMMA BeginsNewest ==
    ASSUME ScoringTypes, NEW now \in Attempts, NEW queue \in Seq(Attempts), NEW n \in Nat \ {0},
           Queued(now, queue), Newer(n, now, queue), n <= Len(lines)
    PROVE  Queued(Attempt(n), queue)
<1>1. Attempt(n).from = n
  BY NewAttempt
<1>2. \A j \in 1..Len(queue) : queue[j] \in Attempts
  OBVIOUS
<1> HIDE DEF Attempt
<1>3. \A j \in 1..Len(queue) : Before(queue[j], Attempt(n))
  BY <1>1 DEF Before, Newer
<1>4. \A i \in 1..Len(trials) : Before(trials[i].of, Attempt(n))
  BY <1>1 DEF Before, Newer
<1> QED
  BY <1>1, <1>3, <1>4 DEF Queued, Written

\* An attempt that ends goes to the end of the queue.
LEMMA EndsLast ==
    ASSUME ScoringTypes, NEW now \in Attempts, NEW queue \in Seq(Attempts), NEW b \in Attempts,
           Queued(now, queue), b.from = now.from, Right(b),
           NEW next \in Attempts, Queued(next, queue), Before(b, next)
    PROVE  Queued(next, Append(queue, b))
<1> DEFINE more == Append(queue, b)
<1>1. /\ Len(more) = Len(queue) + 1 /\ Len(queue) \in Nat /\ more[Len(queue) + 1] = b
      /\ \A j \in 1..Len(queue) : more[j] = queue[j]
  BY QueueMore
<1> HIDE DEF more
<1>2. \A j \in 1..Len(more) : j \in 1..Len(queue) \/ j = Len(queue) + 1
  BY <1>1
<1>3. /\ \A j \in 1..Len(queue) : Before(queue[j], b)
      /\ \A i \in 1..Len(trials) : Before(trials[i].of, b)
      /\ Written(b)
  BY DEF Queued, Before, Written
<1>4. \A i, j \in 1..Len(more) : i < j => Before(more[i], more[j])
  <2>1. SUFFICES ASSUME NEW i \in 1..Len(more), NEW j \in 1..Len(more), i < j
                 PROVE  Before(more[i], more[j])
    OBVIOUS
  <2>2. i \in 1..Len(queue)
    BY <1>1, <2>1
  <2>3. CASE j \in 1..Len(queue)
    BY <1>1, <2>1, <2>2, <2>3 DEF Queued
  <2>4. CASE j = Len(queue) + 1
    BY <1>1, <1>3, <2>2, <2>4
  <2> QED
    BY <1>2, <2>3, <2>4
<1>5. \A j \in 1..Len(more) :
          /\ Before(more[j], next) /\ Written(more[j]) /\ Right(more[j])
          /\ \A i \in 1..Len(trials) : Before(trials[i].of, more[j])
  <2>1. SUFFICES ASSUME NEW j \in 1..Len(more)
                 PROVE  /\ Before(more[j], next) /\ Written(more[j]) /\ Right(more[j])
                        /\ \A i \in 1..Len(trials) : Before(trials[i].of, more[j])
    OBVIOUS
  <2>2. CASE j \in 1..Len(queue)
    BY <1>1, <2>2 DEF Queued
  <2>3. CASE j = Len(queue) + 1
    BY <1>1, <1>3, <2>3
  <2> QED
    BY <1>2, <2>2, <2>3
<1>6. Written(next) /\ \A i \in 1..Len(trials) : Before(trials[i].of, next)
  BY DEF Queued
<1> QED
  BY <1>4, <1>5, <1>6 DEF Queued, more

\* A line keeps the order of the attempts and how far the one in progress is followed.
LEMMA TrackKeeps ==
    ASSUME ScoringTypes, NEW place \in Nat, NEW t, Tracked(t, place), NEW byte \in Bytes,
           byte = LineEnd => \E k \in Nat : place + 1 = 2 * k,
           byte # LineEnd => /\ LineAt(byte, place + 1) /\ byte.n <= Len(lines)
                             /\ Newer(byte.n, t.active, t.pending)
    PROVE  /\ Tracked(Track(t, byte), place + 1)
           /\ \A m \in Nat : /\ Newer(m, t.active, t.pending)
                             /\ byte # LineEnd => byte.n < m
                             => Newer(m, Track(t, byte).active, Track(t, byte).pending)
<1>1. PICK now \in Attempts, queue \in Seq(Attempts) :
          now.till = 0 /\ t = [active |-> now, pending |-> queue]
  BY DEF Tracked, Trackers
<1>2. Queued(now, queue) /\ Progress(now, place)
  BY <1>1 DEF Tracked
<1>3. /\ now.from \in Int /\ now.misses \in Nat /\ now.by_hand \in Nat
      /\ Len(lines) \in Nat /\ rotated \in Nat /\ rotated <= Len(lines)
  BY AttemptNumbers, TrialNumbers
\* What is left to show, of the attempts after the line.
<1> DEFINE Ok(a, q) == /\ a.till = 0 /\ Queued(a, q) /\ Progress(a, place + 1)
                       /\ \A m \in Nat : /\ Newer(m, now, queue)
                                         /\ byte # LineEnd => byte.n < m
                                         => Newer(m, a, q)
<1> SUFFICES \E a \in Attempts, q \in Seq(Attempts) :
                 Track(t, byte) = [active |-> a, pending |-> q] /\ Ok(a, q)
  <2>1. ASSUME NEW a \in Attempts, NEW q \in Seq(Attempts), Ok(a, q),
               Track(t, byte) = [active |-> a, pending |-> q]
        PROVE  /\ Tracked(Track(t, byte), place + 1)
               /\ \A m \in Nat : /\ Newer(m, t.active, t.pending)
                                 /\ byte # LineEnd => byte.n < m
                                 => Newer(m, Track(t, byte).active, Track(t, byte).pending)
    <3>1. PICK u : u = Track(t, byte)
      OBVIOUS
    <3>2. u = [active |-> a, pending |-> q] /\ u.active = a /\ u.pending = q /\ u \in Trackers
      BY <2>1, <3>1 DEF Trackers
    <3>3. Tracked(u, place + 1)
      BY <2>1, <3>2 DEF Tracked
    <3>4. t.active = now /\ t.pending = queue
      BY <1>1
    <3> QED
      BY <2>1, <3>1, <3>2, <3>3, <3>4
  <2> QED
    BY <2>1, Zenon
<1>4. CASE byte = LineEnd
  <2>1. Track(t, byte) = t
    BY <1>4, LineEnds DEF Track
  <2>2. Progress(now, place + 1)
    BY <1>2, <1>4 DEF Progress
  <2> QED
    BY <1>1, <1>2, <1>4, <2>1, <2>2
<1>5. CASE byte # LineEnd
  <2>1. PICK n \in Nat \ {0} : n = byte.n
    BY <1>5, ByteCases
  <2>2. /\ byte.text \in Kinds /\ n \in Nat /\ n > 0 /\ n <= Len(lines)
        /\ Newer(n, now, queue) /\ now.from < n
        /\ n > rotated => \E k \in Nat \ {0} : /\ place + 2 = 2 * k /\ n = rotated + k
                                              /\ byte.text = lines[n]
    <3>1. LineAt(byte, place + 1) /\ byte.n <= Len(lines) /\ Newer(byte.n, now, queue)
      BY <1>1, <1>5
    <3>2. n > rotated => \E k \in Nat \ {0} : /\ (place + 1) + 1 = 2 * k /\ n = rotated + k
                                            /\ byte.text = lines[n]
      BY <2>1, <3>1 DEF LineAt
    <3>3. (place + 1) + 1 = place + 2
      OBVIOUS
    <3> QED
      BY <1>5, <2>1, <3>1, <3>2, <3>3, ByteCases DEF Newer
  <2>3. /\ byte.text = "start" => Track(t, byte) = [active |-> Attempt(n), pending |-> queue]
        /\ byte.text = "retreat" => Track(t, byte) = Missed(t, 0)
        /\ byte.text = "complete" => Track(t, byte) = Complete(t, n)
    BY <1>1, <1>5, <2>1, TrackIs
  \* What was followed before this line goes up to it.
  <2>4. ASSUME now.from > rotated
        PROVE  Followed(now, n - 1) /\ lines[n] = byte.text
               /\ \E k \in Nat : place + 2 = 2 * k /\ n = rotated + k
    <3>1. n > rotated
      BY <1>3, <2>1, <2>2, <2>4
    <3>2. PICK k \in Nat \ {0} : /\ place + 2 = 2 * k /\ n = rotated + k
                                 /\ byte.text = lines[n]
      BY <2>2, <3>1
    <3>3. PICK j \in Nat : (place = 2 * j \/ place + 1 = 2 * j) /\ Followed(now, rotated + j)
      BY <1>2, <2>4 DEF Progress
    <3>4. rotated + j = n - 1
      BY <1>3, <3>2, <3>3
    <3>5. Followed(now, n - 1)
      BY <3>3, <3>4
    <3> QED
      BY <3>2, <3>5
  <2>5. /\ Attempt(n) \in Attempts /\ Attempt(n).till = 0 /\ Attempt(n).from = n
        /\ Attempt(n).misses = 0 /\ Attempt(n).by_hand = 0
    BY <2>2, NewAttempt
  <2>6. Queued(Attempt(n), queue)
    BY <1>2, <2>2, BeginsNewest
  <2>7. Progress(Attempt(n), place + 1)
    <3>1. SUFFICES ASSUME n > rotated
                   PROVE  \E k \in Nat : /\ place + 1 = 2 * k \/ (place + 1) + 1 = 2 * k
                                         /\ Followed(Attempt(n), rotated + k)
      BY <2>5 DEF Progress
    <3>2. PICK k \in Nat \ {0} : place + 2 = 2 * k /\ n = rotated + k
      BY <2>2, <3>1
    <3>3. (n + 1)..n = {} /\ 0 = (n - n) + 0 /\ n <= n /\ (place + 1) + 1 = 2 * k
      BY <2>2, <3>2
    <3>4. Followed(Attempt(n), n)
      BY <2>2, <2>5, <3>3 DEF Followed
    <3> QED
      BY <3>2, <3>3, <3>4
  <2>8. ASSUME NEW m \in Nat, Newer(m, now, queue), n < m
        PROVE  Newer(m, Attempt(n), queue)
    BY <2>5, <2>8 DEF Newer
  <2>9. CASE byte.text = "start"
    <3>1. Track(t, byte) = [active |-> Attempt(n), pending |-> queue]
      BY <2>9, <2>3
    <3> QED
      BY <1>5, <2>1, <2>5, <2>6, <2>7, <2>8, <3>1
  <2>10. CASE byte.text = "complete"
    <3>1. Track(t, byte) = Complete(t, n)
      BY <2>10, <2>3
    <3>2. PICK after \in Seq(Attempts) :
              /\ Complete(t, n) = [active |-> Attempt(n), pending |-> after]
              /\ \/ after = queue
                 \/ \E b \in Attempts : /\ b.from = now.from /\ b.till = n
                                        /\ b.misses = now.misses /\ b.by_hand = now.by_hand
                                        /\ after = Append(queue, b)
      BY <1>1, <2>2, CompleteIs
    <3>3. ASSUME NEW b \in Attempts, b.from = now.from, b.till = n, b.misses = now.misses,
                 b.by_hand = now.by_hand, after = Append(queue, b)
          PROVE  /\ Queued(Attempt(n), after)
                 /\ \A m \in Nat : Newer(m, now, queue) /\ n < m => Newer(m, Attempt(n), after)
      <4>1. Right(b)
        <5>1. SUFFICES ASSUME now.from > rotated PROVE Followed(b, n - 1)
          BY <3>3 DEF Right
        <5> QED
          BY <2>4, <3>3, <5>1 DEF Followed
      <4>2. Before(b, Attempt(n))
        BY <2>2, <2>5, <3>3 DEF Before
      <4>3. Queued(Attempt(n), after)
        BY <1>2, <2>5, <2>6, <3>3, <4>1, <4>2, EndsLast
      <4>4. ASSUME NEW m \in Nat, Newer(m, now, queue), n < m
            PROVE  Newer(m, Attempt(n), after)
        <5>1. \A j \in 1..Len(after) : after[j].from < m
          <6>1. /\ Len(after) = Len(queue) + 1 /\ Len(queue) \in Nat /\ after[Len(queue) + 1] = b
                /\ \A j \in 1..Len(queue) : after[j] = queue[j]
            BY <3>3, QueueMore
          <6>2. \A j \in 1..Len(after) : j \in 1..Len(queue) \/ j = Len(queue) + 1
            BY <6>1
          <6> QED
            BY <3>3, <4>4, <6>1, <6>2 DEF Newer
        <5> QED
          BY <2>8, <4>4, <5>1 DEF Newer
      <4> QED
        BY <4>3, <4>4
    <3>4. Queued(Attempt(n), after)
          /\ \A m \in Nat : Newer(m, now, queue) /\ n < m => Newer(m, Attempt(n), after)
      BY <2>6, <2>8, <3>2, <3>3
    <3>5. Track(t, byte) = [active |-> Attempt(n), pending |-> after]
      BY <3>1, <3>2
    <3> QED
      BY <1>5, <2>1, <2>5, <2>7, <3>4, <3>5
  <2>11. CASE byte.text = "retreat"
    <3>1. Track(t, byte) = Missed(t, 0)
      BY <2>11, <2>3
    <3>2. PICK h \in Nat : h = 0
      OBVIOUS
    <3>3. PICK after \in Attempts :
              /\ Missed(t, h) = [active |-> after, pending |-> queue]
              /\ after.from = now.from /\ after.till = now.till
              /\ Counted(after, now, h)
      BY <1>1, MissedIs
    <3>4. Queued(after, queue)
      BY <1>2, <3>3 DEF Queued, Before, Written
    <3>5. \A m \in Nat : Newer(m, now, queue) => Newer(m, after, queue)
      BY <3>3 DEF Newer
    <3>6. Progress(after, place + 1)
      <4>1. SUFFICES ASSUME now.from > rotated
                     PROVE  \E k \in Nat : /\ place + 1 = 2 * k \/ (place + 1) + 1 = 2 * k
                                           /\ Followed(after, rotated + k)
        BY <3>3 DEF Progress
      <4>2. Followed(now, n - 1) /\ lines[n] = "retreat" /\ n \in Nat
        BY <2>2, <2>4, <2>11, <4>1
      <4>3. PICK k \in Nat : place + 2 = 2 * k /\ n = rotated + k
        BY <2>4, <4>1
      <4>4. after.misses = now.misses + 1 /\ after.by_hand = now.by_hand
        BY <1>3, <3>2, <3>3, <4>1 DEF Counted
      <4>5. \A i \in (after.from + 1)..n : lines[i] = "retreat"
        BY <1>3, <3>3, <4>2 DEF Followed
      <4>6. after.from <= n /\ after.misses = (n - after.from) + after.by_hand
        <5>1. PICK f \in Int, l \in Int, m \in Int, g \in Int :
                  f = now.from /\ m = now.misses /\ g = now.by_hand /\ l = n
          BY <1>3, <2>2
        <5>2. f <= l - 1 /\ m = ((l - 1) - f) + g
          BY <4>2, <5>1 DEF Followed
        <5>3. f <= l /\ m + 1 = (l - f) + g
          BY <5>2
        <5> QED
          BY <3>3, <4>4, <5>1, <5>3
      <4>7. Followed(after, n)
        BY <2>2, <4>5, <4>6 DEF Followed
      <4>8. (place + 1) + 1 = 2 * k
        BY <4>3
      <4> QED
        BY <4>3, <4>8, <4>7
    <3> QED
      BY <1>1, <3>2, <3>1, <3>3, <3>4, <3>5, <3>6
  <2> QED
    BY <2>2, <2>9, <2>10, <2>11 DEF Kinds
<1> QED
  BY <1>4, <1>5

-----------------------------------------------------------------------------
(* A poll.                                                                   *)

\* Which bytes a poll looks at: the torn line that was kept, and the log from where
\* it was left; their places in the log, counted from the first.
Kept == IF Len(gui_log) < pos THEN <<>> ELSE buf
From == IF pos = -1 THEN Len(gui_log) ELSE IF Len(gui_log) < pos THEN 0 ELSE pos
Data == Kept \o SubSeq(gui_log, From + 1, Len(gui_log))
Base == From - Len(Kept)
Odd(n) == \E k \in Nat : n = 2 * k + 1
Even(n) == \E k \in Nat : n = 2 * k

LEMMA Parity ==
    /\ \A n \in Nat : Even(n) \/ Odd(n)
    /\ \A n \in Nat : ~(Even(n) /\ Odd(n))
    /\ \A n \in Nat : Odd(n) => Even(n + 1)
    /\ \A n \in Nat : Even(n) => Odd(n + 1)
<1>1. \A n \in Nat : Even(n) \/ Odd(n)
  <2>1. ASSUME NEW n \in Nat PROVE Even(n) \/ Odd(n)
    <3>1. n = 2 * (n \div 2) \/ n = 2 * (n \div 2) + 1
      OBVIOUS
    <3>2. n \div 2 \in Nat
      OBVIOUS
    <3> QED
      BY <3>1, <3>2 DEF Even, Odd
  <2> QED
    BY <2>1
<1>2. \A j, k \in Nat : 2 * j # 2 * k + 1
  OBVIOUS
<1>3. \A n \in Nat : ~(Even(n) /\ Odd(n))
  BY <1>2 DEF Even, Odd
<1>4. \A k \in Nat : (2 * k + 1) + 1 = 2 * (k + 1) /\ k + 1 \in Nat
  OBVIOUS
<1>5. \A n \in Nat : Odd(n) => Even(n + 1)
  BY <1>4 DEF Even, Odd
<1>6. \A n \in Nat : Even(n) => Odd(n + 1)
  BY DEF Even, Odd
<1> QED
  BY <1>1, <1>3, <1>5, <1>6

LEMMA DataShape ==
    ASSUME ScoringTypes, Watch
    PROVE  /\ From \in 0..Len(gui_log) /\ Len(gui_log) \in Nat
           /\ Kept \in Seq(Bytes) /\ Len(Kept) \in 0..1
           /\ Len(Kept) = 1 => /\ Kept = buf /\ buf # <<>> /\ pos \in Nat /\ From = pos
           /\ Base \in Nat /\ (Len(Kept) = 1 => Even(Base))
           /\ Data \in Seq(Bytes) /\ Len(Data) = Len(gui_log) - Base
           /\ Len(Data) >= Len(Kept) /\ Base + Len(Data) = Len(gui_log)
           /\ \A i \in 1..Len(Kept) : Data[i] = buf[1] /\ i = 1 /\ Base + 1 = pos
           /\ \A i \in (Len(Kept) + 1)..Len(Data) :
                  /\ Data[i] = gui_log[Base + i] /\ Base + i \in 1..Len(gui_log)
                  /\ pos # -1 /\ (Base + i > pos \/ Len(gui_log) < pos)
<1>1. Len(gui_log) \in Nat /\ gui_log \in Seq(Bytes) /\ pos \in Nat \cup {-1} /\ buf \in Seq(Bytes)
  BY DEF ScoringTypes
<1>2. /\ buf # <<>> => Len(buf) = 1 /\ Odd(pos) /\ pos \in Nat
      /\ pos = -1 => buf = <<>>
  BY <1>1 DEF Watch, Odd
<1>3. From \in 0..Len(gui_log)
  BY <1>1 DEF From
<1>4. Kept \in Seq(Bytes) /\ (Kept = <<>> \/ (Kept = buf /\ pos <= Len(gui_log)))
  BY <1>1 DEF Kept
<1>5. Kept # <<>> => /\ Len(Kept) = 1 /\ buf # <<>> /\ From = pos /\ pos \in Nat /\ Odd(pos)
                     /\ Kept = buf
  BY <1>1, <1>2, <1>4 DEF From
<1>6. Kept = <<>> => Len(Kept) = 0
  OBVIOUS
<1>7. Len(Kept) \in 0..1 /\ (Len(Kept) = 1 => Kept # <<>>)
  BY <1>5, <1>6
<1>8. Base \in Nat /\ (Len(Kept) = 1 => Even(Base) /\ Base + 1 = pos)
  <2>1. CASE Kept = <<>>
    BY <1>3, <1>6, <2>1 DEF Base
  <2>2. CASE Kept # <<>>
    <3>1. PICK k \in Nat : pos = 2 * k + 1
      BY <1>5, <2>2 DEF Odd
    <3>2. From = 2 * k + 1 /\ Len(Kept) = 1 /\ (2 * k + 1) - 1 = 2 * k
      BY <1>5, <2>2, <3>1
    <3>3. Base = 2 * k
      BY <3>2 DEF Base
    <3> QED
      BY <3>1, <3>3 DEF Even
  <2> QED
    BY <2>1, <2>2
<1>9. /\ Data \in Seq(Bytes) /\ Len(Data) = Len(Kept) + (Len(gui_log) - From)
      /\ \A i \in 1..Len(Kept) : Data[i] = Kept[i]
      /\ \A i \in (Len(Kept) + 1)..Len(Data) : Data[i] = gui_log[From + (i - Len(Kept))]
  BY <1>1, <1>3, <1>4, DataIs DEF Data
<1> HIDE DEF Kept, From, Data
<1>10. /\ Len(Data) = Len(gui_log) - Base /\ Len(Data) >= Len(Kept)
       /\ Base + Len(Data) = Len(gui_log)
  BY <1>1, <1>3, <1>7, <1>9 DEF Base
<1>11. \A i \in 1..Len(Kept) : Data[i] = buf[1] /\ i = 1 /\ Base + 1 = pos
  BY <1>5, <1>7, <1>8, <1>9
<1>12. ASSUME NEW i \in (Len(Kept) + 1)..Len(Data)
       PROVE  /\ Data[i] = gui_log[Base + i] /\ Base + i \in 1..Len(gui_log)
              /\ pos # -1 /\ (Base + i > pos \/ Len(gui_log) < pos)
  <2>1. From + (i - Len(Kept)) = Base + i /\ Base + i > From /\ Base + i <= Len(gui_log)
    BY <1>1, <1>3, <1>7, <1>9, <1>10 DEF Base
  <2>2. pos # -1 /\ (From = pos \/ Len(gui_log) < pos)
    BY <1>1, <2>1, <1>3, <1>8 DEF From
  <2> QED
    BY <1>1, <1>3, <1>8, <1>9, <2>1, <2>2
<1> QED
  BY <1>1, <1>3, <1>4, <1>5, <1>7, <1>8, <1>9, <1>10, <1>11, <1>12

\* Each byte a poll looks at: ends of lines at even places, at odd ones the text of a
\* line that is newer than every attempt and than the text before it.
LEMMA DataBytes ==
    ASSUME ScoringTypes, LogShape, Watch
    PROVE  /\ \A i \in 1..Len(Data) :
                  /\ Data[i] \in Bytes
                  /\ Data[i] = LineEnd => Even(Base + i)
                  /\ Data[i] # LineEnd =>
                         /\ Odd(Base + i) /\ LineAt(Data[i], Base + i)
                         /\ Data[i].n \in Nat /\ Data[i].n <= Len(lines)
                         /\ Newer(Data[i].n, active, pending)
           /\ \A i, j \in 1..Len(Data) :
                  i < j /\ Data[i] # LineEnd /\ Data[j] # LineEnd => Data[i].n < Data[j].n
<1>1. /\ Len(Kept) \in 0..1 /\ Base \in Nat /\ Data \in Seq(Bytes) /\ Len(Data) \in Nat
      /\ \A i \in 1..Len(Kept) : Data[i] = buf[1] /\ i = 1 /\ Base + 1 = pos
      /\ \A i \in (Len(Kept) + 1)..Len(Data) :
             /\ Data[i] = gui_log[Base + i] /\ Base + i \in 1..Len(gui_log)
             /\ pos # -1 /\ (Base + i > pos \/ Len(gui_log) < pos)
      /\ Len(Kept) = 1 => buf # <<>>
  <2>1. Data \in Seq(Bytes)
    BY DataShape
  <2>2. Len(Data) \in Nat
    BY <2>1
  <2> QED
    BY <2>1, <2>2, DataShape
<1>2. /\ Len(lines) \in Nat /\ rotated \in Nat /\ rotated <= Len(lines)
      /\ Len(gui_log) \in Nat /\ gui_log \in Seq(Bytes)
  BY DEF ScoringTypes
<1> HIDE DEF Kept, From, Data, Base
<1>3. \A i \in 1..Len(Data) :
          /\ Data[i] \in Bytes
          /\ i \in 1..Len(Kept) \/ i \in (Len(Kept) + 1)..Len(Data)
  BY <1>1
\* The text of a line of the log.
<1>4. ASSUME NEW p \in 1..Len(gui_log), gui_log[p] # LineEnd
      PROVE  /\ Odd(p) /\ LineAt(gui_log[p], p)
             /\ \E k \in 1..(Len(lines) - rotated) :
                    p = 2 * k - 1 /\ gui_log[p].n = rotated + k /\ rotated + k \in 1..Len(lines)
  <2>1. PICK k \in 1..(Len(lines) - rotated) :
            /\ p = 2 * k - 1 /\ rotated + k \in 1..Len(lines)
            /\ gui_log[p].n = rotated + k /\ gui_log[p].text = lines[rotated + k]
    BY <1>4, LogByte
  <2>2. p = 2 * (k - 1) + 1 /\ k - 1 \in Nat /\ p + 1 = 2 * k /\ k \in Nat \ {0}
        /\ rotated + k <= Len(lines)
    BY <1>2, <2>1
  <2>3. Odd(p)
    BY <2>2 DEF Odd
  <2>4. LineAt(gui_log[p], p)
    BY <2>1, <2>2 DEF LineAt
  <2> QED
    BY <2>1, <2>3, <2>4
<1>5. ASSUME NEW i \in (Len(Kept) + 1)..Len(Data)
      PROVE  /\ Data[i] = LineEnd => Even(Base + i)
             /\ Data[i] # LineEnd =>
                    /\ Odd(Base + i) /\ LineAt(Data[i], Base + i)
                    /\ Data[i].n \in Nat /\ Data[i].n <= Len(lines)
                    /\ Newer(Data[i].n, active, pending)
                    /\ buf # <<>> => buf[1].n < Data[i].n
  <2>1. PICK p \in 1..Len(gui_log) : p = Base + i /\ Data[i] = gui_log[p]
    BY <1>1
  <2>2. Unread(p)
    BY <1>1, <2>1 DEF Unread
  <2>3. ASSUME Data[i] = LineEnd PROVE Even(p)
    <3>1. gui_log[p] = LineEnd
      BY <2>1, <2>3
    <3> QED
      BY <3>1, LogByte DEF Even
  <2>4. ASSUME Data[i] # LineEnd
        PROVE  /\ Odd(p) /\ LineAt(Data[i], p)
               /\ Data[i].n \in Nat /\ Data[i].n <= Len(lines)
               /\ Newer(Data[i].n, active, pending)
               /\ buf # <<>> => buf[1].n < Data[i].n
    <3>1. gui_log[p] # LineEnd
      BY <2>1, <2>4
    <3>2. Odd(p) /\ LineAt(gui_log[p], p) /\ gui_log[p].n \in Nat /\ gui_log[p].n <= Len(lines)
      <4>1. PICK k \in 1..(Len(lines) - rotated) :
                gui_log[p].n = rotated + k /\ rotated + k \in 1..Len(lines)
        BY <1>4, <3>1
      <4> QED
        BY <1>2, <1>4, <3>1, <4>1
    <3>3. Newer(gui_log[p].n, active, pending) /\ (buf # <<>> => buf[1].n < gui_log[p].n)
      BY <2>2, <3>1 DEF Watch
    <3> QED
      BY <2>1, <3>2, <3>3
  <2> QED
    BY <2>1, <2>3, <2>4
<1>6. ASSUME NEW i \in 1..Len(Kept)
      PROVE  /\ Data[i] = buf[1] /\ Data[i] # LineEnd /\ Odd(Base + i) /\ LineAt(Data[i], Base + i)
             /\ Data[i].n \in Nat /\ Data[i].n <= Len(lines)
             /\ Newer(Data[i].n, active, pending)
  <2>1. i = 1 /\ Base + i = pos /\ Data[i] = buf[1] /\ buf # <<>>
    BY <1>1
  <2>2. /\ buf[1] # LineEnd /\ buf[1].n <= Len(lines) /\ Newer(buf[1].n, active, pending)
        /\ Odd(pos)
        /\ buf[1].n > rotated => pos <= Len(gui_log) /\ buf[1] = gui_log[pos]
    BY <2>1 DEF Watch, Odd
  <2>3. buf[1] \in Bytes /\ buf[1].n \in Nat
    <3>1. Len(buf) = 1 /\ buf \in Seq(Bytes)
      BY <2>1 DEF Watch, ScoringTypes
    <3>2. buf[1] \in Bytes
      BY <3>1
    <3> QED
      BY <2>2, <3>2, ByteCases
  <2>4. LineAt(buf[1], pos)
    <3>1. CASE buf[1].n > rotated
      <4>1. pos \in 1..Len(gui_log) /\ buf[1] = gui_log[pos]
        BY <1>1, <1>2, <2>1, <2>2, <3>1
      <4> QED
        BY <1>4, <2>2, <4>1
    <3>2. CASE ~(buf[1].n > rotated)
      BY <3>2 DEF LineAt
    <3> QED
      BY <3>1, <3>2
  <2> QED
    BY <2>1, <2>2, <2>3, <2>4
<1>7. ASSUME NEW i \in 1..Len(Data), NEW j \in 1..Len(Data), i < j,
             Data[i] # LineEnd, Data[j] # LineEnd
      PROVE  Data[i].n < Data[j].n
  <2>1. j \in (Len(Kept) + 1)..Len(Data)
    BY <1>1, <1>7
  <2>2. CASE i \in 1..Len(Kept)
    <3>1. Data[i] = buf[1] /\ buf # <<>>
      BY <1>1, <2>2
    <3> QED
      BY <1>5, <1>7, <2>1, <3>1
  <2>3. CASE i \in (Len(Kept) + 1)..Len(Data)
    <3>1. PICK p \in 1..Len(gui_log) : p = Base + i /\ Data[i] = gui_log[p]
      BY <1>1, <2>3
    <3>2. PICK q \in 1..Len(gui_log) : q = Base + j /\ Data[j] = gui_log[q]
      BY <1>1, <2>1
    <3>3. PICK k \in 1..(Len(lines) - rotated) : p = 2 * k - 1 /\ gui_log[p].n = rotated + k
      BY <1>4, <1>7, <3>1
    <3>4. PICK l \in 1..(Len(lines) - rotated) : q = 2 * l - 1 /\ gui_log[q].n = rotated + l
      BY <1>4, <1>7, <3>2
    <3>5. p < q
      BY <1>1, <1>7, <3>1, <3>2
    <3>6. k < l
      BY <1>2, <3>3, <3>4, <3>5
    <3> QED
      BY <1>2, <3>1, <3>2, <3>3, <3>4, <3>6
  <2> QED
    BY <1>3, <2>2, <2>3
<1>8. ASSUME NEW i \in 1..Len(Data)
      PROVE  /\ Data[i] = LineEnd => Even(Base + i)
             /\ Data[i] # LineEnd =>
                    /\ Odd(Base + i) /\ LineAt(Data[i], Base + i)
                    /\ Data[i].n \in Nat /\ Data[i].n <= Len(lines)
                    /\ Newer(Data[i].n, active, pending)
  BY <1>3, <1>5, <1>6
<1> QED
  BY <1>3, <1>7, <1>8

\* What a poll leaves: the attempts in order, followed up to the last whole line, and of
\* the log nothing, or the text of one line.
LEMMA PollTracks ==
    ASSUME ScoringTypes, LogShape, Watch, Queued(active, pending),
           NEW after, after = FoldLeft(Track, [active |-> active, pending |-> pending],
                                       WholeLines(Data)),
           NEW w, w = Whole(Data)
    PROVE  /\ w \in 0..Len(Data) /\ Len(Data) - w \in 0..1
           /\ Tracked(after, Base + w) /\ (after.active.from > rotated => Even(Base + w))
           /\ Len(Data) - w = 1 =>
                  /\ Data[Len(Data)] # LineEnd
                  /\ Newer(Data[Len(Data)].n, after.active, after.pending)
<1> DEFINE t == [active |-> active, pending |-> pending]
           whole == WholeLines(Data)
<1>1. Base \in Nat /\ Data \in Seq(Bytes) /\ (Len(Kept) = 1 => Even(Base))
      /\ (Len(Kept) = 1 => From = pos) /\ Len(Kept) \in 0..1
  BY DataShape
<1>2. Len(Data) \in Nat /\ Len(lines) \in Nat /\ rotated \in Nat
  BY <1>1 DEF ScoringTypes
<1>3. /\ \A i \in 1..Len(Data) :
             /\ Data[i] \in Bytes
             /\ Data[i] = LineEnd => Even(Base + i)
             /\ Data[i] # LineEnd =>
                    /\ Odd(Base + i) /\ LineAt(Data[i], Base + i)
                    /\ Data[i].n \in Nat /\ Data[i].n <= Len(lines)
                    /\ Newer(Data[i].n, active, pending)
      /\ \A i, j \in 1..Len(Data) :
             i < j /\ Data[i] # LineEnd /\ Data[j] # LineEnd => Data[i].n < Data[j].n
  BY DataBytes
<1>4. /\ w \in 0..Len(Data) /\ (w > 0 => Data[w] = LineEnd)
      /\ \A i \in (w + 1)..Len(Data) : Data[i] # LineEnd
  BY <1>1, WholeIs
<1>5. whole \in Seq(Bytes) /\ Len(whole) = w /\ \A i \in 1..w : whole[i] = Data[i]
  <2>1. whole = SubSeq(Data, 1, w)
    BY DEF WholeLines
  <2> HIDE DEF whole
  <2> QED
    BY <1>1, <1>2, <1>4, <2>1
\* Where the attempt in progress is followed to when the poll begins.
<1>6. t \in Trackers
  BY DEF t, Trackers, ScoringTypes
<1>7. /\ active.from > rotated => Even(Base)
      /\ Progress(active, Base)
  <2>1. SUFFICES ASSUME active.from > rotated
                 PROVE  \E k \in Nat : Base = 2 * k /\ Followed(active, rotated + k)
    BY DEF Progress, Even
  <2>2. active.from \in Int /\ active.from >= 1
    <3>1. active.from \in Int
      BY AttemptNumbers DEF ScoringTypes
    <3> QED
      BY <1>2, <2>1, <3>1
  <2>3. pos # -1
    BY <2>2 DEF Watch
  <2>4. PICK k \in Nat : /\ (pos = 2 * k /\ buf = <<>>) \/ (pos = 2 * k + 1 /\ buf # <<>>)
                         /\ Followed(active, rotated + k)
    BY <2>1 DEF Watch
  <2>5. pos <= Len(gui_log) /\ pos \in Nat /\ Len(gui_log) \in Nat
    BY <2>1, <2>3 DEF Watch, ScoringTypes
  <2>6. Kept = buf /\ From = pos
    BY <2>3, <2>5 DEF Kept, From
  <2>7. CASE buf = <<>>
    <3>1. Len(Kept) = 0 /\ pos = 2 * k
      BY <2>4, <2>6, <2>7
    <3>2. Base = 2 * k
      BY <2>5, <2>6, <3>1 DEF Base
    <3> QED
      BY <2>4, <3>2
  <2>8. CASE buf # <<>>
    <3>1. Len(Kept) = 1 /\ From = 2 * k + 1 /\ (2 * k + 1) - 1 = 2 * k
      BY <2>4, <2>6, <2>8 DEF Watch
    <3>2. Base = 2 * k
      BY <3>1 DEF Base
    <3> QED
      BY <2>4, <3>2
  <2> QED
    BY <2>7, <2>8
<1> DEFINE Good == {g \in (0..w) \X Trackers :
                       /\ Tracked(g[2], Base + g[1]) /\ (g[1] = 0 => g[2] = t)
                       /\ \A j \in 1..Len(Data) : j > g[1] /\ Data[j] # LineEnd =>
                              Newer(Data[j].n, g[2].active, g[2].pending)}
<1>8. t.active = active /\ t.pending = pending
  OBVIOUS
<1> HIDE DEF whole, t, Kept, From, Data, Base
<1>9. <<0, t>> \in Good
  <2>1. Tracked(t, Base)
    BY <1>6, <1>7, <1>8 DEF Tracked
  <2>2. Base + 0 = Base /\ 0 \in 0..w
    BY <1>1, <1>2, <1>4
  <2> QED
    BY <1>3, <1>6, <1>8, <2>1, <2>2
<1>10. ASSUME NEW i \in 0..(w - 1), NEW u, <<i, u>> \in Good
       PROVE  <<i + 1, Track(u, whole[i + 1])>> \in Good
  <2>1. /\ i \in Nat /\ i + 1 \in 1..w /\ i + 1 \in 1..Len(Data) /\ i + 1 \in 0..w /\ i + 1 # 0
        /\ Base + i \in Nat /\ (Base + i) + 1 = Base + (i + 1)
    BY <1>1, <1>2, <1>4
  <2>2. /\ u \in Trackers /\ Tracked(u, Base + i)
        /\ \A j \in 1..Len(Data) : j > i /\ Data[j] # LineEnd =>
               Newer(Data[j].n, u.active, u.pending)
    BY <1>10
  <2>3. PICK byte \in Bytes : byte = Data[i + 1] /\ byte = whole[i + 1]
    BY <1>3, <1>5, <2>1
  <2>4. PICK place \in Nat : place = Base + i /\ place + 1 = Base + (i + 1)
    BY <2>1
  <2>5. /\ byte = LineEnd => \E k \in Nat : place + 1 = 2 * k
        /\ byte # LineEnd => /\ LineAt(byte, place + 1) /\ byte.n <= Len(lines)
                             /\ Newer(byte.n, u.active, u.pending)
    <3>1. ASSUME byte = LineEnd PROVE \E k \in Nat : place + 1 = 2 * k
      BY <1>3, <2>1, <2>3, <2>4, <3>1 DEF Even
    <3>2. ASSUME byte # LineEnd
          PROVE  /\ LineAt(byte, place + 1) /\ byte.n <= Len(lines)
                 /\ Newer(byte.n, u.active, u.pending)
      <4>1. i + 1 > i
        BY <2>1
      <4> QED
        BY <1>3, <2>1, <2>2, <2>3, <2>4, <3>2, <4>1
    <3> QED
      BY <3>1, <3>2
  <2>6. Tracked(u, place)
    BY <2>2, <2>4
  <2>7. PICK v : v = Track(u, byte)
    OBVIOUS
  <2>8. /\ Tracked(v, place + 1)
        /\ \A m \in Nat : /\ Newer(m, u.active, u.pending)
                          /\ byte # LineEnd => byte.n < m
                          => Newer(m, v.active, v.pending)
    BY <2>5, <2>6, <2>7, TrackKeeps
  <2>9. v \in Trackers
    BY <2>8 DEF Tracked
  <2>10. ASSUME NEW j \in 1..Len(Data), j > i + 1, Data[j] # LineEnd
         PROVE  Newer(Data[j].n, v.active, v.pending)
    <3>1. j > i /\ i + 1 < j
      BY <2>1, <2>10
    <3>2. Newer(Data[j].n, u.active, u.pending) /\ Data[j].n \in Nat
      BY <1>3, <2>2, <2>10, <3>1
    <3>3. byte # LineEnd => byte.n < Data[j].n
      BY <1>3, <2>1, <2>3, <2>10, <3>1
    <3> QED
      BY <2>8, <3>2, <3>3
  <2>11. <<i + 1, v>> \in Good
    BY <2>1, <2>4, <2>8, <2>9, <2>10
  <2> QED
    BY <2>3, <2>7, <2>11
<1>11. <<w, after>> \in Good
  <2>1. after = FoldLeft(Track, t, whole)
    BY DEF t, whole
  <2> HIDE DEF Good
  <2>2. <<Len(whole), FoldLeft(Track, t, whole)>> \in Good
    BY <1>5, <1>9, <1>10, TrackInduct
  <2> QED
    BY <1>5, <2>1, <2>2
<1>12. /\ Tracked(after, Base + w) /\ (w = 0 => after = t)
       /\ \A j \in 1..Len(Data) : j > w /\ Data[j] # LineEnd =>
              Newer(Data[j].n, after.active, after.pending)
  BY <1>11
\* The text of a line is never next to another one.
<1>13. Len(Data) - w \in 0..1
  <2>1. SUFFICES ASSUME Len(Data) - w > 1 PROVE FALSE
    BY <1>2, <1>4
  <2>2. w + 1 \in 1..Len(Data) /\ w + 2 \in 1..Len(Data) /\ w + 1 \in (w + 1)..Len(Data)
        /\ w + 2 \in (w + 1)..Len(Data)
    BY <1>2, <1>4, <2>1
  <2>3. Odd(Base + (w + 1)) /\ Odd(Base + (w + 2))
    BY <1>3, <1>4, <2>2
  <2>4. Base + (w + 1) \in Nat /\ (Base + (w + 1)) + 1 = Base + (w + 2)
        /\ Base + (w + 2) \in Nat
    BY <1>1, <1>2, <1>4
  <2> QED
    BY <2>3, <2>4, Parity
<1>14. after.active.from > rotated => Even(Base + w)
  <2>1. CASE w = 0
    <3>1. Base + w = Base /\ after.active = active
      BY <1>1, <1>8, <1>12, <2>1
    <3> QED
      BY <1>7, <3>1
  <2>2. CASE w # 0
    BY <1>2, <1>3, <1>4, <2>2
  <2> QED
    BY <2>1, <2>2
<1>15. ASSUME Len(Data) - w = 1
       PROVE  /\ Data[Len(Data)] # LineEnd
              /\ Newer(Data[Len(Data)].n, after.active, after.pending)
  <2>1. Len(Data) \in (w + 1)..Len(Data) /\ Len(Data) \in 1..Len(Data) /\ Len(Data) > w
    BY <1>2, <1>4, <1>15
  <2> QED
    BY <1>4, <1>12, <2>1
<1> QED
  BY <1>4, <1>12, <1>13, <1>14, <1>15

LEMMA SeenTypes ==
    ASSUME ScoringTypes, UNCHANGED <<gui_log, lines, rotated, session, trials>>,
           tool' \in {"poll", "key", "down"}, pos' \in Nat \cup {-1}, buf' \in Seq(Bytes),
           active' \in Attempts, active'.till = 0, pending' \in Seq(Attempts)
    PROVE  ScoringTypes'
<1>1. Load(session') = Load(session)
  BY Zenon
<1> QED
  BY <1>1 DEF ScoringTypes

\* The log and the session stay as they are.
LEMMA SeenFiles ==
    ASSUME LogShape, Filed(Load(session)), UNCHANGED <<gui_log, lines, rotated, session>>
    PROVE  LogShape' /\ Filed(Load(session))'
<1>1. LogShape'
  BY DEF LogShape
<1>2. Load(session') = Load(session)
  BY Zenon
<1>3. PICK list : list = Load(session)
  OBVIOUS
<1>4. Filed(list)'
  BY <1>3 DEF Filed, Before, Written, Right, Followed
<1> QED
  BY <1>1, <1>2, <1>3, <1>4 DEF Filed, Before, Written, Right, Followed

LEMMA SeenQueue ==
    ASSUME NEW now, NEW queue, Queued(now, queue), active' = now, pending' = queue,
           UNCHANGED <<lines, rotated, trials>>
    PROVE  Queued(active, pending)'
  BY DEF Queued, Before, Written, Right, Followed

LEMMA PollInv == ScoringInv /\ Poll => ScoringInv'
<1> SUFFICES ASSUME ScoringInv, Poll PROVE ScoringInv'
  OBVIOUS
<1>1. /\ ScoringTypes /\ LogShape /\ Filed(Load(session)) /\ Queued(active, pending)
      /\ Watch /\ Shown
  BY DEF ScoringInv
<1>2. /\ UNCHANGED <<gui_log, lines, rotated, session, trials>>
      /\ tool = "poll" /\ tool' = "key"
  BY DEF Poll, logVars
<1>3. LogShape' /\ Filed(Load(session))'
  BY <1>1, <1>2, SeenFiles
<1>4. Shown'
  <2>1. trials = Load(session)
    BY <1>1, <1>2 DEF Shown
  <2> QED
    BY <1>2, <2>1 DEF Shown
<1>5. CASE UNCHANGED <<pos, buf, active, pending>>
  <2>1. ScoringTypes'
    BY <1>1, <1>2, <1>5, SeenTypes DEF ScoringTypes
  <2>2. Queued(active, pending)'
    BY <1>1, <1>2, <1>5, SeenQueue
  <2>3. Watch'
    BY <1>1, <1>2, <1>5 DEF Watch, Unread, Newer, Followed
  <2> QED
    BY <1>3, <1>4, <2>1, <2>2, <2>3 DEF ScoringInv
<1>6. ASSUME NEW after, NEW w, w = Whole(Data),
             after = FoldLeft(Track, [active |-> active, pending |-> pending], WholeLines(Data)),
             pos' = Len(gui_log), buf' = SubSeq(Data, w + 1, Len(Data)),
             active' = after.active, pending' = after.pending
      PROVE  ScoringInv'
  <2>1. /\ w \in 0..Len(Data) /\ Len(Data) - w \in 0..1
        /\ Tracked(after, Base + w) /\ (after.active.from > rotated => Even(Base + w))
        /\ Len(Data) - w = 1 =>
               /\ Data[Len(Data)] # LineEnd
               /\ Newer(Data[Len(Data)].n, after.active, after.pending)
    BY <1>1, <1>6, PollTracks
  <2>2. /\ Base \in Nat /\ Data \in Seq(Bytes) /\ Base + Len(Data) = Len(gui_log)
        /\ Len(gui_log) \in Nat
    BY <1>1, DataShape
  <2>3. Len(Data) \in Nat /\ Len(lines) \in Nat /\ rotated \in Nat
    BY <1>1, <2>2 DEF ScoringTypes
  <2>4. after \in Trackers /\ Queued(after.active, after.pending)
        /\ Progress(after.active, Base + w)
    BY <2>1 DEF Tracked
  <2>5. /\ Len(Data) - w = 0 => buf' = <<>>
        /\ Len(Data) - w = 1 => /\ Len(buf') = 1 /\ buf' # <<>>
                                /\ buf'[1] = Data[Len(Data)]
        /\ buf' \in Seq(Bytes)
    <3> HIDE DEF Data
    <3>1. ASSUME Len(Data) - w = 0 PROVE buf' = <<>>
      BY <1>6, <2>1, <2>2, <2>3, <3>1
    <3>2. ASSUME Len(Data) - w = 1
          PROVE  Len(buf') = 1 /\ buf' # <<>> /\ buf'[1] = Data[Len(Data)]
      <4>1. PICK d \in Nat : d = Len(Data)
        BY <2>3
      <4>2. w + 1 = d /\ d > 0
        BY <2>1, <3>2, <4>1
      <4>3. buf' = SubSeq(Data, d, d) /\ d \in 1..Len(Data)
        BY <1>6, <4>1, <4>2
      <4>4. Len(SubSeq(Data, d, d)) = 1 /\ SubSeq(Data, d, d)[1] = Data[d]
        BY <2>2, <4>3
      <4>5. Len(<<>>) = 0
        OBVIOUS
      <4> QED
        BY <4>1, <4>3, <4>4, <4>5
    <3>3. SubSeq(Data, w + 1, Len(Data)) \in Seq(Bytes)
      BY <2>1, <2>2, <2>3
    <3> QED
      BY <1>6, <3>1, <3>2, <3>3
  <2>6. ScoringTypes'
    <3>1. active' \in Attempts /\ active'.till = 0 /\ pending' \in Seq(Attempts)
      BY <1>6, <2>4 DEF Trackers
    <3> QED
      BY <1>1, <1>2, <1>6, <2>2, <2>5, <3>1, SeenTypes
  <2>7. Queued(active, pending)'
    BY <1>2, <1>6, <2>4, SeenQueue
  <2>8. Watch'
    <3>1. pos' \in Nat /\ pos' # -1 /\ pos' = Len(gui_log')
      BY <1>2, <1>6, <2>2
    <3>2. \A i \in 1..Len(gui_log') : ~Unread(i)'
      BY <3>1 DEF Unread
    <3>3. ASSUME buf' # <<>>
          PROVE  /\ Len(buf') = 1 /\ buf'[1] # LineEnd /\ buf'[1].n <= Len(lines')
                 /\ Newer(buf[1].n, active, pending)'
                 /\ \E k \in Nat : pos' = 2 * k + 1
                 /\ buf'[1].n > rotated' => pos' <= Len(gui_log') /\ buf'[1] = gui_log'[pos']
      <4>1. PICK d \in Nat : d = Len(Data) /\ d - w = 1 /\ d \in 1..Len(Data)
        BY <2>1, <2>3, <2>5, <3>3
      <4>2. Len(buf') = 1 /\ buf'[1] = Data[d]
        BY <2>5, <4>1
      <4>3. Data[d] # LineEnd /\ Newer(Data[d].n, after.active, after.pending)
        BY <2>1, <4>1
      <4>4. Odd(Base + d) /\ Data[d].n <= Len(lines)
        BY <1>1, <4>1, <4>3, DataBytes
      <4>5. Newer(buf[1].n, active, pending)'
        BY <1>2, <1>6, <4>2, <4>3 DEF Newer
      <4>6. \E k \in Nat : pos' = 2 * k + 1
        BY <1>6, <2>2, <4>1, <4>4 DEF Odd
      <4>7. ASSUME Data[d].n > rotated PROVE Data[d] = gui_log[pos']
        <5>1. /\ Len(Kept) \in 0..1 /\ Len(Data) >= Len(Kept)
              /\ \A i \in 1..Len(Kept) : Data[i] = buf[1] /\ i = 1 /\ Base + 1 = pos
              /\ \A i \in (Len(Kept) + 1)..Len(Data) : Data[i] = gui_log[Base + i]
              /\ Len(Kept) = 1 => buf # <<>>
          BY <1>1, DataShape
        <5> HIDE DEF Kept, Data, Base
        <5>2. CASE d \in (Len(Kept) + 1)..Len(Data)
          BY <1>6, <2>2, <4>1, <5>1, <5>2
        <5>3. CASE d \notin (Len(Kept) + 1)..Len(Data)
          <6>1. d = 1 /\ 1 \in 1..Len(Kept) /\ buf # <<>>
            BY <4>1, <5>1, <5>3
          <6>2. Data[d] = buf[1] /\ pos = Len(gui_log)
            BY <2>2, <4>1, <5>1, <6>1
          <6>3. buf[1] = gui_log[pos]
            BY <1>1, <4>7, <6>1, <6>2 DEF Watch
          <6> QED
            BY <1>6, <6>2, <6>3
        <5> QED
          BY <5>2, <5>3
      <4> QED
        BY <1>2, <3>1, <4>2, <4>3, <4>4, <4>5, <4>6, <4>7
    <3>4. ASSUME active'.from > rotated'
          PROVE  pos' <= Len(gui_log') /\ \E k \in Nat :
                     /\ (pos' = 2 * k /\ buf' = <<>>) \/ (pos' = 2 * k + 1 /\ buf' # <<>>)
                     /\ Followed(active, rotated + k)'
      <4>1. PICK place \in Nat : place = Base + w
        BY <2>1, <2>2, <2>3
      <4>2. after.active.from > rotated
        BY <1>2, <1>6, <3>4
      <4>3. PICK k \in Nat : /\ place = 2 * k \/ place + 1 = 2 * k
                             /\ Followed(after.active, rotated + k)
        BY <2>4, <4>1, <4>2 DEF Progress
      <4>4. PICK j \in Nat : place = 2 * j
        BY <2>1, <4>1, <4>2 DEF Even
      <4>5. place = 2 * k
        BY <4>3, <4>4
      <4>6. pos' = place + (Len(Data) - w)
        <5>1. PICK d \in Nat, b \in Nat : d = Len(Data) /\ b = Base
          BY <2>2, <2>3
        <5>2. pos' = b + d /\ place = b + w /\ w \in Nat
          BY <1>6, <2>1, <2>2, <4>1, <5>1
        <5> QED
          BY <5>1, <5>2
      <4>7. (pos' = 2 * k /\ buf' = <<>>) \/ (pos' = 2 * k + 1 /\ buf' # <<>>)
        BY <2>1, <2>5, <4>5, <4>6
      <4>8. Followed(active, rotated + k)'
        BY <1>2, <1>6, <4>3 DEF Followed
      <4> QED
        BY <3>1, <4>7, <4>8
    <3> QED
      BY <3>1, <3>2, <3>3, <3>4 DEF Watch
  <2> QED
    BY <1>3, <1>4, <2>6, <2>7, <2>8 DEF ScoringInv
<1>7. CASE ~UNCHANGED <<pos, buf, active, pending>>
  <2>1. PICK after, w : /\ w = Whole(Data)
                        /\ after = FoldLeft(Track, [active |-> active, pending |-> pending],
                                            WholeLines(Data))
    OBVIOUS
  <2>2. /\ pos' = Len(gui_log) /\ buf' = SubSeq(Data, w + 1, Len(Data))
        /\ active' = after.active /\ pending' = after.pending
    BY <1>7, <2>1, Zenon DEF Poll, Data, Kept, From, Rest, watcherVars, trackerVars
  <2> QED
    BY <1>6, <2>1, <2>2
<1> QED
  BY <1>5, <1>7

-----------------------------------------------------------------------------
(* The log grows and is rotated; the tool starts and goes down.              *)

LEMMA StillInv ==
    ASSUME ScoringInv, UNCHANGED <<gui_log, lines, rotated, session, trials>>,
           UNCHANGED <<pos, buf, active, pending>>, tool # "down", tool' \in {"poll", "key"}
    PROVE  ScoringInv'
<1>1. /\ ScoringTypes /\ LogShape /\ Filed(Load(session)) /\ Queued(active, pending)
      /\ Watch /\ Shown
  BY DEF ScoringInv
<1>2. ScoringTypes'
  BY <1>1, SeenTypes DEF ScoringTypes
<1>3. LogShape' /\ Filed(Load(session))'
  BY <1>1, SeenFiles
<1>4. Queued(active, pending)'
  BY <1>1, SeenQueue
<1>5. Watch'
  BY <1>1 DEF Watch, Unread, Newer, Followed
<1>6. Shown'
  <2>1. trials = Load(session)
    BY <1>1 DEF Shown
  <2> QED
    BY <2>1 DEF Shown
<1> QED
  BY <1>2, <1>3, <1>4, <1>5, <1>6 DEF ScoringInv

LEMMA NoneYet ==
    /\ NoAttempt \in Attempts /\ NoAttempt.till = 0 /\ NoAttempt.from = -1
    /\ NoAttempt.misses = 0 /\ NoAttempt.by_hand = 0
  BY NewAttempt DEF NoAttempt

\* A start, and its opposite: the tool knows of the file, or of nothing.
LEMMA FreshInv ==
    ASSUME ScoringInv, UNCHANGED <<gui_log, lines, rotated, session>>,
           pos' = -1, buf' = <<>>, active' = NoAttempt, pending' = <<>>,
           \/ tool' = "poll" /\ trials' = Load(session)
           \/ tool' = "down" /\ trials' = <<>>
    PROVE  ScoringInv'
<1>1. /\ ScoringTypes /\ LogShape /\ Filed(Load(session)) /\ Queued(active, pending)
      /\ Watch /\ Shown
  BY DEF ScoringInv
<1>2. Load(session') = Load(session) /\ <<>> \in Seq(Trials) /\ <<>> \in Seq(Attempts)
      /\ <<>> \in Seq(Bytes)
  OBVIOUS
<1>3. ScoringTypes'
  BY <1>1, <1>2, NoneYet DEF ScoringTypes
<1>4. LogShape' /\ Filed(Load(session))'
  BY <1>1, SeenFiles
<1>5. Queued(active, pending)'
  <2>1. Len(lines) \in Nat
    BY <1>1 DEF ScoringTypes
  <2>2. Len(<<>>) = 0 /\ 1..0 = {}
    OBVIOUS
  <2>3. active'.from = -1 /\ ~(active'.from > 0) /\ active'.from <= Len(lines')
    BY <2>1, NoneYet
  <2> QED
    BY <2>2, <2>3 DEF Queued, Before, Written
<1>6. Watch'
  <2>1. rotated' \in Nat
    BY <1>1 DEF ScoringTypes
  <2>2. active'.from < 1 /\ ~(active'.from > rotated')
    BY <2>1, NoneYet
  <2>3. \A i : ~Unread(i)'
    BY DEF Unread
  <2> QED
    BY <2>2, <2>3 DEF Watch
<1>7. Shown'
  BY <1>2 DEF Shown
<1> QED
  BY <1>3, <1>4, <1>5, <1>6, <1>7 DEF ScoringInv

\* The scored trials are those of the file, so that what is known of these holds for them.
LEMMA ScoredWritten ==
    ASSUME ScoringInv
    PROVE  \A i \in 1..Len(trials) : Written(trials[i].of)
<1>1. trials = Load(session) \/ trials = <<>>
  BY DEF ScoringInv, Shown
<1>2. Len(<<>>) = 0 /\ 1..0 = {}
  OBVIOUS
<1> QED
  BY <1>1, <1>2 DEF ScoringInv, Filed

LEMMA OrderStays ==
    ASSUME ScoringTypes, Filed(Load(session)), Queued(active, pending),
           UNCHANGED <<session, trials, active, pending>>,
           \A a \in Attempts : Written(a) => Written(a)' /\ (Right(a) => Right(a)')
    PROVE  Filed(Load(session))' /\ Queued(active, pending)'
<1>1. Load(session') = Load(session)
  BY Zenon
<1>2. PICK list \in Seq(Trials) : list = Load(session)
  BY DEF ScoringTypes
<1>3. \A i \in 1..Len(list) : list[i].of \in Attempts
  <2>1. \A i \in 1..Len(list) : list[i] \in Trials
    BY <1>2
  <2> QED
    BY <2>1 DEF Trials
<1>4. \A j \in 1..Len(pending) : pending[j] \in Attempts
  BY DEF ScoringTypes
<1>5. Filed(list)'
  BY <1>2, <1>3 DEF Filed
<1>6. Filed(Load(session))'
  BY <1>1, <1>2, <1>5 DEF Filed
<1>7. active \in Attempts
  BY DEF ScoringTypes
<1>8. Queued(active, pending)'
  BY <1>4, <1>7 DEF Queued
<1> QED
  BY <1>6, <1>8

\* Growing, the log keeps what was said of the lines before.
LEMMA LinesGrow ==
    ASSUME ScoringTypes, NEW kind \in Kinds, lines' = Append(lines, kind), rotated' = rotated
    PROVE  /\ Len(lines') = Len(lines) + 1 /\ lines' \in Seq(Kinds)
           /\ lines'[Len(lines) + 1] = kind
           /\ \A n \in 1..Len(lines) : lines'[n] = lines[n]
           /\ \A a \in Attempts, last \in Int :
                  a.from > rotated /\ Followed(a, last) => Followed(a, last)'
           /\ \A a \in Attempts : Written(a) => Written(a)' /\ (Right(a) => Right(a)')
<1>1. /\ Len(lines') = Len(lines) + 1 /\ lines' \in Seq(Kinds) /\ Len(lines) \in Nat
      /\ lines'[Len(lines) + 1] = kind
      /\ \A n \in 1..Len(lines) : lines'[n] = lines[n]
      /\ rotated \in Nat
  BY DEF ScoringTypes
<1>2. ASSUME NEW a \in Attempts, NEW last \in Int, a.from > rotated, Followed(a, last)
      PROVE  Followed(a, last)'
  <2>1. /\ a.from \in Int /\ a.from <= last /\ last <= Len(lines)
        /\ \A n \in (a.from + 1)..last : lines[n] = "retreat"
        /\ a.misses = (last - a.from) + a.by_hand
    BY <1>2, AttemptNumbers DEF Followed
  <2>2. \A n \in (a.from + 1)..last : n \in 1..Len(lines)
    BY <1>1, <1>2, <2>1
  <2>3. \A n \in (a.from + 1)..last : lines'[n] = "retreat"
    BY <1>1, <2>1, <2>2
  <2>4. last <= Len(lines')
    BY <1>1, <2>1
  <2> QED
    BY <2>1, <2>3, <2>4 DEF Followed
<1>3. ASSUME NEW a \in Attempts, Written(a)
      PROVE  Written(a)' /\ (Right(a) => Right(a)')
  <2>1. a.from \in Int /\ a.till \in Nat /\ a.till - 1 \in Int
    BY AttemptNumbers
  <2>2. Written(a)'
    BY <1>1, <1>3, <2>1 DEF Written
  <2>3. ASSUME Right(a), a.from > rotated', a.till > 0
        PROVE  Followed(a, a.till - 1)'
    <3>1. PICK last \in Int : last = a.till - 1
      BY <2>1
    <3>2. Followed(a, last) /\ a.from > rotated
      BY <2>3, <3>1 DEF Right
    <3>3. Followed(a, last)'
      BY <1>2, <3>2
    <3> QED
      BY <3>1, <3>3 DEF Followed
  <2> QED
    BY <2>2, <2>3 DEF Right
<1> QED
  BY <1>1, <1>2, <1>3

\* A log whose last line is whole has two bytes for each line.
LEMMA LineBytes ==
    ASSUME ScoringTypes, LogShape
    PROVE  /\ Len(gui_log) \in Nat /\ Len(lines) - rotated \in Nat
           /\ ~Torn(gui_log) => Len(gui_log) = 2 * (Len(lines) - rotated)
           /\ Torn(gui_log) => /\ Len(gui_log) = 2 * (Len(lines) - rotated) - 1
                               /\ Len(lines) - rotated > 0
<1>1. PICK here \in Nat : here = Len(lines) - rotated
  <2>1. Len(lines) - rotated \in Nat
    BY TrialNumbers
  <2> QED
    BY <2>1
<1>2. Len(gui_log) \in Nat /\ gui_log \in Seq(Bytes) /\ rotated \in Nat
  BY DEF ScoringTypes
<1>3. /\ Len(gui_log) = 2 * here \/ (here > 0 /\ Len(gui_log) = 2 * here - 1)
      /\ \A k \in 1..here :
             /\ gui_log[2 * k - 1] = Text(lines[rotated + k], rotated + k)
             /\ 2 * k <= Len(gui_log) => gui_log[2 * k] = LineEnd
  BY <1>1 DEF LogShape
<1>4. Torn(gui_log) <=> gui_log # <<>> /\ gui_log[Len(gui_log)] # LineEnd
  BY DEF Torn, Last
<1>5. gui_log # <<>> <=> Len(gui_log) > 0
  BY <1>2
<1>6. CASE Len(gui_log) = 2 * here
  <2>1. here > 0 => gui_log[2 * here] = LineEnd
    BY <1>1, <1>3, <1>6
  <2>2. ~Torn(gui_log)
    BY <1>1, <1>4, <1>5, <1>6, <2>1
  <2> QED
    BY <1>1, <1>2, <1>6, <2>2
<1>7. CASE here > 0 /\ Len(gui_log) = 2 * here - 1
  <2>1. gui_log[2 * here - 1] = Text(lines[rotated + here], rotated + here)
    BY <1>1, <1>3, <1>7
  <2>2. gui_log[Len(gui_log)].n = rotated + here
    BY <1>7, <2>1 DEF Text
  <2>3. gui_log[Len(gui_log)] # LineEnd
    BY <1>1, <1>2, <1>7, <2>2, LineEnds
  <2>4. Torn(gui_log)
    BY <1>1, <1>4, <1>5, <1>7, <2>3
  <2> QED
    BY <1>1, <1>2, <1>7, <2>4
<1> QED
  BY <1>3, <1>6, <1>7

LEMMA WriteLineInv ==
    ASSUME ScoringInv, NEW kind \in Kinds, WriteLine(kind)
    PROVE  ScoringInv'
<1>1. /\ ScoringTypes /\ LogShape /\ Filed(Load(session)) /\ Queued(active, pending)
      /\ Watch /\ Shown
  BY DEF ScoringInv
<1>2. /\ ~Torn(gui_log) /\ lines' = Append(lines, kind)
      /\ gui_log' = Append(gui_log, Text(kind, Len(lines')))
      /\ UNCHANGED <<rotated, session, tool, pos, buf, active, pending, trials>>
  BY DEF WriteLine, memory, watcherVars, trackerVars
<1>3. /\ Len(lines') = Len(lines) + 1 /\ lines' \in Seq(Kinds)
      /\ lines'[Len(lines) + 1] = kind
      /\ \A n \in 1..Len(lines) : lines'[n] = lines[n]
      /\ \A a \in Attempts, last \in Int :
             a.from > rotated /\ Followed(a, last) => Followed(a, last)'
      /\ \A a \in Attempts : Written(a) => Written(a)' /\ (Right(a) => Right(a)')
  BY <1>1, <1>2, LinesGrow
<1>4. /\ Len(lines) \in Nat /\ rotated \in Nat /\ rotated <= Len(lines)
      /\ gui_log \in Seq(Bytes) /\ Len(gui_log) \in Nat
  BY <1>1, TrialNumbers DEF ScoringTypes
<1>5. PICK n \in Nat : n = Len(lines) + 1
  BY <1>4
<1>6. Text(kind, n) \in Bytes /\ Text(kind, n).n = n /\ Text(kind, n).text = kind
  BY <1>4, <1>5 DEF Bytes, Text
<1>7. gui_log' = Append(gui_log, Text(kind, n)) /\ n = Len(lines')
  BY <1>2, <1>3, <1>5
<1>8. /\ Len(gui_log') = Len(gui_log) + 1 /\ gui_log' \in Seq(Bytes)
      /\ gui_log'[Len(gui_log) + 1] = Text(kind, n)
      /\ \A i \in 1..Len(gui_log) : gui_log'[i] = gui_log[i]
  BY <1>4, <1>6, <1>7
<1>9. Load(session') = Load(session)
  BY <1>2, Zenon
<1>10. ScoringTypes'
  <2>1. rotated' \in 0..Len(lines')
    BY <1>2, <1>3, <1>4
  <2> QED
    BY <1>1, <1>2, <1>3, <1>8, <1>9, <2>1 DEF ScoringTypes
<1>11. LogShape'
  <2>1. PICK here \in Nat : here = Len(lines) - rotated /\ Len(gui_log) = 2 * here
    BY <1>1, <1>2, LineBytes
  <2>2. Len(lines') - rotated' = here + 1
    BY <1>2, <1>3, <1>4, <2>1
  <2>3. \A k \in 1..here :
            /\ gui_log[2 * k - 1] = Text(lines[rotated + k], rotated + k)
            /\ 2 * k <= Len(gui_log) => gui_log[2 * k] = LineEnd
    BY <1>1, <2>1 DEF LogShape
  <2>4. ASSUME NEW k \in 1..(here + 1)
        PROVE  /\ gui_log'[2 * k - 1] = Text(lines'[rotated' + k], rotated' + k)
               /\ 2 * k <= Len(gui_log') => gui_log'[2 * k] = LineEnd
    <3>1. CASE k \in 1..here
      <4>1. 2 * k - 1 \in 1..Len(gui_log) /\ 2 * k \in 1..Len(gui_log)
        BY <2>1, <3>1
      <4>2. rotated + k \in 1..Len(lines)
        BY <1>4, <2>1, <3>1
      <4> QED
        BY <1>2, <1>3, <1>8, <2>3, <3>1, <4>1, <4>2
    <3>2. CASE k = here + 1
      <4>1. 2 * k - 1 = Len(gui_log) + 1 /\ rotated + k = Len(lines) + 1
            /\ ~(2 * k <= Len(gui_log) + 1)
        BY <1>4, <2>1, <3>2
      <4> QED
        BY <1>2, <1>3, <1>5, <1>8, <4>1
    <3> QED
      BY <2>1, <3>1, <3>2
  <2>5. Len(gui_log') = 2 * (here + 1) - 1 /\ here + 1 > 0
    BY <1>8, <2>1
  <2> QED
    BY <2>2, <2>4, <2>5 DEF LogShape
<1>12. Filed(Load(session))' /\ Queued(active, pending)'
  BY <1>1, <1>2, <1>3, OrderStays
<1>13. Shown'
  BY <1>1, <1>2, <1>9 DEF Shown
\* The new line is newer than everything.
<1>14. Newer(n, active, pending)
  <2>1. active.from <= Len(lines) /\ active.from \in Int
    BY <1>1, AttemptNumbers DEF Queued, Written, ScoringTypes
  <2>2. \A j \in 1..Len(pending) : pending[j].from <= Len(lines) /\ pending[j].from \in Int
    <3>1. \A j \in 1..Len(pending) : pending[j] \in Attempts
      BY <1>1 DEF ScoringTypes
    <3> QED
      BY <1>1, <3>1, AttemptNumbers DEF Queued, Written
  <2>3. \A i \in 1..Len(trials) : trials[i].of.from <= Len(lines) /\ trials[i].of.from \in Int
    BY <1>1, ScoredWritten, TrialNumbers DEF Written
  <2> QED
    BY <1>4, <1>5, <2>1, <2>2, <2>3 DEF Newer
<1>15. Watch'
  <2>1. pos' = -1 => buf' = <<>> /\ active'.from < 1
    BY <1>1, <1>2 DEF Watch
  <2>2. ASSUME buf # <<>>
        PROVE  /\ Len(buf) = 1 /\ buf[1] # LineEnd /\ buf[1].n <= Len(lines) /\ buf[1].n < n
               /\ Newer(buf[1].n, active, pending) /\ pos \in Nat
               /\ \E k \in Nat : pos = 2 * k + 1
               /\ buf[1].n > rotated => pos <= Len(gui_log) /\ buf[1] = gui_log[pos]
               /\ buf[1].n \in Nat
    <3>1. /\ Len(buf) = 1 /\ buf[1] # LineEnd /\ buf[1].n <= Len(lines)
          /\ Newer(buf[1].n, active, pending)
          /\ \E k \in Nat : pos = 2 * k + 1
          /\ buf[1].n > rotated => pos <= Len(gui_log) /\ buf[1] = gui_log[pos]
      BY <1>1, <2>2 DEF Watch
    <3>2. buf \in Seq(Bytes) /\ pos \in Nat
      BY <1>1, <3>1 DEF ScoringTypes
    <3>3. buf[1] \in Bytes
      <4>1. Len(buf) = 1 /\ buf \in Seq(Bytes)
        BY <3>1, <3>2
      <4> QED
        BY <4>1
    <3>4. buf[1].n \in Nat
      BY <3>1, <3>3, ByteCases
    <3> QED
      BY <1>4, <1>5, <3>1, <3>2, <3>4
  <2>3. ASSUME NEW i \in 1..Len(gui_log'), Unread(i)', gui_log'[i] # LineEnd
        PROVE  /\ Newer(gui_log[i].n, active, pending)'
               /\ buf' # <<>> => buf'[1].n < gui_log'[i].n
    <3>1. CASE i \in 1..Len(gui_log)
      <4>1. Unread(i)
        BY <1>1, <1>2, <1>4, <1>8, <2>3 DEF Unread, ScoringTypes
      <4>2. Newer(gui_log[i].n, active, pending) /\ (buf # <<>> => buf[1].n < gui_log[i].n)
        BY <1>1, <1>8, <2>3, <3>1, <4>1 DEF Watch
      <4> QED
        BY <1>2, <1>8, <3>1, <4>2 DEF Newer
    <3>2. CASE i = Len(gui_log) + 1
      <4>1. gui_log'[i].n = n
        BY <1>6, <1>8, <3>2
      <4>2. Newer(gui_log[i].n, active, pending)'
        BY <1>2, <1>14, <4>1 DEF Newer
      <4> QED
        BY <1>2, <2>2, <4>1, <4>2
    <3> QED
      BY <1>4, <1>8, <3>1, <3>2
  <2>4. ASSUME buf' # <<>>
        PROVE  /\ Len(buf') = 1 /\ buf'[1] # LineEnd /\ buf'[1].n <= Len(lines')
               /\ Newer(buf[1].n, active, pending)'
               /\ \E k \in Nat : pos' = 2 * k + 1
               /\ buf'[1].n > rotated' => pos' <= Len(gui_log') /\ buf'[1] = gui_log'[pos']
    <3>1. buf # <<>>
      BY <1>2, <2>4
    <3>2. Newer(buf[1].n, active, pending)'
      BY <1>2, <2>2, <3>1 DEF Newer
    <3>3. buf'[1].n <= Len(lines')
      BY <1>2, <1>3, <1>4, <2>2, <3>1
    <3>4. ASSUME buf[1].n > rotated
          PROVE  pos' <= Len(gui_log') /\ buf'[1] = gui_log'[pos']
      <4>1. pos \in 1..Len(gui_log) /\ buf[1] = gui_log[pos]
        BY <1>4, <2>2, <3>1, <3>4
      <4> QED
        BY <1>2, <1>4, <1>8, <4>1
    <3> QED
      BY <1>2, <2>2, <3>1, <3>2, <3>3, <3>4
  <2>5. ASSUME active'.from > rotated'
        PROVE  pos' <= Len(gui_log') /\ \E k \in Nat :
                   /\ (pos' = 2 * k /\ buf' = <<>>) \/ (pos' = 2 * k + 1 /\ buf' # <<>>)
                   /\ Followed(active, rotated + k)'
    <3>1. active.from > rotated /\ active \in Attempts
      BY <1>1, <1>2, <2>5 DEF ScoringTypes
    <3>2. PICK k \in Nat : /\ (pos = 2 * k /\ buf = <<>>) \/ (pos = 2 * k + 1 /\ buf # <<>>)
                           /\ Followed(active, rotated + k)
      BY <1>1, <3>1 DEF Watch
    <3>3. pos <= Len(gui_log) /\ pos \in Int
      BY <1>1, <3>1 DEF Watch, ScoringTypes
    <3>4. PICK a \in Attempts, last \in Int : a = active /\ last = rotated + k
      BY <1>4, <3>1
    <3>5. Followed(a, last)'
      BY <1>3, <3>1, <3>2, <3>4
    <3>6. Followed(active, rotated + k)'
      BY <1>2, <3>4, <3>5 DEF Followed
    <3>7. pos' <= Len(gui_log')
      BY <1>2, <1>4, <1>8, <3>3
    <3> QED
      BY <1>2, <3>2, <3>6, <3>7
  <2> QED
    BY <2>1, <2>3, <2>4, <2>5 DEF Watch
<1> QED
  BY <1>10, <1>11, <1>12, <1>13, <1>15 DEF ScoringInv

LEMMA WriteEndInv ==
    ASSUME ScoringInv, WriteEnd
    PROVE  ScoringInv'
<1>1. /\ ScoringTypes /\ LogShape /\ Filed(Load(session)) /\ Queued(active, pending)
      /\ Watch /\ Shown
  BY DEF ScoringInv
<1>2. /\ Torn(gui_log) /\ gui_log' = Append(gui_log, LineEnd)
      /\ UNCHANGED <<lines, rotated, session, tool, pos, buf, active, pending, trials>>
  BY DEF WriteEnd, memory, watcherVars, trackerVars
<1>3. /\ Len(lines) \in Nat /\ rotated \in Nat /\ gui_log \in Seq(Bytes) /\ Len(gui_log) \in Nat
      /\ LineEnd \in Bytes
  BY <1>1 DEF ScoringTypes, Bytes
<1>4. /\ Len(gui_log') = Len(gui_log) + 1 /\ gui_log' \in Seq(Bytes)
      /\ gui_log'[Len(gui_log) + 1] = LineEnd
      /\ \A i \in 1..Len(gui_log) : gui_log'[i] = gui_log[i]
  BY <1>2, <1>3
<1>5. Load(session') = Load(session)
  BY <1>2, Zenon
<1>6. ScoringTypes'
  BY <1>1, <1>2, <1>4, <1>5 DEF ScoringTypes
<1>7. LogShape'
  <2>1. PICK here \in Nat : here = Len(lines) - rotated /\ Len(gui_log) = 2 * here - 1 /\ here > 0
    BY <1>1, <1>2, LineBytes
  <2>2. \A k \in 1..here :
            /\ gui_log[2 * k - 1] = Text(lines[rotated + k], rotated + k)
            /\ 2 * k <= Len(gui_log) => gui_log[2 * k] = LineEnd
    BY <1>1, <2>1 DEF LogShape
  <2>3. ASSUME NEW k \in 1..here
        PROVE  /\ gui_log'[2 * k - 1] = Text(lines[rotated + k], rotated + k)
               /\ 2 * k <= Len(gui_log') => gui_log'[2 * k] = LineEnd
    <3>1. /\ 2 * k - 1 \in 1..Len(gui_log)
          /\ 2 * k \in 1..Len(gui_log) \/ 2 * k = Len(gui_log) + 1
      BY <2>1
    <3>2. gui_log'[2 * k - 1] = Text(lines[rotated + k], rotated + k)
      BY <1>4, <2>2, <3>1
    <3>3. CASE 2 * k \in 1..Len(gui_log)
      <4>1. 2 * k <= Len(gui_log) /\ gui_log'[2 * k] = gui_log[2 * k]
        BY <1>3, <1>4, <3>3
      <4> QED
        BY <2>2, <3>2, <4>1
    <3>4. CASE 2 * k = Len(gui_log) + 1
      BY <1>4, <3>2, <3>4
    <3> QED
      BY <3>1, <3>3, <3>4
  <2>4. Len(gui_log') = 2 * here
    BY <1>4, <2>1
  <2> QED
    BY <1>2, <2>1, <2>3, <2>4 DEF LogShape
<1>8. Filed(Load(session))' /\ Queued(active, pending)'
  <2>1. \A a \in Attempts : Written(a) => Written(a)' /\ (Right(a) => Right(a)')
    BY <1>2 DEF Written, Right, Followed
  <2> QED
    BY <1>1, <1>2, <2>1, OrderStays
<1>9. Shown'
  BY <1>1, <1>2, <1>5 DEF Shown
<1>10. Watch'
  <2>1. pos' = -1 => buf' = <<>> /\ active'.from < 1
    BY <1>1, <1>2 DEF Watch
  <2>2. ASSUME NEW i \in 1..Len(gui_log'), Unread(i)', gui_log'[i] # LineEnd
        PROVE  /\ Newer(gui_log[i].n, active, pending)'
               /\ buf' # <<>> => buf'[1].n < gui_log'[i].n
    <3>1. i \in 1..Len(gui_log)
      BY <1>3, <1>4, <2>2
    <3>2. Unread(i)
      BY <1>1, <1>2, <1>3, <1>4, <2>2 DEF Unread, ScoringTypes
    <3>3. Newer(gui_log[i].n, active, pending) /\ (buf # <<>> => buf[1].n < gui_log[i].n)
      BY <1>1, <1>4, <2>2, <3>1, <3>2 DEF Watch
    <3> QED
      BY <1>2, <1>4, <3>1, <3>3 DEF Newer
  <2>3. ASSUME buf' # <<>>
        PROVE  /\ Len(buf') = 1 /\ buf'[1] # LineEnd /\ buf'[1].n <= Len(lines')
               /\ Newer(buf[1].n, active, pending)'
               /\ \E k \in Nat : pos' = 2 * k + 1
               /\ buf'[1].n > rotated' => pos' <= Len(gui_log') /\ buf'[1] = gui_log'[pos']
    <3>1. /\ Len(buf) = 1 /\ buf[1] # LineEnd /\ buf[1].n <= Len(lines)
          /\ Newer(buf[1].n, active, pending)
          /\ \E k \in Nat : pos = 2 * k + 1
          /\ buf[1].n > rotated => pos <= Len(gui_log) /\ buf[1] = gui_log[pos]
      BY <1>1, <1>2, <2>3 DEF Watch
    <3>2. Newer(buf[1].n, active, pending)'
      BY <1>2, <3>1 DEF Newer
    <3>3. ASSUME buf[1].n > rotated
          PROVE  pos' <= Len(gui_log') /\ buf'[1] = gui_log'[pos']
      <4>1. pos \in 1..Len(gui_log) /\ buf[1] = gui_log[pos]
        BY <1>3, <3>1, <3>3
      <4> QED
        BY <1>2, <1>3, <1>4, <4>1
    <3> QED
      BY <1>2, <3>1, <3>2, <3>3
  <2>4. ASSUME active'.from > rotated'
        PROVE  pos' <= Len(gui_log') /\ \E k \in Nat :
                   /\ (pos' = 2 * k /\ buf' = <<>>) \/ (pos' = 2 * k + 1 /\ buf' # <<>>)
                   /\ Followed(active, rotated + k)'
    <3>1. PICK k \in Nat : /\ (pos = 2 * k /\ buf = <<>>) \/ (pos = 2 * k + 1 /\ buf # <<>>)
                           /\ Followed(active, rotated + k)
      BY <1>1, <1>2, <2>4 DEF Watch
    <3>2. pos <= Len(gui_log) /\ pos \in Int
      BY <1>1, <1>2, <2>4 DEF Watch, ScoringTypes
    <3>3. Followed(active, rotated + k)'
      BY <1>2, <3>1 DEF Followed
    <3>4. pos' <= Len(gui_log')
      BY <1>2, <1>3, <1>4, <3>2
    <3> QED
      BY <1>2, <3>1, <3>3, <3>4
  <2> QED
    BY <2>1, <2>2, <2>3, <2>4 DEF Watch
<1> QED
  BY <1>6, <1>7, <1>8, <1>9, <1>10 DEF ScoringInv

\* A rotation costs the attempts of before.
LEMMA RotateInv ==
    ASSUME ScoringInv, Rotate
    PROVE  ScoringInv'
<1>1. /\ ScoringTypes /\ LogShape /\ Filed(Load(session)) /\ Queued(active, pending)
      /\ Watch /\ Shown
  BY DEF ScoringInv
<1>2. /\ gui_log' = <<>> /\ rotated' = Len(lines)
      /\ UNCHANGED <<lines, session, tool, pos, buf, active, pending, trials>>
  BY DEF Rotate, memory, watcherVars, trackerVars
<1>3. /\ Len(lines) \in Nat /\ rotated \in Nat /\ rotated <= Len(lines)
      /\ Len(gui_log') = 0 /\ gui_log' \in Seq(Bytes)
  BY <1>1, <1>2, TrialNumbers
<1>4. Load(session') = Load(session)
  BY <1>2, Zenon
<1>5. ScoringTypes'
  BY <1>1, <1>2, <1>3, <1>4 DEF ScoringTypes
<1>6. LogShape'
  <2>1. Len(lines') - rotated' = 0 /\ 1..0 = {}
    BY <1>2, <1>3
  <2> QED
    BY <1>3, <2>1 DEF LogShape
<1>7. Filed(Load(session))' /\ Queued(active, pending)'
  <2>1. ASSUME NEW a \in Attempts, Written(a)
        PROVE  Written(a)' /\ (Right(a) => Right(a)')
    <3>1. a.from \in Int /\ a.from <= Len(lines)
      BY <2>1, AttemptNumbers DEF Written
    <3>2. ~(a.from > rotated')
      BY <1>2, <1>3, <3>1
    <3> QED
      BY <1>2, <3>1, <3>2 DEF Written, Right
  <2> QED
    BY <1>1, <1>2, <2>1, OrderStays
<1>8. Shown'
  BY <1>1, <1>2, <1>4 DEF Shown
<1>9. Watch'
  <2>1. pos' = -1 => buf' = <<>> /\ active'.from < 1
    BY <1>1, <1>2 DEF Watch
  <2>2. 1..Len(gui_log') = {}
    BY <1>3
  <2>3. ASSUME buf' # <<>>
        PROVE  /\ Len(buf') = 1 /\ buf'[1] # LineEnd /\ buf'[1].n <= Len(lines')
               /\ Newer(buf[1].n, active, pending)'
               /\ \E k \in Nat : pos' = 2 * k + 1
               /\ buf'[1].n > rotated' => pos' <= Len(gui_log') /\ buf'[1] = gui_log'[pos']
    <3>1. /\ Len(buf) = 1 /\ buf[1] # LineEnd /\ buf[1].n <= Len(lines)
          /\ Newer(buf[1].n, active, pending)
          /\ \E k \in Nat : pos = 2 * k + 1
      BY <1>1, <1>2, <2>3 DEF Watch
    <3>2. Newer(buf[1].n, active, pending)'
      BY <1>2, <3>1 DEF Newer
    <3>3. ~(buf[1].n > rotated')
      <4>1. Len(buf) = 1 /\ buf \in Seq(Bytes)
        BY <1>1, <3>1 DEF ScoringTypes
      <4>2. buf[1] \in Bytes
        BY <4>1
      <4>3. buf[1].n \in Nat
        BY <3>1, <4>2, ByteCases
      <4> QED
        BY <1>2, <1>3, <3>1, <4>3
    <3> QED
      BY <1>2, <3>1, <3>2, <3>3
  <2>4. ~(active'.from > rotated')
    <3>1. active.from \in Int /\ active.from <= Len(lines)
      BY <1>1, AttemptNumbers DEF Queued, Written, ScoringTypes
    <3> QED
      BY <1>2, <1>3, <3>1
  <2> QED
    BY <2>1, <2>2, <2>3, <2>4 DEF Watch
<1> QED
  BY <1>5, <1>6, <1>7, <1>8, <1>9 DEF ScoringInv

-----------------------------------------------------------------------------
(* The keys.                                                                 *)

LEMMA OneByte ==
    ASSUME NEW b \in Seq(Bytes), Len(b) = 1
    PROVE  b[1] \in Bytes
  OBVIOUS

\* What a key has to keep.
LEMMA KeyInv ==
    ASSUME ScoringInv, tool' = "poll", UNCHANGED <<gui_log, lines, rotated, pos, buf>>,
           session' \in Seq(Records), trials' = Load(session'), trials' \in Seq(Trials),
           active' \in Attempts, active'.till = 0, pending' \in Seq(Attempts),
           Filed(trials)', Queued(active, pending)',
           \A n \in Nat : n > 0 /\ Newer(n, active, pending) => Newer(n, active, pending)',
           \/ active'.from < 1
           \/ /\ active'.from = active.from
              /\ \A last \in Int : Followed(active, last) => Followed(active, last)'
    PROVE  ScoringInv'
<1>1. /\ ScoringTypes /\ LogShape /\ Filed(Load(session)) /\ Queued(active, pending)
      /\ Watch /\ Shown
  BY DEF ScoringInv
<1>2. ScoringTypes'
  BY <1>1 DEF ScoringTypes
<1>3. LogShape'
  BY <1>1 DEF LogShape
<1>4. Filed(Load(session))'
  BY DEF Filed
<1>5. Shown'
  BY DEF Shown
<1>6. /\ Len(gui_log) \in Nat /\ gui_log \in Seq(Bytes) /\ rotated \in Nat
      /\ buf \in Seq(Bytes) /\ active'.from \in Int /\ active.from \in Int
  BY <1>1, AttemptNumbers, TrialNumbers DEF ScoringTypes
<1>7. Watch'
  <2>1. pos' = -1 => buf' = <<>> /\ active'.from < 1
    BY <1>1 DEF Watch
  <2>2. ASSUME NEW i \in 1..Len(gui_log'), Unread(i)', gui_log'[i] # LineEnd
        PROVE  /\ Newer(gui_log[i].n, active, pending)'
               /\ buf' # <<>> => buf'[1].n < gui_log'[i].n
    <3>1. PICK byte \in Bytes : byte = gui_log[i] /\ byte # LineEnd
      BY <1>6, <2>2
    <3>2. byte.n \in Nat /\ byte.n > 0
      BY <3>1, ByteCases
    <3>3. Newer(byte.n, active, pending) /\ (buf # <<>> => buf[1].n < byte.n)
      BY <1>1, <2>2, <3>1 DEF Watch, Unread
    <3>4. Newer(byte.n, active, pending)'
      BY <3>2, <3>3
    <3> QED
      BY <3>1, <3>3, <3>4 DEF Newer
  <2>3. ASSUME buf' # <<>>
        PROVE  /\ Len(buf') = 1 /\ buf'[1] # LineEnd /\ buf'[1].n <= Len(lines')
               /\ Newer(buf[1].n, active, pending)'
               /\ \E k \in Nat : pos' = 2 * k + 1
               /\ buf'[1].n > rotated' => pos' <= Len(gui_log') /\ buf'[1] = gui_log'[pos']
    <3>1. /\ Len(buf) = 1 /\ buf[1] # LineEnd /\ buf[1].n <= Len(lines)
          /\ Newer(buf[1].n, active, pending)
          /\ \E k \in Nat : pos = 2 * k + 1
          /\ buf[1].n > rotated => pos <= Len(gui_log) /\ buf[1] = gui_log[pos]
      BY <1>1, <2>3 DEF Watch
    <3>2. PICK byte \in Bytes : byte = buf[1] /\ byte # LineEnd
      <4>1. Len(buf) = 1 /\ buf \in Seq(Bytes)
        BY <1>6, <3>1
      <4>2. buf[1] \in Bytes
        BY <4>1, OneByte
      <4> QED
        BY <3>1, <4>2
    <3>3. byte.n \in Nat /\ byte.n > 0
      BY <3>2, ByteCases
    <3>4. Newer(byte.n, active, pending)'
      BY <3>1, <3>2, <3>3
    <3>5. Newer(buf[1].n, active, pending)'
      BY <3>2, <3>4 DEF Newer
    <3> QED
      BY <3>1, <3>5
  <2>4. ASSUME active'.from > rotated'
        PROVE  pos' <= Len(gui_log') /\ \E k \in Nat :
                   /\ (pos' = 2 * k /\ buf' = <<>>) \/ (pos' = 2 * k + 1 /\ buf' # <<>>)
                   /\ Followed(active, rotated + k)'
    <3>1. /\ active.from > rotated
          /\ \A last \in Int : Followed(active, last) => Followed(active, last)'
      BY <1>6, <2>4
    <3>2. PICK k \in Nat : /\ (pos = 2 * k /\ buf = <<>>) \/ (pos = 2 * k + 1 /\ buf # <<>>)
                           /\ Followed(active, rotated + k)
      BY <1>1, <3>1 DEF Watch
    <3>3. pos <= Len(gui_log)
      BY <1>1, <3>1 DEF Watch
    <3>4. PICK last \in Int : last = rotated + k
      BY <1>6
    <3>5. Followed(active, last)'
      BY <3>1, <3>2, <3>4
    <3>6. Followed(active, rotated + k)'
      BY <3>4, <3>5 DEF Followed
    <3> QED
      BY <3>2, <3>3, <3>6
  <2> QED
    BY <2>1, <2>2, <2>3, <2>4 DEF Watch
<1> QED
  BY <1>2, <1>3, <1>4, <1>5, <1>7 DEF ScoringInv

\* When the attempts stay and no trial is new, nothing of their order is lost.
LEMMA NoNewTrial ==
    ASSUME ScoringTypes, Filed(trials), Queued(active, pending),
           UNCHANGED <<lines, rotated, active, pending>>, trials' \in Seq(Trials),
           \A i \in 1..Len(trials') : i \in 1..Len(trials) /\ trials'[i].of = trials[i].of
    PROVE  /\ Filed(trials)' /\ Queued(active, pending)'
           /\ \A n \in Nat : Newer(n, active, pending) => Newer(n, active, pending)'
<1>1. Filed(trials)'
  <2>1. PICK list : list = trials'
    OBVIOUS
  <2>2. \A i, j \in 1..Len(list) : i < j => Before(list[i].of, list[j].of)
    BY <2>1 DEF Filed
  <2>3. \A i \in 1..Len(list) : Written(list[i].of) /\ Right(list[i].of)
    BY <2>1 DEF Filed
  <2>4. Filed(list)
    BY <2>2, <2>3 DEF Filed
  <2> QED
    BY <2>1, <2>4 DEF Filed, Before, Written, Right, Followed
<1>2. Queued(active, pending)'
  BY DEF Queued, Before, Written, Right, Followed
<1>3. \A n \in Nat : Newer(n, active, pending) => Newer(n, active, pending)'
  BY DEF Newer
<1> QED
  BY <1>1, <1>2, <1>3

LEMMA SpaceInv ==
    ASSUME ScoringInv, tool # "down", tool' = "poll",
           UNCHANGED <<gui_log, lines, rotated, pos, buf>>, Space
    PROVE  ScoringInv'
<1>1. /\ ScoringTypes /\ LogShape /\ Filed(Load(session)) /\ Queued(active, pending)
      /\ Watch /\ Shown /\ trials = Load(session)
  BY DEF ScoringInv, Shown
<1>2. UNCHANGED <<pending, trials, session>> /\ active' = Attempt(0)
  BY DEF Space
<1>3. active' \in Attempts /\ active'.till = 0 /\ active'.from = 0
  BY <1>2, NewAttempt
<1>4. Load(session') = Load(session) /\ Len(lines) \in Nat
  BY <1>1, <1>2, Zenon, TrialNumbers
<1>5. Filed(trials)'
  BY <1>1, <1>2 DEF Filed, Before, Written, Right, Followed
<1>6. Queued(active, pending)'
  BY <1>1, <1>2, <1>3, <1>4 DEF Queued, Before, Written, Right, Followed
<1>7. \A n \in Nat : n > 0 /\ Newer(n, active, pending) => Newer(n, active, pending)'
  BY <1>2, <1>3 DEF Newer
<1>8. /\ session' \in Seq(Records) /\ trials' = Load(session') /\ trials' \in Seq(Trials)
      /\ pending' \in Seq(Attempts) /\ active'.from < 1
  BY <1>1, <1>2, <1>3, <1>4 DEF ScoringTypes
<1> QED
  BY <1>3, <1>5, <1>6, <1>7, <1>8, KeyInv

LEMMA HandMiss ==
    ASSUME NEW a \in Attempts
    PROVE  \E after \in Attempts :
               /\ Missed([active |-> a], 1).active = after
               /\ after.from = a.from /\ after.till = a.till
               /\ \/ after = a
                  \/ after.misses = a.misses + 1 /\ after.by_hand = a.by_hand + 1
<1> DEFINE more == [from |-> a.from, till |-> a.till, misses |-> a.misses + 1,
                    by_hand |-> a.by_hand + 1]
<1>1. CASE a = NoAttempt
  BY <1>1 DEF Missed
<1>2. CASE a # NoAttempt
  <2>1. Missed([active |-> a], 1).active = more
    BY <1>2 DEF Missed, Attempts
  <2>2. more \in Attempts
    BY DEF Attempts
  <2> QED
    BY <2>1, <2>2
<1> QED
  BY <1>1, <1>2

LEMMA MissInv ==
    ASSUME ScoringInv, tool # "down", tool' = "poll",
           UNCHANGED <<gui_log, lines, rotated, pos, buf>>, Miss
    PROVE  ScoringInv'
<1>1. /\ ScoringTypes /\ LogShape /\ Filed(Load(session)) /\ Queued(active, pending)
      /\ Watch /\ Shown /\ trials = Load(session)
  BY DEF ScoringInv, Shown
<1>2. UNCHANGED <<pending, trials, session>> /\ active' = Missed([active |-> active], 1).active
  BY DEF Miss
<1>3. active \in Attempts /\ active.till = 0
  BY <1>1 DEF ScoringTypes
<1>4. PICK after \in Attempts :
          /\ active' = after /\ after.from = active.from /\ after.till = active.till
          /\ \/ after = active
             \/ after.misses = active.misses + 1 /\ after.by_hand = active.by_hand + 1
  BY <1>2, <1>3, HandMiss
<1>5. Load(session') = Load(session)
  BY <1>2, Zenon
<1>6. Filed(trials)'
  BY <1>1, <1>2 DEF Filed, Before, Written, Right, Followed
<1>7. Queued(active, pending)'
  BY <1>1, <1>2, <1>4 DEF Queued, Before, Written, Right, Followed
<1>8. \A n \in Nat : n > 0 /\ Newer(n, active, pending) => Newer(n, active, pending)'
  BY <1>2, <1>4 DEF Newer
<1>9. ASSUME NEW last \in Int, Followed(active, last) PROVE Followed(active, last)'
  <2>1. PICK f \in Int, m \in Int, h \in Int, m2 \in Int, h2 \in Int :
            /\ f = active.from /\ m = active.misses /\ h = active.by_hand
            /\ m2 = after.misses /\ h2 = after.by_hand
    BY <1>3, AttemptNumbers
  <2>2. m = (last - f) + h
    BY <1>9, <2>1 DEF Followed
  <2>3. (m2 = m /\ h2 = h) \/ (m2 = m + 1 /\ h2 = h + 1)
    BY <1>4, <2>1
  <2>4. m2 = (last - f) + h2
    BY <2>2, <2>3
  <2>5. after.misses = (last - after.from) + after.by_hand
    BY <1>4, <2>1, <2>4
  <2>6. after.from <= last /\ last <= Len(lines)
        /\ \A n \in (after.from + 1)..last : lines[n] = "retreat"
    BY <1>4, <1>9 DEF Followed
  <2> QED
    BY <1>4, <2>5, <2>6 DEF Followed
<1>10. /\ session' \in Seq(Records) /\ trials' = Load(session') /\ trials' \in Seq(Trials)
       /\ pending' \in Seq(Attempts) /\ active'.from = active.from
       /\ active' \in Attempts /\ active'.till = 0
  BY <1>1, <1>2, <1>3, <1>4, <1>5 DEF ScoringTypes
<1> QED
  BY <1>6, <1>7, <1>8, <1>9, <1>10, KeyInv

\* What the next start reads, with a record more.
LEMMA LoadMore ==
    ASSUME ScoringTypes, trials = Load(session), NEW r \in Records, session' = Append(session, r)
    PROVE  /\ session' \in Seq(Records)
           /\ r.op = "undo" => Load(session') = Undone(trials)
           /\ r.op = "note" => Load(session') = Noted(trials)
           /\ r.op = "trial" => Load(session') = Append(trials, r)
<1>1. session \in Seq(Records)
  BY DEF ScoringTypes
<1>2. session' \in Seq(Records)
  BY <1>1
<1>3. Load(session') = Replay(trials, r)
  BY <1>1, LoadAppend
<1>4. r.op = "undo" => Replay(trials, r) = Undone(trials)
  BY DEF Replay
<1>5. r.op = "note" => Replay(trials, r) = Noted(trials)
  BY DEF Replay
<1>6. r.op = "trial" => Replay(trials, r) = Append(trials, r)
  BY DEF Replay
<1> QED
  BY <1>2, <1>3, <1>4, <1>5, <1>6, Zenon

LEMMA TombstoneIs ==
    /\ Tombstone("undo") \in Records /\ Tombstone("undo").op = "undo"
    /\ Tombstone("note") \in Records /\ Tombstone("note").op = "note"
  BY DEF Tombstone, Records

\* The last trial is undone, or has a note.
LEMMA FewerTrials ==
    ASSUME NEW list \in Seq(Trials), list # <<>>
    PROVE  /\ Undone(list) \in Seq(Trials) /\ Noted(list) \in Seq(Trials)
           /\ \A i \in 1..Len(Undone(list)) :
                  i \in 1..Len(list) /\ Undone(list)[i].of = list[i].of
           /\ \A i \in 1..Len(Noted(list)) :
                  i \in 1..Len(list) /\ Noted(list)[i].of = list[i].of
<1>1. PICK n \in Nat : n = Len(list) /\ n > 0 /\ n \in 1..Len(list)
  OBVIOUS
<1>2. \A i \in 1..n : list[i] \in Trials
  BY <1>1
<1>3. Undone(list) = SubSeq(list, 1, n - 1)
  BY <1>1 DEF Undone, Front
<1>4. /\ SubSeq(list, 1, n - 1) \in Seq(Trials) /\ Len(SubSeq(list, 1, n - 1)) = n - 1
      /\ \A i \in 1..(n - 1) : SubSeq(list, 1, n - 1)[i] = list[i]
  BY <1>1
<1>5. /\ Undone(list) \in Seq(Trials)
      /\ \A i \in 1..Len(Undone(list)) : i \in 1..Len(list) /\ Undone(list)[i].of = list[i].of
  BY <1>1, <1>3, <1>4
<1>6. PICK last \in Trials : last = [list[n] EXCEPT !.note = TRUE] /\ last.of = list[n].of
  <2>1. PICK r \in Trials : r = list[n]
    BY <1>1, <1>2
  <2>2. [r EXCEPT !.note = TRUE] \in Trials /\ [r EXCEPT !.note = TRUE].of = r.of
    BY DEF Trials
  <2> QED
    BY <2>1, <2>2
<1>7. Noted(list) = [list EXCEPT ![n] = last]
  BY <1>1, <1>6 DEF Noted
<1>8. /\ [list EXCEPT ![n] = last] \in Seq(Trials) /\ Len([list EXCEPT ![n] = last]) = n
      /\ \A i \in 1..n : [list EXCEPT ![n] = last][i] = IF i = n THEN last ELSE list[i]
  BY <1>1
<1>9. /\ Noted(list) \in Seq(Trials)
      /\ \A i \in 1..Len(Noted(list)) : i \in 1..Len(list) /\ Noted(list)[i].of = list[i].of
  BY <1>1, <1>6, <1>7, <1>8
<1> QED
  BY <1>5, <1>9

LEMMA FewerInv ==
    ASSUME ScoringInv, tool # "down", tool' = "poll",
           UNCHANGED <<gui_log, lines, rotated, pos, buf, active, pending>>,
           session' \in Seq(Records), trials' = Load(session'), trials' \in Seq(Trials),
           \A i \in 1..Len(trials') : i \in 1..Len(trials) /\ trials'[i].of = trials[i].of
    PROVE  ScoringInv'
<1>1. /\ ScoringTypes /\ Filed(trials) /\ Queued(active, pending)
  BY DEF ScoringInv, Shown
<1>2. /\ Filed(trials)' /\ Queued(active, pending)'
      /\ \A n \in Nat : Newer(n, active, pending) => Newer(n, active, pending)'
  BY <1>1, NoNewTrial
<1>3. \A last \in Int : Followed(active, last) => Followed(active, last)'
  BY DEF Followed
<1>4. active' \in Attempts /\ active'.till = 0 /\ pending' \in Seq(Attempts)
      /\ active'.from = active.from
  BY <1>1 DEF ScoringTypes
<1> QED
  BY <1>2, <1>3, <1>4, KeyInv

LEMMA UndoInv ==
    ASSUME ScoringInv, tool # "down", tool' = "poll",
           UNCHANGED <<gui_log, lines, rotated, pos, buf>>, Undo
    PROVE  ScoringInv'
<1>1. ScoringTypes /\ trials = Load(session) /\ trials \in Seq(Trials)
  BY DEF ScoringInv, Shown, ScoringTypes
<1>2. UNCHANGED <<active, pending>> /\ trials' = Undone(trials)
  BY DEF Undo, trackerVars
<1>3. CASE trials = <<>>
  <2>1. UNCHANGED session /\ trials' = trials
    BY <1>2, <1>3 DEF Undo, Undone
  <2>2. Load(session') = Load(session)
    BY <2>1, Zenon
  <2>3. session' \in Seq(Records) /\ trials' = Load(session') /\ trials' \in Seq(Trials)
    BY <1>1, <2>1, <2>2 DEF ScoringTypes
  <2>4. \A i \in 1..Len(trials') : i \in 1..Len(trials) /\ trials'[i].of = trials[i].of
    BY <2>1
  <2> QED
    BY <1>2, <2>3, <2>4, FewerInv
<1>4. CASE trials # <<>>
  <2>1. session' = Append(session, Tombstone("undo"))
    BY <1>4 DEF Undo, Record
  <2>2. session' \in Seq(Records) /\ Load(session') = Undone(trials)
    BY <1>1, <2>1, TombstoneIs, LoadMore
  <2>3. /\ Undone(trials) \in Seq(Trials)
        /\ \A i \in 1..Len(Undone(trials)) :
               i \in 1..Len(trials) /\ Undone(trials)[i].of = trials[i].of
    BY <1>1, <1>4, FewerTrials
  <2>4. /\ trials' \in Seq(Trials) /\ trials' = Load(session')
        /\ \A i \in 1..Len(trials') : i \in 1..Len(trials) /\ trials'[i].of = trials[i].of
    BY <1>2, <2>2, <2>3
  <2> QED
    BY <1>2, <2>2, <2>4, FewerInv
<1> QED
  BY <1>3, <1>4

LEMMA NoteInv ==
    ASSUME ScoringInv, tool # "down", tool' = "poll",
           UNCHANGED <<gui_log, lines, rotated, pos, buf>>, Note
    PROVE  ScoringInv'
<1>1. ScoringTypes /\ trials = Load(session) /\ trials \in Seq(Trials)
  BY DEF ScoringInv, Shown, ScoringTypes
<1>2. UNCHANGED <<active, pending>>
  BY DEF Note, trackerVars
<1>3. CASE UNCHANGED <<trials, session>>
  <2>1. Load(session') = Load(session)
    BY <1>3, Zenon
  <2>2. session' \in Seq(Records) /\ trials' = Load(session') /\ trials' \in Seq(Trials)
    BY <1>1, <1>3, <2>1 DEF ScoringTypes
  <2>3. \A i \in 1..Len(trials') : i \in 1..Len(trials) /\ trials'[i].of = trials[i].of
    BY <1>3
  <2> QED
    BY <1>2, <2>2, <2>3, FewerInv
<1>4. CASE /\ trials # <<>> /\ trials' = Noted(trials)
           /\ session' = Append(session, Tombstone("note"))
  <2>1. session' \in Seq(Records) /\ Load(session') = Noted(trials)
    BY <1>1, <1>4, TombstoneIs, LoadMore
  <2>2. /\ Noted(trials) \in Seq(Trials)
        /\ \A i \in 1..Len(Noted(trials)) :
               i \in 1..Len(trials) /\ Noted(trials)[i].of = trials[i].of
    BY <1>1, <1>4, FewerTrials
  <2>3. /\ trials' \in Seq(Trials) /\ trials' = Load(session')
        /\ \A i \in 1..Len(trials') : i \in 1..Len(trials) /\ trials'[i].of = trials[i].of
    BY <1>4, <2>1, <2>2
  <2> QED
    BY <1>2, <2>1, <2>3, FewerInv
<1> QED
  BY <1>3, <1>4 DEF Note, Record

\* A trial more, of an attempt that is newer than those scored before.
LEMMA OneMoreTrial ==
    ASSUME NEW list \in Seq(Trials), Filed(list), NEW r \in Trials,
           \A i \in 1..Len(list) : Before(list[i].of, r.of), Written(r.of), Right(r.of)
    PROVE  /\ Append(list, r) \in Seq(Trials) /\ Filed(Append(list, r))
           /\ Len(Append(list, r)) = Len(list) + 1 /\ Append(list, r)[Len(list) + 1] = r
           /\ \A i \in 1..Len(list) : Append(list, r)[i] = list[i]
           /\ Last(Append(list, r)) = r
<1> DEFINE more == Append(list, r)
<1>1. /\ more \in Seq(Trials) /\ Len(list) \in Nat
      /\ Len(more) = Len(list) + 1 /\ more[Len(list) + 1] = r
      /\ \A i \in 1..Len(list) : more[i] = list[i]
  OBVIOUS
<1>2. Last(more) = r
  BY <1>1 DEF Last
<1> HIDE DEF more
<1>3. \A i \in 1..Len(more) : i \in 1..Len(list) \/ i = Len(list) + 1
  BY <1>1
<1>4. \A i, j \in 1..Len(more) : i < j => Before(more[i].of, more[j].of)
  <2>1. SUFFICES ASSUME NEW i \in 1..Len(more), NEW j \in 1..Len(more), i < j
                 PROVE  Before(more[i].of, more[j].of)
    OBVIOUS
  <2>2. i \in 1..Len(list)
    BY <1>1, <2>1
  <2>3. CASE j \in 1..Len(list)
    BY <1>1, <2>1, <2>2, <2>3 DEF Filed
  <2>4. CASE j = Len(list) + 1
    BY <1>1, <2>2, <2>4
  <2> QED
    BY <1>3, <2>3, <2>4
<1>5. \A i \in 1..Len(more) : Written(more[i].of) /\ Right(more[i].of)
  <2>1. ASSUME NEW i \in 1..Len(more) PROVE Written(more[i].of) /\ Right(more[i].of)
    <3>1. CASE i \in 1..Len(list)
      BY <1>1, <3>1 DEF Filed
    <3>2. CASE i = Len(list) + 1
      BY <1>1, <3>2
    <3> QED
      BY <1>3, <3>1, <3>2
  <2> QED
    BY <2>1
<1>6. Filed(more)
  BY <1>4, <1>5 DEF Filed
<1> QED
  BY <1>1, <1>2, <1>6 DEF more

LEMMA TrialIs ==
    ASSUME NEW a \in Attempts, NEW digit \in Digits
    PROVE  /\ Trial(a, digit) \in Trials /\ Trial(a, digit) \in Records
           /\ Trial(a, digit).of = a /\ Trial(a, digit).op = "trial"
  BY DEF Trial, Trials, Records

LEMMA DigitInv ==
    ASSUME ScoringInv, tool # "down", tool' = "poll",
           UNCHANGED <<gui_log, lines, rotated, pos, buf>>, NEW digit \in Digits, Digit(digit)
    PROVE  ScoringInv'
<1>1. /\ ScoringTypes /\ trials = Load(session) /\ trials \in Seq(Trials) /\ Filed(trials)
      /\ Queued(active, pending) /\ active \in Attempts /\ active.till = 0
      /\ pending \in Seq(Attempts)
  BY DEF ScoringInv, Shown, ScoringTypes
<1>2. ASSUME NEW a \in Attempts, trials' = Append(trials, Trial(a, digit)),
             \A i \in 1..Len(trials) : Before(trials[i].of, a), Written(a), Right(a)
      PROVE  /\ session' \in Seq(Records) /\ trials' = Load(session')
             /\ trials' \in Seq(Trials) /\ Filed(trials)'
             /\ Len(trials') = Len(trials) + 1 /\ Len(trials) \in Nat
             /\ trials'[Len(trials) + 1].of = a
             /\ \A i \in 1..Len(trials) : trials'[i] = trials[i]
  <2>1. PICK r \in Trials : r = Trial(a, digit) /\ r \in Records /\ r.of = a /\ r.op = "trial"
    BY TrialIs
  <2>2. /\ Append(trials, r) \in Seq(Trials) /\ Filed(Append(trials, r))
        /\ Len(Append(trials, r)) = Len(trials) + 1 /\ Append(trials, r)[Len(trials) + 1] = r
        /\ \A i \in 1..Len(trials) : Append(trials, r)[i] = trials[i]
        /\ Last(Append(trials, r)) = r
    BY <1>1, <1>2, <2>1, OneMoreTrial
  <2>3. session' = Append(session, r)
    BY <1>2, <2>1, <2>2 DEF Digit, Record
  <2>4. session' \in Seq(Records) /\ Load(session') = Append(trials, r)
    BY <1>1, <2>1, <2>3, LoadMore
  <2>5. PICK list \in Seq(Trials) : list = Append(trials, r) /\ list = trials'
    BY <1>2, <2>1, <2>2
  <2>6. Filed(list)
    BY <2>2, <2>5
  <2>7. Filed(trials)'
    BY <2>5, <2>6 DEF Filed, Before, Written, Right, Followed
  <2>8. Len(trials) \in Nat
    BY <1>1
  <2> QED
    BY <2>1, <2>2, <2>4, <2>5, <2>7, <2>8
\* The attempt that waited longest.
<1>3. CASE pending # <<>>
  <2>1. /\ trials' = Append(trials, Trial(Head(pending), digit)) /\ pending' = Tail(pending)
        /\ active' = active
    BY <1>3 DEF Digit, Score
  <2>2. PICK a \in Attempts : a = Head(pending) /\ a = pending[1] /\ 1 \in 1..Len(pending)
    BY <1>1, <1>3
  <2>3. /\ pending' \in Seq(Attempts) /\ Len(pending') = Len(pending) - 1 /\ Len(pending) \in Nat
        /\ \A j \in 1..Len(pending') : /\ pending'[j] = pending[j + 1]
                                       /\ j + 1 \in 1..Len(pending) /\ 1 < j + 1
    BY <1>1, <1>3, <2>1
  <2>4. /\ \A i \in 1..Len(trials) : Before(trials[i].of, a)
        /\ Written(a) /\ Right(a) /\ Before(a, active)
        /\ \A j \in 1..Len(pending') : Before(a, pending'[j])
    BY <1>1, <2>2, <2>3 DEF Queued
  <2>5. /\ session' \in Seq(Records) /\ trials' = Load(session')
        /\ trials' \in Seq(Trials) /\ Filed(trials)'
        /\ Len(trials') = Len(trials) + 1 /\ Len(trials) \in Nat
        /\ trials'[Len(trials) + 1].of = a
        /\ \A i \in 1..Len(trials) : trials'[i] = trials[i]
    BY <1>2, <2>1, <2>2, <2>4
  <2>6. \A i \in 1..Len(trials') : i \in 1..Len(trials) \/ i = Len(trials) + 1
    BY <2>5
  <2>7. /\ \A i \in 1..Len(trials') : /\ Before(trials'[i].of, active)
                                      /\ \A j \in 1..Len(pending') :
                                             Before(trials'[i].of, pending'[j])
    <3>1. ASSUME NEW i \in 1..Len(trials)
          PROVE  /\ Before(trials'[i].of, active)
                 /\ \A j \in 1..Len(pending') : Before(trials'[i].of, pending'[j])
      <4>1. trials'[i].of = trials[i].of
        BY <2>5
      <4>2. /\ Before(trials[i].of, active)
            /\ \A j \in 1..Len(pending) : Before(trials[i].of, pending[j])
        BY <1>1 DEF Queued
      <4>3. \A j \in 1..Len(pending') : Before(trials[i].of, pending'[j])
        BY <2>3, <4>2
      <4> QED
        BY <4>1, <4>2, <4>3
    <3>2. ASSUME NEW i \in 1..Len(trials'), i = Len(trials) + 1
          PROVE  /\ Before(trials'[i].of, active)
                 /\ \A j \in 1..Len(pending') : Before(trials'[i].of, pending'[j])
      BY <2>4, <2>5, <3>2
    <3> QED
      BY <2>6, <3>1, <3>2
  <2>8. PICK q \in Seq(Attempts) : q = pending'
    BY <2>3
  <2>9. /\ Written(active) /\ \A i, j \in 1..Len(q) : i < j => Before(q[i], q[j])
        /\ \A j \in 1..Len(q) : Before(q[j], active) /\ Written(q[j]) /\ Right(q[j])
    <3>1. \A i, j \in 1..Len(q) : i < j => i + 1 < j + 1
      OBVIOUS
    <3>2. \A j \in 1..Len(q) : q[j] = pending[j + 1] /\ j + 1 \in 1..Len(pending)
      BY <2>3, <2>8
    <3>3. \A i, j \in 1..Len(q) : i < j => Before(q[i], q[j])
      BY <1>1, <3>1, <3>2 DEF Queued
    <3> QED
      BY <1>1, <3>2, <3>3 DEF Queued
  <2>10. Queued(active, pending)'
    BY <2>1, <2>7, <2>8, <2>9 DEF Queued, Before, Written, Right, Followed
  <2>11. ASSUME NEW n \in Nat, Newer(n, active, pending)
         PROVE  Newer(n, active, pending)'
    <3>1. active.from < n /\ a.from < n
      BY <2>2, <2>11 DEF Newer
    <3>2. \A j \in 1..Len(pending') : pending'[j].from < n
      BY <2>3, <2>11 DEF Newer
    <3>3. \A i \in 1..Len(trials') : trials'[i].of.from < n
      BY <2>5, <2>6, <2>11, <3>1 DEF Newer
    <3> QED
      BY <2>1, <3>1, <3>2, <3>3 DEF Newer
  <2>12. \A last \in Int : Followed(active, last) => Followed(active, last)'
    BY <2>1 DEF Followed
  <2> QED
    BY <1>1, <2>1, <2>3, <2>5, <2>10, <2>11, <2>12, KeyInv
\* The attempt in progress, or none.
<1>4. CASE pending = <<>>
  <2>1. /\ trials' = Append(trials, Trial(active, digit)) /\ pending' = <<>>
        /\ active' = NoAttempt
    BY <1>4 DEF Digit, Score
  <2>2. PICK a \in Attempts : a = active
    BY <1>1
  <2>3. /\ \A i \in 1..Len(trials) : Before(trials[i].of, a)
        /\ Written(a) /\ Right(a)
    BY <1>1, <2>2 DEF Queued, Right
  <2>4. /\ session' \in Seq(Records) /\ trials' = Load(session')
        /\ trials' \in Seq(Trials) /\ Filed(trials)'
        /\ Len(trials') = Len(trials) + 1 /\ Len(trials) \in Nat
        /\ trials'[Len(trials) + 1].of = a
        /\ \A i \in 1..Len(trials) : trials'[i] = trials[i]
    BY <1>2, <2>1, <2>2, <2>3
  <2>5. \A i \in 1..Len(trials') : i \in 1..Len(trials) \/ i = Len(trials) + 1
    BY <2>4
  <2>6. Len(pending') = 0 /\ 1..0 = {} /\ pending' \in Seq(Attempts)
    BY <1>1, <1>4, <2>1
  <2>7. active'.from = -1 /\ ~(active'.from > 0) /\ active' \in Attempts /\ active'.till = 0
        /\ active'.from < 1
    BY <2>1, NoneYet
  <2>8. active'.from <= Len(lines')
    BY <1>1, <2>7, TrialNumbers
  <2>9. Queued(active, pending)'
    BY <2>6, <2>7, <2>8 DEF Queued, Before, Written
  <2>10. ASSUME NEW n \in Nat, Newer(n, active, pending)
         PROVE  Newer(n, active, pending)'
    <3>1. a.from < n /\ active'.from < n
      BY <2>2, <2>7, <2>10 DEF Newer
    <3>2. \A i \in 1..Len(trials') : trials'[i].of.from < n
      BY <2>4, <2>5, <2>10, <3>1 DEF Newer
    <3> QED
      BY <2>6, <3>1, <3>2 DEF Newer
  <2> QED
    BY <2>4, <2>6, <2>7, <2>9, <2>10, KeyInv
<1> QED
  BY <1>3, <1>4

-----------------------------------------------------------------------------
(* Every step.                                                               *)

LEMMA ReadKeyInv ==
    ASSUME ScoringInv, ReadKey
    PROVE  ScoringInv'
<1>1. UNCHANGED <<gui_log, lines, rotated>> /\ tool = "key" /\ tool # "down"
  BY DEF ReadKey, logVars
<1>2. ASSUME NEW key, Handle(key) PROVE ScoringInv'
  <2>1. tool' = "poll" /\ UNCHANGED <<pos, buf>>
    BY <1>2 DEF Handle, watcherVars
  <2>2. Space \/ Miss \/ (\E digit \in Digits : Digit(digit)) \/ Undo \/ Note
    BY <1>2 DEF Handle
  <2> QED
    BY <1>1, <2>1, <2>2, SpaceInv, MissInv, DigitInv, UndoInv, NoteInv
<1>3. ASSUME Down, UNCHANGED session PROVE ScoringInv'
  BY <1>1, <1>3, FreshInv DEF Down
<1> QED
  BY <1>2, <1>3 DEF ReadKey

LEMMA ScoringStarts == ScoringInit => ScoringInv
<1> SUFFICES ASSUME ScoringInit PROVE ScoringInv
  OBVIOUS
<1>1. /\ gui_log = <<>> /\ lines = <<>> /\ rotated = 0 /\ session = <<>> /\ tool = "down"
      /\ pos = -1 /\ buf = <<>> /\ active = NoAttempt /\ pending = <<>> /\ trials = <<>>
  BY DEF ScoringInit
<1>2. Load(session) = <<>>
  BY <1>1, LoadEmpty
<1>3. /\ Len(<<>>) = 0 /\ 1..0 = {} /\ 0 - 0 = 0 /\ 2 * 0 = 0 /\ 0 \in 0..0
      /\ <<>> \in Seq(Bytes) /\ <<>> \in Seq(Kinds) /\ <<>> \in Seq(Records)
      /\ <<>> \in Seq(Attempts) /\ <<>> \in Seq(Trials)
  OBVIOUS
<1>4. ScoringTypes
  BY <1>1, <1>2, <1>3, NoneYet DEF ScoringTypes
<1>5. LogShape
  BY <1>1, <1>3 DEF LogShape
<1>6. Filed(Load(session))
  BY <1>2, <1>3 DEF Filed
<1>7. Queued(active, pending)
  BY <1>1, <1>3, NoneYet DEF Queued, Written
<1>8. Watch
  BY <1>1, <1>3, NoneYet DEF Watch
<1>9. Shown
  BY <1>1 DEF Shown
<1> QED
  BY <1>4, <1>5, <1>6, <1>7, <1>8, <1>9 DEF ScoringInv

LEMMA ScoringStep == ScoringInv /\ [ScoringNext]_scoringVars => ScoringInv'
<1> SUFFICES ASSUME ScoringInv, [ScoringNext]_scoringVars PROVE ScoringInv'
  OBVIOUS
<1>1. CASE Start
  BY <1>1, FreshInv DEF Start, logVars
<1>2. CASE Kill
  BY <1>2, FreshInv DEF Kill, Down, logVars
<1>3. CASE Poll
  BY <1>3, PollInv
<1>4. CASE NoKey
  BY <1>4, StillInv DEF NoKey, logVars, memory, watcherVars, trackerVars
<1>5. CASE ReadKey
  BY <1>5, ReadKeyInv
<1>6. ASSUME NEW key, Type(key) PROVE ScoringInv'
  <2>1. /\ UNCHANGED <<gui_log, lines, rotated, session, trials>>
        /\ UNCHANGED <<pos, buf, active, pending>> /\ tool # "down" /\ tool' = tool
    BY <1>6 DEF Type, logVars, memory, watcherVars, trackerVars
  <2>2. tool \in {"poll", "key", "down"}
    BY DEF ScoringInv, ScoringTypes
  <2> QED
    BY <2>1, <2>2, StillInv
<1>7. ASSUME NEW kind \in {"start", "retreat", "complete"}, WriteLine(kind) PROVE ScoringInv'
  BY <1>7, WriteLineInv DEF Kinds
<1>8. CASE WriteEnd
  BY <1>8, WriteEndInv
<1>9. CASE Rotate
  BY <1>9, RotateInv
<1>10. CASE UNCHANGED scoringVars
  <2>1. /\ UNCHANGED <<gui_log, lines, rotated, session, trials>>
        /\ UNCHANGED <<pos, buf, active, pending>> /\ tool' = tool
    BY <1>10 DEF scoringVars, logVars, memory, watcherVars, trackerVars
  <2>2. /\ ScoringTypes /\ LogShape /\ Filed(Load(session)) /\ Queued(active, pending)
        /\ Watch /\ Shown
    BY DEF ScoringInv
  <2>3. Load(session') = Load(session)
    BY <2>1, Zenon
  <2>4. ScoringTypes'
    BY <2>1, <2>2, SeenTypes DEF ScoringTypes
  <2>5. LogShape' /\ Filed(Load(session))'
    BY <2>1, <2>2, SeenFiles
  <2>6. Queued(active, pending)'
    BY <2>1, <2>2, SeenQueue
  <2>7. Watch'
    BY <2>1, <2>2 DEF Watch, Unread, Newer, Followed
  <2>8. Shown'
    BY <2>1, <2>2, <2>3 DEF Shown
  <2> QED
    BY <2>4, <2>5, <2>6, <2>7, <2>8 DEF ScoringInv
<1> QED
  BY <1>1, <1>2, <1>3, <1>4, <1>5, <1>6, <1>7, <1>8, <1>9, <1>10 DEF ScoringNext

\* In every state of the tool its log, the attempts and the trials fit together.
THEOREM ScoringInvariant == ScoringSpec => []ScoringInv
<1>1. ScoringInit => ScoringInv
  BY ScoringStarts
<1>2. ScoringInv /\ [ScoringNext]_scoringVars => ScoringInv'
  BY ScoringStep
<1> QED
  BY <1>1, <1>2, PTL DEF ScoringSpec

\* What the operator is shown is at every moment what the next start would read from the
\* session file: a kill between any two steps costs no scored trial, and revives none
\* that was undone.
THEOREM SessionResumes == ScoringSpec => []ResumeAgrees
<1>1. ScoringInv => ResumeAgrees
  BY DEF ScoringInv, Shown, ResumeAgrees
<1> QED
  BY <1>1, ScoringInvariant, PTL

\* The attempts of the log are scored in the order they were made, and none of them
\* twice, however the log is cut into polls, and whatever the operator types.
THEOREM OutcomesInOrder == ScoringSpec => []ScoredInOrder
<1>1. ScoringInv => ScoredInOrder
  <2>1. SUFFICES ASSUME ScoringInv PROVE ScoredInOrder
    OBVIOUS
  <2>2. CASE trials = Load(session)
    BY <2>1, <2>2 DEF ScoringInv, Filed, Before, ScoredInOrder
  <2>3. CASE trials = <<>>
    <3>1. 1..Len(trials) = {}
      BY <2>3
    <3> QED
      BY <3>1 DEF ScoredInOrder
  <2> QED
    BY <2>1, <2>2, <2>3 DEF ScoringInv, Shown
<1> QED
  BY <1>1, ScoringInvariant, PTL

\* An attempt that was followed from its first line to its last has the retries that
\* were logged in between, and those added by hand.
THEOREM AttemptsKeepTheirMisses == ScoringSpec => []MissesBelong
<1>1. ScoringInv => MissesBelong
  <2>1. SUFFICES ASSUME ScoringInv,
                        NEW a \in Range(pending) \cup {trial.of : trial \in Range(trials)},
                        a.from > rotated, a.till > 0
                 PROVE  /\ \A n \in (a.from + 1)..(a.till - 1) : lines[n] = "retreat"
                        /\ a.misses = LoggedRetries(a) + a.by_hand
    BY DEF MissesBelong
  <2>2. /\ ScoringTypes /\ Filed(Load(session)) /\ Queued(active, pending) /\ Shown
    BY <2>1 DEF ScoringInv
  <2>3. a \in Attempts /\ Right(a)
    <3>1. CASE a \in Range(pending)
      <4>1. PICK j \in 1..Len(pending) : a = pending[j]
        BY <2>2, <3>1 DEF Range, ScoringTypes
      <4> QED
        BY <2>2, <4>1 DEF Queued, ScoringTypes
    <3>2. CASE a \in {trial.of : trial \in Range(trials)}
      <4>1. PICK trial \in Range(trials) : a = trial.of
        BY <3>2
      <4>2. trials \in Seq(Trials)
        BY <2>2 DEF ScoringTypes
      <4>3. PICK i \in 1..Len(trials) : trial = trials[i]
        BY <4>1, <4>2 DEF Range
      <4>4. trials # <<>>
        BY <4>2, <4>3
      <4>5. trials = Load(session)
        BY <2>2, <4>4 DEF Shown, ScoringTypes
      <4>6. Right(trials[i].of)
        BY <2>2, <4>5 DEF Filed
      <4> QED
        BY <2>2, <4>1, <4>3, <4>6, TrialNumbers
    <3> QED
      BY <3>1, <3>2
  <2>4. PICK f \in Int, l \in Int : f = a.from /\ l = a.till - 1
    BY <2>3, AttemptNumbers
  <2>5. /\ f <= l /\ a.misses = (l - f) + a.by_hand
        /\ \A n \in (f + 1)..l : lines[n] = "retreat"
    BY <2>1, <2>3, <2>4 DEF Right, Followed
  <2>6. {n \in (f + 1)..l : lines[n] = "retreat"} = (f + 1)..l
    BY <2>5
  <2>7. Cardinality((f + 1)..l) = IF f + 1 > l THEN 0 ELSE l - (f + 1) + 1
    <3>1. f + 1 \in Int
      OBVIOUS
    <3> QED
      BY <3>1, FS_Interval
  <2>8. Cardinality((f + 1)..l) = l - f
    BY <2>5, <2>7
  <2>9. LoggedRetries(a) = l - f
    BY <2>4, <2>6, <2>8 DEF LoggedRetries
  <2> QED
    BY <2>4, <2>5, <2>9
<1> QED
  BY <1>1, ScoringInvariant, PTL
=============================================================================
