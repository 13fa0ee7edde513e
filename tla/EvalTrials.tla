----------------------------- MODULE EvalTrials -----------------------------
(* The live scoring of policy runs (scripts/eval_trials.py), beside the       *)
(* console: the console appends to its log; LogWatcher tails that file,       *)
(* TrialTracker makes attempts of the markers in it, and the operator's keys  *)
(* score them into an append-only session file, from which the next start of  *)
(* the tool resumes.  The tool may be killed at any time.  Times and the      *)
(* statistics are left out: the log line an attempt began with stands for the *)
(* start of its clock.                                                        *)
EXTENDS Integers, Sequences, SequencesExt, FiniteSets, Functions

CONSTANTS
    Digits,         \* the keys that score an outcome
    MaxLines,       \* bound: lines of the log
    MaxKeys,        \* bound: keys the operator types
    MaxStarts,      \* bound: starts of the tool
    MaxRotations    \* bound: rotations of the log

ASSUME DigitsAssumption == Digits # {} /\ Digits \cap {" ", "g", "u", "n", "q"} = {}
ASSUME ScoringAssumption == {MaxLines, MaxKeys, MaxStarts, MaxRotations} \subseteq Nat

VARIABLES
    gui_log,        \* the log: the text of each line, and its end
    tty,            \* keys typed and not read from the terminal
    session,        \* the records of the session file
    tool,           \* "poll", "key" or "down": where the tool is
    pos, buf,       \* _pos (-1: None) and _buf of the watcher
    active,         \* the attempt in progress, or NoAttempt
    pending,        \* finished attempts that wait for their outcome
    stdin,          \* keys Python has read ahead of the tool
    trials,         \* the scored trials, as the tool shows them
    lines,          \* history: the marker of every line ever written
    rotated,        \* history: how many of them were, when the log was last rotated
    typed, starts, rotations    \* bounds: keys, starts and rotations so far

logVars == <<gui_log, lines, rotated, rotations>>
watcherVars == <<pos, buf>>
trackerVars == <<active, pending>>
memory == <<watcherVars, trackerVars, stdin, trials>>
scoringVars == <<logVars, tty, session, tool, memory, typed, starts>>

Keys == Digits \cup {" ", "g", "u", "n", "q"}

\* from, till: the lines it began and ended with, 0 when the operator's key did.
Attempt(from) == [from |-> from, till |-> 0, misses |-> 0, by_hand |-> 0]
NoAttempt == Attempt(-1)

-----------------------------------------------------------------------------
(* The session file: trials, and tombstones that undo or annotate the last.  *)

Trial(attempt, digit) == [op |-> "trial", of |-> attempt, outcome |-> digit, note |-> FALSE]
Tombstone(op) == [op |-> op]

Noted(list) == IF list = <<>> THEN list ELSE [list EXCEPT ![Len(list)].note = TRUE]
Undone(list) == IF list = <<>> THEN list ELSE Front(list)
Replay(list, rec) ==
    CASE rec.op = "undo" -> Undone(list)
      [] rec.op = "note" -> Noted(list)
      [] OTHER -> Append(list, rec)
Load(file) == FoldLeft(Replay, <<>>, file)

-----------------------------------------------------------------------------
ScoringInit ==
    /\ gui_log = <<>> /\ lines = <<>> /\ rotated = 0 /\ rotations = 0
    /\ tty = <<>> /\ session = <<>> /\ typed = 0 /\ starts = 0
    /\ tool = "down"
    /\ pos = -1 /\ buf = <<>> /\ active = NoAttempt /\ pending = <<>>
    /\ stdin = <<>> /\ trials = <<>>

\* A new start knows what the session file tells it, and nothing else.
Start ==
    /\ tool = "down" /\ tool' = "poll"
    /\ starts < MaxStarts /\ starts' = starts + 1
    /\ pos' = -1 /\ buf' = <<>> /\ active' = NoAttempt /\ pending' = <<>>
    /\ stdin' = <<>> /\ tty' = <<>> /\ trials' = Load(session)
    /\ UNCHANGED <<logVars, session, typed>>

\* A kill, or the terminal is closed.
Down ==
    /\ tool' = "down"
    /\ pos' = -1 /\ buf' = <<>> /\ active' = NoAttempt /\ pending' = <<>>
    /\ stdin' = <<>> /\ tty' = <<>> /\ trials' = <<>>
Kill ==
    /\ tool # "down" /\ Down
    /\ UNCHANGED <<logVars, session, typed, starts>>

-----------------------------------------------------------------------------
(* The log of the console, and its watcher.                                 *)

Text(kind, n) == [text |-> kind, n |-> n]
LineEnd == Text("\n", 0)
Torn(bytes) == bytes # <<>> /\ Last(bytes) # LineEnd

\* The console logs that a run homes, that a grasp was missed, or that a placement
\* is complete.
WriteLine(kind) ==
    /\ ~Torn(gui_log) /\ Len(lines) < MaxLines
    /\ lines' = Append(lines, kind)
    /\ gui_log' = Append(gui_log, Text(kind, Len(lines')))
    /\ UNCHANGED <<rotated, rotations, tty, session, tool, memory, typed, starts>>
WriteEnd ==
    /\ Torn(gui_log)
    /\ gui_log' = Append(gui_log, LineEnd)
    /\ UNCHANGED <<lines, rotated, rotations, tty, session, tool, memory, typed, starts>>
Rotate ==
    /\ gui_log # <<>> /\ ~Torn(gui_log)
    /\ rotations < MaxRotations /\ rotations' = rotations + 1
    /\ gui_log' = <<>> /\ rotated' = Len(lines)
    /\ UNCHANGED <<lines, tty, session, tool, memory, typed, starts>>

\* What was read, up to the end of the last line, are whole lines; the rest is kept.
Whole(data) == SelectLastInSeq(data, LAMBDA byte : byte = LineEnd)
WholeLines(data) == SubSeq(data, 1, Whole(data))
Mutant_Rest(data) == <<>>
Rest(data) == SubSeq(data, Whole(data) + 1, Len(data))

-----------------------------------------------------------------------------
(* TrialTracker, as a record of its two fields.                             *)

Missed(tracker, by_hand) ==
    IF tracker.active = NoAttempt THEN tracker
    ELSE [tracker EXCEPT !.active.misses = @ + 1, !.active.by_hand = @ + by_hand]

\* A placement ends the attempt, when there is one, and begins the next.
Complete(tracker, n) ==
    [active |-> Attempt(n),
     pending |-> IF tracker.active = NoAttempt THEN tracker.pending
                 ELSE Append(tracker.pending, [tracker.active EXCEPT !.till = n])]

Track(tracker, line) ==
    CASE line.text = "start" -> [tracker EXCEPT !.active = Attempt(line.n)]
      [] line.text = "retreat" -> Missed(tracker, 0)
      [] line.text = "complete" -> Complete(tracker, line.n)
      [] line = LineEnd -> tracker

\* The oldest finished attempt is scored, else the one in progress, else none.
Mutant_Score(digit) ==
    IF active # NoAttempt
    THEN /\ trials' = Append(trials, Trial(active, digit))
         /\ active' = NoAttempt /\ UNCHANGED pending
    ELSE /\ trials' = Append(trials, Trial(IF pending # <<>> THEN Head(pending) ELSE active, digit))
         /\ pending' = IF pending # <<>> THEN Tail(pending) ELSE pending
         /\ UNCHANGED active
Score(digit) ==
    IF pending # <<>>
    THEN /\ trials' = Append(trials, Trial(Head(pending), digit))
         /\ pending' = Tail(pending) /\ UNCHANGED active
    ELSE /\ trials' = Append(trials, Trial(active, digit))
         /\ active' = NoAttempt /\ UNCHANGED pending

-----------------------------------------------------------------------------
(* The loop of the tool: drain the log, then wait briefly for a key.        *)

\* The first poll begins at the end of the log, when there is one; a log that is
\* shorter than what was read of it has been rotated.
Poll ==
    /\ tool = "poll" /\ tool' = "key"
    /\ \/ pos = -1 /\ gui_log = <<>> /\ UNCHANGED <<watcherVars, trackerVars>>
       \/ LET size == Len(gui_log)
              again == size < pos
              from == IF pos = -1 THEN size ELSE IF again THEN 0 ELSE pos
              data == (IF again THEN <<>> ELSE buf) \o SubSeq(gui_log, from + 1, size)
              after == FoldLeft(Track, [active |-> active, pending |-> pending],
                                WholeLines(data))
          IN  /\ pos' = size /\ buf' = Rest(data)
              /\ active' = after.active /\ pending' = after.pending
    /\ UNCHANGED <<logVars, tty, session, stdin, trials, typed, starts>>

NoKey ==
    /\ tool = "key" /\ tty = <<>> /\ tool' = "poll"
    /\ UNCHANGED <<logVars, tty, session, memory, typed, starts>>

Record(rec) == session' = Append(session, rec)

Space ==
    /\ active' = Attempt(0)
    /\ UNCHANGED <<pending, trials, session>>
Miss ==
    /\ active' = Missed([active |-> active], 1).active
    /\ UNCHANGED <<pending, trials, session>>
Digit(digit) == Score(digit) /\ Record(Last(trials'))
Mutant_Undo ==
    /\ trials' = Undone(trials)
    /\ UNCHANGED <<trackerVars, session>>
Undo ==
    /\ trials' = Undone(trials)
    /\ IF trials = <<>> THEN UNCHANGED session ELSE Record(Tombstone("undo"))
    /\ UNCHANGED trackerVars
Note ==
    /\ \/ trials # <<>> /\ trials' = Noted(trials) /\ Record(Tombstone("note"))
       \/ UNCHANGED <<trials, session>>
    /\ UNCHANGED trackerVars

Handle(key) ==
    /\ tool' = "poll"
    /\ \/ key = " " /\ Space
       \/ key = "g" /\ Miss
       \/ key \in Digits /\ Digit(key)
       \/ key = "u" /\ Undo
       \/ key = "n" /\ Note
    /\ UNCHANGED watcherVars

\* select() asks the terminal; the read takes all that it holds, and returns the
\* first key that was read ahead.
ReadKey ==
    /\ tool = "key" /\ tty # <<>>
    /\ LET ahead == IF stdin = <<>> THEN tty ELSE stdin
       IN  \/ /\ Head(ahead) # "q"
              /\ stdin' = Tail(ahead)
              /\ tty' = IF stdin = <<>> THEN <<>> ELSE tty
              /\ Handle(Head(ahead))
           \/ Head(ahead) = "q" /\ Down /\ UNCHANGED session
    /\ UNCHANGED <<logVars, typed, starts>>

Type(key) ==
    /\ tool # "down" /\ typed < MaxKeys
    /\ tty' = Append(tty, key) /\ typed' = typed + 1
    /\ UNCHANGED <<logVars, session, tool, memory, starts>>

-----------------------------------------------------------------------------
ScoringNext ==
    \/ Start \/ Kill \/ Poll \/ NoKey \/ ReadKey
    \/ \E key \in Keys : Type(key)
    \/ \E kind \in {"start", "retreat", "complete"} : WriteLine(kind)
    \/ WriteEnd \/ Rotate

ScoringSpec == ScoringInit /\ [][ScoringNext]_scoringVars

-----------------------------------------------------------------------------
(* Properties.                                                              *)

\* "A session resumes cleanly after a crash": what is shown to the operator is at
\* every moment what the next start would read from the file, undone trials and
\* notes included.
ResumeAgrees == tool # "down" => trials = Load(session)

\* Outcomes go to attempts in the order these were made, and to none of them twice,
\* whatever the operator types ahead, undoes and restarts.
ScoredInOrder ==
    \A i, j \in 1..Len(trials) :
        i < j /\ trials[i].of.from > 0 /\ trials[j].of.from > 0 =>
            trials[i].of.from < trials[j].of.from

\* "Accurate" first-try and retry statistics: an attempt that was followed in the
\* log from its begin to its end has the retries the console logged in between,
\* and those added by hand, however the log was cut into polls; a log that was
\* rotated costs the attempts of before only.
LoggedRetries(a) == Cardinality({n \in (a.from + 1)..(a.till - 1) : lines[n] = "retreat"})
MissesBelong ==
    \A a \in Range(pending) \cup {trial.of : trial \in Range(trials)} :
        a.from > rotated /\ a.till > 0 =>
            /\ \A n \in (a.from + 1)..(a.till - 1) : lines[n] = "retreat"
            /\ a.misses = LoggedRetries(a) + a.by_hand
=============================================================================
