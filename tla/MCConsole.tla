----------------------------- MODULE MCConsole -----------------------------
(* Console on a small instance: one worker of the panel beside the auto loop.  *)
EXTENDS Console, TLC

MCCallers == Workers \cup {Looper}
=============================================================================
