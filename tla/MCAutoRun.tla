----------------------------- MODULE MCAutoRun -----------------------------
(* The model checked instances of AutoRun: see the .cfg files.              *)
EXTENDS AutoRun
=============================================================================
