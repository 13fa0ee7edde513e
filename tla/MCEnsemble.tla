----------------------------- MODULE MCEnsemble -----------------------------
(* Ensemble on a small instance: five rows, chunks of three, a commit-ahead of *)
(* one or two rows, up to two substeps per row.                                *)
EXTENDS Ensemble

MCAheads == {1, 2}
=============================================================================
