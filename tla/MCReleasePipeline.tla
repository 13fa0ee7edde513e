------------------------- MODULE MCReleasePipeline -------------------------
(* ReleasePipeline on small instances.                                       *)
EXTENDS ReleasePipeline

MCTags == 0..MaxSeq
=============================================================================
