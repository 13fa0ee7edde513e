---------------------------- MODULE MCDispatch ----------------------------
(* Dispatch on a small range of configurations.                              *)
EXTENDS Dispatch

MCTargets == {Upper + 1}
MCSubs == {<<Upper - 1, Lower>>}
MCPaths == {<<Upper - 1>>}
MCSafeRegion == Lower..(Upper - 1)
===========================================================================
