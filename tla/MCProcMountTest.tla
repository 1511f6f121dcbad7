--------------------------- MODULE MCProcMountTest ---------------------------
(***************************************************************************)
(* TestProcMount run once or twice (go test -count), under every -run      *)
(* filter of its three cases.                                              *)
(***************************************************************************)
EXTENDS ProcMountTest

\* the test calls procMountV1Dot0 with its own pods, not with a pod from PodSpecs
MCPodSpecs == {}

MCByteOrder == <<"Default", "Unmasked", "other">>

=============================================================================
