---------------------------- MODULE MCHostPorts ----------------------------
(***************************************************************************)
(* Model of hostPortsV1Dot0: up to one init, two regular and one ephemeral *)
(* container, each with up to two ports whose hostPort is 0 (unset), 9 or  *)
(* 10; 9 and 10 sort differently as numbers and as text.                   *)
(***************************************************************************)
EXTENDS HostPorts

MCContainers == {[name |-> "", ports |-> ps] : ps \in BoundedSeq({0, 9, 10}, 2)}

MCBound == [initContainers |-> 1, containers |-> 2, ephemeralContainers |-> 1]

MCNames == [initContainers      |-> <<"i0">>,
            containers          |-> <<"c0", "c1">>,
            ephemeralContainers |-> <<"e0">>]

MCPodSpecs ==
    PodSpecsOver(MCContainers, MCBound, MCNames,
                 {[initContainers |-> <<>>, containers |-> <<>>, ephemeralContainers |-> <<>>]})

MCByteOrder == <<>>

=============================================================================
