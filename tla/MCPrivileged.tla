---------------------------- MODULE MCPrivileged ----------------------------
(***************************************************************************)
(* Model of privilegedV1Dot0: up to one init, two regular and one          *)
(* ephemeral container, each with no securityContext or privileged unset,  *)
(* false or true.                                                          *)
(***************************************************************************)
EXTENDS Privileged

MCSecurityContexts == {Nil} \cup {[privileged |-> p] : p \in {Nil, FALSE, TRUE}}

MCContainers == {[name |-> "", securityContext |-> sc] : sc \in MCSecurityContexts}

MCBound == [initContainers |-> 1, containers |-> 2, ephemeralContainers |-> 1]

MCNames == [initContainers      |-> <<"i0">>,
            containers          |-> <<"c0", "c1">>,
            ephemeralContainers |-> <<"e0">>]

MCPodSpecs ==
    PodSpecsOver(MCContainers, MCBound, MCNames,
                 {[initContainers |-> <<>>, containers |-> <<>>, ephemeralContainers |-> <<>>]})

MCByteOrder == <<>>

=============================================================================
