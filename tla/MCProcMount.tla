---------------------------- MODULE MCProcMount ----------------------------
(***************************************************************************)
(* Model of procMountV1Dot0: up to one init, two regular and one ephemeral *)
(* container, each with no securityContext, an unset procMount, or one of  *)
(* "Default", "Unmasked", "other"; hostUsers unset, true or false.         *)
(***************************************************************************)
EXTENDS ProcMount

MCNil == Nil

MCSecurityContexts ==
    {Nil} \cup {[procMount |-> p] : p \in {Nil, "Default", "Unmasked", "other"}}

MCContainers == {[name |-> "", securityContext |-> sc] : sc \in MCSecurityContexts}

MCBound == [initContainers |-> 1, containers |-> 2, ephemeralContainers |-> 1]

MCNames == [initContainers      |-> <<"i0">>,
            containers          |-> <<"c0", "c1">>,
            ephemeralContainers |-> <<"e0">>]

MCPodSpecs ==
    PodSpecsOver(MCContainers, MCBound, MCNames,
                 {[initContainers |-> <<>>, containers |-> <<>>,
                   ephemeralContainers |-> <<>>, hostUsers |-> h] :
                    h \in {Nil, TRUE, FALSE}})

MCByteOrder == <<"Default", "Unmasked", "other">>

=============================================================================
