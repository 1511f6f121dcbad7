-------------------------- MODULE MCSELinuxOptions --------------------------
(***************************************************************************)
(* Model of seLinuxOptionsV1Dot0: at most one init, one regular and one    *)
(* ephemeral container; the pod and each container have no                *)
(* securityContext, no seLinuxOptions, or options whose type is unset or   *)
(* one of two forbidden types and whose user and role are unset or set.   *)
(***************************************************************************)
EXTENDS SELinuxOptions

MCOptions ==
    [type : {"", "spc_t", "unconfined_t"}, user : {"", "u"}, role : {"", "r"}]

MCSecurityContexts ==
    {Nil, [seLinuxOptions |-> Nil]} \cup {[seLinuxOptions |-> so] : so \in MCOptions}

MCContainers == {[name |-> "", securityContext |-> sc] : sc \in MCSecurityContexts}

MCBound == [initContainers |-> 1, containers |-> 1, ephemeralContainers |-> 1]

MCNames == [initContainers      |-> <<"i0">>,
            containers          |-> <<"c0">>,
            ephemeralContainers |-> <<"e0">>]

MCPodSpecs ==
    PodSpecsOver(MCContainers, MCBound, MCNames,
                 {[initContainers |-> <<>>, containers |-> <<>>,
                   ephemeralContainers |-> <<>>, securityContext |-> sc] :
                    sc \in MCSecurityContexts})

MCByteOrder == <<"spc_t", "unconfined_t">>

=============================================================================
