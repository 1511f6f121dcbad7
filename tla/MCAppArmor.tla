---------------------------- MODULE MCAppArmor ----------------------------
(***************************************************************************)
(* Model of appArmorProfileV1Dot0: annotation maps over two container      *)
(* AppArmor keys and one unrelated key, each absent or holding "",         *)
(* "runtime/default", "runtime/defaultx", "localhost/x" or "unconfined".   *)
(***************************************************************************)
EXTENDS AppArmor

MCKeys == {<<AppArmorBetaContainerAnnotationKeyPrefix, "a">>,
           <<AppArmorBetaContainerAnnotationKeyPrefix, "b">>,
           <<"app.kubernetes.io/", "name">>}

MCProfiles == {<<>>, <<"runtime/default">>, <<"runtime/default", "x">>,
               <<"localhost/", "x">>, <<"unconfined">>}

MCMetadatas == {[annotations |-> a] : a \in UNION {[D -> MCProfiles] : D \in SUBSET MCKeys}}

MCByteOrder == <<"a", "b">>

MCRunsOne == {1}

MCRunsTwo == {1, 2}

=============================================================================
