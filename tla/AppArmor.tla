------------------------------ MODULE AppArmor ------------------------------
(***************************************************************************)
(* The appArmorProfile check, appArmorProfileV1Dot0                        *)
(* (check_appArmorProfile.go): a range over the pod's annotations map,     *)
(* then an in-place sort of the labels and the rendering.                  *)
(*                                                                         *)
(* Go randomises the iteration order of every range over a map, so each    *)
(* iteration step picks any key not yet visited.  Runs is a set of         *)
(* independent evaluations of the same call (same metadata, same options), *)
(* which is how the spec's "repeated evaluation" is stated.                *)
(*                                                                         *)
(* Strings are sequences of chunks cut at the prefixes the check tests, so *)
(* strings.HasPrefix(s, p) is "the first chunk is p"; "" is << >>.         *)
(* fmt.Sprintf("%s=%q", k, v) is the label [key |-> k, value |-> v].       *)
(***************************************************************************)
EXTENDS VisitContainers, Render

CONSTANTS
    Metadatas,   \* the pod metadata a call may be given
    Runs         \* the repeated evaluations of one call

AppArmorBetaContainerAnnotationKeyPrefix == "container.apparmor.security.beta.kubernetes.io/"
AppArmorBetaProfileRuntimeDefault        == <<"runtime/default">>
AppArmorBetaProfileNamePrefix            == "localhost/"

HasPrefix(s, p) == Len(s) >= 1 /\ s[1] = p

VARIABLES
    podMetadata,               \* the *metav1.ObjectMeta argument (read only)
    withFieldErrors,           \* opts.withFieldErrors
    pc,                        \* per run: "range" or "done"
    remaining,                 \* per run: annotation keys the range has not visited
    forbiddenAppArmorProfile,  \* per run: the Violations accumulator
    result                     \* per run: the returned CheckResult, Nil before return

vars == <<podMetadata, withFieldErrors, pc, remaining, forbiddenAppArmorProfile, result>>

annotations == podMetadata.annotations

AllowedResult == [allowed |-> TRUE, reason |-> "", detail |-> "", errList |-> Nil]

(* Mutant: the empty profile no longer allowed.                            *)
allowedProfileNoEmpty(profile) ==
    \/ profile = AppArmorBetaProfileRuntimeDefault
    \/ HasPrefix(profile, AppArmorBetaProfileNamePrefix)

allowedProfile(profile) ==
    \/ Len(profile) = 0
    \/ profile = AppArmorBetaProfileRuntimeDefault
    \/ HasPrefix(profile, AppArmorBetaProfileNamePrefix)

Init ==
    /\ podMetadata \in Metadatas
    /\ withFieldErrors \in BOOLEAN
    /\ pc = [r \in Runs |-> "range"]
    /\ remaining = [r \in Runs |-> DOMAIN annotations]
    /\ forbiddenAppArmorProfile = [r \in Runs |-> NewViolations(withFieldErrors)]
    /\ result = [r \in Runs |-> Nil]

(* Mutant: the error addressed as a child field instead of a map key.      *)
annotationErrFnAsChild(k, v) == withBadValue(forbidden(child(annotationsPath, <<k>>)), v)

annotationErrFn(k, v) == withBadValue(forbidden(key(annotationsPath, k)), v)

(* One iteration of the range: a key with the container prefix and a      *)
(* profile that is not allowed adds its label, and with field errors the   *)
(* forbidden error at metadata.annotations[k] carrying the value.          *)
RangeAnnotation(r, k) ==
    LET v == annotations[k] IN
    /\ pc[r] = "range"
    /\ k \in remaining[r]
    /\ remaining' = [remaining EXCEPT ![r] = @ \ {k}]
    /\ IF HasPrefix(k, AppArmorBetaContainerAnnotationKeyPrefix) /\ ~allowedProfile(v)
       THEN forbiddenAppArmorProfile' =
              [forbiddenAppArmorProfile EXCEPT ![r] =
                 Add(@, [key |-> k, value |-> v],
                     IF withFieldErrors THEN <<annotationErrFn(k, v)>> ELSE <<>>)]
       ELSE UNCHANGED forbiddenAppArmorProfile
    /\ UNCHANGED <<podMetadata, withFieldErrors, pc, result>>

(* sort.Strings of the "k=v" labels: keys sharing the container prefix     *)
(* compare by the rest of the key, which in the model is one chunk, none a *)
(* prefix of another, so that its byte order decides.                      *)
LabelLess(a, b) == StrLess(a.key[2], b.key[2])

(* Mutant: the labels left in map iteration order.                         *)
appArmorProfileResultUnsorted(v) ==
    IF ~Empty(v)
    THEN [allowed |-> FALSE,
          reason  |-> pluralize("forbidden AppArmor profile", "forbidden AppArmor profiles",
                                Len(Data(v))),
          detail  |-> Data(v),
          errList |-> Errs(v)]
    ELSE AllowedResult

appArmorProfileResult(v) ==
    IF ~Empty(v)
    THEN LET forbiddenValues == SortSeq(Data(v), LabelLess) IN
         [allowed |-> FALSE,
          reason  |-> pluralize("forbidden AppArmor profile", "forbidden AppArmor profiles",
                                Len(forbiddenValues)),
          detail  |-> forbiddenValues,
          errList |-> Errs(v)]
    ELSE AllowedResult

Finish(r) ==
    /\ pc[r] = "range"
    /\ remaining[r] = {}
    /\ pc' = [pc EXCEPT ![r] = "done"]
    /\ result' = [result EXCEPT ![r] = appArmorProfileResult(forbiddenAppArmorProfile[r])]
    /\ UNCHANGED <<podMetadata, withFieldErrors, remaining, forbiddenAppArmorProfile>>

Next ==
    \E r \in Runs :
        \/ \E k \in DOMAIN annotations : RangeAnnotation(r, k)
        \/ Finish(r)

Spec == Init /\ [][Next]_vars /\ WF_vars(Next)

-----------------------------------------------------------------------------
(***************************************************************************)
(* Reference: the rule text and addressing grammar, without the range.     *)
(***************************************************************************)
Profiled == {k \in DOMAIN annotations :
               HasPrefix(k, AppArmorBetaContainerAnnotationKeyPrefix)}

ForbiddenKeys == {k \in Profiled :
                    annotations[k] \notin {<<>>, AppArmorBetaProfileRuntimeDefault}
                    /\ ~HasPrefix(annotations[k], AppArmorBetaProfileNamePrefix)}

ExpectedErr(k) == [type     |-> "FieldValueForbidden",
                   field    |-> <<Child("metadata"), Child("annotations"), Key(k)>>,
                   badValue |-> annotations[k]]

TypeOK ==
    /\ withFieldErrors \in BOOLEAN
    /\ pc \in [Runs -> {"range", "done"}]
    /\ \A r \in Runs :
          /\ remaining[r] \subseteq DOMAIN annotations
          /\ (forbiddenAppArmorProfile[r].errs = Nil) <=> ~withFieldErrors
          /\ result[r] = Nil \/ result[r].allowed \in BOOLEAN

(* Verdict: a returned call allows the pod exactly when every annotation   *)
(* under the container AppArmor prefix holds "", "runtime/default" or a    *)
(* "localhost/" profile; other annotations are never looked at.            *)
AppArmorVerdict ==
    \A r \in Runs : pc[r] = "done" => (result[r].allowed <=> ForbiddenKeys = {})

(* Detail: whatever order the map was ranged in, a rejection lists each    *)
(* forbidden annotation once, strictly sorted, and the reason is           *)
(* pluralised by their number.                                             *)
AppArmorDetail ==
    \A r \in Runs : pc[r] = "done" /\ ~result[r].allowed =>
        LET d == result[r].detail IN
        /\ ToSet(d) = {[key |-> k, value |-> annotations[k]] : k \in ForbiddenKeys}
        /\ \A i \in 1..(Len(d) - 1) : LabelLess(d[i], d[i + 1])
        /\ result[r].reason =
              IF Cardinality(ForbiddenKeys) = 1 THEN "forbidden AppArmor profile"
              ELSE "forbidden AppArmor profiles"

(* Field errors: nil without field errors or on allow; with them one       *)
(* Forbidden error per forbidden annotation, at metadata.annotations[k]    *)
(* with its value (in some order).                                         *)
AppArmorFieldErrors ==
    \A r \in Runs : pc[r] = "done" =>
        IF withFieldErrors /\ ~result[r].allowed
        THEN /\ Len(result[r].errList) = Cardinality(ForbiddenKeys)
             /\ ToSet(result[r].errList) = {ExpectedErr(k) : k \in ForbiddenKeys}
        ELSE result[r].errList = Nil

(* Determinism (spec sections 7 and 8): evaluating the same call again     *)
(* returns the identical CheckResult, structured error list included.      *)
AppArmorDeterministic ==
    \A r1, r2 \in Runs : pc[r1] = "done" /\ pc[r2] = "done" => result[r1] = result[r2]

=============================================================================
