--------------------------- MODULE SELinuxOptions ---------------------------
(***************************************************************************)
(* The seLinuxOptions check, seLinuxOptionsV1Dot0                          *)
(* (check_seLinuxOptions.go): the pod-level options first, then one step   *)
(* per visitor callback, then the straight-line code that adds the         *)
(* containers as one setter and renders the result.                        *)
(*                                                                         *)
(* validSELinuxOptions is a closure over locals of the check (badTypes,    *)
(* setUser, setRole and the two lists of deferred errors); they are the    *)
(* record variable sel, which the pod-level call and every container call  *)
(* update in turn.                                                         *)
(***************************************************************************)
EXTENDS VisitContainers, Render

CONSTANT PodSpecs   \* the pod specs a call may be given

VARIABLES
    podSpec,          \* the *corev1.PodSpec argument (read only)
    withFieldErrors,  \* opts.withFieldErrors
    pc,               \* "pod", "visit" or "done"
    pos,              \* next visitor call of visitContainers
    badSetters,       \* the Violations accumulator
    sel,              \* the locals validSELinuxOptions captures
    badContainers,    \* names of the containers with bad options
    result            \* the returned CheckResult, Nil before return

vars == <<podSpec, withFieldErrors, pc, pos, badSetters, sel, badContainers, result>>

calls == visitContainers(podSpec, withFieldErrors)

AllowedResult == [allowed |-> TRUE, reason |-> "", detail |-> "", errList |-> Nil]

selinux_allowed_types_1_0 == {"", "container_t", "container_init_t", "container_kvm_t"}

SELinuxFields == <<"type", "user", "role">>

(* Type outside the allowed set, or a non-empty user or role.              *)
IsBad(so, f) == IF f = "type" THEN so.type \notin selinux_allowed_types_1_0 ELSE so[f] # ""

PodFieldPath(f) ==
    CASE f = "type" -> seLinuxOptionsTypePath
      [] f = "user" -> seLinuxOptionsUserPath
      [] f = "role" -> seLinuxOptionsRolePath

Init ==
    /\ podSpec \in PodSpecs
    /\ withFieldErrors \in BOOLEAN
    /\ pc = "pod"
    /\ pos = 1
    /\ badSetters = NewViolations(withFieldErrors)
    /\ sel = [badTypes |-> {}, setUser |-> FALSE, setRole |-> FALSE,
              badContainersErrFns |-> <<>>, badPodErrFns |-> <<>>]
    /\ badContainers = <<>>
    /\ result = Nil

(* The closure's bookkeeping of what was set: bad types, user, role.      *)
(* Mutant: a copy-paste slip, a set role recorded as a set user.          *)
recordBadRoleSetsUser(s, so) ==
    [s EXCEPT !.badTypes = IF IsBad(so, "type") THEN @ \cup {so.type} ELSE @,
              !.setUser  = @ \/ IsBad(so, "user") \/ IsBad(so, "role")]

recordBad(s, so) ==
    [s EXCEPT !.badTypes = IF IsBad(so, "type") THEN @ \cup {so.type} ELSE @,
              !.setUser  = @ \/ IsBad(so, "user"),
              !.setRole  = @ \/ IsBad(so, "role")]

(* pathFn.child("securityContext", "seLinuxOptions", f) of a container.   *)
(* Mutant: a copy-paste slip, the role error at the user field.           *)
containerFieldPathRoleSlip(pathFn, f) ==
    child(pathFn, <<"securityContext", "seLinuxOptions", IF f = "role" THEN "user" ELSE f>>)

containerFieldPath(pathFn, f) == child(pathFn, <<"securityContext", "seLinuxOptions", f>>)

(* validSELinuxOptions: the closure's effect on its captured locals; each  *)
(* bad field, in the order type, user, role, is recorded and its error     *)
(* goes to the container list when there is a path, else to the pod list   *)
(* when this is the pod-level call and field errors are on.                *)
validSELinuxOptions(s, so, pathFn, isPodLevel) ==
    LET bad == SelectSeq(SELinuxFields, LAMBDA f : IsBad(so, f))
        fns(P(_)) == [j \in 1..Len(bad) |-> withBadValue(forbidden(P(bad[j])), so[bad[j]])]
        r == recordBad(s, so)
    IN  [r EXCEPT
           !.badContainersErrFns =
               IF pathFn # Nil THEN @ \o fns(LAMBDA f : containerFieldPath(pathFn, f)) ELSE @,
           !.badPodErrFns =
               IF pathFn = Nil /\ isPodLevel /\ withFieldErrors THEN @ \o fns(PodFieldPath) ELSE @]

(* Mutant: the role never checked for the return value.                  *)
ValidIgnoringRole(so) == \A f \in {"type", "user"} : ~IsBad(so, f)

(* The closure's return value.                                             *)
Valid(so) == \A f \in {"type", "user", "role"} : ~IsBad(so, f)

(* Pod level: options set and invalid add the setter "pod" with the pod    *)
(* errors gathered so far.                                                 *)
PodLevel ==
    LET psc == podSpec.securityContext IN
    /\ pc = "pod"
    /\ pc' = "visit"
    /\ IF psc # Nil /\ psc.seLinuxOptions # Nil
       THEN LET s2 == validSELinuxOptions(sel, psc.seLinuxOptions, Nil, TRUE) IN
            /\ sel' = s2
            /\ badSetters' = IF Valid(psc.seLinuxOptions) THEN badSetters
                             ELSE Add(badSetters, "pod", s2.badPodErrFns)
       ELSE UNCHANGED <<sel, badSetters>>
    /\ UNCHANGED <<podSpec, withFieldErrors, pos, badContainers, result>>

seLinuxVisitor(call) ==
    LET c == call.container IN
    IF c.securityContext # Nil /\ c.securityContext.seLinuxOptions # Nil
    THEN LET so == c.securityContext.seLinuxOptions IN
         /\ sel' = validSELinuxOptions(sel, so, call.pathFn, FALSE)
         /\ badContainers' = IF Valid(so) THEN badContainers ELSE Append(badContainers, c.name)
    ELSE UNCHANGED <<sel, badContainers>>

Visit ==
    /\ pc = "visit"
    /\ pos <= Len(calls)
    /\ seLinuxVisitor(calls[pos])
    /\ pos' = pos + 1
    /\ UNCHANGED <<podSpec, withFieldErrors, pc, badSetters, result>>

(* After the traversal: the containers, if any, become one setter carrying *)
(* every container error; then the result lists the setters and the bad   *)
(* data (types, then user, then role).                                     *)
seLinuxOptionsResult(setters, s, names) ==
    LET v == IF Len(names) > 0
             THEN Add(setters,
                      [subject |-> pluralize("container", "containers", Len(names)),
                       names   |-> names],
                      s.badContainersErrFns)
             ELSE setters
        badData ==
            (IF s.badTypes # {}
             THEN <<[noun  |-> pluralize("type", "types", Cardinality(s.badTypes)),
                     types |-> SortedList(s.badTypes)]>>
             ELSE <<>>)
            \o (IF s.setUser THEN <<"user may not be set">> ELSE <<>>)
            \o (IF s.setRole THEN <<"role may not be set">> ELSE <<>>)
    IN  IF ~Empty(v)
        THEN [allowed |-> FALSE,
              reason  |-> "seLinuxOptions",
              detail  |-> [setters |-> Data(v), badData |-> badData],
              errList |-> Errs(v)]
        ELSE AllowedResult

Finish ==
    /\ pc = "visit"
    /\ pos > Len(calls)
    /\ pc' = "done"
    /\ result' = seLinuxOptionsResult(badSetters, sel, badContainers)
    /\ UNCHANGED <<podSpec, withFieldErrors, pos, badSetters, sel, badContainers>>

Next == PodLevel \/ Visit \/ Finish

Spec == Init /\ [][Next]_vars /\ WF_vars(Next)

-----------------------------------------------------------------------------
(***************************************************************************)
(* Reference: the rule text (type in the allowed set, user and role unset) *)
(* and the addressing grammar, without the closure or the traversal.       *)
(***************************************************************************)
HasOptions(sc) == sc # Nil /\ sc.seLinuxOptions # Nil

OptionsOK(so) == so.type \in selinux_allowed_types_1_0 /\ so.user = "" /\ so.role = ""

PodOptions ==
    IF HasOptions(podSpec.securityContext) THEN {podSpec.securityContext.seLinuxOptions} ELSE {}

PodBad == \E so \in PodOptions : ~OptionsOK(so)

Offenders ==
    SelectSeq(Slots(podSpec),
              LAMBDA s : HasOptions(s.c.securityContext)
                         /\ ~OptionsOK(s.c.securityContext.seLinuxOptions))

(* Every options value set anywhere in the pod.                            *)
AllOptions ==
    PodOptions \cup {s.c.securityContext.seLinuxOptions :
                       s \in {t \in ToSet(Slots(podSpec)) : HasOptions(t.c.securityContext)}}

BadTypes == {so.type : so \in AllOptions} \ selinux_allowed_types_1_0

FieldErrors(so, P(_)) ==
    LET bad == SelectSeq(<<"type", "user", "role">>,
                         LAMBDA f : IF f = "type" THEN so.type \notin selinux_allowed_types_1_0
                                    ELSE so[f] # "")
    IN  [j \in 1..Len(bad) |->
           [type |-> "FieldValueForbidden", field |-> P(bad[j]), badValue |-> so[bad[j]]]]

TypeOK ==
    /\ withFieldErrors \in BOOLEAN
    /\ pc \in {"pod", "visit", "done"}
    /\ pos \in 1..(Len(calls) + 1)
    /\ (badSetters.errs = Nil) <=> ~withFieldErrors
    /\ sel.badTypes \subseteq STRING
    /\ sel.setUser \in BOOLEAN /\ sel.setRole \in BOOLEAN
    /\ badContainers \in Seq(STRING)
    /\ result = Nil \/ result.allowed \in BOOLEAN

(* Verdict: a returned call allows the pod exactly when the pod-level and  *)
(* every container's seLinuxOptions, where set, have an allowed type and   *)
(* no user or role.                                                        *)
SELinuxVerdict ==
    pc = "done" => (result.allowed <=> \A so \in AllOptions : OptionsOK(so))

(* Detail: a rejection names "pod" first when the pod-level options are    *)
(* bad, then the offending containers once each in traversal order; the    *)
(* bad types of pod and containers together appear once each, sorted, and  *)
(* "user"/"role may not be set" exactly when any setter, the pod or a      *)
(* container, set them: the closure's locals are shared by all its calls.  *)
SELinuxDetail ==
    pc = "done" /\ ~result.allowed =>
        LET d == result.detail
            n == Len(Offenders)
        IN  /\ d.setters =
                  (IF PodBad THEN <<"pod">> ELSE <<>>)
                  \o (IF n > 0
                      THEN <<[subject |-> IF n = 1 THEN "container" ELSE "containers",
                              names   |-> [i \in 1..n |-> Offenders[i].c.name]]>>
                      ELSE <<>>)
            /\ d.badData =
                  (IF BadTypes # {}
                   THEN <<[noun  |-> IF Cardinality(BadTypes) = 1 THEN "type" ELSE "types",
                           types |-> SortedList(BadTypes)]>>
                   ELSE <<>>)
                  \o (IF \E so \in AllOptions : so.user # "" THEN <<"user may not be set">> ELSE <<>>)
                  \o (IF \E so \in AllOptions : so.role # "" THEN <<"role may not be set">> ELSE <<>>)

(* Field errors: nil without field errors or on allow; with them the pod   *)
(* errors at spec.securityContext.seLinuxOptions.<field> come first, then  *)
(* each offending container's at spec.<collection>[i].securityContext.     *)
(* seLinuxOptions.<field>, in traversal order and type, user, role order.  *)
SELinuxFieldErrors ==
    pc = "done" =>
        result.errList =
            IF withFieldErrors /\ ~result.allowed
            THEN LET podErrs ==
                       IF PodBad
                       THEN FieldErrors(podSpec.securityContext.seLinuxOptions,
                                        LAMBDA f : Children(<<"spec", "securityContext",
                                                              "seLinuxOptions", f>>))
                       ELSE <<>>
                     ctrErrs(s) ==
                       FieldErrors(s.c.securityContext.seLinuxOptions,
                                   LAMBDA f : SlotPath(s, <<"securityContext", "seLinuxOptions", f>>))
                 IN  podErrs \o FlattenSeq([i \in 1..Len(Offenders) |-> ctrErrs(Offenders[i])])
            ELSE Nil

=============================================================================
