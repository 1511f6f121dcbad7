------------------------------ MODULE ProcMount ------------------------------
(***************************************************************************)
(* The procMount check, procMountV1Dot0, as one call: the entry (with the  *)
(* user-namespace relaxation of the newer body), one step per visitor      *)
(* callback of visitContainers, and the rendering of the CheckResult.      *)
(*                                                                         *)
(* The repository holds two bodies of procMountV1Dot0: the earlier one     *)
(* (part_003 lines 59-95) and the relaxation-aware one (lines 159-203).    *)
(* They differ only in the relaxation return at lines 164-166; this module *)
(* models the later one, whose traversal and rendering are the earlier     *)
(* one's.                                                                  *)
(***************************************************************************)
EXTENDS VisitContainers, Render

CONSTANT PodSpecs   \* the pod specs a call may be given

VARIABLES
    podSpec,                  \* the *corev1.PodSpec argument (read only)
    withFieldErrors,          \* opts.withFieldErrors
    relaxUserNS,              \* the process-wide relaxation toggle
    pc,                       \* "entry", "visit" or "done"
    pos,                      \* next visitor call of visitContainers
    badContainers,            \* the Violations accumulator
    forbiddenProcMountTypes,  \* sets.String of the forbidden values seen
    result                    \* the returned CheckResult, Nil before return

vars == <<podSpec, withFieldErrors, relaxUserNS, pc, pos, badContainers,
          forbiddenProcMountTypes, result>>

calls == visitContainers(podSpec, withFieldErrors)

AllowedResult == [allowed |-> TRUE, reason |-> "", detail |-> "", errList |-> Nil]

(* relaxPolicyForUserNamespacePod: the toggle is on and the pod sets       *)
(* hostUsers: false.                                                       *)
(* Mutant: relaxation on the toggle alone, hostUsers not consulted.       *)
relaxPolicyIgnoresHostUsers(spec) == relaxUserNS

relaxPolicyForUserNamespacePod(spec) == relaxUserNS /\ spec.hostUsers = FALSE

Init ==
    /\ podSpec \in PodSpecs
    /\ withFieldErrors \in BOOLEAN
    /\ relaxUserNS \in BOOLEAN
    /\ pc = "entry"
    /\ pos = 1
    /\ badContainers = Nil
    /\ forbiddenProcMountTypes = {}
    /\ result = Nil

BeginTraversal ==
    /\ pc' = "visit"
    /\ badContainers' = NewViolations(withFieldErrors)
    /\ forbiddenProcMountTypes' = {}
    /\ UNCHANGED <<podSpec, withFieldErrors, relaxUserNS, pos, result>>

(* The relaxation-aware body returns Allowed before anything else when the *)
(* pod is relaxed.                                                         *)
EntryV1Dot0 ==
    /\ pc = "entry"
    /\ \/ /\ relaxPolicyForUserNamespacePod(podSpec)
          /\ pc' = "done"
          /\ result' = AllowedResult
          /\ UNCHANGED <<podSpec, withFieldErrors, relaxUserNS, pos,
                         badContainers, forbiddenProcMountTypes>>
       \/ /\ ~relaxPolicyForUserNamespacePod(podSpec)
          /\ BeginTraversal

(* forbidden(path.Child("securityContext", "procMount"))                  *)
(*   .withBadValue(value).                                                 *)
(* Mutant: the error placed at the container instead of its procMount.    *)
procMountErrFnAtContainer(pathFn, value) == withBadValue(forbidden(pathFn), value)

procMountErrFn(pathFn, value) ==
    withBadValue(forbidden(child(pathFn, <<"securityContext", "procMount">>)), value)

(* The visitor's early returns: no securityContext, or no procMount.       *)
(* Mutant: the "allow if proc mount is not set" return dropped.           *)
procMountUnsetNoNilCheck(sc) == sc = Nil

procMountUnset(sc) == sc = Nil \/ sc.procMount = Nil

(* The visitor: a nil securityContext or procMount, or "Default", is       *)
(* allowed; any other value adds the container, with its forbidden field   *)
(* error when field errors are on, and records the value.                  *)
procMountVisitor(call) ==
    LET c  == call.container
        sc == c.securityContext
    IN  IF procMountUnset(sc) \/ sc.procMount = "Default"
        THEN UNCHANGED <<badContainers, forbiddenProcMountTypes>>
        ELSE /\ badContainers' =
                  Add(badContainers, c.name,
                      IF withFieldErrors THEN <<procMountErrFn(call.pathFn, sc.procMount)>> ELSE <<>>)
             /\ forbiddenProcMountTypes' = forbiddenProcMountTypes \cup {sc.procMount}

Visit ==
    /\ pc = "visit"
    /\ pos <= Len(calls)
    /\ procMountVisitor(calls[pos])
    /\ pos' = pos + 1
    /\ UNCHANGED <<podSpec, withFieldErrors, relaxUserNS, pc, result>>

(* The ForbiddenDetail's parts.                                           *)
(* Mutant: the subject pluralised by the number of distinct values.       *)
procMountDetailPluralByValues(v, types) ==
    [subject    |-> pluralize("container", "containers", Cardinality(types)),
     containers |-> Data(v),
     values     |-> SortedList(types)]

procMountDetail(v, types) ==
    [subject    |-> pluralize("container", "containers", ViolationsLen(v)),
     containers |-> Data(v),
     values     |-> SortedList(types)]

(* Mutant: the rejection returned without its ErrList.                    *)
procMountResultNoErrList(v, types) ==
    IF ~Empty(v)
    THEN [allowed |-> FALSE, reason |-> "procMount",
          detail  |-> procMountDetail(v, types), errList |-> Nil]
    ELSE AllowedResult

procMountResult(v, types) ==
    IF ~Empty(v)
    THEN [allowed |-> FALSE, reason |-> "procMount",
          detail  |-> procMountDetail(v, types), errList |-> Errs(v)]
    ELSE AllowedResult

Finish ==
    /\ pc = "visit"
    /\ pos > Len(calls)
    /\ pc' = "done"
    /\ result' = procMountResult(badContainers, forbiddenProcMountTypes)
    /\ UNCHANGED <<podSpec, withFieldErrors, relaxUserNS, pos, badContainers,
                   forbiddenProcMountTypes>>

Next ==
    \/ EntryV1Dot0
    \/ Visit
    \/ Finish

Spec == Init /\ [][Next]_vars /\ WF_vars(Next)

-----------------------------------------------------------------------------
(***************************************************************************)
(* Reference: what the check must answer, from the spec's rule text and    *)
(* addressing grammar, written without the traversal above.                *)
(***************************************************************************)
Forbids(c) == c.securityContext # Nil
              /\ c.securityContext.procMount \notin {Nil, "Default"}

Offenders == SelectSeq(Slots(podSpec), LAMBDA s : Forbids(s.c))

UserNamespaceRelaxed == relaxUserNS /\ podSpec.hostUsers = FALSE

TypeOK ==
    /\ podSpec.hostUsers \in {Nil, TRUE, FALSE}
    /\ withFieldErrors \in BOOLEAN
    /\ relaxUserNS \in BOOLEAN
    /\ pc \in {"entry", "visit", "done"}
    /\ pos \in 1..(Len(calls) + 1)
    /\ badContainers = Nil
       \/ /\ badContainers.data \in Seq(STRING)
          \* the error list exists exactly when field errors were requested
          /\ (badContainers.errs = Nil) <=> ~withFieldErrors
    /\ result = Nil \/ result.allowed \in BOOLEAN

(* Verdict (the baseline rule and spec section 8's relaxation scenario):   *)
(* a returned call allows the pod exactly when no init, regular or         *)
(* ephemeral container sets a procMount other than "Default", or the       *)
(* relaxation toggle is on and the pod runs in a user namespace.           *)
ProcMountVerdict ==
    pc = "done" => (result.allowed <=> (UserNamespaceRelaxed \/ Offenders = <<>>))

(* Detail: a rejection names every offending container once, in the order *)
(* visitContainers meets them (init, regular, ephemeral), pluralised by    *)
(* their number, and the distinct forbidden values strictly increasing in  *)
(* byte order, whatever order the containers held them in.                 *)
ProcMountDetail ==
    pc = "done" /\ ~result.allowed =>
        LET d == result.detail IN
        /\ result.reason = "procMount"
        /\ d.containers = [i \in 1..Len(Offenders) |-> Offenders[i].c.name]
        /\ d.subject = IF Len(Offenders) = 1 THEN "container" ELSE "containers"
        /\ ToSet(d.values) = {Offenders[i].c.securityContext.procMount : i \in 1..Len(Offenders)}
        /\ \A i \in 1..(Len(d.values) - 1) : StrLess(d.values[i], d.values[i + 1])

(* Field errors (spec section 8's zero-cost-off and exactness scenarios):  *)
(* without field errors every result has a nil ErrList; with them a        *)
(* rejection carries exactly one Forbidden error per offending container,  *)
(* at spec.<collection>[<index>].securityContext.procMount with the        *)
(* offending value, in traversal order.                                    *)
ProcMountFieldErrors ==
    pc = "done" =>
        result.errList =
            IF withFieldErrors /\ ~result.allowed
            THEN [i \in 1..Len(Offenders) |->
                    [type     |-> "FieldValueForbidden",
                     field    |-> SlotPath(Offenders[i], <<"securityContext", "procMount">>),
                     badValue |-> Offenders[i].c.securityContext.procMount]]
            ELSE Nil

=============================================================================
