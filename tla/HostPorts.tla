------------------------------ MODULE HostPorts ------------------------------
(***************************************************************************)
(* The hostPorts check, hostPortsV1Dot0 (check_hostPorts.go), the rule the *)
(* spec takes as the template of every container rule: one step per        *)
(* visitor callback of visitContainers, the callback scanning all ports of *)
(* its container, then the rendering of the CheckResult.                   *)
(***************************************************************************)
EXTENDS VisitContainers, Render

CONSTANT PodSpecs   \* the pod specs a call may be given

VARIABLES
    podSpec,             \* the *corev1.PodSpec argument (read only)
    withFieldErrors,     \* opts.withFieldErrors
    pc,                  \* "visit" or "done"
    pos,                 \* next visitor call of visitContainers
    badContainers,       \* the Violations accumulator
    forbiddenHostPorts,  \* sets.String of strconv.Itoa of the ports seen
    result               \* the returned CheckResult, Nil before return

vars == <<podSpec, withFieldErrors, pc, pos, badContainers, forbiddenHostPorts, result>>

calls == visitContainers(podSpec, withFieldErrors)

AllowedResult == [allowed |-> TRUE, reason |-> "", detail |-> "", errList |-> Nil]

Init ==
    /\ podSpec \in PodSpecs
    /\ withFieldErrors \in BOOLEAN
    /\ pc = "visit"
    /\ pos = 1
    /\ badContainers = NewViolations(withFieldErrors)
    /\ forbiddenHostPorts = {}
    /\ result = Nil

(* forbidden(pathFn.child("ports").index(i).child("hostPort"))            *)
(*   .withBadValue(hostPort), i the Go index of the port.                  *)
(* Mutant: the port index taken 1-based.                                   *)
hostPortErrFnOneBased(pathFn, i, hostPort) ==
    withBadValue(forbidden(child(index(child(pathFn, <<"ports">>), i + 1), <<"hostPort">>)), hostPort)

hostPortErrFn(pathFn, i, hostPort) ==
    withBadValue(forbidden(child(index(child(pathFn, <<"ports">>), i), <<"hostPort">>)), hostPort)

(* The visitor: every port with a non-zero hostPort makes the container    *)
(* invalid, adds the port's text to the set and, with field errors, its    *)
(* error; an invalid container is added once with all its errors.          *)
hostPortsVisitor(call) ==
    LET c      == call.container
        badIdx == SelectSeq([i \in 1..Len(c.ports) |-> i], LAMBDA i : c.ports[i] # 0)
        errFns == [j \in 1..Len(badIdx) |->
                     hostPortErrFn(call.pathFn, badIdx[j] - 1, c.ports[badIdx[j]])]
    IN  IF badIdx = <<>>
        THEN UNCHANGED <<badContainers, forbiddenHostPorts>>
        ELSE /\ badContainers' =
                  Add(badContainers, c.name, IF withFieldErrors THEN errFns ELSE <<>>)
             /\ forbiddenHostPorts' =
                  forbiddenHostPorts \cup {Itoa(c.ports[badIdx[j]]) : j \in 1..Len(badIdx)}

Visit ==
    /\ pc = "visit"
    /\ pos <= Len(calls)
    /\ hostPortsVisitor(calls[pos])
    /\ pos' = pos + 1
    /\ UNCHANGED <<podSpec, withFieldErrors, pc, result>>

(* The ForbiddenDetail's parts.                                           *)
(* Mutant: the hostPort noun pluralised by the number of containers.       *)
hostPortsDetailPluralByContainers(v, ports) ==
    [subject    |-> pluralize("container", "containers", ViolationsLen(v)),
     containers |-> Data(v),
     verb       |-> pluralize("uses", "use", ViolationsLen(v)),
     noun       |-> pluralize("hostPort", "hostPorts", ViolationsLen(v)),
     ports      |-> SetToSortSeq(ports, DigitsLess)]

hostPortsDetail(v, ports) ==
    [subject    |-> pluralize("container", "containers", ViolationsLen(v)),
     containers |-> Data(v),
     verb       |-> pluralize("uses", "use", ViolationsLen(v)),
     noun       |-> pluralize("hostPort", "hostPorts", Cardinality(ports)),
     ports      |-> SetToSortSeq(ports, DigitsLess)]

hostPortsResult(v, ports) ==
    IF ~Empty(v)
    THEN [allowed |-> FALSE, reason |-> "hostPort",
          detail  |-> hostPortsDetail(v, ports), errList |-> Errs(v)]
    ELSE AllowedResult

Finish ==
    /\ pc = "visit"
    /\ pos > Len(calls)
    /\ pc' = "done"
    /\ result' = hostPortsResult(badContainers, forbiddenHostPorts)
    /\ UNCHANGED <<podSpec, withFieldErrors, pos, badContainers, forbiddenHostPorts>>

Next == Visit \/ Finish

Spec == Init /\ [][Next]_vars /\ WF_vars(Next)

-----------------------------------------------------------------------------
(***************************************************************************)
(* Reference: the rule text and the addressing grammar, written without    *)
(* the traversal above.                                                    *)
(***************************************************************************)
Offenders == SelectSeq(Slots(podSpec), LAMBDA s : \E j \in DOMAIN s.c.ports : s.c.ports[j] # 0)

BadPorts == UNION {ToSet(s.c.ports) : s \in ToSet(Offenders)} \ {0}

PortErrors(s) ==
    LET js == SelectSeq([j \in 1..Len(s.c.ports) |-> j], LAMBDA j : s.c.ports[j] # 0)
    IN  [k \in 1..Len(js) |->
           [type     |-> "FieldValueForbidden",
            field    |-> SlotPath(s, <<"ports">>) \o <<Idx(js[k] - 1), Child("hostPort")>>,
            badValue |-> s.c.ports[js[k]]]]

TypeOK ==
    /\ withFieldErrors \in BOOLEAN
    /\ pc \in {"visit", "done"}
    /\ pos \in 1..(Len(calls) + 1)
    /\ badContainers.data \in Seq(STRING)
    /\ (badContainers.errs = Nil) <=> ~withFieldErrors
    /\ forbiddenHostPorts \subseteq Seq(0..9)
    /\ result = Nil \/ result.allowed \in BOOLEAN

(* Verdict: a returned call allows the pod exactly when no port of any     *)
(* init, regular or ephemeral container has a non-zero hostPort.           *)
HostPortsVerdict ==
    pc = "done" => (result.allowed <=> Offenders = <<>>)

(* Detail: a rejection names each offending container once in traversal   *)
(* order; "container(s)" and "uses/use" agree with the number of           *)
(* containers, "hostPort(s)" with the number of distinct ports; the ports  *)
(* appear once each, as decimal text in strictly increasing byte order     *)
(* (so 10 before 9), however they were spread over containers.             *)
HostPortsDetail ==
    pc = "done" /\ ~result.allowed =>
        LET d == result.detail
            n == Len(Offenders)
        IN  /\ result.reason = "hostPort"
            /\ d.containers = [i \in 1..n |-> Offenders[i].c.name]
            /\ d.subject = IF n = 1 THEN "container" ELSE "containers"
            /\ d.verb = IF n = 1 THEN "uses" ELSE "use"
            /\ d.noun = IF Cardinality(BadPorts) = 1 THEN "hostPort" ELSE "hostPorts"
            /\ ToSet(d.ports) = {Itoa(p) : p \in BadPorts}
            /\ \A i \in 1..(Len(d.ports) - 1) : DigitsLess(d.ports[i], d.ports[i + 1])

(* Field errors: nil without field errors; with them one Forbidden error   *)
(* per offending port (not per container) at                               *)
(* spec.<collection>[i].ports[j].hostPort with the port as bad value, in   *)
(* traversal order.                                                        *)
HostPortsFieldErrors ==
    pc = "done" =>
        result.errList =
            IF withFieldErrors /\ ~result.allowed
            THEN FlattenSeq([i \in 1..Len(Offenders) |-> PortErrors(Offenders[i])])
            ELSE Nil

(* The doc comment of hostPortsV1Dot0 (check_hostPorts.go lines 30-39)     *)
(* lists as Restricted Fields only spec.containers[*].ports[*].hostPort    *)
(* and spec.initContainers[*].ports[*].hostPort: a rejection should then   *)
(* always be caused by a port of an init or a regular container, never by  *)
(* an ephemeral container alone.                                           *)
DocumentedRestrictedFields ==
    pc = "done" /\ ~result.allowed =>
        \E i \in DOMAIN Offenders :
            Offenders[i].coll \in {"initContainers", "containers"}

=============================================================================
