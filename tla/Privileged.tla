----------------------------- MODULE Privileged -----------------------------
(***************************************************************************)
(* The privileged check, privilegedV1Dot0 (check_privileged.go): one step  *)
(* per visitor callback, then the rendering of the CheckResult.            *)
(*                                                                         *)
(* The file is written against an older visitor signature (a *field.Path   *)
(* argument and path.Child); it reads that path only when field errors are *)
(* requested, when visitContainers passes a non-nil one, so it is modelled *)
(* as the PathFn the visitor receives, extended by child.                  *)
(***************************************************************************)
EXTENDS VisitContainers, Render

CONSTANT PodSpecs   \* the pod specs a call may be given

VARIABLES
    podSpec,          \* the *corev1.PodSpec argument (read only)
    withFieldErrors,  \* opts.withFieldErrors
    pc,               \* "visit" or "done"
    pos,              \* next visitor call of visitContainers
    badContainers,    \* the Violations accumulator
    result            \* the returned CheckResult, Nil before return

vars == <<podSpec, withFieldErrors, pc, pos, badContainers, result>>

calls == visitContainers(podSpec, withFieldErrors)

AllowedResult == [allowed |-> TRUE, reason |-> "", detail |-> "", errList |-> Nil]

Init ==
    /\ podSpec \in PodSpecs
    /\ withFieldErrors \in BOOLEAN
    /\ pc = "visit"
    /\ pos = 1
    /\ badContainers = NewViolations(withFieldErrors)
    /\ result = Nil

(* Mutant: a set privileged field taken as privileged, its value unread.  *)
privilegedVisitorNilCheckOnly(call) ==
    LET c == call.container IN
    IF c.securityContext # Nil /\ c.securityContext.privileged # Nil
    THEN badContainers' =
           Add(badContainers, c.name,
               IF withFieldErrors
               THEN <<withBadValue(forbidden(child(call.pathFn, <<"securityContext", "privileged">>)), TRUE)>>
               ELSE <<>>)
    ELSE UNCHANGED badContainers

(* The visitor: a container whose securityContext.privileged is set to     *)
(* true is added, with field errors together with a forbidden error at     *)
(* securityContext.privileged carrying true.                               *)
privilegedVisitor(call) ==
    LET c == call.container IN
    IF c.securityContext # Nil /\ c.securityContext.privileged # Nil /\ c.securityContext.privileged
    THEN badContainers' =
           Add(badContainers, c.name,
               IF withFieldErrors
               THEN <<withBadValue(forbidden(child(call.pathFn, <<"securityContext", "privileged">>)), TRUE)>>
               ELSE <<>>)
    ELSE UNCHANGED badContainers

Visit ==
    /\ pc = "visit"
    /\ pos <= Len(calls)
    /\ privilegedVisitor(calls[pos])
    /\ pos' = pos + 1
    /\ UNCHANGED <<podSpec, withFieldErrors, pc, result>>

privilegedResult(v) ==
    IF ~Empty(v)
    THEN [allowed |-> FALSE,
          reason  |-> "privileged",
          detail  |-> [subject    |-> pluralize("container", "containers", ViolationsLen(v)),
                       containers |-> Data(v)],
          errList |-> Errs(v)]
    ELSE AllowedResult

Finish ==
    /\ pc = "visit"
    /\ pos > Len(calls)
    /\ pc' = "done"
    /\ result' = privilegedResult(badContainers)
    /\ UNCHANGED <<podSpec, withFieldErrors, pos, badContainers>>

Next == Visit \/ Finish

Spec == Init /\ [][Next]_vars /\ WF_vars(Next)

-----------------------------------------------------------------------------
(* Reference: the rule text (privileged false or unset is allowed).        *)
Offenders ==
    SelectSeq(Slots(podSpec),
              LAMBDA s : s.c.securityContext # Nil /\ s.c.securityContext.privileged = TRUE)

TypeOK ==
    /\ withFieldErrors \in BOOLEAN
    /\ pc \in {"visit", "done"}
    /\ pos \in 1..(Len(calls) + 1)
    /\ (badContainers.errs = Nil) <=> ~withFieldErrors
    /\ result = Nil \/ result.allowed \in BOOLEAN

(* Privileged result: a returned call rejects the pod exactly when some    *)
(* init, regular or ephemeral container sets privileged=true (false and    *)
(* unset are allowed); the rejection names those containers in traversal   *)
(* order, pluralised by their number, and with field errors carries one    *)
(* Forbidden error per container at spec.<collection>[i].securityContext.  *)
(* privileged with bad value true, nil otherwise.                          *)
PrivilegedResult ==
    pc = "done" =>
        LET n == Len(Offenders) IN
        IF n = 0 THEN result = AllowedResult
        ELSE /\ ~result.allowed
             /\ result.reason = "privileged"
             /\ result.detail = [subject    |-> IF n = 1 THEN "container" ELSE "containers",
                                 containers |-> [i \in 1..n |-> Offenders[i].c.name]]
             /\ result.errList =
                   IF withFieldErrors
                   THEN [i \in 1..n |->
                           [type     |-> "FieldValueForbidden",
                            field    |-> SlotPath(Offenders[i], <<"securityContext", "privileged">>),
                            badValue |-> TRUE]]
                   ELSE Nil

=============================================================================
