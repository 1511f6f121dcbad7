------------------------------ MODULE Evaluator ------------------------------
(***************************************************************************)
(* The framework step by step: addCheck registering one Check per step     *)
(* (validated at registration), the Evaluator resolving and invoking one   *)
(* Check per step, and the Level Aggregator folding one CheckResult per    *)
(* step into the Verdict.  Rule bodies are abstracted as in PolicyVerdict, *)
(* which this module is shown to implement.                                *)
(***************************************************************************)
EXTENDS Registry

CONSTANTS Registrations, Targets

VARIABLES
    pending,          \* factories not yet registered, in init order
    registry,         \* the registered Checks, in registration order
    phase,            \* "register", "serve", "evaluate", "aggregate", "done", "fatal"
    level, version, withFieldErrors, outcome,   \* the request, as in PolicyVerdict
    i,                \* next Check the Evaluator visits
    results,          \* the CheckResults collected so far
    j,                \* next CheckResult the Aggregator folds
    verdict           \* the Verdict being folded, Nil before aggregation

vars == <<pending, registry, phase, level, version, withFieldErrors, outcome, i, results, j, verdict>>

PassResult == [allowed |-> TRUE, reason |-> "", detail |-> "", errList |-> Nil]

Init ==
    /\ pending \in Registrations
    /\ registry = <<>>
    /\ phase = "register"
    /\ level = Nil /\ version = Nil /\ withFieldErrors = FALSE
    /\ outcome = Nil
    /\ i = 1 /\ results = <<>> /\ j = 1
    /\ verdict = Nil

(* addCheck of the next factory; an invalid Check is fatal to start-up.    *)
AddCheck ==
    LET c == Head(pending) IN
    /\ phase = "register"
    /\ pending # <<>>
    /\ IF ValidCheck(c)
       THEN registry' = Append(registry, c) /\ pending' = Tail(pending) /\ UNCHANGED phase
       ELSE phase' = "fatal" /\ UNCHANGED <<registry, pending>>
    /\ UNCHANGED <<level, version, withFieldErrors, outcome, i, results, j, verdict>>

RegistrationDone ==
    /\ phase = "register"
    /\ pending = <<>>
    /\ phase' = "serve"
    /\ UNCHANGED <<pending, registry, level, version, withFieldErrors, outcome, i, results, j, verdict>>

(* A request arrives: the level, version, options and the rule outcomes    *)
(* for its pod.                                                            *)
Request ==
    /\ phase = "serve"
    /\ phase' = "evaluate"
    /\ level' \in LevelNames
    /\ version' \in Targets
    /\ withFieldErrors' \in BOOLEAN
    /\ outcome' \in Outcomes(registry)
    /\ i' = 1 /\ results' = <<>>
    /\ UNCHANGED <<pending, registry, j, verdict>>

(* Invoking the resolved function, or the synthetic pass of a Check with   *)
(* no applicable version.                                                  *)
Invoke(c) ==
    LET f == resolveVersion(c.Versions, version) IN
    IF f = Nil \/ outcome[f] = 0 THEN PassResult
    ELSE [allowed |-> FALSE, reason |-> Reasons[f][outcome[f]], detail |-> f,
          errList |-> IF withFieldErrors THEN <<f>> ELSE Nil]

(* Evaluate: a Check above the requested level is skipped; every other     *)
(* Check contributes one result, in registry order.                        *)
EvaluateCheck ==
    /\ phase = "evaluate"
    /\ i <= Len(registry)
    /\ results' = IF LevelLEQ(registry[i].Level, level)
                  THEN Append(results, Invoke(registry[i])) ELSE results
    /\ i' = i + 1
    /\ UNCHANGED <<pending, registry, phase, level, version, withFieldErrors, outcome, j, verdict>>

EvaluateDone ==
    /\ phase = "evaluate"
    /\ i > Len(registry)
    /\ phase' = "aggregate"
    /\ j' = 1
    /\ verdict' = [allowed |-> TRUE, reasons |-> <<>>, details |-> <<>>, errs |-> <<>>]
    /\ UNCHANGED <<pending, registry, level, version, withFieldErrors, outcome, i, results>>

(* Mutant: a failing result that leaves allowed set.                      *)
FoldKeepsAllowed(v, r) ==
    IF r.allowed THEN v
    ELSE [allowed |-> v.allowed,
          reasons |-> IF r.reason \in ToSet(v.reasons) THEN v.reasons ELSE Append(v.reasons, r.reason),
          details |-> Append(v.details, r.detail),
          errs    |-> IF r.errList = Nil THEN v.errs ELSE v.errs \o r.errList]

(* Aggregate: a failing result clears allowed, adds its reason unless      *)
(* already seen, its detail, and its error list when not nil.              *)
Fold(v, r) ==
    IF r.allowed THEN v
    ELSE [allowed |-> FALSE,
          reasons |-> IF r.reason \in ToSet(v.reasons) THEN v.reasons ELSE Append(v.reasons, r.reason),
          details |-> Append(v.details, r.detail),
          errs    |-> IF r.errList = Nil THEN v.errs ELSE v.errs \o r.errList]

AggregateResult ==
    /\ phase = "aggregate"
    /\ j <= Len(results)
    /\ verdict' = Fold(verdict, results[j])
    /\ j' = j + 1
    /\ UNCHANGED <<pending, registry, phase, level, version, withFieldErrors, outcome, i, results>>

AggregateDone ==
    /\ phase = "aggregate"
    /\ j > Len(results)
    /\ phase' = "done"
    /\ UNCHANGED <<pending, registry, level, version, withFieldErrors, outcome, i, results, j, verdict>>

Next ==
    \/ AddCheck \/ RegistrationDone \/ Request
    \/ EvaluateCheck \/ EvaluateDone \/ AggregateResult \/ AggregateDone

Spec == Init /\ [][Next]_vars /\ WF_vars(Next)

-----------------------------------------------------------------------------
TypeOK ==
    /\ phase \in {"register", "serve", "evaluate", "aggregate", "done", "fatal"}
    /\ i \in 1..(Len(registry) + 1)
    /\ j \in 1..(Len(results) + 1)
    /\ Len(results) <= Len(registry)
    /\ verdict = Nil \/ verdict.allowed \in BOOLEAN
    \* the CheckResult/Verdict shape: allowed exactly when nothing was reported
    /\ verdict = Nil \/ (verdict.allowed <=> verdict.details = <<>>)

(* Refinement: with registration stopping at the first invalid Check, the  *)
(* Evaluator skipping Checks above the level and resolving by a backward   *)
(* scan, and the Aggregator folding results one by one, the framework      *)
(* answers exactly as PolicyVerdict says: process start fails iff some     *)
(* Check is invalid, and the returned Verdict is the spec's, with reasons  *)
(* de-duplicated in first-seen order, details and errors in registration   *)
(* order, inapplicable Checks passing, and nothing returned before the     *)
(* end.  It also checks that a request is eventually answered.             *)
AbstractPhase ==
    CASE phase \in {"evaluate", "aggregate"} -> "evaluate"
      [] OTHER -> phase

Abstract == INSTANCE PolicyVerdict WITH
    program  <- registry \o pending,
    phase    <- AbstractPhase,
    registry <- IF phase \in {"register", "fatal"} THEN <<>> ELSE registry,
    verdict  <- IF phase = "done" THEN verdict ELSE Nil

ImplementsPolicyVerdict == Abstract!PSafety /\ Abstract!PEnds

=============================================================================
