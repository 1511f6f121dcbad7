---------------------------- MODULE PolicyVerdict ----------------------------
(***************************************************************************)
(* What the framework promises, in one step per operation: registration    *)
(* either accepts the whole program's Checks or fails process start; a     *)
(* request (level, version, options) is answered by the Verdict the spec   *)
(* defines directly from the registered Checks.                            *)
(*                                                                         *)
(* The rule bodies are abstracted to their outcome: outcome[f] is 0 when   *)
(* evaluation function f allows this pod, else the index of the reason it  *)
(* returns.  A failing result carries that reason, f as detail and <<f>>   *)
(* as error list when field errors are on.                                 *)
(***************************************************************************)
EXTENDS Registry

CONSTANTS
    Registrations,   \* the possible sequences of Checks a program registers
    Targets          \* the policy versions a request may ask for

VARIABLES
    program,          \* the Checks the program registers, in init order
    phase,            \* "register", "serve", "evaluate", "done" or "fatal"
    registry,         \* the registered Checks
    level,            \* the requested level (Nil before a request)
    version,          \* the requested version (Nil before a request)
    withFieldErrors,  \* opts.withFieldErrors of the request
    outcome,          \* evaluation function -> outcome, for this pod
    verdict           \* the returned Verdict, Nil before return

pvars == <<program, phase, registry, level, version, withFieldErrors, outcome, verdict>>

(* The applicable entry: the one with the greatest MinimumVersion not      *)
(* above the target.                                                       *)
Applicable(c) ==
    LET q == {e \in ToSet(c.Versions) : VersionLEQ(e.MinimumVersion, version)}
    IN  IF q = {} THEN Nil
        ELSE (CHOOSE e \in q : \A d \in q : VersionLEQ(d.MinimumVersion, e.MinimumVersion)).CheckPod

(* The Checks at or below the level whose applicable function rejects.    *)
Failing ==
    SelectSeq(registry, LAMBDA c : LevelLEQ(c.Level, level)
                                   /\ Applicable(c) # Nil /\ outcome[Applicable(c)] # 0)

ReasonOf(c) == Reasons[Applicable(c)][outcome[Applicable(c)]]

Verdict ==
    LET n == Len(Failing)
        firstSeen == SelectSeq([k \in 1..n |-> k],
                               LAMBDA k : \A m \in 1..(k - 1) : ReasonOf(Failing[m]) # ReasonOf(Failing[k]))
    IN  [allowed |-> n = 0,
         reasons |-> [k \in 1..Len(firstSeen) |-> ReasonOf(Failing[firstSeen[k]])],
         details |-> [k \in 1..n |-> Applicable(Failing[k])],
         errs    |-> IF withFieldErrors
                     THEN [k \in 1..n |-> Applicable(Failing[k])] ELSE <<>>]

PInit ==
    /\ program \in Registrations
    /\ phase = "register"
    /\ registry = <<>>
    /\ level = Nil /\ version = Nil /\ withFieldErrors = FALSE
    /\ outcome = Nil
    /\ verdict = Nil

PRegister ==
    /\ phase = "register"
    /\ IF \A i \in DOMAIN program : ValidCheck(program[i])
       THEN phase' = "serve" /\ registry' = program
       ELSE phase' = "fatal" /\ UNCHANGED registry
    /\ UNCHANGED <<program, level, version, withFieldErrors, outcome, verdict>>

PRequest ==
    /\ phase = "serve"
    /\ phase' = "evaluate"
    /\ level' \in LevelNames
    /\ version' \in Targets
    /\ withFieldErrors' \in BOOLEAN
    /\ outcome' \in Outcomes(registry)
    /\ UNCHANGED <<program, registry, verdict>>

PDecide ==
    /\ phase = "evaluate"
    /\ phase' = "done"
    /\ verdict' = Verdict
    /\ UNCHANGED <<program, registry, level, version, withFieldErrors, outcome>>

PNext == PRegister \/ PRequest \/ PDecide

PSafety == PInit /\ [][PNext]_pvars

PSpec == PSafety /\ WF_pvars(PNext)

(* PNext is enabled in every phase but "done" and "fatal", so a behaviour  *)
(* of PSafety is weakly fair exactly when it reaches one of them: PSpec is *)
(* PSafety /\ PEnds, the form the refinement check uses.                   *)
PEnds == <>(phase \in {"done", "fatal"})

=============================================================================
