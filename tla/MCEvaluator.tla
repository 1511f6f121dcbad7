---------------------------- MODULE MCEvaluator ----------------------------
(***************************************************************************)
(* The five Checks of the rule files, registered in file-name order as Go  *)
(* runs init functions, followed by one multi-version Check at the         *)
(* restricted level: well-formed (1.1, 1.2, 1.3), with a repeated minimum  *)
(* version, or with a nil evaluation function.  Requests ask for 1.0 (before *)
(* that Check), 1.1, 1.2 (between two entries) or 1.4 (after all).         *)
(* The multi-version Check's bodies reject with the reason "privileged",   *)
(* which the privileged Check also returns, so that the Aggregator's       *)
(* de-duplication of reasons has work to do.                               *)
(***************************************************************************)
EXTENDS Evaluator

Entry(minor, f) == [MinimumVersion |-> MajorMinorVersion(1, minor), CheckPod |-> f]

Versioned(vs) == [ID |-> "versioned", Level |-> "restricted", Versions |-> vs]

RuleFiles ==
    <<CheckAppArmorProfile, CheckHostPorts, CheckPrivileged, CheckProcMount, CheckSELinuxOptions>>

MCRegistrations ==
    { RuleFiles \o <<Versioned(<<Entry(1, "v1"), Entry(2, "v2"), Entry(3, "v3")>>)>>,
      RuleFiles \o <<Versioned(<<Entry(1, "v1"), Entry(1, "v2")>>)>>,
      RuleFiles \o <<Versioned(<<Entry(1, "v1"), Entry(2, Nil)>>)>> }

MCReasons == RuleReasons @@ [f \in {"v1", "v2", "v3"} |-> <<"privileged">>]

MCTargets == {MajorMinorVersion(1, 0), MajorMinorVersion(1, 1),
              MajorMinorVersion(1, 2), MajorMinorVersion(1, 4)}

=============================================================================
