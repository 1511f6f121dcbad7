------------------------------ MODULE Registry ------------------------------
(***************************************************************************)
(* Checks as the rule files declare them, policy levels and versions, and  *)
(* the two registry operations the evaluator relies on: the registration- *)
(* time validation of a Check and the resolution of the VersionedCheck     *)
(* that applies at a target version.                                       *)
(*                                                                         *)
(* A Check is [ID, Level, Versions]; a VersionedCheck is                   *)
(* [MinimumVersion, CheckPod] where CheckPod names the evaluation function *)
(* (or is Nil).  api.MajorMinorVersion(maj, min) is the pair <<maj, min>>. *)
(***************************************************************************)
EXTENDS Integers, Sequences, SequencesExt

CONSTANTS
    Nil,       \* Go nil: an unset evaluation function or no applicable version
    Reasons    \* evaluation function -> the ForbiddenReasons its body can return

(* api.Level, ordered privileged < baseline < restricted.                  *)
LevelRank == [privileged |-> 0, baseline |-> 1, restricted |-> 2]
LevelNames == DOMAIN LevelRank
LevelLEQ(a, b) == LevelRank[a] <= LevelRank[b]

MajorMinorVersion(major, minor) == <<major, minor>>

VersionLT(a, b) == a[1] < b[1] \/ (a[1] = b[1] /\ a[2] < b[2])
VersionLEQ(a, b) == a = b \/ VersionLT(a, b)

(* The Checks of the rule files; addCheck registers each factory from the *)
(* file's init function.                                                   *)
CheckAppArmorProfile ==
    [ID |-> "appArmorProfile", Level |-> "baseline",
     Versions |-> <<[MinimumVersion |-> MajorMinorVersion(1, 0), CheckPod |-> "appArmorProfileV1Dot0"]>>]

CheckHostPorts ==
    [ID |-> "hostPorts", Level |-> "baseline",
     Versions |-> <<[MinimumVersion |-> MajorMinorVersion(1, 0), CheckPod |-> "hostPortsV1Dot0"]>>]

CheckPrivileged ==
    [ID |-> "privileged", Level |-> "baseline",
     Versions |-> <<[MinimumVersion |-> MajorMinorVersion(1, 0), CheckPod |-> "privilegedV1Dot0"]>>]

CheckProcMount ==
    [ID |-> "procMount", Level |-> "baseline",
     Versions |-> <<[MinimumVersion |-> MajorMinorVersion(1, 0), CheckPod |-> "procMountV1Dot0"]>>]

CheckSELinuxOptions ==
    [ID |-> "seLinuxOptions", Level |-> "baseline",
     Versions |-> <<[MinimumVersion |-> MajorMinorVersion(1, 0), CheckPod |-> "seLinuxOptionsV1Dot0"]>>]

(* The evaluation functions a sequence of Checks names.                    *)
CheckPods(checks) ==
    UNION {{v.CheckPod : v \in ToSet(c.Versions)} : c \in ToSet(checks)} \ {Nil}

(* The ForbiddenReason of each rule body: appArmorProfile pluralises it by *)
(* the number of forbidden profiles, the others return a fixed string.     *)
appArmorProfileReasons == <<"forbidden AppArmor profile", "forbidden AppArmor profiles">>

RuleReasons ==
    [appArmorProfileV1Dot0 |-> appArmorProfileReasons,
     hostPortsV1Dot0       |-> <<"hostPort">>,
     privilegedV1Dot0      |-> <<"privileged">>,
     procMountV1Dot0       |-> <<"procMount">>,
     seLinuxOptionsV1Dot0  |-> <<"seLinuxOptions">>]

(* The outcomes the bodies named by checks can have for one pod.           *)
Outcomes(checks) ==
    { o \in [CheckPods(checks) -> 0..Max({Len(Reasons[f]) : f \in DOMAIN Reasons})] :
        \A f \in DOMAIN o : o[f] <= Len(Reasons[f]) }

(* Mutant: equal minimum versions let through.                             *)
ValidCheckNonStrict(c) ==
    /\ \A k \in 1..(Len(c.Versions) - 1) :
          VersionLEQ(c.Versions[k].MinimumVersion, c.Versions[k + 1].MinimumVersion)
    /\ \A k \in DOMAIN c.Versions : c.Versions[k].CheckPod # Nil

(* Registration-time validation: minimum versions strictly increasing and  *)
(* every evaluation function set.                                          *)
ValidCheck(c) ==
    /\ \A k \in 1..(Len(c.Versions) - 1) :
          VersionLT(c.Versions[k].MinimumVersion, c.Versions[k + 1].MinimumVersion)
    /\ \A k \in DOMAIN c.Versions : c.Versions[k].CheckPod # Nil

(* Mutant: the first qualifying entry instead of the last.                 *)
RECURSIVE resolveFirst(_, _, _)
resolveFirst(versions, target, k) ==
    IF k > Len(versions) THEN Nil
    ELSE IF VersionLEQ(versions[k].MinimumVersion, target) THEN versions[k].CheckPod
    ELSE resolveFirst(versions, target, k + 1)

resolveFirstVersion(versions, target) == resolveFirst(versions, target, 1)

(* Resolution: the scan keeps the last entry whose MinimumVersion is at    *)
(* most the target, or Nil when the target predates every entry.           *)
RECURSIVE resolveFrom(_, _, _)
resolveFrom(versions, target, k) ==
    IF k = 0 THEN Nil
    ELSE IF VersionLEQ(versions[k].MinimumVersion, target) THEN versions[k].CheckPod
    ELSE resolveFrom(versions, target, k - 1)

resolveVersion(versions, target) == resolveFrom(versions, target, Len(versions))

=============================================================================
