---------------------------- MODULE ProcMountTest ----------------------------
(***************************************************************************)
(* The unit test TestProcMount (check_appArmorProfile.go lines 118-216)    *)
(* composed with the procMount check it drives.  The test binary runs the  *)
(* test function Count times (go test -count) in one process; each run     *)
(* walks the table of cases in order and runs the cases the -run filter    *)
(* selects as subtests.  A subtest may switch on the process-wide          *)
(* relaxation toggle and registers a cleanup that switches it off again;   *)
(* it then calls procMountV1Dot0 (the actions of ProcMount) and compares   *)
(* the result with the case's expectations.                                *)
(***************************************************************************)
EXTENDS ProcMount

CONSTANT MaxCount   \* the largest -count the model tries

ASSUME MaxCount \in Nat \ {0}

VARIABLES
    count,      \* the -count of this test binary
    selected,   \* the indices of the cases the -run filter selects
    iter,       \* the current run of TestProcMount, 1..count
    tc,         \* the index of the current case in tests
    phase,      \* "run", "call", "cleanup" or "exited"
    cleanup,    \* the value the registered t.Cleanup will set, or Nil
    failures    \* the set of <<iter, case, comparison>> that reported an error

testVars == <<count, selected, iter, tc, phase, cleanup, failures>>
pmVars   == vars
allVars  == <<testVars, pmVars>>

(* The five containers every case's pod holds.                             *)
testContainers ==
    <<[name |-> "a", securityContext |-> Nil],
      [name |-> "b", securityContext |-> [procMount |-> Nil]],
      [name |-> "c", securityContext |-> [procMount |-> "Default"]],
      [name |-> "d", securityContext |-> [procMount |-> "Unmasked"]],
      [name |-> "e", securityContext |-> [procMount |-> "other"]]>>

testPod(hostUsers) ==
    [initContainers |-> <<>>, containers |-> testContainers,
     ephemeralContainers |-> <<>>, hostUsers |-> hostUsers]

(* `containers "d", "e" must not set securityContext.procMount to          *)
(* "Unmasked", "other"` as the parts ForbiddenDetail is made of.           *)
expectDetailDE ==
    [subject |-> "containers", containers |-> <<"d", "e">>, values |-> <<"Unmasked", "other">>]

expectErr(i, v) ==
    [type |-> "FieldValueForbidden", badValue |-> v,
     field |-> Children(<<"spec", "containers">>) \o <<Idx(i)>>
               \o Children(<<"securityContext", "procMount">>)]

(* The table of cases; an omitted expectErrList is nil.                   *)
tests ==
    <<[pod |-> testPod(FALSE), withFieldErrors |-> FALSE, expectReason |-> "procMount",
       expectDetail |-> expectDetailDE, expectErrList |-> Nil, expectAllowed |-> FALSE,
       relaxForUserNS |-> FALSE],
      [pod |-> testPod(FALSE), withFieldErrors |-> FALSE, expectReason |-> "",
       expectDetail |-> "", expectErrList |-> Nil, expectAllowed |-> TRUE,
       relaxForUserNS |-> TRUE],
      [pod |-> testPod(Nil), withFieldErrors |-> TRUE, expectReason |-> "procMount",
       expectDetail |-> expectDetailDE,
       expectErrList |-> <<expectErr(3, "Unmasked"), expectErr(4, "other")>>,
       expectAllowed |-> FALSE, relaxForUserNS |-> FALSE]>>

(* The comparisons of a subtest that report an error.  A wrong Allowed is  *)
(* fatal and ends the subtest before the others; the error lists are      *)
(* compared as multisets (cmpopts.SortSlices), and only when the result's  *)
(* ErrList is not nil.                                                     *)
failedComparisons(case, r) ==
    IF r.allowed # case.expectAllowed THEN {"allowed"}
    ELSE { k \in {"reason", "detail", "errList"} :
             CASE k = "reason" -> case.expectReason # r.reason
               [] k = "detail" -> case.expectDetail # r.detail
               [] k = "errList" ->
                    r.errList # Nil
                    /\ (case.expectErrList = Nil \/ ToBag(case.expectErrList) # ToBag(r.errList)) }

(* The t.Cleanup a case registers: the toggle switched back off.           *)
(* Mutants: the toggle switched on without registering its cleanup; the   *)
(* cleanup switching the toggle on again.                                  *)
registerCleanupSetsOn(case) == IF case.relaxForUserNS THEN TRUE ELSE Nil

registerCleanupDropped(case) == Nil

registerCleanup(case) == IF case.relaxForUserNS THEN FALSE ELSE Nil

TestInit ==
    /\ count \in 1..MaxCount
    /\ selected \in SUBSET DOMAIN tests
    /\ iter = 1
    /\ tc = 1
    /\ phase = "run"
    /\ cleanup = Nil
    /\ failures = {}
    \* the toggle's zero value at process start; no call is in progress
    /\ relaxUserNS = FALSE
    /\ podSpec = Nil
    /\ withFieldErrors = FALSE
    /\ pc = "done"
    /\ pos = 1
    /\ badContainers = Nil
    /\ forbiddenProcMountTypes = {}
    /\ result = Nil

(* t.Run of a case the filter selects: the toggle, the cleanup, then the   *)
(* call procMountV1Dot0(&tc.pod.ObjectMeta, &tc.pod.Spec, tc.opts).        *)
RunSubtest ==
    LET case == tests[tc] IN
    /\ phase = "run"
    /\ tc \in selected
    /\ relaxUserNS' = (case.relaxForUserNS \/ relaxUserNS)
    /\ cleanup' = registerCleanup(case)
    /\ podSpec' = case.pod
    /\ withFieldErrors' = case.withFieldErrors
    /\ pc' = "entry"
    /\ pos' = 1
    /\ badContainers' = Nil
    /\ forbiddenProcMountTypes' = {}
    /\ result' = Nil
    /\ phase' = "call"
    /\ UNCHANGED <<count, selected, iter, tc, failures>>

(* t.Run of a case the filter does not select returns at once.             *)
SkipSubtest ==
    /\ phase = "run"
    /\ tc \in DOMAIN tests \ selected
    /\ tc' = tc + 1
    /\ UNCHANGED <<count, selected, iter, phase, cleanup, failures, pmVars>>

(* One step of the procMountV1Dot0 call the subtest makes.                 *)
CallStep ==
    /\ phase = "call"
    /\ Next
    /\ UNCHANGED testVars

(* The comparisons after the call returned.                                *)
Check ==
    /\ phase = "call"
    /\ pc = "done"
    /\ failures' = failures \cup
                     {<<iter, tc, k>> : k \in failedComparisons(tests[tc], result)}
    /\ phase' = "cleanup"
    /\ UNCHANGED <<count, selected, iter, tc, cleanup, pmVars>>

(* The subtest ends (normally or by t.Fatalf): its cleanup runs.           *)
Cleanup ==
    /\ phase = "cleanup"
    /\ relaxUserNS' = IF cleanup = Nil THEN relaxUserNS ELSE cleanup
    /\ cleanup' = Nil
    /\ tc' = tc + 1
    /\ phase' = "run"
    /\ UNCHANGED <<count, selected, iter, failures, podSpec, withFieldErrors,
                   pc, pos, badContainers, forbiddenProcMountTypes, result>>

(* The loop over the cases ended: the next run of the test, or exit.       *)
EndTest ==
    /\ phase = "run"
    /\ tc = Len(tests) + 1
    /\ \/ /\ iter < count
          /\ iter' = iter + 1
          /\ tc' = 1
          /\ UNCHANGED phase
       \/ /\ iter = count
          /\ phase' = "exited"
          /\ UNCHANGED <<iter, tc>>
    /\ UNCHANGED <<count, selected, cleanup, failures, pmVars>>

TestNext ==
    \/ RunSubtest
    \/ SkipSubtest
    \/ CallStep
    \/ Check
    \/ Cleanup
    \/ EndTest

TestSpec == TestInit /\ [][TestNext]_allVars /\ WF_allVars(TestNext)

-----------------------------------------------------------------------------
TestTypeOK ==
    /\ count \in 1..MaxCount
    /\ iter \in 1..count
    /\ tc \in 1..(Len(tests) + 1)
    /\ phase \in {"run", "call", "cleanup", "exited"}
    /\ cleanup \in {Nil, FALSE}
    /\ failures \subseteq (1..count) \X (DOMAIN tests) \X {"allowed", "reason", "detail", "errList"}

(* TestProcMount passes: under every -count and every -run filter, no      *)
(* comparison of any subtest in any run reports an error against what      *)
(* procMountV1Dot0 returns.                                                *)
TestProcMountPasses == failures = {}

(* The subtests leave the process-wide relaxation toggle as they found     *)
(* it: whenever a subtest is about to start, and when the binary exits,    *)
(* the toggle is off, so the relaxation set by the second case never      *)
(* reaches a later case or a later run of the test.                        *)
ToggleRestored == phase \in {"run", "exited"} => relaxUserNS = FALSE

=============================================================================
