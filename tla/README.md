# TLA+ models of the pod security admission checks

These modules model the Go package `policy` in `src/`:
- the lazy field paths (`part_004`);
- the violations accumulator and deferred field errors (`part_002`);
- the shared container traversal (`part_000`);
- five rule checks: hostPorts, procMount (the relaxation-aware body, `part_003`), appArmorProfile, seLinuxOptions and privileged.

They also model the versioned check framework that `spec.md` describes around those pieces: registration, version resolution, evaluation and aggregation. Only the Check declarations of that framework are in `src/`; the rest is modelled from the spec.

## The system

Evaluation is synchronous, with one call per pod and no I/O (spec section 5). A rule body works in three stages:
1. It makes a `Violations` accumulator.
2. It calls `visitContainers`, which runs a visitor for every init, regular and ephemeral container, in that order. The visitor receives a `PathFn`, or nil when field errors are off.
3. It renders a `CheckResult` from the accumulator and from any sets it collected.

The concurrency in this code is inside one call:
- the order of visitor callbacks;
- closures that share the check's locals (seLinuxOptions);
- Go's random map iteration order (appArmorProfile);
- one process-wide toggle read at entry (procMount).

Each check is therefore modelled as **one call per behaviour**:
- `Init` picks the input (pod, options, toggle) from a small constant set.
- There is one action per operation: an entry step where the code has one, one `Visit` step per visitor callback, and a `Finish` step that runs the straight-line code after the traversal and returns.
- A call returns and nothing follows it, so every cfg says `CHECK_DEADLOCK FALSE`.
- `WF_vars(Next)` is justified because a call runs to completion without blocking.

Each check module also contains a **reference** section. It restates what the result must be from the rule text and the spec's addressing grammar (`Slots`, `SlotPath` in `VisitContainers`), without the traversal or the accumulator. The properties compare the returned result with it.

## Modules

| Module | Models | State and actions |
|---|---|---|
| `FieldPath` | `part_004` (PathFn), `part_002` (`forbidden`, `required`, `withBadValue`) | Pure operators. A PathFn is `Nil` or the segment sequence it resolves to; an ErrFn is `Nil` or `[type, path, badValue]`. |
| `Violations` | `part_002` | `NewViolations`, `Add` (calls non-nil ErrFns, keeps non-nil errors, only with field errors), accessors. |
| `VisitContainers` | `part_000` | `visitContainers(podSpec, withFieldErrors)` is the sequence of visitor calls; pod-spec builders for the MC modules. |
| `Render` | formatting helpers | `sets.String.List()` as a sort by the constant `ByteOrder`; `strconv.Itoa` as digit sequences and their byte-order comparison; `pluralize`. Layout (`joinQuote`, `Sprintf`) is abstracted to the sequence of items. |
| `HostPorts` | `check_hostPorts.go` | `Visit` scans a container's ports, `Finish` renders. |
| `ProcMount` | `part_003` lines 159-203 | `EntryV1Dot0` (relaxation check, then `BeginTraversal`); `Visit`; `Finish`. The earlier body (lines 59-95) differs only by lacking the relaxation return, so it would add no states. |
| `AppArmor` | `check_appArmorProfile.go` | `RangeAnnotation(r, k)` visits any not-yet-visited key (Go's random map order); `Finish(r)` sorts and renders. `Runs` holds independent evaluations of one call. |
| `SELinuxOptions` | `check_seLinuxOptions.go` | `PodLevel` (the pod-level closure call), `Visit`, and `Finish` (container setter plus rendering). The record `sel` holds the closure's captured locals. |
| `Privileged` | `check_privileged.go` | `Visit`, `Finish`. |
| `ProcMountTest` | `TestProcMount` (`check_appArmorProfile.go` 118-216), composed with `ProcMount` | It extends `ProcMount`. Variables: the `-count` and the `-run` selection (chosen in `TestInit`), the run and case indices, the subtest phase, the registered cleanup, and the failed comparisons. Actions: `RunSubtest` (toggle, `t.Cleanup`, call set-up), `SkipSubtest`, `CallStep` (one step of `ProcMount`'s `EntryV1Dot0`, `Visit` or `Finish`), `Check` (fatal `Allowed` mismatch, else reason, detail and error list), `Cleanup`, `EndTest`. |
| `Registry` | Check declarations of the rule files; levels, versions, validation, resolution (spec 4.3, 7) | Operators. `resolveVersion` is the backward scan for the last entry not above the target. `RuleReasons` holds each rule body's `ForbiddenReason` strings. `Outcomes` is the set of per-pod outcomes of the bodies. |
| `PolicyVerdict` | spec 4.3–4.5, abstract | One step each: `PRegister` (all Checks valid, or start fails), `PRequest`, `PDecide` (the Verdict defined directly). |
| `Evaluator` | spec 4.3–4.5, detailed | `AddCheck` per factory, `RegistrationDone`, `Request`, `EvaluateCheck` per Check (level filter, resolve, invoke), `EvaluateDone`, `AggregateResult` per result, `AggregateDone`. It instantiates `PolicyVerdict` through a refinement mapping. |

Strings are abstracted:
- Names and values are short strings. Their byte order is given by `ByteOrder` where a sort depends on it.
- AppArmor keys and profiles are sequences of chunks cut at the prefixes the code tests, so `strings.HasPrefix` is a test on the first chunk.
- A `fmt.Sprintf("%s=%q")` label is a record.

In the Evaluator, rule bodies are abstracted to a per-request function `outcome` from evaluation-function name to 0 (allowed) or the index of the `ForbiddenReason` the body returns. `Registry.RuleReasons` lists each rule body's reasons as the code writes them; appArmorProfile has two, because it pluralises its reason. A failing result carries that reason, the function as its detail, and `<<f>>` as its error list when field errors are on. The Aggregator removes duplicate reason strings, not duplicate Checks.

**Refinement mapping** (`Evaluator` to `PolicyVerdict`):

| PolicyVerdict variable | Evaluator expression |
|---|---|
| `program` | `registry \o pending` |
| `registry` | empty while registering or after a failed start |
| phases `evaluate` and `aggregate` | `evaluate` |
| `verdict` | visible only at `done` |

The property is `Abstract!PSafety /\ Abstract!PEnds`. That is equivalent to `Abstract!PSpec`, because `PNext` is enabled in every phase except `done` and `fatal`, so weak fairness holds exactly when a behaviour reaches one of them. TLC checks this form in seconds. With the `WF` conjunct checked directly, the same model took 12 minutes.

## Runs

| Run | cfg | Expect | What it shows |
|---|---|---|---|
| procmount | `MCProcMount.cfg` | pass | The relaxation-aware body gives the rule's verdict (toggle and `hostUsers` included), the detail (containers in traversal order, values distinct and sorted, pluralised by containers) and the exact field errors. |
| procmount_test | `MCProcMountTest.cfg` | pass | `TestProcMount` passes against the relaxation-aware body for `-count` 1 and 2 and every `-run` selection of its cases. The toggle is off whenever a subtest starts and when the binary exits. |
| hostports | `MCHostPorts.cfg` | pass | Verdict, detail (`"10"` before `"9"`, noun pluralised by distinct ports) and one error per offending port at its 0-based index. |
| hostports_documented | `MCHostPortsDocumented.cfg` | violation | A pod whose only hostPort is in an ephemeral container is rejected, although the doc comment names only containers and init containers (finding 2). |
| apparmor | `MCAppArmor.cfg` | pass | Under every map iteration order: verdict, sorted detail, and the set of field errors. |
| apparmor_repeat | `MCAppArmorRepeat.cfg` | violation | Two evaluations of one call return the error list in different orders (finding 1). |
| selinux | `MCSELinuxOptions.cfg` | pass | Pod and container calls of the shared closure: setters `pod` then the containers, bad types merged and sorted, user and role flags from any setter, and pod errors before container errors. |
| privileged | `MCPrivileged.cfg` | pass | Exactly `privileged=true` containers are reported, with their errors. |
| evaluator | `MCEvaluator.cfg` | pass | `ImplementsPolicyVerdict`: stepwise registration, filtering, resolution and aggregation implement the one-step spec, and a request is eventually answered. |

Every property of a passing run has a mutant in `PROJECT.json`: a plausible bug in the mapped code that makes TLC report the property violated.

## Bounds

- **Containers.**
  - ProcMount, HostPorts and Privileged allow at most one init, two regular and one ephemeral container. That is enough for all three collections, two containers in one collection (order, plural) and indices above 0.
  - SELinuxOptions allows one container per collection, plus pod-level options.
- **Values.**
  - procMount: unset, `Default`, `Unmasked`, `other`. This includes two forbidden values whose byte order differs from their container order.
  - ports: each container has up to two ports from {0, 9, 10}. 9 and 10 sort differently as text and as numbers.
  - seLinux types: `""` and two forbidden types. User and role are each unset or set.
  - AppArmor: two container keys, one unrelated key, and five profiles (empty, runtime/default, runtime/default with a suffix, localhost/x, unconfined).
- **TestProcMount.** The three cases of the test table, any subset of them selected by `-run` (any subset is expressible: Go names the second `procMount` subtest `procMount#01`, so every subtest has a name of its own for `-run`), and `-count` 1 or 2. Two runs are the least that lets a toggle left on by case 2 reach case 1 of a later run.
- **Evaluator.**
  - The five rule-file Checks, plus one restricted-level Check with versions 1.1/1.2/1.3. That Check also comes in a variant with a repeated minimum version and one with a nil function.
  - The multi-version Check's bodies reject with `"privileged"`, which the privileged Check also returns. This exercises de-duplication: dropping it from `Fold` violates the refinement.
  - Targets 1.0, 1.1, 1.2 and 1.4: before, at, between and after its entries.
  - All three levels.

## Findings

1. **appArmorProfile's ErrList order is nondeterministic** (`check_appArmorProfile.go:67`). The range over the annotations map appends field errors in iteration order, and only the labels are sorted. Spec sections 7 and 8 require identical output across repeated evaluations. The tests compare error lists with `cmpopts.SortSlices`, which hides the difference.
2. **The hostPorts doc comment under-states the restricted fields** (`check_hostPorts.go:30-39`). It lists only `spec.containers[*].ports[*].hostPort` and `spec.initContainers[*].ports[*].hostPort`. `visitContainers` also visits `spec.ephemeralContainers`, so a pod with a hostPort only in an ephemeral container is rejected. `HostPortsFieldErrors` in the `hostports` run fixes where that error goes: `spec.ephemeralContainers[0].ports[0].hostPort`. The spec (section 4.3, the rule-body shape) agrees with the code, so the comment is incomplete. `DocumentedRestrictedFields` in `HostPorts` states the comment's reading, and TLC breaks it in three steps. The doc comments of privileged, seLinuxOptions and procMount repeat the same two-collection list.

There is also a note that is not a checked property. `check_privileged.go` and the relaxation-aware procMount body call the visitor with a `*field.Path` and use `withBadValue(forbidden(path.Child(...)), v)`. That is the older API, incompatible with `visitContainers` and `ErrFn` in `part_000`/`part_002`. They are modelled by what they compute with the PathFn they receive, and they only use it when field errors are on.

## What the test model shows about the test

`ProcMountTest` composes the test with the check, so the check's mutants can be run against the test itself:
- The test detects an error placed at the container instead of its `procMount` (mutant `procMountErrFnAtContainer`).
- It does not detect the following mutants; the `procmount` run does:
  - a relaxation that ignores `hostUsers`;
  - a subject pluralised by the number of values (its pods have two values and two offending containers);
  - a wrong path for ephemeral containers.
- It does not detect a rejection that loses its ErrList: line 209 skips the comparison when the ErrList is nil. With `procMountResultNoErrList` in place of `procMountResult`, `TestProcMountPasses` still holds. `ProcMountFieldErrors` on the body catches this.
- A subtest that did not register its cleanup would leave the toggle on. Under `-count=2` with a filter keeping cases 1 and 2, case 1 of the second run then fails fatally, a failure no single run of the test shows.

## Not modelled

- **Parts absent from `src/`.** The toggle's setter, `restrictedVolumesV1Dot0` (only its test is in `part_001`), the admission layer and the CLI. Registration, resolution, the evaluator and the aggregator are also absent; they are modelled from the spec and marked `spec_modelled`.
- **Text layout.** Quoting, joining and the wording of details are left out. The properties are about which items appear and in what order.
- **What is left to model.** Every behaviour-carrying line of the four rule files, of `part_000`, `part_002`, `part_004` and of the later procMount body in `part_003` is mapped. The earlier procMount body (`part_003` lines 59-95) is not mapped, because it is the later body without its relaxation return and would add no states. `part_001` holds only `TestRestrictedVolumes`, whose function under test is absent. The registry, evaluator, aggregator and the toggle's setter are not in `src/`, so those components stay *partly* modelled, from the spec. Go's file-level `init` order is decided by the build (the go command presents files sorted by name), not by the code. The model takes it as given, which is why the registration-order hazard has no property.
- **Source lines no definition maps.** The license headers, imports, doc comments and `allowedProfile`'s constants of the modelled files carry no behaviour. Every function body with behaviour under `src/` is mapped.
- **Concurrent writes to the relaxation toggle.** The code reads it once per call. Its synchronisation lives outside `src/`.
