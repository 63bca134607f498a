# Formal models of the wolfSSL benchmark GUI

This directory holds TLA+ models of `src/benchmarkGUI`, the NW.js front end
that runs the wolfSSL `benchmark` binary and shows its throughput on
dial gauges. It also holds TLC configurations that model-check the models
on small instances, and TLAPS proofs of their main invariants for every
instance.

## The system

| Part | Source | Role |
|---|---|---|
| Supervisor | `js/index.js` | Holds the global registry `gauges`, `benchmarkProcess`, `benchmarkArgs` and `processName`. Handles the AES/SHA/RSA toggles, the demo toggle, the SGX toggle, window close, and the child process's events. |
| Gauge wrapper | `js/gauge.js` | For one algorithm: a running total, count, average, min and max, the HTML container and a `drawGauge` object. |
| Dial | `js/d3gauge.js` | Maps a value to a needle angle with `valueScale` and two clamps. Draws ticks and labels. `updateGauge` animates the needle from the old value to the new one. |

How they interact:

- A toggle's change handler pushes or removes a flag in `benchmarkArgs` and creates or removes the gauge.
- It then calls `startProcess()`. That function runs `closeProcess()`, which sends SIGTERM to `benchmarkProcess`, and spawns a new process if `benchmarkArgs` is non-empty.
- The child's stdout `data` handler parses each chunk and calls `updateData` on every gauge whose key the chunk contains.
- `startDemo` first switches the three toggles off with `bootstrapToggle('off')`, which runs each toggle's change handler synchronously. It then disables the toggles, creates all three gauges, pushes all three flags and starts the process.

All of this runs on the browser's single event loop, so each handler is atomic. The interleavings that matter are between whole handlers: user clicks, and the `error`, `close` and `data` events of *every* process ever spawned. A killed process is still alive until it exits, because `kill('SIGTERM')` only sends a signal.

## Modules

### `Gauge.tla`: one gauge (gauge.js and the needle of d3gauge.js)

**State:**

- `total`, `count`, `avg`, `min`, `max` are `this.total` … `this.max`. Before min and max are set they hold the model value `Undef` (JavaScript `undefined`).
- `needleVal` is `opt.needleVal`.
- `needleFrom` and `needleTo` are the two ends of the last needle transition.
- `mounted` records whether the container is in the DOM.
- `samples` is a history variable.

**Data abstraction:**

- Samples are the values of `+parseFloat(chunk).toFixed(2)`, counted in hundredths, so every sample is an integer.
- Angles are exact: a degree value `d` is kept as `d * Span` with `Span = maxVal - minVal`. This makes the linear scale integral. IEEE rounding is not reproduced.

**Actions:**

- `Init` is the constructor (gauge.js:5-40), including the first needle transition of `drawGauge`.
- `UpdateData(v)` is `updateData`. It is one action, in the order the code runs: `UpdateGauge` (d3gauge.js:382-420), then total, count and avg, then min, then max.
- `RemoveGauge` is `removeGauge`.
- `Falsy` is JavaScript's `!x` on `undefined` or a number.
- `NeedleRotation` is the rotation with its high clamp followed by its low clamp (d3gauge.js:394-400).

### `BenchmarkApp.tla`: the supervisor (index.js)

**State:**

- `checked` and `enabled` of the three algorithm toggles, plus `demo`, `sgx` (which is `processName`) and `kiosk`.
- The registry `gauges`, which maps each algorithm to a gauge id or `None`, and the set of `mounted` containers.
- `args` is `benchmarkArgs`.
- `procs` is every spawned process: its args, its binary, and whether it is killed and whether it has exited.
- `current` is `benchmarkProcess`: a pid, or 0 before the first spawn.
- `errorShown` and `closed`.

**Structure.** Each function of index.js is a function on the state record `State`:

- `CloseProcess`, `StartProcess`, `NewGauge`, `RemoveGauge`, `RemoveArg` (built from `IndexOf` and `Splice`).
- `ToggleOnHandler` and `ToggleOffHandler`.
- `OffAndDisable`, which is `bootstrapToggle('off').bootstrapToggle('disable')`. The `off` runs the change handler only while the toggle is enabled.
- `StartDemo` and `RemoveAllGauges`.

A handler composes these functions in the code's order, and `Apply` commits the result. Each handler is therefore one atomic step, just as on the event loop.

**Actions:**

- `ClickAlg(a)`
- `DemoOn` and `DemoOff`
- `ClickSgx`
- `CloseWindow`
- `Error(p)` and `Exit(p)`, for any spawned `p`, killed or not.

**Bounds:** `MaxProcs` (spawns) and `MaxGauges` (gauge objects created) cap the two counters that grow.

### `BenchmarkData.tla`: the supervisor with the benchmark's output (index.js:188-209)

This module extends `BenchmarkApp` with the stdout of every spawned process.

**State:**

- `out[p]` holds the lines process `p` has written that were not read yet.
- `emitted[p]` counts them, up to `MaxLines`.
- `fed` is a history variable: one record per `updateData` call. It holds the gauge, the key it was found under, the tag of the chunk's first line, whether parseFloat found a number there (`num`), and the sending pid.

**Data abstraction:** a line is reduced to the algorithm it reports (its tag) and its form. The form is `ValueFirst` ("12.34 AES") or `KeyFirst` ("AES: 12.34", the spec's example). The subprocess contract allows both. parseFloat gives a number for the first and NaN for the second, and nothing else about the number matters to the properties.

**Actions:**

- `Emit(p, a, f)` is the benchmark binary (not in this repository) writing a line for an algorithm it was started with. It can do so until the process exits, killed or not.
- `Data(p, k)` is the stdout `data` handler of `p` receiving its next `k` lines as one chunk. `Dispatch` is the handler's body: `+parseFloat(chunk)` reads the number the first line begins with (NaN if it begins with its key), and every registered key the chunk contains gets that number.
- `DExit(p)` is `Exit` with the `close` event delivered after the last chunk.

**Fairness:** none. `DSpec` is a safety specification. The only eventuality in this code is that a process sent SIGTERM exits. That depends on the benchmark binary, which is not in this repository, honouring the signal. Assuming it as fairness would make any liveness property a restatement of the assumption, so no liveness property is checked.

### `ProcessLifecycle.tla`: the abstract process lifecycle

This is what spec §6 promises, independent of toggles and gauges:

- A sequence `st` of process statuses `running`, `stopping` and `gone`, plus `cur`, the process the GUI talks to.
- `Restart(n)` tells every running process to stop and starts `n` new ones, of which only the last keeps running. `startDemo` can spawn up to four processes in one handler through the toggles' change handlers.
- `End(p)` is a process ending.

`BenchmarkApp` instantiates it with the refinement mapping `st <- [p |-> LifeStatus(p)]`, `cur <- current`. `LifeStatus` is `gone` once exited, `stopping` once killed, and `running` otherwise. The property `LifecycleRefined` is `Lifecycle!LSpec`.

### `TickLayout.tla`: the tick and label loops of drawGauge (d3gauge.js:108-147)

- `cfg` is the dial's options, and `phase` says which loop runs.
- `i` and `counter` are the loop variables.
- `tickAnglesMaj`, `tickAnglesMin` and `tickLabelText` are the three arrays.
- `MajStep`, `MinStep(eq)` and `LabStep` are one iteration each. `MajDone`, `MinDone` and `LabDone` end a loop and reset `counter`.

**Arithmetic:** angles are scaled by `Span` and are exact. The code accumulates `i` in doubles. Where the exact values tie, at the loop test `i <= maxTickAngle` or at the `==` test of a minor angle against a major one, the doubles can go either way, and the model chooses (`tieMaj`, `tieMin`, `eq`). A spacing that is a whole number of degrees (`Exact`) is computed exactly, and then so is every sum and product of its loop, so its ties are decided exactly. A Python emulation of d3's linear scale on IEEE doubles agrees with this rule on all the dials checked. For example, the RSA gauge's minor spacing is 9.599999999999994.

### Proof modules

`GaugeProofs.tla`, `BenchmarkAppProofs.tla`, `LifecycleProofs.tla`, `AppConfigProofs.tla`, `RegistryProofs.tla`, `GaugeProcessProofs.tla`, `DataProofs.tla` and `TickProofs.tla` are described under "Proved". `LifecycleProofs`, `AppConfigProofs` and `RegistryProofs` each EXTEND `BenchmarkAppProofs` and reuse its well-formedness lemmas. `GaugeProcessProofs` EXTENDS `RegistryProofs`, `DataProofs` EXTENDS `BenchmarkData` and `RegistryProofs`, and `TickProofs` EXTENDS `TickLayout`.

## Runs

| Run | Config | Expect | Shows |
|---|---|---|---|
| gauge_pass | `MC_Gauge.cfg` | pass | Checks `MaxIsGreatest`, `MinIsLeastWithoutZero`, `NeedleMatchesValue` over every sequence of up to 3 samples from {0, 7.00, 20.00, 21.00} on a 0–20.00 gauge with the default angles 60/300/40/320. |
| gauge_min_violation | `MC_Gauge_min.cfg` | violation | `MinIsLeast` fails: samples 0 then 7.00 give Min = 7.00. |
| app_pass | `MC_BenchmarkApp.cfg` | pass | Checks `RegistryMatchesToggles`, `OnlyCurrentUnkilled`, `CurrentMatchesConfig`, `GaugesHaveProcess`, and the refinement `LifecycleRefined` of `ProcessLifecycle`, over about 450k states. |
| app_args_violation | `MC_BenchmarkApp_args.cfg` | violation | `RunsShownAlgorithms` fails: demo on, demo off, then AES on spawns `-ag -s256 -rd -ag`. |
| data_pass | `MC_BenchmarkData.cfg` | pass | Checks `DataTypeOK` over every interleaving of clicks, process events and chunked output from every spawned process, current or replaced, until it exits. Its main use is to explore the state space in which the three data violation runs find their counterexamples, and to fire `Emit`, `Data` and `DExit`. About 1M states, because each line may take either form. |
| data_tag_violation | `MC_BenchmarkData_tag.cfg` | violation | `SampleMatchesTag` fails: under demo, a chunk holding an AES line and then a SHA line gives the SHA gauge the AES number. |
| data_nan_violation | `MC_BenchmarkData_nan.cfg` | violation | `NumericSamples` fails: AES on, then the line "AES: 12.34" of the spec's example reaches the AES gauge as NaN. |
| data_stale_violation | `MC_BenchmarkData_stale.cfg` | violation | `SamplesFromCurrentRun` fails: AES on, then SHA on (which kills process 1 and spawns process 2), then process 1's AES output is still dispatched. |
| ticks_pass | `MC_TickLayout.cfg` | pass | Checks `LabelsAtMajorTicks` (each major tick's label is the value at its angle) on the AES, SHA and RSA dials, the spec's 0..100 dial, and a 10..80 dial whose major spacing (240/7°) ties at the loop bound. Every tie outcome is explored. |

**Why these bounds are enough:**

- The gauge values cover 0 (the falsy case), a value in range, the range's end and a value above it. Three samples are enough to set a value, overwrite it and compare.
- `MaxProcs = 4` allows a demo start followed by three restarts, and `MaxGauges = 5` allows the demo's three gauges plus two toggle gauges. These reach every handler after the others, including the error of a replaced process and the SGX switch after a kill.
- `MaxLines = 2` lets a process write two lines: enough for a two-line chunk, and for a killed process to keep one line in flight. `MaxProcs = 2` is one restart, which is all that the stale-data and leak questions need.
- The RSA dial is written in tenths (0..100, steps 20 and 4) so that its options are integers.
- Deadlock checking is off because the bounds make the last states terminal, and drawGauge's loops end. The app itself never stops.

Each property of a passing run has a mutant in `PROJECT.json`: a plausible bug in the mapped code that TLC catches.

## Findings

1. **gauge.js:61.** The test `!this.min` treats a min of 0 as unset, so a zero sample never stays the minimum (`MinIsLeast`).
2. **index.js:67-76.** Switching the demo off never clears `benchmarkArgs`. The next toggle restarts the benchmark with the demo's flags plus its own (`RunsShownAlgorithms`).
3. **index.js:190.** A chunk that holds several lines is parsed as one number, that of its first line. That number is given to every gauge whose key the chunk contains (`SampleMatchesTag`).
4. **index.js:188 (spec gap).** The stdout handler of a replaced, SIGTERM'd process stays registered, so its remaining output reaches the current gauges (`SamplesFromCurrentRun`). The spec does not say whether this is allowed.
5. **index.js:189 (spec divergence).** `+parseFloat(chunk)` finds a number only at the start of the chunk. The spec's example line "AES: 12.34", which the spec says sets the AES average to 12.34, is passed to `updateData` as NaN. That makes the running total, and so the Avg label, NaN for the rest of the run (`NumericSamples`).

The RSA gauge also draws 5 minor ticks within 1e-13° of a major tick, because `==` on doubles misses them. Spec §3 explicitly accepts this tie rule, so it is recorded as a hazard and not as a finding.

## Proved (TLAPS)

The theorems cover every value of the constants that satisfies the named `ASSUME`s.

**GaugeProofs:**

- `TypeCorrect` proves `TypeOK`.
- `MaxCorrect` proves `MaxIsGreatest`.
- `NeedlePlacement` proves `NeedleMatchesValue`.
- `MinCorrect` proves `MinIsLeastWithoutZero`.

`MaxIsGreatest` is not inductive on its own. The strengthening `IInv` adds two facts:

- `MaxUnsetInitially`: max is `Undef` until the first sample, which is needed for the first `!this.max` test.
- `NeedleAtValue`: `needleTo` is the rotation of `needleVal`, which gives continuity and placement.

`MinIsLeastWithoutZero` gets an invariant of its own, `MInv`. It adds `MinUnsetInitially`, so the first sample sets min. A min of 0 is replaced by the next sample. That is allowed because 0 is then a sample, so only membership is claimed. Otherwise min is not falsy, and the usual `data < min` test keeps it least.

The lemma `NeedleRotationPlacement` proves the clamp arithmetic for any range and any angles with zeroNeedle ≤ zeroTick < maxTick ≤ maxNeedle.

**BenchmarkAppProofs:**

- `TypeCorrect` proves `TypeOK`.
- `OnlyOneRunning` proves `OnlyCurrentUnkilled`.

The argument has three parts:

1. Each function of index.js maps a well-formed state to a well-formed one. Well-formed means: the right shape, gauge ids already issued, `current` a pid, and all other processes killed or exited. These are the lemmas `CloseProcessGood`, `StartProcessGood`, … `StartDemoGood`.
2. A state satisfying `IInv = TypeOK ∧ OnlyCurrentUnkilled ∧ IdsIssued` is well formed. `IdsIssued` is the strengthening: TypeOK alone bounds ids by `MaxGauges`, not by the number of gauges issued so far.
3. `Apply` of a well-formed record within the bounds re-establishes `IInv`.

The `IndexOf` minimum is obtained from `WFMin` on `<` over `Nat`.

**LifecycleProofs:** `Refinement` proves `Spec => LifecycleRefined`: index.js implements `ProcessLifecycle` for every bound.

- The mapping is `stBar = [p |-> LifeStatus(p)]` with `cur <- current`.
- A handler may call startProcess several times. startDemo calls it through three toggle handlers, and then once more itself. So a handler is not one spawn, and the argument follows it through the calls.
- `Pre(s, t)` relates the record at the handler's start to any intermediate record. Every old process has the stopped form of its old status. Every new process is killed and not exited.
- `CloseProcess`, `RemoveArg`, `RemoveGauge`, `NewGauge` and non-spawning `StartProcess` calls keep `Pre` (`PreSame`, `PreStart`).
- A final spawning `StartProcess` turns `Pre` into `RecRestart(s, r)`, the record form of `Restart(n)` (`FinalRestart`).
- `Bridge` lifts `RecRestart` to `Lifecycle!LNext`.
- An exit maps to `End(p)`.
- The step lemma needs `IInv`. `OnlyCurrentUnkilled` gives that a process other than `current` is never "running".

**AppConfigProofs:** `ConfigFollowed` proves `CurrentMatchesConfig`.

- The invariant `CInv = IInv ∧ CurrentMatchesConfig` is inductive once stated on records (`Matches`).
- closeProcess establishes `Matches`, because it kills `current`. startProcess establishes it, because it spawns with the current args and processName, or else only closes.
- Every handler that changes `args` or `sgx` ends in one of the two. The exception is startDemo's final push of flags, which is followed by its own startProcess.

**RegistryProofs:** `RegistryCorrect` proves `RegistryMatchesToggles`. The property is not inductive. The strengthening `ROK` adds three facts:

- the registry ids are distinct, because removeGauge deletes the container of the id it holds, and a shared id would lose another key's container;
- while the demo runs, every toggle is unchecked and disabled;
- otherwise, every toggle is enabled.

The last two are needed because `bootstrapToggle('off')` runs the change handler only on an enabled toggle, and the demo's off branch re-enables the toggles without touching `checked`. The lemmas follow each handler call by call:

- `ToggleOffReg` and `ToggleOnReg` for the two branches of a toggle's change handler;
- `OffAndDisableReg` for one `bootstrapToggle('off').bootstrapToggle('disable')`;
- `DemoOnROK` for startDemo as a whole;
- `DemoOffROK` for the demo's off branch.

**GaugeProcessProofs:** `ProcessBehindGauges` proves `GaugesHaveProcess`. The invariant `PInv` has three parts: the registry invariant `RInv` of RegistryProofs, `FlagsIn`, and the property itself while the window is open. `FlagsIn` says that the flag of every checked toggle, and of every toggle while the demo runs, is in `benchmarkArgs`. The argument:

- removeArg splices out only the first occurrence of its own flag, and the three flags differ. So a toggle handler keeps the other toggles' flags (`IndexOfHit`, `SpliceKeeps`, `RemoveArgKeeps`).
- A handler that ends in startProcess and leaves a gauge registered therefore has a nonempty `benchmarkArgs`. So startProcess spawns, and the new process is live (`StartLive`, `EndsInStart`).
- startDemo pushes all three flags before its own startProcess (`DemoOnShown`).
- The demo's off branch leaves no gauge.
- 'error' shows the error, closing the window closes it, and an exit does not touch `killed`.

**DataProofs:** `DataTypeCorrect` proves `DataTypeOK`, the invariant of data_pass, for every bound on processes and lines. The invariant `DInv` has three parts:

- the registry invariant `RInv`, which holds because every step of `BenchmarkData` is a step of `BenchmarkApp` or leaves its variables alone (`DataIsAppStep`);
- `ProcsBounded`, which says `Len(procs) <= MaxProcs`. Apply's guard gives it, and it makes every process one of the `Pids` that `out` is indexed by;
- `DataTypeOK`, which says every buffered line is tagged with an algorithm.

A 'data' step adds only `Dispatch` samples. Each of these is for a chunk key whose registry entry is not `None`, and the registry's type makes that entry a natural id (`DispatchType`).

**TickProofs:** the two theorems cover every dial that `ConfigsAssumption` allows (natural-number options, minVal < maxVal, positive steps) and every tie decision:

- `TickTypeCorrect` proves `TickTypeOK`;
- `LabelsCorrect` proves `LabelsAtMajorTicks`.

They rest on one inductive invariant, `TInv`, which says:

- every major angle is `Start + Sp*(j-1)` and passed the loop test (`MajAngles`);
- every label is `minVal + maj*(j-1)` (`Labels`);
- every minor angle is on the sweep (`MinInSweep`);
- in each phase, `i` equals `Start` plus the phase's spacing times `counter`, and the label count is tied to `counter` or to the number of major ticks (`Where`);
- after the major loop, the value after the last major angle fails the test (`MajEnded`).

`LabelsAtMajorTicks` is not inductive as it stands. It speaks only of the "done" phase, so the invariant has to say why the label loop stops at the same counter as the major loop. Two facts give that:

- the test passes below a value where it passes (`MajOKDown`);
- angles grow with the counter (`ScaleMono`).

Arithmetic lemmas:

- `DialFacts`: the spacings are `maj` and `min` times the sweep.
- `CancelLeq` and `LabelInRange`: a label whose tick is on the sweep is at most maxVal.
- `LabelScale`: valueScale of a label is its tick's angle.

**What stays with TLC only:**

- `RunsShownAlgorithms`, `MinIsLeast`, `SampleMatchesTag`, `SamplesFromCurrentRun` and `NumericSamples`, which TLC finds violated (findings 1-5), so there is nothing to prove.
- Liveness and anything that uses `ENABLED`. No liveness property is checked either: see the fairness note of `BenchmarkData`.
- Properties that need induction over data.

## Not modelled

- A chunk boundary inside a line: lines are abstracted to their tags.
- NaN in `Gauge`: its value set has numbers only. `BenchmarkData` shows that NaN reaches `updateData`, and finding 5 says what it does there.
- The stderr handler, which only logs.
- The zoom slider and the SVG drawing, which are pure rendering.
- The statistics of each gauge are modelled in `Gauge` separately from the supervisor. `BenchmarkData` records the samples each gauge receives but does not compose with `Gauge`.
