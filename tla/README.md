# Verification project for android-appsec-assessor

Android AppSec Assessor runs on a Windows host, talks to an Android device over
ADB and assesses one package inside a *session*. The web UI (FastAPI, its `def`
handlers run in a thread pool) and the CLI (another process) call the same services,
so several threads and processes act on the same session directory and device.

## Inventory

| component | state it keeps | operations | interacts by |
| --- | --- | --- | --- |
| Device lock (`device_lock.py`) | OS lock on one file per device, `<digest>.json` metadata, thread-local `held` table | enter (re-entrant for the same session in the same thread), exit, busy | every modifying workflow holds it; the web UI's status probe takes it too |
| State lock (`file_lock.py`) | OS lock per session directory, thread-local depth | enter, exit | makes each repository call atomic |
| Session repository and cleanup ledger (`session.py`) | `session.json`: status, snapshot, list of cleanup actions | initialize, activate, set_status, record / update cleanup action, `require_modifying_session_slot` | called by every service |
| Cleanup (`cleanup.py`, `services/cleanup_service.py`) | none of its own | cleanup, rollback_actions, one executor per action type | reads the ledger in reverse, writes the device, settles the ledger |
| Traffic capture (`traffic.py`) | `traffic/state.json`; device proxy, adb reverse, a mitmdump process | start, stop | records ledger entries around each mutation; rolls back on failure |
| Frida observation (`frida_controller.py`) | `frida/state.json`; remote file, remote server process, host client process | start, stop | as traffic |
| Scan orchestration (`services/scan_service.py`) | `scan.json`, `runtime-control.json` | scan_session, finalize, finalize after failure, runtime stop | holds the device lock, starts and stops traffic and Frida, runs cleanup |
| Explorer (`explorer.py`) | graph of screens, path back, canary counters, a directory on the device | run | called from a scan under device lock and traffic guard |
| Validation and scenarios (`scenario.py`, `micro_scenario.py`, services) | step results, attempts and validations in `findings.json` | run, plan, validate, record | UI calls on the device; findings under the state lock |
| Exported components (`exported_component_validation.py`) | quotas, outcomes of routes | validate | one `am` or `content` call for each route |
| Scenario correlation (`scenario_correlation.py`) | none | correlate | joins the events of all observers to the steps of a scenario |
| Rules and findings (`rules.py`, `findings.py`) | `findings.json` | evaluate, save, set_validation | reads evidence, writes findings |
| Evidence index (`evidence.py`) | `evidence/index.json` | register_file, verify | every capture registers its files |
| Private storage (`private_storage.py`) | none | collect | lists and searches the files of the app with root |
| Static analysis (`static_apk_analysis.py`, `manifest*.py`) | none | analyze | reads untrusted archives |
| Certificate ownership (`ca_state.py`) | a ledger that its caller keeps | snapshot, apply, plan_cleanup, cleanup | a certificate store of the device |
| Web UI (`webapp.py`, `web_service.py`) | instance lock, repair child process | handlers | calls the services |
| Reports, configuration, detection, mitmproxy addon, setup | files | render, detect, append | read what the others have stored |

The Frida observation and the traffic capture never call each other; a scan calls
both, in order, under one device lock that their own acquisitions nest into.

### What is hard here

* **Interleaving.** CLI processes and web threads run the same operations on one
  device. Some of what they read (the slot check, `state.json`) is read before the
  device lock is waited for, and session creation never takes that lock. Evidence
  files are written while they are hashed; findings are evaluated while a validation
  acts.
* **Partial failure.** An adb call that times out may have taken effect. The ledger,
  `state.json`, the session record and the event log are separate writes.
* **Crashes.** The OS drops the locks of a dead process; ledger, `state.json` and
  device stay as they are, and the next operation starts from there.
* **Other people's changes.** The user, other tools and reboots change the proxy,
  the mappings, the processes and the certificates. The framework must give back
  only what is its own.
* **Retries.** Stop and cleanup are repeated after failures, on actions that may
  have been settled in the meantime; an action whose outcome is unknown must not be
  repeated at all.
* **An app with a will of its own.** Between looking at a screen and tapping on it,
  the app may show another one; it may restart, write files and log at any moment.
* **Limits.** Every analysis has budgets of entries, bytes, time or actions, and what
  a budget cut off must not pass for clean.

### What makes each part correct

| part | properties |
| --- | --- |
| device lock | one body per device; a nested body keeps the lock; metadata names the holder; nobody waits for itself |
| session ledger | an action is recorded before its change and settled after its restoration; one session owns the device |
| cleanup | backwards through the ledger everything can be given back; nothing foreign is overwritten; a conflict has a cause |
| traffic capture, Frida observation | a failed start leaves nothing behind; a running capture is live; only own processes are ended; every operation returns |
| scan | `scan.json` describes the scan that runs; cleanup follows every scan |
| explorer, scenarios | quotas hold, no unclear action is repeated, the result says what happened, the runs end |
| correlation | an event is given to the step that caused it, or to none |
| rules | a verdict rests on evidence that is there, belongs to the app and is enough; recorded validations stay |
| evidence, findings | no registered file or validation is lost by a concurrent save |
| static analysis, storage search | a result without a limitation has seen everything; no method or file is accused of what is not so |

## Modules

Each module has the operations of its component as actions; a part without
concurrency of its own is still an action system, because its hazard is what the
app, the device or others do between its steps.

| module | models | how state and actions correspond |
| --- | --- | --- |
| `DeviceMutex` | what a device lock promises | one holder; acquire, release |
| `DeviceLock` | `device_lock.py`, and the probe of `web_service.py` | `flock` is the OS lock, `held` the thread-local table, `metadata` the JSON file, `frames` the bodies a thread is inside; one action per file-system or lock call of `__enter__` and `__exit__` |
| `ManagedDevice` | the device and the host as the adapters in `adb.py` and `host_process.py` see them | `proxy`, `reverse`, `alive`; a call that reports failure may or may not have had its effect; `Environment` is everybody else |
| `SessionLedger` | `session.py`, `services/session_service.py` | `status`, `ledger`, `captured`, `creating`; each repository call is one step because it holds the state lock |
| `CleanupExecutor` | `cleanup.py`, `HostProcessController.terminate_owned` | `pc`, `on`, `frame` are the program counter, session and locals of an operation; an action is decided (the read of the device), applied (the write) and marked (the ledger) in three steps |
| `TrafficCapture` | `traffic.py` | `cap` is `traffic/state.json`; one action per device call or write of `start` and `stop`, and one for each way they fail |
| `CaptureWorkflow` | `services/cleanup_service.py`; composes the four modules above | calls, deaths, interference, the properties |
| `FridaDevice` | device and host as `frida_controller.py` and the file and process handlers of `cleanup.py` see them | `servers`, `clients`, `file`; a process number stands for PID and start time, `occupied` says that somebody else has its PID now |
| `FridaObservation` | `frida_controller.py`, `CleanupService` with an observation, the remaining handlers of `cleanup.py` | `observer` is `frida/state.json`, `ledger` the session's actions with `identified` for a complete payload; `pc`, `op` are the one operation under way |
| `ScanOrchestration` | `services/scan_service.py` | `scanJson` and `control` are `scan.json` and `runtime-control.json`; `pc`, `loc` are step and locals of a thread; one action per read or write of `scan.json`, capture call, lock and unlock |
| `ExplorationLoop` | `explorer.py` | `place` is what the app shows, `current` and `seen` what the explorer believes and has looked at; one action for each UI call, decision and recovery of `run`; `unknown` holds the taps whose outcome nobody knows |
| `ScenarioRun` | `scenario.py`, the ADB backend of `scenario_service.py`, `micro_scenario.py` | a plan is a sequence of steps, made from a file or from the screen; selectors are resolved on the screen that is there when the step runs; `sent` counts what reached the device |
| `ScenarioCorrelation` | `scenario_correlation.py`, `_finalize_scenario_correlation` | an event carries `in`, the step that really caused it; `accepted` is computed by the code's rules from time, process and observer alone |
| `ComponentValidation` | `exported_component_validation.py` | candidates with quotas, the call, what is seen before and after it, BACK; a screen or log that cannot be read reads as nothing; the app moves and answers late |
| `PrivateStorage` | `private_storage.py` | listing by turns, probes with their budgets, the report with its limit; what `find` and `grep` left out without a word is in `missed`; the app writes meanwhile |
| `StringScan` | the string search of `static_apk_analysis.py` | windows with overlap over regions, with budgets that file and APK share; a token is an interval |
| `DexFlow` | the register pass over a method | `constants` and generations beside a machine whose `value` says what registers really hold |
| `ArchiveScan` | the walk over APKs and their entries | one action per archive, entry, nested archive and limit |
| `WebViewEvents` | the replay of WebView events in `rules.py` | hooks append events of all WebViews to one list; the replay is folded along with them |
| `RuleVerdicts` | the evaluators and gates of `rules.py` | operators from a record of evidence to a verdict; one operator per rule or family; a request is a sign and whom it is attributed to |
| `FindingLifecycle` | `RuleEngine.evaluate`, `ValidationService` | an evaluation reads the evidence and writes under the state lock, a validation reserves, acts, records and evaluates; captures go on |
| `SharedDocuments` | what the state lock gives to those who write under it | one step per change, made to what is there |
| `EvidenceIndex` | `file_lock.py`, `register_file` of `evidence.py`, `set_validation` of `findings.py` | `owner` and `held` are the lock, `call` the locals with the document read; hashing is two steps, because a file may be written meanwhile; the record of a finding is the number of validations that have stood in it |
| `CaOwnership` | `ca_state.py` | `installed` is the store, `ca` the ledger value; calls fail with or without effect |
| `MC*` | model checking | symmetry, thread layout, screens, archives, evidence |
| `*_proofs` | TLAPS proofs: one module each for `DeviceLock`, `CaptureWorkflow`, `FridaObservation`, `ScanOrchestration` and `ExplorationLoop`; `RuntimeChecks_proofs` for `WebViewEvents`, `ComponentValidation`, `ScenarioCorrelation`, `ScenarioRun` and `PrivateStorage`; `SessionRecords_proofs` for `EvidenceIndex`, `FindingLifecycle` with `RuleVerdicts`, and `CaOwnership`; `StaticAnalysis_proofs` for `StringScan`, `DexFlow` and `ArchiveScan` | |

### Abstractions worth knowing

*Captures.* A proxy value `127.0.0.1:p` is the port `p`, values that others set are model
values; a mapping of an endpoint is `none`, `own` (the framework's form) or `other`; a
process is its (PID, creation time) pair, a reused PID is in `reused`; evidence files are
one bit. A process whose termination went wrong without a word is in `spared`, also when
the wait for its end ran out and it ends later. Inside an operation under the device lock
a failing ledger write in rollback or cleanup ends the operation at that point: this is
the same as `Crash`, so no action of its own stands for it. The device lock is taken in
one step because `DeviceLock` is shown to implement `DeviceMutex`.

*Frida.* Start, stop and cleanup each hold the device lock from their deciding checks
to their end, so a second operation on the device cannot come in between, and the
checks made before the lock are repeated under it: the model has one operation at a
time. Sessions are there from the beginning. The number that names a process never
comes back, its PID may: `_stop_remote_process` and `terminate_owned` compare start
times, and `Kill` of a number whose PID somebody else has sets `stray`.

*Scan.* A capture is started, stopped and cleaned in one step, with the outcomes that
`CaptureWorkflow` and `FridaObservation` have; `reopened` is history: the sessions of
which a capture was stopped again after they were cleaned. The contents of the runtime
window are one step, which anything may interrupt with an exception; the window's parts
are the modules below it, each checked on its own. `by` in `scan.json` and the number in
`control` are not in the files: they number the scans, so that properties can say whose
they are. `overlap` is history: the sessions of which two scans were under way at once.

*Explorer and scenarios.* A screen is its fingerprint and activity; labels, scores and
danger words are what the choice depends on (a rank, a score, `safe`, whether it is the
title, a menu or an input that waits for a topic to be heard of). Time is counted
in units of an action's timeout.

*Analysis.* Bytes are counted, patterns are intervals, and an archive entry is a
record of what is wrong with it. A jump to a label between two branches is not seen by
the register pass, and `DexFlow` speaks of control that runs straight from the last
branch.

*Rules.* A piece of evidence is a set of the kinds of signs the evaluators look for;
traffic also says who sent it, and `raises` that the evaluator which reads it raises.
Only the status and the source of a verdict are kept. Storage events are never passed
by the scan service to the correlator, so that branch of the storage validation is
left out.

The traffic capture records an action *before* it changes the device. The validation plan
(`docs/android-device-validation-plan.md:14`, "Record ownership immediately after
each mutation") has it the other way round; `WriteAhead` states what the code does,
and why it is the safer order.

## What the runs check

Properties of one question are grouped in one conjunction, whose parts are definitions
with comments of their own.

| run | properties and their parts | bounds |
| --- | --- | --- |
| `device_lock` | `LockHolds` (types, `MutualExclusion`, `BodyHasLock`, `NestsOneSession`), `MetadataNamesHolder`, `NoEndlessWait`, `ImplementsMutex` | threads of two processes and the probe, nesting 3, 2 deaths |
| `capture_sessions` | `NothingUnrecorded` (`WriteAhead` of `MappingsOwed` and `ProxyOwed`, `OrphansOnlyByCrash`), `OneOwner`, `RunningIsLive`, `ReactivatedOwesNothing` | 2 sessions, 2 actors, 2 ports, 2 processes, 1 failure, 1 death |
| `capture_environment` | `SettledMeansRestored`, `NoExternalOverwrite` | 1 session, 1 actor, 2 ports, 1 foreign value, 2 changes by others, 1 failure, 1 death |
| `capture_recovery` | `Recoverable`, `ConflictHasCause`, `Returns` | 1 session, 1 actor, 2 ports, 2 processes, 3 failures |
| `capture_stolen` | `NoForeignRelease`, violated | 2 sessions, 1 failure |
| `frida_observation` | `LedgerTruthful` (types, `SettledMeansGone`, `FailureHasCause`), `LeftoversHaveCause` (`OrphansHaveCause`, `FilesAreOwed`), `RunningIsLive`, `EndsOnlyItsOwn`, `Returns` | 2 sessions, 3 processes, 4 actions, 1 failure, 1 death, 1 thing that happens on its own |
| `scan_orchestration` | `FilesTruthful` (types, `CleanReportTruthful`, `LoneScanReported`, `StaleRunningHasCause`, `StopsItsScan`), `ScanOwnsDevice`, `GuardedExploration` | 2 sessions, 2 threads, 2 scans, 1 request of others (a start or stop of a capture, a cleanup, a stop request), 1 failure or death |
| `exploration` | `LimitsHold`, `NoBlindAction` (`NoBlindRepeat`, `StaleScreenHasCause`), `ResultTruthful` (`NavigationSettled`, `TruthfulResult`, `CanaryAccounts`), `Ends` | 2 screens with a form each, an activity, a deep link and a foreign one, 5 actions, 2 states, depth 1, 2 failures, 3 units of time |
| `runtime_checks` | `ScenarioTruthful`, `RunEnds`; `EventsPlaced`; `ReplayTrue`; `ReportCovers`; `CallsConfirmed` | 4 screens, 7 steps; 2 steps, 2 processes, 2 events, 3 instants; 2 WebViews; storages of up to 4 files, 2 probes and as many reported files, 3 bytes; manifests of up to 6 components, 3 routes, 2 moves of the app |
| `scenario_control` | `OnlySafeControls`, violated | as above |
| `session_records` | `SearchComplete`, `StringSearchEnds`; `FlowTrue`; `WalkComplete`; `ValidationHonoured`, `VerdictCovered`; `WritesKept`, `ImplementsDocuments`; `CertificateAccounts` | regions of up to 9 bytes with windows of 2 to 4; every method of up to 4 instructions over 2 registers; up to 3 archives with every bad entry; each rule over the evidence that it looks at, 2 attempts, 1 later capture; 2 threads, 2 files, 2 findings that are validated, 3 calls, 2 failures or deaths; 3 certificates, 3 failures, 3 changes by others |
| `candidate_erased` | `CandidateSurvivesGate`, violated | as above |

The runs from `runtime_checks` on put parts that share no state into one configuration:
every initial state starts one part and leaves the others at a fixed state, so nothing
is multiplied and nothing is hidden.

Three runs end in a violation and are listed as findings in `PROJECT.json`.

* **Stolen proxy** (`capture_stolen`). The OS may hand the same port out again. A
  repeated stop of the first session then finds "its" value and takes it from the
  second one.
* **Another control** (`scenario_control`). The planner of micro-scenarios counts all
  nodes of a class into the index of a control without a name, the runner only those
  that are enabled. With a disabled button before it, the plan for the safe button
  taps a later, dangerous one. `NamedControlsAreSafe` shows that controls are not
  confused when the plan knows them by names that only controls of one kind carry,
  on whatever screen.
* **Erased candidate** (`candidate_erased`). "The capability gate must not erase that
  candidate", says the comment in `rules.py`, but a full scan with root that did not
  inspect the storage gives `ERROR`, and only `SKIPPED` is rescued. `CandidateKept` shows
  that nothing but an error does this, and which errors.

### What the properties leave room for

Some properties have antecedents or bounds that stand for something the code does.

* **Late stop.** A capture in state `stop_failed` can be stopped again after the
  session was cleaned; `stop` then sets the session ACTIVE. `ReactivatedOwesNothing`
  shows that a session revived in this way owes nothing. After a scan this makes the
  clean report in `scan.json` untrue, as the session is active again, and a termination
  that raises in the late stop leaves a settled action as failed: `CleanReportTruthful` and
  `ScanOwnsDevice` except the sessions to which it happened since they were cleaned
  (`reopened`), and no others.
* **Host processes that pass for ended.** `terminate_owned` takes an `OpenProcess` that
  fails for an ended process, and does not look at what the wait for the end says
  (`host_process.py:119`, `130`). A live mitmdump or Frida client is then settled as
  SKIPPED or COMPLETED, or dropped by a failing start. `spared` holds exactly the
  processes to which this happened; `OrphansOnlyByCrash`, `SettledMeansGone` and
  `OrphansHaveCause` speak of all others.
* **Self-made conflict.** The ledger of a session may hold a second proxy action
  stacked on one that a dead actor left. A stop that is repeated after both were
  settled executes the upper one again and records a conflict, which no later
  cleanup can resolve, although nobody else touched the device. Therefore
  `Recoverable` and `ConflictHasCause` exclude deaths, and ask for a cleanup when no
  other session owns the device.
* **Orphaned server.** The server is launched first and recorded afterwards, by its
  PID. A launching call that times out after the server is up leaves a server that
  runs as root and is in no ledger. `OrphansHaveCause` bounds the damage: one server
  for each call that failed or operation that died, and no client without a death,
  but for those that passed for ended.
* **Forgotten file.** A test for the file that could not be made counts as an absent
  file, so the action is settled and the session clean while frida-server is still on
  the device. `FilesAreOwed` shows that nothing but a failing call does this.
* **Refused scan.** A scan that does not get the device ends in the same `except` as one
  that was interrupted: it is finalised, cleans the session and writes `error` over the
  `scan.json` of the scan that runs. `LoneScanReported` shows that this needs two scans of
  one session.
* **Stacked captures.** A capture started over the proxy of a dead one remembers that
  proxy as the previous value, and puts it back when it is cleaned, also if the action
  of the dead one was settled before. This takes three starts that die on one another
  with a port handed out again, and then cleanups that fail: the run's bounds do not
  reach it, the attempt to prove `WriteAhead` without it did. `ProxyOwed` therefore
  makes an exception for a proxy that a ledger remembers (`PutBack`); mappings have
  no previous value, and `MappingsOwed` has no exception.
* `trespass` is history: it becomes true when actions of one session are executed
  while another has unfinished ones (the late or repeated stop above).
  `Recoverable` and `ConflictHasCause` speak of behaviours
  in which that did not happen; the run `capture_stolen` shows what happens if it does.
* `Racing`: adb has no compare-and-set, so what others do between the read and the
  write of one operation is overwritten, whatever the code does. The constant is
  `FALSE` in `capture_environment` only, which keeps others out of these gaps;
  everywhere else it is `TRUE`.
* **Absent certificate.** A cleanup that finds the certificate gone already leaves it
  in the ledger as the framework's. A later cleanup can then remove the same
  certificate installed by the user afterwards, and an installation overwrites one
  that came after the snapshot: the antecedent `since` of `ForeignCertificateKept`.
* **A started activity that does not resume** leaves the explorer with the screen it
  had before (`StaleScreenHasCause`).
* **No process found.** A step in which no process of the app was seen accepts the
  events of any process seen in the scenario, and `collect` and `cleanup` keep the
  process of an earlier step (`OwnProcess`).
* **Absence in the storage.** An internal directory named `external` is taken for the
  external one, paths with shell characters are skipped while the inventory counts as
  completed, and `find -maxdepth` cuts silently; `Alone`, `line` and `deep` in
  `AbsenceIsEvidence` and `ModesAllSeen` name these. `list_storage` pipes `find` into
  `head` and sees the status of `head`: a `find` that was denied a directory, or was
  ended, leaves an inventory that counts as completed, although `rules/coverage.yaml`
  (line 114) speaks of a complete one. A `grep` that found nothing cannot be told from one
  that was never run, because `su` and `adb` also end with 1. What was kept back in these
  two ways is in `missed`, and absence is evidence for the other files only. A file with a
  mode of fewer than three digits is searched and then skipped, and the report ends when
  it has `max_evidence_count` files, with one `<remaining>` for the rest; the inventory is
  "partial" then.
* **Errors before candidates.** An evaluator that raises ends in `ERROR` before the static
  candidates are looked at (`Raises`), and so does a root module that failed, for the
  storage rule: the two cases of `CandidateKept`. Neither makes anything pass.
* **Passing.** `PassIsCovered` says what each rule has to have seen, and where that is
  little: `private_files` and `observation` pass whatever their coverage, a crypto rule
  ignores operations outside the windows, `exported` ignores components whose state
  is unknown, and a storage candidate whose validation passed clears the finding even
  though a later inventory saw a file that is open to everybody (`WorseNeverPasses`
  is about findings that did not pass yet).
* **Repeated validation.** An inconclusive validation takes the place of an earlier
  confirmed one: `ValidationKept` and `Reevaluated` speak of the last that was recorded.
* **Exported components.** Disabled components use up quota; the overall
  `cleanup_status` is "completed" even when a BACK failed, so `ConfirmedWasLeft`
  speaks of confirmed routes only. An activity in front
  that could not be read before the call differs from every candidate, so one that was
  there all along is confirmed, with the reason that the launch "produced a target-PID
  foreground transition" (`exported_component_validation.py:538`). `ShownSinceCall`
  excepts the candidates that were called while it was unknown (`blind`), and no others.

**Bounds.** A hazard of the captures needs at most two owners, two values of the
proxy and a short history of failures; the bounds give each of these and one more
start than a hazard needs. They do not carry the properties: each property of captures,
observation and scan was also checked in larger instances (three processes with three
failures; two sessions with three failures, or with three processes and one failure
and one death; three changes by others with two failures; two Frida starts for each
session, with four processes; scans with two failures, or with two requests of others;
up to 20 million states). The explorer's screens give a form whose carrier has to be
found, one that is retried, a way to a screen by tap, activity and link, and quotas
that end the run in each of these. Windows, budgets and sizes of the analyses are small
numbers that stand on both sides of each other: a token that ends on a seam, a
budget that ends in a token, in a file and in the APK. `DexFlow` runs every method
of its size. The evidence of a rule ranges over all combinations of the fields that
its evaluator reads.

**Fairness.** `FairSpec` of `CaptureWorkflow` is weak fairness of `ActorStep(a)` for each
actor: a call that was made goes on, because every adb and process call has a timeout
and a lock that is held is refused at once (`timeout=0` is the default of the operations).
In `FridaObservation` it is weak fairness of `OperationStep`, for the same reason.
`DeviceLock` assumes weak fairness of each thread's own steps. The explorer has weak
fairness of its own steps and of time, since `Ends` rests on its deadline as well as on
its quotas; the scenario runner and the string search have weak fairness of their own
steps. Nothing is assumed of callers, of the app, of the environment, of deaths, or of
who gets a lock.

**Deadlock** is checked in `device_lock` only: in the other runs, with the bounds used up,
every session cleaned or the result written, the system rightly stops.

## What is proved

TLAPS proves, for all values of the constants, from the named assumptions of the
modules (`LockAssumption`, `DeviceAssumption`, `ActorAssumption`, `StoreAssumption`,
`CaAssumption`, `ScanAssumption`, `FridaDeviceAssumption`, `FridaAssumption`,
`ExplorerAssumption`, `IpcAssumption`, `CorrelationAssumption`, `ScenarioAssumption`,
`FindingAssumption`, `StorageAssumption`, `DexAssumption`, `ArchiveAssumption`):

* `DeviceLock_proofs`: `TypeCorrect`, `LockExcludes`, `NestedBodyKeepsLock`, together
  `LockHoldsAlways`; `MetadataTruthful`; and `Refinement`: the lock implements
  `DeviceMutex`. The invariant `IInv` adds that a thread between lock and unlock holds
  the OS lock and that the thread-local depth is the number of bodies the thread is
  inside; without the latter, the inner exit could not be told from the outer one.
* `CaptureWorkflow_proofs`: `TypeCorrect`, `DeviceHasOneOwner`, `ChangesRecorded`,
  `ReactivationIsClean`, `ForeignSettingsKept`, `SettledIsRestored`, `RunningIsCaptured`,
  `ConflictsAreCaused` and `CleanupIsPossible`: every safety property that its passing
  runs check.
  - *One owner.* `Shape` ties the locals of an operation and the ids in `state.json` to
    the ledger: the action that is executed next is always one of that session's
    ledger, because ids are kept only after the action was recorded, ledgers only
    grow, and `stop` runs only on a capture that has a state. `Ownership` adds to
    `OneOwner` that a cleaned session has no pending action (the slot check skips
    cleaned sessions, so this is what makes the check complete) and that while a start
    is between its lock and its end no other session has one (which the second check,
    under the lock, establishes and the lock preserves).
  - *Nothing unrecorded.* `Debts` adds that what an actor is about to change is already
    owed (`Announced`: the record comes before the change), that a live process which
    its own frame does not hold is owed or passed for ended (process numbers are unique
    and never exceed the number spawned), and that what is about to be marked as settled
    was given back, or passed for it (`GivenBack`). Only a failing call adds to `spared`.
  - *Reactivation.* `Reopening`: a session is captured once; a cleaned session owes
    only what its `state.json` names; a stop without errors has settled everything it
    went through of that; no start or cleanup under way finds its session cleaned.
  - *Foreign settings.* `Gaps`: between the read of a setting and the write that
    depends on it an operation still has before it what it read. This is the theorem
    with `ASSUME ~Racing`: with others writing inside that gap the code has no call
    that could close it, and `ForeignSettingsKept` says that this gap is the only one.
  - *The way back.* `WayBack`: the proxy is what others set last, or an unsettled action
    of some ledger has that value as its previous one. A start records the value before
    it overwrites it, and an action is marked as settled only when its value is back or
    others have chosen another. This too is about `~Racing`; it needs no assumption about
    `trespass`, which an earlier form of the property excluded.
  - *Running.* `Working`, an invariant of the states in which nothing failed, died or
    interfered (`Calm`): at most one session is captured; what a start has recorded,
    step by step, is what it applied (`Begun`); what a running capture names in
    `state.json` covers all that its session owes (`Captured`), so a stop without
    errors leaves nothing; and what the stop has still to give back is as it was
    applied (`GoesWell`), so it has no errors and no rollback or cleanup finds work.
  - *Conflicts.* `Stacked`, an invariant of the states in which nobody interfered or
    died and no session's actions were executed while another had some to execute
    (`Quiet`): the actions on the proxy all have the same previous value, the one that
    others set; the one in effect is the last of its session and is not settled; and
    something keeps every start from going over it (`Held`: a capture that has to be
    stopped first, a failed attempt, or a start that is not through with it). A
    rollback and a cleanup go backwards, so it is put back first, and what a cleanup
    left behind was tried (`Tried`): that attempt is the cause.
  - *Cleanup as a whole.* `Recoverable` follows a recursive function through a ledger.
    `Restorable` says what the device looks like before action i is given back: the
    proxy is what others set, or it is still the one in effect, whose action is then
    among the first i, and the last of them on the proxy. `GivesBack` shows it of one
    action; `Downwards` stands in for the induction, as a statement about a set of
    numbers, which has a least element (`LeastNumber`), and `GoingBackExists` shows
    that the recursion defines a function. The lock plays no part: the theorem holds
    of every state, not only of those in which nobody holds it.
* `FridaObservation_proofs`: `LedgersAreTruthful`, `LeftoversAreExplained`,
  `EndsOwnOnly` and `RunningIsAlive`: every safety property the run checks. `Shape` says
  what a start has recorded at each of its steps, so that an id that was kept names the
  entry of that very process.
  - *Truthful.* `GivenBack`: a verdict that settles the action in hand is already true of
    the device, or the client passed for ended, and it stays so because a process number
    never comes back (`Numbers`). `Identified` and `ReadyMeans` leave a death before the
    identification as the only reason for which an action on a running process fails
    without a failed call.
  - *Leftovers.* `NewOrphanClient` and `NewUnclaimed` show that a process drops out of
    sight only in the step that counts a death or, for a server, a failure, and that
    such a step loses one process at most; the cardinalities follow. A client that passed
    for ended is in `spared` for good, so it is never among those that are counted.
  - *Own processes.* `Names` and `EntriesFit` tie each entry to the session that started
    the process. `Apart` is what keeps sessions from each other: while one starts, no
    other has a process that runs, and a cleaned session has none, so a server that a
    running observation uses is never one another session still has to end.
  - *Live.* `Observing`, an invariant of the states in which nothing failed, died or
    happened on its own: an observation that is called running is alive or just being
    stopped, since an operation on a running observation is a stop.
* `ScanOrchestration_proofs`: `OwnsDevice`, `Guarding` and `FilesTruth`. The invariant
  says that a cleaned ledger owes nothing and that the session of a scan that holds the
  lock is not being cleaned by anybody (`Ledgers`, where a cleaned session that owes
  something is in `reopened`: nothing but a late stop puts it there, and a cleanup that
  completes takes it out); that the guard capture runs from its start to the end of the
  exploration window (`Guards`); that what a finalisation saw stays true until it has
  written it (`CleanClaims`); and, place by place, why `scan.json` may still say running
  (`Explained`, `StaleRunningHasCause`).
* `ExplorationLoop_proofs`: `LimitsAreHeld`, `NeverActsBlindly` and `ResultIsTruthful`,
  every safety property of the run, for every app, manifest and `ExplorerConfig`.
  - *Limits.* `Budget`: each step of a form leaves room for the steps the form still
    asks for; `Depth`: only a tap below the limit and a navigation from the bottom of
    the stack lead deeper, and a form is never entered at the limit.
  - *Nothing blind.* `Known`: what a form taps was noted as executed before and was
    never in doubt, and every tap in doubt is among what was executed, so that neither
    the choice nor the retry of a form can come back to it.
  - *Result.* `Waiting` follows each target: while the loop runs, one without a verdict
    waits or is in hand, and the loop is idle only when none waits, or when a form has
    to be found first. `Accounts` adds to the sums the canary whose outcome is still
    open (`InFlight`); each step is shown to be in balance (`AccountSteps`).
* `SessionRecords_proofs`: `NothingIsLost` and `OneStepToOthers`, the refinement of
  `SharedDocuments`; `ValidationsAreHonoured` and `VerdictsAreCovered`; `AccountsRight`,
  an action property.
  - *Evidence index.* `WritesKept` is not inductive: `StoreInv` adds the depth of the
    lock at every place of a call, that a document which a thread has read is still the
    current one until it writes (`ReadIsCurrent`, which is what the lock is for), that a
    hash is no older than its call and than the entry it replaces (`HashFits`), that the
    index is never ahead of the files, and that a call on its way out has written.
  - *Findings.* `Locked`: whoever holds the state lock has read the validation that the
    finding has, and nobody else changes it; `Progress` says what the validator has
    done at each of its places; `Judgement`: what a finding shows is `Status` of the
    evidence and the validation it was judged by. With these `VerdictCovered` is a
    statement about `Status`, and it is proved of evidence of any shape
    (`EvidenceRecord`: any set of files, signs and components, any sequence of
    cryptographic operations) and of all modelled rules. The error of an evaluator that
    raises goes before the candidates and behind a confirmation, which each of these
    lemmas treats first. `GateStands` and `BadFilesStand` follow a verdict through the
    gate and the static candidates; `PassesBy` says by which of its ways a rule can
    pass. `WorseStands` goes rule by rule from the evidence with one more sign of a
    weakness back to the evidence without it; for the rules on cryptography this
    compares the coverage of two sequences of operations.
  - The first attempt at this proof failed for a reason: with three validation attempts
    a finding can be confirmed, the process can die before the re-evaluation that
    follows, and a later validation can be inconclusive, as the one evaluated before
    was; `ConfirmedIsOwn` then compared the finding with a validation it had not been
    judged by. TLC found the trace with `MaxAttempts = 3`. The code is right to show the
    confirmation as long as it is the last validation (`ConfirmationShows`, which the
    invariant needed and which is now checked and proved too); the properties about
    verdicts speak of findings that were evaluated since their last validation, which
    `judged.validation = Unjudged` now tells apart.
  - *Certificates.* The invariant says for every place in apply, rollback and cleanup
    what the ledger in hand claims and who put the certificate there.
* `RuntimeChecks_proofs`: `ReplayIsTrue`, `CallsAreConfirmed`, `EventsAreAttributed`,
  `ScenariosTellTheTruth` and `ReportsCover`.
  - *WebView events.* The invariant ties the state the replay keeps for each WebView to
    the WebView, so that a moment of exposure is seen by the event that begins it.
  - *Exported components.* `Turns` says which candidate each place of the loop is about,
    `CallsFit` that nobody is called before or twice in his turn, `Noticed` that what is
    in front, other than what was read before the call, or is logged has really been
    reached, unless nothing could be read then, and `Founded` that each outcome so far
    rests on that. It is proved for any manifest and any quotas.
  - *Events.* `Chronology`: the windows of the steps follow one another and meet in a
    single instant at most. `Placed`: an event lies in the window of the step it really
    belongs to, and in that of another only at its edge; `Pending` does the same for the
    step whose window is not closed yet. `ResolvedIs` shows that the process which the
    code resolves for a step is one that was seen, and `FirstIsVerified` that the least
    of several exists.
  - *Scenarios.* `Reached` and `Through` say what a run has behind it at step i: the
    steps before are completed, those after were not tried, and i itself was tried at
    most once; so a failure, an unknown outcome and the end all leave the results in
    order. `PlanIs` shows that what the planner makes of any screen is a plan a runner
    can end, and `Names` follows each control from the plan over `aim` to `touched`.
    The first attempt showed that `NamedControlsAreSafe` had been true of the run's
    screens only: it asked for names that no two controls of one screen share, and a
    dangerous control of another screen may carry the same one. `Telling` now asks for
    names that tell the kind of a control on every screen.
  - *Storage.* `AbsenceIsEvidence` compares the device, which goes on changing, with a
    listing that is past. Three things carry it: an inventory that was not cut has a turn
    for every file (`TurnOf` gives different files different turns, so listing by turns
    loses none); a file that holds the canary since the listing is on the device unchanged
    when its turn comes; and the candidates that are gone were searched, unless the search
    says that it is not completed. `missed` is chosen once for the listing, of any files,
    and grows with every answer of a `grep` that did not run. No limit has to be large
    enough, and the storages are of any size.
* `StaticAnalysis_proofs`: `SearchesAreComplete`, `FlowIsTrue` and `WalksAreComplete`.
  - *Strings.* `WindowsMeet`: a window begins one overlap before the place up to which
    the bytes are charged. A token that was not found yet ends at that place or behind
    it, so a short one begins inside the next window (`TokensAreMatches`); and a match
    that ends with the window counts only at the end of a region that is searched as a
    whole, where nothing is cut off (`MatchesAreTokens`). The bytes charged are a set
    here, `Charged`, and `ChargingIs` shows that a window adds to it just those that the
    budget pays for.
  - *Registers.* `GenerationsBounded`: every generation lies between the lowest one that
    the epoch can give and the next one. Hence a generation made up for a register that
    was never defined (`-(flow_epoch * 0x10000 + register + 1)`) is that of no other
    register and of no earlier epoch, which is all that 16 bits for a register are
    needed for. With this, equal generations mean equal objects through every
    instruction.
  - *Archives.* `Passed`: what is before the place the walk has come to was analysed, or
    a problem is noted; `FirstOfName` ties an entry that is skipped for its name to the
    earlier one. Names, sizes and contents of entries are arbitrary.

Every safety property that a passing run checks is stated by one of these theorems.
Only model-checked is liveness (`NoEndlessWait`, `Returns`, `Ends`, `RunEnds`,
`StringSearchEnds`), which like `ENABLED` is out of the prover's reach. The prover
also has no induction over data; where a property was about a recursive sum (the
bytes searched) it is now about the cardinality of a set, and `Recoverable`, which is
about a recursive function, rests on least elements of sets of numbers instead.

## Plan

Done: locks, ledger, captures, observation, scan, explorer, scenarios, correlation,
component validation, storage, the analyses with a state of their own, rules and the life
of findings, evidence index, certificates; the theorems about all of them. What is left,
most important first:

1. `InstanceGuard`: the web UI's instance lock and repair child.
2. The parts of the runtime window composed with the scan: which of them runs after a
   stop request or a failure of another.
3. An abstract specification of the two-phase slot check that `OneOwner` rests on.

## Not modelled, and why

* **Parsers** (DEX tables, binary XML, manifests, signatures, UI dumps, `frida_events`,
  `logcat`): functions from bytes to records, without a protocol; unit tests reach
  them better.
* **Environment and configuration**, **Setup and static assets**: detection,
  configuration files and installation have no state that anything else shares.
* **Reporting and command line**: rendering of what the other parts have stored.
* **The mitmproxy addon** runs inside mitmdump and only appends redacted events.
* **The rule catalogue**, the texts and the mappings of findings; the contents of
  evidence, the event log and command logs: only whether writing them fails, and what
  kind of sign they show, matters to what is modelled.
* **Web handlers, instance lock and repair child**: see the plan.
* **Root and Magisk detection, logcat capture and the force-stop of a failed spawn**:
  device calls whose result decides nothing that a property here is about.
