# ABB Terra AC integration: specification and proofs

The integration (`src/custom_components/abb_terra_ac`) polls a wallbox over Modbus TCP from
Home Assistant, shows its status, writes limits and session commands to it, repairs limits
that its firmware resets, and derives a session state the charger does not report. It is a
small program with few lines of arithmetic and many orders of events: polls that wait in the
middle, service calls that run beside them, a charger that changes by itself, failures that
are tolerated for a while. The modules here model that part, TLC checks it on small
instances, and TLAPS proves the statements that matter most for every value of the constants.

## The system

| Component | State | Operations | Meets the others through |
| --- | --- | --- | --- |
| Polling coordinator (`__init__.py`) | last data, `_failed_polls`, `_last_success`, `_is_available`, `last_update_success` | set up, poll (read, judge, restore, publish), fail, unload | the connection; every entity reads its data |
| Limit repair (`__init__.py:175-386`) | per limit: last valid value, attempt flag; persistent issues | part of a poll, with one awaited write per limit | the issue registry, which outlives the coordinator |
| Session state (`session_state.py`, `__init__.py:279-418`) | `last_command`, `_state_5_polls`, `_session_was_active` | derived after each poll; buttons set `last_command` | buttons |
| Commands (`button.py`, `number.py`, `switch.py`, `errors.py`) | none beyond `last_command` | press, set, toggle: write, then request a refresh; start may write twice | connection's queue, debouncer of the refreshes |
| Session energy sensor (`sensor.py:293-348`) | `_last_energy_value`, `_last_reset` | every update, construction | the recorder, which sums cycles up |
| Config entries (`config_flow.py`, `options_flow.py`, `__init__.py:85-114`) | entries (version, charger, unique ID, options), open flows | user, reconfigure, options, migrate, remove | each other, while probes are awaited |
| Entry lifecycle (`__init__.py:52-172`) | the loaded coordinator, tasks | set up, unload, reload, with calls and polls of the coordinator before still under way | the connection, the issue registry |
| Device library (`api/device.py`) | cached serial number | decode the status block, encode writes | all of the above |
| Other sensors, binary sensors, error codes (`sensor.py`, `binary_sensor.py`, `switch.py`, `const.py`) | none | compute what is shown from the latest data | registers that several of them read |
| Diagnostics, texts | none | report | - |

What is hard: a poll is a coroutine with up to three awaits (read, fallback restore, current
restore); anything may run in each. Failures are of three kinds and treated in two ways.
Restores are written on the basis of what was read before. Service calls ask for refreshes
that the debouncer runs, puts off or drops. `last_command` is set by buttons and cleared by
polls, which may have been read before the press. Unloading an entry ends neither the calls
under way nor a poll that one of them began: these go on beside the next coordinator, on the
same connection and with the same issues. Entities read one register through tables of their
own. Issues outlive the coordinator that opened
them. What the session was like must be told from samples. `PROJECT.json` lists each of these
as a hazard, at its line, with the properties that watch it.

What makes each component correct: the coordinator shows no old data as available, and an
outage ends with a good poll; a limit is restored once, and reported when that fails; the
session state is the one the history calls for; commands return, and what is shown converges
to what the charger holds; energy is counted once; there is one entry per charger.

## Modules

| Module | Models | Used by |
| --- | --- | --- |
| `SessionState` | `derive_session_state` | `Coordinator` |
| `Coordinator` | the coordinator, its entry and its charger | everything below it |
| `CoordinatorProperties` | its properties; instances of `LimitRepair` | `AgeHistory`, `MCLimits` |
| `AgeHistory` | `Coordinator` with the age of the data it shows | `MCAvailability` |
| `LimitRestore` | what the repair of one limit promises (abstract) | refined by `EntryLifecycle` |
| `LimitRepair` | `LimitRestore` with the notice of the user (abstract) | refined by `Coordinator` |
| `Entities`, `EntitiesProperties` | what the entities compute from the data; errors; ranges | `MCLimits`, `MCSession`, `Commands` |
| `SessionHistory` | `Coordinator` with a log of polls and presses | `MCSession` |
| `Commands` | `Coordinator` with real service calls, debouncer and request queue | `EntryLifecycle` |
| `EntryLifecycle` | `Commands` with the entry unloaded and set up at any time | `CommandsProperties`, `MCCommands` |
| `IssueHistory` | `EntryLifecycle` with a note of who spoke last of the issues | `MCReloads` |
| `LifecycleHistory` | `EntryLifecycle` with a log of polls and presses | `LifecycleProofs` |
| `EnergySensor`, `EnergyProperties` | the energy sensor, its register and the recorder | |
| `ConfigEntries`, `ConfigEntriesProperties` | entries, flows, migration | `MCConfigEntries` |
| `StatusBlock` | registers, decoded and written | `CoordinatorProperties` |
| `*Proofs` | theorems about the component of that name; `RepairProofs` about limits and issues, with the refinement of `LimitRepair`; `EntitiesProofs` also about the session; `LifecycleProofs` about all of these beside calls and old polls | |

### Coordinator

A poll is cut where the code awaits, and each piece is one action: `SetUp`, `ScheduledRefresh`
and `RequestedRefresh` send the read; `ReadSucceeds` runs `_async_update_data` from the answer
to the first restore it has to await (`AwaitRestore`) or to its end (`FinishPoll`, with the
sync of the last command, the counters and the scan interval issue); `RestoreSucceeds` and
`RestoreFails` continue it; `ReadFails` is the `except` clauses; `SetUpFails` is
`ConfigEntryNotReady`. The state of the coroutine is `poll` (which answer it waits for) and
`polled` (its local `data`). A restore that fails may have been applied, its answer lost.
`Press` is a button handler up to its first await. `ShutDown` drops everything but the limit
issues, the poll in flight with it: that is a stop of Home Assistant, or an unload with no
poll in flight but one of the schedule's. An unload that a call's poll outlives is
`EntryLifecycle`'s.
`ChargerChanges` lets the registers become any of `Statuses` at any time. Time is in ticks;
`timer` counts down to the next poll or the timeout of the request in flight, and is not
allowed to pass it, as the request fails then. The data library is represented by the decoded
record `Status`, in register units (mA, A): `StatusBlock` shows that every block decodes to one.

`RequestedRefresh` may happen whenever no poll runs, which is more than real refresh requests
do; `Commands` replaces it by the calls and Home Assistant's debouncer.

### Commands

`Begin` is a service call up to its first await: availability check, `last_command`, the
request put on the wire. `WriteFails` and `WriteSucceeds` are the answer; the latter asks for
a refresh the way `Debouncer.async_call` answers: dropped while a refresh runs, put off while
it cools down, run otherwise. `Resume` is the return from a refresh this call ran. `GoOn`
decides the start button's second attempt. `wire` is the order of requests on the connection,
which serves one at a time. A poll may be due at any time, and any time may pass between two
steps (`TimePasses`), so that failures are tolerated or not. The debouncer,
the request queue and the schedule are external (Home Assistant and `modbus_connection`),
modelled from how the integration uses them.

### EntryLifecycle

`UnloadEntry` is `async_unload_entry` with the shutdown of the coordinator: the schedule, the
poll it has begun and the debouncer end. What service calls have started does not: they, and
a poll that one of them or the debouncer's cooldown has begun, are Home Assistant's tasks and
not the entry's (external). `old` is what is left of that coordinator: its calls, its poll
with what it has read and remembers, its data. `OldPollMoves` and `OldCallSteps` are their
remaining steps: the old poll judges limits and writes restores by its own memory, opens and
closes the issues that the new coordinator's polls also open and close, and publishes to
nobody; an old call's request for a refresh is ignored, as the debouncer was shut down. One
unload's work ends before the next unload (a bound; a setup may come at once).

### Entities

An entity has no state: its value is an operator over `coordinator.data`. Modelled are those
that interpret a register (charging state, socket lock, error code, the session state, the
charging and cable binary sensors, the lock switch, the range of the numbers);
`decode_error_bits` selects the documented bits that are set and takes their mask away.

### The others

`SessionHistory` adds a log and no behaviour, and lets time stand still: what the session
memory holds depends on the order of events only. `EnergySensor` has the register, which
starts from 0 in each session, the sensor (`HandleUpdate`, `Reload`) and the recorder, which
adds differences within a cycle and starts a cycle from 0 when `last_reset` changes
(external). `ConfigEntries` cuts a flow at its form and at its probe; after the probe the code
checks and writes without awaiting anything else. It has one action for the three migration
steps, which run without an await between them, at the start or, for an entry that was
disabled, at any later time. Home Assistant refuses to give an entry a unique ID that another
one has (external): such an entry stays at version 3 and is not set up. If Home Assistant only
warned, as before the version `hacs.json` asks for, `OneEntryPerCharger` would not hold for an
old entry that is enabled after its charger was added again.

## Runs

All are run with deadlock checking.

| Run | Question | Bounds | States |
| --- | --- | --- | --- |
| `availability` | Are entities available on old data? Does an outage end well? | default timing at 3 s a tick (15 s, 3 s, 90 s); ages beyond the stale bound are one | 331,316 |
| `limits` | Is each limit repaired, and the user told, as promised? Does a restored limit read back? Are errors split? | four statuses: good, reset, lowered maximum with a timeout, unknown maximum; two ticks per interval | 427,652 |
| `session` | Is the session state what the history calls for? Do entities agree? | nine statuses that cover each branch, each lock code, each kind of error; logs of four events per setup | 1,774,016 |
| `commands` | Do calls return, exclude each other's polls, converge, also across reloads? Do outages agree with the log and end well? | two concurrent calls out of start and stop; a waiting and a charging vehicle; timeouts within and past the tolerance | 239,914 |
| `reloads` | Are issues true, and do data and issues converge, beside an old coordinator's poll? Does either restore too much, too often, or what does not read back? | one call at a time, that sets the charging current limit; a charger that resets this, the fallback limit and the timeout; reloads | 301,244 |
| `energy` | Is every session counted once? | 50 or 250 Wh per poll, sessions of at least 601 Wh, 2 kWh in all | 11,622 |
| `config_entries` | One entry per charger? | three entries of any version, enabled or not, two flows, two addresses, two units; symmetric in entries and flows | 208,669 |

Why these bounds are enough to show the interesting cases: `availability` runs through more
than one whole tolerance of 30 ticks with six scheduled polls in it and requested polls
anywhere, and reaches the stale bound of 37. In `limits` each limit can be reset alone,
together, repaired, reset again while the restore is awaited, and unloaded in each of these.
Four events are the shortest log in which a session is active, falls back to B1, is
unplugged or pressed on, and is shown; five polls in state 5 are not needed as the
transition is two. Two calls and a poll are every pair that can meet on the wire, with a
second attempt between them; with an unload, the two are a call of the old coordinator and
one of the new; one tick is the whole tolerance there, which is all that calls can tell. In
`reloads` one call is enough: it meets the poll of either coordinator, which restores both
limits one after the other. In `energy` a session, the end of it and the start of the next
fit between two polls. Each passing property is also checked to fail on a mutant of the
code's definition (kept beside the definition it mutates).

Bounds are named: `MaxAge`, `MaxLog`, `MaxDelivered`; `failedPolls` and `state5Polls` are
counted only as far as the code tells them apart.

### Properties that hold

* `FreshWhenAvailable`: available entities show nothing read longer ago than `StaleBound`: the
  last moment a failure is tolerated, and one cycle of a poll with its two restores. The
  excess over 90 s is real (111 s with the default timing): a failure just within the
  tolerance keeps the data until the next poll decides, and the coordinator's own clock
  restarts at that poll's read, while its restores are still awaited and the old data shown.
  `AgeHistory` therefore counts from the read of the data itself.
* `OutageEndsWithGoodPoll`, `AvailabilityAgrees`, `SilenceGoesUnavailable`: how an outage
  starts, is logged, lasts and ends, when failures are timeouts and lost links.
* `FallbackRepairSpec`, `CurrentRepairSpec`: each limit's repair implements `LimitRepair`, also
  its liveness (an awaited restore ends). `LimitRestore` has the limit as last seen (`amps`, in
  the data or, once the poll has come to it, in what the poll has read), the maximum seen with
  it, the last valid value and a stage; each step is tied to what is seen: a restore begins
  only when a trusted limit turns out invalid, writes the last valid value or else the
  maximum, and is not repeated before a poll shows the limit valid; nothing is forgotten but
  with the data. `LimitRepair` adds the issue, opened exactly when a restore was not accepted
  and closed exactly when one is or the limit is seen valid. `Stage` maps "awaits its restore"
  to `restoring` and the attempt flag to `spent`. `CurrentAttemptsSpec`: beside calls that
  write the limit and an old poll that restores it, the repair still implements
  `LimitRestore`: the notice is left out, which the old poll opens and closes too.
* `IssueMeansInvalid`, `ScanIssueTracksTimeout`: open issues tell the truth about the published
  data, through reloads. A poll that an unload left behind says what it has read of the same
  issues, at any time; so both are stated for as long as no such poll has changed an issue
  since the coordinator's last good read or the unload (`touched` of `IssueHistory`). What
  that leaves open is bounded by `ShownConverges` and shown by `late_issue`.
* `RestoreWithinMax` and, for both the coordinator and the poll left of the one before it while
  users set the limits, `RestoresWithinMax`: no restore exceeds a maximum that does not change.
  `RestoreReadsBack` and `RestoresReadBack`: the registers a restore is written to hold its
  value, and a poll reads the same limit from them, also when it was remembered from another
  maximum.
* `PausedByCommandIsEarned`, `PausedByCurrentIsEarned`, `ActiveIsEarned`, `StartIsRemembered`:
  three small variables yield what the log calls for. `StuckStateFiveSurfaces`: a session that
  stays in state 5 does not stay "active".
* `KeptOnlyWithinTolerance`: no failed poll is tolerated once the last good one is 90 s old.
  It holds because polls are frequent: the first failure is tolerated at any age, so with a
  scan interval above the tolerance (the options allow 300 s) it fails, and available data may
  be as old as two cycles of a poll, against CHANGELOG:26 ("up to 90 s after the last
  successful poll").
* `OutOfRangeIsAttempted`: a limit outside its number's range has been restored or given up
  on, although range and repair compute the maximum separately. One case is excepted: with a
  maximum below 1 A the number's range ends at 32 A or 0 A (number.py:77), and no poll judges
  the current limit (`__init__.py:358`), which may be outside that range for good.
  `ErrorsAreSplit`: errors
  reported together are told apart.
* `ShownAreOptions`, `EntitiesAgree`: no entity shows what Home Assistant would refuse, and
  those that read one register agree, for documented and undocumented values.
* `RefreshesAreExclusive`, `StartIsLastIssued`, `EveryCallReturns`: calls beside polls, also
  when their entry is unloaded under them. `AvailabilityAgrees` and `OutageEndsWithGoodPoll`
  are run again there, with failures of the polls that calls ask for. `ShownConverges`: once the registers stay as they
  are, the data becomes what the charger holds and the issues tell the truth about it,
  whatever refreshes were dropped and whatever a poll of the coordinator before has done to
  the issues. That the start button's second attempt follows "a full refresh" (button.py:65)
  is not so: the refresh is dropped when another runs, and put off during the cooldown.
* `RecordsEachSession`; `OneEntryPerCharger`, `UniqueIdNamesCharger`.

### Statements of the repository that do not hold

Each has a run that finds a shortest counterexample.

| Run | What the repository says | What the code does |
| --- | --- | --- |
| `outage_revived` | entities update "on the next successful poll" (README:186) | after a Modbus error made them unavailable, a timeout is the first failed poll and is tolerated: old data is available again |
| `unreported_limit` | an issue when "automatic recovery fails" (CHANGELOG:70) | an accepted restore that did not last is neither repeated nor reported |
| `overtaken_stop` | "Last start/stop command issued" (sensor.py:157) | start's second attempt overtakes a later stop, which stays shown |
| `late_issue` | the issue "is removed when the entry unloads" (tests/test_init.py:308) | a poll that a service call began outlives the entry and opens the issue again |
| `energy_reload` | "records each session's contribution correctly" (sensor.py:304) | a reload in the middle of a session counts it again |

## Fairness

`Coordinator!Fairness` is weak fairness of the clock, of a scheduled poll that is due and of
the answers. The first two are the event loop's; the last is the connection's timeout: a
request that is not answered fails, so some answer (`ReadEnds`, `RestoreEnds`) always comes.
Nothing forces an answer to be good: `SilenceGoesUnavailable` assumes polls fail from some
time on, `StuckStateFiveSurfaces` that they succeed again and again, `ShownConverges` that the
entities stay available and the charger's registers stop changing; these are hypotheses of
the properties. `CFairness` says the same for each party: every request is answered in its
turn, each call that may run does, timers end, and time does not stand still (`TimePasses`:
else a failure could be tolerated at the same moment for ever, and old data stay available);
`LFairness` adds that the work an unloaded coordinator has left is finished too. No fairness is assumed of users, of the charger
or of unloading. `EnergySpec` and `EntriesSpec` state none, and have safety properties only.

## Proofs

`tlapm` checks every theorem to the last leaf.

* `CoordinatorProofs`. `TypeCorrect`: `TypeOK` is inductive; one lemma per helper of the
  handler (`JudgeFallback`, `AwaitRestore`, ...) and one step per action.
  `AvailabilityAgreesHolds` and `OutageEndsWithGoodPollHolds` assume `FailuresAlike`, all
  failures are timeouts and lost links or none is: without it both are false
  (`outage_revived`). The invariant `OutageInv` adds what the code relies on silently: the
  count is 0 while restores are awaited, and an unavailable entity has used its tolerance up,
  so no later failure is tolerated. `FreshWhenAvailableHolds` assumes the tolerated kind of
  failures and nothing of the timing. Its invariant `FreshInv` bounds the age of the last read
  and what is left on the timer together: a tick moves one into the other; `AgeInv` carries
  that over to the data shown while restores are awaited. `KeptOnlyWithinToleranceHolds` also
  assumes `PollsOften` (a cycle of a poll is less than the tolerance; without it a poll every
  300 s is a counterexample).
* `RepairProofs`. The invariant `RepairInv(TRUE)` says that published limits are settled (an open
  issue is of a limit that is not valid, an invalid limit was attempted), that a limit whose
  restore is awaited is invalid and marked, and that the fallback limit is settled before the
  current limit's restore is awaited: without the last two, the end of a restore could not be
  shown to settle anything. From it follow `OutOfRangeIsAttemptedHolds` and `RepairIsAllowed`:
  every step of the coordinator is, for each limit, a step of `LimitRepair` or none. `Promised`
  says what a handler's step does to one limit, each of the handler's helpers is shown to keep
  to it, and `UnreadInv` (of a limit that was not read nothing is remembered) tells a shutdown
  that forgets from one that has nothing to forget. `ScanInv` is for `LifecycleProofs`.
  `RestoreWithinMaxHolds` assumes `SameMax` (the charger's maximum does not
  change), with `MaxInv`: no remembered limit exceeds it.
* `CommandsProofs`, for any number of calls of any kinds, and any unloads under them.
  `StartIsLastIssuedHolds` is inductive alone. All else rests on `CallsInv`: the types, the
  wire (`WireInv`: it holds exactly those who wait for an answer, each once) and the lock
  (`LockInv`: the debouncer's lock is held by the one whose refresh runs; while no entry is
  loaded, all calls are the old coordinator's; while one is set up, the lock is the schedule's).
  The first lemmas say what serving, queuing, withdrawing and renaming a request do to the
  wire; then there is one lemma per action. `LifecycleTypeCorrect` and
  `RefreshesAreExclusiveHolds` follow. `StepKinds` then sorts the steps of `LNext`: one of
  `Coordinator`'s, an unload, the effect of a call, or of time, on what it shares with the
  coordinators, or a move of the old poll; the invariants of `Coordinator` need only the last two cases anew.
* `EntitiesProofs`. `SessionInv` reads each of the coordinator's three variables as a question
  asked of the log: `lastCommand` is the button whose press stands, `sessionWasActive` is
  `ActiveSince`, `state5Polls` is the count of polls in a row with state 5 up to where it
  saturates. One lemma per question says what one more poll or press does to its answer. The
  four session properties of the `session` run follow for logs of any length.
  `EntitiesAgreeHolds`, `ShownAreOptionsHolds` and `ErrorsAreSplitHolds`, for every value of the
  registers; the last clears the documented bits one by one, as the loop over the table
  does, and says after each what has become of the others.
* `LifecycleProofs`, by `StepKinds`: what calls, unloads and an old poll leave as it is.
  `RestoresWithinMaxHolds` (`MaxInv`, with `OldMaxInv` for what the old poll has read and
  remembers; assumes `SameMax`); `RestoresReadBackHolds` (`FitsInv` and `OldFitsInv`, which also
  says that the old poll waits for the restore of an invalid limit; assumes `RegistersFit` and
  `CallsFit`: calls that write a limit write one that fits, as the device library refuses the
  others before they are sent); `AvailabilityAgreesDuringCalls` and `OutageEndsDuringCalls`
  (`OutageInv`; assume `FailuresAlike`); `OutOfRangeIsAttemptedDuringCalls` and
  `RepairIsAllowedDuringCalls`, the safety part of the refinement of `LimitRestore` for both
  limits. The last two take `RepairInv(FALSE)`, which says nothing of the issues.
  `IssueMeansInvalidHolds` and `ScanIssueTracksTimeoutHolds` are about those: `RepairInv(TRUE)`
  and `ScanInv` hold after every good read and every unload, whatever was said before, and
  only a move of an old poll that changes an issue ends that. `ShownDuringCalls`: the entities'
  properties. `SessionIsEarnedDuringCalls`: the session's properties in `LifecycleHistory`,
  where presses are real calls, with second attempts and refreshes, and where calls and polls
  outlive their entry; `SessionInv` is kept because none of these reaches the session memory.
* `EnergyProofs`. `RecordsEachSessionHolds` for every interval energy `r`, sessions of more
  than 100 Wh and twice `r`, and reloads only at 0 Wh: the last two are the code's silent
  assumptions. `EnergyInv` says how far the register can be ahead of the sensor in the same
  session, and how far below it in the next.
* `ConfigEntriesProofs`. `EntriesTypeOKHolds`, `UniqueIdNamesChargerHolds`,
  `OneEntryPerChargerHolds` for any number of entries, flows and chargers. The invariant is
  that unique IDs differ and that an entry of version 4 has the one its charger makes; an
  entry that is still older takes part with its old unique ID, whatever was added since.
* `StatusBlockProofs`. `DecodedBlockIsStatus`: any 37 words decode to a `Status`, so the
  coordinator's assumption on `Statuses` excludes no charger, and its limits fit the registers
  they are restored to. `WrittenLimitReadsBack`: the two words of a limit decode to
  it, and what does not fit is not written. `RestoreReadsBackHolds` assumes `RegistersFit`, the
  latter half of `DecodedBlockIsStatus`, of all `Statuses`; its invariant `FitsInv` is that
  what the coordinator has read and remembers fits.

Assumptions on constants are named ASSUMEs of the modules that declare them, and TLC evaluates
them in every run. `None` is assumed to be none of the values it is told apart from.

Only model-checked: all liveness properties, the liveness part of the refinements included
(fairness is beyond the prover). Every invariant and every safety property of the passing runs
is proved. Only proved: `decode_status_block` as a whole, whose blocks are too many to
enumerate (the runs start from decoded statuses), and the session's properties in
`LifecycleHistory`, whose log and calls together are too many states to add a run for; the
`session` run checks them with each press as one step.

## Not modelled

Voltages, currents, power, serial number and firmware version, which are handed on from the
decoded block as they are; diagnostics, texts, icons; logs, but for the flag that decides
them; reading the serial number once per device. A maximum the charger changes while a
restore is remembered is modelled in `limits`, where the restored value may exceed it;
`RestoreWithinMax` is checked and proved for a fixed maximum. What becomes of a removed entry's
limit issues: nothing deletes them, and no document says what should happen.

## Plan

Done in this order, the most important first: session state and coordinator, its properties
and `LimitRepair`, the session's history, commands, energy, entries, the device library; then
the entry's lifecycle, the entities, disabled entries, the proofs about repairs and sessions;
then the proofs about calls, with the wire and through unloads; then those about restores,
sessions and entities beside calls, and about errors; last, `LimitRestore` with the values it
restores, the age of the data shown, time beside the calls, and the issues through reloads.

Next, by worth:

1. `LimitRepair` with the user's own writes as history, to state when a restore undoes one.
2. More than one coordinator left behind in `EntryLifecycle`.
3. The issues beside an old poll: for how many polls an open one may be wrong.
