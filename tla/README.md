# eGauge firmware: a TLA+ development

eGauge is an ESP32-S3 round gauge that reads a vehicle over one or two Bluetooth
OBD adapters, shows the readings, and is configured, updated and (in special
builds) used to command the vehicle from an Android phone. This directory holds
TLA+ modules for the parts of the firmware where order, failure and concurrency
decide whether it is correct, the TLC configurations that check them on small
instances, and TLAPS proofs for every value of the constants.

All paths below are relative to `src/firmware/gauge/main/`, headers in its
`inc/`, unless they start with `docs/` or `android/`.

## 1. Inventory

### The parts modelled

| Part | Code | State it keeps | Operations |
|---|---|---|---|
| Configuration store | `src/config_store.c` | two flash partitions (header, commit marker, document); in RAM the active record and the open transfer | init, active, previous, select, begin, write, verify, validate, commit, abort, read |
| Trial journal | `src/config_trial.c`, `src/config_trial_policy.c` | pending and rejected revision, attempted bit; NVS copy | prepare, cancel, decide, reject, needs_confirmation, confirm |
| Boot choice | `src/config_runtime.c` (`config_runtime_load`), `main.c` (`init_config`) | the running runtime and its trial bit | load, fall back to the previous slot, run without a configuration |
| Boot health | `main.c` (`boot_health_task`) | its loop counter, what it has read of the journal | confirm a trial, keep or roll back an image, restart after 30 s without progress |
| Configuration session | `src/config_transfer.c` | phase, result, last request, id, base, length, accepted bytes, digest parts, deadlines | BEGIN, DIGEST, START, CHUNK, VERIFY, COMMIT, ABORT; inactivity abort; restart deadline |
| Firmware update session | `src/ota_transfer.c`, `inc/ota_recovery_policy.h` | phase, id, length, digest, signature, accepted bytes, handle, the network generation it came with; queue | BEGIN, DIGEST, SIGNATURE, START, CHUNK, VERIFY, ACTIVATE, ABORT; loss of its network; inactivity; restart after activation |
| Firmware slots | ESP-IDF otadata and boot loader | contents and state of two slots, the one selected | restart, trial of a new image, rollback |
| Temporary network | `src/wifi_bulk.c`, `src/wifi_bulk_policy.c` | phase, session id, expiry, `wifi_active`, generation, abandon signal, paused adapters; command queue; one client | OPEN, CLOSE, expiry, phone leaves, client accepted, frame, client ends |
| Maintenance gate | `src/transfer_gate.c` | the one operation that has the gauge | claim, release, current |
| Clearing of trouble codes | `src/diagnostic_clear.c`, `src/clear_policy.c`, `main.c` | phase, operation, token, scope; pending request; intent in NVS | prepare, confirm, tick, take, check, save, Mode 04, read back, record |
| Adapter roles | `src/adapter_role_policy.c`, `src/adapter_status.c`, `main.c` (`obd_task`) | binding of sources to adapters, identities observed, pending exchange, generations of links | connect, probe, observe, barrier, retire, exchange |
| Poll scheduler | `src/poll_scheduler.c`, `main.c` | due readings and diagnostics, cursors, streaks, back-off | select, complete, admit a diagnostic, preflight, reset |
| Alert rules | `src/alert_engine.c`, `main.c` | severity, pending severity and since when; sample queue, lost bits | observe, enqueue, drain, lose, disconnect, evaluate |
| Alert history | `src/alert_events.c`, `src/alert_runtime.c` | episodes, acknowledgements, snoozes, ring, boot and event number; journal in NVS | observe, acknowledge, snooze, tick, expire, journal, restore, packet |
| Command owner | `src/vehicle_commands.c` | three action slots, one driver job, durable marker of what may be in force | init, observe, submit, next, feed, transport_failed, maintenance question |
| Controller procedures | `src/jeep_idle_driver.c`, `src/jeep_abs_tcs_driver.c` | place in the transaction sequence, whether a control may have left, cancellation | begin, next, feed, cancel |
| Command worker | `src/vehicle_commands_runtime.c` | request queue, cached status, gate | worker call, submit, intent, confirm, maintenance question |

### How they interact

* The **transfer worker** (a task fed by a queue) is the only caller of the
  store once the gauge is up. A COMMIT writes the trial journal to NVS, then
  calls `config_store_commit`, then waits for a fixed deadline and restarts the
  chip; on an error it cancels the journal entry.
* The **boot** scans the flash, lets the journal decide whether the newest
  revision runs normally, runs on trial, or is passed over, compiles it, and may
  select the other slot as the store's base. `boot_health_task` then runs beside
  the transfer worker and shares the journal with it.
* The **update worker** takes requests of Bluetooth and of the Wi-Fi server. An
  update that came over Wi-Fi carries the generation of its network session; the
  worker looks at that before and after each request, never during one. A client
  that goes away retires the generation and leaves a signal for the network's
  control worker, which must close that session's network and no later one.
* The **gate** is claimed by five users: configuration transfer, firmware update,
  diagnostic clear, vehicle commands, start of the temporary Wi-Fi network.
* The **vehicle workers** (one per adapter) run a loop: role barrier, connection,
  vehicle command, clearing, readings and diagnostics. The one of the primary
  adapter alone runs the command owner. Display, phone and button run in other
  tasks: they see a cached status and a queue of four requests, and look at the
  gate before they queue. The two workers share the role policy, and wait for
  each other while roles are exchanged.
* The **maintenance services** ask the runtime whether any control is live, then
  claim the gate, and (configuration, Wi-Fi) ask again after the claim. A
  clearing asks nothing.
* Samples go from the workers through a bounded queue to the **alert rules** in
  the application tick, whose result the **alert history** turns into episodes,
  a journal and packets that the phone reads with a cursor.

### What is hard, and what makes each part correct

| Part | Hard | Correct when |
|---|---|---|
| Store | power lost between any two flash operations or inside an erase; a write that fails but reached the flash; chunks sent again | the active slot is never touched and stays whole; a restart finds the active generation or its successor; nothing uncompiled can be booted |
| Journal and boot | power or NVS failing at any step; a commit while a trial is open; health task beside worker | whatever the boot may pick and nothing has run yet is a pending trial, unless a boot could not read the journal; a failed trial never runs again; every trial ends |
| Session | requests out of order, repeated, never sent; other users of the gate | session and store agree; what was verified is what is committed; an unfinished transfer changes nothing; a silent phone is given up |
| Update | session lost during a write; chunk or selection that failed but was written; power lost at any point of trial and rollback | what the boot loader would start is signed, unless an update has begun to replace it; a trial has something to return to; the gate is held and given back |
| Network | a refused OPEN, a late signal, a client that outlives its session | a generation never comes back; only the own session is closed; the adapters are paused exactly while it is up |
| Clearing | 30 s timeout against the worker that takes it; NVS and power failing around the only transmission | no intent is sent twice or forgotten by NVS; a boot that read it shows it; the gate is its own until the outcome is recorded |
| Roles | two workers exchange what both use; an identity seen on an old link | no route changes under a link; an exchange and a command rest on what the current link has shown |
| Scheduler | fair slots, preflight, diagnostics and back-off move the same cursors | each eligible reading and each diagnostic gets its turn |
| Alerts | samples lost or late, links lost, numbers that wrap, restarts that lose the last events | a severity is earned by its dwell; an answer silences only what it was given for; a phone misses nothing without a gap |
| Commands | a control in force when the link, the reply, NVS or the power is lost; Stop against Start; button released during a write | whatever may be in force is in the durable marker and never published as settled; Burnout overlaps nothing; one Start per request, one automatic Return |
| Gate | question, claim and queueing are separate steps of different tasks | no service beside a job or a live control |

### Not modelled, and why

| Part | Code | Why |
|---|---|---|
| Diagnostics snapshots | `src/diagnostics_state.c` | evidence per controller with freshness windows, read and written under one lock; next in the plan |
| Combined trial | `main.c` (`boot_health_task`) | a firmware and a configuration on trial at once; each trial is modelled, their composition is in the plan |
| Proof of a parked vehicle, brake owner test | `src/jeep_idle_parked_test.c`, `src/jeep_brake_owner_test.c` | sample windows over raw readings; what they let the worker conclude is an input of `VehicleWorker` |
| Adapter registry, support maps | `src/adapter_registry.c`, `src/adapter_status.c` in part | tables without protocol; only the link generations matter to another part |
| Temporary idle, worker health, reading policy | `src/temporary_idle.c`, `src/worker_health.c`, `src/reading_policy.c` | a policy called by its host test alone, and arithmetic on one call's arguments |
| Document validation, compilation | `src/config_document.c`, `src/config.c` | parsing: constant sets `Valid` and `Executable` |
| BLE link, GATT, ELM text | `src/ble_mgr.c`, `src/ble_companion.c`, `src/ble_obd.c`, `src/elm_response.c` | I/O around the NimBLE stack and text parsing; the requests and replies they deliver are inputs |
| Display, pages, settings | `src/ui.c`, `src/smart_page_policy.c`, `src/page_save_policy.c`, orientation | drawing and choice of pages; its touches are the offers of `VehicleWorker` |
| Fonts, images | `fonts/` | generated tables, which are more than half of the C lines of the firmware and hold no behaviour |
| Android app, host tools, website | `android/` and others | environment of the firmware: any request in any order. Of the app only the cursor of the alert history is modelled (`AlertRepository.kt`), because the promise of continuity is made to it |

`PROJECT.json` lists every component with its status, and every hazard at its
line with the properties that cover it or the reason why none does.

## 2. Modules

| Module | Models | Builds on |
|---|---|---|
| `ConfigGenerations` | abstract store: a set of whole generations, one current | |
| `ConfigStore` | `config_store.c` | refines `ConfigGenerations` |
| `ConfigTrial` | `config_trial_policy.c`, pure | |
| `ConfigBoot` | journal saves, boot, health task, commit order | `ConfigStore`, `ConfigTrial` |
| `ConfigTransfer` | session, gate, the phone | `ConfigBoot` |
| `WifiSessions` | abstract network sessions, and the gate | |
| `FirmwareSlots` | slots, boot loader, health verdict | |
| `OtaTransfer` | `ota_transfer.c` | `FirmwareSlots`, `WifiSessions` |
| `WifiBulk` | `wifi_bulk.c` | refines `WifiSessions` |
| `DiagnosticClear` | `diagnostic_clear.c` and the worker's part of it | |
| `AdapterRoles` | role policy and the loop of two workers | |
| `PollScheduler` | `poll_scheduler.c` | |
| `AlertRules` | `alert_engine.c` behind its queue | |
| `AlertEvents` | `alert_events.c`, `alert_runtime.c`, the phone's cursor | |
| `VehicleDriver` | the two controller procedures, pure | |
| `VehicleCommands` | the command owner, pure operators on its state | `VehicleDriver` |
| `VehicleWorker` | worker calls, queue, cache, gate, services, link, vehicle, power | `VehicleCommands` |
| `ConfigStore_proofs`, `DiagnosticClear_proofs` | theorems about the module of that name | that module, `TLAPS` |
| `ConfigTransfer_proofs` | theorems about the boot, the trials and the session | `ConfigTransfer`, `ConfigStore_proofs` |
| `UpdateNetwork_proofs` | theorems about the update and the temporary network | `OtaTransfer`, `WifiBulk` |
| `Monitoring_proofs` | theorems about roles, polling, rules and history | `AdapterRoles`, `PollScheduler`, `AlertRules`, `AlertEvents` |
| `VehicleCommands_proofs` | lemmas about the owner's operators | `VehicleCommands`, `TLAPS` |
| `VehicleWorker_proofs` | theorems about the worker | `VehicleWorker`, `VehicleCommands_proofs` |
| `MCConfigStore`, `MCConfigBoot`, `MCConfigTransfer` | values of the document sets for TLC | |
| `MCServices` | seven services, one in each behaviour (section 3) | the modules from `OtaTransfer` to `AlertEvents` |
| `Services_proofs` | theorems about `MCServices`' own properties | `MCServices` and the three proof modules of its parts |

Definitions whose comment says "seeded bug" or "Mutant" are wrong on purpose:
each is one definition of the model changed as a plausible defect would change
the code, and `PROJECT.json` names the property TLC then finds violated. They
are in no specification.

### ConfigStore

`flash` is the two partitions and the only durable variable; `active` is
`active_slot` and `active_record`; `transfer` the RAM record of an open
transfer; `commit` the stack frame of a `config_store_commit` in progress, with
the slot, length and revision it copied before it let go of the lock.
`StoreBegin`, `StoreWrite`, `StoreValidate`, `StoreAbort` and `StoreSelect` are
one step each. A commit is three: `StoreCommitHeader` (checks, compiler, header
write and readback), `StoreCommitMarker` and `StoreCommitFinish` (validation of
the result, recheck under the lock, switch), because power may be lost between
the writes. `StoreBeginCut` is a restart inside the erase, and `Restarted` the
scan of `config_store_init`. An action's parameter `err` is the call's result;
`"MORE"` says that the call goes on.

A digest is the document itself (no collisions), a document a sequence of
blocks, a header whose CRC fails is `NoHeader`. A failed operation happens only
if its kind is in `Faults`; a failed marker write may have reached the flash.

### ConfigTrial and ConfigBoot

`journal` and `nvs` are the RAM and the stored journal. `Save` is one atomic NVS
save; one that reports an error was stored or not (`nvs_set_blob` and
`nvs_commit` may fail after storing), and in RAM the journal is the new one either
way. `JournalUnread` is `config_trial_init` when it cannot read the journal, or not
all of it: it saves an empty one over it, and the boot goes on with that; or NVS
cannot be opened, or the save reports an error, and `ESP_ERROR_CHECK` restarts the
chip. `HealthConfirm` restarts it when the confirmation reports an error. `stage`
is the place in `config_runtime_load`: `BootDecide`, `BootLoad`,
`BootLoadFails`, `BootFallback`, `BootWithout`. `HealthReady` reads the journal
and `HealthConfirm` confirms it, two steps as in the task, so that a COMMIT may
come between; `HealthTimeout` is the restart after thirty seconds. `job` is the
place of the worker in its COMMIT branch. `fate` is auxiliary: whether the
generation in a slot is untested, on trial, confirmed, failed or forgotten; no
guard but that of the patient phone reads it. It follows NVS: a trial that NVS
counts as begun although the save reported an error has failed without having
run, and a confirmation that was stored is one although its save reported an
error. A generation that was untested or had failed when a boot could not read its
journal is forgotten: the code then runs it as an ordinary one
(`config_trial.c:49-55`), so no property that names what a journal owes it
includes it, and `TrialsEnd` counts it as ended.

### ConfigTransfer

One action per request of `process`, each with every refusal of its branch, the
result code and the repeated-request filter; `CommitGoesOn` is the rest of a
COMMIT, during which the worker takes no other request; `InactivityAbort` and
`Deadline` are the two timers. `OtherTask` is any other user of the gate.
`phone` tells whether the phone has been silent for the ten minutes.

### FirmwareSlots, WifiSessions, OtaTransfer

`Bootloader` is what ESP-IDF does with otadata at a start, with rollback enabled
as in `sdkconfig`; it is external code and modelled from the calls and comments
of the firmware. An image is a sequence of blocks, a signature is named by the
image it was made for. The worker of `ota_transfer.c` has three places: it waits,
performs a request, or is at the tail of its loop, where it abandons an update
or restarts the chip. The network (`WifiSessions`) may change between any two of
them, so it may be gone while a chunk is written or an image verified; a request
that was in the queue when its session ended is refused when its turn comes.
`esp_ota_set_boot_partition` may report an error and have stored the selection
(`"select"` in `Faults`). The update is then still READY, and a phone may abort it
and begin another in the slot now selected; `overwritten` is history and says so.
The boot loader starts a selected slot that was overwritten if a signed image is
there again, and the other slot if it finds none it accepts; whatever else it may
start is not this program and outside the model.
What a request asks for is chosen when it is performed. Sequence numbers are left
out: a repetition is a request not sent.

### WifiBulk

The places of the control worker (`control`) are where `start_` and
`stop_maintenance_network` wait for the driver or where the gate is claimed; the
server handles one client; `abandoned` is the signal from the server to the
worker. A session is named by the generation it starts with, in place of its
random id. Encryption, frame numbers and replies are left out: a frame counts
when it is of the current session.

### DiagnosticClear

`pending` is a confirmed request that waits for the worker, `clearing` the place
of the worker, `copy` what it took. The thirty seconds are the flag `overdue`.
`sent` is history: the tokens whose Mode 04 left. A save of NVS fails without a
trace or after it has stored the value. A restart drops RAM and reads the
journal, or cannot read it (UNKNOWN), or cannot open NVS (DISABLED, operation 0).
`Knows` says that a record is of the last token sent, as sent, or of a later one.

### AdapterRoles

Per source: the place of its worker in the loop, its link, the half of the
identity cycle it has read. `proof.scoped` replaces the comparison of a
generation with the current one. `shown` is history: what the current link has
shown. What an adapter is plugged into is chosen whenever it is connected, so a
swap of the plugs is one of the behaviours.

### PollScheduler

Time is kept as what it makes true: a reading or diagnostic is due, at risk, in
its back-off. Which due reading an ordinary slot picks is free, so whatever
priorities and deadlines decide is included; the fair slots, the cursors, the
preflight reads and the admission of diagnostics are those of the code. `waited`
is history: the ordinary slots that passed one chosen reading by while it was
due, all of them and those since a preflight last took a fair slot.

### AlertRules

A value is a zone of the rule. The worker observes and queues; the tick takes
the samples one by one while the worker goes on. A full queue sets the lost bit
in a step of its own (`marking`). `heard` is history: since when the samples
that the queue took have crossed or released each limit. `breach` is history: the
last sample taken before a loss that a tick has handled.

### AlertEvents

Each step holds the mutex of `alert_runtime.c`. Journal writes come later and may
be missed by a restart. `asked` is history: the alerts whose present occurrence
the user has answered; `unread` the events that no page has brought. Boot
numbers, random in the code, are counted, so that two boots never agree by
chance.

### VehicleDriver, VehicleCommands, VehicleWorker

The owner's functions are operators from an owner state to the next, as the C
functions are called several times in one worker call. A call is four steps,
split where the code waits for the adapter and other tasks run: `Look` (claim,
drain the queue, first observation), `Choose` (submit the requests, next
command, marker write), `Send`, `Receive`. `publish` and the release of the gate
end a call and belong to its last step. A context record holds what a call
observes; guards, coolant and button are read anew in each step, and what was
kept over a wait may have aged (`Aged`).

`engaged` is what the code cannot see: the controls that may be in force in the
vehicle. Sending a brake control puts it there, a Return may or may not take it
out, only the ignition cycle (`KeyCycle`) or an effective Return does. Every
safety property relates it, or the history variables `owed`, `asked` and
`returns`, to what the firmware stores, publishes or admits.

Abstractions to know when reading these modules:

* `link` stands for the boot, configuration revision and link generation that
  fence a request. The generation is RAM and starts again with each boot.
  Configuration revision and vehicle identity do not change while it is up.
* The readings behind guards, identity and release proof are inputs: any
  outcome in any call. The two brake controls read the same guards.
* The build is the owner-supervised one (`CONFIG_EGAUGE_JEEP_...` options): an
  ordinary build enables no control, so nothing of this happens in it.
* The drivers' tickets, refusal reasons, history ring and event numbers are
  left out; a job is fed the reply to its own last command only.
* All marker writes of one call have the same outcome. At most one caller is
  between its look at the gate and its place in the queue when a service claims.
* Time is the nondeterministic `late` (a deadline of the job has passed) and the
  action `Expire` (a control's own time is over).

## 3. Runs

State counts are of complete searches.

| Run | Question | Distinct states |
|---|---|---|
| `ConfigStore` | The store alone, any order of calls, all faults: is the active slot whole and untouched, does a restart find it or its successor, can only compiled documents be booted, does the store implement `ConfigGenerations`? | 635 |
| `BootTrials` | With a phone that starts a transfer only over a confirmed configuration: saves that report an error and were stored or not, boots that cannot read the journal: is the journal ahead of the flash, does nothing that failed run again, is the trial bit truthful, does each trial end? | 1 443 |
| `TransferSession` | The session under any requests and all faults: does what runs stay whole, does the session agree with the store, is the gate held, is an unfinished transfer without effect, is a session given up whose phone went away? | 477 951 |
| `VehicleBrakes` | ABS and Burnout, two operations, a restart, failing writes: published truthfully, exclusive, returned once? | 92 596 |
| `VehicleIdle` | Raised idle, every fault: recorded, started once and never after its Stop, ended in time? | 98 398 |
| `VehicleMaintenance` | The services, a clearing among them, against the worker: never both? | 103 784 |
| `Services` | Seven services with every fault of their own, see below | 676 616 |
| `BootCommitError`, `BootRetrial`, `BootTrialBit`, `NetworkLeftOn`, `UnfairSlots` | the findings of section 6 | to the violation |

`Services` explores seven specifications side by side: `part` is chosen in the
initial state and never changes, only the actions of that part are enabled, and
the others' variables keep their initial values, so its state space is the sum
of the seven, not their product. It is a way to check them together, not a
composition; the parts that do interact are composed where they do: the update
with the network through `WifiSessions`, which `WifiBulk` is shown to implement,
and all users of the gate through a second owner that may claim it at any time.
Its properties are, part by part:

* **update**: `BootsSigned` (what the boot loader would start is signed, a trial
  can return, unless a selection that was stored though it reported an error was
  followed by an update of that very slot), `GateIsUpdates` (the gate is the update's from BEGIN to its end);
* **network**: `AdaptersFollowNetwork`, `ClosesItsOwn` (a late signal closes no
  later network), `ImplementsSessions` (refinement of `WifiSessions`);
* **clearing**: `ClearIsHonest` (no token sent twice; NVS knows of the last one
  sent in every boot, and so does the phone in every boot that could read NVS; any
  other boot clears nothing and shows UNKNOWN, or DISABLED, which section 6
  discusses), `ClearHoldsGate`;
* **roles**: `RoutesAgree`, `ExchangeIsProven`, `CommandsReachEngine`;
* **polling**: `EachRoundIsServed` (the bound `9*count` of the comment in
  `poll_scheduler.c`, for as long as no preflight takes a fair slot; without
  that condition it is `EachReadingIsServed`, which `UnfairSlots` refutes);
* **rules**: `SeveritiesAreEarned` (by the samples the queue took, with no loss that
  a tick has handled in between; losses no tick has handled yet may be passed over,
  see section 6);
* **history**: `SilenceIsAsked`, `HistoryIsContinuous`;
* all: `ServicesTypeOK`, and `NothingStaysForGood`: an abandoned update, an access
  point that is on, a confirmed clearing, a pending exchange and a due diagnostic
  end. The access point of a network that a refused OPEN has orphaned is the
  exception: that is finding 4.

### Bounds, and why they are enough

* Store: documents of at most two blocks of two contents. Two blocks are the
  least for a partial transfer, a retried chunk, an overlapping one and a chunk
  out of order; two contents for a wrong digest. `MaxRevision = 4` lets each slot
  be used twice and reaches the width check of BEGIN, which in the code is at
  `UINT32_MAX`. One document the compiler refuses, one that is acceptable on one
  base only.
* Trials: one-block documents (contents no longer matter), four revisions: a
  confirmed one, its successor on trial, one committed over it, and the width
  check.
* Session: two sequence numbers (a repetition and a new request), one id, two
  digest parts, two revisions; the longer histories are those of `BootTrials`.
* Vehicle: `QueueLength = 1`, 4 in the code: a request can be waiting, and the
  queue can be full. A call may send its control after the queue was refilled,
  so a Stop against a Start and two requests in succession occur.
  `MaxBoots = 1`: one restart with a control in force; the state after
  a second one is a state after the first, apart from the operation numbers.
  `MaxOperation = 2` lets a second control be asked for while the first is live
  or uncertain; `MaxLink` 1 or 2 link generations per boot, 2 where the link is
  lost and made again (`VehicleIdle`). `Users` are the services whose questions
  differ: asked once, again after the claim, not at all.
* Update: images of at most two blocks, so that a part can be missing; one of
  the two offered images is signed; one queued request; one change of network
  generation in a boot, again after each restart.
* Network: two generations, then the phones do no more; the command queue of the
  code.
* Clearing: two operations and three tokens: a repetition, a clearing after
  another, and one more; two sessions of the link.
* Roles: no bounds, the state is finite.
* Polling: three readings, so that a preflight can take a fair slot while
  another reading waits; one of them on the display, one that fails; one
  diagnostic; a fair slot after one ordinary one (8 in the code), a diagnostic
  after two readings (10). `UnfairSlots` has four readings: two that a preflight
  refreshes, one that it still has to, and one that waits. The bound checked is
  the code's formula in these constants.
* Rules: dwell 2, clearing dwell 1, age limit 2, time up to 3, a queue of two:
  a dwell can be completed, broken by a gap of exactly the limit or one more,
  and the queue can overflow.
* History: ring, journal and page of one event, three event numbers so that
  they run out, two boots.
* The vehicle runs switch the deadlock check off: the bounds on operations, links
  and boots stop the system. So does `UnfairSlots`, which runs to its violation.
  All others check it.

### Fairness

* `BootSpec`, `TransferSpec`: weak fairness of the boot (whether or not it can read
  its journal), of the health task, of
  the COMMIT branch and deadline, and of the worker's inactivity timer. They are
  loops and straight code of running tasks; FreeRTOS runs them. A phone that has
  gone silent passes ten minutes, or returns. Nothing is assumed of what the
  phone sends, of power, or of what the health loop observes: it may find the
  gauge healthy or time out. Nothing makes the journal readable: `TrialsEnd` excepts
  the gauge that restarts for good in `config_trial_init`.
* `OtaSpec`: weak fairness of the worker's loop, which wakes at least every
  second, and of time. None of requests, network, power.
* `WifiSpec`: weak fairness of the control worker (wakes every second), of the
  server's check of its client (every 250 ms), and of the ten minutes. None of
  phone, client or commands.
* `ClearSpec`: weak fairness of the application tick, of time, and of the
  worker's steps once it has taken a clearing. It need not take it: that is what
  the timeout is for.
* `RoleSpec`: weak fairness of each worker's step, whatever it finds: it need not
  connect, and no answer is assumed. `RoleStep` leaves out the loop that a
  vehicle command keeps from going on, as a command ends.
* `PollSpec`: weak fairness of the dispatch and of time.
* `VehicleSpec`: `CallsGoOn` is weak fairness of the worker, written out with
  its enabling condition (`CanWork`: inside a call, or the gate is free or its
  own), since each of its steps changes `step`; `TimePasses` is weak fairness of
  the clock. No fairness of links, replies, display, phone or services: an
  expired control must not stay active whatever they do.

## 4. Proofs

All are for every value of the constants, under the assumptions named in the
modules (sizes are natural numbers, signed images are images), and for any set
of faults where no premise is named. Each module proves that an inductive invariant holds initially and is
kept by every step, one lemma per action or group of actions.

`ConfigStore_proofs`:

* `StoreTypeCorrect`, `ActiveAlwaysIntact`: `StoreSpec => []...` of the
  invariants of those names;
* `ActiveNeverTouched`: `StoreSpec => ActiveSlotUntouched`, an action property.

The inductive invariant is `IInv`, the conjunction of type correctness,
`ActiveIsIntact`, `StagedIsCounted` and `CommitIsStaged`. None of the last three
is inductive alone. That the active slot stays whole needs to know that a write
goes elsewhere (`StagedIsCounted`: the open transfer's slot is not the active
one), also for the writes of a commit in progress, which use the copy in the
stack frame (`CommitIsStaged`: that copy still is the transfer's, as the worker is
the only caller; no run checks it, since it holds by that guard). That the
transfer's slot stays inactive while a commit switches slots needs that the
commit ends the transfer it staged.

Three more results need to know what the other slot may hold:

* `StoredAlwaysExecutable`: `StoreSpec => []StoredIsExecutable`;
* `RestartAlwaysFinds`: `StoreSpec => []RestartFindsActiveOrNext`;
* `StoreImplementsGenerations`: `StoreSpec => ImplementsGenerations`, under
  `"scan" \notin Faults`.

`SlotsInv` adds it: `HeaderInv` (the slot of an open transfer has no header, or
that of its own commit, which was compiled) and `Adjacent` (two slots that
validate are a generation and its successor). Each operation is shown to keep
these and to be a step of the abstract store, in which only the marker of a
commit adds a generation. The premise is the code's: if the scan of a start
cannot read the newer slot, the older generation becomes current again and the
next transfer erases the newer one, which the abstract store does not allow.
`RestartFindsActiveOrNext` has the same premise in its statement.

`ConfigTransfer_proofs`: the boot, the trials and the session.

| Theorem | States | Premise |
|---|---|---|
| `BootImplementsStore` | `BootSpec => StoreSpec` | |
| `RunningAlwaysKept` | what runs stays whole on the flash | |
| `TrialBitAlwaysTruthful` | the trial bit is clear only when no trial is open | patient phone |
| `FailureAlwaysJournalled` | a begun or failed trial is in NVS while a restart would pick it, until a boot cannot read the journal | patient phone, no fault in the scan |
| `FailedRunsNeverAgain` | what failed never runs, with failed saves stored or not | patient phone, no fault in the scan |
| `UntestedAlwaysJournalled` | the journal is ahead of the flash, until a boot cannot read the journal | patient phone, no fault in scan, readback or writes |
| `ForgottenOnlyUnread` | no generation is forgotten | every boot can read its journal (`"journal" \notin Faults`) |
| `SessionImplementsBoot` | `TransferSpec` implies `BootSpec` without its fairness | |
| `SessionAlwaysMatches`, `VerifiedAlwaysStaged`, `GateAlwaysHeld` | the properties of those runs' names | |
| `UncommittedNeverChanges` | an unfinished transfer changes nothing for a restart | no fault in the scan |
| `SessionKeepsPromises` | the promises of the boot, in every run with a session | as above |

So each of the three layers implements the one below, and what is proved of the
store holds of a gauge with a phone. A patient phone starts a transfer only over
a confirmed configuration; findings 1 to 3 show what happens without one, or with
a readback or write that fails during a COMMIT. For the proofs the cases of
`BootDecide`, of the validation and of an idle procedure's end were made
disjoint, as in the code: TLC takes the first that holds, the prover may not.

`BootInv` holds for all faults and phones: what each stage of the boot and of
COMMIT has done already (`StageInv`, `JobInv`), that what runs is the active
generation until a commit switched slots (`RunInv`), and that at most one
generation is on trial, in the journal and by its bit (`TrialInv`). `FailedInv` and
`UntestedInv` say what NVS holds of a generation that has failed or not run, while
RAM may say something else: a failed save leaves them apart until the next one.
`OlderInv` adds that the older of two whole generations is settled, confirmed or
forgotten, so that the boot which falls back finds nothing it has rejected. Without
faults in the scan, `ConfirmedInv` adds that what was confirmed needs no
confirmation again, and is rejected only when it is the newest and does not run:
a journal entry is a number, and numbers are used again. The parts with a premise
are implications, so that one induction serves all choices of the constants.
`SessionInv` then relates the session's phase and counters to the transfer of the
store.

`UpdateNetwork_proofs`, the update: `AlwaysBootsSigned`, `UpdatesHaveGate` and
`OtaTypeCorrect`. `BootsSigned`
alone is not inductive: an image is selected long after it was verified. `OtaInv`
adds what holds by phase (READY means that the slot that does not run holds a
signed prefix, RECEIVING that what is accepted is on the flash), that the slot
selected is the running one until ACTIVATING or a failed selection that was stored,
and that no update gets beyond its
announcement while an image is on trial, which is why the slot to fall back on
is never erased. `SelectedNeverOverwritten` bounds the exception of `BootsSigned`: if
a selection that reports an error was never stored (`"select" \notin Faults`), no
update begins in the slot that the boot loader would start. Type correctness bounds what is in a slot and in the queue
(`SizesInv`).

`UpdateNetwork_proofs`, the network: `WifiTypeCorrect`, `AdaptersAlwaysFollow`,
`NetworkImplementsSessions` (`WifiSpec => SessionsSpec`, the refinement on which
`OtaTransfer` rests) and `NetworkClosesItsOwn`. The invariant says what holds at
each place of the control worker, and that at the start of a network its
generation is larger than every session that a client or a signal can still name.

`DiagnosticClear_proofs`: `ClearTypeCorrect`, `ClearStaysHonest`,
`ClearKeepsGate`. The invariant follows a token: the largest when it is given
out, confirmed once, equal in RAM, copy and NVS when it is sent, and PREPARED in
no record of NVS, so that no restart can offer it for confirmation again.

`Monitoring_proofs` has four parts.

*Roles*: `RoleTypeCorrect`, `RoutesAlwaysAgree`, `LinksApart`,
`CommandsAlwaysReachEngine`, `ExchangesAreProven`. A source that has retired
waits with its link down until both have; and whatever is known of a source
within its scope, its current link has shown, which every action keeps because
it takes the scope away with the link.

*Polling*: `PollTypeCorrect` and `EachRoundAlwaysServed`, for any number of
readings and diagnostics, any streak and pace. `TurnInv` is the measure behind
the bound: the slots that passed the reading by, a whole streak for each reading
ahead of it in the round, and what is left of the present streak together stay
below the bound. Each slot that counts pays with one of the latter two; a
preflight that takes the fair slot moves the cursor without paying, which is why
the count starts again there. The bound of the comment has no such clause: two
readings, as TLC had before, are too few to see that it fails, and the proof
could not be finished. Finding 5 came from that.

*Rules*: `RuleTypeCorrect`, `SeveritiesAlwaysEarned`. `Queued` says that what was
heard with the last sample taken goes on, sample by sample, to what was heard
last; `PendingIsHeard` that a pending severity has been heard for as long as it
is pending; `FeedInv` that a link which is lost leaves neither behind; `LossPast`
that what is pending began after the last loss a tick has handled.

*History*: `EventsTypeCorrect`, `SilenceAlwaysAsked`, `HistoryAlwaysContinuous`.
`RingsInv`: ring and journal hold consecutive numbers. `EpisodesInv`: an active
episode is of this boot, and silenced only if its user asked. `AnswerInv`: an
answer to an occurrence that is over names no active episode, since numbers are
given once in a boot. `PhoneInv`: what is unread is past the phone's cursor.

`Services_proofs`: `ServicesTypeCorrect` and `AdaptersFollowTheNetwork` for the
specification that the run checks, from the invariants above: the update and the
network share two variables, so their invariants hold in their own behaviours and
the types of both in each.

`VehicleCommands_proofs` and `VehicleWorker_proofs`: every safety property of the
vehicle worker, for every set of kinds and services, queue length, number of
operations, links and boots, and every set of faults.

* `EngagedRecorded`, `EngagedPublished`, `BurnoutExclusive`, `ReturnsOnceOnly`
  are `VehicleSpec => []...` of the invariants the runs check, `StartsOnceOnly`
  is `VehicleSpec => StartsOnce`.
* `MaintenanceExcludes` has two conjuncts: `MaintenanceExcludesControl` holds in
  every boot that could read its journal, and always when reading it does not
  fail (`"journal" \notin Faults`). The restriction is the code's: see section 5.
* `VehicleInvariant` is the inductive invariant they follow from.

A worker call makes several calls of the owner one after the other, so the first
module shows of each owner function that it keeps the owner sound and does no
more than a relation says: `Watched` for an observation, `Submits` for the
requests, `Scheduling` for the choice of a job, `Commanded` for a whole
`vehicle_commands_next`, and `Ends`, `Driven` and `Fed` for what becomes of a
job. `OwnerSound` says that the stored copy and the marker of the boot hold
whatever may be in force, that Burnout is never recorded or pending beside
another control, and that what is recorded shows as pending; `JobSound` and
`JobLive` tie the job to its slot and to the marker. The second module reasons
from the relations alone.

`VehicleInv` then says what holds between the steps of a call. `CallInv`: a
command that is about to be sent is of a job whose vehicle and link were there
when it was chosen, and a control among them has been saved. `LinkInv`: no
request is newer than the cached status, and no job older, so that a new link
cannot let an old request through. `ConfirmInv`: no confirmation in the queue,
and none that the cached status could still lead to, names the operation of a
control that may be in force; without it a confirmation could take a control out
of the marker that was started after the owner looked. `PublishedInv`: the status
that calls a control pending is out before its Start can leave. `OwedInv`,
`ReturnsInv`: the histories behind `StartsOnce` and `ReturnsOnce`; the second
needs that after its unasked Return Burnout is in no state from which another
would be asked for. `GateInv`: a service that holds the gate has been told of the
slots as they are. `ClosedInv`: an owner without its journal is closed.

The requests of a call are a recursive function over the queue; that they all
keep the owner sound is an induction on the number of requests, done with a
least counterexample (`LeastOf`, from the well-foundedness of `<` on `Nat`).

Every safety and action property of a passing run is a theorem. Model-checked
only are the four liveness properties, `TrialsEnd`, `SessionsEnd`,
`TimedControlsEnd` and `NothingStaysForGood`: liveness under fairness and
`ENABLED` are out of the prover's reach.

## 5. Behaviour worth knowing

No document of the repository that we know of says otherwise; what contradicts one
is in section 6.

* A brake Start accepted behind an idle job, whose guards are gone when its turn
  comes, ends in UNKNOWN although nothing was sent and no marker exists
  (`vehicle_commands.c`, `begin_job`). The display then asks for a check.
* A request that passed the gate just before a service claimed it is carried out
  after that service leaves, however long that is. The model has it (`racing`);
  `MaintenanceExcludesControl` holds all the same.
* A diagnostic clear claims the gate without asking the maintenance question. It
  relies on the worker keeping the gate while a control is live
  (`VehicleMaintenance`). Its guards (parked, running) are not looked at again
  when the worker takes it; the scope is.
* If the marker of the vehicle commands cannot be read at a start, every control
  is UNKNOWN with no operation (`vehicle_commands_init`), and the question of the
  firmware update and the network is answered yes although Burnout may be in
  force: `vehicle_commands_maintenance_allowed` asks for an operation. The
  configuration service is refused. `MaintenanceExcludesControl` is therefore
  stated, checked and proved for boots that could read it.
* A newest generation that is passed over, with no predecessor that validates
  and compiles, leaves the gauge running without a configuration; BEGIN is then
  based on the revision of the generation passed over.
* After a failed brake marker write the call sends nothing; if the write did
  reach NVS, the next boot shows the control as UNKNOWN.
* A first run whose decision could not be saved but was stored counts as a failed
  trial: the generation is rejected by the next boot although it never ran
  (`config_runtime.c:402`). A confirmation that reports an error restarts the gauge
  (`main.c:597`), and the next boot runs the configuration as confirmed or rejects
  it, as it was stored or not.
* `esp_ota_set_boot_partition` may report an error and have stored its selection
  (`ota_transfer.c:314`). The update stays READY; if it is aborted and another one
  begins, that one erases the slot which is now selected, and until it is activated
  a restart depends on what the boot loader makes of that slot.
* A reading that goes back and forth between the warning and the critical zone
  restarts its dwell each time and may never alert; clearing from critical goes
  straight to what the value asks for, past the warning's hysteresis.
* When the event numbers run out, a current alert keeps its acknowledged flag
  while the severity it was acknowledged for is cleared, and an external alert
  loses its expiry (`alert_events.c`, `append`).

## 6. Findings

Each is a run that checks one property which a document of the repository
states, and which TLC finds violated.

1. `BootCommitError`: COMMIT fails after its marker reached the flash (the
   readback or the marker write reports an error). The worker cancels the journal
   (`config_transfer.c:219`), and the next boot runs the generation as an
   ordinary one, with no trial. `docs/architecture/firmware-runtime.md:140`:
   "The first boot marks a new revision attempted."
2. `BootRetrial`: a COMMIT accepted while the running revision is on trial
   journals its own candidate over the pending entry (`config_transfer.c:216`).
   If the chip resets before its marker, the revision on trial runs again, not
   rejected. `docs/architecture/config-storage.md:29`: "A reset before
   confirmation rejects that revision on the next boot".
3. `BootTrialBit`: a COMMIT between the health task's look at the journal and its
   confirmation (`main.c:599`): `config_trial_confirm` changes nothing and
   answers `ESP_OK`, and the trial bit of an unconfirmed revision is cleared.
   `docs/architecture/firmware-runtime.md:140`: the identity reports "whether a
   trial is still unconfirmed".
4. `NetworkLeftOn`: an OPEN that is refused, because the gate is taken or a
   control is live, clears the session of the network that an earlier OPEN has
   up (`wifi_bulk.c:617`). Neither the expiry nor the signal of an ended update
   applies any more: the access point stays on and the adapters paused until a
   phone sends CLOSE or another OPEN gets further. `docs/protocol/wifi-bulk-v1.md:9`:
   the gauge "expires the session after ten minutes, and stops the access point
   on close, expiry, or reboot".
5. `UnfairSlots`: the reading of the page that a preflight earns is dispatched as
   an ordinary one (`poll_scheduler.c:211`), also when the streak has reached 8.
   It then takes the fair slot although the round robin did not choose it, and
   `select_pid` moves `fairness_cursor` behind it, past every reading whose turn
   it was. A hidden reading that ages slowly (`staleAfterMs` may be 180 000), so
   that no preflight refreshes it, can lose its turn again at each diagnostic.
   `poll_scheduler.c:130-132`: "A continuously eligible hidden PID gets a slot
   within at most 9*count ordinary PID dispatches, plus bounded
   diagnostic/preflight work."

`BootTrials` shows that the stated promises hold when none of the first three
occurs: no read or marker write fails during a COMMIT, the phone starts no
transfer while a trial is open, and the boot can read its journal. That what runs
stays whole even then is the theorem `RunningAlwaysKept`, which has no premise;
`TransferSession` itself has a patient phone and no fault in the scan.
`EachRoundIsServed` is the part of the scheduler's promise that holds, for any
number of readings; the attempt to prove all of it is what found the rest.

Four more disagreements have no run of their own. In each the model takes the
code's path, and the property beside it states what is left of the promise.

* **A lost sample.** `main.c:547-548`: "Queue loss also breaks pending dwell." It
  does not if the worker is preempted between the failed send and setting the lost
  bit (`main.c:561-564`), or if the queue fills again between the drain of the tick
  and its exchange of the bits: the samples that are left have a gap shorter than
  the age limit, and the dwell goes on over the lost one. `SeveritiesAreEarned`
  holds of the samples the queue took, and of the losses a tick has handled.
* **Cursor 0.** `docs/protocol/diagnostics-and-alerts.md:122`: "Boot mismatch, lost
  ring coverage or cursor ahead of producer advertises a gap". `alert_events_packet`
  tests `cursor && ...` (`alert_events.c:235`): a phone that has read an empty
  history in this boot has cursor 0, and when the ring has wrapped by its next read
  it gets the oldest event left and no gap. `HistoryIsContinuous` is about every
  phone with a cursor other than 0.
* **A clearing after a restart without NVS.** `docs/protocol/diagnostics-and-alerts.md:206`:
  "Phone and gauge preserve uncertain intent across restart". If NVS cannot be
  opened at a start (`diagnostic_clear.c:57`), a clearing that was sent shows as
  DISABLED with operation 0, not as UNKNOWN, until a boot that can open it;
  `ClearIsHonest` holds of the record in NVS in every boot, and of what is shown in
  a boot that read it.
* **A journal that cannot be read.** `docs/architecture/config-storage.md:29`: "A reset
  before confirmation rejects that revision on the next boot". If `nvs_get_blob`
  fails on that boot, `config_trial_init` saves an empty journal over the stored one
  (`config_trial.c:51-55`), and the revision runs as an ordinary one. The properties
  of `BootTrials` hold up to that.

## 7. Plan

Done: the configuration from flash to phone, the vehicle commands with the gate,
firmware update, temporary network, clearing, adapter roles, polling, alerts. Of
the properties the runs check, every one but the four that need fairness is a
theorem.

To model:

1. both trials in one `boot_health_task`: a rollback of the image takes the
   configuration trial with it, and neither is confirmed unless the gauge proved
   healthy under both;
2. `DiagnosticsState`: evidence per controller with its freshness windows, read
   by phone and display while the worker replaces it.

To prove:

1. an abstract specification of the maintenance gate (claimed when free, released
   by its owner alone), and that each of its five users implements it;
2. a bound for diagnostics as there is one for readings: how many readings may go
   before a diagnostic that is due;
3. whatever the models above add.
