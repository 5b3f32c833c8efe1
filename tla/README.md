# Printer SaaS: TLA+ models, model checking and proofs

The repository is a SaaS for managing printers: a Windows service (the Agent,
C#) discovers and reads printers at a customer's site and submits the readings
to an API (NestJS, PostgreSQL); a worker (BullMQ) turns the readings into
alerts and bills; a web frontend shows them. This directory models the parts
of it that have a protocol to get wrong, checks them with TLC on small
instances and proves the most important safety properties with TLAPS.

Paths below are relative to the repository; `PROJECT.json` maps every
definition to its source lines.

## 1. Inventory

### Parts, their state, and how they interact

| part | state | operations | talks to |
|---|---|---|---|
| **Offline queue** (`PrinterAgent.Core/Queue/OfflineQueue.cs`) | a JSON file, its temporary file, a semaphore | EnqueueAsync, DrainAsync, RequeueAsync | called by the service loop |
| **Agent loop and API client** (`AgentWorker.cs`, `PrinterSaasApiClient.cs`) | the drained list and the current batch, in memory | flush, discover/collect, submit, requeue | HTTP to the API, 30 s timeout |
| **Discovery** (`NetworkRange.cs`, `PrinterDiscoveryService.cs`, `DeviceProbeOrchestrator.cs`, `DeviceClassifier.cs`) | a semaphore of DiscoveryConcurrency slots, a channel of devices, one task per address | ScanAsync, CollectAsync, probe, classify | the network; the loop submits what it returns |
| **Agent update and installation** (`AgentUpdateChecker.cs`, `PrinterAgent.Updater`, `WindowsServiceInstaller.cs`) | ServiceFiles (the package), its backup, Service (what is registered to run), the service's status | check, stop, back up, msiexec, start, roll back; the ConfigTool's install, uninstall, start, stop | API's releases, users, Windows |
| **API ingestion** (`agents.service.ts` submitDevices) | AgentSubmission, Printer, readings, replacements | one transaction per submission, unique collectionId | called by the Agent; rows are read by worker and web app |
| **Enrollment** (`agents.service.ts` enroll, `AgentEnrollmentService.cs`, `AgentCredentialStore.cs`) | Agent row (token, key hash), `appsettings.json`, `credentials.dat` | createToken, regenerateToken, enroll, EnsureEnrolledAsync | operator, Agent, API |
| **Presence** (`agent-presence.scheduler.ts`, worker `checkOffline`) | Agent.status, Printer.onlineStatus, last-seen columns, alerts | heartbeat, submission, sweep, check-offline | API and worker write the same columns |
| **Printer alerts** (worker `checkDeviceErrors`, `checkToner`, `alerts.service.ts`) | newest readings, OPEN alerts | the two jobs, acknowledge, resolve | ingestion writes what the jobs read; users write alerts |
| **Supplies** (`detectReplacement`, `consumables.service.ts`) | replacements: PREDICTED, CANDIDATE, CONFIRMED, PREMATURE, DISMISSED | detection on ingestion, forecast, createReplacement | ingestion and users; may take stock |
| **Inventory** (`inventory.service.ts`, parts of a service order) | InventoryItem.quantity, movements, parts | createMovement, addPart, removePart, remove | users; a replacement |
| **Service orders** (`service-orders.service.ts`, worker `checkSla`) | orders, their number, due date, alert link; SLA alerts | create, update, check-sla | users, alerts, notifications queue |
| **Monthly billing** (worker `billing.processor.ts`, `shared/billing.ts`) | counter readings, financial entries | generate-monthly-charges, calculatePeriodUsage | readings from ingestion, entries shared with users |
| **Closings, contracts** (`closings.service.ts`, `contracts.service.ts`) | MonthlyClosing (PENDING/FROZEN), Contract, tiers, readjustments | generate, freeze, unfreeze; update, applyReadjustment | users, readings |
| **Pure functions** (`packages/shared`) | none | period usage, tiers, franchise, page cost, forecast, SLA hierarchy | billing, closings, service orders |
| **Financial entries** (`financial.service.ts`) | FinancialEntry | create, update, markPaid, cancel | users; the billing job |
| **Printer lifecycle** (`printers.service.ts`, Agent endpoints) | Printer.status, customer | claim, ignore, restore, decommission, monitor, deactivate | web app and Agent both |
| **Sessions** (`auth.service.ts`, `jwt.strategy.ts`, the web app's `api-client.ts`, `auth-storage.ts`) | RefreshToken rows; the tokens a page has stored, its `refreshPromise` | login, refresh, logout, reset of a password, the calls of a page | web app and API |
| the rest: tenant extension, mail and reports, CRUD modules, the ConfigTool's tabs, the web app's pages | | | see `PROJECT.json`, "components" |

### What is hard, and what makes each part correct

* **Offline queue.** I/O errors at every step, the read of the file included,
  the process killed and the power lost at any step; a semaphore for any number
  of callers, of which the Agent today has one, its sequential loop. Correct:
  each operation is atomic, only a power loss leaves a torn file, no path keeps
  the semaphore, and what is in the file stays there until it is drained, or
  dropped by overflow, by a read that fails or by a power loss.
* **Agent loop, wire, API.** A request that times out at the Agent goes on at
  the API as an orphan; the retry may overtake it; the transaction may abort
  after some devices; the queue overflows; the Agent is killed. Correct: a
  batch is recorded at most once and completely, forgotten only when recorded
  or pushed out, overflow drops the oldest, and everything acceptable is
  recorded in the end.
* **Discovery.** Unsigned arithmetic at both ends of a network; synchronous
  SNMP calls that hang; tasks that still write while the channel is completed.
  Correct: exactly the configured hosts are probed, never more than the limit,
  no slot is lost, the list is complete, and hung probes do not stop a sweep.
* **Agent update and installation.** Directories copied and deleted file by
  file while the updater may die, the computer restart, the service be slow to
  stop or start, and a user reinstall. Correct: a complete copy of the package
  always remains, a rollback that ends has restored what was there, what is
  registered to run is whole, the service comes back, and after a successful
  update it is the new version that runs (it is not, see section 6).
* **Enrollment.** A single-use token against late duplicates, two machines,
  half-written credentials, regenerated tokens. Correct: one machine works, a
  replaced key stays dead, the slot can always be enrolled again.
* **Presence.** Three writers on the same columns, one of them row by row from
  a stale list. Correct: whoever stops reporting becomes OFFLINE and somebody
  is told, once per silence.
* **Printer alerts.** Jobs read a snapshot, plan, and update row by row while
  users close alerts, old batches arrive late, and runs die. Correct: no
  duplicates, what lasts is shown, what is gone is resolved.
* **Supplies.** A jump of the level is a replacement only if the next reading
  confirms it; readings come late or wrong; two forecasts race. Correct: one
  candidate and one prediction, and no more confirmations than swaps.
* **Inventory.** The new quantity is computed before the transaction that
  writes it. Correct, as far as requests do not race: the quantity is what the
  movements add up to, and every part has a movement of its own.
* **Service orders.** An alert is looked at, a number read, an order inserted
  and linked in four statements; who is told is decided from a row read
  earlier. Correct: everybody affected is told, an alert is answered by one
  order unless two requests raced, a late order surfaces, with one open alert
  per type, and the most specific SLA decides when it is late (it does not
  always, see section 6).
* **Billing and closings.** The job may run twice or die; readings come late,
  counters restart; users move entries, freeze closings and edit contracts
  meanwhile; a readjustment is two writes. Correct: one charge a month, never
  for more pages than were printed, amounts that are what their pages cost,
  frozen closings that stay, each readjustment applied once.
* **Sessions.** Several calls of a page meet the same expiry and share one
  renewal; a renewal revokes the token it used, in three statements. Correct:
  nobody is signed out while the session lasts.

`PROJECT.json`, "hazards", lists each of these at its line with the properties
that would notice.

## 2. Plan

Done, in this order (most important behaviour first):

1. `OfflineQueue`, implementing the abstract `DurableQueue`
2. `AgentPipeline` (Agent, wire and API composed), which uses `DurableQueue`
   and implements the abstract `Delivery`
3. `Enrollment`
4. `Presence`, with the life of a printer's row
5. `PrinterAlerts` and `MonthlyBilling`
6. `Pricing`, the functions `MonthlyBilling` and `Closings` compute with;
   `Closings` with contracts and readjustments
7. `Inventory`, and `Supplies`, which composes it with the replacements
8. `ServiceOrders`
9. `AgentUpdate`, with the ConfigTool's installation
10. `Discovery`
11. `Sessions`
12. Reads of the queue that fail; what an update really changes, and which of
    two contracts an SLA comes from, as expected violations
13. Proofs of every safety property that the runs of 1 to 10 check, the three
    refinements among them

Left:

* `Readings`: the classification of a counter's label, and which printer row a
  device is (serial, then fingerprint), when batches arrive out of order.
* The customer and location that a claim gives a printer, next to the contract
  lines that refer to it.
* A theorem about `Sessions`: that without the finding a page stays signed in.
* A second closing of a reopened order: `EverybodyTold` does not ask for it to
  be announced again.

## 3. Modules

| module | models | state and actions, in the code's terms |
|---|---|---|
| `BatchSequences` | list helpers | `KeepNewest` is the overflow loop of EnqueueAsync, `BatchesIn` and `Without` the lists' contents |
| `DurableQueue` | what callers rely on: a list, operations atomic; an operation may find the list empty that is not, a crash loses only what callers hold, a power loss perhaps the list | abstract; the list an operation works on is its parameter, so that what a failed read forgets is named (`Read`) |
| `OfflineQueue` | OfflineQueue.cs | `file`, `tmp`, `lock` and one program counter per caller; one action per await: WaitAsync, ReadAllAsync, File.Create, serialize and flush, File.Move, Release; `ReadFails` is ReadAllAsync's catch, after which the operation goes on with an empty list (`unread`), `IOError` an exception at any of the others, which ends it; `Crash`; `PowerLoss`, against which `WriteBack` is the operating system's late write |
| `Delivery` | what collecting is for: a batch is underway, then recorded once or dropped, for good | abstract |
| `AgentPipeline` | AgentWorker, PrinterSaasApiClient, submitDevices | `queue` is the file's list (its operations are atomic, by `OfflineQueue`; `QueueReadFails` is the read that fails, for each operation, and `unread` counts them); `req` are requests on the wire or in the API; `submissions` the unique collectionIds; `recorded` counts rows per batch and device. `OpenSubmission`, `ProcessDevice`, `Commit`, `Abort` are the transaction, `GiveUp` the 30 s timeout that leaves an orphan, `Kill` the service stopping |
| `Discovery` | one sweep: expansion, tasks, slots, channel, classification | `cursor` is the loop over a network's addresses (unsigned, `Width` bits); `phase`, `answers`, `device` are a target's task; `CeilingReached` is the Task.WhenAny with the ceiling, `ProbeThrows` the finally that releases the slot; `channel`, `closed`, `found` the reader's loop |
| `AgentUpdate` | the check, the detached updater, the ConfigTool's installation, the service | `files` (ServiceFiles), `backup` and `service` (Service, whose exe runs) map each file to a version; `svc` and `marked` are the service control manager's view, `version` the running process's; `pc` is the updater's place, `todo` the files its loop has still to copy, `handling` the catch block; `tool`, `task`, `copying` are the same for InstallOrUpdate, Uninstall, Stop and Start; each failure of `Faults` is an action, `Kill` and `Reboot` come anywhere |
| `Enrollment` | the slot's row, the machines, requests | a request is `sent`, `found` (the row was read; argon2 runs), `issued`; `IssueKey` is the update by id |
| `Presence` | status columns, their three writers, a printer's row | `silence` abstracts the last-seen columns; the job's `stale`, `todo`, `marking` are its result set and position; `place` is a printer's status (discovered, monitored, retired), `line` its contract lines, `removing` and `deleted` the Agent's look and deletion |
| `PrinterAlerts` | two jobs, readings, alerts | `seenRows`/`seenLevel`: what a run has read; `toResolve`/`toCreate`: what it has computed and not yet done, row by row |
| `Pricing` | `shared/billing.ts` | `UsageBetween` is calculatePeriodUsage, `CalculateTieredBilling`, `FranchiseOverage`, cents rounded as in the code |
| `MonthlyBilling` | the charge job and calculatePeriodUsage | time in ticks; `today` is taken when the run starts; `check` and `create` are the look for an existing charge and the insertion; entries are created, moved, paid and cancelled by users |
| `Closings` | closings.service.ts, contracts.service.ts | a generate request goes through look, contract, one read per printer, write; an apply request through fee and mark; `contract` holds what users edit, `adjustments` the readjustments' status |
| `Inventory` | inventory.service.ts, a service order's parts | a request reads the item (`ReadItem`), then commits its movement and the quantity computed before (`CommitMovement`), then inserts the part |
| `Supplies` | detectReplacement, forecast, createReplacement | `levels` are ConsumableReading rows in insertion order; an ingestion is read and write, a forecast is trend, find and write; extends `Inventory`, whose `TakeSupply` a replacement uses |
| `ServiceOrders` | service-orders.service.ts, checkSla | a creation goes through look at the alert, number, insert, link, announce; an update through read, write, announce; the job through its result set, one order at a time; an order remembers, for the properties only, when it is due by the most specific SLA (`promised`) and whichever contract decides (`latest`) |
| `Sessions` | auth.service.ts, jwt.strategy.ts, users.service.ts; api-client.ts, auth-storage.ts, auth-context.tsx | `calls` are a page's requests, `storage` what localStorage holds, the renewal they share goes through the API's three statements; `lasts` says that nobody has ended the session |

Each `MC*` module gives the constants of a module values for TLC. A `*Proofs`
module holds the theorems about the module it is named for; `AgentsProofs` is
about `Enrollment` and `Presence`, `AgentFilesProofs` about `AgentUpdate` and
`OfflineQueue`, `DiscoveryAndSuppliesProofs` about `Discovery`, `Inventory` and
`Supplies`. Two such modules share no variable; so that both can be extended,
the second of each pair has names of its own for what is otherwise called
`Init`, `Next`, `vars`, `TypeOK`, `Spec` (`QueueSpec`, `EnrollSpec`,
`SupplySpec`). Operators whose comment begins with "Mutant" are the code
with a plausible bug. No specification uses them: each is there to show that
the property named for it in `PROJECT.json` would notice the bug.

`Consistent` is, in each module that has it, the conjunction of the type
invariant and of the module's invariants on how its tables and variables agree
with each other (`QueueConsistent` in `OfflineQueue`, `RowsConsistent` and
`StockConsistent` for the two parts of `Supplies`).

### Abstractions

* A batch is its number in collection order; a device's data and a message are
  left out. Toner has three levels in `PrinterAlerts`, cut at the code's 20 %
  and 10 %, and a percentage in `Supplies`. Money is in cents, prices in
  hundredths of a cent.
* Time: presence counts ticks of silence up to a bound that exceeds every
  threshold; billing, closings and service orders have ticks within short
  days and months; the pipeline, the update and discovery have no clock, a
  timeout may come at any moment it could.
* The database executes statements atomically, transactions atomically at
  their commit, and the unique indexes (collectionId, an order's number) make
  the second inserter fail or wait for the first.
* The worker runs one job of a queue at a time (BullMQ's default concurrency
  with one worker process); a job run may die between any two statements.
* In `MonthlyBilling` whether the contract is ACTIVE is left open: every run on
  its billing day may or may not select it, because a run may or may not happen.
* msiexec installs every file or none; a file is copied or deleted whole.
* A probed host has constant evidence (`Evidence`); whether it answers in time,
  late, never, or throws is open.


## 4. Runs

`tlc -config <run's cfg> <module>`; each ends within about three minutes. Nine runs
pass; the three that are expected to end with a violation are the findings of
section 6.

| run | what it shows |
|---|---|
| `agent_files` (MCAgentFiles) | the queue's files: two callers, three batches, two entries, two faults, one of which may be a read that fails: `QueueConsistent` (no operation overwrites another's work, among others), `TornOnlyByPowerLoss`, the refinement `ImplementsDurableQueue`, and `EveryCallReturns`. The installation's files: two files, three versions of which one does not start, mixes of releases, users and failures: `Consistent` (a complete package remains, what is registered is whole), `RestoresPrevious`, `ComesBack` |
| `pipeline` (MCAgentPipeline) | three batches of two devices, one always refused, one without collectionId, a queue of two, two requests in flight, four losses, one kill: `RecordedOnce`, `NothingLost`, `QueueInOrder`, the refinements `UsesDurableQueue` and `ImplementsDelivery`, and `EventuallyRecorded` |
| `update_version` (MCAgentUpdate) | a finding: `UpdateTakesEffect` is violated |
| `enrollment` (MCEnrollment) | two machines, two requests, three tokens, one fault: `Consistent`, `OneMachineWorks`, `RevokedStaysRevoked`, `EnrollsUnlessDisturbed` |
| `presence` (MCPresence) | an Agent and two printers, one with a threshold of its own, the sweep on and off: `OneAlertPerSilence`, `SilentGoesOffline` (sweep on), `JobAlertsSilent` (sweep off) |
| `printer_alerts` (MCPrinterAlerts) | three conditions, two of which share a code, a toner, three changes, a run that dies: `NoPilingUp`, `OneTonerAlert`, `LastingSurfaces`, `ResolvedWhileOthersLast` |
| `monthly_billing` (MCMonthlyBilling) | two billing days, runs at any time, two pages, three readings, a counter reset, an edit, a late reading or a dying run: `Consistent` (no charge for more pages than its period printed, among others), `OneChargePerMonth` |
| `closings` (MCClosings) | two months, two generators, two readjustments applied by two requests, edits, a reset, a delayed reading: `Consistent` (amounts are what their pages cost), `NeverOvercharged`, `RaisedOnce`, `FrozenIsKept` |
| `service_orders` (MCServiceOrders) | two creations, two updates, an alert, SLAs of none or one tick, a printer's own contract and the customer's, check-sla: `Consistent`, `EverybodyTold`, `AlertAnsweredOnce`, `LateSurfaces` |
| `own_contract` (MCServiceOrders with MCOwnContract.cfg) | a finding: `DueAsPromised` is violated |
| `printers` (MCPrinters) | addresses of four bits, at most four hosts, two slots; overlapping, point-to-point, empty, last-address and refused networks: `Consistent`, `FoundIsComplete`, `SweepEnds`. An item's stock under two requests that may fail after any statement; one supply read up to six times, swapped twice, misread once, forecast twice: `StockConsistent`, `RowsConsistent`, `DetectionsAreReal` |
| `sessions` (MCSessions) | a finding: `SignedInWhileItLasts` is violated |

**Why these bounds.** Every race in these parts is between two actors (two
callers, two requests, a request and its retry, a job and a user), so two of
each; a second batch or row shows what one does to another, a third that what
is between two others keeps its place. A queue of two lets three batches
overflow it; two slots and three targets make a target wait; four bits hold
both ends of the address space, the smallest networks and one beyond the
limit. One fault (two where one may follow another on the way to recovery) is a
crash at every possible step. Counters that only count (`MaxReports`,
`MaxChanges`, `MaxTokens`, `MaxPages`) are bounded at the smallest number that
lets every action happen before and after every other.

Where all kinds of events at their largest would be too many states, `Quotas` is
a set of mixes, one of which a behaviour starts with: each mix is large in the
kinds that interact (two appliers of readjustments without pages, say, or reads
without edits) and small in the others. A mix bounds what users, printers and
faults do, never what the code does next.

Two runs hold two parts each that share no state: `agent_files` the queue and
the update, `printers` the discovery and the supplies. Each part is explored
while the other is as at the start and has nothing to do, which is all there is
to see of either: no interleaving of the two could tell more.

`MonthlyBilling`, `Closings`, `Supplies`, `AgentUpdate`, `ServiceOrders` and
`Sessions` really stop when their time or quota is used up, hence no deadlock
check there, nor for the parts that share a run with one of them: that these
go on is what `EveryCallReturns` and `SweepEnds` say.

**Fairness.** Weak fairness of what the code keeps doing: an operation in
progress (`OfflineQueue`), the service loop and the API's handling of a request
(`AgentPipeline`, `Enrollment`), repeatable jobs, interval timers and the clock
(`Presence`, `PrinterAlerts`, `ServiceOrders`), the updater's own steps
(`AgentUpdate`; the ConfigTool's are a user's), the tasks of a sweep and its timers (`Discovery`). Strong
fairness only for the semaphore's waiters, which SemaphoreSlim serves in turn,
and for starting each of the alert jobs that share a queue. Nothing that a user,
a printer or a fault does is fair: batches may never be collected, nobody has to
report, a probe may never return, faults need not happen. `EventuallyRecorded`
relies on the bound on losses: connectivity returns.

## 5. Proofs

`tlapm <module>` checks each with no unproved leaf. They hold for every value of
the constants that meets the module's named assumption. Every invariant, action
property and refinement that a run expects to pass is stated by one of these
theorems; what TLC alone checks is listed below the table.

| theorem | says | argument |
|---|---|---|
| `AgentPipelineProofs!Inductive`, `TypeCorrect`, `AtMostOnce`, `NoBatchForgotten` | `IInv`, and from it `TypeOK`, `RecordedOnce`, `NothingLost` | `RecordedOnce` alone is not inductive: that a commit adds rows once rests on there being one open transaction per collectionId (`OneOpenTransaction`) whose batch is not committed (`OpenIsUncommitted`); that striking a batch off loses nothing, on answers of success being true (`AnswersAreTrue`) and on the Agent waiting for the batch it is about to strike off (`AwaitsItsBatch`, `ListsInUse`) |
| `AgentPipelineProofs!NeverShuffled` | `QueueInOrder` | the drained list, what has been enqueued since, and the batch in hand follow each other in collection order (`InOrder`), so requeueing in front and dropping from the front keep it |
| `AgentPipelineProofs!LoopKeepsContract` | `UsesDurableQueue` | step by step: what the loop has drained and not struck off is the abstract caller's hand, the steps of the API and of the wire stutter, and the loop drains only with empty hands |
| `AgentPipelineProofs!PipelineDelivers` | `ImplementsDelivery` | a batch's abstract status is a function of three facts (`Progress`): whether it was collected, recorded, or is still with somebody who may deliver it. Nobody has a batch not collected (`OnlyCollected`), and who no longer has one never gets it back |
| `AgentFilesProofs!QueueInductive`, `QueueAlwaysConsistent`, `NeverTorn` | `QueueIInv`, and from it `QueueConsistent`, `TornOnlyByPowerLoss` | only the semaphore's holder is between WaitAsync and Release, so the list it has read stays the file's, and one whose read failed holds the empty list and has its failure counted (`HolderWorks`); what it is about to rename is a whole file |
| `AgentFilesProofs!QueueIsDurable` | `ImplementsDurableQueue` | an operation takes effect at its rename; until then its hands are what it was called with (`HandsUntouched`), and an exception, a kill or a late write of the disk changes nothing abstract but what the contract allows. An operation that could not read the file maps to one that forgets the list, which the contract counts as a loss |
| `AgentFilesProofs!TypeCorrect`, `AlwaysConsistent`, `RollbackRestores` | `TypeOK`, `Consistent`, `RestoresPrevious` | `Kept`, by the updater's place: up to the end of the backup ServiceFiles is what it was at the launch, from there on the backup is, and what a loop has still to do is exactly what `todo` says; `Whole`, by the ConfigTool's: while it copies, nothing is registered that will stay, and without an update in between what it has copied is what the package holds |
| `AgentsProofs!OnlyOneMachineWorks`, `ReplacedForGood`, `NeverDead`, `AlwaysConsistent` | `OneMachineWorks`, `RevokedStaysRevoked`, the slot has a key or a token, `Consistent` | a secret is new when it is generated and is then in one place only, the request that carries it or the machine that got it; a request whose key is not yet issued holds a secret nobody has seen |
| `AgentsProofs!AlertedOncePerSilence` | `OneAlertPerSilence` | each report pays for one alert: the payment is open while the entity is ONLINE or among the running job's candidates, and is spent when it is marked OFFLINE (`ReportsPayForAlerts`) |
| `PrinterAlertsProofs!TypesHold`, `TonerReportedOnce` | `TypeOK`, `OneTonerAlert` | a run about to create a toner alert has planned to resolve every open one and creates one at most (`PlansToner`) |
| `PrinterAlertsProofs!AlertsNeverPileUp` | `NoPilingUp` | the OPEN alerts of a code and those the run under way still means to create are together no more than the code's conditions (`WithinConditions`): a run plans an alert per missing one, and users only close |
| `MonthlyBillingProofs!ChargedOnce` | `OneChargePerMonth` | a charge nobody moved back is due in its month or later (`DueInItsMonth`), so a run that found nothing due from its month on has found no charge for it, and only the run creates one (`NotChargedYet`); every tick lies in a month (`MonthOfTime`, by the well-foundedness of the naturals) |
| `MonthlyBillingProofs!NeverChargedForMore` | `Consistent` | between two readings in time that lie after a billing day, and from the first of them to the counter as it is, the counter shows no more than was printed since that day (`ReadingsBounded`); a reset only lowers what it shows. What the run charges is what the first and the last of a set of readings show, which exist for any finite set |
| `ClosingsProofs!FeeRaisedOnce` | `RaisedOnce` | unless two writers overlapped or one failed half way, the request under way knows the fee as it is, and its readjustment is not marked until the fee is raised (`FeeIInv`) |
| `ClosingsProofs!FrozenClosingsKept` | `FrozenIsKept` | a request whose month is frozen looked when the month had been frozen fewer times (`LooksBeforeFreeze`) |
| `ClosingsProofs!NoPageChargedTwice` | `NeverOvercharged` | by a history nobody stores: for each printer there is a nondecreasing count of the pages printed by each tick such that two readings, and hence a closing, show no more than the difference of two of its values (`PagesIInv`). Two months share an instant at most, so the sum over the months is at most the sum of the differences, which is at most what was printed (`MonthsAddUp`) |
| `ClosingsProofs!ClosingsConsistent` | `Consistent` | a closing's amount is what the code's function makes of the terms and pages stored with it (`AmountsAsComputed`), and that function, tier by tier or printer by printer, is within half a cent for each of the sum over the pages of each page's price (`TieredCharge`, `FranchiseCharge`, `FlatCharge`), for sums over any finite set |
| `DiscoveryAndSuppliesProofs!SlotsAlwaysAccounted`, `FoundAlwaysComplete` | no slot is lost; `FoundIsComplete` | free slots and targets being probed add up to the limit, by the cardinality of the set of probed targets; a device is with its task, in the channel or found, and the channel is completed only when every task is done |
| `DiscoveryAndSuppliesProofs!ScansWhatItShould` | `Consistent` | a network is a whole block of a space that is a multiple of it, so masking gives its first address and the loop runs over its hosts and no others (`HostsAre`), without wrapping around (`SuccessorIs`); what is probed and what the loop has still to come to are the hosts of all networks (`Expanding`), of which there are no more than the estimate adds up (`EstimateSuffices`) |
| `DiscoveryAndSuppliesProofs!StockBalances` | `StockConsistent` | while nothing has been committed since a request read the item, the quantity it computed is what its movement makes of the present one (`Computed`); a request about to insert its part has a movement no part has yet (`Placed`). The balance, a function recursive in the movements, exists, is one and is extended by a commit |
| `DiscoveryAndSuppliesProofs!RowsStayConsistent`, `DetectionsStayReal` | `RowsConsistent`, `DetectionsAreReal` | an open candidate still has its jump at the end of the levels, unless there is a gap (`CandidatesJumped`); without overlap one of ingestion and forecasts is under way (`Exclusive`), and who is about to insert a prediction knows that there is none (`PredictionsAlone`); each rise of the level not yet counted still has its swap (`CountedOnce`) |
| `ServiceOrdersProofs!AlwaysConsistent`, `AlwaysEverybodyTold`, `AlwaysAnsweredOnce` | `Consistent`, `EverybodyTold`, `AlertAnsweredOnce` | an order's technician, and a closed order, is either announced or some request holds the promise to announce it: the request that wrote it last compared with a row as old as its own read, and an assignment it did not see was promised by another; an alert's order is linked, or its creation is under way, or two raced or one failed |

**What they assume.** The assumptions are on constants, and say what the code's
types, its validation and the database say: counts are natural numbers, prices
and percentages not negative, sets of rows finite, months in order, `None` and
the like none of the values they stand beside. Some say more, each of them
something the code does: a submission has a device (`PipelineAssumption`; the
Agent sends no empty batch), a tenant's own threshold is not below the default
(`PresenceAssumption`), a network's loop does not run up to the last address of
all (`DiscoveryAssumption`; where one does it never ends). One precondition is
in a property: `PagesChargedAsPriced` is about brackets that start at page 1 or
later (`FromPageOne`).

**How sums and recursion are reasoned about.** Sums are `SumFunction` of the
community modules. That it adds up, is monotonic and splits is proved once at
the head of `ClosingsProofs`, by induction over the subsets of a finite set
(`SubsetsAll`), itself from the well-foundedness of the naturals. Powers of two,
estimates and the stock's balance are recursive functions; each is first shown
to exist (`RecursionExists`, `BalanceExists`).

**Only model-checked** is what must happen in the end, which needs ENABLED and
fairness: `EveryCallReturns`, `EventuallyRecorded`, `ComesBack`, `SweepEnds`,
`EnrollsUnlessDisturbed`, `SilentGoesOffline`, `JobAlertsSilent`,
`LastingSurfaces`, `ResolvedWhileOthersLast` and `LateSurfaces`. `Sessions` has
no theorem: its one run shows a property violated. Nor have `UpdateTakesEffect`
and `DueAsPromised`, which the code does not keep.

## 6. Findings and observations

Three, each with a run that finds its property violated:

* `sessions`: refresh tokens are rotated at each use (`auth.service.ts`), and the
  answer holds a new pair, but the web application stores only the new access
  token (`api-client.ts:31`). The refresh token it keeps is revoked, so the
  second expiry of an access token signs the user out in the middle of a
  session. Storing both tokens makes the property hold in `MCSessions`.
* `update_version`: an update never reaches what runs. The MSI and the updater
  replace `ServiceFiles`, the service is registered with the exe in `Service`
  (`WindowsServiceInstaller.cs:50`, `254-261`), and only InstallOrUpdate copies
  the one to the other. `Program.cs:61` logs "service is running the new
  version" and agent-windows' `README.md:203-206` promises it. The restarted
  service finds the same release newer again, and as `_lastUpdateCheck` is in
  memory (`AgentWorker.cs:32`) it does so at once, for as long as the release
  is active; and that a release does not start is never noticed, as the start
  that is verified is the old version's.
* `own_contract`: PostgreSQL sorts NULL first in descending order, so with a
  contract for the printer and one for the customer the general one decides an
  order's due date, against the comment at `service-orders.service.ts:167`.
  `LateSurfaces` checks the rest of the SLA's way in the same instance: an order
  late by whichever contract one takes surfaces.

What else the models brought up, and what properties that hold leave out:

* *Offline queue.* FlushAsync is not an fsync: a power loss right after the
  rename can leave an unreadable file (`OfflineQueue.cs:118-135`), which
  `TornOnlyByPowerLoss` allows. Drained batches are in memory only until
  RequeueAsync (`AgentWorker.cs:188`): `NothingLost` counts a kill in between as
  a fault. An intact file that cannot be opened or read at that moment reads as
  empty (`OfflineQueue.cs:110-114`), and the operation then replaces it: all that
  was queued is gone without a power loss. The model counts such a read as a
  loss (`ReadFails`, `QueueReadFails`), and the properties say that it is the
  only loss besides overflow and power failures.
* *Agent update.* (Downloads are refused until a signing certificate is
  configured, `AuthenticodeVerifier.cs`; the model presumes one.) `ComesBack` says
  only that the service runs again, with whichever version.
  When the backup fails, the rollback deletes intact ServiceFiles
  (`Program.cs:75`, `157`); when a rollback dies, the service still runs, and
  the next update backs up what is left. `PackageRemains` excludes both. The
  comment at `Program.cs:184` does not hold after a leftover backup and a stop
  that timed out.
* *Installation.* One that fails between `sc delete` and `sc create` leaves no
  service, and nothing keeps it apart from an update: it may copy some files
  before and some after msiexec (`met` in `InstalledIsWhole`). The packaged
  `appsettings.json` overwrites the installed one, with the settings of the
  discovery and the SNMP community in it.
* *Enrollment.* Two requests that overlap can redeem one token
  (`agents.service.ts:150-163`); a machine whose key was replaced keeps taking
  its stored credentials for valid (`AgentEnrollmentService.cs:36`), so
  `EnrollsUnlessDisturbed` is for machines without readable credentials.
* *Presence.* The sweep turns a printer OFFLINE before check-offline looks, so
  with the sweep on, the default, nobody is alerted (`docs/architecture.md:56-57`
  says otherwise). `JobAlertsSilent` is therefore about the sweep being off, and
  excludes silences during which a run died for another reason than a deleted
  printer. Of the relations to a printer's row only the contract line refuses its
  deletion, although `agents.service.ts:620-645` expects more; an ignored
  or discovered row can keep a customer (`627-632` says it cannot), and a
  printer claimed between the look and the deletion is deleted. Deleting an
  Agent is refused while it has printers, although the comment at
  `agents.service.ts:90-96` says they stay.
* *Alerts.* An empty alert list leaves no rows, so the alert of a printer's last
  condition stays OPEN (`agents.service.ts:406`, `monitoring.processor.ts:273`);
  a refilled toner's alert is never resolved by the job
  (`monitoring.processor.ts:161`).
* *Billing.* Consecutive periods overlap on the billing day
  (`billing.processor.ts:35`), whose pages are charged twice; a cancelled charge
  counts as billed. `OneChargePerMonth` excludes charges moved to an earlier
  month. `Consistent` excludes charges with a reading that came out of the
  offline queue: such a reading is dated when it arrives, and an old, lower total
  at the end of a period looks like a reset counter and is billed whole.
* *Closings, contracts.* `FrozenIsKept` excludes requests that looked before the
  freeze, `RaisedOnce` readjustments whose requests overlapped or failed
  between fee and mark. `schema.prisma:1218-1222` says `franchisePages` and
  `overagePrice` are no longer read; `closings.service.ts:95` and `146` read
  them. A bracket that starts at page 0 counts a page too many.
* *Supplies.* A misread pair of levels confirms a replacement; a
  replacement entered by hand and also detected counts a swap twice; removePart
  does not return stock, and a part whose insertion fails leaves its stock
  taken.
* *Service orders.* Two requests that find an alert free at the
  same time both answer it. The preventive-maintenance job selects a column
  `number` that Printer does not have. An SLA alert
  that a user acknowledges is no longer OPEN, and the next run creates another;
  no property forbids it, as the comment at `monitoring.processor.ts:232`
  promises no more.
* *Discovery.* IPP alone, or the general part of the Printer-MIB alone, makes a
  printer, although comments in the orchestrator (17-18) and the classifier (7)
  say that no single protocol does; an SNMP call that hangs hides the veto of
  its sysDescr; the catch that counts time-outs per host
  (`PrinterDiscoveryService.cs:165`) can hardly be reached; a range that ends at
  255.255.255.255 never ends (`DiscoveryAssumption` excludes it), and a prefix
  longer than 32 makes the estimate negative. Weights are summed as doubles:
  0.2 + 0.5 - 0.3 falls short of the threshold 0.4 (`RoundedDown`). No heartbeat is sent
  while a scan is under way.
* *Mail.* Only `null` falls back to the legacy sender in `mailer.service.ts`;
  its comment includes a refresh token that is no longer valid, which yields
  `false`.

## 7. Not modelled, and why

SNMP, IPP, mDNS and vendor parsing: the content of device messages, pure
functions of input nobody promises anything about. The ConfigTool's tabs and the
pages of the web application: user interfaces. Tenant isolation: a query-rewriting
extension, and each model is of one tenant. Registration, permissions, hashing
and the token library. Mail, PDF, CSV, digest and report deliveries: they read
what is there and write nothing that is read again. CRUD modules of independent
rows, the installer, the seed, generated code and the infrastructure. The
preventive-maintenance job, which fails at its first query. The share of the
source that the models cover is therefore small: half of the code is the web
application, and a good part of the rest is data transfer objects, controllers
and device formats.
