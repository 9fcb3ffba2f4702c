# A formal model of the EMS device agent

The EMS device is a read-only edge agent on a Raspberry Pi: it reads an inverter
over RS485/Modbus, keeps every reading in a durable queue, uploads it to a
platform, enrolls itself under a one-use activation code, and is updated by
signed releases that are confirmed or rolled back without anyone present. This
directory models it in TLA+, checks the models with TLC and proves their safety
with TLAPS. Source paths below are relative to the repository root.

## 1. The system

| Component | Code | State it keeps | Operations |
|---|---|---|---|
| Durable queue | `src/ems_device/state.py` | `outbox` (AUTOINCREMENT ids), `dead_letter` (unique original id), `settings` in one SQLite file | `enqueue`, `pending`, `acknowledge`, `apply_item_receipts`, `clear_assignment`, `factory_reset` |
| Agent | `agent.py` | boot id, sequence number | `sync`, `sample`, `upload`, `_validate_item_receipts`, `upload_logs` |
| Run loop | `cli.py` (`run`) | `next_sync`, `next_upload`, `next_log_upload`, failure counts, stop event | enroll, check the reader, first sync, then logs / sample / sync / upload with backoff |
| Identity and credentials | `provisioning.py`, `hardware_identity.py`, `cli.py` | identity, activation code, credentials, platform origin, hardware binding, rotation flag | `provision`, enrollment of `run`, `rotate-credential`, `reset`, `reset --factory` |
| Updater | `updater.py` | `releases/`, symlinks `current` and `previous`, journal | `install_update` |
| Watchdog | `update_watchdog.py` | the same journal and symlinks | `recover`, `rollback`, `--retry-rollback` |
| Contact evidence | `runtime_health.py` | `runtime-health.json` | `record_contact` |
| Modbus reader | `readers.py`, `profiles/` | connection, remembered identity check | construction, `check_ready`, `read`, `close` |
| systemd units | `deploy/` | the running service and timer | restart on failure (30 s), watchdog every 15 s |
| Installer | `run.sh` | the same releases, symlinks and unit; its own directory under `releases/` | bootstrap installation, recovery trap |
| Configurator | `configurator/configure_pi.py` | a session on a laptop, a staging directory on the device | inspect, remote reset, stage, run `run.sh` |
| Health | `state.py`, `agent.py`, `cli.py` (`health`) | `operational_health` | `record_success`, `record_error`, refusals, `health_snapshot` |
| Debug log | `log_buffer.py`, `agent.py` | a ring of 50 log entries | `emit`, `drain`, `upload_logs` |
| Diagnostics | `preflight.py`, `inventory.py`, `system_stats.py` | none | read-only reports |

How they interact. The run loop calls the agent, which calls the reader, the
queue and the platform, one after the other in one thread; `agent.lock` keeps
the other commands out of the state directory while it runs. Updater, watchdog,
`run.sh` and the remote reset share `.update.lock`. Agent and watchdog share no
lock: they talk through `update-state.json` (read by the agent) and
`runtime-health.json` (read by the watchdog). Everything else is asynchronous:
the platform may process a request whose answer nobody hears, systemd restarts
what died, the machine may lose power, and an operator may act between any two
commands.

What is hard, and what makes each part correct:

- **Queue and upload.** Lost answers, late requests, malformed or reordered
  receipts, crashes between the platform's commit and the local one. Correct
  when no committed reading disappears without a trace, nothing leaves the
  device under another assignment, and no row blocks the others for ever.
- **Credentials.** Answers lost in enrollment and rotation, a moved SD card, an
  edited `platform_url`, resets in any state. Correct when a secret goes only to
  its issuer, a lost rotation stays visible, one identity works on one board.
- **Updates.** Kill, crash or reboot between any two steps of two programs,
  evidence that is old, late or of another process. Correct when only a release
  that reached the platform in time is kept, and every attempt ends.
- **Reader.** Calls that fail halfway, an adapter moved between inverters,
  two's complement, word order, sentinels. Correct when a sample says what the
  registers of the audited inverter say, and no other register is touched.
- **Run loop.** Outages of any length, waits inside waits, one reading of the
  clock for a whole turn, a SIGTERM anywhere. Correct when the network never holds
  up the sampling, the retries neither hammer nor fall silent, and a stop is quick.
- **Installer and configurator.** A shell script that can end after every command,
  a trap that a SIGKILL or a dropped terminal passes by, an operator or a second
  technician at the same time, a command that runs on without its connection.
  Correct when an open trial is left alone, what is active is whole and vouched
  for, a stopped service comes back, and a reset erases only the identity that its
  technician was shown.
- **Health and log.** A clock that steps back, records that fail on a full disk, a
  reader without the lock, an upload that empties the ring first. Correct when the
  numbers account for what happened, nothing is sent twice, and what is lost was lost
  in one of the ways the code intends.

`PROJECT.json` lists the hazards one by one at the lines where they bite, with
the property that covers each, or why none does.

## 2. Modules

| Module | Role |
|---|---|
| `Telemetry` | queue, agent and run loop, with the platform's telemetry service |
| `Delivery` | abstract: what queue and upload promise; `Telemetry` implements it |
| `TelemetryProofs` | proofs about `Telemetry` |
| `Credentials` | identity, enrollment, rotation, resets, with the platforms |
| `Update` | updater, watchdog, evidence, service and machine composed |
| `Deployment` | abstract: what installing a release promises; `Update` implements it, and so does `Installer` with everything that goes on beside it |
| `UpdateProofs` | proofs about `Update` |
| `Reader` | profile validation, identity, calls and decoding |
| `ReaderProofs` | proofs about `Reader` |
| `Installer` | `run.sh`, its trap and the remote reset, composed with all of `Update` (it EXTENDS it) |
| `InstallerProofs` | proofs about `Installer` |
| `RunLoop` | the waits of `run`: polls, first sync, deadlines, backoff, SIGTERM |
| `RunLoopProofs` | proofs about `RunLoop` |
| `Health` | counters and timestamps, and the `health` command reading beside the agent |
| `HealthProofs` | proofs about `Health` and `Logs` |
| `Logs` | the ring of log entries and its upload |
| `Configurator` | technicians who inspect, reset and install one device |
| `ConfiguratorProofs` | proofs about `Configurator` |
| `CredentialsProofs` | proofs about `Credentials` |
| `MC...` | one per checked module: symmetry sets, profile families, lists of values for TLC |

A comment `Mutant:` precedes an operator that is *not* the code: it is the
definition after it with a plausible bug, and shows that the property aimed at
that bug would notice. No specification uses one.

### Telemetry

`outbox`, `lastId` and `deadLetter` are the tables and the AUTOINCREMENT counter;
`credentials` and `config` the settings that matter here, reduced to the station
they name. `pc` is the place of the run loop; `batch` is what `pending` returned,
held across the POST. A row carries a ghost `station`, the assignment under which
it was measured. `request`, `reply` and `late` are the network: a POST that the
process gave up on (time-out, crash) may arrive later or never. The platform is
external and follows `docs/PROTOCOL.md`: it recognises `(boot_id, sequence)`,
accepts, calls a duplicate, or rejects an item for ever or for now, and answers
with per-item receipts or, in the older protocol, with counters only. It may also
send receipts that are missing, repeated or out of order, or counters that do not
add up, but it never says that it took what it did not.

Commit and `sequence += 1` are one step of `Sample`: a crash between them loses the
volatile counter with the boot id, so that the states reached are the same.
`SyncFails(s)` covers failures before and after `station_config` was written.

### Credentials

One command runs at a time under `agent.lock`, so one `pc` stands for whichever
it is; it can be killed anywhere. Identity (UUID, serial, provisioning secret) is
one value `serial`. A platform keeps per serial its status, station, current
secret, and whether the bootstrap secret may still be handed out: until its first
authenticated use, as in PROTOCOL.md. `MoveCard` puts the card into another board
or one without a readable serial, `EditUrl` changes the configured platform,
`Administer` revokes or frees a device.

Assumption: an operator's soft reset happens after requests abandoned by earlier
commands have drained (`late = {}` in `SoftReset`); the commands it must wait for
are stopped by then, and a request outlives its client by seconds.

### Update

Every step of `_install_update` that touches disk or systemd is an action of the
updater, every one of `recover` and `rollback` an action of the watchdog; each
can be killed (lock released, files kept), any `systemctl` can fail before or
after it stopped the service, the service can crash, the machine can reboot. The
reading of the journal and the writing of evidence in `record_contact` are two
steps. So are a look at the service and the write that follows from it: `is-active`
(`WatchdogLooks`), `MainPID` (`WatchdogIdentifies`) and the confirmation
(`WatchdogConfirms`) are three steps, the five looks of a rollback and its outcome
two (`RollbackHolds` or `RollbackFails`, then `RollbackEnds`; in the updater
`UndoHolds` or `UndoFails`, then `UndoEnds`), and the service may die or be
restarted between them. That is why no property says that the service runs when an
attempt is settled: it need not. `SettlesRunning` says that the program which settles
it has *seen* it run: the release that is still the active one, in a confirmation under
the pid that the evidence names, and that whatever runs by then is no other release.
`good`, `earned` and `seen` are history: what the watchdog confirmed, attempts
whose release made contact in its window, and what a program's last look found.

Abstractions: the version is subsumed by the release directory, one directory per
version; an attempt is named by its release, as a version is never built twice;
download, signature, digest and archive checks are one refusal without effect;
the branches for a missing previous release are left out since `_install_update`
refuses to start without one. A second termination signal while the updater
undoes its work has the effect of a kill. Pids are reused at will; a process
takes a boot id that no file or process holds.

### Reader

A profile maps fields to points and computed fields to their terms; the
constructor's tests are `Valid`. Calls happen in any order, each can fail, and
the registers may change between two. The adapter can be unplugged and put on
another inverter, which closes the connection. Assumptions: pymodbus does not
reconnect silently within a call; a cable moved behind the same adapter is not
noticed by the code and is not modelled; JSON type tests are left to the typed
model; scale and offset, floats in the code, are whole numbers. A computed field is
not a point, and every term of its sum is used once.

### Installer

It starts from an empty machine and lets everything of `Update` go on beside it:
`UpdateSteps` are the updater, the watchdog, the service and the clock of `Update`,
on a unit that can also be stopped (`unit.halted`), which `Update` alone does not
have. `installer` holds the shell variables (`BOOTSTRAP`, `PREVIOUS`,
`SERVICE_WAS_ACTIVE`, `SWITCHED`); its `pc` is the command that comes next. A
command that fails, SIGINT and SIGTERM lead to `Recover` and `Resume`, the two
halves of the trap; SIGKILL, SIGHUP and a power loss (`InstallerKilled`,
`PowerCycle`) pass it by. The remote reset is the same with `release` empty.
Everything `run.sh` does before it reads the state of the service (packages, venv,
preflight, units) is one step, as the service does not notice it. Reading that state
(`ReadActive`), stopping, the five looks (`InstallHolds`) and `COMPLETE=1`
(`InstallCompletes`) are steps of their own. An operator may stop and start the
service at any time, as `systemctl` asks for no lock: also while `provision` or the
reset works on the identity, where the agent then takes, or finds taken, its own
`agent.lock`. An agent that is up when its turn comes makes `provision` fail
(`Provision`, `InstallFails`). `left` is history: releases
that a killed script left active.

### RunLoop

One turn of the loop is the code's: log upload, sample, sync, upload, wait, each
with a length. A deadline is kept as the time left until it, so that runs of any
length are checked. `due` holds the comparisons with `now`, which is read once at
the top of the turn. `age` and `streak` are history. What an operation does is in
`Telemetry` and `Credentials`; here it succeeds, fails, or is refused. A refused
credential and an inverter that does not answer `check_ready` end the process with
status 1, and systemd starts it again.

### Health and Logs

`Health` takes a reading for its id; `Modbus` says whether the reader is one, whose failed
samples, refused ones among them, `rs485_errors` counts too. Every operation leaves an outcome in `todo`,
which is recorded in a transaction of its own, or lost (full disk, crash). The
`health` command asks four queries, and the agent works between them, as nothing
of the command holds `agent.lock`. `failed`, `missed`, `refused`, `counted`, `at`
and `kept` are history, for the counters to be compared with. In `Logs` an entry is
its number in the process, which is the model's: the code gives entries none, and the
platform could not tell a gap. A request given up may still arrive.

### Configurator

`session` holds the locals of `main` of each technician, `remote` the command each
started on the device: it goes on when the channel closes, and its session is then
told -1. The device has the lock, the identity, what is installed and the staging
directories, which are named by a second of the laptop's clock and may be shared.

## 3. What is checked

| Run | Instance | States | Shows |
|---|---|---|---|
| `telemetry_safety` | 2 stations, 2 boots, queue 2, batch 2, 3 readings, 1 late request | 424 k | `OutboxIsSound`, `NoSilentLoss`, `OwnStationOnly`, `ReceiptsApply`, `UploadsFollowGoodSync`, `OnlySettledRowsLeave`; `Telemetry` implements `Delivery` |
| `telemetry_live` | 1 station, 3 boots, one poisonous row, batch 2 | 10 k | `EveryRowSettles` |
| `update` | 2 releases, 1 pid, 4 boot ids, 2 faults | 957 k | `OnlyEarnedIsGood`, `ResolvedIsTrusted`, `RollbackTarget`, `PhaseOrder`, `SettlesRunning`, `UpdateSettles`; `Update` implements `Deployment` |
| `credentials` | 2 serials, 1 station, 2 platforms, 2 boards, 3 secrets, 2 operator acts | 267 k | `SecretsStayHome`, `LostRotationIsFlagged`, `StateIsCoherent`, `ClaimReachesDevice` |
| `credentials_print` | 1 platform, 1 board | 0.9 k | violated: `PrintedCodeIsKept`, section 6 |
| `reader` | words of 2 bits with all contents; blocks over 6 registers in 2 spaces, up to 2 points and 2 blocks | 2.4 M | `SampleIsFaithful`, `ReadsExactlyDeclared`, `OnlyTheAudited` |
| `installer` | 2 bootstrap releases and a signed one, 3 boots, 1 fault, 1 operator act | 784 k | `CurrentIsSound`, `IdentityWorkIsExclusive`, `TrialUndisturbed`, `MonitoringHandedBack`, `TrialComesBack`; `Installer` implements `Deployment` (`KeepsDeployment`) |
| `installer_trap` | the same without fairness | to the violation | violated: `FailureRestartsPrevious`, section 6 |
| `runloop` | interval 1, sync 3, poll 6, backoff to 5, request 1, sample 1 (in ticks) | 494 k | `KeepsPace`, `PolicyIsFresh`, `StopsInTime`, `BacksOff`, `UploadsResume` |
| `health` | queue 1, 2 readings, throttle 2 ticks, 1 step back, 1 failure | 4.5 M | `CountersAccount`, `ClockIsFollowed`, `ReportIsSound` |
| `logs` | ring of 2, 7 entries | 447 k | `LogIsAccounted` |
| `configurator` | 2 technicians, 2 seconds, 3 identities | 3.8 M | `OnlySuccessIsFollowed`, `ErasedOnce`, `InstallsOwnCheckout` |

Some properties are conjunctions of parts that are named and explained where they
are defined (`OutboxIsSound`, `StateIsCoherent`, `KeepsPace`, `CurrentIsSound`, `TrialUndisturbed`,
`ClockIsFollowed`, `ReportIsSound`, `LogIsAccounted`, `OnlyTheAudited`,
`OnlySuccessIsFollowed`). Two of them say of `Installer` what is central to `Update`:
beside `run.sh`, the reset and operators, a signed release is still trusted only on
evidence of its own (`SignedIsEarned` in `CurrentIsSound`), and an attempt still goes
from phase to phase in order, and its outcome is written on a look of the writer's own
(`TrialUndisturbed`).

What four of them do not say, as the code does not hold it:

- `IdentityWorkIsExclusive` leaves out one actor. Nothing keeps an operator from
  `systemctl start` while `provision` or the reset runs. The unit is stopped when their
  turn comes, and neither systemd, the watchdog, the updater nor another script starts
  it.
- `MonitoringHandedBack` speaks of the last look of `run.sh` or the end of a trap, not
  of the moment of `COMPLETE=1`: the service may die after the look. `TrialComesBack`
  likewise leaves out a service that is stopped after the program which settles the
  attempt has looked: it stays stopped.
- `BacksOff` exempts the first sync of a process. If it fails and a policy is cached,
  `cli.py:248-253` starts the loop with no wait and no failure counted, so that the
  platform is asked again in the first turn; from there on the backoff counts.
  `streak` keeps that failure (`cold`), and `Owed` takes one off for it.
- `InstallsOwnCheckout` leaves out two technicians who stage in the same second of
  their clocks. They share a directory (`configure_pi.py:398`), one may run the tree
  of the other, and nothing in the code prevents it.

Why these bounds are enough to be interesting. Two rows in a batch give every
partial, reordered and repeated answer; a third reading in a queue of two meets
the limit; two stations give every confusion of tenants; two boots give a crash
with rows in the queue; one late request gives the duplicate that arrives
after the retry. In `Update` two faults give an interruption and an interruption
of its recovery; the window is one tick and a boot two, so that evidence falls before,
in and after it. In `Credentials` two operator acts give a reset after a moved card
or an edited URL, three secrets a rotation after a bootstrap. Words of two bits
have every sign and word-order case of 16 bits; blocks of up to three registers
over three addresses give gaps, overlaps and blocks one too long. In `Installer`
three releases give a second `run.sh` and a signed update over the first, in both
orders; one fault interrupts any of them anywhere, beside one act of an operator.
In `RunLoop` a tick is about ten seconds: requests that time out, a sync longer than
the interval, a backoff longer than the interval and one longer than the poll all
occur. `CALL` bounds the time one request takes in all. The code sets time-outs of
httpx, which bound each read or write: a platform that sends a byte now and then could
hold a request longer, and `KeepsPace`, `PolicyIsFresh` and `StopsInTime` hold
as far as requests keep to `CALL`. The platform may change between any two steps, as
often as it likes. A queue of one is full, empty and turned over between two queries of `health`. A ring
of two overflows several times in seven entries. Two technicians meet at every step, and
three identities let the device be erased twice.
Proofs remove the bounds for every safety property that a run finds to hold.

Deadlock is checked in every run but those of `Installer`: its machine does stop,
when its only release failed, the unit is halted, and nobody acts any more.

### Fairness

- `Telemetry`: the loop goes on (its waits are bounded), systemd restarts the
  process (Restart=on-failure), and what network and platform can do again and
  again they do at last: strong fairness, because an outage may interrupt any
  attempt but not every one for ever. Nothing makes an operator act. A row in
  `Poison` is refused as retryable for ever; the others must leave.
- `Update`: a running updater or watchdog proceeds, the timer fires, a dead
  service is started, time passes: weak fairness of each. Faults are bounded by
  `MaxFaults`, as a machine that fails for ever settles nothing.
- `Credentials`: the service is restarted and polls; strong fairness of sending,
  answering and hearing the assignment.
- `Installer`: as in `Update`, and a script that runs goes on. Nothing makes a
  service start that was stopped, or an operator act: `TrialComesBack` rests on the
  watchdog's timer alone.
- `RunLoop`: the process runs and time passes (weak); a platform that is up does not
  fail every attempt, nor the inverter every check at a start (strong).

## 4. What is proved

### Telemetry

`TelemetryProofs` proves, for every number of stations and boots and every
capacity and batch size, that the specification of `Telemetry` satisfies
`OutboxIsSound` (`TypeOK` with the capacity, and `KeysUnique`), `NoSilentLoss`,
`OwnStationOnly`, `ReceiptsApply`, `UploadsFollowGoodSync` and `OnlySettledRowsLeave`, and that it implements
`Delivery`. The assumptions are those on the constants in `Telemetry`.

None of these properties is inductive alone. The invariant `Inv` adds:

- `Control`: nothing is in flight but while the loop waits, and then it waits for
  the batch that was sent under the credentials it has. Without it an answer could
  be applied to another batch.
- `RowsMeasured`: every row, wherever it is, was measured; `batch` is still queued;
  queue and quarantine are disjoint. It makes the receipts apply.
- `KeysFresh`: ids and sequence numbers run ahead of everything measured. It makes
  keys unique and ids never return.
- `AnswerHonest`: an answer that says an item was taken speaks of one the platform
  holds under these credentials. With `KeysUnique` this identifies the *row*, which
  is what allows the code to delete it: the tests of `_validate_item_receipts`
  on identity are used here, and the proof fails without them.

Steps that touch neither table nor network (`QuietStep`), steps by which the
process stops listening (`LeaveStep`) and steps that settle a batch (`SettleStep`)
are each proved once; every action is shown to be one of them or has a lemma of
its own. `UploadsFollowGoodSync` has its own small invariant `SyncedUntilDue`.
`StepsRefine` maps each step to a step of `Delivery` or a stutter under `Inv`.

### Update

`UpdateProofs` proves, for all sets of releases, pids and boot ids, all windows
and boot times and any number of faults, all the safety that the run `update` checks:
`TypeOK`, `OnlyEarnedIsGood`, `ResolvedIsTrusted`, `RollbackTarget`, `PhaseOrder`,
`SettlesRunning`, and that `Update` implements `Deployment`. It assumes only what
`Update` assumes of its constants. The three safety invariants are not
inductive; the invariant `Inv` adds:

- `Lockstep`: whichever program is at work holds `.update.lock`, so that two
  programs never work at once.
- `JournalSound`: a journal names an attempt by its release and another release
  to go back to. Without it a rollback might switch to what it leaves.
- `UpdaterControl`, `WatchdogControl`: where a program is says which phase is on
  disk and where `current` points. Since every step is journalled before it is
  made, this survives a kill: only the program counter is lost.
- `RunsCurrent`: once the switch was made and the new release has left evidence, no
  process of the old one runs; before the switch the new release was never run.
  It is why `recover` may take a live pid for a process of the *active* release.
- `EvidenceSound`: evidence under the attempt of the journal, from its kernel boot
  and before its deadline, was written by that attempt's release. It is why
  `recover` may confirm on the file alone.

Each action has a lemma with one step per group of the invariant. `UpdaterControl` and `WatchdogControl` also keep what a look found: nobody but the
holder of the lock switches "current", so that the release seen is still the active one
when the outcome is written, whatever has become of its process. The two ends of a
rollback, by the updater and by the watchdog, share one description (`Outcome`) and
one lemma. `PhaseOrder` and `SettlesRunning` look only at the seven actions that
write the journal (`OnlyTheseWrite`). `StepsRefine` maps `Begin` to the start of a
trial, a kill or reboot during the build to its abandonment, `WriteHealth` to
contact, `WatchdogConfirms` to acceptance, a successful rollback to rejection, and
everything else to a stutter.

### Health

`HealthProofs` proves, for every capacity, interval, clock and number of readings,
all that the run `health` checks. `CountersAccount` is inductive with `TypeOK`, and
so is the trailing of timestamps. The rest needs:

- `Uncounted`: an operation counted no more regressions than there were steps back,
  and if it counted all of them, the clock is not behind its timestamp. It is why one
  step back is not counted twice.
- `CountedSoFar`: what the queries so far have counted covers the readings kept,
  whichever of the two tables they are in by now. It holds because the backlog is
  counted *before* the dead letters, the direction in which the agent moves rows.
- `OldestSoFar`: the oldest reading reported is not newer than anything that is
  still in the queue. It holds because ids only grow.

### Logs

The first part of `HealthProofs` is about `Logs`: for every size of the ring and any
number of entries, `LogIsAccounted` holds, that is, nothing is with the platform twice,
and what is lost was in a batch that failed, for which a warning was written, or was
pushed out by a full ring, of which nothing tells (`log_buffer.py:21`). `AtMostOnce` is not inductive;
the invariant `LogInv` adds:

- `Windows`: the ring, or the batch drained from it, is a window of consecutive numbers
  that ends with the last one given out. It is why dropping the oldest entry is the only
  way to lose one before it is sent.
- `Settled`: the number below that window. Everything the platform has, and everything
  in a request that was given up and may still arrive, lies at or below it, which is why
  the next batch repeats nothing.
- `SentOnce`: up to `Settled`, each number is with the platform once, or in one request
  that may still arrive, or in neither.

The lemmas are about sequences: what `Append`, `Tail` and `\o` do to a window and to
distinctness (`AppendKeepsWindow`, `TailKeepsWindow`, `ConcatDistinct`).

### Credentials

`CredentialsProofs` proves all the safety that the run `credentials` checks, for any
identities, platforms, boards and secrets and any number of abandoned requests:
`SecretsStayHome`, `LostRotationIsFlagged` and `StateIsCoherent`. Its invariant `Inv`
adds:

- `CommandOK`, `RequestOK`, `ReplyOK`: where the command is says what the settings
  hold and what may be under way. Its credentials come from the origin it is bound to,
  which is what keeps a secret at home.
- `AccountsOK`: the secret of an account was issued by that platform and is not one
  that a rotation has replaced, so that no answer brings a dead secret.
- `OneOwner`: a secret is known to one identity, by its account, a message, the device
  or the answer under way, and a new secret to nobody. Hence a late rotation that hits
  the stored secret was sent under this identity.
- `RotationOK`: any rotation under way from this identity carries the stored secret
  only if the flag is up, and never the secret that is about to be stored. It is where
  the order of `rotate_credential` matters, the flag before the request.
- `HardwareOK`: an identity was used on the board it is bound to and on no other.

Two lemmas carry most actions: `QuietKeeps` (an exchange ends and no setting changes)
and `StoreKeeps` (an answer's secret is stored). `EffectKeeps` is the platform's part,
shared by an answered request and by one that arrives late.
As in the model, the proof assumes that a soft reset comes after every abandoned
request has died: without it a late rotation could hit a bootstrap secret that a new
enrollment is handed again.

### Configurator

`ConfiguratorProofs` proves everything the run `configurator` checks, and `TypeOK`, for
any number of technicians, identities and readings of their clocks. Its invariant adds
to the two parts of `OnlySuccessIsFollowed`:

- in `TypeOK`, that the lock belongs to the one remote command that runs, whether
  anybody waits for it or not: no reset or install overlaps another;
- `Unasked`: a reset is chosen only after the serial was read in the same session;
- `Named`: who stages or installs has named a directory;
- `Packaged`: what a staging directory holds was packaged for it, by one of the
  technicians who named that second.

`WhoDoesTheWork` shows that a remote command does its work only in `Reset` or `Install`
of its own technician, on which the properties rest. `ErasedOnce` has an invariant of its
own, `Erasures`: who erases, or has erased, was shown a serial older than the present
one, and no two of them the same.

### Installer

`InstallerProofs` proves all the safety that the run `installer` checks, for any set of
bootstrap and signed releases, pids and boot ids and any number of faults, bootstraps
and acts of operators. It starts again from an empty machine: the invariant of
`UpdateProofs` does not carry over, as a unit may now be stopped, "current" may name
nothing, and `run.sh` makes releases active that were never on trial. `Inv` has
again `Lockstep`, `JournalSound`, `UpdaterControl` and `WatchdogControl`, and adds:

- `InstallerControl`: where the script is says which release is active, that a
  bootstrap works only between two attempts, and that what its check finds running is
  its own release. It rests on the tests after the lock was taken
  (`--check-idle`), and on the lock being held until the script ends.
- `Evidence`: as in `Update`; a contact on trial is only ever of a signed release
  whose directory is there, so that deleting a failed bootstrap takes no evidence.
- `Vouching`: a release that is active while no attempt is open was confirmed by the
  watchdog, completed its bootstrap, or was left by a script that was killed, for
  which `LeftoverVouches` shows what it leaves; what is confirmed and signed has earned it.

`TrialUndisturbed` needs one more, `RunsCurrent`: a process that was started after
the last switch runs the active release, although operators and scripts stop, start and
restart the service meanwhile. It is an invariant under `Inv`, proved in four
lemmas, one for each kind of actor. `OnlyTheseWrite` shows that no script, operator
or reboot writes a journal.

That all of this implements `Deployment` (`KeepsDeployment`) is proved under the mapping
`Committed`: the release to go back to while an attempt is open, the one *before* while
a `run.sh` has its own switched in, else the active one. `run.sh` commits in one step,
when it is complete or when it is killed with its release active; its trap is a stutter,
which a trap that undoes only the first installation (`RecoverFirstOnly`) is not. The
proof needs `SettledServes`, that outside an attempt no process runs a release that was
tried and given up: otherwise a late contact of such a process could count for a trial
that is over. `UpdateDeploys` maps the steps of `Update` as `StepsRefine` does,
`ScriptDeploys`, `CompletionDeploys` and `LeftDeploys` those of the scripts.

### RunLoop

`RunLoopProofs` proves `KeepsPace`, `PolicyIsFresh`, `StopsInTime` and `BacksOff` for
every length of the intervals, the backoff, the requests and the samples, every set of
Retry-After values and every `MaxAge` (at which the ages stop counting). The
invariant `Inv` bounds, at each place of the loop, how long ago the last sample, the
last attempt, the last sync and the stop were: `SampleAge`, `AttemptAge`, `PolicyAge`,
`StopAge`. It is in effect the code's time budget, written down place by place. Two
parts relate them to the deadlines: `NextAttempt`, that the next upload is
never later than the backoff allows but for one set by a success, and `Backing`, that the
count of failures is the number in a row, but for a failed first sync (`Counted`), and
its backoff has passed or is still to come. `BacksOff` follows because the comparison with `now`, made at the top of the turn,
was right then, and time only adds to the age.

Two assumptions deserve a word. `CAP <= MaxAge`: the history can measure the longest
backoff. `PowersAssumption` states that
`2^m <= 2^n` for `m <= n`: it is arithmetic, true of every `MAX_EXP`, and an assumption
only because the provers know nothing of `^`; TLC evaluates it.

### Reader

`ReaderProofs` proves `ReadsExactlyDeclared`, `OnlyTheAudited` and `SampleIsFaithful`
for every even number of words, every address space, every set of profiles (accepted
or refused), inverters and contents of their registers. The invariant says:

- `Identity`: an identity remembered on an open line is that of the inverter the line
  leads to. It holds because `_connect_and_identify` forgets it whenever it has to
  connect, and is why an adapter that was moved cannot contribute to a sample.
- `Coverage`: what is read and still to be read is declared, and in a reading the two
  leave out nothing. It rests on the constructor's test that blocks cover the points
  and nothing else (`CallsReach`).
- `Outcome`: a sample is the decoding of a complete reading.

The lemmas about the operators: `TwosComplementOf`, that subtracting the modulus from
its upper half is two's complement, which is defined independently as the only number
in range that is congruent to the raw value; `PointMeans`, that a point's value is
this for its words in the declared order; `DecodedFields`, which fields a sample has;
`SumOfPair`, that the fold over the two terms of a sum is their sum, in whichever order
it takes them. A sum of more terms is a recursion over data and stays with the
definition of the fold; the audited profile sums two.

### Only model-checked

- Liveness, which is out of the prover's reach: `EveryRowSettles`, `UpdateSettles`,
  `ClaimReachesDevice`, `TrialComesBack`, `UploadsResume`.
- The two violated properties of section 6, each of which is a counterexample.

## 5. Plan

*Done:* Telemetry with Delivery, Update with Deployment, Credentials, Reader, Installer
on top of Update and again with Deployment, RunLoop, Health, Logs, Configurator; proofs
about all of them.

*Left:* `RunLoop` composed with `Telemetry`, so that freshness of the policy is stated
of the rows that are sent, and not only of the loop that sends them.

## 6. Findings

**`provision` prints a spent activation code.** `cli.py:166` reads the identity,
`cli.py:174` accepts an answer "assigned", which deletes the code
(`provisioning.py:93-96`, whose comment says that it is one-use and the local copy
is removed), and `cli.py:180-181` prints "Device code (keep sealed until customer
setup)" from the earlier read. It happens when the customer claimed the device
between an earlier enrollment and this `provision`; the run `credentials_print`
finds it. The branch for a device that already holds credentials (`cli.py:171`)
reads the identity again and is right.

**A failing `run.sh` may leave a process of the release it deletes.**
`docs/OPERATIONS.md:19-20` says that on failure `current` returns to the previous
release and the service is restarted. The trap (`run.sh:77`) restarts it only if it
was active before. If an operator had stopped it, and `run.sh` fails after its own
restart (a signal, a check that finds it down), `current` goes back but the process
of the failed release stays, started from the directory the trap removes. The run
`installer_trap` finds it; `MonitoringHandedBack` shows that nothing of the kind
happens to a service that was running. With no release in place `systemctl restart` starts
nothing, and `MonitoringHandedBack` asks for nothing (`Launch`).

Two things the models show that contradict no document, and are only noted here.
`check_ready` runs before the first request, so that an inverter that is silent at
start keeps the process restarting without any contact with the platform, which in
an update trial ends in a rollback. And a release directory left by a killed build
makes its version unusable from then on.

## 7. Not modelled

- Preflight, inventory and system statistics: reports without state that another
  part reads. A preflight that fails is a refusal of the build in `Update` and
  `Installer`.
- The HTTP client: URL checks, headers and `httpx`; its one state, the credentials
  given at the start, is in `Credentials` and `Telemetry`.
- The simulator and the disabled reader, which are constants.
- Downloads, signatures, digests and archives: refusals without effect in `Update`.
- The archive the configurator builds, host detection and its prompts; the wording
  of any output.
- The units and the watchdog helper that `run.sh` replaces before the switch and does
  not put back: all releases share them.
- The SD card is assumed to keep what SQLite and `fsync` committed; a copied or
  restored database image is not modelled.
