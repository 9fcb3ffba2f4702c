------------------------------- MODULE Update -------------------------------
(***************************************************************************)
(* Installing a release: updater.py, the watchdog of update_watchdog.py,   *)
(* record_contact of runtime_health.py, and the systemd units of deploy/   *)
(* as those use them.  The updater switches the symlink "current" to a new *)
(* release under a journal; the watchdog confirms the attempt on evidence  *)
(* written by the new process, or rolls it back.  Either can be killed     *)
(* between any two steps, the machine can reboot, the service can crash.   *)
(*                                                                         *)
(* The uptime clock restarts at a reboot.  A process takes any pid, also   *)
(* one that was used before, and a boot id that nothing on disk or in      *)
(* memory holds.                                                           *)
(***************************************************************************)
EXTENDS Integers, FiniteSets

CONSTANTS
    Releases,        \* versions that can be built under releases/
    Bootstrap,       \* the release run.sh installed
    NoRelease,
    Pids,
    NoPid,
    Boots,           \* boot ids of agent processes
    NoBoot,
    CONFIRM_SECONDS, \* the confirmation window, in ticks
    MaxUptime,       \* bound: ticks of one kernel boot
    MaxFaults        \* bound: crashes, kills, reboots and failing commands

ASSUME ReleasesAssumption == Bootstrap \in Releases /\ NoRelease \notin Releases
ASSUME ProcessAssumption  == NoPid \notin Pids /\ NoBoot \notin Boots
ASSUME TimeAssumption     == CONFIRM_SECONDS \in Nat \ {0} /\ MaxUptime \in Nat
ASSUME FaultsAssumption   == MaxFaults \in Nat

VARIABLES
    (* /opt/ems-device and the state directory: survive a reboot *)
    built,        \* directories under releases/
    current,      \* symlink to the active release
    previous,     \* symlink to the one before
    journal,      \* update-state.json
    health,       \* runtime-health.json
    (* running programs *)
    lock,         \* holder of .update.lock
    updater,      \* [pc, release, seen] of a running ems-device-update
    watchdog,     \* [pc, pid, expired, seen] of a running watchdog; "seen" is
                  \* history in both: the process found when it last looked
    service,      \* [up, release, pid, boot, contact] of ems-device.service
    (* the machine *)
    now,          \* time.monotonic()
    kernel,       \* kernel boot id
    faults,       \* faults so far
    (* history *)
    good,         \* the bootstrap and the releases confirmed
    earned        \* attempts with a contact that deserves confirmation

files   == <<built, current, previous, journal>>
machine == <<now, kernel>>
history == <<good, earned>>
vars    == <<files, health, lock, updater, watchdog, service, machine, faults, history>>

Phases     == {"switching", "awaiting_confirmation", "rolling_back",
               "confirmed", "rolled_back", "rollback_failed"}
NoJournal  == [phase |-> "idle"]
Phase      == journal.phase
Resolved   == {"idle", "confirmed", "rolled_back"}
Unresolved == {"switching", "awaiting_confirmation", "rolling_back"}
NoHealth   == [attempt |-> NoRelease, release |-> NoRelease, boot |-> NoBoot,
               pid |-> NoPid, kernel |-> 0, observed |-> 0]
Off        == [up |-> FALSE, release |-> NoRelease, pid |-> NoPid, boot |-> NoBoot,
               contact |-> "no"]
Unseen      == [release |-> NoRelease, pid |-> NoPid]
UpdaterOff  == [pc |-> "off", release |-> NoRelease, seen |-> Unseen]
WatchdogOff == [pc |-> "off", pid |-> NoPid, expired |-> FALSE, seen |-> Unseen]

-----------------------------------------------------------------------------
BootsInUse == {health.boot, service.boot}
              \cup (IF Phase = "idle" THEN {} ELSE {journal.boot_before})

(* systemctl restart (Type=simple): the old process is gone, a process of    *)
(* whatever "current" points to runs.  What it takes for its release was     *)
(* fixed when it was started.                                                *)
StartService ==
    \E p \in Pids, b \in Boots \ BootsInUse :
        service' = [up |-> TRUE, release |-> current, pid |-> p, boot |-> b,
                    contact |-> "no"]

Fault == faults < MaxFaults /\ faults' = faults + 1

(* What a look at the running service finds. *)
Sight == [release |-> service.release, pid |-> service.pid]

(* The command fails or times out, before or after it stopped the process.  *)
RestartFails == Fault /\ service' \in {service, Off}

Init ==
    /\ built = {Bootstrap} /\ current = Bootstrap /\ previous = NoRelease
    /\ journal = NoJournal /\ health = NoHealth
    /\ lock = "free" /\ updater = UpdaterOff /\ watchdog = WatchdogOff
    /\ service = Off
    /\ now = 0 /\ kernel = 1 /\ faults = 0
    /\ good = {Bootstrap} /\ earned = {}

-----------------------------------------------------------------------------
(* The updater, under .update.lock. *)

(* Mutant: the directory is made with exist_ok, the version not looked up.    *)
UpdaterRebuilds(r) ==
    /\ updater.pc = "off" /\ lock = "free"
    /\ Phase \in Resolved
    /\ lock' = "updater"
    /\ built' = built \cup {r}
    /\ updater' = [UpdaterOff EXCEPT !.pc = "build", !.release = r]
    /\ UNCHANGED <<current, previous, journal, health, watchdog, service, machine, faults, history>>

(* update_lock, then the tests of _install_update up to the target directory. *)
UpdaterStarts(r) ==
    /\ updater.pc = "off" /\ lock = "free"
    /\ Phase \in Resolved
    /\ r \notin built                        \* else "release already exists"
    /\ lock' = "updater"
    /\ built' = built \cup {r}
    /\ updater' = [UpdaterOff EXCEPT !.pc = "build", !.release = r]
    /\ UNCHANGED <<current, previous, journal, health, watchdog, service, machine, faults, history>>

(* Extraction, venv, pip, preflight or the timer test fails: rmtree. *)
BuildFails ==
    /\ updater.pc = "build"
    /\ built' = built \ {updater.release}
    /\ lock' = "free" /\ updater' = UpdaterOff
    /\ UNCHANGED <<current, previous, journal, health, watchdog, service, machine, faults, history>>

UpdaterAt(from, to) == updater.pc = from /\ updater' = [updater EXCEPT !.pc = to]

(* update_watchdog.begin: the journal is on disk before anything is switched. *)
Begin ==
    /\ UpdaterAt("build", "link_previous")
    /\ now + CONFIRM_SECONDS <= MaxUptime    \* bound: the deadline can pass
    /\ journal' = [phase |-> "switching", attempt |-> updater.release,
                   release |-> updater.release, previous |-> current,
                   boot_before |-> health.boot, kernel |-> kernel,
                   started |-> now, deadline |-> now + CONFIRM_SECONDS]
    /\ UNCHANGED <<built, current, previous, health, lock, watchdog, service, machine, faults, history>>

LinkPrevious ==
    /\ UpdaterAt("link_previous", "link_current")
    /\ previous' = journal.previous
    /\ UNCHANGED <<built, current, journal, health, lock, watchdog, service, machine, faults, history>>

LinkCurrent ==
    /\ UpdaterAt("link_current", "mark")
    /\ current' = updater.release
    /\ UNCHANGED <<built, previous, journal, health, lock, watchdog, service, machine, faults, history>>

MarkAwaiting ==
    /\ UpdaterAt("mark", "restart")
    /\ journal' = [journal EXCEPT !.phase = "awaiting_confirmation"]
    /\ UNCHANGED <<built, current, previous, health, lock, watchdog, service, machine, faults, history>>

UpdaterRestarts ==
    /\ UpdaterAt("restart", "check")
    /\ StartService
    /\ UNCHANGED <<files, health, lock, watchdog, machine, faults, history>>

(* _check_service: five looks in five seconds, shorter than RestartSec. *)
ActivationOk ==
    /\ updater.pc = "check" /\ service.up
    /\ lock' = "free" /\ updater' = UpdaterOff
    /\ UNCHANGED <<files, health, watchdog, service, machine, faults, history>>

(* A dead service, a failing command, SIGTERM: "except BaseException". *)
ActivationFails ==
    /\ \/ /\ updater.pc = "check" /\ ~service.up
          /\ UNCHANGED <<service, faults>>
       \/ /\ updater.pc = "restart" /\ RestartFails
       \/ /\ updater.pc \in {"link_previous", "link_current", "mark", "check"}
          /\ Fault /\ UNCHANGED service
    /\ updater' = [updater EXCEPT !.pc = "undo"]
    /\ journal' = [journal EXCEPT !.phase = "rolling_back"]
    /\ UNCHANGED <<built, current, previous, health, lock, watchdog, machine, history>>

UndoLink ==
    /\ UpdaterAt("undo", "undo_restart")
    /\ current' = journal.previous
    /\ UNCHANGED <<built, previous, journal, health, lock, watchdog, service, machine, faults, history>>

UndoRestart ==
    /\ UpdaterAt("undo_restart", "undo_check")
    /\ StartService
    /\ UNCHANGED <<files, health, lock, watchdog, machine, faults, history>>

(* _check_service again: every look finds it active. *)
UndoHolds ==
    /\ updater.pc = "undo_check" /\ service.up
    /\ updater' = [updater EXCEPT !.pc = "undo_settle", !.seen = Sight]
    /\ UNCHANGED <<files, health, lock, watchdog, service, machine, faults, history>>

(* A dead service, or a link or a command that fails: "except Exception". *)
UndoFails ==
    /\ \/ /\ updater.pc = "undo_check" /\ ~service.up
          /\ UNCHANGED <<service, faults>>
       \/ /\ updater.pc = "undo_restart" /\ RestartFails
       \/ /\ updater.pc \in {"undo", "undo_check"}
          /\ Fault /\ UNCHANGED service
    /\ updater' = [updater EXCEPT !.pc = "undo_report"]
    /\ UNCHANGED <<files, health, lock, watchdog, machine, history>>

(* Mutant: the "finally" writes "rolled_back" whatever happened. *)
UndoClaims ==
    /\ updater.pc \in {"undo_settle", "undo_report"}
    /\ journal' = [journal EXCEPT !.phase = "rolled_back"]
    /\ lock' = "free" /\ updater' = UpdaterOff
    /\ UNCHANGED <<built, current, previous, health, watchdog, service, machine, faults, history>>

(* The "finally" writes the outcome, whatever has become of the service since.  *)
UndoEnds ==
    /\ updater.pc \in {"undo_settle", "undo_report"}
    /\ journal' = [journal EXCEPT !.phase =
                      IF updater.pc = "undo_settle" THEN "rolled_back" ELSE "rollback_failed"]
    /\ lock' = "free" /\ updater' = UpdaterOff
    /\ UNCHANGED <<built, current, previous, health, watchdog, service, machine, faults, history>>

(* SIGKILL, or SIGTERM while undoing, which "except Exception" lets pass: the *)
(* lock is released, everything on disk stays.                                *)
UpdaterKilled ==
    /\ updater.pc # "off" /\ Fault
    /\ lock' = "free" /\ updater' = UpdaterOff
    /\ UNCHANGED <<files, health, watchdog, service, machine, history>>

-----------------------------------------------------------------------------
(* The watchdog: recover(), run by its timer. *)

WatchdogAt(from, to) == watchdog.pc = from /\ watchdog' = [watchdog EXCEPT !.pc = to]

(* Mutant: evidence may be written after the deadline. *)
ConfirmedLate(h) ==
    /\ h.attempt = journal.attempt /\ h.release = journal.release
    /\ h.boot # journal.boot_before
    /\ h.kernel = kernel /\ kernel = journal.kernel
    /\ journal.started <= h.observed /\ h.observed <= now
    /\ now - h.observed <= CONFIRM_SECONDS

(* _confirmed: evidence of this attempt, by a new process of this kernel boot, *)
(* observed within the window and not long ago.                               *)
Confirmed(h) ==
    /\ h.attempt = journal.attempt /\ h.release = journal.release
    /\ h.boot # journal.boot_before
    /\ h.kernel = kernel /\ kernel = journal.kernel
    /\ journal.started <= h.observed /\ h.observed <= now
    /\ h.observed <= journal.deadline
    /\ now - h.observed <= CONFIRM_SECONDS

Expired == kernel # journal.kernel \/ now >= journal.deadline

Interrupted == \/ Phase = "rolling_back"
               \/ journal.release \notin built \/ current # journal.release

(* Mutant: the watchdog does not wait for the lock. *)
WatchdogBargesIn ==
    /\ watchdog.pc = "off"
    /\ Phase \in Unresolved
    /\ \/ /\ ~Interrupted /\ Confirmed(health)
          /\ watchdog' = [WatchdogOff EXCEPT !.pc = "judge", !.pid = health.pid, !.expired = Expired]
       \/ /\ Interrupted \/ (~Confirmed(health) /\ Expired)
          /\ watchdog' = [WatchdogOff EXCEPT !.pc = "rollback"]
    /\ lock' = "watchdog"
    /\ UNCHANGED <<files, health, updater, service, machine, faults, history>>

(* Mutant: "rolling_back" is taken for an outcome. *)
WatchdogLeavesRollback ==
    /\ watchdog.pc = "off" /\ lock = "free"
    /\ Phase \in {"switching", "awaiting_confirmation"}
    /\ \/ /\ ~Interrupted /\ Confirmed(health)
          /\ watchdog' = [WatchdogOff EXCEPT !.pc = "judge", !.pid = health.pid, !.expired = Expired]
       \/ /\ Interrupted \/ (~Confirmed(health) /\ Expired)
          /\ watchdog' = [WatchdogOff EXCEPT !.pc = "rollback"]
    /\ lock' = "watchdog"
    /\ UNCHANGED <<files, health, updater, service, machine, faults, history>>

(* Take the lock ("busy" otherwise), read journal, evidence and clock.  With  *)
(* no evidence and time left it returns "awaiting_confirmation": no step.     *)
WatchdogStarts ==
    /\ watchdog.pc = "off" /\ lock = "free"
    /\ Phase \in Unresolved
    /\ \/ /\ ~Interrupted /\ Confirmed(health)
          /\ watchdog' = [WatchdogOff EXCEPT !.pc = "judge", !.pid = health.pid, !.expired = Expired]
       \/ /\ Interrupted \/ (~Confirmed(health) /\ Expired)
          /\ watchdog' = [WatchdogOff EXCEPT !.pc = "rollback"]
    /\ lock' = "watchdog"
    /\ UNCHANGED <<files, health, updater, service, machine, faults, history>>

(* Mutant: any running service will do. *)
AnyProcess == TRUE

(* Evidence counts only if it came from the main process that runs now. *)
FromMainProcess == service.up /\ service.pid = watchdog.pid

(* systemctl is-active, then systemctl show MainPID: two looks, and the service *)
(* may die or be replaced between them, and before the journal is written.      *)
WatchdogLooks ==
    /\ WatchdogAt("judge", "identify") /\ service.up
    /\ UNCHANGED <<files, health, lock, updater, service, machine, faults, history>>

WatchdogIdentifies ==
    /\ watchdog.pc = "identify" /\ FromMainProcess
    /\ watchdog' = [watchdog EXCEPT !.pc = "confirm", !.seen = Sight]
    /\ UNCHANGED <<files, health, lock, updater, service, machine, faults, history>>

WatchdogConfirms ==
    /\ watchdog.pc = "confirm"
    /\ journal' = [journal EXCEPT !.phase = "confirmed"]
    /\ good' = good \cup {journal.release}
    /\ lock' = "free" /\ watchdog' = WatchdogOff
    /\ UNCHANGED <<built, current, previous, health, updater, service, machine, faults, earned>>

(* No service, another process, or a command that fails: pid = 0. *)
Unconvinced ==
    \/ watchdog.pc = "judge" /\ ~service.up /\ UNCHANGED faults
    \/ watchdog.pc = "identify" /\ ~FromMainProcess /\ UNCHANGED faults
    \/ watchdog.pc \in {"judge", "identify"} /\ Fault

WatchdogWaits ==
    /\ Unconvinced /\ ~watchdog.expired
    /\ lock' = "free" /\ watchdog' = WatchdogOff
    /\ UNCHANGED <<files, health, updater, service, machine, history>>

WatchdogGivesUp ==
    /\ Unconvinced /\ watchdog.expired
    /\ watchdog' = [WatchdogOff EXCEPT !.pc = "rollback"]
    /\ UNCHANGED <<files, health, lock, updater, service, machine, history>>

(* rollback(): the intent first, so that an interrupted one is taken up again. *)
MarkRollback ==
    /\ WatchdogAt("rollback", "relink")
    /\ journal' = [journal EXCEPT !.phase = "rolling_back"]
    /\ UNCHANGED <<built, current, previous, health, lock, updater, service, machine, faults, history>>

Relink ==
    /\ WatchdogAt("relink", "restart") /\ journal.previous \in built
    /\ current' = journal.previous
    /\ UNCHANGED <<built, previous, journal, health, lock, updater, service, machine, faults, history>>

WatchdogRestarts ==
    /\ WatchdogAt("restart", "check")
    /\ StartService
    /\ UNCHANGED <<files, health, lock, updater, machine, faults, history>>

(* Five looks find it active. *)
RollbackHolds ==
    /\ watchdog.pc = "check" /\ service.up
    /\ watchdog' = [watchdog EXCEPT !.pc = "settle", !.seen = Sight]
    /\ UNCHANGED <<files, health, lock, updater, service, machine, faults, history>>

(* No release to go back to, a dead service, a command that fails. *)
RollbackFails ==
    /\ \/ /\ watchdog.pc = "relink" /\ journal.previous \notin built
          /\ UNCHANGED <<service, faults>>
       \/ /\ watchdog.pc = "check" /\ ~service.up
          /\ UNCHANGED <<service, faults>>
       \/ /\ watchdog.pc = "restart" /\ RestartFails
       \/ /\ watchdog.pc \in {"relink", "check"}
          /\ Fault /\ UNCHANGED service
    /\ watchdog' = [watchdog EXCEPT !.pc = "report"]
    /\ UNCHANGED <<files, health, lock, updater, machine, history>>

(* Mutant: a restart that failed is not noticed. *)
RollbackEndsAnyhow ==
    /\ watchdog.pc \in {"settle", "report"}
    /\ journal' = [journal EXCEPT !.phase = "rolled_back"]
    /\ lock' = "free" /\ watchdog' = WatchdogOff
    /\ UNCHANGED <<built, current, previous, health, updater, service, machine, faults, history>>

(* The outcome is written, whatever has become of the service since. *)
RollbackEnds ==
    /\ watchdog.pc \in {"settle", "report"}
    /\ journal' = [journal EXCEPT !.phase =
                      IF watchdog.pc = "settle" THEN "rolled_back" ELSE "rollback_failed"]
    /\ lock' = "free" /\ watchdog' = WatchdogOff
    /\ UNCHANGED <<built, current, previous, health, updater, service, machine, faults, history>>

(* --retry-rollback, by an operator. *)
RetryRollback ==
    /\ watchdog.pc = "off" /\ lock = "free"
    /\ Phase \in {"rolling_back", "rollback_failed"}
    /\ lock' = "watchdog"
    /\ watchdog' = [WatchdogOff EXCEPT !.pc = "rollback"]
    /\ UNCHANGED <<files, health, updater, service, machine, faults, history>>

WatchdogKilled ==
    /\ watchdog.pc # "off" /\ Fault
    /\ lock' = "free" /\ watchdog' = WatchdogOff
    /\ UNCHANGED <<files, health, updater, service, machine, history>>

-----------------------------------------------------------------------------
(* The agent process, its unit and the machine. *)

(* record_contact, after a heartbeat or a pending enrollment: the journal is *)
(* read with no lock held, the evidence is written later.                    *)
ReadJournal ==
    /\ service.up /\ service.contact = "no"
    /\ service' = [service EXCEPT !.contact =
                      IF Phase # "idle" /\ journal.release = service.release THEN "trial" ELSE "plain"]
    /\ UNCHANGED <<files, health, lock, updater, watchdog, machine, faults, history>>

WriteHealth ==
    /\ service.up /\ service.contact # "no"
    /\ service' = [service EXCEPT !.contact = "no"]
    /\ health' = [attempt |-> IF service.contact = "trial" THEN service.release ELSE NoRelease,
                  release |-> service.release, boot |-> service.boot,
                  pid |-> service.pid, kernel |-> kernel, observed |-> now]
    /\ earned' = IF /\ service.contact = "trial" /\ service.release = journal.attempt
                    /\ kernel = journal.kernel /\ now <= journal.deadline
                 THEN earned \cup {journal.attempt} ELSE earned
    /\ UNCHANGED <<files, lock, updater, watchdog, machine, faults, good>>

ServiceCrashes ==
    /\ service.up /\ Fault
    /\ service' = Off
    /\ UNCHANGED <<files, health, lock, updater, watchdog, machine, history>>

(* Restart=on-failure, and at boot. *)
ServiceStarts ==
    /\ ~service.up
    /\ StartService
    /\ UNCHANGED <<files, health, lock, updater, watchdog, machine, faults, history>>

Tick ==
    /\ now < MaxUptime
    /\ now' = now + 1
    /\ UNCHANGED <<files, health, lock, updater, watchdog, service, kernel, faults, history>>

Reboot ==
    /\ Fault
    /\ kernel' = kernel + 1 /\ now' = 0
    /\ service' = Off /\ lock' = "free" /\ updater' = UpdaterOff /\ watchdog' = WatchdogOff
    /\ UNCHANGED <<files, health, history>>

-----------------------------------------------------------------------------
UpdaterNext ==
    \/ \E r \in Releases : UpdaterStarts(r)
    \/ BuildFails \/ Begin \/ LinkPrevious \/ LinkCurrent \/ MarkAwaiting
    \/ UpdaterRestarts \/ ActivationOk \/ ActivationFails
    \/ UndoLink \/ UndoRestart \/ UndoHolds \/ UndoFails \/ UndoEnds \/ UpdaterKilled

WatchdogNext ==
    \/ WatchdogStarts \/ WatchdogLooks \/ WatchdogIdentifies \/ WatchdogConfirms
    \/ WatchdogWaits \/ WatchdogGivesUp
    \/ MarkRollback \/ Relink \/ WatchdogRestarts
    \/ RollbackHolds \/ RollbackFails \/ RollbackEnds
    \/ RetryRollback \/ WatchdogKilled

MachineNext == ReadJournal \/ WriteHealth \/ ServiceCrashes \/ ServiceStarts \/ Tick \/ Reboot

Next == UpdaterNext \/ WatchdogNext \/ MachineNext

Spec == Init /\ [][Next]_vars

(* A command that runs goes on, the timer fires again and again, systemd       *)
(* restarts a dead service, time passes.  Nothing makes an operator act.       *)
UpdaterStep  == \/ BuildFails \/ Begin \/ LinkPrevious \/ LinkCurrent \/ MarkAwaiting
                \/ UpdaterRestarts \/ ActivationOk \/ ActivationFails
                \/ UndoLink \/ UndoRestart \/ UndoHolds \/ UndoFails \/ UndoEnds
WatchdogStep == \/ WatchdogLooks \/ WatchdogIdentifies \/ WatchdogConfirms
                \/ WatchdogWaits \/ WatchdogGivesUp
                \/ MarkRollback \/ Relink \/ WatchdogRestarts
                \/ RollbackHolds \/ RollbackFails \/ RollbackEnds

Fairness == /\ WF_vars(UpdaterStep) /\ WF_vars(WatchdogStep) /\ WF_vars(WatchdogStarts)
            /\ WF_vars(ServiceStarts) /\ WF_vars(Tick)

FairSpec == Spec /\ Fairness

-----------------------------------------------------------------------------
Installed == built \ (IF updater.pc = "build" THEN {updater.release} ELSE {})

Journals == [phase : Phases, attempt : Releases, release : Releases, previous : Releases,
             boot_before : Boots \cup {NoBoot}, kernel : Nat, started : Nat, deadline : Nat]
UpdaterPcs  == {"off", "build", "link_previous", "link_current", "mark", "restart",
                "check", "undo", "undo_restart", "undo_check", "undo_settle", "undo_report"}
WatchdogPcs == {"off", "judge", "identify", "confirm", "rollback", "relink", "restart",
                "check", "settle", "report"}
Sights    == [release : Releases \cup {NoRelease}, pid : Pids \cup {NoPid}]
Updaters  == [pc : UpdaterPcs, release : Releases \cup {NoRelease}, seen : Sights]
Watchdogs == [pc : WatchdogPcs, pid : Pids \cup {NoPid}, expired : BOOLEAN, seen : Sights]

(* Every file and every process holds a value its code can read back. *)
TypeOK ==
    /\ built \in SUBSET Releases /\ current \in Releases
    /\ previous \in Releases \cup {NoRelease}
    /\ journal \in Journals \/ journal = NoJournal
    /\ health \in [attempt : Releases \cup {NoRelease}, release : Releases \cup {NoRelease},
                   boot : Boots \cup {NoBoot}, pid : Pids \cup {NoPid},
                   kernel : Nat, observed : Nat]
    /\ lock \in {"free", "updater", "watchdog"}
    /\ updater \in Updaters /\ watchdog \in Watchdogs
    /\ service \in [up : BOOLEAN, release : Releases \cup {NoRelease}, pid : Pids \cup {NoPid},
                    boot : Boots \cup {NoBoot}, contact : {"no", "plain", "trial"}]
    /\ now \in Nat /\ kernel \in Nat /\ faults \in Nat
    /\ good \in SUBSET Releases /\ earned \in SUBSET Releases

(* A release the watchdog confirmed had, within its window and the kernel boot  *)
(* of its installation, a process of its own that reached the platform: late,   *)
(* old or foreign evidence never confirms it.                                   *)
OnlyEarnedIsGood == good \subseteq {Bootstrap} \cup earned

(* Whatever was interrupted, an unproven release is never left active, on disk  *)
(* or running, by a journal that says nothing is to be done.                    *)
ResolvedIsTrusted ==
    Phase \in Resolved => /\ current \in good
                          /\ service.up => service.release \in good

(* The active release is whole, and so is the one to roll back to, which was    *)
(* itself trusted.                                                              *)
RollbackTarget ==
    /\ current \in Installed
    /\ Phase \notin Resolved => journal.previous \in Installed \cap good

After(phase) ==
    CASE phase \in Resolved -> {"switching"}
      [] phase = "switching" -> {"awaiting_confirmation", "confirmed", "rolling_back"}
      [] phase = "awaiting_confirmation" -> {"confirmed", "rolling_back"}
      [] phase = "rolling_back" -> {"rolled_back", "rollback_failed"}
      [] phase = "rollback_failed" -> {"rolling_back"}

(* A journal goes from phase to phase as the two programs intend, whichever of  *)
(* them is killed: no attempt is overwritten by another before its outcome, and *)
(* once a rollback is intended the release cannot be confirmed any more.        *)
PhaseOrder == [][journal' # journal => Phase' \in After(Phase)]_vars

(* The program at work has itself seen a process of the release that is active  *)
(* now, for a confirmation the one that the evidence names; whatever has        *)
(* happened to the service since, no other release runs.                        *)
Seen == IF lock = "updater" THEN updater.seen ELSE watchdog.seen
SettledOnSight ==
    /\ Seen.release = current
    /\ Phase' = "confirmed" => Seen.pid = watchdog.pid
    /\ service.up => service.release = current

(* When an attempt is settled, confirmed or rolled back, the program that says  *)
(* so saw the service run what it now vouches for.  The service may have died   *)
(* or been replaced since the look, but only by the same, trusted release.      *)
SettlesRunning ==
    [][Phase \notin Resolved /\ Phase' \in Resolved =>
        SettledOnSight /\ current \in good']_vars

(* The release to fall back on, and the one on trial. *)
Trusted == IF Phase \in Resolved THEN current ELSE journal.previous
Trial   == IF Phase \in Resolved THEN NoRelease ELSE journal.release

(* The updater, the watchdog and the service together keep the promise of       *)
(* Deployment: the trusted release changes only by a confirmation.              *)
Promise == INSTANCE Deployment WITH
    Untried <- {},
    trusted <- Trusted,
    trial   <- Trial,
    used    <- Installed,
    proven  <- earned

ImplementsDeployment == Promise!Spec

(* However the update is interrupted, it is confirmed, rolled back or reported  *)
(* as a failed rollback, without an operator.                                   *)
UpdateSettles == (Phase \in Unresolved) ~> (Phase \notin Unresolved)

=============================================================================
