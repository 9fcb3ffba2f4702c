----------------------------- MODULE Installer -----------------------------
(***************************************************************************)
(* run.sh and the remote reset of configure_pi.py, beside the updater, the *)
(* watchdog and the service of Update.  The two scripts share              *)
(* .update.lock with the signed updates; they stop the service for a while *)
(* and repair what they did from an EXIT/INT/TERM trap.  SIGKILL, a power  *)
(* loss and a dropped terminal (SIGHUP is not trapped) pass the trap by.   *)
(*                                                                         *)
(* The machine starts empty: the first run.sh brings the first release.    *)
(***************************************************************************)
EXTENDS Update

CONSTANTS
    Bootstraps,  \* names mktemp can give a release of run.sh
    MaxActs      \* bound: resets, stops and starts by an operator

ASSUME BootstrapsAssumption == Bootstraps \subseteq Releases /\ Bootstrap \in Bootstraps
ASSUME ActsAssumption       == MaxActs \in Nat

VARIABLES
    installer,   \* the shell variables of a running run.sh or reset
    unit,        \* [enabled, halted]: ems-device.service, as systemd sees it
    acts,        \* what operators did so far
    left         \* history: releases that a killed run.sh left active

outside == <<installer, acts, left>>
allVars == <<vars, unit, outside>>

Signed       == Releases \ Bootstraps
InstallerOff == [pc |-> "off", release |-> NoRelease, previous |-> NoRelease,
                 active |-> FALSE, switched |-> FALSE]

(* Nothing is installed, and systemd does not know the unit. *)
FreshMachine ==
    /\ built = {} /\ current = NoRelease /\ previous = NoRelease
    /\ journal = NoJournal /\ health = NoHealth
    /\ lock = "free" /\ updater = UpdaterOff /\ watchdog = WatchdogOff
    /\ service = Off
    /\ now = 0 /\ kernel = 1 /\ faults = 0
    /\ good = {} /\ earned = {}
    /\ installer = InstallerOff /\ acts = 0 /\ left = {}
    /\ unit = [enabled |-> FALSE, halted |-> TRUE]

-----------------------------------------------------------------------------
(* A unit that was stopped is not restarted by Restart=on-failure, only by a   *)
(* start, a restart, or the next boot when it is enabled.                      *)
Halt   == service' = Off /\ unit' = [unit EXCEPT !.halted = TRUE]

(* With no release in place systemd tries, and no process runs.                *)
Launch == /\ \/ current \in built /\ StartService
             \/ current \notin built /\ service' = Off
          /\ unit' = [unit EXCEPT !.halted = FALSE]

(* ActiveState is active, activating or reloading: it runs, or systemd is about *)
(* to start it again.                                                           *)
Active == ~unit.halted

InstallerAt(from, to) == installer.pc = from /\ installer' = [installer EXCEPT !.pc = to]
LeaveBy(releases) == /\ built' = built \ releases
                     /\ lock' = "free" /\ installer' = InstallerOff

(* Mutant: run.sh does not ask the watchdog whether an attempt is open. *)
InstallStartsUnasked(b) ==
    /\ installer.pc = "off" /\ lock = "free"
    /\ b \in Bootstraps \ built
    /\ lock' = "installer"
    /\ built' = built \cup {b}
    /\ installer' = [InstallerOff EXCEPT !.pc = "build", !.release = b, !.previous = current]
    /\ UNCHANGED <<current, previous, journal, health, updater, watchdog, service, machine,
                   faults, history, unit, acts, left>>

(* flock, --check-idle, PREVIOUS, and a directory of its own. *)
InstallStarts(b) ==
    /\ installer.pc = "off" /\ lock = "free"
    /\ Phase \in Resolved
    /\ b \in Bootstraps \ built
    /\ lock' = "installer"
    /\ built' = built \cup {b}
    /\ installer' = [InstallerOff EXCEPT !.pc = "build", !.release = b, !.previous = current]
    /\ UNCHANGED <<current, previous, journal, health, updater, watchdog, service, machine,
                   faults, history, unit, acts, left>>

(* Checkout, venv, pip, preflight, units, or a signal: the service is untouched. *)
InstallBuildFails ==
    /\ installer.pc = "build"
    /\ LeaveBy({installer.release})
    /\ UNCHANGED <<current, previous, journal, health, updater, watchdog, service, machine,
                   faults, history, unit, acts, left>>

ReadActive ==
    /\ installer.pc = "build"
    /\ installer' = [installer EXCEPT !.pc = "stop", !.active = Active]
    /\ UNCHANGED <<files, health, lock, updater, watchdog, service, machine, faults, history,
                   unit, acts, left>>

(* The stop is attempted whatever the state, which keeps out an auto-restart,   *)
(* by run.sh and by the reset, which has no release.                            *)
StopService ==
    /\ installer.pc = "stop"
    /\ \/ /\ Halt /\ UNCHANGED faults
          /\ installer' = [installer EXCEPT
                !.pc = IF installer.release = NoRelease THEN "reset" ELSE "provision"]
       \/ /\ Fault /\ (Halt \/ UNCHANGED <<service, unit>>)
          /\ installer' = [installer EXCEPT !.pc = "resume"]
    /\ UNCHANGED <<files, health, lock, updater, watchdog, machine, history, acts, left>>

(* The agent's own lock: an agent that an operator started keeps "provision" out. *)
Provision ==
    /\ InstallerAt("provision", "link_previous") /\ ~service.up
    /\ UNCHANGED <<files, health, lock, updater, watchdog, service, machine, faults, history,
                   unit, acts, left>>

KeepPrevious ==
    /\ InstallerAt("link_previous", "switch")
    /\ previous' = IF installer.previous = NoRelease THEN previous ELSE installer.previous
    /\ UNCHANGED <<built, current, journal, health, lock, updater, watchdog, service, machine,
                   faults, history, unit, acts, left>>

Switch ==
    /\ installer.pc = "switch"
    /\ installer' = [installer EXCEPT !.pc = "restart", !.switched = TRUE]
    /\ current' = installer.release
    /\ UNCHANGED <<built, previous, journal, health, lock, updater, watchdog, service, machine,
                   faults, history, unit, acts, left>>

EnableAndRestart ==
    /\ InstallerAt("restart", "check")
    /\ StartService /\ unit' = [enabled |-> TRUE, halted |-> FALSE]
    /\ UNCHANGED <<files, health, lock, updater, watchdog, machine, faults, history, acts, left>>

(* Five looks in five seconds. *)
InstallHolds ==
    /\ InstallerAt("check", "complete") /\ service.up
    /\ UNCHANGED <<files, health, lock, updater, watchdog, service, machine, faults, history,
                   unit, acts, left>>

(* COMPLETE=1, whatever has become of the service since. *)
InstallCompletes ==
    /\ installer.pc = "complete"
    /\ LeaveBy({})
    /\ good' = good \cup {installer.release}
    /\ UNCHANGED <<current, previous, journal, health, updater, watchdog, service, machine,
                   faults, earned, unit, acts, left>>

(* SWITCHED=1 is set before the link is made. *)
SwitchBegun == installer.pc \in {"switch", "restart", "check", "complete"}

(* A dead service, a failing command, SIGINT or SIGTERM: the trap. *)
InstallFails ==
    /\ \/ /\ \/ installer.pc = "check" /\ ~service.up
             \/ installer.pc = "provision" /\ service.up
          /\ UNCHANGED <<service, unit, faults>>
       \/ /\ installer.pc = "restart" /\ RestartFails
          /\ unit' \in {unit, [unit EXCEPT !.enabled = TRUE]}
       \/ /\ installer.pc \in {"provision", "link_previous", "switch", "check", "complete"}
          /\ Fault /\ UNCHANGED <<service, unit>>
    /\ installer' = [installer EXCEPT !.switched = SwitchBegun,
                                      !.pc = IF SwitchBegun THEN "recover" ELSE "resume"]
    /\ UNCHANGED <<files, health, lock, updater, watchdog, machine, history, acts, left>>

(* Mutant: only the first installation is undone. *)
RecoverFirstOnly ==
    /\ InstallerAt("recover", "resume")
    /\ IF installer.previous # NoRelease
       THEN UNCHANGED <<current, service, unit>>
       ELSE current' = NoRelease /\ Halt
    /\ UNCHANGED <<built, previous, journal, health, lock, updater, watchdog, machine,
                   faults, history, acts, left>>

(* Back to PREVIOUS; without one there is nothing that could run. *)
Recover ==
    /\ InstallerAt("recover", "resume")
    /\ IF installer.previous # NoRelease
       THEN current' = installer.previous /\ UNCHANGED <<service, unit>>
       ELSE current' = NoRelease /\ Halt
    /\ UNCHANGED <<built, previous, journal, health, lock, updater, watchdog, machine,
                   faults, history, acts, left>>

(* Mutant: run.sh starts the service too, where it must restart it. *)
ResumeStartsOnly ==
    /\ installer.pc = "resume"
    /\ \/ /\ ~installer.active \/ service.up
          /\ UNCHANGED <<service, unit, faults>>
       \/ /\ installer.active /\ ~service.up
          /\ Launch /\ UNCHANGED faults
       \/ /\ installer.active /\ RestartFails /\ UNCHANGED unit
    /\ LeaveBy({installer.release})
    /\ UNCHANGED <<current, previous, journal, health, updater, watchdog, machine, history,
                   acts, left>>

(* The end of both traps: run.sh restarts, and removes its directory; the reset *)
(* starts, which leaves a service alone that runs.  Only what was active before *)
(* is brought back; a failure to do so is printed or is the exit status.        *)
Resume ==
    /\ installer.pc = "resume"
    /\ \/ /\ ~installer.active
          /\ UNCHANGED <<service, unit, faults>>
       \/ /\ installer.active /\ installer.release = NoRelease /\ service.up
          /\ UNCHANGED <<service, unit, faults>>
       \/ /\ installer.active /\ (installer.release = NoRelease => ~service.up)
          /\ Launch /\ UNCHANGED faults
       \/ /\ installer.active /\ RestartFails /\ UNCHANGED unit
    /\ LeaveBy({installer.release})
    /\ UNCHANGED <<current, previous, journal, health, updater, watchdog, machine, history,
                   acts, left>>

Leftover == IF installer.pc # "off" /\ current = installer.release THEN {current} ELSE {}

(* SIGKILL, SIGHUP, a second signal in the trap, a command of the trap failing. *)
InstallerKilled ==
    /\ installer.pc # "off" /\ Fault
    /\ left' = left \cup Leftover
    /\ lock' = "free" /\ installer' = InstallerOff
    /\ UNCHANGED <<files, health, updater, watchdog, service, machine, history, unit, acts>>

-----------------------------------------------------------------------------
(* The remote reset, and an operator at the console. *)

OperatorActs == acts < MaxActs /\ acts' = acts + 1

(* Mutant: without the deployment lock. *)
ResetStartsUnlocked ==
    /\ installer.pc = "off" /\ OperatorActs
    /\ current \in built
    /\ installer' = [InstallerOff EXCEPT !.pc = "stop", !.active = Active]
    /\ UNCHANGED <<files, health, lock, updater, watchdog, service, machine, faults, history,
                   unit, left>>

(* The lock, but not --check-idle: a reset may fall into an open attempt. *)
ResetStarts ==
    /\ installer.pc = "off" /\ lock = "free" /\ OperatorActs
    /\ current \in built
    /\ lock' = "installer"
    /\ installer' = [InstallerOff EXCEPT !.pc = "stop", !.active = Active]
    /\ UNCHANGED <<files, health, updater, watchdog, service, machine, faults, history, unit, left>>

(* The reset succeeds, refuses, or is interrupted. *)
ResetIdentity ==
    /\ InstallerAt("reset", "resume")
    /\ UNCHANGED <<files, health, lock, updater, watchdog, service, machine, faults, history,
                   unit, acts, left>>

(* systemctl stop, which needs no lock. *)
OperatorStops ==
    /\ OperatorActs /\ Halt
    /\ UNCHANGED <<files, health, lock, updater, watchdog, machine, faults, history,
                   installer, left>>

(* systemctl start, at any time: it needs no lock either. *)
OperatorStarts ==
    /\ OperatorActs /\ unit.halted /\ current \in built
    /\ Launch
    /\ UNCHANGED <<files, health, lock, updater, watchdog, machine, faults, history,
                   installer, left>>

-----------------------------------------------------------------------------
(* What Update has, on a machine whose unit can be stopped. *)

(* A signed update needs a bootstrap installation. *)
SignedUpdate == current \in built /\ \E r \in Signed : UpdaterStarts(r)

SystemdStarts == ~unit.halted /\ current \in built /\ ServiceStarts

(* Mutant: the watchdog does nothing about a service that was stopped. *)
UpdateStepsWhileActive ==
    /\ \/ SignedUpdate \/ UpdaterStep \/ UpdaterKilled
       \/ (Active /\ WatchdogStarts) \/ WatchdogStep \/ RetryRollback \/ WatchdogKilled
       \/ ReadJournal \/ WriteHealth \/ ServiceCrashes \/ SystemdStarts \/ Tick
    /\ unit' = [unit EXCEPT !.halted = @ /\ ~service'.up]
    /\ UNCHANGED outside

UpdateSteps ==
    /\ \/ SignedUpdate \/ UpdaterStep \/ UpdaterKilled
       \/ WatchdogStarts \/ WatchdogStep \/ RetryRollback \/ WatchdogKilled
       \/ ReadJournal \/ WriteHealth \/ ServiceCrashes \/ SystemdStarts \/ Tick
    /\ unit' = [unit EXCEPT !.halted = @ /\ ~service'.up]
    /\ UNCHANGED outside

PowerCycle ==
    /\ Reboot
    /\ unit' = [unit EXCEPT !.halted = ~unit.enabled]
    /\ left' = left \cup Leftover
    /\ installer' = InstallerOff /\ UNCHANGED acts

InstallerStep ==
    \/ InstallBuildFails \/ ReadActive \/ StopService \/ Provision \/ KeepPrevious \/ Switch
    \/ EnableAndRestart \/ InstallHolds \/ InstallCompletes \/ InstallFails \/ Recover \/ Resume
    \/ ResetIdentity

InstallerNext ==
    \/ UpdateSteps \/ PowerCycle
    \/ (\E b \in Bootstraps : InstallStarts(b)) \/ InstallerStep \/ InstallerKilled
    \/ ResetStarts \/ OperatorStops \/ OperatorStarts

InstallerSpec == FreshMachine /\ [][InstallerNext]_allVars

(* As in Update; a script that runs goes on.  Nothing makes an operator act. *)
InstallerFairness ==
    /\ WF_allVars(InstallerStep)
    /\ WF_allVars(UpdaterStep /\ UpdateSteps) /\ WF_allVars(WatchdogStep /\ UpdateSteps)
    /\ WF_allVars(WatchdogStarts /\ UpdateSteps)
    /\ WF_allVars(SystemdStarts /\ UpdateSteps) /\ WF_allVars(Tick /\ UpdateSteps)

InstallerFairSpec == InstallerSpec /\ InstallerFairness

-----------------------------------------------------------------------------
InstallerPcs == {"off", "build", "stop", "provision", "link_previous", "switch", "restart",
                 "check", "complete", "recover", "resume", "reset"}

(* Scripts, unit and deployment hold values the programs can read back, and a   *)
(* script runs exactly while it holds the deployment lock.                      *)
InstallerTypeOK ==
    /\ built \in SUBSET Releases /\ current \in Releases \cup {NoRelease}
    /\ previous \in Releases \cup {NoRelease}
    /\ installer \in [pc : InstallerPcs, release : Bootstraps \cup {NoRelease},
                      previous : Releases \cup {NoRelease},
                      active : BOOLEAN, switched : BOOLEAN]
    /\ unit \in [enabled : BOOLEAN, halted : BOOLEAN]
    /\ lock \in {"free", "updater", "watchdog", "installer"}
    /\ (installer.pc # "off") <=> (lock = "installer")
    /\ service.up => ~unit.halted
    /\ acts \in 0..MaxActs /\ left \in SUBSET Bootstraps

(* "current" never names a directory that is missing or still being built, with *)
(* every program that makes and removes directories in play.                    *)
CurrentIsWhole ==
    /\ current \in Installed \cup {NoRelease}
    /\ current \in Bootstraps /\ current = installer.release => installer.switched

(* When the turn of provision or reset comes, the unit is stopped, and while    *)
(* they work on the identity nothing starts it again, be it systemd, the        *)
(* watchdog, the updater or another script, except an operator by hand.         *)
IdentityWork == {"provision", "reset"}
IdentityWorkIsExclusive ==
    [][installer'.pc \in IdentityWork /\ Active' =>
        installer.pc = installer'.pc /\ (Active \/ acts' # acts)]_allVars

(* With no program at work and no open attempt, the active release completed    *)
(* its installation, was confirmed, or is what a killed run.sh left behind: no  *)
(* failure that the trap handles leaves an unproven release active.             *)
ActiveIsVouched ==
    lock = "free" /\ Phase \in Resolved => current \in good \cup left \cup {NoRelease}

(* Beside run.sh too, a signed release is vouched for by a contact of its own   *)
(* in its window, never by run.sh or the reset.                                 *)
SignedIsEarned == good \subseteq Bootstraps \cup earned

(* What is active is a whole release, and one that somebody vouches for.        *)
CurrentIsSound ==
    InstallerTypeOK /\ CurrentIsWhole /\ ActiveIsVouched /\ SignedIsEarned

(* While an attempt is open or its rollback has failed, "current" moves only    *)
(* between the release on trial and the one to go back to.                      *)
CurrentStays == Phase \notin Resolved /\ current' # current
                    => current' \in {journal.release, journal.previous}

(* The outcome of an attempt is written on a look of the writer's own at the    *)
(* release that is then active, and that somebody vouches for.                  *)
SettledByLook == Phase \notin Resolved /\ Phase' \in Resolved
                     => SettledOnSight /\ current \in good' \cup left

(* An attempt goes its way whatever else is run on the machine, or killed.      *)
TrialUndisturbed ==
    [][/\ CurrentStays /\ SettledByLook
       /\ journal' # journal => Phase' \in After(Phase)]_allVars

(* A script that stopped monitoring and is done by itself, with its last look   *)
(* or at the end of its trap, hands back a running service if there is a        *)
(* release to run, after run.sh one of the release that is then active.         *)
Done == installer.pc # "complete" /\ installer'.pc \in {"complete", "off"}
MonitoringHandedBack ==
    [][installer.active /\ Done /\ faults' = faults /\ current' # NoRelease =>
        service'.up /\ (installer.release # NoRelease => service'.release = current')]_allVars

(* A run.sh that fails after the switch ends with "current" back on the release *)
(* before and the service restarted, as docs/OPERATIONS.md says: at least, no   *)
(* process of the release that failed is left running.                          *)
FailureRestartsPrevious ==
    [][installer.pc = "resume" /\ installer.switched /\ installer.previous # NoRelease
        /\ installer'.pc = "off" /\ faults' = faults =>
        current' = installer.previous /\ (service'.up => service'.release = current')]_allVars

(* The release to fall back on: until a run.sh is done with the one it made     *)
(* active, the one before.                                                      *)
Committed == IF Phase \notin Resolved THEN journal.previous
             ELSE IF current = installer.release THEN installer.previous ELSE current

(* run.sh, the reset and the operators beside the signed updates keep the       *)
(* promise of Deployment too: a signed release takes over only by its trial, a  *)
(* release of run.sh only outside of one, when it is complete or when a killed  *)
(* run.sh leaves it active; a run.sh that fails changes nothing.                *)
Undertaking == INSTANCE Deployment WITH
    Untried   <- Bootstraps,
    Bootstrap <- NoRelease,
    trusted   <- Committed,
    trial     <- Trial,
    used      <- {NoRelease} \cup (Installed \cap Signed),
    proven    <- earned \cup good \cup left

KeepsDeployment == Undertaking!Spec

(* A service that was stopped in an open attempt, by an operator or by a reset  *)
(* that was killed, comes back without an operator: the watchdog rolls back.    *)
(* Only if the program that ends the attempt has looked already does it miss    *)
(* the stop, and the service stays stopped.                                     *)
TrialComesBack ==
    (Phase \in Unresolved /\ unit.halted /\ Seen = Unseen)
        ~> (service.up \/ Phase = "rollback_failed")

=============================================================================
