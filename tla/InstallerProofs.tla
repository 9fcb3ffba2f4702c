--------------------------- MODULE InstallerProofs ---------------------------
(***************************************************************************)
(* Proofs about module Installer, for every set of releases, pids and boot *)
(* ids and every number of faults and of acts of operators: with run.sh,   *)
(* the reset, the updater, the watchdog, systemd and operators at work     *)
(* together, "current" is sound, none of them starts an agent while a      *)
(* script works on the identity, an open attempt is left alone by          *)
(* everybody else, and a script that stopped monitoring hands it back.     *)
(***************************************************************************)
EXTENDS Installer, TLAPS

(* Releases that somebody answers for, or none at all. *)
Vouched == good \cup left \cup {NoRelease}

SignedUpdaters == [pc : UpdaterPcs, release : Signed \cup {NoRelease}, seen : Sights]

(* The values of Update's variables, on a machine that starts empty.  Only a *)
(* signed release is ever an updater's, or the subject of evidence.          *)
Shape ==
    /\ journal \in Journals \/ journal = NoJournal
    /\ health \in [attempt : Signed \cup {NoRelease}, release : Releases \cup {NoRelease},
                   boot : Boots \cup {NoBoot}, pid : Pids \cup {NoPid},
                   kernel : Nat, observed : Nat]
    /\ updater \in SignedUpdaters /\ watchdog \in Watchdogs
    /\ service \in [up : BOOLEAN, release : Releases \cup {NoRelease}, pid : Pids \cup {NoPid},
                    boot : Boots \cup {NoBoot}, contact : {"no", "plain", "trial"}]
    /\ now \in Nat /\ kernel \in Nat /\ faults \in Nat
    /\ good \in SUBSET Releases /\ earned \in SUBSET Releases

(* One program at a time: whoever is at work holds the lock. *)
Lockstep ==
    /\ lock = "updater" <=> updater.pc # "off"
    /\ lock = "watchdog" <=> watchdog.pc # "off"
    /\ lock = "installer" <=> installer.pc # "off"

(* What a journal names, besides the phase: a signed release that is there,  *)
(* and, as long as it may be needed, a vouched one to go back to.            *)
JournalSound ==
    Phase # "idle" => /\ journal \in Journals
                      /\ journal.attempt = journal.release
                      /\ journal.previous # journal.release
                      /\ journal.release \in Signed \cap Installed
                      /\ Phase \notin Resolved => journal.previous \in Installed \cap Vouched

(* Where the updater is says how far the switch has come. *)
UpdaterControl ==
    /\ updater.pc # "off" => updater.release \in built \cap Signed
    /\ updater.pc = "build" => Phase \in Resolved /\ current \in Installed
    /\ updater.pc \notin {"off", "build"} =>
          Phase \in Unresolved /\ journal.release = updater.release
    /\ updater.pc \in {"link_previous", "link_current", "mark"} => Phase = "switching"
    /\ updater.pc \in {"restart", "check"} => Phase = "awaiting_confirmation"
    /\ updater.pc \in {"undo", "undo_restart", "undo_check", "undo_settle", "undo_report"} =>
          Phase = "rolling_back"
    /\ updater.pc \in {"link_previous", "link_current", "undo_restart", "undo_check",
                       "undo_settle"} => current = journal.previous
    /\ updater.pc \in {"mark", "restart", "check"} => current = journal.release

(* Where the watchdog is says what it has found. *)
WatchdogControl ==
    /\ watchdog.pc \in {"judge", "identify", "confirm"} =>
                                /\ Phase \in {"switching", "awaiting_confirmation"}
                                /\ current = journal.release
                                /\ journal.release \in earned
    /\ watchdog.pc = "rollback" => Phase \notin Resolved
    /\ watchdog.pc \in {"relink", "restart", "check", "settle", "report"} =>
          Phase = "rolling_back"
    /\ watchdog.pc \in {"restart", "check", "settle"} => current = journal.previous

(* Where a script is says which release is active, and what it holds. *)
Unswitched == {"build", "stop", "provision", "link_previous", "switch"}

InstallerControl ==
    /\ installer.pc = "off" => installer = InstallerOff
    /\ installer.pc = "reset" => installer.release = NoRelease
    /\ installer.pc # "off" /\ installer.release = NoRelease =>
          installer.pc \in {"stop", "reset", "resume"} /\ current \in built
          /\ ~installer.switched
    /\ installer.release # NoRelease =>
          /\ Phase \in Resolved /\ installer.release \in built
          /\ installer.previous # installer.release
          /\ installer.previous \in Installed \cup {NoRelease}
          /\ installer.previous \in Vouched
    /\ installer.pc = "build" => ~installer.active
    /\ installer.pc \in Unswitched /\ installer.release # NoRelease =>
          ~installer.switched /\ current = installer.previous
    /\ installer.pc \in {"restart", "check", "complete"} => current = installer.release
    /\ installer.pc \in {"restart", "check", "complete", "recover"} => installer.switched
    /\ installer.pc = "recover" => current \in {installer.release, installer.previous}
    /\ installer.pc = "resume" /\ installer.release # NoRelease => current = installer.previous
    /\ installer.pc = "check" /\ service.up => service.release = current

(* Evidence of an attempt, in its window, was earned in it; evidence and     *)
(* contacts on trial are of signed releases that are there.                  *)
Evidence ==
    /\ Phase # "idle" /\ health.attempt = journal.attempt /\ health.kernel = journal.kernel
          /\ health.observed <= journal.deadline
       => journal.attempt \in earned
    /\ health.attempt # NoRelease => health.attempt \in Installed
    /\ service.contact = "trial" => Phase # "idle" /\ service.release \in Signed \cap Installed

(* An active release is vouched for as soon as it is no longer on trial; a   *)
(* signed one by evidence of its own.                                        *)
Vouching ==
    /\ Phase \in Resolved /\ (lock # "installer" \/ installer.release = NoRelease) =>
          current \in Vouched
    /\ SignedIsEarned
    /\ earned \subseteq Signed

Types   == InstallerTypeOK /\ Shape
Control == Lockstep /\ JournalSound /\ UpdaterControl /\ WatchdogControl /\ InstallerControl
Trust   == Evidence /\ Vouching /\ CurrentIsWhole

Inv == Types /\ Control /\ Trust

-----------------------------------------------------------------------------
(* The step of one of Update's programs, as the unit sees it. *)
Beside == unit' = [unit EXCEPT !.halted = @ /\ ~service'.up] /\ UNCHANGED outside

(* Writing a phase leaves the rest of a journal as it was. *)
LEMMA PhaseWritten ==
    ASSUME NEW j \in Journals, NEW p \in Phases, NEW k, k = [j EXCEPT !.phase = p]
    PROVE  /\ k \in Journals /\ k.phase = p
           /\ k.attempt = j.attempt /\ k.release = j.release /\ k.previous = j.previous
           /\ k.boot_before = j.boot_before /\ k.kernel = j.kernel
           /\ k.started = j.started /\ k.deadline = j.deadline
BY DEF Journals

(* A unit that was halted is not any more once its service runs. *)
LEMMA BesideUnit ==
    ASSUME Inv, Beside, service'.up \in BOOLEAN
    PROVE  /\ unit' \in [enabled : BOOLEAN, halted : BOOLEAN]
           /\ service'.up => ~unit'.halted
           /\ ~service'.up => (unit'.halted <=> unit.halted)
<1>1. unit \in [enabled : BOOLEAN, halted : BOOLEAN]
  BY DEF Inv, Types, InstallerTypeOK
<1>2. unit' = [unit EXCEPT !.halted = unit.halted /\ ~service'.up]
  BY <1>1 DEF Beside
<1>3. (unit.halted /\ ~service'.up) \in BOOLEAN
  OBVIOUS
<1>4. /\ unit' \in [enabled : BOOLEAN, halted : BOOLEAN]
      /\ unit'.halted = (unit.halted /\ ~service'.up)
  BY <1>1, <1>2, <1>3, Zenon
<1> QED
  BY <1>4, Zenon

LEMMA Sighting == ASSUME Inv PROVE Sight \in Sights /\ Unseen \in Sights
BY DEF Inv, Types, Shape, Sight, Sights, Unseen

LEMMA InitInv == FreshMachine => Inv
BY ReleasesAssumption, ProcessAssumption, BootstrapsAssumption, ActsAssumption
  DEF FreshMachine, Inv, Types, Control, Trust, InstallerTypeOK, Shape, Lockstep,
      JournalSound, UpdaterControl, WatchdogControl, InstallerControl, Evidence, Vouching,
      SignedIsEarned, CurrentIsWhole, Vouched, Phase, NoJournal, NoHealth, Off, UpdaterOff,
      WatchdogOff, InstallerOff, InstallerPcs, UpdaterPcs, WatchdogPcs, SignedUpdaters,
      Watchdogs, Unseen, Sights

(* mktemp's names are not versions, and none is the absence of a release. *)
LEMMA Names ==
    /\ NoRelease \notin Releases /\ NoRelease \notin Bootstraps /\ NoRelease \notin Signed
    /\ Bootstraps \subseteq Releases /\ Signed \subseteq Releases
    /\ Bootstraps \cap Signed = {}
BY ReleasesAssumption, BootstrapsAssumption DEF Signed

Services == [up : BOOLEAN, release : Releases \cup {NoRelease}, pid : Pids \cup {NoPid},
             boot : Boots \cup {NoBoot}, contact : {"no", "plain", "trial"}]

(* Whether a restart works or fails, systemd has a service or none. *)
LEMMA ServiceKept == ASSUME Inv, service' \in {service, Off} PROVE service' \in Services
<1>1. service \in Services
  BY DEF Inv, Types, Shape, Services
<1>2. Off \in Services
  BY DEF Off, Services
<1> QED
  BY <1>1, <1>2

LEMMA ServiceStarted ==
    ASSUME Inv, StartService
    PROVE  service' \in Services /\ service'.up /\ service'.release = current
           /\ service'.contact = "no"
BY DEF Inv, Types, InstallerTypeOK, StartService, Services

(* What a killed script leaves behind answers for the active release, if     *)
(* nothing else does.                                                        *)
LEMMA LeftoverVouches ==
    ASSUME Inv
    PROVE  /\ Leftover \in SUBSET Bootstraps
           /\ Phase \in Resolved => current \in Vouched \cup Leftover
<1> USE DEF Inv, Types, InstallerTypeOK, Control, InstallerControl, Lockstep, Trust
<1>1. Leftover \in SUBSET Bootstraps
  <2>1. CASE installer.pc # "off" /\ current = installer.release
    <3>1. installer.release # NoRelease
      BY <2>1, Names DEF InstallerOff
    <3> QED
      BY <2>1, <3>1 DEF Leftover
  <2>2. CASE ~(installer.pc # "off" /\ current = installer.release)
    BY <2>2 DEF Leftover
  <2> QED
    BY <2>1, <2>2
<1>2. ASSUME Phase \in Resolved PROVE current \in Vouched \cup Leftover
  <2>1. CASE installer.release = NoRelease
    BY <1>2, <2>1 DEF Vouching
  <2>2. CASE installer.release # NoRelease
    <3>1. installer.pc # "off" /\ (current = installer.release \/ current = installer.previous)
      BY <2>2 DEF Unswitched, InstallerOff, InstallerPcs
    <3> QED
      BY <2>2, <3>1 DEF Leftover
  <2> QED
    BY <2>1, <2>2
<1> QED
  BY <1>1, <1>2

LEMMA UpdaterStartsInv ==
    ASSUME Inv, NEW r \in Signed, current \in built, UpdaterStarts(r), Beside
    PROVE  Inv'
<1>1. service'.up \in BOOLEAN
  BY DEF Inv, Types, Shape, UpdaterStarts, machine, history
<1>2. unit' \in [enabled : BOOLEAN, halted : BOOLEAN] /\ (service'.up => ~unit'.halted)
      /\ (~service'.up => (unit'.halted <=> unit.halted))
  BY <1>1, BesideUnit
<1> USE DEF Inv, Phase, Resolved, Unresolved, UpdaterStarts, machine, history, Beside, outside
<1>3. InstallerTypeOK'
  BY <1>2 DEF Types, InstallerTypeOK, Signed
<1>4. Shape'
  <2>1. updater' \in SignedUpdaters
    BY Sighting DEF UpdaterOff, UpdaterPcs, SignedUpdaters
  <2> QED
    BY <2>1 DEF Types, Shape
<1>5. current \in Installed'
  BY DEF Types, InstallerTypeOK, Control, Lockstep, Installed
<1>6. InstallerControl'
  BY DEF Control, Lockstep, InstallerControl, InstallerOff
<1>7. Lockstep' /\ JournalSound' /\ UpdaterControl' /\ WatchdogControl'
  BY DEF Control, Lockstep, JournalSound, Installed, Vouched, UpdaterControl, WatchdogControl
<1>8. Evidence' /\ Vouching' /\ CurrentIsWhole'
  BY DEF Trust, Evidence, Installed, Vouching, SignedIsEarned, Vouched, CurrentIsWhole
<1> QED
  BY <1>3, <1>4, <1>6, <1>7, <1>8 DEF Types, Control, Trust

LEMMA BuildFailsInv == ASSUME Inv, BuildFails, Beside PROVE Inv'
<1>1. service'.up \in BOOLEAN
  BY DEF Inv, Types, Shape, BuildFails, UpdaterOff, machine, history
<1>2. unit' \in [enabled : BOOLEAN, halted : BOOLEAN] /\ (service'.up => ~unit'.halted)
      /\ (~service'.up => (unit'.halted <=> unit.halted))
  BY <1>1, BesideUnit
<1> USE DEF Inv, Phase, Resolved, Unresolved, BuildFails, UpdaterOff, machine, history, Beside,
            outside
<1>3. InstallerTypeOK'
  BY DEF Types, InstallerTypeOK, Control, Lockstep
<1>4. Shape'
  BY Sighting DEF Types, Shape, UpdaterPcs, WatchdogPcs, SignedUpdaters, Watchdogs, Control,
         UpdaterControl, WatchdogControl
<1>5. InstallerControl'
  BY DEF Control, Lockstep, InstallerControl, InstallerOff
<1>6. Vouching'
  BY <1>2 DEF Control, Lockstep, Trust, Vouching, SignedIsEarned, Vouched
<1>7. Lockstep' /\ JournalSound' /\ UpdaterControl' /\ WatchdogControl'
  BY DEF Control, Lockstep, JournalSound, Installed, Vouched, UpdaterControl, WatchdogControl
<1>8. Evidence' /\ CurrentIsWhole'
  BY DEF Trust, Evidence, Installed, CurrentIsWhole
<1> QED
  BY <1>3, <1>4, <1>5, <1>6, <1>7, <1>8 DEF Types, Control, Trust

LEMMA BeginInv == ASSUME Inv, Begin, Beside PROVE Inv'
<1>1. service'.up \in BOOLEAN
  BY DEF Inv, Types, Shape, Begin, UpdaterAt, machine, history
<1>2. unit' \in [enabled : BOOLEAN, halted : BOOLEAN] /\ (service'.up => ~unit'.halted)
      /\ (~service'.up => (unit'.halted <=> unit.halted))
  BY <1>1, BesideUnit
<1> USE DEF Inv, Phase, Resolved, Unresolved, Begin, UpdaterAt, machine, history, Beside,
            outside
<1>3. /\ updater.release \in Signed \ Installed /\ updater.release \in built
      /\ current \in Installed \cap Vouched
  BY DEF Control, Lockstep, UpdaterControl, Trust, Vouching, Installed
<1>4. journal' \in Journals
  BY <1>3, Names, TimeAssumption DEF Types, InstallerTypeOK, Shape, Installed, Journals, Phases
<1>5. Shape'
  BY <1>2, <1>4 DEF Types, Shape, UpdaterPcs, WatchdogPcs, SignedUpdaters, Watchdogs, Control,
         UpdaterControl, WatchdogControl
<1>6. JournalSound'
  <2>1. /\ journal'.attempt = journal'.release /\ journal'.previous # journal'.release
        /\ journal'.release = updater.release /\ journal'.previous = current
    BY <1>3
  <2>2. updater.release \in Installed' /\ current \in Installed' \cap Vouched'
    BY <1>3 DEF Installed, Vouched
  <2> QED
    BY <1>3, <1>4, <2>1, <2>2 DEF JournalSound
<1>7. InstallerControl'
  BY DEF Control, Lockstep, InstallerControl, InstallerOff
<1>8. Evidence'
  BY <1>3, Names DEF Trust, Evidence, Installed
<1>9. InstallerTypeOK'
  BY DEF Types, InstallerTypeOK
<1>10. Lockstep' /\ UpdaterControl' /\ WatchdogControl'
  BY DEF Control, Lockstep, UpdaterControl, WatchdogControl, Installed
<1>11. Vouching' /\ CurrentIsWhole'
  BY DEF Trust, Vouching, SignedIsEarned, Vouched, CurrentIsWhole, Installed
<1> QED
  BY <1>5, <1>6, <1>7, <1>8, <1>9, <1>10, <1>11 DEF Types, Control, Trust

LEMMA LinkPreviousInv == ASSUME Inv, LinkPrevious, Beside PROVE Inv'
<1> USE DEF Inv, Phase, Resolved, Unresolved, LinkPrevious, UpdaterAt, machine, history,
            Beside, outside
<1>1. InstallerTypeOK'
  BY DEF Types, InstallerTypeOK, Control, UpdaterControl
<1>2. Shape'
  BY Sighting DEF Types, Shape, UpdaterPcs, WatchdogPcs, SignedUpdaters, Watchdogs, Control,
         UpdaterControl, WatchdogControl
<1>3. InstallerControl'
  BY DEF Control, Lockstep, InstallerControl, InstallerOff
<1>4. Lockstep' /\ JournalSound' /\ UpdaterControl' /\ WatchdogControl'
  BY DEF Control, Lockstep, JournalSound, Installed, Vouched, UpdaterControl, WatchdogControl
<1>5. Evidence' /\ Vouching' /\ CurrentIsWhole'
  BY DEF Trust, Evidence, Installed, Vouching, SignedIsEarned, Vouched, CurrentIsWhole
<1> QED
  BY <1>1, <1>2, <1>3, <1>4, <1>5 DEF Types, Control, Trust

LEMMA LinkCurrentInv == ASSUME Inv, LinkCurrent, Beside PROVE Inv'
<1>1. service'.up \in BOOLEAN
  BY DEF Inv, Types, Shape, LinkCurrent, UpdaterAt, machine, history
<1>2. unit' \in [enabled : BOOLEAN, halted : BOOLEAN] /\ (service'.up => ~unit'.halted)
      /\ (~service'.up => (unit'.halted <=> unit.halted))
  BY <1>1, BesideUnit
<1> USE DEF Inv, Phase, Resolved, Unresolved, LinkCurrent, UpdaterAt, machine, history, Beside,
            outside
<1>3. InstallerTypeOK'
  BY DEF Types, InstallerTypeOK, Control, UpdaterControl
<1>4. Shape'
  BY Sighting DEF Types, Shape, UpdaterPcs, WatchdogPcs, SignedUpdaters, Watchdogs, Control,
         UpdaterControl, WatchdogControl
<1>5. InstallerControl'
  BY DEF Control, Lockstep, InstallerControl, Unswitched, InstallerOff
<1>6. Vouching'
  BY DEF Control, UpdaterControl, Trust, Vouching, SignedIsEarned
<1>7. CurrentIsWhole'
  BY <1>2 DEF Control, UpdaterControl, CurrentIsWhole, Installed, Signed
<1>8. Lockstep' /\ JournalSound' /\ UpdaterControl' /\ WatchdogControl'
  BY DEF Control, Lockstep, JournalSound, Installed, Vouched, UpdaterControl, WatchdogControl
<1>9. Evidence'
  BY DEF Trust, Evidence, Installed
<1> QED
  BY <1>3, <1>4, <1>5, <1>6, <1>7, <1>8, <1>9 DEF Types, Control, Trust

LEMMA MarkAwaitingInv == ASSUME Inv, MarkAwaiting, Beside PROVE Inv'
<1>1. service'.up \in BOOLEAN
  BY DEF Inv, Types, Shape, MarkAwaiting, UpdaterAt, machine, history
<1>2. unit' \in [enabled : BOOLEAN, halted : BOOLEAN] /\ (service'.up => ~unit'.halted)
      /\ (~service'.up => (unit'.halted <=> unit.halted))
  BY <1>1, BesideUnit
<1> USE DEF Inv, Phase, Resolved, Unresolved, MarkAwaiting, UpdaterAt, machine, history,
            Beside, outside
<1>3. /\ journal \in Journals /\ journal'.phase \in Phases
      /\ journal' = [journal EXCEPT !.phase = journal'.phase]
  BY DEF Control, JournalSound, UpdaterControl, WatchdogControl, Phases
<1>4. Shape'
  BY <1>2, <1>3, PhaseWritten, Sighting
    DEF Types, Shape, UpdaterPcs, WatchdogPcs, SignedUpdaters, Watchdogs, Control,
        UpdaterControl, WatchdogControl
<1>5. JournalSound'
  BY <1>2, <1>3, PhaseWritten DEF Control, Lockstep, JournalSound, UpdaterControl,
         InstallerControl, Installed, Vouched
<1>6. InstallerControl'
  BY DEF Control, Lockstep, InstallerControl, InstallerOff
<1>7. Evidence'
  BY <1>2, <1>3, PhaseWritten DEF Control, UpdaterControl, Trust, Evidence, Installed
<1>8. InstallerTypeOK'
  BY DEF Types, InstallerTypeOK
<1>9. Lockstep' /\ UpdaterControl' /\ WatchdogControl'
  BY DEF Control, Lockstep, UpdaterControl, WatchdogControl, Installed
<1>10. Vouching' /\ CurrentIsWhole'
  BY DEF Trust, Vouching, SignedIsEarned, Vouched, CurrentIsWhole, Installed
<1> QED
  BY <1>4, <1>5, <1>6, <1>7, <1>8, <1>9, <1>10 DEF Types, Control, Trust

LEMMA UpdaterRestartsInv == ASSUME Inv, UpdaterRestarts, Beside PROVE Inv'
<1>1. service'.up \in BOOLEAN
  BY DEF UpdaterRestarts, StartService
<1>2. unit' \in [enabled : BOOLEAN, halted : BOOLEAN] /\ (service'.up => ~unit'.halted)
      /\ (~service'.up => (unit'.halted <=> unit.halted))
  BY <1>1, BesideUnit
<1> USE DEF Inv, Phase, Resolved, Unresolved, UpdaterRestarts, StartService, UpdaterAt, files,
            machine, history, Beside, outside
<1>3. Shape'
  BY <1>2 DEF Types, Shape, UpdaterPcs, SignedUpdaters, Signed, Control, UpdaterControl
<1>4. InstallerControl'
  BY DEF Control, Lockstep, InstallerControl, InstallerOff
<1>5. InstallerTypeOK'
  BY DEF Types, InstallerTypeOK
<1>6. Lockstep' /\ JournalSound' /\ UpdaterControl' /\ WatchdogControl'
  BY DEF Control, Lockstep, JournalSound, Installed, Vouched, UpdaterControl, WatchdogControl
<1>7. Evidence' /\ Vouching' /\ CurrentIsWhole'
  BY DEF Trust, Evidence, Installed, Vouching, SignedIsEarned, Vouched, CurrentIsWhole
<1> QED
  BY <1>3, <1>4, <1>5, <1>6, <1>7 DEF Types, Control, Trust

LEMMA ActivationOkInv == ASSUME Inv, ActivationOk, Beside PROVE Inv'
<1> USE DEF Inv, Phase, Resolved, Unresolved, ActivationOk, UpdaterOff, files, machine,
            history, Beside, outside
<1>1. InstallerTypeOK'
  BY DEF Types, InstallerTypeOK, Control, Lockstep
<1>2. Shape'
  BY Sighting DEF Types, Shape, UpdaterPcs, WatchdogPcs, SignedUpdaters, Watchdogs, Control,
         UpdaterControl, WatchdogControl
<1>3. InstallerControl'
  BY DEF Control, Lockstep, InstallerControl, InstallerOff
<1>4. Vouching'
  BY DEF Control, UpdaterControl, Trust, Vouching, SignedIsEarned
<1>5. Lockstep' /\ JournalSound' /\ UpdaterControl' /\ WatchdogControl'
  BY DEF Control, Lockstep, JournalSound, Installed, Vouched, UpdaterControl, WatchdogControl
<1>6. Evidence' /\ CurrentIsWhole'
  BY DEF Trust, Evidence, Installed, CurrentIsWhole
<1> QED
  BY <1>1, <1>2, <1>3, <1>4, <1>5, <1>6 DEF Types, Control, Trust

LEMMA ActivationFailsInv == ASSUME Inv, ActivationFails, Beside PROVE Inv'
<1>1. service' \in Services /\ service'.up \in BOOLEAN
  BY ServiceKept DEF ActivationFails, RestartFails, Services
<1>2. unit' \in [enabled : BOOLEAN, halted : BOOLEAN] /\ (service'.up => ~unit'.halted)
      /\ (~service'.up => (unit'.halted <=> unit.halted))
  BY <1>1, BesideUnit
<1> USE DEF Inv, Phase, Resolved, Unresolved, ActivationFails, Fault, RestartFails, Off,
            machine, history, Beside, outside
<1>3. /\ journal \in Journals /\ journal'.phase \in Phases
      /\ journal' = [journal EXCEPT !.phase = journal'.phase]
  BY DEF Control, JournalSound, UpdaterControl, WatchdogControl, Phases
<1>4. Shape'
  <2>1. updater' \in SignedUpdaters
    BY DEF Types, Shape, UpdaterPcs, SignedUpdaters
  <2>2. journal' \in Journals
    BY <1>3, PhaseWritten
  <2>3. faults' \in Nat
    BY DEF Types, Shape
  <2> QED
    BY <1>1, <2>1, <2>2, <2>3 DEF Types, Shape, Services
<1>5. JournalSound'
  BY <1>2, <1>3, PhaseWritten DEF Control, Lockstep, JournalSound, UpdaterControl,
         InstallerControl, Installed, Vouched
<1>6. (UpdaterControl /\ WatchdogControl)'
  BY DEF Control, Lockstep, JournalSound, UpdaterControl, WatchdogControl, Installed
<1>7. InstallerControl'
  BY DEF Control, Lockstep, InstallerControl, InstallerOff
<1>8. Evidence'
  BY <1>2, <1>3, PhaseWritten DEF Control, UpdaterControl, Trust, Evidence, Installed
<1>9. InstallerTypeOK'
  BY DEF Types, InstallerTypeOK
<1>10. Lockstep'
  BY DEF Control, Lockstep
<1>11. Vouching' /\ CurrentIsWhole'
  BY DEF Trust, Vouching, SignedIsEarned, Vouched, CurrentIsWhole, Installed
<1> QED
  BY <1>4, <1>5, <1>6, <1>7, <1>8, <1>9, <1>10, <1>11 DEF Types, Control, Trust

LEMMA UndoLinkInv == ASSUME Inv, UndoLink, Beside PROVE Inv'
<1>1. service'.up \in BOOLEAN
  BY DEF Inv, Types, Shape, UndoLink, UpdaterAt, machine, history
<1>2. unit' \in [enabled : BOOLEAN, halted : BOOLEAN] /\ (service'.up => ~unit'.halted)
      /\ (~service'.up => (unit'.halted <=> unit.halted))
  BY <1>1, BesideUnit
<1> USE DEF Inv, Phase, Resolved, Unresolved, UndoLink, UpdaterAt, machine, history, Beside,
            outside
<1>3. InstallerTypeOK'
  BY <1>2 DEF Types, InstallerTypeOK, Control, UpdaterControl, JournalSound, Installed
<1>4. Shape'
  BY Sighting DEF Types, Shape, UpdaterPcs, WatchdogPcs, SignedUpdaters, Watchdogs, Control,
         UpdaterControl, WatchdogControl
<1>5. InstallerControl'
  BY DEF Control, Lockstep, InstallerControl, Unswitched, InstallerOff
<1>6. Vouching'
  BY DEF Control, UpdaterControl, Trust, Vouching, SignedIsEarned
<1>7. CurrentIsWhole'
  <2>1. current' \in Installed' /\ installer'.release = NoRelease
    BY DEF Control, JournalSound, UpdaterControl, InstallerControl, Installed
  <2> QED
    BY <2>1, Names DEF CurrentIsWhole
<1>8. Lockstep' /\ JournalSound' /\ UpdaterControl' /\ WatchdogControl'
  BY DEF Control, Lockstep, JournalSound, Installed, Vouched, UpdaterControl, WatchdogControl
<1>9. Evidence'
  BY DEF Trust, Evidence, Installed
<1> QED
  BY <1>3, <1>4, <1>5, <1>6, <1>7, <1>8, <1>9 DEF Types, Control, Trust

LEMMA UndoRestartInv == ASSUME Inv, UndoRestart, Beside PROVE Inv'
<1>1. service'.up \in BOOLEAN
  BY DEF UndoRestart, StartService
<1>2. unit' \in [enabled : BOOLEAN, halted : BOOLEAN] /\ (service'.up => ~unit'.halted)
      /\ (~service'.up => (unit'.halted <=> unit.halted))
  BY <1>1, BesideUnit
<1> USE DEF Inv, Phase, Resolved, Unresolved, UndoRestart, StartService, UpdaterAt, files,
            machine, history, Beside, outside
<1>3. Shape'
  BY <1>2 DEF Types, InstallerTypeOK, Shape, UpdaterPcs, SignedUpdaters
<1>4. InstallerControl'
  BY DEF Control, Lockstep, InstallerControl, InstallerOff
<1>5. InstallerTypeOK'
  BY DEF Types, InstallerTypeOK
<1>6. Lockstep' /\ JournalSound' /\ UpdaterControl' /\ WatchdogControl'
  BY DEF Control, Lockstep, JournalSound, Installed, Vouched, UpdaterControl, WatchdogControl
<1>7. Evidence' /\ Vouching' /\ CurrentIsWhole'
  BY DEF Trust, Evidence, Installed, Vouching, SignedIsEarned, Vouched, CurrentIsWhole
<1> QED
  BY <1>3, <1>4, <1>5, <1>6, <1>7 DEF Types, Control, Trust

LEMMA UndoHoldsInv == ASSUME Inv, UndoHolds, Beside PROVE Inv'
<1>1. service'.up \in BOOLEAN
  BY DEF Inv, Types, Shape, UndoHolds, files, machine, history
<1>2. unit' \in [enabled : BOOLEAN, halted : BOOLEAN] /\ (service'.up => ~unit'.halted)
      /\ (~service'.up => (unit'.halted <=> unit.halted))
  BY <1>1, BesideUnit
<1> USE DEF Inv, Phase, Resolved, Unresolved, UndoHolds, files, machine, history, Beside,
            outside
<1>3. Shape'
  <2>1. Sight \in Sights /\ updater \in SignedUpdaters
    BY Sighting DEF Types, Shape
  <2>2. updater' \in SignedUpdaters
    BY <2>1, Zenon DEF SignedUpdaters, UpdaterPcs
  <2> QED
    BY <2>2 DEF Types, Shape
<1>4. InstallerTypeOK'
  BY <1>2 DEF Types, InstallerTypeOK
<1>5. Lockstep' /\ JournalSound' /\ UpdaterControl' /\ WatchdogControl'
  BY DEF Control, Lockstep, JournalSound, Installed, Vouched, UpdaterControl, WatchdogControl
<1>6. InstallerControl'
  BY DEF Control, Lockstep, InstallerControl, InstallerOff
<1>7. Evidence' /\ Vouching' /\ CurrentIsWhole'
  BY DEF Trust, Evidence, Installed, Vouching, SignedIsEarned, Vouched, CurrentIsWhole
<1> QED
  BY <1>3, <1>4, <1>5, <1>6, <1>7 DEF Types, Control, Trust

LEMMA UndoFailsInv == ASSUME Inv, UndoFails, Beside PROVE Inv'
<1>1. service' \in Services /\ service'.up \in BOOLEAN
  BY ServiceKept DEF UndoFails, RestartFails, Services
<1>2. unit' \in [enabled : BOOLEAN, halted : BOOLEAN] /\ (service'.up => ~unit'.halted)
      /\ (~service'.up => (unit'.halted <=> unit.halted))
  BY <1>1, BesideUnit
<1> USE DEF Inv, Phase, Resolved, Unresolved, UndoFails, Fault, RestartFails, Off, files, machine,
            history, Beside, outside
<1>3. Shape'
  <2>1. updater' \in SignedUpdaters /\ faults' \in Nat
    BY DEF Types, Shape, UpdaterPcs, SignedUpdaters
  <2> QED
    BY <1>1, <2>1 DEF Types, Shape, Services
<1>4. InstallerTypeOK'
  BY <1>2 DEF Types, InstallerTypeOK
<1>5. Lockstep' /\ JournalSound' /\ UpdaterControl' /\ WatchdogControl'
  BY DEF Control, Lockstep, JournalSound, Installed, Vouched, UpdaterControl, WatchdogControl
<1>6. InstallerControl'
  BY DEF Control, Lockstep, InstallerControl, InstallerOff
<1>7. Evidence' /\ Vouching' /\ CurrentIsWhole'
  BY DEF Trust, Evidence, Installed, Vouching, SignedIsEarned, Vouched, CurrentIsWhole
<1> QED
  BY <1>3, <1>4, <1>5, <1>6, <1>7 DEF Types, Control, Trust

(* A rollback ends, by either program: restored, or reported as failed. *)
Outcome ==
    /\ Phase = "rolling_back" /\ Phase' \in {"rolled_back", "rollback_failed"}
    /\ journal' = [journal EXCEPT !.phase = Phase']
    /\ Phase' = "rolled_back" => /\ current = journal.previous
                                /\ (updater.pc = "undo_settle" \/ watchdog.pc = "settle")
    /\ lock' = "free" /\ updater'.pc = "off" /\ watchdog'.pc = "off"
    /\ updater' \in SignedUpdaters
    /\ watchdog' \in Watchdogs
    /\ lock \in {"updater", "watchdog"}
    /\ UNCHANGED <<built, current, previous, health, service, machine, faults, history>>

LEMMA OutcomeInv == ASSUME Inv, Outcome, Beside PROVE Inv'
<1>1. service' \in Services /\ service'.up \in BOOLEAN
  BY ServiceKept DEF Outcome, Services
<1>2. unit' \in [enabled : BOOLEAN, halted : BOOLEAN] /\ (service'.up => ~unit'.halted)
      /\ (~service'.up => (unit'.halted <=> unit.halted))
  BY <1>1, BesideUnit
<1> USE DEF Inv, Phase, Resolved, Unresolved, Outcome, Off, machine, history, Beside, outside
<1>3. /\ journal \in Journals /\ journal'.phase \in Phases
      /\ journal' = [journal EXCEPT !.phase = journal'.phase]
  BY DEF Control, JournalSound, UpdaterControl, WatchdogControl, Phases
<1>4. Shape'
  <2>1. journal' \in Journals
    BY <1>3, PhaseWritten
  <2> QED
    BY <1>1, <2>1 DEF Types, Shape, Services
<1>5. JournalSound'
  BY <1>2, <1>3, PhaseWritten DEF Control, JournalSound, Installed, Vouched
<1>6. InstallerControl'
  BY DEF Control, Lockstep, InstallerControl
<1>7. Evidence'
  BY <1>2, <1>3, PhaseWritten DEF Trust, Evidence, Installed
<1>8. Vouching'
  BY DEF Control, JournalSound, Trust, Vouching, SignedIsEarned, Vouched
<1>9. InstallerTypeOK'
  BY DEF Types, InstallerTypeOK
<1>10. Lockstep' /\ UpdaterControl' /\ WatchdogControl'
  BY DEF Control, Lockstep, UpdaterControl, WatchdogControl, Installed
<1>11. CurrentIsWhole'
  BY DEF Trust, CurrentIsWhole, Installed
<1> QED
  BY <1>4, <1>5, <1>6, <1>7, <1>8, <1>9, <1>10, <1>11 DEF Types, Control, Trust

LEMMA UpdaterKilledInv == ASSUME Inv, UpdaterKilled, Beside PROVE Inv'
<1>1. service'.up \in BOOLEAN
  BY DEF Inv, Types, Shape, UpdaterKilled
<1>2. unit' \in [enabled : BOOLEAN, halted : BOOLEAN] /\ (service'.up => ~unit'.halted)
      /\ (~service'.up => (unit'.halted <=> unit.halted))
  BY <1>1, BesideUnit
<1> USE DEF Inv, Phase, Resolved, Unresolved, UpdaterKilled, Fault, UpdaterOff, files, machine,
            history, Beside, outside
<1>3. InstallerTypeOK'
  BY DEF Types, InstallerTypeOK, Control, Lockstep
<1>4. Shape'
  BY Sighting DEF Types, Shape, UpdaterPcs, WatchdogPcs, SignedUpdaters, Watchdogs, Control,
         UpdaterControl, WatchdogControl
<1>5. InstallerControl'
  BY DEF Control, Lockstep, InstallerControl, InstallerOff
<1>6. Vouching'
  BY <1>2 DEF Control, Lockstep, Trust, Vouching, SignedIsEarned, Vouched
<1>7. Lockstep' /\ JournalSound' /\ UpdaterControl' /\ WatchdogControl'
  BY DEF Control, Lockstep, JournalSound, Installed, Vouched, UpdaterControl, WatchdogControl
<1>8. Evidence' /\ CurrentIsWhole'
  BY DEF Trust, Evidence, Installed, CurrentIsWhole
<1> QED
  BY <1>3, <1>4, <1>5, <1>6, <1>7, <1>8 DEF Types, Control, Trust

LEMMA WatchdogStartsInv == ASSUME Inv, WatchdogStarts, Beside PROVE Inv'
<1>1. service'.up \in BOOLEAN
  BY DEF Inv, Types, Shape, WatchdogStarts
<1>2. unit' \in [enabled : BOOLEAN, halted : BOOLEAN] /\ (service'.up => ~unit'.halted)
      /\ (~service'.up => (unit'.halted <=> unit.halted))
  BY <1>1, BesideUnit
<1> USE DEF Inv, Phase, Resolved, Unresolved, WatchdogStarts, WatchdogOff, Interrupted,
            Confirmed, Expired, files, machine, history, Beside, outside
<1>3. Shape'
  <2>1. health.pid \in Pids \cup {NoPid} /\ Expired \in BOOLEAN
    BY DEF Types, Shape
  <2>2. watchdog' \in Watchdogs
    <3>1. [WatchdogOff EXCEPT !.pc = "judge", !.pid = health.pid, !.expired = Expired]
              \in Watchdogs
      BY <2>1, Sighting, Zenon DEF WatchdogPcs, Watchdogs
    <3>2. [WatchdogOff EXCEPT !.pc = "rollback"]
              \in Watchdogs
      BY Sighting DEF WatchdogPcs, Watchdogs
    <3> QED
      BY <3>1, <3>2
  <2> QED
    BY <2>2 DEF Types, Shape
<1>4. (UpdaterControl /\ WatchdogControl)'
  BY <1>2 DEF Control, JournalSound, UpdaterControl, WatchdogControl, Trust, Evidence
<1>5. InstallerControl'
  BY DEF Control, Lockstep, InstallerControl
<1>6. InstallerTypeOK'
  BY DEF Types, InstallerTypeOK
<1>7. Lockstep' /\ JournalSound'
  BY DEF Control, Lockstep, JournalSound, Installed, Vouched
<1>8. Evidence' /\ Vouching' /\ CurrentIsWhole'
  BY DEF Trust, Evidence, Installed, Vouching, SignedIsEarned, Vouched, CurrentIsWhole
<1> QED
  BY <1>3, <1>4, <1>5, <1>6, <1>7, <1>8 DEF Types, Control, Trust

LEMMA WatchdogLooksInv == ASSUME Inv, WatchdogLooks, Beside PROVE Inv'
<1>1. service'.up \in BOOLEAN
  BY DEF Inv, Types, Shape, WatchdogLooks, files, machine, history
<1>2. unit' \in [enabled : BOOLEAN, halted : BOOLEAN] /\ (service'.up => ~unit'.halted)
      /\ (~service'.up => (unit'.halted <=> unit.halted))
  BY <1>1, BesideUnit
<1> USE DEF Inv, Phase, Resolved, Unresolved, WatchdogLooks, WatchdogAt, files, machine,
            history, Beside, outside
<1>3. Shape'
  BY DEF Types, Shape, WatchdogPcs, Watchdogs
<1>4. InstallerTypeOK'
  BY <1>2 DEF Types, InstallerTypeOK
<1>5. Lockstep' /\ JournalSound' /\ UpdaterControl' /\ WatchdogControl'
  BY DEF Control, Lockstep, JournalSound, Installed, Vouched, UpdaterControl, WatchdogControl
<1>6. InstallerControl'
  BY DEF Control, Lockstep, InstallerControl, InstallerOff
<1>7. Evidence' /\ Vouching' /\ CurrentIsWhole'
  BY DEF Trust, Evidence, Installed, Vouching, SignedIsEarned, Vouched, CurrentIsWhole
<1> QED
  BY <1>3, <1>4, <1>5, <1>6, <1>7 DEF Types, Control, Trust

LEMMA WatchdogIdentifiesInv == ASSUME Inv, WatchdogIdentifies, Beside PROVE Inv'
<1>1. service'.up \in BOOLEAN
  BY DEF Inv, Types, Shape, WatchdogIdentifies, files, machine, history
<1>2. unit' \in [enabled : BOOLEAN, halted : BOOLEAN] /\ (service'.up => ~unit'.halted)
      /\ (~service'.up => (unit'.halted <=> unit.halted))
  BY <1>1, BesideUnit
<1> USE DEF Inv, Phase, Resolved, Unresolved, WatchdogIdentifies, FromMainProcess, files,
            machine, history, Beside,
            outside
<1>3. Shape'
  <2>1. Sight \in Sights /\ watchdog \in Watchdogs
    BY Sighting DEF Types, Shape
  <2>2. watchdog' \in Watchdogs
    BY <2>1, Zenon DEF Watchdogs, WatchdogPcs
  <2> QED
    BY <2>2 DEF Types, Shape
<1>4. InstallerTypeOK'
  BY <1>2 DEF Types, InstallerTypeOK
<1>5. Lockstep' /\ JournalSound' /\ UpdaterControl' /\ WatchdogControl'
  BY DEF Control, Lockstep, JournalSound, Installed, Vouched, UpdaterControl, WatchdogControl
<1>6. InstallerControl'
  BY DEF Control, Lockstep, InstallerControl, InstallerOff
<1>7. Evidence' /\ Vouching' /\ CurrentIsWhole'
  BY DEF Trust, Evidence, Installed, Vouching, SignedIsEarned, Vouched, CurrentIsWhole
<1> QED
  BY <1>3, <1>4, <1>5, <1>6, <1>7 DEF Types, Control, Trust

LEMMA WatchdogConfirmsInv == ASSUME Inv, WatchdogConfirms, Beside PROVE Inv'
<1>1. service'.up \in BOOLEAN
  BY DEF Inv, Types, Shape, WatchdogConfirms, WatchdogOff, FromMainProcess, machine
<1>2. unit' \in [enabled : BOOLEAN, halted : BOOLEAN] /\ (service'.up => ~unit'.halted)
      /\ (~service'.up => (unit'.halted <=> unit.halted))
  BY <1>1, BesideUnit
<1> USE DEF Inv, Phase, Resolved, Unresolved, WatchdogConfirms, WatchdogOff, FromMainProcess,
            machine, Beside, outside
<1>3. /\ journal \in Journals /\ journal'.phase \in Phases
      /\ journal' = [journal EXCEPT !.phase = journal'.phase]
  BY DEF Control, JournalSound, UpdaterControl, WatchdogControl, Phases
<1>4. InstallerTypeOK'
  BY DEF Types, InstallerTypeOK, Control, Lockstep
<1>5. Shape'
  BY <1>2, <1>3, PhaseWritten, Sighting
    DEF Types, Shape, UpdaterPcs, WatchdogPcs, SignedUpdaters, Watchdogs, Control,
        UpdaterControl, WatchdogControl
<1>6. JournalSound'
  BY <1>2, <1>3, PhaseWritten DEF Control, JournalSound, WatchdogControl, Installed
<1>7. (UpdaterControl /\ WatchdogControl)'
  BY DEF Control, Lockstep, JournalSound, UpdaterControl, WatchdogControl, Installed
<1>8. InstallerControl'
  BY DEF Control, Lockstep, InstallerControl, InstallerOff
<1>9. Evidence'
  BY <1>2, <1>3, PhaseWritten DEF Control, WatchdogControl, Trust, Evidence, Installed
<1>10. Vouching'
  BY <1>2, <1>3, PhaseWritten
    DEF Control, WatchdogControl, Trust, Vouching, SignedIsEarned, Vouched
<1>11. Lockstep'
  BY DEF Control, Lockstep
<1>12. CurrentIsWhole'
  BY DEF Trust, CurrentIsWhole, Installed
<1> QED
  BY <1>4, <1>5, <1>6, <1>7, <1>8, <1>9, <1>10, <1>11, <1>12 DEF Types, Control, Trust

LEMMA WatchdogWaitsInv == ASSUME Inv, WatchdogWaits, Beside PROVE Inv'
<1>1. service'.up \in BOOLEAN
  BY DEF Inv, Types, Shape, WatchdogWaits
<1>2. unit' \in [enabled : BOOLEAN, halted : BOOLEAN] /\ (service'.up => ~unit'.halted)
      /\ (~service'.up => (unit'.halted <=> unit.halted))
  BY <1>1, BesideUnit
<1> USE DEF Inv, Phase, Resolved, Unresolved, WatchdogWaits, Unconvinced, Fault,
            WatchdogOff, files, machine, history, Beside, outside
<1>3. InstallerTypeOK'
  BY DEF Types, InstallerTypeOK, Control, Lockstep
<1>4. Shape'
  BY Sighting DEF Types, Shape, UpdaterPcs, WatchdogPcs, SignedUpdaters, Watchdogs, Control,
         UpdaterControl, WatchdogControl
<1>5. InstallerControl'
  BY DEF Control, Lockstep, InstallerControl, InstallerOff
<1>6. Vouching'
  BY <1>2 DEF Control, WatchdogControl, Trust, Vouching, SignedIsEarned
<1>7. Lockstep' /\ JournalSound' /\ UpdaterControl' /\ WatchdogControl'
  BY DEF Control, Lockstep, JournalSound, Installed, Vouched, UpdaterControl, WatchdogControl
<1>8. Evidence' /\ CurrentIsWhole'
  BY DEF Trust, Evidence, Installed, CurrentIsWhole
<1> QED
  BY <1>3, <1>4, <1>5, <1>6, <1>7, <1>8 DEF Types, Control, Trust

LEMMA WatchdogGivesUpInv == ASSUME Inv, WatchdogGivesUp, Beside PROVE Inv'
<1> USE DEF Inv, Phase, Resolved, Unresolved, WatchdogGivesUp, Unconvinced, Fault,
            WatchdogOff, files, machine, history, Beside, outside
<1>1. Shape'
  <2>1. watchdog' \in Watchdogs
    BY Sighting DEF WatchdogPcs, Watchdogs
  <2>2. faults' \in Nat
    BY DEF Types, Shape
  <2> QED
    BY <2>1, <2>2 DEF Types, Shape
<1>2. InstallerControl'
  BY DEF Control, Lockstep, InstallerControl, InstallerOff
<1>3. InstallerTypeOK'
  BY DEF Types, InstallerTypeOK
<1>4. Lockstep' /\ JournalSound' /\ UpdaterControl' /\ WatchdogControl'
  BY DEF Control, Lockstep, JournalSound, Installed, Vouched, UpdaterControl, WatchdogControl
<1>5. Evidence' /\ Vouching' /\ CurrentIsWhole'
  BY DEF Trust, Evidence, Installed, Vouching, SignedIsEarned, Vouched, CurrentIsWhole
<1> QED
  BY <1>1, <1>2, <1>3, <1>4, <1>5 DEF Types, Control, Trust

LEMMA MarkRollbackInv == ASSUME Inv, MarkRollback, Beside PROVE Inv'
<1>1. service'.up \in BOOLEAN
  BY DEF Inv, Types, Shape, MarkRollback, WatchdogAt, machine, history
<1>2. unit' \in [enabled : BOOLEAN, halted : BOOLEAN] /\ (service'.up => ~unit'.halted)
      /\ (~service'.up => (unit'.halted <=> unit.halted))
  BY <1>1, BesideUnit
<1> USE DEF Inv, Phase, Resolved, Unresolved, MarkRollback, WatchdogAt, machine, history,
            Beside, outside
<1>3. /\ journal \in Journals /\ journal'.phase \in Phases
      /\ journal' = [journal EXCEPT !.phase = journal'.phase]
  BY DEF Control, JournalSound, UpdaterControl, WatchdogControl, Phases
<1>4. Shape'
  BY <1>2, <1>3, PhaseWritten, Sighting
    DEF Types, Shape, UpdaterPcs, WatchdogPcs, SignedUpdaters, Watchdogs, Control,
        UpdaterControl, WatchdogControl
<1>5. JournalSound'
  BY <1>2, <1>3, PhaseWritten DEF Control, JournalSound, WatchdogControl, Installed, Vouched
<1>6. (UpdaterControl /\ WatchdogControl)'
  BY DEF Control, Lockstep, JournalSound, UpdaterControl, WatchdogControl, Installed
<1>7. InstallerControl'
  BY DEF Control, Lockstep, InstallerControl, InstallerOff
<1>8. Evidence'
  BY <1>2, <1>3, PhaseWritten DEF Control, WatchdogControl, Trust, Evidence, Installed
<1>9. InstallerTypeOK'
  BY DEF Types, InstallerTypeOK
<1>10. Lockstep'
  BY DEF Control, Lockstep
<1>11. Vouching' /\ CurrentIsWhole'
  BY DEF Trust, Vouching, SignedIsEarned, Vouched, CurrentIsWhole, Installed
<1> QED
  BY <1>4, <1>5, <1>6, <1>7, <1>8, <1>9, <1>10, <1>11 DEF Types, Control, Trust

LEMMA RelinkInv == ASSUME Inv, Relink, Beside PROVE Inv'
<1>1. service'.up \in BOOLEAN
  BY DEF Inv, Types, Shape, Relink, WatchdogAt, machine, history
<1>2. unit' \in [enabled : BOOLEAN, halted : BOOLEAN] /\ (service'.up => ~unit'.halted)
      /\ (~service'.up => (unit'.halted <=> unit.halted))
  BY <1>1, BesideUnit
<1> USE DEF Inv, Phase, Resolved, Unresolved, Relink, WatchdogAt, machine, history, Beside,
            outside
<1>3. Shape'
  BY Sighting DEF Types, Shape, UpdaterPcs, WatchdogPcs, SignedUpdaters, Watchdogs, Control,
         UpdaterControl, WatchdogControl
<1>4. InstallerControl'
  BY DEF Control, Lockstep, InstallerControl, Unswitched, InstallerOff
<1>5. Vouching'
  BY <1>2 DEF Control, WatchdogControl, Trust, Vouching, SignedIsEarned
<1>6. CurrentIsWhole'
  <2>1. current' \in Installed' /\ installer'.release = NoRelease
    BY DEF Control, UpdaterControl, WatchdogControl, InstallerControl, Installed
  <2> QED
    BY <2>1, Names DEF CurrentIsWhole
<1>7. InstallerTypeOK'
  BY DEF Types, InstallerTypeOK
<1>8. Lockstep' /\ JournalSound' /\ UpdaterControl' /\ WatchdogControl'
  BY DEF Control, Lockstep, JournalSound, Installed, Vouched, UpdaterControl, WatchdogControl
<1>9. Evidence'
  BY DEF Trust, Evidence, Installed
<1> QED
  BY <1>3, <1>4, <1>5, <1>6, <1>7, <1>8, <1>9 DEF Types, Control, Trust

LEMMA WatchdogRestartsInv == ASSUME Inv, WatchdogRestarts, Beside PROVE Inv'
<1>1. service'.up \in BOOLEAN
  BY DEF WatchdogRestarts, StartService
<1>2. unit' \in [enabled : BOOLEAN, halted : BOOLEAN] /\ (service'.up => ~unit'.halted)
      /\ (~service'.up => (unit'.halted <=> unit.halted))
  BY <1>1, BesideUnit
<1> USE DEF Inv, Phase, Resolved, Unresolved, WatchdogRestarts, StartService, WatchdogAt,
            files, machine, history, Beside, outside
<1>3. Shape'
  BY <1>2 DEF Types, InstallerTypeOK, Shape, WatchdogPcs, Watchdogs
<1>4. InstallerControl'
  BY DEF Control, Lockstep, InstallerControl, InstallerOff
<1>5. InstallerTypeOK'
  BY DEF Types, InstallerTypeOK
<1>6. Lockstep' /\ JournalSound' /\ UpdaterControl' /\ WatchdogControl'
  BY DEF Control, Lockstep, JournalSound, Installed, Vouched, UpdaterControl, WatchdogControl
<1>7. Evidence' /\ Vouching' /\ CurrentIsWhole'
  BY DEF Trust, Evidence, Installed, Vouching, SignedIsEarned, Vouched, CurrentIsWhole
<1> QED
  BY <1>3, <1>4, <1>5, <1>6, <1>7 DEF Types, Control, Trust

LEMMA RollbackHoldsInv == ASSUME Inv, RollbackHolds, Beside PROVE Inv'
<1>1. service'.up \in BOOLEAN
  BY DEF Inv, Types, Shape, RollbackHolds, files, machine, history
<1>2. unit' \in [enabled : BOOLEAN, halted : BOOLEAN] /\ (service'.up => ~unit'.halted)
      /\ (~service'.up => (unit'.halted <=> unit.halted))
  BY <1>1, BesideUnit
<1> USE DEF Inv, Phase, Resolved, Unresolved, RollbackHolds, files, machine, history, Beside,
            outside
<1>3. Shape'
  <2>1. Sight \in Sights /\ watchdog \in Watchdogs
    BY Sighting DEF Types, Shape
  <2>2. watchdog' \in Watchdogs
    BY <2>1, Zenon DEF Watchdogs, WatchdogPcs
  <2> QED
    BY <2>2 DEF Types, Shape
<1>4. InstallerTypeOK'
  BY <1>2 DEF Types, InstallerTypeOK
<1>5. Lockstep' /\ JournalSound' /\ UpdaterControl' /\ WatchdogControl'
  BY DEF Control, Lockstep, JournalSound, Installed, Vouched, UpdaterControl, WatchdogControl
<1>6. InstallerControl'
  BY DEF Control, Lockstep, InstallerControl, InstallerOff
<1>7. Evidence' /\ Vouching' /\ CurrentIsWhole'
  BY DEF Trust, Evidence, Installed, Vouching, SignedIsEarned, Vouched, CurrentIsWhole
<1> QED
  BY <1>3, <1>4, <1>5, <1>6, <1>7 DEF Types, Control, Trust

LEMMA RollbackFailsInv == ASSUME Inv, RollbackFails, Beside PROVE Inv'
<1>1. service' \in Services /\ service'.up \in BOOLEAN
  BY ServiceKept DEF RollbackFails, RestartFails, Services
<1>2. unit' \in [enabled : BOOLEAN, halted : BOOLEAN] /\ (service'.up => ~unit'.halted)
      /\ (~service'.up => (unit'.halted <=> unit.halted))
  BY <1>1, BesideUnit
<1> USE DEF Inv, Phase, Resolved, Unresolved, RollbackFails, Fault, RestartFails, Off, files,
            machine,
            history, Beside, outside
<1>3. Shape'
  <2>1. watchdog' \in Watchdogs /\ faults' \in Nat
    BY DEF Types, Shape, WatchdogPcs, Watchdogs
  <2> QED
    BY <1>1, <2>1 DEF Types, Shape, Services
<1>4. InstallerTypeOK'
  BY <1>2 DEF Types, InstallerTypeOK
<1>5. Lockstep' /\ JournalSound' /\ UpdaterControl' /\ WatchdogControl'
  BY DEF Control, Lockstep, JournalSound, Installed, Vouched, UpdaterControl, WatchdogControl
<1>6. InstallerControl'
  BY DEF Control, Lockstep, InstallerControl, InstallerOff
<1>7. Evidence' /\ Vouching' /\ CurrentIsWhole'
  BY DEF Trust, Evidence, Installed, Vouching, SignedIsEarned, Vouched, CurrentIsWhole
<1> QED
  BY <1>3, <1>4, <1>5, <1>6, <1>7 DEF Types, Control, Trust

LEMMA RetryRollbackInv == ASSUME Inv, RetryRollback, Beside PROVE Inv'
<1> USE DEF Inv, Phase, Resolved, Unresolved, RetryRollback, WatchdogOff, files, machine,
            history, Beside, outside
<1>1. Shape'
  <2>1. watchdog' \in Watchdogs
    BY Sighting DEF WatchdogPcs, Watchdogs
  <2> QED
    BY <2>1 DEF Types, Shape
<1>2. InstallerControl'
  BY DEF Control, Lockstep, InstallerControl
<1>3. InstallerTypeOK'
  BY DEF Types, InstallerTypeOK
<1>4. Lockstep' /\ JournalSound' /\ UpdaterControl' /\ WatchdogControl'
  BY DEF Control, Lockstep, JournalSound, Installed, Vouched, UpdaterControl, WatchdogControl
<1>5. Evidence' /\ Vouching' /\ CurrentIsWhole'
  BY DEF Trust, Evidence, Installed, Vouching, SignedIsEarned, Vouched, CurrentIsWhole
<1> QED
  BY <1>1, <1>2, <1>3, <1>4, <1>5 DEF Types, Control, Trust

LEMMA WatchdogKilledInv == ASSUME Inv, WatchdogKilled, Beside PROVE Inv'
<1>1. service'.up \in BOOLEAN
  BY DEF Inv, Types, Shape, WatchdogKilled
<1>2. unit' \in [enabled : BOOLEAN, halted : BOOLEAN] /\ (service'.up => ~unit'.halted)
      /\ (~service'.up => (unit'.halted <=> unit.halted))
  BY <1>1, BesideUnit
<1> USE DEF Inv, Phase, Resolved, Unresolved, WatchdogKilled, Fault, WatchdogOff, files,
            machine, history, Beside, outside
<1>3. InstallerTypeOK'
  BY DEF Types, InstallerTypeOK, Control, Lockstep
<1>4. Shape'
  BY Sighting DEF Types, Shape, UpdaterPcs, WatchdogPcs, SignedUpdaters, Watchdogs, Control,
         UpdaterControl, WatchdogControl
<1>5. InstallerControl'
  BY DEF Control, Lockstep, InstallerControl, InstallerOff
<1>6. Vouching'
  BY <1>2 DEF Control, Lockstep, Trust, Vouching, SignedIsEarned, Vouched
<1>7. Lockstep' /\ JournalSound' /\ UpdaterControl' /\ WatchdogControl'
  BY DEF Control, Lockstep, JournalSound, Installed, Vouched, UpdaterControl, WatchdogControl
<1>8. Evidence' /\ CurrentIsWhole'
  BY DEF Trust, Evidence, Installed, CurrentIsWhole
<1> QED
  BY <1>3, <1>4, <1>5, <1>6, <1>7, <1>8 DEF Types, Control, Trust

LEMMA ReadJournalInv == ASSUME Inv, ReadJournal, Beside PROVE Inv'
<1> USE DEF Inv, Phase, Resolved, Unresolved, ReadJournal, files, machine, history, Beside,
            outside
<1>1. InstallerControl'
  BY DEF Types, InstallerTypeOK, Control, InstallerControl, Installed, Vouched
<1>2. Evidence'
  BY DEF Control, JournalSound, Trust, Evidence, Installed
<1>3. InstallerTypeOK' /\ Shape'
  BY DEF Types, InstallerTypeOK, Shape
<1>4. Lockstep' /\ JournalSound' /\ UpdaterControl' /\ WatchdogControl'
  BY DEF Control, Lockstep, JournalSound, Installed, Vouched, UpdaterControl, WatchdogControl
<1>5. Vouching' /\ CurrentIsWhole'
  BY DEF Trust, Vouching, SignedIsEarned, Vouched, CurrentIsWhole, Installed
<1> QED
  BY <1>1, <1>2, <1>3, <1>4, <1>5 DEF Types, Control, Trust

LEMMA WriteHealthInv == ASSUME Inv, WriteHealth, Beside PROVE Inv'
<1>1. service'.up \in BOOLEAN
  BY DEF Inv, Types, Shape, WriteHealth, files, machine
<1>2. unit' \in [enabled : BOOLEAN, halted : BOOLEAN] /\ (service'.up => ~unit'.halted)
      /\ (~service'.up => (unit'.halted <=> unit.halted))
  BY <1>1, BesideUnit
<1> USE DEF Inv, Phase, Resolved, Unresolved, WriteHealth, files, machine, Beside, outside
<1>3. service.contact = "trial" => service.release \in Signed \cap Installed
  BY DEF Trust, Evidence
<1>4. Shape'
  <2>1. service' \in Services
    BY DEF Types, Shape, Services
  <2>2. health' \in [attempt : Signed \cup {NoRelease}, release : Releases \cup {NoRelease},
                     boot : Boots \cup {NoBoot}, pid : Pids \cup {NoPid},
                     kernel : Nat, observed : Nat]
    BY <1>3 DEF Types, Shape
  <2>3. earned' \in SUBSET Releases
    <3>1. CASE service.contact = "trial" /\ service.release = journal.attempt
      BY <1>3, <3>1, Names DEF Types, Shape
    <3>2. CASE ~(service.contact = "trial" /\ service.release = journal.attempt)
      BY <3>2 DEF Types, Shape
    <3> QED
      BY <3>1, <3>2
  <2> QED
    BY <2>1, <2>2, <2>3 DEF Types, Shape, Services
<1>5. InstallerControl'
  BY DEF Types, InstallerTypeOK, Control, InstallerControl, Installed, Vouched
<1>6. Evidence'
  <2>1. Installed' = Installed
    BY DEF Installed
  <2>2. health'.attempt # NoRelease => health'.attempt \in Installed'
    BY <1>3, <2>1
  <2>3. service'.contact = "no"
    BY DEF Types, Shape
  <2>4. Phase # "idle" /\ health'.attempt = journal.attempt /\ health'.kernel = journal.kernel
          /\ health'.observed <= journal.deadline
        => journal.attempt \in earned'
    <3> SUFFICES ASSUME Phase # "idle", health'.attempt = journal.attempt,
                        health'.kernel = journal.kernel, health'.observed <= journal.deadline
                 PROVE  journal.attempt \in earned'
      OBVIOUS
    <3>1. journal.attempt \in Signed
      BY DEF Control, JournalSound
    <3>2. service.contact = "trial" /\ service.release = journal.attempt
      BY <3>1, Names
    <3> QED
      BY <3>2
  <2> QED
    BY <2>2, <2>3, <2>4 DEF Evidence
<1>7. Vouching'
  BY <1>2 DEF Trust, Evidence, Vouching, SignedIsEarned, Vouched
<1>8. InstallerTypeOK'
  BY DEF Types, InstallerTypeOK
<1>9. Lockstep' /\ JournalSound' /\ UpdaterControl' /\ WatchdogControl'
  BY DEF Control, Lockstep, JournalSound, Installed, Vouched, UpdaterControl, WatchdogControl
<1>10. CurrentIsWhole'
  BY DEF Trust, CurrentIsWhole, Installed
<1> QED
  BY <1>4, <1>5, <1>6, <1>7, <1>8, <1>9, <1>10 DEF Types, Control, Trust

LEMMA ServiceCrashesInv == ASSUME Inv, ServiceCrashes, Beside PROVE Inv'
<1>1. service'.up \in BOOLEAN
  BY DEF ServiceCrashes, Off
<1>2. unit' \in [enabled : BOOLEAN, halted : BOOLEAN] /\ (service'.up => ~unit'.halted)
      /\ (~service'.up => (unit'.halted <=> unit.halted))
  BY <1>1, BesideUnit
<1> USE DEF Inv, Phase, Resolved, Unresolved, ServiceCrashes, Fault, Off, files, machine,
            history, Beside, outside
<1>3. InstallerControl'
  BY <1>2 DEF Control, InstallerControl, Installed, Vouched, Unswitched
<1>4. InstallerTypeOK' /\ Shape'
  BY DEF Types, InstallerTypeOK, Shape
<1>5. Lockstep' /\ JournalSound' /\ UpdaterControl' /\ WatchdogControl'
  BY DEF Control, Lockstep, JournalSound, Installed, Vouched, UpdaterControl, WatchdogControl
<1>6. Evidence' /\ Vouching' /\ CurrentIsWhole'
  BY DEF Trust, Evidence, Installed, Vouching, SignedIsEarned, Vouched, CurrentIsWhole
<1> QED
  BY <1>3, <1>4, <1>5, <1>6 DEF Types, Control, Trust

LEMMA SystemdStartsInv == ASSUME Inv, SystemdStarts, Beside PROVE Inv'
<1>1. service'.up \in BOOLEAN
  BY DEF SystemdStarts, ServiceStarts, StartService
<1>2. unit' \in [enabled : BOOLEAN, halted : BOOLEAN] /\ (service'.up => ~unit'.halted)
      /\ (~service'.up => (unit'.halted <=> unit.halted))
  BY <1>1, BesideUnit
<1> USE DEF Inv, Phase, Resolved, Unresolved, SystemdStarts, ServiceStarts, StartService,
            files, machine, history, Beside, outside
<1>3. Shape'
  BY <1>2 DEF Types, InstallerTypeOK, Shape
<1>4. InstallerTypeOK'
  BY DEF Types, InstallerTypeOK
<1>5. Lockstep' /\ JournalSound' /\ UpdaterControl' /\ WatchdogControl' /\ InstallerControl'
  BY DEF Control, Lockstep, JournalSound, Installed, Vouched, UpdaterControl, WatchdogControl,
         InstallerControl
<1>6. Evidence' /\ Vouching' /\ CurrentIsWhole'
  BY DEF Trust, Evidence, Installed, Vouching, SignedIsEarned, Vouched, CurrentIsWhole
<1> QED
  BY <1>3, <1>4, <1>5, <1>6 DEF Types, Control, Trust

LEMMA TickInv == ASSUME Inv, Tick, Beside PROVE Inv'
<1> USE DEF Inv, Phase, Resolved, Unresolved, Tick, files, history, Beside, outside
<1>1. InstallerControl'
  BY DEF Types, InstallerTypeOK, Control, InstallerControl, Installed, Vouched
<1>2. InstallerTypeOK' /\ Shape'
  BY DEF Types, InstallerTypeOK, Shape
<1>3. Lockstep' /\ JournalSound' /\ UpdaterControl' /\ WatchdogControl'
  BY DEF Control, Lockstep, JournalSound, Installed, Vouched, UpdaterControl, WatchdogControl
<1>4. Evidence' /\ Vouching' /\ CurrentIsWhole'
  BY DEF Trust, Evidence, Installed, Vouching, SignedIsEarned, Vouched, CurrentIsWhole
<1> QED
  BY <1>1, <1>2, <1>3, <1>4 DEF Types, Control, Trust

LEMMA PowerCycleInv == ASSUME Inv, PowerCycle PROVE Inv'
<1> USE DEF Inv, Phase, Resolved, Unresolved, PowerCycle, Reboot, Fault, Off, UpdaterOff,
            WatchdogOff, Leftover, files, history
<1>1. InstallerTypeOK'
  <2>1. unit' \in [enabled : BOOLEAN, halted : BOOLEAN]
    <3>1. (~unit.enabled) \in BOOLEAN /\ unit \in [enabled : BOOLEAN, halted : BOOLEAN]
      BY DEF Types, InstallerTypeOK
    <3> QED
      BY <3>1, Zenon
  <2>2. left' \in SUBSET Bootstraps
    BY LeftoverVouches DEF Types, InstallerTypeOK
  <2>3. installer' \in [pc : InstallerPcs, release : Bootstraps \cup {NoRelease},
                        previous : Releases \cup {NoRelease},
                        active : BOOLEAN, switched : BOOLEAN] /\ installer'.pc = "off"
    BY DEF InstallerOff, InstallerPcs
  <2> QED
    BY <2>1, <2>2, <2>3 DEF Types, InstallerTypeOK
<1>2. Shape'
  BY Sighting DEF Types, Shape, UpdaterPcs, WatchdogPcs, SignedUpdaters, Watchdogs, Control,
         UpdaterControl, WatchdogControl
<1>3. Lockstep'
  BY DEF Control, Lockstep, InstallerControl, InstallerOff, UpdaterOff, WatchdogOff
<1>4. InstallerControl'
  BY DEF InstallerControl, Unswitched, InstallerOff
<1>5. Vouching'
  <2>1. Phase \in Resolved => current' \in Vouched'
    BY LeftoverVouches DEF Vouched, Leftover
  <2> QED
    BY <2>1 DEF Trust, Vouching, SignedIsEarned
<1>6. CurrentIsWhole'
  <2>1. current' \in Installed' \cup {NoRelease}
    BY DEF Trust, CurrentIsWhole, Installed
  <2>2. installer'.release = NoRelease
    BY DEF InstallerOff
  <2> QED
    BY <2>1, <2>2, Names DEF CurrentIsWhole
<1>7. JournalSound' /\ UpdaterControl' /\ WatchdogControl'
  BY DEF Control, JournalSound, Installed, Vouched, UpdaterControl, WatchdogControl
<1>8. Evidence'
  BY DEF Trust, Evidence, Installed
<1> QED
  BY <1>1, <1>2, <1>3, <1>4, <1>5, <1>6, <1>7, <1>8 DEF Types, Control, Trust

LEMMA InstallStartsInv == ASSUME Inv, NEW b \in Bootstraps, InstallStarts(b) PROVE Inv'
<1> USE DEF Inv, Phase, Resolved, Unresolved, InstallStarts, machine, history
<1>1. InstallerTypeOK'
  <2>1. installer' \in [pc : InstallerPcs, release : Bootstraps \cup {NoRelease},
                        previous : Releases \cup {NoRelease},
                        active : BOOLEAN, switched : BOOLEAN] /\ installer'.pc = "build"
    BY DEF Types, InstallerTypeOK, InstallerOff, InstallerPcs
  <2> QED
    BY <2>1, Names DEF Types, InstallerTypeOK
<1>2. InstallerControl'
  BY BootstrapsAssumption, ReleasesAssumption
    DEF InstallerControl, Trust, Vouching, CurrentIsWhole, Installed, Vouched, InstallerOff
<1>3. CurrentIsWhole'
  BY BootstrapsAssumption, ReleasesAssumption DEF Trust, CurrentIsWhole, Installed
<1>4. Shape'
  BY DEF Types, Shape
<1>5. Lockstep' /\ JournalSound' /\ UpdaterControl' /\ WatchdogControl'
  BY DEF Control, Lockstep, JournalSound, Installed, Vouched, UpdaterControl, WatchdogControl
<1>6. Evidence' /\ Vouching'
  BY DEF Trust, Evidence, Installed, Vouching, SignedIsEarned, Vouched
<1> QED
  BY <1>1, <1>2, <1>3, <1>4, <1>5, <1>6 DEF Types, Control, Trust

LEMMA InstallBuildFailsInv == ASSUME Inv, InstallBuildFails PROVE Inv'
<1> USE DEF Inv, Phase, Resolved, Unresolved, InstallBuildFails, LeaveBy, machine, history
<1>1. InstallerTypeOK'
  BY DEF Types, InstallerTypeOK, InstallerPcs, InstallerOff
<1>2. Lockstep'
  BY DEF Control, Lockstep, InstallerControl, InstallerOff, UpdaterOff, WatchdogOff
<1>3. /\ Installed = built /\ Installed' = built' /\ current # installer.release
      /\ installer.release # NoRelease => Phase \in Resolved
  BY Names DEF Control, Lockstep, InstallerControl, Unswitched, Installed
<1>4. installer.release \notin Signed
  BY Names DEF Types, InstallerTypeOK
<1>5. \A r \in Signed : r \in Installed => r \in Installed'
  BY <1>3, <1>4
<1>6. JournalSound'
  <2>1. CASE installer.release = NoRelease
    BY <1>3, <2>1, Names DEF Types, InstallerTypeOK, Control, JournalSound, Vouched
  <2>2. CASE installer.release # NoRelease
    BY <1>3, <1>5, <2>2 DEF Control, JournalSound
  <2> QED
    BY <2>1, <2>2
<1>7. (UpdaterControl /\ WatchdogControl)'
  BY DEF Control, Lockstep, JournalSound, UpdaterControl, WatchdogControl, Installed
<1>8. InstallerControl'
  BY DEF InstallerControl, Unswitched, InstallerOff
<1>9. Evidence'
  BY DEF Types, InstallerTypeOK, Shape, Control, InstallerControl, Trust, Evidence, Installed,
         Signed
<1>10. Vouching'
  BY DEF Control, InstallerControl, Trust, Vouching, SignedIsEarned, Vouched, Unswitched
<1>11. CurrentIsWhole'
  <2>1. installer'.release = NoRelease
    BY DEF InstallerOff
  <2> QED
    BY <1>3, <2>1, Names DEF Trust, CurrentIsWhole
<1>12. Shape'
  BY DEF Types, Shape
<1> QED
  BY <1>1, <1>2, <1>6, <1>7, <1>8, <1>9, <1>10, <1>11, <1>12 DEF Types, Control, Trust

LEMMA ReadActiveInv == ASSUME Inv, ReadActive PROVE Inv'
<1> USE DEF Inv, Phase, Resolved, Unresolved, ReadActive, files, machine, history
<1>1. InstallerTypeOK'
  BY DEF Types, InstallerTypeOK, InstallerPcs, Active
<1>2. Shape'
  BY DEF Types, Shape
<1>3. Lockstep' /\ JournalSound' /\ UpdaterControl' /\ WatchdogControl' /\ InstallerControl'
  BY DEF Control, Lockstep, JournalSound, Installed, Vouched, UpdaterControl, WatchdogControl,
         InstallerControl, Unswitched
<1>4. Evidence' /\ Vouching' /\ CurrentIsWhole'
  BY DEF Trust, Evidence, Installed, Vouching, SignedIsEarned, Vouched, CurrentIsWhole
<1> QED
  BY <1>1, <1>2, <1>3, <1>4 DEF Types, Control, Trust

LEMMA StopServiceInv == ASSUME Inv, StopService PROVE Inv'
<1> USE DEF Inv, Phase, Resolved, Unresolved, StopService, Halt, Fault, Off, files, machine,
            history
<1>1. /\ service' \in {service, Off} /\ service' \in Services
      /\ unit' \in [enabled : BOOLEAN, halted : BOOLEAN]
      /\ service'.up => ~unit'.halted
      /\ unit.halted => unit'.halted
      /\ faults' \in Nat
  <2>1. service \in Services /\ unit \in [enabled : BOOLEAN, halted : BOOLEAN] /\ faults \in Nat
        /\ (service.up => ~unit.halted)
    BY DEF Types, InstallerTypeOK, Shape, Services
  <2>2. faults' \in Nat
    BY <2>1
  <2>3. CASE service' = Off /\ unit' = [unit EXCEPT !.halted = TRUE]
    BY <2>1, <2>2, <2>3, ServiceKept
  <2>4. CASE service' = service /\ unit' = unit
    BY <2>1, <2>2, <2>4
  <2> QED
    BY <2>3, <2>4
<1>2. /\ installer' \in [pc : InstallerPcs, release : Bootstraps \cup {NoRelease},
                        previous : Releases \cup {NoRelease},
                        active : BOOLEAN, switched : BOOLEAN]
      /\ installer'.pc \in {"provision", "reset", "resume"}
      /\ installer.release = NoRelease => installer'.pc # "provision"
      /\ installer.release # NoRelease => installer'.pc # "reset"
      /\ installer'.release = installer.release /\ installer'.previous = installer.previous
      /\ ~installer'.switched
  BY DEF Types, InstallerTypeOK, InstallerPcs, Control, InstallerControl, Unswitched
<1>3. InstallerTypeOK'
  BY <1>1, <1>2 DEF Types, InstallerTypeOK
<1>4. Shape'
  BY <1>1 DEF Types, Shape, Services
<1>5. Lockstep'
  BY <1>2 DEF Control, Lockstep
<1>6. InstallerControl'
  BY <1>1, <1>2 DEF Control, InstallerControl, Installed, Vouched, Unswitched
<1>7. Vouching'
  BY DEF Control, InstallerControl, Trust, Vouching, SignedIsEarned, Vouched, Unswitched
<1>8. CurrentIsWhole'
  BY DEF Types, InstallerTypeOK, Trust, CurrentIsWhole, Installed
<1>9. JournalSound' /\ UpdaterControl' /\ WatchdogControl'
  BY DEF Control, JournalSound, Installed, Vouched, UpdaterControl, WatchdogControl
<1>10. Evidence'
  BY DEF Trust, Evidence, Installed
<1> QED
  BY <1>3, <1>4, <1>5, <1>6, <1>7, <1>8, <1>9, <1>10 DEF Types, Control, Trust

LEMMA ProvisionInv == ASSUME Inv, Provision PROVE Inv'
<1> USE DEF Inv, Phase, Resolved, Unresolved, Provision, InstallerAt, files, machine, history
<1>1. InstallerTypeOK'
  BY DEF Types, InstallerTypeOK, InstallerPcs
<1>2. Shape'
  BY DEF Types, Shape
<1>3. Lockstep' /\ JournalSound' /\ UpdaterControl' /\ WatchdogControl' /\ InstallerControl'
  BY DEF Control, Lockstep, JournalSound, Installed, Vouched, UpdaterControl, WatchdogControl,
         InstallerControl, Unswitched
<1>4. Evidence' /\ Vouching' /\ CurrentIsWhole'
  BY DEF Trust, Evidence, Installed, Vouching, SignedIsEarned, Vouched, CurrentIsWhole
<1> QED
  BY <1>1, <1>2, <1>3, <1>4 DEF Types, Control, Trust

LEMMA KeepPreviousInv == ASSUME Inv, KeepPrevious PROVE Inv'
<1> USE DEF Inv, Phase, Resolved, Unresolved, KeepPrevious, InstallerAt, machine, history
<1>1. InstallerTypeOK'
  BY DEF Types, InstallerTypeOK, InstallerPcs
<1>2. Shape'
  BY DEF Types, Shape
<1>3. Lockstep' /\ JournalSound' /\ UpdaterControl' /\ WatchdogControl' /\ InstallerControl'
  BY DEF Control, Lockstep, JournalSound, Installed, Vouched, UpdaterControl, WatchdogControl,
         InstallerControl, Unswitched
<1>4. Evidence' /\ Vouching' /\ CurrentIsWhole'
  BY DEF Trust, Evidence, Installed, Vouching, SignedIsEarned, Vouched, CurrentIsWhole
<1> QED
  BY <1>1, <1>2, <1>3, <1>4 DEF Types, Control, Trust

LEMMA SwitchInv == ASSUME Inv, Switch PROVE Inv'
<1> USE DEF Inv, Phase, Resolved, Unresolved, Switch, machine, history
<1>1. InstallerTypeOK'
  BY DEF Types, InstallerTypeOK, InstallerPcs, Control, InstallerControl
<1>2. (UpdaterControl /\ WatchdogControl)'
  BY DEF Control, Lockstep, JournalSound, UpdaterControl, WatchdogControl, Installed
<1>3. Vouching'
  BY DEF Control, Lockstep, Trust, Vouching, SignedIsEarned, Vouched
<1>4. CurrentIsWhole'
  BY DEF Control, Lockstep, InstallerControl, CurrentIsWhole, Installed
<1>5. Shape'
  BY DEF Types, Shape
<1>6. Lockstep' /\ JournalSound' /\ InstallerControl'
  BY DEF Control, Lockstep, JournalSound, Installed, Vouched, InstallerControl, Unswitched
<1>7. Evidence'
  BY DEF Trust, Evidence, Installed
<1> QED
  BY <1>1, <1>2, <1>3, <1>4, <1>5, <1>6, <1>7 DEF Types, Control, Trust

LEMMA EnableAndRestartInv == ASSUME Inv, EnableAndRestart PROVE Inv'
<1> USE DEF Inv, Phase, Resolved, Unresolved, EnableAndRestart, InstallerAt, StartService,
            files, machine, history
<1>1. InstallerTypeOK'
  BY DEF Types, InstallerTypeOK, InstallerPcs
<1>2. Shape'
  BY DEF Types, InstallerTypeOK, Shape
<1>3. Lockstep' /\ JournalSound' /\ UpdaterControl' /\ WatchdogControl' /\ InstallerControl'
  BY DEF Control, Lockstep, JournalSound, Installed, Vouched, UpdaterControl, WatchdogControl,
         InstallerControl, Unswitched
<1>4. Evidence' /\ Vouching' /\ CurrentIsWhole'
  BY DEF Trust, Evidence, Installed, Vouching, SignedIsEarned, Vouched, CurrentIsWhole
<1> QED
  BY <1>1, <1>2, <1>3, <1>4 DEF Types, Control, Trust

LEMMA InstallHoldsInv == ASSUME Inv, InstallHolds PROVE Inv'
<1> USE DEF Inv, Phase, Resolved, Unresolved, InstallHolds, InstallerAt, files, machine, history
<1>1. InstallerTypeOK'
  BY DEF Types, InstallerTypeOK, InstallerPcs
<1>2. Shape'
  BY DEF Types, Shape
<1>3. Lockstep' /\ JournalSound' /\ UpdaterControl' /\ WatchdogControl' /\ InstallerControl'
  BY DEF Control, Lockstep, JournalSound, Installed, Vouched, UpdaterControl, WatchdogControl,
         InstallerControl, Unswitched
<1>4. Evidence' /\ Vouching' /\ CurrentIsWhole'
  BY DEF Trust, Evidence, Installed, Vouching, SignedIsEarned, Vouched, CurrentIsWhole
<1> QED
  BY <1>1, <1>2, <1>3, <1>4 DEF Types, Control, Trust

LEMMA InstallCompletesInv == ASSUME Inv, InstallCompletes PROVE Inv'
<1> USE DEF Inv, Phase, Resolved, Unresolved, InstallCompletes, LeaveBy, machine
<1>1. InstallerTypeOK'
  BY DEF Types, InstallerTypeOK, InstallerPcs, InstallerOff
<1>2. Shape'
  <2>1. good' \in SUBSET Releases
    BY Names DEF Types, InstallerTypeOK, Shape, Control, InstallerControl, Unswitched
  <2> QED
    BY <2>1 DEF Types, Shape
<1>3. Lockstep'
  BY DEF Control, Lockstep, InstallerControl, InstallerOff, UpdaterOff, WatchdogOff
<1>4. InstallerControl'
  BY DEF InstallerControl, Unswitched, InstallerOff
<1>5. Vouching'
  BY DEF Types, InstallerTypeOK, Control, InstallerControl, Trust, Vouching, SignedIsEarned,
         Vouched
<1>6. CurrentIsWhole'
  BY DEF Control, InstallerControl, Trust, CurrentIsWhole, Installed, InstallerOff
<1>7. JournalSound' /\ UpdaterControl' /\ WatchdogControl'
  BY DEF Control, JournalSound, Installed, Vouched, UpdaterControl, WatchdogControl
<1>8. Evidence'
  BY DEF Trust, Evidence, Installed
<1> QED
  BY <1>1, <1>2, <1>3, <1>4, <1>5, <1>6, <1>7, <1>8 DEF Types, Control, Trust

LEMMA InstallFailsInv == ASSUME Inv, InstallFails PROVE Inv'
<1> USE DEF Inv, Phase, Resolved, Unresolved, InstallFails, Fault, RestartFails, SwitchBegun,
            Off, files, machine, history
<1>1. /\ service' \in {service, Off} /\ service' \in Services
      /\ unit' \in [enabled : BOOLEAN, halted : BOOLEAN] /\ unit'.halted = unit.halted
      /\ service'.up => service.up /\ faults' \in Nat
  <2>1. service' \in {service, Off}
    OBVIOUS
  <2>2. unit' \in [enabled : BOOLEAN, halted : BOOLEAN] /\ unit'.halted = unit.halted
    BY DEF Types, InstallerTypeOK
  <2> QED
    BY <2>1, <2>2, ServiceKept DEF Types, Shape
<1>2. /\ installer' \in [pc : InstallerPcs, release : Bootstraps \cup {NoRelease},
                        previous : Releases \cup {NoRelease},
                        active : BOOLEAN, switched : BOOLEAN]
      /\ installer'.pc \in {"resume", "recover"} /\ installer.pc # "off"
  <2>1. (installer.pc \in {"switch", "restart", "check", "complete"}) \in BOOLEAN
    OBVIOUS
  <2> QED
    BY <2>1, Zenon DEF Types, InstallerTypeOK, InstallerPcs
<1>3. InstallerTypeOK'
  BY <1>1, <1>2 DEF Types, InstallerTypeOK
<1>4. Shape'
  BY <1>1 DEF Types, Shape, Services
<1>5. InstallerControl'
  BY DEF Types, InstallerTypeOK, Control, InstallerControl, Installed, Vouched, Unswitched
<1>6. CurrentIsWhole'
  BY DEF Types, InstallerTypeOK, Control, InstallerControl, Trust, CurrentIsWhole, Installed,
         Unswitched
<1>7. Lockstep' /\ JournalSound' /\ UpdaterControl' /\ WatchdogControl'
  BY DEF Control, Lockstep, JournalSound, Installed, Vouched, UpdaterControl, WatchdogControl
<1>8. Evidence' /\ Vouching'
  BY DEF Trust, Evidence, Installed, Vouching, SignedIsEarned, Vouched
<1> QED
  BY <1>3, <1>4, <1>5, <1>6, <1>7, <1>8 DEF Types, Control, Trust

LEMMA RecoverInv == ASSUME Inv, Recover PROVE Inv'
<1> USE DEF Inv, Phase, Resolved, Unresolved, Recover, InstallerAt, Halt, Off, machine, history
<1>1. /\ service' \in {service, Off} /\ service' \in Services
      /\ unit' \in [enabled : BOOLEAN, halted : BOOLEAN]
      /\ service'.up => service.up /\ ~unit'.halted
  <2>1. service' \in {service, Off} /\ (service' = service \/ service' = Off)
    OBVIOUS
  <2>2. service' \in Services
    BY <2>1, ServiceKept
  <2>3. \/ service' = service /\ unit' = unit
        \/ service' = Off /\ unit' = [unit EXCEPT !.halted = TRUE]
    OBVIOUS
  <2> QED
    <3>1. CASE service' = service /\ unit' = unit
      BY <2>2, <3>1 DEF Types, InstallerTypeOK
    <3>2. CASE service' = Off /\ unit' = [unit EXCEPT !.halted = TRUE]
      BY <2>2, <3>2 DEF Types, InstallerTypeOK
    <3> QED
      BY <2>3, <3>1, <3>2
<1>2. InstallerTypeOK'
  BY <1>1 DEF Types, InstallerTypeOK, InstallerPcs
<1>3. Shape'
  BY <1>1 DEF Types, Shape, Services
<1>4. (UpdaterControl /\ WatchdogControl)'
  BY DEF Control, Lockstep, JournalSound, UpdaterControl, WatchdogControl, Installed
<1>5. Vouching'
  BY DEF Control, InstallerControl, Trust, Vouching, SignedIsEarned, Vouched
<1>6. CurrentIsWhole'
  BY DEF Control, InstallerControl, CurrentIsWhole, Installed
<1>7. Lockstep' /\ JournalSound' /\ InstallerControl'
  BY DEF Control, Lockstep, JournalSound, Installed, Vouched, InstallerControl, Unswitched
<1>8. Evidence'
  BY DEF Trust, Evidence, Installed
<1> QED
  BY <1>2, <1>3, <1>4, <1>5, <1>6, <1>7, <1>8 DEF Types, Control, Trust

LEMMA ResumeInv == ASSUME Inv, Resume PROVE Inv'
<1> USE DEF Inv, Phase, Resolved, Unresolved, Resume, LeaveBy, Launch, StartService,
            RestartFails, Fault, Off, machine, history
<1>1. /\ service' \in Services /\ unit' \in [enabled : BOOLEAN, halted : BOOLEAN]
      /\ service'.up => ~unit'.halted
      /\ faults' \in Nat /\ service'.contact \in {service.contact, "no"}
      /\ service'.release = service.release \/ service'.contact = "no"
  <2>1. CASE service' \in {service, Off} /\ unit' = unit /\ faults' \in {faults, faults + 1}
    BY <2>1, ServiceKept DEF Types, InstallerTypeOK, Shape
  <2>2. CASE Launch /\ UNCHANGED faults
    <3>1. /\ service' \in Services /\ service'.contact = "no"
          /\ unit' = [unit EXCEPT !.halted = FALSE]
      BY <2>2, ServiceStarted, ServiceKept
    <3> QED
      BY <2>2, <3>1 DEF Types, InstallerTypeOK, Shape
  <2> QED
    BY <2>1, <2>2
<1>2. InstallerTypeOK'
  <2>1. installer' \in [pc : InstallerPcs, release : Bootstraps \cup {NoRelease},
                        previous : Releases \cup {NoRelease},
                        active : BOOLEAN, switched : BOOLEAN] /\ installer'.pc = "off"
    BY DEF InstallerOff, InstallerPcs
  <2> QED
    BY <1>1, <2>1 DEF Types, InstallerTypeOK
<1>3. Shape'
  BY <1>1 DEF Types, Shape, Services
<1>4. Lockstep'
  BY DEF Control, Lockstep, InstallerControl, InstallerOff, UpdaterOff, WatchdogOff
<1>5. /\ Installed = built /\ Installed' = built' /\ current # installer.release
      /\ installer.release # NoRelease => Phase \in Resolved
  BY Names DEF Types, InstallerTypeOK, Control, Lockstep, InstallerControl, Installed
<1>6. installer.release \notin Signed
  BY Names DEF Types, InstallerTypeOK
<1>7. \A r \in Signed : r \in Installed => r \in Installed'
  BY <1>5, <1>6
<1>8. JournalSound'
  <2>1. CASE installer.release = NoRelease
    BY <1>5, <2>1, Names DEF Types, InstallerTypeOK, Control, JournalSound, Vouched
  <2>2. CASE installer.release # NoRelease
    BY <1>5, <1>7, <2>2 DEF Control, JournalSound
  <2> QED
    BY <2>1, <2>2
<1>9. (UpdaterControl /\ WatchdogControl)'
  BY DEF Control, Lockstep, JournalSound, UpdaterControl, WatchdogControl, Installed
<1>10. InstallerControl'
  BY DEF InstallerControl, Unswitched, InstallerOff
<1>11. Evidence'
  <2>1. health.attempt # NoRelease => health.attempt \in Installed'
    BY <1>7 DEF Types, Shape, Trust, Evidence
  <2>2. service'.contact = "trial" =>
           Phase # "idle" /\ service'.release \in Signed \cap Installed'
    BY <1>1, <1>7 DEF Trust, Evidence
  <2> QED
    BY <2>1, <2>2 DEF Trust, Evidence
<1>12. Vouching'
  BY DEF Control, InstallerControl, Trust, Vouching, SignedIsEarned, Vouched
<1>13. CurrentIsWhole'
  <2>1. installer'.release = NoRelease
    BY DEF InstallerOff
  <2> QED
    BY <1>5, <2>1, Names DEF Trust, CurrentIsWhole
<1> QED
  BY <1>2, <1>3, <1>4, <1>8, <1>9, <1>10, <1>11, <1>12, <1>13 DEF Types, Control, Trust

LEMMA InstallerKilledInv == ASSUME Inv, InstallerKilled PROVE Inv'
<1> USE DEF Inv, Phase, Resolved, Unresolved, InstallerKilled, Fault, Leftover, files, machine,
            history
<1>1. InstallerTypeOK'
  <2>1. left' \in SUBSET Bootstraps
    BY LeftoverVouches DEF Types, InstallerTypeOK
  <2>2. installer' \in [pc : InstallerPcs, release : Bootstraps \cup {NoRelease},
                        previous : Releases \cup {NoRelease},
                        active : BOOLEAN, switched : BOOLEAN] /\ installer'.pc = "off"
    BY DEF InstallerOff, InstallerPcs
  <2> QED
    BY <2>1, <2>2 DEF Types, InstallerTypeOK
<1>2. Lockstep'
  BY DEF Control, Lockstep, InstallerControl, InstallerOff, UpdaterOff, WatchdogOff
<1>3. InstallerControl'
  BY DEF InstallerControl, Unswitched, InstallerOff
<1>4. Vouching'
  <2>1. Phase \in Resolved => current' \in Vouched'
    BY LeftoverVouches DEF Vouched, Leftover
  <2> QED
    BY <2>1 DEF Trust, Vouching, SignedIsEarned
<1>5. CurrentIsWhole'
  <2>1. current' \in Installed' \cup {NoRelease}
    BY DEF Trust, CurrentIsWhole, Installed
  <2>2. installer'.release = NoRelease
    BY DEF InstallerOff
  <2> QED
    BY <2>1, <2>2, Names DEF CurrentIsWhole
<1>6. Shape'
  BY DEF Types, Shape
<1>7. JournalSound' /\ UpdaterControl' /\ WatchdogControl'
  BY DEF Control, JournalSound, Installed, Vouched, UpdaterControl, WatchdogControl
<1>8. Evidence'
  BY DEF Trust, Evidence, Installed
<1> QED
  BY <1>1, <1>2, <1>3, <1>4, <1>5, <1>6, <1>7, <1>8 DEF Types, Control, Trust

LEMMA ResetStartsInv == ASSUME Inv, ResetStarts PROVE Inv'
<1> USE DEF Inv, Phase, Resolved, Unresolved, ResetStarts, OperatorActs, files, machine, history
<1>1. /\ installer' \in [pc : InstallerPcs, release : Bootstraps \cup {NoRelease},
                        previous : Releases \cup {NoRelease},
                        active : BOOLEAN, switched : BOOLEAN]
      /\ installer'.pc = "stop"
      /\ installer'.release = NoRelease /\ installer'.previous = NoRelease
      /\ ~installer'.switched
  BY DEF Types, InstallerTypeOK, InstallerPcs, InstallerOff, Active
<1>2. acts' \in 0..MaxActs
  BY ActsAssumption DEF Types, InstallerTypeOK
<1>3. InstallerTypeOK'
  BY <1>1, <1>2 DEF Types, InstallerTypeOK
<1>4. Shape'
  BY DEF Types, Shape
<1>5. Lockstep'
  BY <1>1 DEF Control, Lockstep
<1>6. InstallerControl'
  BY <1>1 DEF Control, InstallerControl, Installed, Vouched, Unswitched
<1>7. CurrentIsWhole'
  BY <1>1, Names DEF Trust, CurrentIsWhole, Installed
<1>8. JournalSound' /\ UpdaterControl' /\ WatchdogControl'
  BY DEF Control, JournalSound, Installed, Vouched, UpdaterControl, WatchdogControl
<1>9. Evidence' /\ Vouching'
  BY <1>1 DEF Trust, Evidence, Installed, Vouching, SignedIsEarned, Vouched
<1> QED
  BY <1>3, <1>4, <1>5, <1>6, <1>7, <1>8, <1>9 DEF Types, Control, Trust

LEMMA ResetIdentityInv == ASSUME Inv, ResetIdentity PROVE Inv'
<1> USE DEF Inv, Phase, Resolved, Unresolved, ResetIdentity, InstallerAt, files, machine,
            history
<1>1. InstallerTypeOK'
  BY DEF Types, InstallerTypeOK, InstallerPcs
<1>2. Shape'
  BY DEF Types, Shape
<1>3. Lockstep' /\ JournalSound' /\ UpdaterControl' /\ WatchdogControl' /\ InstallerControl'
  BY DEF Control, Lockstep, JournalSound, Installed, Vouched, UpdaterControl, WatchdogControl,
         InstallerControl, Unswitched
<1>4. Evidence' /\ Vouching' /\ CurrentIsWhole'
  BY DEF Trust, Evidence, Installed, Vouching, SignedIsEarned, Vouched, CurrentIsWhole
<1> QED
  BY <1>1, <1>2, <1>3, <1>4 DEF Types, Control, Trust

LEMMA OperatorStopsInv == ASSUME Inv, OperatorStops PROVE Inv'
<1> USE DEF Inv, Phase, Resolved, Unresolved, OperatorStops, OperatorActs, Halt, Off, files,
            machine, history
<1>1. InstallerTypeOK'
  <2>1. unit' \in [enabled : BOOLEAN, halted : BOOLEAN] /\ ~service'.up
    BY DEF Types, InstallerTypeOK
  <2>2. acts' \in 0..MaxActs
    BY ActsAssumption DEF Types, InstallerTypeOK
  <2> QED
    BY <2>1, <2>2 DEF Types, InstallerTypeOK
<1>2. Shape'
  BY DEF Types, Shape
<1>3. Lockstep' /\ JournalSound' /\ UpdaterControl' /\ WatchdogControl' /\ InstallerControl'
  BY DEF Control, Lockstep, JournalSound, Installed, Vouched, UpdaterControl, WatchdogControl,
         InstallerControl
<1>4. Evidence' /\ Vouching' /\ CurrentIsWhole'
  BY DEF Trust, Evidence, Installed, Vouching, SignedIsEarned, Vouched, CurrentIsWhole
<1> QED
  BY <1>1, <1>2, <1>3, <1>4 DEF Types, Control, Trust

LEMMA OperatorStartsInv == ASSUME Inv, OperatorStarts PROVE Inv'
<1> USE DEF Inv, Phase, Resolved, Unresolved, OperatorStarts, OperatorActs, Launch,
            StartService, files, machine, history
<1>1. InstallerTypeOK'
  <2>1. unit' \in [enabled : BOOLEAN, halted : BOOLEAN] /\ ~unit'.halted
    BY DEF Types, InstallerTypeOK
  <2>2. acts' \in 0..MaxActs
    BY ActsAssumption DEF Types, InstallerTypeOK
  <2> QED
    BY <2>1, <2>2 DEF Types, InstallerTypeOK
<1>2. Shape'
  <2>1. service' \in Services
    BY ServiceStarted
  <2> QED
    BY <2>1 DEF Types, Shape, Services
<1>3. Lockstep' /\ JournalSound' /\ UpdaterControl' /\ WatchdogControl' /\ InstallerControl'
  BY DEF Control, Lockstep, JournalSound, Installed, Vouched, UpdaterControl, WatchdogControl,
         InstallerControl
<1>4. Evidence' /\ Vouching' /\ CurrentIsWhole'
  BY DEF Trust, Evidence, Installed, Vouching, SignedIsEarned, Vouched, CurrentIsWhole
<1> QED
  BY <1>1, <1>2, <1>3, <1>4 DEF Types, Control, Trust

LEMMA UndoEndsOutcome == ASSUME Inv, UndoEnds PROVE Outcome
<1> USE DEF Inv, Phase, UndoEnds
<1>1. /\ journal \in Journals /\ Phase = "rolling_back" /\ lock = "updater"
  BY DEF Control, Lockstep, JournalSound, UpdaterControl, WatchdogControl
<1>2. PICK p \in {"rolled_back", "rollback_failed"} :
         /\ journal' = [journal EXCEPT !.phase = p]
         /\ p = "rolled_back" => updater.pc = "undo_settle"
  OBVIOUS
<1>3. Phase' = p
  BY <1>1, <1>2 DEF Journals
<1>4. updater.pc = "undo_settle" => current = journal.previous
  BY DEF Control, UpdaterControl
<1>5. /\ updater'.pc = "off" /\ updater' \in SignedUpdaters
      /\ watchdog'.pc = "off" /\ watchdog' \in Watchdogs
  BY <1>1, Sighting
    DEF Types, Shape, Control, Lockstep, UpdaterOff, WatchdogOff, UpdaterPcs, SignedUpdaters,
        WatchdogPcs, Watchdogs
<1> QED
  BY <1>1, <1>2, <1>3, <1>4, <1>5 DEF Outcome

LEMMA RollbackEndsOutcome == ASSUME Inv, RollbackEnds PROVE Outcome
<1> USE DEF Inv, Phase, RollbackEnds
<1>1. /\ journal \in Journals /\ Phase = "rolling_back" /\ lock = "watchdog"
  BY DEF Control, Lockstep, JournalSound, UpdaterControl, WatchdogControl
<1>2. PICK p \in {"rolled_back", "rollback_failed"} :
         /\ journal' = [journal EXCEPT !.phase = p]
         /\ p = "rolled_back" => watchdog.pc = "settle"
  OBVIOUS
<1>3. Phase' = p
  BY <1>1, <1>2 DEF Journals
<1>4. watchdog.pc = "settle" => current = journal.previous
  BY DEF Control, WatchdogControl
<1>5. /\ updater'.pc = "off" /\ updater' \in SignedUpdaters
      /\ watchdog'.pc = "off" /\ watchdog' \in Watchdogs
  BY <1>1, Sighting
    DEF Types, Shape, Control, Lockstep, UpdaterOff, WatchdogOff, UpdaterPcs, SignedUpdaters,
        WatchdogPcs, Watchdogs
<1> QED
  BY <1>1, <1>2, <1>3, <1>4, <1>5 DEF Outcome

LEMMA StutterInv == ASSUME Inv, UNCHANGED allVars PROVE Inv'
<1> USE DEF Inv, allVars, vars, outside, files, machine, history, Phase, Installed, Vouched
<1>1. Types'
  BY DEF Types, InstallerTypeOK, Shape
<1>2. Control'
  BY DEF Control, Lockstep, JournalSound, UpdaterControl, WatchdogControl, InstallerControl
<1>3. Trust'
  BY DEF Trust, Evidence, Vouching, SignedIsEarned, CurrentIsWhole
<1> QED
  BY <1>1, <1>2, <1>3

(* Whatever Update does, beside the scripts. *)
LEMMA UpdateStepsInv == ASSUME Inv, UpdateSteps PROVE Inv'
<1>1. Beside
  BY DEF UpdateSteps, Beside
<1>2. CASE SignedUpdate
  BY <1>1, <1>2, UpdaterStartsInv DEF SignedUpdate
<1>3. CASE UpdaterStep
  <2>1. CASE BuildFails
    BY <1>1, <2>1, BuildFailsInv
  <2>2. CASE Begin
    BY <1>1, <2>2, BeginInv
  <2>3. CASE LinkPrevious
    BY <1>1, <2>3, LinkPreviousInv
  <2>4. CASE LinkCurrent
    BY <1>1, <2>4, LinkCurrentInv
  <2>5. CASE MarkAwaiting
    BY <1>1, <2>5, MarkAwaitingInv
  <2>6. CASE UpdaterRestarts
    BY <1>1, <2>6, UpdaterRestartsInv
  <2>7. CASE ActivationOk
    BY <1>1, <2>7, ActivationOkInv
  <2>8. CASE ActivationFails
    BY <1>1, <2>8, ActivationFailsInv
  <2>9. CASE UndoLink
    BY <1>1, <2>9, UndoLinkInv
  <2>10. CASE UndoRestart
    BY <1>1, <2>10, UndoRestartInv
  <2>11. CASE UndoHolds
    BY <1>1, <2>11, UndoHoldsInv
  <2>12. CASE UndoFails
    BY <1>1, <2>12, UndoFailsInv
  <2>13. CASE UndoEnds
    BY <1>1, <2>13, UndoEndsOutcome, OutcomeInv
  <2> QED
    BY <1>3, <2>1, <2>2, <2>3, <2>4, <2>5, <2>6, <2>7, <2>8, <2>9, <2>10, <2>11, <2>12, <2>13
       DEF UpdaterStep
<1>4. CASE WatchdogStep
  <2>1. CASE WatchdogConfirms
    BY <1>1, <2>1, WatchdogConfirmsInv
  <2>2. CASE WatchdogWaits
    BY <1>1, <2>2, WatchdogWaitsInv
  <2>3. CASE WatchdogGivesUp
    BY <1>1, <2>3, WatchdogGivesUpInv
  <2>4. CASE MarkRollback
    BY <1>1, <2>4, MarkRollbackInv
  <2>5. CASE Relink
    BY <1>1, <2>5, RelinkInv
  <2>6. CASE WatchdogRestarts
    BY <1>1, <2>6, WatchdogRestartsInv
  <2>7. CASE RollbackEnds
    BY <1>1, <2>7, RollbackEndsOutcome, OutcomeInv
  <2>8. CASE WatchdogLooks
    BY <1>1, <2>8, WatchdogLooksInv
  <2>9. CASE WatchdogIdentifies
    BY <1>1, <2>9, WatchdogIdentifiesInv
  <2>10. CASE RollbackHolds
    BY <1>1, <2>10, RollbackHoldsInv
  <2>11. CASE RollbackFails
    BY <1>1, <2>11, RollbackFailsInv
  <2> QED
    BY <1>4, <2>1, <2>2, <2>3, <2>4, <2>5, <2>6, <2>7, <2>8, <2>9, <2>10, <2>11
       DEF WatchdogStep
<1>5. CASE UpdaterKilled
  BY <1>1, <1>5, UpdaterKilledInv
<1>6. CASE WatchdogStarts
  BY <1>1, <1>6, WatchdogStartsInv
<1>7. CASE RetryRollback
  BY <1>1, <1>7, RetryRollbackInv
<1>8. CASE WatchdogKilled
  BY <1>1, <1>8, WatchdogKilledInv
<1>9. CASE ReadJournal
  BY <1>1, <1>9, ReadJournalInv
<1>10. CASE WriteHealth
  BY <1>1, <1>10, WriteHealthInv
<1>11. CASE ServiceCrashes
  BY <1>1, <1>11, ServiceCrashesInv
<1>12. CASE SystemdStarts
  BY <1>1, <1>12, SystemdStartsInv
<1>13. CASE Tick
  BY <1>1, <1>13, TickInv
<1> QED
  BY <1>2, <1>3, <1>4, <1>5, <1>6, <1>7, <1>8, <1>9, <1>10, <1>11, <1>12, <1>13 DEF UpdateSteps

LEMMA InstallerStepInv == ASSUME Inv, InstallerStep PROVE Inv'
<1>1. CASE InstallBuildFails
  BY <1>1, InstallBuildFailsInv
<1>2. CASE StopService
  BY <1>2, StopServiceInv
<1>3. CASE Provision
  BY <1>3, ProvisionInv
<1>4. CASE KeepPrevious
  BY <1>4, KeepPreviousInv
<1>5. CASE Switch
  BY <1>5, SwitchInv
<1>6. CASE EnableAndRestart
  BY <1>6, EnableAndRestartInv
<1>7. CASE InstallCompletes
  BY <1>7, InstallCompletesInv
<1>8. CASE InstallFails
  BY <1>8, InstallFailsInv
<1>9. CASE Recover
  BY <1>9, RecoverInv
<1>10. CASE Resume
  BY <1>10, ResumeInv
<1>11. CASE ResetIdentity
  BY <1>11, ResetIdentityInv
<1>12. CASE ReadActive
  BY <1>12, ReadActiveInv
<1>13. CASE InstallHolds
  BY <1>13, InstallHoldsInv
<1> QED
  BY <1>1, <1>2, <1>3, <1>4, <1>5, <1>6, <1>7, <1>8, <1>9, <1>10, <1>11, <1>12, <1>13
     DEF InstallerStep

LEMMA NextInv == ASSUME Inv, [InstallerNext]_allVars PROVE Inv'
<1>1. CASE UpdateSteps
  BY <1>1, UpdateStepsInv
<1>2. CASE PowerCycle
  BY <1>2, PowerCycleInv
<1>3. CASE \E b \in Bootstraps : InstallStarts(b)
  BY <1>3, InstallStartsInv
<1>4. CASE InstallerStep
  BY <1>4, InstallerStepInv
<1>5. CASE InstallerKilled
  BY <1>5, InstallerKilledInv
<1>6. CASE ResetStarts
  BY <1>6, ResetStartsInv
<1>7. CASE OperatorStops
  BY <1>7, OperatorStopsInv
<1>8. CASE OperatorStarts
  BY <1>8, OperatorStartsInv
<1>9. CASE UNCHANGED allVars
  BY <1>9, StutterInv
<1> QED
  BY <1>1, <1>2, <1>3, <1>4, <1>5, <1>6, <1>7, <1>8, <1>9 DEF InstallerNext

(* The invariant: one program at a time holds the lock, where it is says how *)
(* far it has come, and whatever is active is whole and vouched for.         *)
THEOREM Invariance == InstallerSpec => []Inv
<1>1. FreshMachine => Inv
  BY InitInv
<1>2. Inv /\ [InstallerNext]_allVars => Inv'
  BY NextInv DEF Control, Lockstep
<1> QED
  BY <1>1, <1>2, PTL DEF InstallerSpec

(* run.sh, the reset, the updater, the watchdog, systemd and operators at     *)
(* work together, any of them killed anywhere: "current" names a whole        *)
(* release, or none, which somebody answers for when nobody is at work.       *)
THEOREM CurrentSound == InstallerSpec => []CurrentIsSound
<1>1. Inv => CurrentIsSound
  BY DEF Inv, Types, Trust, Vouching, Vouched, CurrentIsSound, ActiveIsVouched
<1> QED
  BY <1>1, Invariance, PTL

(* Only a step of an operator ends the pause in which a script works on the  *)
(* identity, and a script comes to that work only with the unit stopped.      *)
LEMMA PauseKept ==
    ASSUME Inv, [InstallerNext]_allVars, installer'.pc \in IdentityWork, Active'
    PROVE  installer.pc = installer'.pc /\ (Active \/ acts' # acts)
<1> USE DEF IdentityWork, Active
<1>1. CASE UNCHANGED allVars
  BY <1>1 DEF allVars, outside
<1>2. CASE UpdateSteps
  <2>1. installer' = installer /\ Beside
    BY <1>2 DEF UpdateSteps, Beside, outside
  <2>2. ASSUME unit.halted PROVE FALSE
    <3>1. /\ updater.pc = "off" /\ watchdog.pc = "off" /\ ~service.up /\ lock = "installer"
      BY <2>1, <2>2 DEF Inv, Types, InstallerTypeOK, Control, Lockstep
    <3>2. service' = service
      BY <1>2, <2>2, <3>1
        DEF UpdateSteps, SignedUpdate, UpdaterStarts, UpdaterStep, UpdaterKilled, BuildFails,
            Begin, LinkPrevious, LinkCurrent, MarkAwaiting, UpdaterRestarts, ActivationOk,
            ActivationFails, UndoLink, UndoRestart, UndoHolds, UndoFails, UndoEnds,
            WatchdogStarts, WatchdogStep, WatchdogLooks, WatchdogIdentifies, WatchdogConfirms,
            WatchdogWaits, WatchdogGivesUp, Unconvinced, MarkRollback, Relink,
            WatchdogRestarts, RollbackHolds, RollbackFails, RollbackEnds, RetryRollback,
            WatchdogKilled, ReadJournal, WriteHealth, ServiceCrashes, SystemdStarts, Tick,
            UpdaterAt, WatchdogAt
    <3>3. service'.up \in BOOLEAN
      BY <3>2 DEF Inv, Types, Shape
    <3> QED
      BY <2>1, <2>2, <3>1, <3>2, <3>3, BesideUnit
  <2> QED
    BY <2>1, <2>2
<1>3. CASE StopService
  <2>1. /\ installer \in [pc : InstallerPcs, release : Bootstraps \cup {NoRelease},
                           previous : Releases \cup {NoRelease},
                           active : BOOLEAN, switched : BOOLEAN]
        /\ unit \in [enabled : BOOLEAN, halted : BOOLEAN]
    BY DEF Inv, Types, InstallerTypeOK
  <2>2. Halt
    BY <1>3, <2>1 DEF StopService
  <2> QED
    BY <2>1, <2>2 DEF Halt
<1>4. CASE OperatorStops \/ OperatorStarts
  BY <1>4 DEF OperatorStops, OperatorStarts, OperatorActs, Inv, Types, InstallerTypeOK
<1>5. CASE InstallerStep /\ ~StopService
  <2>1. installer \in [pc : InstallerPcs, release : Bootstraps \cup {NoRelease},
                       previous : Releases \cup {NoRelease},
                       active : BOOLEAN, switched : BOOLEAN]
    BY DEF Inv, Types, InstallerTypeOK
  <2>2. CASE InstallFails
    <3>1. SwitchBegun \in BOOLEAN
      BY DEF SwitchBegun
    <3>2. installer'.pc \in {"recover", "resume"}
      BY <2>1, <2>2, <3>1 DEF InstallFails
    <3> QED
      BY <3>2
  <2>3. CASE InstallBuildFails \/ InstallCompletes \/ Resume
    BY <2>3 DEF InstallBuildFails, InstallCompletes, Resume, LeaveBy, InstallerOff
  <2>4. CASE ReadActive \/ Provision \/ KeepPrevious \/ Switch
    BY <2>1, <2>4 DEF ReadActive, Provision, KeepPrevious, Switch, InstallerAt
  <2>5. CASE EnableAndRestart \/ InstallHolds \/ Recover \/ ResetIdentity
    BY <2>1, <2>5 DEF EnableAndRestart, InstallHolds, Recover, ResetIdentity, InstallerAt
  <2> QED
    BY <1>5, <2>2, <2>3, <2>4, <2>5 DEF InstallerStep
<1>6. CASE PowerCycle \/ InstallerKilled
  BY <1>6 DEF PowerCycle, InstallerKilled, InstallerOff
<1>7. CASE (\E b \in Bootstraps : InstallStarts(b)) \/ ResetStarts
  <2>1. installer'.pc \in {"build", "stop"}
    BY <1>7 DEF InstallStarts, ResetStarts, InstallerOff
  <2> QED
    BY <2>1
<1> QED
  BY <1>1, <1>2, <1>3, <1>4, <1>5, <1>6, <1>7 DEF InstallerNext

(* provision and reset start with the unit stopped, and neither systemd nor   *)
(* the watchdog, the updater or another script starts it while they work on   *)
(* the identity: an operator's own systemctl start is the one way.            *)
THEOREM IdentityExclusive == InstallerSpec => IdentityWorkIsExclusive
<1>1. Inv /\ [InstallerNext]_allVars =>
        [installer'.pc \in IdentityWork /\ Active' =>
            installer.pc = installer'.pc /\ (Active \/ acts' # acts)]_allVars
  BY PauseKept
<1> QED
  BY <1>1, Invariance, PTL DEF InstallerSpec, IdentityWorkIsExclusive

-----------------------------------------------------------------------------
(* The way of an attempt beside everything else. *)

(* A process that was started after the last switch runs the active release, *)
(* and so did the one that was seen; before the switch nobody has run the    *)
(* new one, whoever else stops, starts or restarts the service.              *)
RunsCurrent ==
    /\ \/ updater.pc \in {"undo_check", "undo_settle"}
       \/ watchdog.pc \in {"judge", "identify", "confirm", "check", "settle"}
       \/ /\ Phase \in {"switching", "awaiting_confirmation"}
          /\ current = journal.release /\ health.attempt = journal.attempt
       => (service.up => service.release = current)
    /\ updater.pc \in {"link_previous", "link_current"} =>
          /\ health.attempt # updater.release
          /\ service.up => service.release # updater.release
    /\ service.up /\ service.release \in Signed => service.release \in Installed
    /\ updater.pc = "undo_settle" => updater.seen.release = current
    /\ watchdog.pc \in {"confirm", "settle"} => watchdog.seen.release = current
    /\ watchdog.pc = "confirm" => watchdog.seen.pid = watchdog.pid

LEMMA InitRunsCurrent == FreshMachine => RunsCurrent
BY DEF FreshMachine, RunsCurrent, Off, UpdaterOff, WatchdogOff, Unseen, NoJournal, Phase

(* The steps of the updater. *)
LEMMA UpdaterRunsCurrent ==
    ASSUME Inv, RunsCurrent, SignedUpdate \/ UpdaterStep \/ UpdaterKilled
    PROVE  RunsCurrent'
<1> USE DEF RunsCurrent, Installed, Phase, SignedUpdaters, Watchdogs
<1>1. /\ updater \in SignedUpdaters /\ watchdog \in Watchdogs
      /\ updater.pc # "off" => watchdog.pc = "off" /\ updater.release \in built \cap Signed
      /\ current \in Installed \cup {NoRelease}
      /\ health.attempt # NoRelease => health.attempt \in Installed
      /\ JournalSound /\ UpdaterControl
  BY DEF Inv, Types, Shape, Control, Lockstep, UpdaterControl, Trust, CurrentIsWhole, Evidence
<1>2. CASE SignedUpdate
  <2>1. PICK r \in Signed : UpdaterStarts(r) /\ current \in built
    BY <1>2 DEF SignedUpdate
  <2>2. updater'.pc = "build" /\ updater'.release = r
    BY <2>1 DEF UpdaterStarts, UpdaterOff
  <2> QED
    BY <1>1, <2>1, <2>2, Names DEF UpdaterStarts
<1>3. CASE BuildFails
  BY <1>1, <1>3 DEF BuildFails, UpdaterOff
<1>4. CASE Begin
  BY <1>1, <1>4, Names DEF Begin, UpdaterAt, UpdaterControl
<1>5. CASE LinkPrevious
  BY <1>1, <1>5 DEF LinkPrevious, UpdaterAt
<1>6. CASE LinkCurrent
  BY <1>1, <1>6 DEF LinkCurrent, UpdaterAt, UpdaterControl, JournalSound, Unresolved
<1>7. CASE MarkAwaiting
  BY <1>1, <1>7 DEF MarkAwaiting, UpdaterAt, UpdaterControl
<1>8. CASE UpdaterRestarts \/ UndoRestart
  BY <1>1, <1>8, Names DEF UpdaterRestarts, UndoRestart, UpdaterAt, StartService, files
<1>9. CASE ActivationOk
  BY <1>1, <1>9 DEF ActivationOk, UpdaterOff, files
<1>10. CASE ActivationFails
  BY <1>1, <1>10 DEF ActivationFails, RestartFails, Off
<1>11. CASE UndoLink
  BY <1>1, <1>11 DEF UndoLink, UpdaterAt, UpdaterControl
<1>12. CASE UndoHolds
  BY <1>1, <1>12 DEF UndoHolds, Sight, SignedUpdaters, files
<1>13. CASE UndoFails
  BY <1>1, <1>13 DEF UndoFails, RestartFails, Off, SignedUpdaters, files
<1>14. CASE UndoEnds
  <2>1. journal \in Journals /\ Phase' \in {"rolled_back", "rollback_failed"}
    BY <1>1, <1>14 DEF UndoEnds, UpdaterControl, JournalSound, Unresolved, Journals
  <2> QED
    BY <1>1, <1>14, <2>1 DEF UndoEnds, UpdaterOff
<1>15. CASE UpdaterKilled
  BY <1>1, <1>15 DEF UpdaterKilled, UpdaterOff, files
<1> QED
  BY <1>2, <1>3, <1>4, <1>5, <1>6, <1>7, <1>8, <1>9, <1>10, <1>11, <1>12, <1>13, <1>14, <1>15
     DEF UpdaterStep

(* The steps of the watchdog. *)
LEMMA WatchdogRunsCurrent ==
    ASSUME Inv, RunsCurrent, WatchdogStarts \/ WatchdogStep \/ RetryRollback \/ WatchdogKilled
    PROVE  RunsCurrent'
<1> USE DEF RunsCurrent, Installed, Phase, SignedUpdaters, Watchdogs
<1>1. /\ watchdog \in Watchdogs
      /\ watchdog.pc # "off" => updater.pc = "off"
      /\ lock = "free" => updater.pc = "off"
      /\ current \in Installed \cup {NoRelease}
      /\ JournalSound /\ WatchdogControl
  BY DEF Inv, Types, Shape, Control, Lockstep, Trust, CurrentIsWhole
<1>2. CASE WatchdogStarts
  BY <1>1, <1>2 DEF WatchdogStarts, WatchdogOff, Interrupted, Confirmed, Unresolved, files
<1>3. CASE WatchdogConfirms
  BY <1>1, <1>3 DEF WatchdogConfirms, WatchdogOff
<1>4. CASE WatchdogWaits
  BY <1>1, <1>4 DEF WatchdogWaits, WatchdogOff, files
<1>5. CASE WatchdogGivesUp
  BY <1>1, <1>5 DEF WatchdogGivesUp, WatchdogOff, files
<1>6. CASE MarkRollback
  BY <1>1, <1>6 DEF MarkRollback, WatchdogAt
<1>7. CASE Relink
  BY <1>1, <1>7 DEF Relink, WatchdogAt, WatchdogControl
<1>8. CASE WatchdogRestarts
  BY <1>1, <1>8, Names DEF WatchdogRestarts, WatchdogAt, StartService, files
<1>9. CASE RollbackEnds
  <2>1. journal \in Journals /\ Phase' \in {"rolled_back", "rollback_failed"}
    BY <1>1, <1>9 DEF RollbackEnds, WatchdogControl, JournalSound, Journals
  <2> QED
    BY <1>1, <1>9, <2>1 DEF RollbackEnds, WatchdogOff
<1>10. CASE RetryRollback \/ WatchdogKilled
  BY <1>1, <1>10 DEF RetryRollback, WatchdogKilled, WatchdogOff, files
<1>11. CASE WatchdogLooks
  BY <1>1, <1>11 DEF WatchdogLooks, WatchdogAt, Watchdogs, files
<1>12. CASE WatchdogIdentifies \/ RollbackHolds
  <2>1. /\ watchdog'.pid = watchdog.pid /\ watchdog'.seen = Sight
        /\ watchdog.pc \in {"identify", "check"} /\ watchdog'.pc \in {"confirm", "settle"}
        /\ watchdog'.pc = "confirm" => service.pid = watchdog.pid
        /\ service.up /\ UNCHANGED <<files, health, updater, service>>
    BY <1>1, <1>12 DEF WatchdogIdentifies, FromMainProcess, RollbackHolds
  <2>2. service.release = current /\ Sight.release = current /\ Sight.pid = service.pid
    BY <2>1 DEF Sight
  <2>3. /\ watchdog'.seen.release = current'
        /\ watchdog'.pc = "confirm" => watchdog'.seen.pid = watchdog'.pid
    BY <2>1, <2>2 DEF files
  <2> QED
    BY <1>1, <2>1, <2>2, <2>3 DEF files
<1>13. CASE RollbackFails
  BY <1>1, <1>13 DEF RollbackFails, RestartFails, Off, Watchdogs, files
<1> QED
  BY <1>2, <1>3, <1>4, <1>5, <1>6, <1>7, <1>8, <1>9, <1>10, <1>11, <1>12, <1>13
     DEF WatchdogStep

(* The service writes evidence, ends and starts; operators stop and start it. *)
LEMMA ServiceRunsCurrent ==
    ASSUME Inv, RunsCurrent,
           \/ ReadJournal \/ WriteHealth \/ ServiceCrashes \/ SystemdStarts \/ Tick
           \/ OperatorStops \/ OperatorStarts \/ PowerCycle
    PROVE  RunsCurrent'
<1> USE DEF RunsCurrent, Installed, Phase, SignedUpdaters, Watchdogs
<1>1. /\ current \in Installed \cup {NoRelease}
      /\ JournalSound /\ UpdaterControl
      /\ service \in Services
  BY DEF Inv, Types, Shape, Services, Control, Trust, CurrentIsWhole
<1>2. CASE ReadJournal
  BY <1>1, <1>2 DEF ReadJournal, Services, files
<1>3. CASE WriteHealth
  BY <1>1, <1>3, Names DEF WriteHealth, Services, files, JournalSound, UpdaterControl
<1>4. CASE ServiceCrashes \/ OperatorStops
  BY <1>1, <1>4 DEF ServiceCrashes, OperatorStops, Halt, Off, files
<1>5. CASE SystemdStarts \/ OperatorStarts
  BY <1>1, <1>5, Names DEF SystemdStarts, OperatorStarts, ServiceStarts, Launch, StartService,
                           files, UpdaterControl, JournalSound, Unresolved
<1>6. CASE Tick
  BY <1>6 DEF Tick, files
<1>7. CASE PowerCycle
  BY <1>1, <1>7 DEF PowerCycle, Reboot, UpdaterOff, WatchdogOff, Off, files
<1> QED
  BY <1>2, <1>3, <1>4, <1>5, <1>6, <1>7

(* A script moves "current" only between attempts, and no other program runs. *)
LEMMA ScriptRunsCurrent ==
    ASSUME Inv, RunsCurrent,
           \/ (\E b \in Bootstraps : InstallStarts(b)) \/ InstallerStep \/ InstallerKilled
           \/ ResetStarts
    PROVE  RunsCurrent'
<1> USE DEF RunsCurrent, Installed, Phase, SignedUpdaters, Watchdogs
<1>1. /\ updater.pc = "off" /\ watchdog.pc = "off"
      /\ current \in Installed \cup {NoRelease}
      /\ installer.release \in Bootstraps \cup {NoRelease}
      /\ installer.release # NoRelease => Phase \in Resolved
      /\ installer.pc \notin {"off", "stop", "reset", "resume"} =>
            installer.release # NoRelease
  BY DEF Inv, Types, InstallerTypeOK, Shape, Control, Lockstep, InstallerControl, Trust,
         CurrentIsWhole, InstallStarts, InstallerStep, InstallerKilled, ResetStarts,
         InstallBuildFails, ReadActive, StopService, Provision, KeepPrevious, Switch,
         EnableAndRestart, InstallHolds, InstallCompletes, InstallFails, Recover, Resume,
         ResetIdentity, InstallerAt
<1>2. CASE \E b \in Bootstraps : InstallStarts(b)
  BY <1>1, <1>2, Names DEF InstallStarts
<1>3. CASE InstallBuildFails \/ InstallCompletes
  BY <1>1, <1>3, Names DEF InstallBuildFails, InstallCompletes, LeaveBy
<1>4. CASE StopService
  BY <1>1, <1>4 DEF StopService, Halt, Off, files
<1>5. CASE \/ ReadActive \/ Provision \/ KeepPrevious \/ InstallHolds \/ ResetIdentity
           \/ InstallerKilled \/ ResetStarts
  BY <1>1, <1>5 DEF ReadActive, Provision, KeepPrevious, InstallHolds, ResetIdentity,
                    InstallerKilled, ResetStarts, files
<1>6. CASE Switch
  BY <1>1, <1>6 DEF Switch, Resolved
<1>7. CASE EnableAndRestart
  BY <1>1, <1>7, Names DEF EnableAndRestart, StartService, files
<1>8. CASE InstallFails
  BY <1>1, <1>8 DEF InstallFails, RestartFails, Off, files
<1>9. CASE Recover
  BY <1>1, <1>9 DEF Recover, InstallerAt, Halt, Off, Resolved
<1>10. CASE Resume
  BY <1>1, <1>10, Names DEF Resume, RestartFails, Launch, StartService, LeaveBy, Off
<1> QED
  BY <1>2, <1>3, <1>4, <1>5, <1>6, <1>7, <1>8, <1>9, <1>10 DEF InstallerStep

LEMMA RunsCurrentKept == Inv /\ RunsCurrent /\ [InstallerNext]_allVars => RunsCurrent'
<1> SUFFICES ASSUME Inv, RunsCurrent, [InstallerNext]_allVars PROVE RunsCurrent'
  OBVIOUS
<1>1. CASE UNCHANGED allVars
  BY <1>1 DEF RunsCurrent, Installed, Phase, allVars, vars, files
<1>2. CASE InstallerNext
  BY <1>2, UpdaterRunsCurrent, WatchdogRunsCurrent, ServiceRunsCurrent, ScriptRunsCurrent
     DEF InstallerNext, UpdateSteps
<1> QED
  BY <1>1, <1>2

-----------------------------------------------------------------------------
(* What the programs write into a journal.  Only these actions write one.    *)
Writes == \/ Begin \/ MarkAwaiting \/ ActivationFails \/ UndoEnds
          \/ WatchdogConfirms \/ MarkRollback \/ RollbackEnds

LEMMA OnlyTheseWrite == [InstallerNext]_allVars => (Writes /\ UpdateSteps) \/ journal' = journal
<1> SUFFICES ASSUME [InstallerNext]_allVars, ~(Writes /\ UpdateSteps) PROVE journal' = journal
  OBVIOUS
<1>1. CASE UpdateSteps
  BY <1>1 DEF UpdateSteps, Writes, SignedUpdate, UpdaterStarts, UpdaterStep, UpdaterKilled,
              BuildFails, LinkPrevious, LinkCurrent, UpdaterRestarts, ActivationOk, UndoLink,
              UndoRestart, UndoHolds, UndoFails, WatchdogStarts, WatchdogStep, WatchdogLooks,
              WatchdogIdentifies, WatchdogWaits, WatchdogGivesUp, Relink, WatchdogRestarts,
              RollbackHolds, RollbackFails, RetryRollback, WatchdogKilled, ReadJournal,
              WriteHealth, ServiceCrashes, SystemdStarts, ServiceStarts, Tick, files
<1>2. CASE UNCHANGED allVars
  BY <1>2 DEF allVars, vars, files
<1>3. CASE InstallerStep
  BY <1>3 DEF InstallerStep, InstallBuildFails, ReadActive, StopService, Provision,
              KeepPrevious, Switch, EnableAndRestart, InstallHolds, InstallCompletes,
              InstallFails, Recover, Resume, ResetIdentity, files
<1>4. CASE \/ PowerCycle \/ (\E b \in Bootstraps : InstallStarts(b)) \/ InstallerKilled
           \/ ResetStarts \/ OperatorStops \/ OperatorStarts
  BY <1>4 DEF PowerCycle, Reboot, InstallStarts, InstallerKilled, ResetStarts, OperatorStops,
              OperatorStarts, files
<1> QED
  BY <1>1, <1>2, <1>3, <1>4 DEF InstallerNext

LEMMA WritesInOrder == ASSUME Inv, Writes, journal' # journal PROVE Phase' \in After(Phase)
<1> USE DEF Phase, Resolved, Unresolved, After
<1>1. JournalSound /\ UpdaterControl /\ WatchdogControl
  BY DEF Inv, Control
<1>2. CASE Begin
  BY <1>1, <1>2 DEF Begin, UpdaterAt, UpdaterControl
<1>3. ASSUME Phase # "idle", NEW p, journal' = [journal EXCEPT !.phase = p] PROVE Phase' = p
  BY <1>1, <1>3 DEF JournalSound, Journals
<1>4. CASE MarkAwaiting
  BY <1>1, <1>3, <1>4 DEF MarkAwaiting, UpdaterAt, UpdaterControl
<1>5. CASE ActivationFails
  BY <1>1, <1>3, <1>5 DEF ActivationFails, UpdaterControl
<1>6. CASE UndoEnds
  BY <1>1, <1>3, <1>6 DEF UndoEnds, UpdaterControl
<1>7. CASE WatchdogConfirms
  BY <1>1, <1>3, <1>7 DEF WatchdogConfirms, WatchdogControl
<1>8. CASE MarkRollback
  <2>1. Phase \notin Resolved /\ Phase \in Phases /\ journal \in Journals
    BY <1>1, <1>8 DEF MarkRollback, WatchdogAt, WatchdogControl, JournalSound, Journals
  <2>2. Phase' = "rolling_back" /\ Phase # "rolling_back"
    BY <1>3, <1>8, <2>1 DEF MarkRollback, Journals
  <2> QED
    BY <2>1, <2>2 DEF Phases
<1>9. CASE RollbackEnds
  BY <1>1, <1>3, <1>9 DEF RollbackEnds, WatchdogControl
<1> QED
  BY <1>2, <1>4, <1>5, <1>6, <1>7, <1>8, <1>9 DEF Writes

LEMMA WritesSettle ==
    ASSUME Inv, RunsCurrent, Writes, UpdateSteps, Phase \notin Resolved, Phase' \in Resolved
    PROVE  SettledOnSight /\ current \in good' \cup left
<1> USE DEF Phase, Resolved, Unresolved
<1>1. JournalSound /\ UpdaterControl /\ WatchdogControl
  BY DEF Inv, Control
<1>2. journal \in Journals /\ journal.previous \in good \cup left /\ Phase # "idle"
  <2>1. built \subseteq Releases
    BY DEF Inv, Types, InstallerTypeOK
  <2> QED
    BY <1>1, <2>1, Names DEF JournalSound, Vouched, Installed, Journals
<1>3. ASSUME NEW p, journal' = [journal EXCEPT !.phase = p] PROVE Phase' = p
  BY <1>2, <1>3 DEF Journals
<1>4. CASE Begin
  BY <1>1, <1>4 DEF Begin, UpdaterAt, UpdaterControl
<1>5. CASE MarkAwaiting \/ ActivationFails \/ MarkRollback
  BY <1>3, <1>5 DEF MarkAwaiting, ActivationFails, MarkRollback
<1>6. CASE WatchdogConfirms
  <2>1. lock = "watchdog"
    BY <1>6 DEF WatchdogConfirms, Inv, Control, Lockstep
  <2> QED
    BY <1>1, <1>6, <2>1 DEF WatchdogConfirms, WatchdogControl, RunsCurrent, SettledOnSight, Seen
<1>7. CASE UndoEnds \/ RollbackEnds
  <2>1. Outcome /\ Phase' = "rolled_back"
    BY <1>7, UndoEndsOutcome, RollbackEndsOutcome DEF Outcome
  <2>2. current = journal.previous /\ good' = good
    BY <2>1 DEF Outcome, history
  <2>3. \/ updater.pc = "undo_settle" /\ lock = "updater"
        \/ watchdog.pc = "settle" /\ lock = "watchdog"
    BY <2>1 DEF Outcome, Inv, Control, Lockstep
  <2> QED
    BY <1>2, <2>1, <2>2, <2>3 DEF RunsCurrent, SettledOnSight, Seen
<1> QED
  BY <1>4, <1>5, <1>6, <1>7 DEF Writes

LEMMA CurrentStaysPut == Inv /\ [InstallerNext]_allVars => CurrentStays
<1>1. ASSUME Inv, [InstallerNext]_allVars PROVE CurrentStays
  <2> SUFFICES ASSUME Phase \notin Resolved, current' # current
               PROVE  current' \in {journal.release, journal.previous}
    BY DEF CurrentStays
  <2>1. installer.release = NoRelease
    BY <1>1 DEF Inv, Control, InstallerControl
  <2>2. ~UNCHANGED allVars /\ ~Provision /\ ~KeepPrevious /\ ~InstallBuildFails /\ ~StopService
        /\ ~ReadActive /\ ~EnableAndRestart /\ ~InstallHolds /\ ~InstallCompletes
        /\ ~InstallFails /\ ~Resume /\ ~ResetIdentity
        /\ ~PowerCycle /\ ~InstallerKilled /\ ~ResetStarts /\ ~OperatorStops /\ ~OperatorStarts
        /\ ~(\E b \in Bootstraps : InstallStarts(b))
    BY DEF allVars, vars, files, Provision, KeepPrevious, InstallBuildFails, StopService,
           ReadActive, EnableAndRestart, InstallHolds, InstallCompletes, InstallFails, Resume,
           ResetIdentity, PowerCycle, Reboot, InstallerKilled, ResetStarts, OperatorStops,
           OperatorStarts, InstallStarts
  <2>3. ~Switch /\ ~Recover
    BY <1>1, <2>1 DEF Inv, Control, InstallerControl, Switch, Recover, InstallerAt
  <2>4. UpdateSteps
    BY <1>1, <2>2, <2>3 DEF InstallerNext, InstallerStep
  <2>5. LinkCurrent \/ UndoLink \/ Relink
    BY <2>4
      DEF UpdateSteps, SignedUpdate, UpdaterStarts, UpdaterStep, UpdaterKilled, BuildFails,
                Begin, LinkPrevious, MarkAwaiting, UpdaterRestarts, ActivationOk,
                ActivationFails, UndoRestart, UndoHolds, UndoFails, UndoEnds, WatchdogStarts,
                WatchdogStep, WatchdogLooks, WatchdogIdentifies, WatchdogConfirms,
                WatchdogWaits, WatchdogGivesUp, MarkRollback, WatchdogRestarts,
                RollbackHolds, RollbackFails, RollbackEnds, RetryRollback, WatchdogKilled,
                ReadJournal, WriteHealth, ServiceCrashes, SystemdStarts, ServiceStarts, Tick,
                files
  <2>6. LinkCurrent => journal.release = updater.release
    BY <1>1 DEF Inv, Control, UpdaterControl, LinkCurrent, UpdaterAt
  <2> QED
    BY <2>5, <2>6 DEF LinkCurrent, UndoLink, Relink
<1> QED
  BY <1>1

(* An open attempt goes its way beside run.sh, the reset and operators: only   *)
(* its own programs move "current", between the release on trial and the one   *)
(* before, its phases follow in their order, and its outcome is written only   *)
(* on a look of the writer's own at a process of the release that is then      *)
(* active and vouched for; what runs by then, if anything, is that release.    *)
THEOREM TrialIsUndisturbed == InstallerSpec => TrialUndisturbed
<1>1. FreshMachine => Inv /\ RunsCurrent
  BY InitInv, InitRunsCurrent
<1>2. Inv /\ RunsCurrent /\ [InstallerNext]_allVars => RunsCurrent'
  BY RunsCurrentKept
<1>3. Inv /\ RunsCurrent /\ [InstallerNext]_allVars =>
        [/\ CurrentStays /\ SettledByLook
         /\ journal' # journal => Phase' \in After(Phase)]_allVars
  <2> SUFFICES ASSUME Inv, RunsCurrent, [InstallerNext]_allVars
               PROVE  /\ CurrentStays /\ SettledByLook
                      /\ journal' # journal => Phase' \in After(Phase)
    OBVIOUS
  <2>1. CurrentStays
    BY CurrentStaysPut
  <2>2. journal' # journal => Phase' \in After(Phase)
    BY OnlyTheseWrite, WritesInOrder
  <2>3. SettledByLook
    BY OnlyTheseWrite, WritesSettle DEF SettledByLook, Phase
  <2> QED
    BY <2>1, <2>2, <2>3
<1> QED
  BY <1>1, <1>2, <1>3, Invariance, PTL DEF InstallerSpec, TrialUndisturbed

(* A script that stopped monitoring hands it back with its last look, or at   *)
(* the end of its trap, if there is a release to run: an agent runs, after    *)
(* run.sh one of the release that is then active.                             *)
THEOREM MonitoringIsHandedBack == InstallerSpec => MonitoringHandedBack
<1> DEFINE HandedBack ==
      installer.active /\ Done /\ faults' = faults /\ current' # NoRelease =>
          service'.up /\ (installer.release # NoRelease => service'.release = current')
<1>1. ASSUME Inv, [InstallerNext]_allVars PROVE HandedBack
  <2> SUFFICES ASSUME installer.active, installer.pc # "complete",
                      installer'.pc \in {"complete", "off"}, faults' = faults,
                      current' # NoRelease
               PROVE  /\ service'.up
                      /\ installer.release # NoRelease => service'.release = current'
    BY DEF Done
  <2> USE <1>1 DEF Inv
  <2>1. installer.pc \notin {"off", "build", "complete"} /\ faults \in Nat
    BY DEF Control, InstallerControl, InstallerOff, Types, Shape
  <2>2. InstallHolds \/ Resume
    <3>0. installer \in [pc : InstallerPcs, release : Bootstraps \cup {NoRelease},
                         previous : Releases \cup {NoRelease},
                         active : BOOLEAN, switched : BOOLEAN]
      BY DEF Types, InstallerTypeOK
    <3>1. installer' # installer /\ ~UpdateSteps /\ ~OperatorStops /\ ~OperatorStarts
      BY <2>1 DEF UpdateSteps, outside, OperatorStops, OperatorStarts
    <3>2. ~PowerCycle /\ ~InstallerKilled /\ ~InstallBuildFails /\ ~InstallCompletes
      BY <2>1 DEF PowerCycle, Reboot, Fault, InstallerKilled, InstallBuildFails,
                  InstallCompletes
    <3>3. ~ResetStarts /\ ~(\E b \in Bootstraps : InstallStarts(b)) /\ ~ReadActive
      BY <2>1 DEF ResetStarts, InstallStarts, ReadActive
    <3>4. ~StopService
      BY <3>0 DEF StopService
    <3>5. ~InstallFails
      <4>1. SwitchBegun \in BOOLEAN
        BY DEF SwitchBegun
      <4> QED
        BY <3>0, <4>1 DEF InstallFails
    <3>6. ~Provision /\ ~KeepPrevious /\ ~Switch /\ ~EnableAndRestart /\ ~Recover
          /\ ~ResetIdentity
      BY <3>0 DEF Provision, KeepPrevious, Switch, EnableAndRestart, Recover, ResetIdentity,
                  InstallerAt
    <3> QED
      BY <1>1, <3>1, <3>2, <3>3, <3>4, <3>5, <3>6
        DEF InstallerNext, InstallerStep, allVars, outside
  <2>3. CASE InstallHolds
    BY <2>3 DEF InstallHolds, InstallerAt, files, Control, InstallerControl
  <2>4. CASE Resume
    <3>1. ~RestartFails
      BY <2>1 DEF RestartFails, Fault
    <3>2. CASE Launch
      <4>1. current' = current /\ current \in built
        BY <2>4 DEF Resume, Trust, CurrentIsWhole, Installed
      <4> QED
        BY <2>4, <3>2, <4>1, ServiceStarted DEF Launch, Resume
    <3>3. CASE installer.release = NoRelease /\ service.up /\ service' = service
      BY <3>3
    <3> QED
      BY <2>4, <3>1, <3>2, <3>3 DEF Resume
  <2> QED
    BY <2>2, <2>3, <2>4
<1> QED
  BY <1>1, Invariance, PTL DEF InstallerSpec, MonitoringHandedBack

-----------------------------------------------------------------------------
(* The refinement of Deployment. *)

Tried    == {NoRelease} \cup (Installed \cap Signed)
Answered == earned \cup good \cup left
Deployed == <<Committed, Trial, Tried, Answered>>

(* With no script at work the device is committed to what is active.          *)
LEMMA NoScriptCommits ==
    installer = InstallerOff /\ Phase \in Resolved => Committed = current
BY DEF Committed, InstallerOff

(* A script that has its release switched in is not committed to it yet.      *)
LEMMA ScriptCommits ==
    ASSUME Inv, installer.pc # "off", Phase \in Resolved
    PROVE  Committed = IF installer.release = NoRelease THEN current ELSE installer.previous
<1> USE DEF Inv, Types, InstallerTypeOK, Control, InstallerControl, Unswitched
<1>1. CASE installer.release = NoRelease
  <2>1. current # NoRelease
    BY <1>1, Names
  <2> QED
    BY <1>1, <2>1 DEF Committed
<1>2. CASE installer.release # NoRelease
  <2>1. current \in {installer.release, installer.previous}
    BY <1>2 DEF InstallerPcs
  <2> QED
    BY <1>2, <2>1 DEF Committed
<1> QED
  BY <1>1, <1>2

(* While the updater or the watchdog holds the lock, no script is at work.    *)
LEMMA NoScriptBeside ==
    ASSUME Inv, lock \in {"updater", "watchdog"}
    PROVE  installer = InstallerOff
BY DEF Inv, Control, Lockstep, InstallerControl

(* A step of Update that leaves the journal alone commits to nothing.         *)
LEMMA UnwrittenCommits ==
    ASSUME Inv, UpdateSteps, journal' = journal
    PROVE  UNCHANGED <<Committed, Trial>>
<1>1. installer' = installer
  BY DEF UpdateSteps, outside
<1>2. current' = current \/ Phase \notin Resolved
  BY DEF UpdateSteps, SignedUpdate, UpdaterStarts, UpdaterStep, UpdaterKilled, BuildFails,
         Begin, LinkPrevious, LinkCurrent, MarkAwaiting, UpdaterRestarts, ActivationOk,
         ActivationFails, UndoLink, UndoRestart, UndoHolds, UndoFails, UndoEnds,
         WatchdogStarts, WatchdogStep, WatchdogLooks, WatchdogIdentifies, WatchdogConfirms,
         WatchdogWaits, WatchdogGivesUp, MarkRollback, Relink, WatchdogRestarts,
         RollbackHolds, RollbackFails, RollbackEnds, RetryRollback, WatchdogKilled, ReadJournal,
         WriteHealth, ServiceCrashes, SystemdStarts, ServiceStarts, Tick, files, UpdaterAt,
         WatchdogAt, Inv, Control, UpdaterControl, WatchdogControl, Resolved, Unresolved, Phase
<1> QED
  BY <1>1, <1>2 DEF Committed, Trial, Phase

(* Outside an attempt no process runs a release that was tried and given up.  *)
SettledServes == Phase \in Resolved /\ service.up => service.release \in good \cup Bootstraps

LEMMA VouchedServes ==
    ASSUME Inv, Phase \in Resolved, current \in built
    PROVE  current \in good \cup Bootstraps
<1> USE DEF Inv, Types, InstallerTypeOK, Control, Lockstep, InstallerControl, Unswitched
<1>1. left \subseteq Bootstraps /\ current # NoRelease
  BY Names
<1>2. CASE installer.release = NoRelease
  BY <1>1, <1>2 DEF Trust, Vouching, Vouched
<1>3. CASE installer.release # NoRelease
  <2>1. current \in {installer.release, installer.previous}
    BY <1>3 DEF InstallerPcs, InstallerOff
  <2> QED
    BY <1>1, <1>3, <2>1 DEF Vouched
<1> QED
  BY <1>2, <1>3

LEMMA StartedServes ==
    ASSUME Inv, StartService, current \in built, UNCHANGED <<journal, good>>
    PROVE  SettledServes'
BY VouchedServes DEF StartService, SettledServes, Phase

(* An attempt that is settled leaves the service with the release it settled  *)
(* on.                                                                        *)
LEMMA WritesServe ==
    ASSUME Inv, RunsCurrent, Writes, UpdateSteps PROVE SettledServes'
<1> SUFFICES ASSUME Phase' \in Resolved, service'.up
             PROVE  service'.release \in good' \cup Bootstraps
  BY DEF SettledServes
<1>1. JournalSound /\ UpdaterControl /\ WatchdogControl /\ left \subseteq Bootstraps
  BY DEF Inv, Control, Types, InstallerTypeOK
<1>2. Phase \notin Resolved
  <2>1. ~Begin
    BY DEF Begin, Phase, Resolved
  <2> QED
    BY <1>1, <2>1 DEF Writes, MarkAwaiting, ActivationFails, UndoEnds, WatchdogConfirms,
              MarkRollback, RollbackEnds, UpdaterAt, WatchdogAt, UpdaterControl,
              WatchdogControl, Phase, Resolved, Unresolved
<1>3. (service.up => service.release = current) /\ current \in good' \cup left
  BY <1>2, WritesSettle DEF SettledOnSight
<1>4. service' = service
  BY <1>2 DEF Writes, Begin, MarkAwaiting, ActivationFails, UndoEnds, WatchdogConfirms,
              MarkRollback, RollbackEnds, UpdaterAt, WatchdogAt, RestartFails, Off
<1> QED
  BY <1>1, <1>3, <1>4

(* Who starts the service outside an attempt starts a release that is there.  *)
LEMMA WhoServes ==
    ASSUME Inv, [InstallerNext]_allVars, Phase \in Resolved, ~(Writes /\ UpdateSteps)
    PROVE  /\ good \subseteq good'
           /\ \/ service'.up => service.up /\ service'.release = service.release
              \/ StartService /\ current \in built /\ good' = good
<1> DEFINE Same == service'.up => service.up /\ service'.release = service.release
           Anew == StartService /\ current \in built /\ good' = good
<1> SUFFICES good \subseteq good' /\ (Same \/ Anew)
  OBVIOUS
<1> USE DEF Off, history
<1>1. CASE UpdateSteps
  <2>1. CASE SystemdStarts
    BY <2>1 DEF SystemdStarts, ServiceStarts
  <2>2. CASE ReadJournal \/ WriteHealth
    BY <2>2 DEF ReadJournal, WriteHealth, Inv, Types, Shape
  <2>3. CASE ~SystemdStarts /\ ~ReadJournal /\ ~WriteHealth
    <3>1. ~UpdaterRestarts /\ ~UndoRestart /\ ~WatchdogRestarts
      BY DEF Inv, Control, UpdaterControl, WatchdogControl, UpdaterRestarts, UndoRestart,
             WatchdogRestarts, UpdaterAt, WatchdogAt, Resolved, Unresolved
    <3>2. service' \in {service, Off} /\ good' = good
      BY <1>1, <2>3, <3>1
        DEF UpdateSteps, Writes, SignedUpdate, UpdaterStarts, UpdaterStep, UpdaterKilled,
            BuildFails, LinkPrevious, LinkCurrent, ActivationOk, UndoLink, UndoHolds,
            UndoFails, WatchdogStarts, WatchdogStep, WatchdogLooks, WatchdogIdentifies,
            WatchdogWaits, WatchdogGivesUp, Relink, RollbackHolds, RollbackFails,
            RetryRollback, WatchdogKilled, ServiceCrashes, Tick, RestartFails
    <3> QED
      BY <3>2
  <2> QED
    BY <2>1, <2>2, <2>3
<1>2. CASE UNCHANGED allVars
  BY <1>2 DEF allVars, vars
<1>3. CASE \/ InstallBuildFails \/ ReadActive \/ StopService \/ Provision \/ KeepPrevious
           \/ Switch \/ InstallHolds \/ InstallCompletes \/ InstallFails \/ Recover
           \/ ResetIdentity
  <2>1. service' \in {service, Off} /\ good \subseteq good'
    BY <1>3 DEF InstallBuildFails, ReadActive, StopService, Provision, KeepPrevious, Switch,
                InstallHolds, InstallCompletes, InstallFails, Recover, ResetIdentity, Halt,
                RestartFails
  <2> QED
    BY <2>1
<1>4. CASE EnableAndRestart
  BY <1>4, Names DEF EnableAndRestart, InstallerAt, Inv, Control, InstallerControl, Types,
                     InstallerTypeOK, Lockstep, InstallerOff
<1>5. CASE Resume \/ OperatorStarts
  BY <1>5 DEF Resume, OperatorStarts, Launch, RestartFails
<1>6. CASE \/ PowerCycle \/ (\E b \in Bootstraps : InstallStarts(b)) \/ InstallerKilled
           \/ ResetStarts \/ OperatorStops
  <2>1. service' \in {service, Off} /\ good' = good
    BY <1>6 DEF PowerCycle, Reboot, InstallStarts, InstallerKilled, ResetStarts,
                OperatorStops, Halt
  <2> QED
    BY <2>1
<1> QED
  BY <1>1, <1>2, <1>3, <1>4, <1>5, <1>6 DEF InstallerNext, InstallerStep

LEMMA ServesKept ==
    ASSUME Inv, RunsCurrent, SettledServes, [InstallerNext]_allVars
    PROVE  SettledServes'
<1>1. CASE Writes /\ UpdateSteps
  BY <1>1, WritesServe
<1>2. CASE ~(Writes /\ UpdateSteps)
  <2>1. journal' = journal
    BY <1>2, OnlyTheseWrite
  <2>2. CASE Phase \in Resolved
    BY <1>2, <2>1, <2>2, WhoServes, StartedServes DEF SettledServes, Phase
  <2>3. CASE Phase \notin Resolved
    BY <2>1, <2>3 DEF SettledServes, Phase
  <2> QED
    BY <2>2, <2>3
<1> QED
  BY <1>1, <1>2

(* What an attempt earns, its release on trial earns.                         *)
LEMMA ContactDeploys ==
    ASSUME Inv, SettledServes, WriteHealth, Beside
    PROVE  Undertaking!Next \/ UNCHANGED Deployed
<1> USE DEF Inv, Control, Phase
<1>1. UNCHANGED <<Committed, Trial, Tried>>
  BY DEF WriteHealth, Beside, outside, Committed, Trial, Tried, Installed, files
<1>2. UNCHANGED <<good, left>>
  BY DEF WriteHealth, Beside, outside
<1>3. CASE earned' = earned
  BY <1>1, <1>2, <1>3 DEF Deployed, Answered
<1>4. CASE earned' # earned
  <2>1. /\ service.up /\ service.contact = "trial" /\ service.release = journal.attempt
        /\ earned' = earned \cup {journal.attempt} /\ journal.attempt \notin earned
    BY <1>4 DEF WriteHealth
  <2>2. Phase # "idle" /\ journal.attempt = journal.release /\ journal.release \in Signed
    BY <2>1 DEF Trust, Evidence, JournalSound
  <2>3. Phase \notin Resolved
    BY <2>1, <2>2, Names DEF SettledServes, Trust, Vouching, SignedIsEarned
  <2>4. Trial = journal.attempt /\ Trial # NoRelease
    BY <2>2, <2>3, Names DEF Trial
  <2>5. Answered' = Answered \cup {Trial}
    BY <1>2, <2>1, <2>4 DEF Answered
  <2>6. Undertaking!Contact
    BY <1>1, <2>4, <2>5 DEF Undertaking!Contact, Answered, Tried
  <2> QED
    BY <2>6 DEF Undertaking!Next
<1> QED
  BY <1>3, <1>4

(* An attempt begins with a version that was not tried yet.                   *)
LEMMA BeginDeploys == ASSUME Inv, Begin, Beside PROVE Undertaking!Next
<1> DEFINE r == updater.release
<1>1. /\ r \in Signed /\ r \in built /\ r \notin Installed /\ lock = "updater"
      /\ Phase \in Resolved
  BY DEF Begin, UpdaterAt, Inv, Control, Lockstep, UpdaterControl, Installed
<1>2. r # NoRelease /\ r \in Releases \ Bootstraps /\ r \notin Tried
  BY <1>1, Names DEF Tried, Signed
<1>3. Trial = NoRelease /\ Committed = current
  BY <1>1, NoScriptBeside, NoScriptCommits DEF Trial
<1>4. Trial' = r /\ Committed' = current
  BY DEF Begin, Trial, Committed, Phase, Resolved
<1>5. Tried' = Tried \cup {r}
  <2>1. built' = built /\ updater'.pc # "build" /\ updater.pc = "build"
    BY DEF Begin, UpdaterAt, Inv, Types, Shape
  <2>2. Installed' = built /\ Installed = built \ {r}
    BY <2>1 DEF Installed
  <2> QED
    BY <1>1, <2>2 DEF Tried
<1>6. Answered' = Answered
  BY DEF Begin, Beside, outside, history, Answered
<1>7. Undertaking!Try(r)
  BY <1>2, <1>3, <1>4, <1>5, <1>6 DEF Undertaking!Try, Tried, Answered
<1> QED
  BY <1>2, <1>7 DEF Undertaking!Next

(* Killing the updater in its build uses up the version.                      *)
LEMMA KilledDeploys ==
    ASSUME Inv, (UpdaterKilled /\ Beside) \/ PowerCycle, updater.pc = "build"
    PROVE  Undertaking!Next
<1> DEFINE r == updater.release
<1>1. /\ r \in Signed /\ r \in built /\ r \notin Installed /\ lock = "updater"
      /\ Phase \in Resolved
  BY DEF Inv, Control, Lockstep, UpdaterControl, Installed
<1>2. r # NoRelease /\ r \in Releases \ Bootstraps /\ r \notin Tried
  BY <1>1, Names DEF Tried, Signed
<1>3. installer = InstallerOff /\ Leftover = {}
  BY <1>1, NoScriptBeside DEF Leftover, InstallerOff
<1>4. /\ UNCHANGED <<built, current, journal, good, earned, installer, left>>
      /\ updater'.pc = "off"
  BY <1>3 DEF UpdaterKilled, PowerCycle, Reboot, Beside, outside, files, history, UpdaterOff
<1>5. Trial = NoRelease /\ UNCHANGED <<Trial, Committed, Answered>>
  BY <1>1, <1>4 DEF Trial, Committed, Answered, Phase
<1>6. Tried' = Tried \cup {r}
  <2>1. Installed' = built /\ Installed = built \ {r}
    BY <1>4 DEF Installed
  <2> QED
    BY <1>1, <2>1 DEF Tried
<1>7. Undertaking!Abandon(r)
  BY <1>2, <1>5, <1>6 DEF Undertaking!Abandon, Tried, Answered
<1> QED
  BY <1>2, <1>7 DEF Undertaking!Next

(* A confirmation commits the device to the release on trial.                 *)
LEMMA ConfirmDeploys == ASSUME Inv, WatchdogConfirms, Beside PROVE Undertaking!Next
<1>1. /\ journal.release \in earned /\ current = journal.release /\ lock = "watchdog"
      /\ Phase \notin Resolved /\ journal \in Journals
  BY DEF WatchdogConfirms, Inv, Control, Lockstep, WatchdogControl, JournalSound, Resolved
<1>2. installer' = InstallerOff /\ left' = left
  BY <1>1, NoScriptBeside DEF Beside, outside
<1>3. Phase' = "confirmed" /\ current' = current
  BY <1>1 DEF WatchdogConfirms, Phase, Journals
<1>4. Committed' = current
  BY <1>2, <1>3 DEF Committed, InstallerOff, Resolved
<1>5. Trial = current /\ Trial' = NoRelease
  BY <1>1, <1>3 DEF Trial, Resolved
<1>6. Trial \in Answered /\ Answered' = Answered /\ Tried' = Tried
  BY <1>1, <1>2, <1>5 DEF WatchdogConfirms, Answered, Tried, Installed
<1> QED
  BY <1>4, <1>5, <1>6 DEF Undertaking!Next, Undertaking!Accept, Tried, Answered

(* A rollback that succeeds gives the trial up, one that fails leaves it open. *)
LEMMA OutcomeDeploys ==
    ASSUME Inv, Outcome, Beside
    PROVE  Undertaking!Next \/ UNCHANGED Deployed
<1>1. /\ journal \in Journals /\ journal.release # NoRelease
      /\ updater.pc # "build" /\ updater'.pc # "build"
  BY Names DEF Outcome, Inv, Control, JournalSound, UpdaterControl, Phase, Resolved
<1>2. installer' = InstallerOff /\ left' = left
  BY NoScriptBeside DEF Outcome, Beside, outside
<1>3. Answered' = Answered /\ Tried' = Tried
  BY <1>1, <1>2 DEF Outcome, history, Answered, Tried, Installed
<1>4. Committed = journal.previous /\ Trial = journal.release
  BY DEF Outcome, Committed, Trial, Resolved
<1>5. journal'.previous = journal.previous /\ journal'.release = journal.release
  BY <1>1 DEF Outcome, Journals
<1>6. CASE Phase' = "rollback_failed"
  <2>1. Committed' = Committed /\ Trial' = Trial
    BY <1>4, <1>5, <1>6 DEF Committed, Trial, Resolved
  <2> QED
    BY <1>3, <2>1 DEF Deployed
<1>7. CASE Phase' = "rolled_back"
  <2>1. Committed' = Committed /\ Trial' = NoRelease
    BY <1>2, <1>4, <1>7 DEF Outcome, Committed, Trial, InstallerOff, Resolved
  <2> QED
    BY <1>1, <1>3, <1>4, <2>1 DEF Undertaking!Next, Undertaking!Reject, Tried, Answered
<1> QED
  BY <1>6, <1>7 DEF Outcome

(* Marking the journal within an open attempt changes neither release.        *)
LEMMA MarkDeploys ==
    ASSUME Inv, MarkAwaiting \/ ActivationFails \/ MarkRollback, Beside
    PROVE  UNCHANGED Deployed
<1> USE DEF Phase, Resolved, Unresolved
<1>1. /\ Phase \notin Resolved /\ journal \in Journals
      /\ UNCHANGED <<built, good, earned, left>>
  BY DEF MarkAwaiting, ActivationFails, MarkRollback, UpdaterAt, WatchdogAt, UpdaterControl,
         WatchdogControl, JournalSound, Inv, Control, history, Beside, outside
<1>2. /\ Phase' \notin Resolved
      /\ journal'.previous = journal.previous /\ journal'.release = journal.release
  BY <1>1 DEF MarkAwaiting, ActivationFails, MarkRollback, Journals
<1>3. updater.pc # "build" /\ updater'.pc # "build"
  BY <1>1 DEF MarkAwaiting, ActivationFails, MarkRollback, UpdaterAt, Inv, Control,
              UpdaterControl, Types, Shape, SignedUpdaters
<1> QED
  BY <1>1, <1>2, <1>3 DEF Deployed, Committed, Trial, Tried, Answered, Installed

(* The rest of Update moves neither release and uses up no version.           *)
LEMMA RestDeploys ==
    ASSUME Inv, UpdateSteps, ~Writes, ~WriteHealth, ~(UpdaterKilled /\ updater.pc = "build")
    PROVE  UNCHANGED Deployed
<1>1. journal' = journal
  BY OnlyTheseWrite DEF InstallerNext
<1>2. UNCHANGED <<Committed, Trial>>
  BY <1>1, UnwrittenCommits
<1>3. UNCHANGED <<good, earned, left>>
  BY DEF UpdateSteps, outside, history, Writes, SignedUpdate, UpdaterStarts, UpdaterStep,
         UpdaterKilled, BuildFails, LinkPrevious, LinkCurrent, UpdaterRestarts, ActivationOk,
         UndoLink, UndoRestart, UndoHolds, UndoFails, WatchdogStarts, WatchdogStep,
         WatchdogLooks, WatchdogIdentifies, WatchdogWaits, WatchdogGivesUp, Relink,
         WatchdogRestarts, RollbackHolds, RollbackFails, RetryRollback, WatchdogKilled,
         ReadJournal, ServiceCrashes, SystemdStarts, ServiceStarts, Tick
<1>4. Installed' = Installed
  <2>1. CASE SignedUpdate
    BY <2>1 DEF SignedUpdate, UpdaterStarts, Installed
  <2>2. CASE BuildFails
    BY <2>2 DEF BuildFails, Installed, UpdaterOff
  <2>3. CASE \/ LinkPrevious \/ LinkCurrent \/ UpdaterRestarts \/ ActivationOk
             \/ UndoLink \/ UndoRestart \/ UndoHolds \/ UndoFails \/ UpdaterKilled
    <3>1. updater \in SignedUpdaters
      BY DEF Inv, Types, Shape
    <3>2. CASE UndoHolds \/ UndoFails
      BY <3>1, <3>2 DEF UndoHolds, UndoFails, SignedUpdaters, files, Installed
    <3>3. CASE ~(UndoHolds \/ UndoFails)
      <4>1. updater.pc # "build" /\ updater'.pc # "build" /\ built' = built
        BY <2>3, <3>1, <3>3
          DEF LinkPrevious, LinkCurrent, UpdaterRestarts, ActivationOk, UndoLink,
              UndoRestart, UpdaterKilled, UpdaterAt, UpdaterOff, files, SignedUpdaters
      <4> QED
        BY <4>1 DEF Installed
    <3> QED
      BY <3>2, <3>3
  <2>4. CASE ~SignedUpdate /\ ~UpdaterStep /\ ~UpdaterKilled
    BY <2>4 DEF UpdateSteps, Writes, files, Installed, WatchdogStarts, WatchdogStep,
                WatchdogLooks, WatchdogIdentifies, WatchdogWaits, WatchdogGivesUp, Relink,
                WatchdogRestarts, RollbackHolds, RollbackFails, RetryRollback,
                WatchdogKilled, ReadJournal, ServiceCrashes, SystemdStarts, ServiceStarts,
                Tick
  <2> QED
    BY <2>1, <2>2, <2>3, <2>4 DEF UpdaterStep, Writes
<1> QED
  BY <1>2, <1>3, <1>4 DEF Deployed, Tried, Answered

LEMMA UpdateDeploys ==
    ASSUME Inv, SettledServes, UpdateSteps
    PROVE  Undertaking!Next \/ UNCHANGED Deployed
<1>1. Beside
  BY DEF UpdateSteps, Beside
<1>2. CASE Begin
  BY <1>1, <1>2, BeginDeploys
<1>3. CASE UpdaterKilled /\ updater.pc = "build"
  BY <1>1, <1>3, KilledDeploys
<1>4. CASE WriteHealth
  BY <1>1, <1>4, ContactDeploys
<1>5. CASE WatchdogConfirms
  BY <1>1, <1>5, ConfirmDeploys
<1>6. CASE UndoEnds \/ RollbackEnds
  BY <1>1, <1>6, UndoEndsOutcome, RollbackEndsOutcome, OutcomeDeploys
<1>7. CASE MarkAwaiting \/ ActivationFails \/ MarkRollback
  BY <1>1, <1>7, MarkDeploys
<1>8. CASE ~Writes /\ ~WriteHealth /\ ~(UpdaterKilled /\ updater.pc = "build")
  BY <1>8, RestDeploys
<1> QED
  BY <1>2, <1>3, <1>4, <1>5, <1>6, <1>7, <1>8 DEF Writes

(* The scripts add and remove directories of their own only.                  *)
LEMMA ScriptTries ==
    ASSUME updater' = updater, \A r \in Signed : r \in built' <=> r \in built
    PROVE  Tried' = Tried
BY DEF Tried, Installed

(* A run.sh that is complete commits the device to its release.               *)
LEMMA CompletionDeploys == ASSUME Inv, InstallCompletes PROVE Undertaking!Next
<1> DEFINE b == installer.release
<1>1. /\ installer.pc = "complete" /\ current = b /\ b # NoRelease
  BY DEF InstallCompletes, Inv, Control, InstallerControl
<1>2. b \in Bootstraps /\ Phase \in Resolved
  BY <1>1 DEF Inv, Types, InstallerTypeOK, Control, InstallerControl
<1>3. Tried' = Tried
  BY DEF InstallCompletes, LeaveBy, Tried, Installed
<1>4. Trial = NoRelease /\ Trial' = NoRelease
  BY <1>2 DEF InstallCompletes, Trial, Phase
<1>5. Committed' = b
  BY <1>1, <1>2 DEF InstallCompletes, LeaveBy, Committed, InstallerOff, Phase
<1>6. Answered' = Answered \cup {b}
  BY DEF InstallCompletes, Answered
<1>7. Undertaking!Install(b)
  BY <1>3, <1>4, <1>5, <1>6 DEF Undertaking!Install, Tried, Answered
<1> QED
  BY <1>2, <1>7 DEF Undertaking!Next

(* So does one that is killed between its switch and its end; killed before,  *)
(* or in a trap that has undone the switch, it changes nothing.               *)
LEMMA LeftDeploys ==
    ASSUME Inv, UNCHANGED <<current, journal, good, earned>>, Tried' = Tried,
           installer' = InstallerOff, left' = left \cup Leftover
    PROVE  Undertaking!Next \/ UNCHANGED Deployed
<1>1. Trial' = Trial
  BY DEF Trial, Phase
<1>2. CASE installer.pc # "off" /\ current = installer.release
  <2> DEFINE b == installer.release
  <2>1. b # NoRelease
    BY <1>2, Names DEF Inv, Types, InstallerTypeOK, Control, InstallerControl
  <2>2. b \in Bootstraps /\ Phase \in Resolved
    BY <2>1 DEF Inv, Types, InstallerTypeOK, Control, InstallerControl
  <2>3. Trial = NoRelease /\ Committed' = b /\ Answered' = Answered \cup {b}
    BY <1>2, <2>2 DEF Trial, Committed, InstallerOff, Phase, Answered, Leftover
  <2>4. Undertaking!Install(b)
    BY <1>1, <2>3 DEF Undertaking!Install, Tried, Answered
  <2> QED
    BY <2>2, <2>4 DEF Undertaking!Next
<1>3. CASE ~(installer.pc # "off" /\ current = installer.release)
  <2>1. Answered' = Answered
    BY <1>3 DEF Answered, Leftover
  <2>2. Committed' = Committed
    <3>1. CASE Phase \notin Resolved
      BY <3>1 DEF Committed, Phase
    <3>2. CASE Phase \in Resolved
      <4>1. Committed = current
        BY <1>3, <3>2, NoScriptCommits DEF Committed, Inv, Control, InstallerControl
      <4>2. Committed' = current'
        BY <3>2 DEF Committed, InstallerOff, Phase
      <4> QED
        BY <4>1, <4>2
    <3> QED
      BY <3>1, <3>2
  <2> QED
    BY <1>1, <2>1, <2>2 DEF Deployed
<1> QED
  BY <1>2, <1>3

LEMMA InstallerKilledDeploys ==
    ASSUME Inv, InstallerKilled PROVE Undertaking!Next \/ UNCHANGED Deployed
<1>1. Tried' = Tried
  BY DEF InstallerKilled, files, Tried, Installed
<1> QED
  BY <1>1, LeftDeploys DEF InstallerKilled, files, history

LEMMA PowerCycleDeploys ==
    ASSUME Inv, PowerCycle PROVE Undertaking!Next \/ UNCHANGED Deployed
<1>1. CASE updater.pc = "build"
  BY <1>1, KilledDeploys
<1>2. CASE updater.pc # "build"
  <2>1. Tried' = Tried
    BY <1>2 DEF PowerCycle, Reboot, files, Tried, Installed, UpdaterOff
  <2> QED
    BY <2>1, LeftDeploys DEF PowerCycle, Reboot, files, history
<1> QED
  BY <1>1, <1>2

(* Every other step of a script, its failures and its trap included, and the  *)
(* operators change nothing the device is committed to.                       *)
LEMMA ScriptDeploys ==
    ASSUME Inv,
           \/ InstallerStep /\ ~InstallCompletes
           \/ (\E b \in Bootstraps : InstallStarts(b)) \/ ResetStarts
           \/ OperatorStops \/ OperatorStarts
    PROVE  UNCHANGED Deployed
<1> USE DEF Inv, Types, InstallerTypeOK, Control, Lockstep, InstallerControl
<1>1. UNCHANGED <<journal, updater, good, earned, left>>
  BY DEF InstallerStep, InstallBuildFails, ReadActive, StopService, Provision, KeepPrevious,
         Switch, EnableAndRestart, InstallHolds, InstallFails, Recover, Resume, ResetIdentity,
         InstallStarts, ResetStarts, OperatorStops, OperatorStarts, files, history
<1>2. Trial' = Trial /\ Answered' = Answered
  BY <1>1 DEF Trial, Answered, Phase
<1>3. CASE \E b \in Bootstraps : InstallStarts(b)
  <2>1. PICK b \in Bootstraps : InstallStarts(b)
    BY <1>3
  <2>2. Tried' = Tried
    <3>1. built' = built \cup {b} /\ b \notin Signed
      BY <2>1, Names DEF InstallStarts
    <3> QED
      BY <1>1, <3>1, ScriptTries
  <2>3. current # b /\ Phase \in Resolved /\ installer = InstallerOff
    BY <2>1, Names DEF InstallStarts, Trust, CurrentIsWhole, Installed
  <2>4. Committed = current
    BY <2>3, NoScriptCommits
  <2>5. Committed' = current
    BY <2>1, <2>3 DEF InstallStarts, Committed, Phase, InstallerOff
  <2> QED
    BY <1>2, <2>2, <2>4, <2>5 DEF Deployed
<1>4. CASE InstallBuildFails \/ Resume
  <2>1. Tried' = Tried
    <3>1. built' = built \ {installer.release}
      BY <1>4 DEF InstallBuildFails, Resume, LeaveBy
    <3>2. installer.release \notin Signed
      BY Names
    <3> QED
      BY <1>1, <3>1, <3>2, ScriptTries
  <2>2. /\ installer.pc # "off" /\ installer' = InstallerOff /\ current' = current
        /\ installer.release # NoRelease => current = installer.previous
    BY <1>4 DEF InstallBuildFails, Resume, LeaveBy, Unswitched
  <2>3. Committed' = Committed
    <3>1. CASE Phase \in Resolved
      <4>1. Committed = current
        BY <2>2, <3>1, ScriptCommits
      <4>2. Committed' = current
        BY <1>1, <2>2, <3>1 DEF Committed, InstallerOff, Phase
      <4> QED
        BY <4>1, <4>2
    <3>2. CASE Phase \notin Resolved
      BY <1>1, <3>2 DEF Committed, Phase
    <3> QED
      BY <3>1, <3>2
  <2> QED
    BY <1>2, <2>1, <2>3 DEF Deployed
<1>5. CASE Switch \/ Recover
  <2>1. Tried' = Tried
    BY <1>1, <1>5 DEF Switch, Recover, InstallerAt, Tried, Installed
  <2>2. /\ installer.release # NoRelease /\ installer.pc # "off" /\ Phase \in Resolved
        /\ installer'.release = installer.release
        /\ installer'.previous = installer.previous
        /\ current' \in {installer.release, installer.previous}
    BY <1>5 DEF Switch, Recover, InstallerAt
  <2>3. Committed = installer.previous /\ Committed' = installer.previous
    BY <1>1, <2>2, ScriptCommits DEF Committed, Phase
  <2> QED
    BY <1>2, <2>1, <2>3 DEF Deployed
<1>6. CASE \/ ReadActive \/ StopService \/ Provision \/ KeepPrevious \/ EnableAndRestart
           \/ InstallHolds \/ InstallFails \/ ResetIdentity \/ ResetStarts
           \/ OperatorStops \/ OperatorStarts
  <2>1. UNCHANGED <<built, current>>
    BY <1>6 DEF ReadActive, StopService, Provision, KeepPrevious, EnableAndRestart,
                InstallHolds, InstallFails, ResetIdentity, ResetStarts, OperatorStops,
                OperatorStarts, files
  <2>2. UNCHANGED <<installer.release, installer.previous>>
    <3>1. CASE \/ Provision \/ KeepPrevious \/ EnableAndRestart \/ InstallHolds
               \/ ResetIdentity
      BY <3>1 DEF Provision, KeepPrevious, EnableAndRestart, InstallHolds, ResetIdentity,
                  InstallerAt
    <3>2. CASE ReadActive \/ StopService \/ OperatorStops \/ OperatorStarts
      BY <3>2 DEF ReadActive, StopService, OperatorStops, OperatorStarts
    <3>3. CASE InstallFails
      BY <3>3 DEF InstallFails
    <3>4. CASE ResetStarts
      BY <3>4 DEF ResetStarts, InstallerOff
    <3> QED
      BY <1>6, <3>1, <3>2, <3>3, <3>4
  <2>3. Committed' = Committed /\ Tried' = Tried
    BY <1>1, <2>1, <2>2 DEF Committed, Tried, Installed, Phase
  <2> QED
    BY <1>2, <2>3 DEF Deployed
<1> QED
  BY <1>3, <1>4, <1>5, <1>6 DEF InstallerStep

LEMMA StepsDeploy ==
    ASSUME Inv, SettledServes, [InstallerNext]_allVars
    PROVE  Undertaking!Next \/ UNCHANGED Deployed
<1>1. CASE UpdateSteps
  BY <1>1, UpdateDeploys
<1>2. CASE PowerCycle
  BY <1>2, PowerCycleDeploys
<1>3. CASE InstallerKilled
  BY <1>3, InstallerKilledDeploys
<1>4. CASE InstallCompletes
  BY <1>4, CompletionDeploys
<1>5. CASE \/ InstallerStep /\ ~InstallCompletes
           \/ (\E b \in Bootstraps : InstallStarts(b)) \/ ResetStarts
           \/ OperatorStops \/ OperatorStarts
  BY <1>5, ScriptDeploys
<1>6. CASE UNCHANGED allVars
  BY <1>6 DEF allVars, vars, outside, files, history, Deployed, Committed, Trial, Tried,
              Answered, Installed, Phase
<1> QED
  BY <1>1, <1>2, <1>3, <1>4, <1>5, <1>6 DEF InstallerNext

(* run.sh, the reset and the operators beside the signed updates implement    *)
(* Deployment: a signed release takes over only by a trial in which it        *)
(* reached the platform, one of run.sh only outside a trial and when it is    *)
(* complete or left by a kill, and a run.sh that fails commits to nothing.    *)
THEOREM Refinement == InstallerSpec => KeepsDeployment
<1>1. FreshMachine => Inv /\ RunsCurrent /\ SettledServes /\ Undertaking!Init
  <2> SUFFICES ASSUME FreshMachine
               PROVE  RunsCurrent /\ SettledServes /\ Undertaking!Init
    BY InitInv
  <2>1. SettledServes
    BY DEF FreshMachine, SettledServes, Off
  <2>2. Undertaking!Init
    BY DEF FreshMachine, Undertaking!Init, Committed, Trial, Installed, Phase, Resolved,
           NoJournal, UpdaterOff, InstallerOff
  <2> QED
    BY <2>1, <2>2, InitRunsCurrent
<1>2. Inv /\ RunsCurrent /\ SettledServes /\ [InstallerNext]_allVars
        => RunsCurrent' /\ SettledServes'
  BY RunsCurrentKept, ServesKept
<1>3. Inv /\ SettledServes /\ [InstallerNext]_allVars => [Undertaking!Next]_Undertaking!vars
  BY StepsDeploy DEF Deployed, Tried, Answered, Undertaking!vars
<1> QED
  BY <1>1, <1>2, <1>3, Invariance, PTL
    DEF InstallerSpec, KeepsDeployment, Undertaking!Spec

=============================================================================
