---------------------------- MODULE UpdateProofs ----------------------------
(***************************************************************************)
(* Proofs about module Update, for every set of releases, pids and boot    *)
(* ids and every number of faults: type correctness, that only a release   *)
(* with evidence of its own becomes trusted, that a settled attempt leaves *)
(* a trusted release active, and that Update implements Deployment.        *)
(***************************************************************************)
EXTENDS Update, TLAPS

(* One program at a time: whoever is at work holds the lock. *)
Lockstep ==
    /\ lock = "updater" <=> updater.pc # "off"
    /\ lock = "watchdog" <=> watchdog.pc # "off"

(* What a journal names, besides the phase. *)
JournalSound ==
    Phase # "idle" => /\ journal \in Journals
                      /\ journal.attempt = journal.release
                      /\ journal.previous # journal.release
                      /\ journal.release # Bootstrap

(* Where the updater is says how far the switch has come. *)
UpdaterControl ==
    /\ updater.pc # "off" => updater.release \in built
    /\ updater.pc = "build" => Phase \in Resolved
    /\ updater.pc \notin {"off", "build"} =>
          Phase \in Unresolved /\ journal.release = updater.release
    /\ updater.pc \in {"link_previous", "link_current", "mark"} => Phase = "switching"
    /\ updater.pc \in {"restart", "check"} => Phase = "awaiting_confirmation"
    /\ updater.pc \in {"undo", "undo_restart", "undo_check", "undo_settle", "undo_report"} =>
          Phase = "rolling_back"
    /\ updater.pc \in {"link_previous", "link_current", "undo_restart", "undo_check",
                       "undo_settle"} => current = journal.previous
    /\ updater.pc = "undo_settle" => updater.seen.release = current
    /\ updater.pc \in {"mark", "restart", "check"} => current = journal.release

(* Where the watchdog is says what it has found. *)
WatchdogControl ==
    /\ watchdog.pc \in {"judge", "identify", "confirm"} =>
          /\ Phase \in {"switching", "awaiting_confirmation"}
          /\ current = journal.release
          /\ journal.release \in earned
    /\ watchdog.pc = "rollback" => Phase \notin Resolved
    /\ watchdog.pc \in {"relink", "restart", "check", "settle", "report"} =>
          Phase = "rolling_back"
    /\ watchdog.pc \in {"restart", "check", "settle"} => current = journal.previous
    /\ watchdog.pc \in {"confirm", "settle"} => watchdog.seen.release = current
    /\ watchdog.pc = "confirm" => watchdog.seen.pid = watchdog.pid

(* A process that was started after the last switch runs the active release. *)
RunsCurrent ==
    /\ \/ updater.pc \in {"undo_check", "undo_settle"}
       \/ watchdog.pc \in {"judge", "identify", "confirm", "check", "settle"}
       \/ /\ Phase \in {"switching", "awaiting_confirmation"}
          /\ current = journal.release /\ health.attempt = journal.attempt
       => (service.up => service.release = current)
    (* before the switch nobody has run the new release *)
    /\ updater.pc \in {"link_previous", "link_current"} =>
          /\ health.attempt # updater.release
          /\ service.up => service.release # updater.release

(* Evidence of an attempt, in its window, was earned in it; evidence and     *)
(* processes are of installed releases only.                                 *)
EvidenceSound ==
    /\ Phase # "idle" /\ health.attempt = journal.attempt /\ health.kernel = journal.kernel
          /\ health.observed <= journal.deadline
       => journal.attempt \in earned
    /\ health.attempt # NoRelease => health.attempt \in Installed
    /\ service.up => service.release \in Installed
    /\ service.contact = "trial" => Phase # "idle"
    /\ Bootstrap \in Installed

Control == Lockstep /\ JournalSound /\ UpdaterControl /\ WatchdogControl
Evidence == RunsCurrent /\ EvidenceSound
Trust == OnlyEarnedIsGood /\ ResolvedIsTrusted /\ RollbackTarget

Inv == TypeOK /\ Control /\ Evidence /\ Trust

-----------------------------------------------------------------------------
(* Writing a phase leaves the rest of a journal as it was. *)
LEMMA PhaseWritten ==
    ASSUME NEW j \in Journals, NEW p \in Phases, NEW k, k = [j EXCEPT !.phase = p]
    PROVE  /\ k \in Journals /\ k.phase = p
           /\ k.attempt = j.attempt /\ k.release = j.release /\ k.previous = j.previous
           /\ k.boot_before = j.boot_before /\ k.kernel = j.kernel
           /\ k.started = j.started /\ k.deadline = j.deadline
BY DEF Journals

(* A look at the service finds a release and a pid, or none. *)
LEMMA Sighting == ASSUME TypeOK PROVE Sight \in Sights /\ Unseen \in Sights
BY DEF TypeOK, Sight, Sights, Unseen

LEMMA InitInv == Init => Inv
BY ReleasesAssumption, ProcessAssumption
   DEF Init, Inv, Control, Evidence, Trust, TypeOK, Lockstep, JournalSound, UpdaterControl,
       WatchdogControl, RunsCurrent, EvidenceSound, OnlyEarnedIsGood, ResolvedIsTrusted,
       RollbackTarget, Installed, Phase, Resolved, NoJournal, NoHealth, Off, UpdaterOff, Unseen,
       WatchdogOff, Unseen, UpdaterPcs, Updaters, WatchdogPcs, Watchdogs, Sights


LEMMA UpdaterStartsInv == ASSUME Inv, NEW r \in Releases, UpdaterStarts(r) PROVE Inv'
<1> USE DEF Inv, Phase, Resolved, Unresolved, UpdaterStarts, machine, history
<1>1. TypeOK'
  <2>1. updater' \in Updaters
    BY Sighting DEF UpdaterOff, UpdaterPcs, Updaters
  <2> QED
    BY <2>1 DEF TypeOK
<1>2. Control'
  BY DEF Control, Lockstep, JournalSound, UpdaterControl, WatchdogControl
<1>3. Evidence'
  BY DEF Evidence, RunsCurrent, EvidenceSound, Installed
<1>4. Trust'
  BY DEF Trust, OnlyEarnedIsGood, ResolvedIsTrusted, RollbackTarget, Installed
<1> QED
  BY <1>1, <1>2, <1>3, <1>4

LEMMA BuildFailsInv == ASSUME Inv, BuildFails PROVE Inv'
<1> USE DEF Inv, Phase, Resolved, Unresolved, BuildFails, UpdaterOff, Unseen, machine, history
<1>1. TypeOK'
  BY DEF TypeOK, UpdaterPcs, Updaters, Sights
<1>2. Control'
  BY DEF Control, Lockstep, JournalSound, UpdaterControl, WatchdogControl
<1>3. Evidence'
  BY DEF Evidence, RunsCurrent, EvidenceSound, Installed
<1>4. Trust'
  BY DEF Trust, OnlyEarnedIsGood, ResolvedIsTrusted, RollbackTarget, Installed
<1> QED
  BY <1>1, <1>2, <1>3, <1>4

LEMMA BeginInv == ASSUME Inv, Begin PROVE Inv'
<1> USE DEF Inv, Phase, Resolved, Unresolved, Begin, UpdaterAt, machine, history
<1>1. TypeOK'
  BY TimeAssumption DEF TypeOK, UpdaterPcs, Updaters, Sights, Journals, Phases, Control,
      UpdaterControl
<1>2. Control'
  <2>1. updater.release \in Releases /\ updater.release \notin Installed /\ current \in Installed
    BY DEF Control, UpdaterControl, TypeOK, Trust, RollbackTarget, Installed
  <2>2. JournalSound'
    <3>1. journal' \in Journals
      BY <2>1, TimeAssumption DEF TypeOK, Journals, Phases
    <3>2. /\ journal'.attempt = journal'.release /\ journal'.previous # journal'.release
          /\ journal'.release # Bootstrap
      BY <2>1 DEF Evidence, EvidenceSound
    <3> QED
      BY <3>1, <3>2 DEF JournalSound
  <2>3. Lockstep' /\ WatchdogControl'
    BY DEF Control, Lockstep, WatchdogControl
  <2>4. UpdaterControl'
    BY DEF Control, UpdaterControl
  <2> QED
    BY <2>2, <2>3, <2>4 DEF Control
<1>3. Evidence'
  BY ReleasesAssumption
    DEF Evidence, RunsCurrent, EvidenceSound, Control, UpdaterControl, Installed, TypeOK
<1>4. Trust'
  BY DEF Trust, OnlyEarnedIsGood, ResolvedIsTrusted, RollbackTarget, Control,
         UpdaterControl, Installed
<1> QED
  BY <1>1, <1>2, <1>3, <1>4

LEMMA LinkPreviousInv == ASSUME Inv, LinkPrevious PROVE Inv'
<1> USE DEF Inv, Phase, Resolved, Unresolved, LinkPrevious, UpdaterAt, machine, history
<1>1. TypeOK'
  BY DEF TypeOK, UpdaterPcs, Updaters, Sights, Control, UpdaterControl
<1>2. Control'
  BY DEF Control, Lockstep, JournalSound, UpdaterControl, WatchdogControl
<1>3. Evidence'
  BY DEF Evidence, RunsCurrent, EvidenceSound, Installed
<1>4. Trust'
  BY DEF Trust, OnlyEarnedIsGood, ResolvedIsTrusted, RollbackTarget, Installed
<1> QED
  BY <1>1, <1>2, <1>3, <1>4

LEMMA LinkCurrentInv == ASSUME Inv, LinkCurrent PROVE Inv'
<1> USE DEF Inv, Phase, Resolved, Unresolved, LinkCurrent, UpdaterAt, machine, history
<1>1. TypeOK'
  BY DEF TypeOK, UpdaterPcs, Updaters, Sights, Control, UpdaterControl
<1>2. Control'
  BY DEF Control, Lockstep, JournalSound, UpdaterControl, WatchdogControl
<1>3. Evidence'
  BY DEF Evidence, RunsCurrent, EvidenceSound, Control, JournalSound, UpdaterControl,
         WatchdogControl, Installed
<1>4. Trust'
  BY DEF Trust, OnlyEarnedIsGood, ResolvedIsTrusted, RollbackTarget, Control,
         UpdaterControl, Installed
<1> QED
  BY <1>1, <1>2, <1>3, <1>4

LEMMA MarkAwaitingInv == ASSUME Inv, MarkAwaiting PROVE Inv'
<1> USE DEF Inv, Phase, Resolved, Unresolved, MarkAwaiting, UpdaterAt, machine, history
<1>0. /\ journal \in Journals /\ journal'.phase \in Phases
      /\ journal' = [journal EXCEPT !.phase = journal'.phase]
  BY DEF Control, JournalSound, UpdaterControl, Phases
<1>1. TypeOK'
  BY <1>0, PhaseWritten DEF TypeOK, UpdaterPcs, Updaters, Sights
<1>2. Control'
  BY <1>0, PhaseWritten
    DEF Control, Lockstep, JournalSound, UpdaterControl, WatchdogControl
<1>3. Evidence'
  BY <1>0, PhaseWritten
    DEF Evidence, RunsCurrent, EvidenceSound, Control, UpdaterControl, Installed
<1>4. Trust'
  BY <1>0, PhaseWritten
    DEF Trust, OnlyEarnedIsGood, ResolvedIsTrusted, RollbackTarget, Control,
        UpdaterControl, Installed
<1> QED
  BY <1>1, <1>2, <1>3, <1>4

LEMMA UpdaterRestartsInv == ASSUME Inv, UpdaterRestarts PROVE Inv'
<1> USE DEF Inv, Phase, Resolved, Unresolved, UpdaterRestarts, StartService, UpdaterAt,
            files, machine, history
<1>1. TypeOK'
  BY DEF TypeOK, UpdaterPcs, Updaters, Sights
<1>2. Control'
  BY DEF Control, Lockstep, JournalSound, UpdaterControl, WatchdogControl
<1>3. Evidence'
  BY DEF Evidence, RunsCurrent, EvidenceSound, Trust, RollbackTarget, Installed
<1>4. Trust'
  BY DEF Trust, OnlyEarnedIsGood, ResolvedIsTrusted, RollbackTarget, Installed
<1> QED
  BY <1>1, <1>2, <1>3, <1>4

LEMMA ActivationOkInv == ASSUME Inv, ActivationOk PROVE Inv'
<1> USE DEF Inv, Phase, Resolved, Unresolved, ActivationOk, UpdaterOff, Unseen, files, machine,
            history
<1>1. TypeOK'
  BY DEF TypeOK, UpdaterPcs, Updaters, Sights
<1>2. Control'
  BY DEF Control, Lockstep, JournalSound, UpdaterControl, WatchdogControl
<1>3. Evidence'
  BY DEF Evidence, RunsCurrent, EvidenceSound, Installed
<1>4. Trust'
  BY DEF Trust, OnlyEarnedIsGood, ResolvedIsTrusted, RollbackTarget, Installed
<1> QED
  BY <1>1, <1>2, <1>3, <1>4

LEMMA ActivationFailsInv == ASSUME Inv, ActivationFails PROVE Inv'
<1> USE DEF Inv, Phase, Resolved, Unresolved, ActivationFails, Fault, RestartFails,
            machine, history, Off
<1>0. /\ journal \in Journals /\ journal'.phase \in Phases
      /\ journal' = [journal EXCEPT !.phase = journal'.phase]
  BY DEF Control, JournalSound, UpdaterControl, Phases
<1>1. TypeOK'
  <2>1. updater' \in Updaters
    BY DEF TypeOK, UpdaterPcs, Updaters, Sights
  <2>2. service' \in [up : BOOLEAN, release : Releases \cup {NoRelease}, pid : Pids \cup {NoPid},
                     boot : Boots \cup {NoBoot}, contact : {"no", "plain", "trial"}]
    <3>1. CASE service' = service
      BY <3>1 DEF TypeOK
    <3>2. CASE service' = Off
      BY <3>2
    <3> QED
      BY <3>1, <3>2
  <2>3. faults' \in Nat
    BY DEF TypeOK
  <2>4. journal' \in Journals
    BY <1>0, PhaseWritten
  <2> QED
    BY <2>1, <2>2, <2>3, <2>4 DEF TypeOK
<1>2. Control'
  BY <1>0, PhaseWritten
    DEF Control, Lockstep, JournalSound, UpdaterControl, WatchdogControl
<1>3. Evidence'
  BY <1>0, PhaseWritten
    DEF Evidence, RunsCurrent, EvidenceSound, Control, UpdaterControl, Installed
<1>4. Trust'
  BY <1>0, PhaseWritten
    DEF Trust, OnlyEarnedIsGood, ResolvedIsTrusted, RollbackTarget, Control,
        UpdaterControl, Installed
<1> QED
  BY <1>1, <1>2, <1>3, <1>4

LEMMA UndoLinkInv == ASSUME Inv, UndoLink PROVE Inv'
<1> USE DEF Inv, Phase, Resolved, Unresolved, UndoLink, UpdaterAt, machine, history
<1>1. TypeOK'
  BY DEF TypeOK, UpdaterPcs, Updaters, Sights, Control, UpdaterControl, Trust, RollbackTarget
<1>2. Control'
  BY DEF Control, Lockstep, JournalSound, UpdaterControl, WatchdogControl
<1>3. Evidence'
  BY DEF Evidence, RunsCurrent, EvidenceSound, Control, UpdaterControl, WatchdogControl,
         Installed
<1>4. Trust'
  BY DEF Trust, OnlyEarnedIsGood, ResolvedIsTrusted, RollbackTarget, Control,
         UpdaterControl, Installed
<1> QED
  BY <1>1, <1>2, <1>3, <1>4

LEMMA UndoRestartInv == ASSUME Inv, UndoRestart PROVE Inv'
<1> USE DEF Inv, Phase, Resolved, Unresolved, UndoRestart, StartService, UpdaterAt,
            files, machine, history
<1>1. TypeOK'
  BY DEF TypeOK, UpdaterPcs, Updaters, Sights
<1>2. Control'
  BY DEF Control, Lockstep, JournalSound, UpdaterControl, WatchdogControl
<1>3. Evidence'
  BY DEF Evidence, RunsCurrent, EvidenceSound, Trust, RollbackTarget, Installed
<1>4. Trust'
  BY DEF Trust, OnlyEarnedIsGood, ResolvedIsTrusted, RollbackTarget, Installed
<1> QED
  BY <1>1, <1>2, <1>3, <1>4

LEMMA UndoHoldsInv == ASSUME Inv, UndoHolds PROVE Inv'
<1> USE DEF Inv, Phase, Resolved, Unresolved, UndoHolds, files, machine, history
<1>1. TypeOK'
  <2>1. Sight \in Sights /\ updater \in Updaters
    BY Sighting DEF TypeOK
  <2>2. updater' \in Updaters
    BY <2>1, Zenon DEF Updaters, UpdaterPcs
  <2> QED
    BY <2>2 DEF TypeOK
<1>2. Control'
  BY DEF Control, Lockstep, JournalSound, UpdaterControl, WatchdogControl, Evidence,
         RunsCurrent, TypeOK, Sight, Updaters
<1>3. Evidence'
  BY DEF Evidence, RunsCurrent, EvidenceSound, Installed
<1>4. Trust'
  BY DEF Trust, OnlyEarnedIsGood, ResolvedIsTrusted, RollbackTarget, Installed
<1> QED
  BY <1>1, <1>2, <1>3, <1>4

LEMMA UndoFailsInv == ASSUME Inv, UndoFails PROVE Inv'
<1> USE DEF Inv, Phase, Resolved, Unresolved, UndoFails, Fault, RestartFails, Off,
            files, machine, history
<1>0. service' \in {service, Off} /\ faults' \in Nat
  BY DEF TypeOK
<1>1. TypeOK'
  <2>1. updater' \in Updaters
    BY DEF TypeOK, UpdaterPcs, Updaters
  <2>2. service' \in [up : BOOLEAN, release : Releases \cup {NoRelease}, pid : Pids \cup {NoPid},
                     boot : Boots \cup {NoBoot}, contact : {"no", "plain", "trial"}]
    <3>1. CASE service' = service
      BY <3>1 DEF TypeOK
    <3>2. CASE service' = Off
      BY <3>2
    <3> QED
      BY <1>0, <3>1, <3>2
  <2> QED
    BY <1>0, <2>1, <2>2 DEF TypeOK
<1>2. Control'
  BY DEF Control, Lockstep, JournalSound, UpdaterControl, WatchdogControl
<1>3. Evidence'
  BY <1>0 DEF Evidence, RunsCurrent, EvidenceSound, Installed
<1>4. Trust'
  BY <1>0 DEF Trust, OnlyEarnedIsGood, ResolvedIsTrusted, RollbackTarget, Installed
<1> QED
  BY <1>1, <1>2, <1>3, <1>4

(* A rollback ends, by either program: restored, or reported as failed. *)
Outcome ==
    /\ Phase = "rolling_back" /\ Phase' \in {"rolled_back", "rollback_failed"}
    /\ journal' = [journal EXCEPT !.phase = Phase']
    /\ Phase' = "rolled_back" => /\ current = journal.previous /\ Seen.release = current
                                /\ (service.up => service.release = current)
    /\ lock' = "free" /\ updater'.pc = "off" /\ watchdog'.pc = "off"
    /\ updater' \in Updaters
    /\ watchdog' \in Watchdogs
    /\ UNCHANGED <<built, current, previous, health, service, machine, faults, history>>

LEMMA OutcomeInv == ASSUME Inv, Outcome PROVE Inv'
<1>a. /\ journal \in Journals /\ journal'.phase \in Phases
      /\ journal' = [journal EXCEPT !.phase = journal'.phase]
  BY DEF Inv, Outcome, Phase, Control, JournalSound, Phases
<1>0. /\ journal' \in Journals
      /\ journal'.attempt = journal.attempt /\ journal'.release = journal.release
      /\ journal'.previous = journal.previous
      /\ journal'.kernel = journal.kernel /\ journal'.deadline = journal.deadline
  BY <1>a, PhaseWritten
<1> USE DEF Inv, Phase, Resolved, Unresolved, Outcome, Off, machine, history
<1>1. TypeOK'
  BY <1>0 DEF TypeOK
<1>2. Control'
  BY <1>0 DEF Control, Lockstep, JournalSound, UpdaterControl, WatchdogControl
<1>3. Evidence'
  BY <1>0, ReleasesAssumption
  DEF Evidence, RunsCurrent, EvidenceSound, Control, UpdaterControl, Installed
<1>4. Trust'
  BY <1>0
  DEF Trust, OnlyEarnedIsGood, ResolvedIsTrusted, RollbackTarget, Control, UpdaterControl,
      Installed
<1> QED
  BY <1>1, <1>2, <1>3, <1>4

LEMMA UndoEndsOutcome == ASSUME Inv, UndoEnds PROVE Outcome
<1> USE DEF Inv, Phase, UndoEnds
<1>1. /\ journal \in Journals /\ Phase = "rolling_back" /\ lock = "updater"
  BY DEF Control, Lockstep, JournalSound, UpdaterControl, WatchdogControl
<1>2. PICK p \in {"rolled_back", "rollback_failed"} :
         /\ journal' = [journal EXCEPT !.phase = p]
         /\ p = "rolled_back" => updater.pc = "undo_settle"
  OBVIOUS
<1>3. Phase' = p
  BY <1>1, <1>2 DEF Journals
<1>4. updater.pc = "undo_settle" => /\ current = journal.previous /\ Seen.release = current
                              /\ (service.up => service.release = current)
  BY <1>1 DEF Control, UpdaterControl, WatchdogControl, Evidence, RunsCurrent, Seen
<1>5. /\ updater'.pc = "off" /\ updater' \in Updaters
      /\ watchdog'.pc = "off" /\ watchdog' \in Watchdogs
  BY <1>1 DEF TypeOK, Control, Lockstep, UpdaterOff, WatchdogOff, Unseen, UpdaterPcs, Updaters,
              WatchdogPcs, Watchdogs, Sights
<1> QED
  BY <1>1, <1>2, <1>3, <1>4, <1>5 DEF Outcome

LEMMA UpdaterKilledInv == ASSUME Inv, UpdaterKilled PROVE Inv'
<1> USE DEF Inv, Phase, Resolved, Unresolved, UpdaterKilled, Fault, UpdaterOff, Unseen, files,
            machine, history
<1>1. TypeOK'
  BY DEF TypeOK, UpdaterPcs, Updaters, Sights
<1>2. Control'
  BY DEF Control, Lockstep, JournalSound, UpdaterControl, WatchdogControl
<1>3. Evidence'
  BY DEF Evidence, RunsCurrent, EvidenceSound, Installed
<1>4. Trust'
  BY DEF Trust, OnlyEarnedIsGood, ResolvedIsTrusted, RollbackTarget, Installed
<1> QED
  BY <1>1, <1>2, <1>3, <1>4

LEMMA WatchdogStartsInv == ASSUME Inv, WatchdogStarts PROVE Inv'
<1> USE DEF Inv, Phase, Resolved, Unresolved, WatchdogStarts, WatchdogOff, Unseen, Interrupted,
            Confirmed, Expired, files, machine, history
<1>1. TypeOK'
  <2>1. health.pid \in Pids \cup {NoPid} /\ Expired \in BOOLEAN
    BY DEF TypeOK
  <2>2. watchdog' \in Watchdogs
    <3>1. [WatchdogOff EXCEPT !.pc = "judge", !.pid = health.pid, !.expired = Expired]
              \in Watchdogs
      BY <2>1, Zenon DEF WatchdogPcs, Watchdogs, Sights
    <3>2. [WatchdogOff EXCEPT !.pc = "rollback"]
              \in Watchdogs
      BY DEF WatchdogPcs, Watchdogs, Sights
    <3> QED
      BY <3>1, <3>2
  <2> QED
    BY <2>2 DEF TypeOK
<1>2. Control'
  BY DEF Control, Lockstep, JournalSound, UpdaterControl, WatchdogControl, Evidence,
         EvidenceSound
<1>3. Evidence'
  BY DEF Evidence, RunsCurrent, EvidenceSound, Installed
<1>4. Trust'
  BY DEF Trust, OnlyEarnedIsGood, ResolvedIsTrusted, RollbackTarget, Installed
<1> QED
  BY <1>1, <1>2, <1>3, <1>4

LEMMA WatchdogLooksInv == ASSUME Inv, WatchdogLooks PROVE Inv'
<1> USE DEF Inv, Phase, Resolved, Unresolved, WatchdogLooks, WatchdogAt, files, machine, history
<1>1. TypeOK'
  BY DEF TypeOK, WatchdogPcs, Watchdogs, Sights
<1>2. Control'
  BY DEF Control, Lockstep, JournalSound, UpdaterControl, WatchdogControl
<1>3. Evidence'
  BY DEF Evidence, RunsCurrent, EvidenceSound, Installed
<1>4. Trust'
  BY DEF Trust, OnlyEarnedIsGood, ResolvedIsTrusted, RollbackTarget, Installed
<1> QED
  BY <1>1, <1>2, <1>3, <1>4

LEMMA WatchdogIdentifiesInv == ASSUME Inv, WatchdogIdentifies PROVE Inv'
<1> USE DEF Inv, Phase, Resolved, Unresolved, WatchdogIdentifies, FromMainProcess,
            files, machine, history
<1>1. TypeOK'
  <2>1. Sight \in Sights /\ watchdog \in Watchdogs
    BY Sighting DEF TypeOK
  <2>2. watchdog' \in Watchdogs
    BY <2>1, Zenon DEF Watchdogs, WatchdogPcs
  <2> QED
    BY <2>2 DEF TypeOK
<1>2. Control'
  BY DEF Control, Lockstep, JournalSound, UpdaterControl, WatchdogControl, Evidence,
         RunsCurrent, TypeOK, Sight, Watchdogs
<1>3. Evidence'
  BY DEF Evidence, RunsCurrent, EvidenceSound, Installed
<1>4. Trust'
  BY DEF Trust, OnlyEarnedIsGood, ResolvedIsTrusted, RollbackTarget, Installed
<1> QED
  BY <1>1, <1>2, <1>3, <1>4

LEMMA WatchdogConfirmsInv == ASSUME Inv, WatchdogConfirms PROVE Inv'
<1> USE DEF Inv, Phase, Resolved, Unresolved, WatchdogConfirms, WatchdogOff, Unseen,
            machine
<1>0. /\ journal \in Journals /\ journal'.phase \in Phases
      /\ journal' = [journal EXCEPT !.phase = journal'.phase]
  BY DEF Control, JournalSound, WatchdogControl, Phases
<1>1. TypeOK'
  <2>1. good' \in SUBSET Releases
    BY <1>0 DEF TypeOK, Journals
  <2>2. journal' \in Journals
    BY <1>0, PhaseWritten
  <2>3. watchdog' \in Watchdogs
    BY DEF WatchdogPcs, Watchdogs, Sights
  <2> QED
    BY <2>1, <2>2, <2>3 DEF TypeOK
<1>2. Control'
  BY <1>0, PhaseWritten
    DEF Control, Lockstep, JournalSound, UpdaterControl, WatchdogControl
<1>3. Evidence'
  BY <1>0, PhaseWritten
    DEF Evidence, RunsCurrent, EvidenceSound, Control, WatchdogControl, Installed
<1>4. Trust'
  BY <1>0, PhaseWritten
    DEF Trust, OnlyEarnedIsGood, ResolvedIsTrusted, RollbackTarget, Control,
        WatchdogControl, Installed, Evidence, RunsCurrent
<1> QED
  BY <1>1, <1>2, <1>3, <1>4

LEMMA WatchdogWaitsInv == ASSUME Inv, WatchdogWaits PROVE Inv'
<1> USE DEF Inv, Phase, Resolved, Unresolved, WatchdogWaits, WatchdogOff, Unseen,
            Unconvinced, Fault, files, machine, history
<1>1. TypeOK'
  BY DEF TypeOK, WatchdogPcs, Watchdogs, Sights
<1>2. Control'
  BY DEF Control, Lockstep, JournalSound, UpdaterControl, WatchdogControl
<1>3. Evidence'
  BY DEF Evidence, RunsCurrent, EvidenceSound, Installed
<1>4. Trust'
  BY DEF Trust, OnlyEarnedIsGood, ResolvedIsTrusted, RollbackTarget, Installed
<1> QED
  BY <1>1, <1>2, <1>3, <1>4

LEMMA WatchdogGivesUpInv == ASSUME Inv, WatchdogGivesUp PROVE Inv'
<1> USE DEF Inv, Phase, Resolved, Unresolved, WatchdogGivesUp, WatchdogOff, Unseen,
            Unconvinced, Fault, files, machine, history
<1>1. TypeOK'
  <2>1. watchdog' \in Watchdogs
    BY DEF WatchdogPcs, Watchdogs, Sights
  <2>2. faults' \in Nat
    BY DEF TypeOK
  <2> QED
    BY <2>1, <2>2 DEF TypeOK
<1>2. Control'
  BY DEF Control, Lockstep, JournalSound, UpdaterControl, WatchdogControl
<1>3. Evidence'
  BY DEF Evidence, RunsCurrent, EvidenceSound, Installed
<1>4. Trust'
  BY DEF Trust, OnlyEarnedIsGood, ResolvedIsTrusted, RollbackTarget, Installed
<1> QED
  BY <1>1, <1>2, <1>3, <1>4

LEMMA MarkRollbackInv == ASSUME Inv, MarkRollback PROVE Inv'
<1> USE DEF Inv, Phase, Resolved, Unresolved, MarkRollback, WatchdogAt, machine, history
<1>0. /\ journal \in Journals /\ journal'.phase \in Phases
      /\ journal' = [journal EXCEPT !.phase = journal'.phase]
  BY DEF Control, JournalSound, WatchdogControl, Phases
<1>1. TypeOK'
  BY <1>0, PhaseWritten DEF TypeOK, WatchdogPcs, Watchdogs, Sights
<1>2. Control'
  BY <1>0, PhaseWritten
    DEF Control, Lockstep, JournalSound, UpdaterControl, WatchdogControl
<1>3. Evidence'
  BY <1>0, PhaseWritten
    DEF Evidence, RunsCurrent, EvidenceSound, Control, WatchdogControl, Installed
<1>4. Trust'
  BY <1>0, PhaseWritten
    DEF Trust, OnlyEarnedIsGood, ResolvedIsTrusted, RollbackTarget, Control,
        WatchdogControl, Installed
<1> QED
  BY <1>1, <1>2, <1>3, <1>4

LEMMA RelinkInv == ASSUME Inv, Relink PROVE Inv'
<1> USE DEF Inv, Phase, Resolved, Unresolved, Relink, WatchdogAt, machine, history
<1>1. TypeOK'
  BY DEF TypeOK, WatchdogPcs, Watchdogs, Sights
<1>2. Control'
  BY DEF Control, Lockstep, JournalSound, UpdaterControl, WatchdogControl
<1>3. Evidence'
  BY DEF Evidence, RunsCurrent, EvidenceSound, Control, UpdaterControl, WatchdogControl,
         Installed
<1>4. Trust'
  BY DEF Trust, OnlyEarnedIsGood, ResolvedIsTrusted, RollbackTarget, Control,
         WatchdogControl, Installed
<1> QED
  BY <1>1, <1>2, <1>3, <1>4

LEMMA WatchdogRestartsInv == ASSUME Inv, WatchdogRestarts PROVE Inv'
<1> USE DEF Inv, Phase, Resolved, Unresolved, WatchdogRestarts, StartService,
            WatchdogAt, files, machine, history
<1>1. TypeOK'
  BY DEF TypeOK, WatchdogPcs, Watchdogs, Sights
<1>2. Control'
  BY DEF Control, Lockstep, JournalSound, UpdaterControl, WatchdogControl
<1>3. Evidence'
  BY DEF Evidence, RunsCurrent, EvidenceSound, Control, UpdaterControl, WatchdogControl,
         Trust, RollbackTarget, Installed
<1>4. Trust'
  BY DEF Trust, OnlyEarnedIsGood, ResolvedIsTrusted, RollbackTarget, Installed
<1> QED
  BY <1>1, <1>2, <1>3, <1>4

LEMMA RollbackHoldsInv == ASSUME Inv, RollbackHolds PROVE Inv'
<1> USE DEF Inv, Phase, Resolved, Unresolved, RollbackHolds, files, machine, history
<1>1. TypeOK'
  <2>1. Sight \in Sights /\ watchdog \in Watchdogs
    BY Sighting DEF TypeOK
  <2>2. watchdog' \in Watchdogs
    BY <2>1, Zenon DEF Watchdogs, WatchdogPcs
  <2> QED
    BY <2>2 DEF TypeOK
<1>2. Control'
  BY DEF Control, Lockstep, JournalSound, UpdaterControl, WatchdogControl, Evidence,
         RunsCurrent, TypeOK, Sight, Watchdogs
<1>3. Evidence'
  BY DEF Evidence, RunsCurrent, EvidenceSound, Installed
<1>4. Trust'
  BY DEF Trust, OnlyEarnedIsGood, ResolvedIsTrusted, RollbackTarget, Installed
<1> QED
  BY <1>1, <1>2, <1>3, <1>4

LEMMA RollbackFailsInv == ASSUME Inv, RollbackFails PROVE Inv'
<1> USE DEF Inv, Phase, Resolved, Unresolved, RollbackFails, Fault, RestartFails, Off,
            files, machine, history
<1>0. service' \in {service, Off} /\ faults' \in Nat
  BY DEF TypeOK
<1>1. TypeOK'
  <2>1. watchdog' \in Watchdogs
    BY DEF TypeOK, WatchdogPcs, Watchdogs
  <2>2. service' \in [up : BOOLEAN, release : Releases \cup {NoRelease}, pid : Pids \cup {NoPid},
                     boot : Boots \cup {NoBoot}, contact : {"no", "plain", "trial"}]
    <3>1. CASE service' = service
      BY <3>1 DEF TypeOK
    <3>2. CASE service' = Off
      BY <3>2
    <3> QED
      BY <1>0, <3>1, <3>2
  <2> QED
    BY <1>0, <2>1, <2>2 DEF TypeOK
<1>2. Control'
  BY DEF Control, Lockstep, JournalSound, UpdaterControl, WatchdogControl
<1>3. Evidence'
  BY <1>0 DEF Evidence, RunsCurrent, EvidenceSound, Installed
<1>4. Trust'
  BY <1>0 DEF Trust, OnlyEarnedIsGood, ResolvedIsTrusted, RollbackTarget, Installed
<1> QED
  BY <1>1, <1>2, <1>3, <1>4

LEMMA RollbackEndsOutcome == ASSUME Inv, RollbackEnds PROVE Outcome
<1> USE DEF Inv, Phase, RollbackEnds
<1>1. /\ journal \in Journals /\ Phase = "rolling_back" /\ lock = "watchdog"
  BY DEF Control, Lockstep, JournalSound, UpdaterControl, WatchdogControl
<1>2. PICK p \in {"rolled_back", "rollback_failed"} :
         /\ journal' = [journal EXCEPT !.phase = p]
         /\ p = "rolled_back" => watchdog.pc = "settle"
  OBVIOUS
<1>3. Phase' = p
  BY <1>1, <1>2 DEF Journals
<1>4. watchdog.pc = "settle" => /\ current = journal.previous /\ Seen.release = current
                              /\ (service.up => service.release = current)
  BY <1>1 DEF Control, UpdaterControl, WatchdogControl, Evidence, RunsCurrent, Seen
<1>5. /\ updater'.pc = "off" /\ updater' \in Updaters
      /\ watchdog'.pc = "off" /\ watchdog' \in Watchdogs
  BY <1>1 DEF TypeOK, Control, Lockstep, UpdaterOff, WatchdogOff, Unseen, UpdaterPcs, Updaters,
              WatchdogPcs, Watchdogs, Sights
<1> QED
  BY <1>1, <1>2, <1>3, <1>4, <1>5 DEF Outcome

LEMMA RetryRollbackInv == ASSUME Inv, RetryRollback PROVE Inv'
<1> USE DEF Inv, Phase, Resolved, Unresolved, RetryRollback, WatchdogOff, Unseen, files,
            machine, history
<1>1. TypeOK'
  <2>1. watchdog' \in Watchdogs
    BY DEF WatchdogPcs, Watchdogs, Sights
  <2> QED
    BY <2>1 DEF TypeOK
<1>2. Control'
  BY DEF Control, Lockstep, JournalSound, UpdaterControl, WatchdogControl
<1>3. Evidence'
  BY DEF Evidence, RunsCurrent, EvidenceSound, Installed
<1>4. Trust'
  BY DEF Trust, OnlyEarnedIsGood, ResolvedIsTrusted, RollbackTarget, Installed
<1> QED
  BY <1>1, <1>2, <1>3, <1>4

LEMMA WatchdogKilledInv == ASSUME Inv, WatchdogKilled PROVE Inv'
<1> USE DEF Inv, Phase, Resolved, Unresolved, WatchdogKilled, Fault, WatchdogOff, Unseen, files,
            machine, history
<1>1. TypeOK'
  BY DEF TypeOK, WatchdogPcs, Watchdogs, Sights
<1>2. Control'
  BY DEF Control, Lockstep, JournalSound, UpdaterControl, WatchdogControl
<1>3. Evidence'
  BY DEF Evidence, RunsCurrent, EvidenceSound, Installed
<1>4. Trust'
  BY DEF Trust, OnlyEarnedIsGood, ResolvedIsTrusted, RollbackTarget, Installed
<1> QED
  BY <1>1, <1>2, <1>3, <1>4

LEMMA ReadJournalInv == ASSUME Inv, ReadJournal PROVE Inv'
<1> USE DEF Inv, Phase, Resolved, Unresolved, ReadJournal, files, machine, history
<1>1. TypeOK'
  BY DEF TypeOK
<1>2. Control'
  BY DEF Control, Lockstep, JournalSound, UpdaterControl, WatchdogControl
<1>3. Evidence'
  BY DEF Evidence, RunsCurrent, EvidenceSound, Installed
<1>4. Trust'
  BY DEF Trust, OnlyEarnedIsGood, ResolvedIsTrusted, RollbackTarget, Installed
<1> QED
  BY <1>1, <1>2, <1>3, <1>4

LEMMA WriteHealthInv == ASSUME Inv, WriteHealth PROVE Inv'
<1> USE DEF Inv, Phase, Resolved, Unresolved, WriteHealth, files, machine
<1>1. TypeOK'
  <2>1. health' \in [attempt : Releases \cup {NoRelease}, release : Releases \cup {NoRelease},
                    boot : Boots \cup {NoBoot}, pid : Pids \cup {NoPid}, kernel : Nat,
                    observed : Nat]
    BY DEF TypeOK
  <2>2. service' \in [up : BOOLEAN, release : Releases \cup {NoRelease}, pid : Pids \cup {NoPid},
                     boot : Boots \cup {NoBoot}, contact : {"no", "plain", "trial"}]
    BY DEF TypeOK
  <2>3. earned' \in SUBSET Releases
    BY DEF TypeOK, Journals, Evidence, EvidenceSound, Control, JournalSound
  <2> QED
    BY <2>1, <2>2, <2>3 DEF TypeOK
<1>2. Control'
  BY DEF Control, Lockstep, JournalSound, UpdaterControl, WatchdogControl
<1>3. Evidence'
  BY ReleasesAssumption
    DEF Evidence, RunsCurrent, EvidenceSound, Control, JournalSound, UpdaterControl,
        Installed, Journals
<1>4. Trust'
  BY DEF Trust, OnlyEarnedIsGood, ResolvedIsTrusted, RollbackTarget, Installed
<1> QED
  BY <1>1, <1>2, <1>3, <1>4

LEMMA ServiceCrashesInv == ASSUME Inv, ServiceCrashes PROVE Inv'
<1> USE DEF Inv, Phase, Resolved, Unresolved, ServiceCrashes, Fault, Off, files,
            machine, history
<1>1. TypeOK'
  BY DEF TypeOK
<1>2. Control'
  BY DEF Control, Lockstep, JournalSound, UpdaterControl, WatchdogControl
<1>3. Evidence'
  BY DEF Evidence, RunsCurrent, EvidenceSound, Installed
<1>4. Trust'
  BY DEF Trust, OnlyEarnedIsGood, ResolvedIsTrusted, RollbackTarget, Installed
<1> QED
  BY <1>1, <1>2, <1>3, <1>4

LEMMA ServiceStartsInv == ASSUME Inv, ServiceStarts PROVE Inv'
<1> USE DEF Inv, Phase, Resolved, Unresolved, ServiceStarts, StartService, files,
            machine, history
<1>1. TypeOK'
  BY DEF TypeOK
<1>2. Control'
  BY DEF Control, Lockstep, JournalSound, UpdaterControl, WatchdogControl
<1>3. Evidence'
  BY DEF Evidence, RunsCurrent, EvidenceSound, Control, JournalSound, UpdaterControl,
         Trust, RollbackTarget, Installed
<1>4. Trust'
  BY DEF Trust, OnlyEarnedIsGood, ResolvedIsTrusted, RollbackTarget, Installed
<1> QED
  BY <1>1, <1>2, <1>3, <1>4

LEMMA TickInv == ASSUME Inv, Tick PROVE Inv'
<1> USE DEF Inv, Phase, Resolved, Unresolved, Tick, files, history
<1>1. TypeOK'
  BY DEF TypeOK
<1>2. Control'
  BY DEF Control, Lockstep, JournalSound, UpdaterControl, WatchdogControl
<1>3. Evidence'
  BY DEF Evidence, RunsCurrent, EvidenceSound, Installed
<1>4. Trust'
  BY DEF Trust, OnlyEarnedIsGood, ResolvedIsTrusted, RollbackTarget, Installed
<1> QED
  BY <1>1, <1>2, <1>3, <1>4

LEMMA RebootInv == ASSUME Inv, Reboot PROVE Inv'
<1> USE DEF Inv, Phase, Resolved, Unresolved, Reboot, Fault, Off, UpdaterOff, Unseen,
            WatchdogOff, Unseen, files, history
<1>1. TypeOK'
  BY DEF TypeOK, UpdaterPcs, Updaters, WatchdogPcs, Watchdogs, Sights
<1>2. Control'
  BY DEF Control, Lockstep, JournalSound, UpdaterControl, WatchdogControl
<1>3. Evidence'
  BY DEF Evidence, RunsCurrent, EvidenceSound, Installed
<1>4. Trust'
  BY DEF Trust, OnlyEarnedIsGood, ResolvedIsTrusted, RollbackTarget, Installed
<1> QED
  BY <1>1, <1>2, <1>3, <1>4

LEMMA NextInv == Inv /\ [Next]_vars => Inv'
<1> SUFFICES ASSUME Inv, [Next]_vars PROVE Inv'
  OBVIOUS
<1>1. ASSUME NEW r \in Releases, UpdaterStarts(r) PROVE Inv'
  BY <1>1, UpdaterStartsInv
<1>2. CASE UpdaterNext
  BY <1>1, <1>2, BuildFailsInv, BeginInv, LinkPreviousInv, LinkCurrentInv, MarkAwaitingInv,
     UpdaterRestartsInv, ActivationOkInv, ActivationFailsInv, UndoLinkInv, UndoRestartInv,
     UndoHoldsInv, UndoFailsInv, UndoEndsOutcome, OutcomeInv, UpdaterKilledInv
  DEF UpdaterNext
<1>3. CASE WatchdogNext
  BY <1>3, WatchdogStartsInv, WatchdogLooksInv, WatchdogIdentifiesInv, WatchdogConfirmsInv,
      WatchdogWaitsInv, WatchdogGivesUpInv,
     MarkRollbackInv, RelinkInv, WatchdogRestartsInv, RollbackHoldsInv,
     RollbackFailsInv, RollbackEndsOutcome, OutcomeInv, RetryRollbackInv,
     WatchdogKilledInv
  DEF WatchdogNext
<1>4. CASE MachineNext
  BY <1>4, ReadJournalInv, WriteHealthInv, ServiceCrashesInv, ServiceStartsInv, TickInv, RebootInv
  DEF MachineNext
<1>5. CASE UNCHANGED vars
  <2> USE DEF vars, files, machine, history, Phase
  <2>1. TypeOK'
    BY <1>5 DEF Inv, TypeOK
  <2>2. Control'
    BY <1>5 DEF Inv, Control, Lockstep, JournalSound, UpdaterControl, WatchdogControl
  <2>3. Evidence'
    BY <1>5 DEF Inv, Evidence, RunsCurrent, EvidenceSound, Installed
  <2>4. Trust'
    BY <1>5 DEF Inv, Trust, OnlyEarnedIsGood, ResolvedIsTrusted, RollbackTarget, Installed
  <2> QED
    BY <2>1, <2>2, <2>3, <2>4 DEF Inv
<1> QED
  BY <1>2, <1>3, <1>4, <1>5 DEF Next

-----------------------------------------------------------------------------
(* The strengthened invariant holds in every state of every behaviour: lock,  *)
(* journal, symlinks, evidence and the places of both programs agree, after   *)
(* any kill, crash, reboot or failing command.                                *)
THEOREM Invariance == Spec => []Inv
<1>1. Init => Inv
  BY InitInv
<1>2. Inv /\ [Next]_vars => Inv'
  BY NextInv
<1> QED
  BY <1>1, <1>2, PTL DEF Spec

(* Every file and every process holds a value its code can read back.         *)
THEOREM TypeCorrectness == Spec => []TypeOK
<1>1. Inv => TypeOK
  BY DEF Inv
<1> QED
  BY <1>1, Invariance, PTL

(* recover() confirms a release only on evidence that a process of this very  *)
(* release reached the platform, in its window and in the kernel boot of its  *)
(* installation.                                                              *)
THEOREM TrustIsEarned == Spec => []OnlyEarnedIsGood
<1>1. Inv => OnlyEarnedIsGood
  BY DEF Inv, Trust
<1> QED
  BY <1>1, Invariance, PTL

(* Wherever install_update, recover or rollback was interrupted, a journal    *)
(* that asks for nothing stands beside a trusted release, on disk and running. *)
THEOREM SettledIsTrusted == Spec => []ResolvedIsTrusted
<1>1. Inv => ResolvedIsTrusted
  BY DEF Inv, Trust
<1> QED
  BY <1>1, Invariance, PTL

(* There is always a whole release to run, and a whole and trusted one to     *)
(* roll back to while an attempt is open.                                     *)
THEOREM WayBack == Spec => []RollbackTarget
<1>1. Inv => RollbackTarget
  BY DEF Inv, Trust
<1> QED
  BY <1>1, Invariance, PTL

-----------------------------------------------------------------------------
(* The steps that write the journal. *)
Writes == \/ Begin \/ MarkAwaiting \/ ActivationFails \/ UndoEnds
          \/ WatchdogConfirms \/ MarkRollback \/ RollbackEnds

LEMMA OnlyTheseWrite == [Next]_vars => Writes \/ journal' = journal
BY DEF Next, UpdaterNext, WatchdogNext, MachineNext, Writes, vars, files,
       UpdaterStarts, BuildFails, LinkPrevious, LinkCurrent, UpdaterRestarts, ActivationOk,
       UndoLink, UndoRestart, UndoHolds, UndoFails, UpdaterKilled, WatchdogStarts, WatchdogLooks,
       WatchdogIdentifies, WatchdogWaits, WatchdogGivesUp, Relink, WatchdogRestarts,
       RollbackHolds, RollbackFails, RetryRollback, WatchdogKilled, ReadJournal, WriteHealth,
       ServiceCrashes, ServiceStarts, Tick, Reboot

LEMMA WritesInOrder == ASSUME Inv, Writes, journal' # journal PROVE Phase' \in After(Phase)
<1> USE DEF Inv, Control, Phase, Resolved, Unresolved, After
<1>1. CASE Begin
  BY <1>1 DEF Begin, UpdaterAt, UpdaterControl
<1>2. ASSUME Phase # "idle", NEW p, journal' = [journal EXCEPT !.phase = p] PROVE Phase' = p
  BY <1>2 DEF JournalSound, Journals
<1>3. CASE MarkAwaiting
  BY <1>2, <1>3 DEF MarkAwaiting, UpdaterAt, UpdaterControl
<1>4. CASE ActivationFails
  BY <1>2, <1>4 DEF ActivationFails, UpdaterControl
<1>5. CASE WatchdogConfirms
  BY <1>2, <1>5 DEF WatchdogConfirms, WatchdogControl
<1>6. CASE MarkRollback
  <2>1. Phase \notin Resolved /\ Phase \in Phases
    BY <1>6 DEF MarkRollback, WatchdogAt, WatchdogControl, JournalSound, Journals
  <2>2. Phase' = "rolling_back"
    BY <1>2, <1>6, <2>1 DEF MarkRollback
  <2>3. Phase # "rolling_back"
    BY <1>6, <2>1 DEF MarkRollback, JournalSound, Journals
  <2> QED
    BY <2>1, <2>2, <2>3 DEF Phases
<1>7. CASE UndoEnds \/ RollbackEnds
  BY <1>7, UndoEndsOutcome, RollbackEndsOutcome DEF Outcome
<1> QED
  BY <1>1, <1>3, <1>4, <1>5, <1>6, <1>7 DEF Writes

(* Updater, watchdog and operator write the phases of a journal in their order, *)
(* whichever of them is killed: nothing overwrites an open attempt, and after   *)
(* the intent to roll back nothing confirms.                                    *)
THEOREM PhasesInOrder == Spec => PhaseOrder
<1>1. Inv /\ [Next]_vars => [journal' # journal => Phase' \in After(Phase)]_vars
  BY OnlyTheseWrite, WritesInOrder
<1> QED
  BY <1>1, Invariance, PTL DEF Spec, PhaseOrder

LEMMA WritesSettle ==
    ASSUME Inv, Writes, Phase \notin Resolved, Phase' \in Resolved
    PROVE  SettledOnSight /\ current \in good'
<1> USE DEF Inv, Control, Phase, Resolved, Unresolved
<1>1. ASSUME NEW p, journal' = [journal EXCEPT !.phase = p] PROVE Phase' = p
  BY <1>1 DEF JournalSound, Journals
<1>2. CASE Begin
  BY <1>2 DEF Begin, UpdaterAt, UpdaterControl
<1>3. CASE MarkAwaiting \/ ActivationFails \/ MarkRollback
  BY <1>1, <1>3 DEF MarkAwaiting, ActivationFails, MarkRollback
<1>4. CASE WatchdogConfirms
  BY <1>4 DEF WatchdogConfirms, WatchdogControl, Evidence, RunsCurrent, Lockstep,
              SettledOnSight, Seen
<1>5. CASE UndoEnds \/ RollbackEnds
  BY <1>5, UndoEndsOutcome, RollbackEndsOutcome
     DEF Outcome, Trust, RollbackTarget, history, SettledOnSight
<1> QED
  BY <1>2, <1>3, <1>4, <1>5 DEF Writes

(* recover(), rollback() and the updater's undo write an outcome only after a   *)
(* look of their own at a process of the release that is active and trusted at  *)
(* the write, for a confirmation the one whose pid the evidence holds; should   *)
(* the service die or be replaced after the look, no other release runs.        *)
THEOREM SettledRuns == Spec => SettlesRunning
<1>1. Inv /\ [Next]_vars =>
        [Phase \notin Resolved /\ Phase' \in Resolved =>
            SettledOnSight /\ current \in good']_vars
  BY OnlyTheseWrite, WritesSettle DEF Phase
<1> QED
  BY <1>1, Invariance, PTL DEF Spec, SettlesRunning

-----------------------------------------------------------------------------
(* The refinement of Deployment. *)

Mapped == <<Trusted, Trial, Installed, earned>>

(* Steps that leave the journal alone move no trial and nothing trusted. *)
LEMMA JournalKeepsTrial ==
    ASSUME Inv, [Next]_vars, journal' = journal
    PROVE  UNCHANGED <<Trusted, Trial>>
<1> USE DEF Inv, Control, Phase, Resolved, Unresolved
<1>1. current' = current \/ Phase \notin Resolved
  BY DEF Next, UpdaterNext, WatchdogNext, MachineNext, vars, files, UpdaterAt, WatchdogAt,
         UpdaterControl, WatchdogControl,
         UpdaterStarts, BuildFails, Begin, LinkPrevious, LinkCurrent, MarkAwaiting,
         UpdaterRestarts,
         ActivationOk, ActivationFails, UndoLink, UndoRestart, UndoHolds, UndoFails, UndoEnds,
         UpdaterKilled, WatchdogStarts, WatchdogLooks, WatchdogIdentifies, WatchdogConfirms,
         WatchdogWaits, WatchdogGivesUp, MarkRollback, Relink,
         WatchdogRestarts, RollbackHolds, RollbackFails, RollbackEnds, RetryRollback,
         WatchdogKilled, ReadJournal, WriteHealth,
         ServiceCrashes, ServiceStarts, Tick, Reboot
<1> QED
  BY <1>1 DEF Trusted, Trial

(* What an attempt earns, its release on trial earns. *)
LEMMA ContactRefines == ASSUME Inv, WriteHealth PROVE Promise!Next \/ UNCHANGED Mapped
<1> USE DEF Inv, Control, Phase, Resolved, Unresolved
<1>1. UNCHANGED <<Trusted, Trial, Installed>>
  BY DEF WriteHealth, Trusted, Trial, Installed, files
<1>2. CASE earned' = earned
  BY <1>1, <1>2 DEF Mapped
<1>3. CASE earned' # earned
  <2>1. /\ service.up /\ service.release = journal.attempt /\ Phase # "idle"
        /\ earned' = earned \cup {journal.attempt}
    BY <1>3 DEF WriteHealth, Evidence, EvidenceSound
  <2>2. Phase \notin Resolved
    BY <1>3, <2>1 DEF Trust, ResolvedIsTrusted, OnlyEarnedIsGood, JournalSound
  <2>3. Trial = journal.attempt /\ Trial # NoRelease
    BY <2>1, <2>2, ReleasesAssumption DEF Trial, JournalSound, Journals
  <2> QED
    BY <1>1, <2>1, <2>3 DEF Promise!Next, Promise!Contact
<1> QED
  BY <1>2, <1>3

(* Installing anew, given up or not, uses up the version. *)
LEMMA BuildRefines ==
    ASSUME Inv, Begin \/ UpdaterKilled \/ Reboot
    PROVE  Promise!Next \/ UNCHANGED Mapped
<1> USE DEF Inv, Control, Phase, Resolved, Unresolved
<1>1. UNCHANGED earned
  BY DEF Begin, UpdaterKilled, Reboot, history
<1>2. CASE updater.pc # "build"
  <2>1. UNCHANGED <<journal, current, Installed>>
    BY <1>2 DEF Begin, UpdaterAt, UpdaterKilled, Reboot, files, Installed, UpdaterOff, Unseen
  <2> QED
    BY <1>1, <2>1 DEF Mapped, Trusted, Trial
<1>3. CASE updater.pc = "build"
  <2> DEFINE r == updater.release
  <2>1. /\ r \in Releases /\ r \notin Installed /\ Trial = NoRelease /\ Trusted = current
    BY <1>3 DEF UpdaterControl, TypeOK, Installed, Trial, Trusted
  <2>2. Installed' = Installed \cup {r}
    <3>1. built' = built /\ updater'.pc # "build"
      BY <1>3 DEF Updaters, Begin, UpdaterAt, UpdaterKilled, Reboot, files, UpdaterOff, Unseen,
          TypeOK
    <3>2. Installed' = built
      BY <3>1 DEF Installed
    <3>3. built = Installed \cup {r}
      BY <1>3 DEF Installed, UpdaterControl
    <3> QED
      BY <3>2, <3>3
  <2>3. CASE Begin
    <3>1. Trial' = r /\ Trusted' = current
      BY <2>3 DEF Begin, Trial, Trusted
    <3>2. Promise!Try(r)
      BY <1>1, <2>1, <2>2, <3>1 DEF Promise!Try
    <3> QED
      BY <2>1, <3>2 DEF Promise!Next
  <2>4. CASE UpdaterKilled \/ Reboot
    <3>1. UNCHANGED <<Trial, Trusted>>
      BY <2>4 DEF UpdaterKilled, Reboot, files, Trial, Trusted
    <3>2. Promise!Abandon(r)
      BY <1>1, <2>1, <2>2, <3>1 DEF Promise!Abandon
    <3> QED
      BY <2>1, <3>2 DEF Promise!Next
  <2> QED
    BY <2>3, <2>4
<1> QED
  BY <1>2, <1>3

LEMMA ConfirmRefines == ASSUME Inv, WatchdogConfirms PROVE Promise!Next
<1> USE DEF Inv, Control, Phase, Resolved, Unresolved
<1>1. /\ Phase' = "confirmed" /\ Phase \notin Resolved
      /\ current' = current /\ current = journal.release /\ journal.release \in earned
  BY DEF WatchdogConfirms, WatchdogControl, JournalSound, Journals
<1>2. UNCHANGED <<Installed, earned>>
  BY DEF WatchdogConfirms, Installed
<1>3. Trial \in earned /\ Trusted' = Trial /\ Trial' = NoRelease
  BY <1>1 DEF Trial, Trusted
<1> QED
  BY <1>2, <1>3 DEF Promise!Next, Promise!Accept

LEMMA OutcomeRefines ==
    ASSUME Inv, Outcome, Installed' = Installed
    PROVE  Promise!Next \/ UNCHANGED Mapped
<1> USE DEF Inv, Control, Phase, Resolved, Unresolved
<1>1. /\ journal'.previous = journal.previous /\ journal'.release = journal.release
      /\ journal.release # NoRelease /\ UNCHANGED earned
  BY ReleasesAssumption DEF Outcome, JournalSound, Journals, history
<1>2. CASE Phase' = "rollback_failed"
  BY <1>1, <1>2 DEF Outcome, Mapped, Trusted, Trial
<1>3. CASE Phase' = "rolled_back"
  <2>1. Trial # NoRelease /\ Trial' = NoRelease /\ Trusted' = Trusted
    BY <1>1, <1>3 DEF Outcome, Trusted, Trial
  <2> QED
    BY <1>1, <2>1 DEF Promise!Next, Promise!Reject
<1> QED
  BY <1>2, <1>3 DEF Outcome

(* Marking the journal within an open attempt changes neither release. *)
LEMMA MarkRefines ==
    ASSUME Inv, MarkAwaiting \/ ActivationFails \/ MarkRollback
    PROVE  UNCHANGED Mapped
<1> USE DEF Inv, Control, Phase, Resolved, Unresolved
<1>1. Phase \notin Resolved /\ UNCHANGED <<built, earned>>
  BY DEF MarkAwaiting, ActivationFails, MarkRollback, UpdaterAt, WatchdogAt, UpdaterControl,
         WatchdogControl, history
<1>2. /\ Phase' \notin Resolved
      /\ journal'.previous = journal.previous /\ journal'.release = journal.release
  BY <1>1 DEF MarkAwaiting, ActivationFails, MarkRollback, JournalSound, Journals
<1>3. updater.pc # "build" /\ updater'.pc # "build"
  BY <1>1 DEF MarkAwaiting, ActivationFails, MarkRollback, UpdaterAt, UpdaterControl, TypeOK,
         Updaters
<1> QED
  BY <1>1, <1>2, <1>3 DEF Mapped, Trusted, Trial, Installed

LEMMA StepsRefine == Inv /\ [Next]_vars => [Promise!Next]_Mapped
<1> SUFFICES ASSUME Inv, [Next]_vars PROVE Promise!Next \/ UNCHANGED Mapped
  OBVIOUS
<1>1. CASE Begin \/ UpdaterKilled \/ Reboot
  BY <1>1, BuildRefines
<1>2. CASE WriteHealth
  BY <1>2, ContactRefines
<1>3. CASE WatchdogConfirms
  BY <1>3, ConfirmRefines
<1>4. CASE MarkAwaiting \/ ActivationFails \/ MarkRollback
  BY <1>4, MarkRefines
<1>5. CASE UndoEnds \/ RollbackEnds
  <2>1. Outcome
    BY <1>5, UndoEndsOutcome, RollbackEndsOutcome
  <2>2. updater.pc # "build" /\ updater'.pc # "build"
    BY <2>1 DEF Outcome, Inv, Control, UpdaterControl, Resolved
  <2>3. Installed' = Installed
    BY <2>1, <2>2 DEF Outcome, Installed
  <2> QED
    BY <2>1, <2>3, OutcomeRefines
<1>6. CASE \/ \E r \in Releases : UpdaterStarts(r)
           \/ BuildFails \/ LinkPrevious \/ LinkCurrent \/ UpdaterRestarts \/ ActivationOk
           \/ UndoLink \/ UndoRestart \/ UndoHolds \/ UndoFails
           \/ WatchdogStarts \/ WatchdogLooks \/ WatchdogIdentifies
           \/ WatchdogWaits \/ WatchdogGivesUp \/ Relink \/ WatchdogRestarts
           \/ RollbackHolds \/ RollbackFails \/ RetryRollback \/ WatchdogKilled
           \/ ReadJournal \/ ServiceCrashes \/ ServiceStarts \/ Tick \/ UNCHANGED vars
  <2>1. journal' = journal /\ earned' = earned
    BY <1>6 DEF vars, files, history,
         UpdaterStarts, BuildFails, LinkPrevious, LinkCurrent, UpdaterRestarts, ActivationOk,
         UndoLink, UndoRestart, UndoHolds, UndoFails, WatchdogStarts, WatchdogLooks,
         WatchdogIdentifies, WatchdogWaits, WatchdogGivesUp, Relink,
         WatchdogRestarts, RollbackHolds, RollbackFails, RetryRollback, WatchdogKilled,
         ReadJournal, ServiceCrashes, ServiceStarts, Tick
  <2>2. Installed' = Installed
    <3>1. CASE \E r \in Releases : UpdaterStarts(r)
      BY <3>1 DEF UpdaterStarts, Installed
    <3>2. CASE BuildFails
      BY <3>2 DEF BuildFails, Installed, UpdaterOff, Unseen
    <3>3. CASE \/ LinkPrevious \/ LinkCurrent \/ UpdaterRestarts \/ ActivationOk
               \/ UndoLink \/ UndoRestart \/ UndoHolds \/ UndoFails
      <4>0. updater \in Updaters
        BY DEF Inv, TypeOK
      <4>1. updater.pc # "build" /\ updater'.pc # "build" /\ built' = built
        <5>1. CASE UndoHolds \/ UndoFails
          BY <4>0, <5>1 DEF UndoHolds, UndoFails, Updaters, files
        <5>2. CASE ~(UndoHolds \/ UndoFails)
          BY <3>3, <4>0, <5>2
             DEF LinkPrevious, LinkCurrent, UpdaterRestarts, ActivationOk, UndoLink, UndoRestart,
                 UpdaterAt, Updaters, UpdaterOff, files
        <5> QED
          BY <5>1, <5>2
      <4> QED
        BY <4>1 DEF Installed
    <3>4. CASE \/ WatchdogStarts \/ WatchdogLooks \/ WatchdogIdentifies
               \/ WatchdogWaits \/ WatchdogGivesUp \/ Relink \/ WatchdogRestarts
               \/ RollbackHolds \/ RollbackFails \/ RetryRollback \/ WatchdogKilled
               \/ ReadJournal \/ ServiceCrashes \/ ServiceStarts \/ Tick \/ UNCHANGED vars
      BY <3>4 DEF vars, files, Installed, WatchdogStarts, WatchdogLooks, WatchdogIdentifies,
                  WatchdogWaits, WatchdogGivesUp, Relink,
                  WatchdogRestarts, RollbackHolds, RollbackFails, RetryRollback, WatchdogKilled,
                  ReadJournal, ServiceCrashes,
                  ServiceStarts, Tick
    <3> QED
      BY <1>6, <3>1, <3>2, <3>3, <3>4
  <2> QED
    BY <2>1, <2>2, JournalKeepsTrial DEF Mapped
<1> QED
  BY <1>1, <1>2, <1>3, <1>4, <1>5, <1>6 DEF Next, UpdaterNext, WatchdogNext, MachineNext

(* Updater, watchdog, service and machine together implement Deployment: the    *)
(* trusted release changes only to one that reached the platform on its trial,  *)
(* and no version is tried twice.                                               *)
THEOREM Refinement == Spec => ImplementsDeployment
<1>1. Init => Promise!Init
  BY DEF Init, Promise!Init, Trusted, Trial, Installed, Phase, Resolved, NoJournal, UpdaterOff,
           Unseen
<1>2. Inv /\ [Next]_vars => [Promise!Next]_Promise!vars
  BY StepsRefine DEF Mapped, Promise!vars
<1> QED
  BY <1>1, <1>2, Invariance, PTL DEF Spec, ImplementsDeployment, Promise!Spec

=============================================================================
