---------------------------- MODULE Configurator ----------------------------
(***************************************************************************)
(* configure_pi.py: technicians who inspect, reset and install one device  *)
(* from their laptops, over connections that may be lost.  The commands    *)
(* they start there run on, or end with the terminal; the device's         *)
(* deployment lock and --confirm-serial are all that they share.           *)
(*                                                                         *)
(* What run.sh and the reset do to releases, service and lock is in        *)
(* Installer; here each is begun, does its work at one moment, and ends.   *)
(***************************************************************************)
EXTENDS Integers, FiniteSets

CONSTANTS
    Technicians,
    Nobody,
    Seconds,    \* bound: readings of time.time() on the laptops
    MaxSerial   \* bound: identities the device goes through

ASSUME TechniciansAssumption == Nobody \notin Technicians
ASSUME TimesAssumption == Seconds \subseteq Nat \ {0} /\ MaxSerial \in Nat \ {0}

VARIABLES
    (* the laptops *)
    session,   \* of each technician: the locals of main
    (* the device *)
    serial,    \* of the identity, 0 before the first install
    installed, \* whose checkout is the current release
    lock,      \* whose command holds .update.lock
    remote,    \* the command started by each technician
    staging,   \* deploy-<second> in the home directory: archive and tree
    (* history *)
    packedAt   \* technicians who packaged a checkout at each second

vars == <<session, serial, installed, lock, remote, staging, packedAt>>

Modes   == {"none", "soft", "factory"}
Waiting == {"reset", "run"}
Ended   == {"closed", "complete", "failed"}
Closed  == [pc |-> "closed", saw |-> 0, mode |-> "none", did |-> FALSE, second |-> 0]
Silent  == [command |-> "none", did |-> FALSE]
Empty   == [archive |-> Nobody, tree |-> Nobody]

Init ==
    /\ session = [t \in Technicians |-> Closed]
    /\ serial = 0 /\ installed = Nobody /\ lock = Nobody
    /\ remote = [t \in Technicians |-> Silent]
    /\ staging = [s \in Seconds |-> Empty] /\ packedAt = [s \in Seconds |-> {}]

(* Mutant: one staging directory for all. *)
OneDirectory(second) == CHOOSE s \in Seconds : TRUE

(* deploy-{int(time.time())} *)
Directory(second) == second

At(t, pc)      == session[t].pc = pc
Goes(t, pc)    == session' = [session EXCEPT ![t].pc = pc]
Returns(t, st) == session' = [session EXCEPT ![t].pc = IF st = 0 THEN "complete" ELSE "failed"]

-----------------------------------------------------------------------------
(* Inspecting: nothing changes on the device. *)

Connect(t) ==
    /\ session[t].pc \in Ended /\ remote[t] = Silent
    /\ session' = [session EXCEPT ![t] = [Closed EXCEPT !.pc = "check"]]
    /\ UNCHANGED <<serial, installed, lock, remote, staging, packedAt>>

(* Any status but 0 is taken for a first install, a lost channel's -1 too. *)
CheckExistingInstall(t) ==
    /\ At(t, "check")
    /\ \/ serial # 0 /\ Goes(t, "identity")
       \/ Goes(t, "package")
    /\ UNCHANGED <<serial, installed, lock, remote, staging, packedAt>>

FetchRemoteIdentity(t) ==
    /\ At(t, "identity")
    /\ \/ session' = [session EXCEPT ![t].pc = "ask", ![t].saw = serial]
       \/ Returns(t, 1)
    /\ UNCHANGED <<serial, installed, lock, remote, staging, packedAt>>

(* A factory reset that is not confirmed becomes none; the serial typed again is *)
(* compared with the one that was read.                                          *)
Choose(t) ==
    /\ At(t, "ask")
    /\ \E mode \in Modes :
          session' = [session EXCEPT ![t].pc = IF mode = "none" THEN "package" ELSE "ask_reset",
                                     ![t].mode = mode]
    /\ UNCHANGED <<serial, installed, lock, remote, staging, packedAt>>

-----------------------------------------------------------------------------
(* Commands on the device that change it. *)

(* flock -n 9: whoever comes second leaves with status 1. *)
Begin(t, asked, command) ==
    /\ At(t, asked)
    /\ IF lock = Nobody
       THEN /\ lock' = t /\ remote' = [remote EXCEPT ![t] = [Silent EXCEPT !.command = command]]
            /\ Goes(t, command)
       ELSE Returns(t, 1) /\ UNCHANGED <<lock, remote>>
    /\ UNCHANGED <<serial, installed, staging, packedAt>>

BeginReset(t) == Begin(t, "ask_reset", "reset")
BeginRun(t)   == Begin(t, "start", "run")

Running(t, command) == remote[t].command = command /\ ~remote[t].did
Done(t) == remote' = [remote EXCEPT ![t].did = TRUE]

(* Mutant: reset without --confirm-serial. *)
Unconfirmed(t) == TRUE

Confirmed(t) == session[t].saw = serial

(* The device compares --confirm-serial with the identity it has now. *)
Reset(t) ==
    /\ Running(t, "reset") /\ Confirmed(t) /\ Done(t)
    /\ session[t].mode = "factory" => serial < MaxSerial
    /\ serial' = IF session[t].mode = "factory" THEN serial + 1 ELSE serial
    /\ UNCHANGED <<session, installed, lock, staging, packedAt>>

(* run.sh copies the tree it was started in, and creates the first identity. *)
Install(t) ==
    /\ Running(t, "run") /\ Done(t)
    /\ staging[Directory(session[t].second)].tree # Nobody
    /\ installed' = staging[Directory(session[t].second)].tree
    /\ serial' = IF serial = 0 THEN 1 ELSE serial
    /\ UNCHANGED <<session, lock, staging, packedAt>>

(* The status the command ends with: 0 only if it did its work.  The reset's own *)
(* trap turns a start that fails into 1; -1 stands for a channel that closed.    *)
Statuses(t) == {1, -1} \cup (IF remote[t].did THEN {0} ELSE {})

(* Mutant: a status is an error when it is greater than zero. *)
PositiveFails(status) == status > 0

ResetFails(status) == status # 0
RunFails(status)   == status # 0

AfterReset(t, status) ==
    IF ResetFails(status) THEN Returns(t, status)
    ELSE session' = [session EXCEPT ![t].pc = "package", ![t].did = remote[t].did]

AfterRun(t, status) ==
    IF RunFails(status) THEN Returns(t, status)
    ELSE session' = [session EXCEPT ![t].pc = "cleanup", ![t].did = remote[t].did]

(* The command is over, or was killed: run_remote_streaming returns, when there  *)
(* is still somebody who waits for it.                                           *)
CommandEnds(t) ==
    /\ remote[t].command # "none"
    /\ remote' = [remote EXCEPT ![t] = Silent] /\ lock' = Nobody
    /\ IF session[t].pc \in Waiting
       THEN \E status \in Statuses(t) :
               IF At(t, "reset") THEN AfterReset(t, status) ELSE AfterRun(t, status)
       ELSE UNCHANGED session
    /\ UNCHANGED <<serial, installed, staging, packedAt>>

(* The channel closes and the command goes on by itself; a technician who is     *)
(* told so, by -1, is at the end.                                                *)
ChannelCloses(t) ==
    /\ session[t].pc \in Waiting
    /\ IF At(t, "reset") THEN AfterReset(t, -1) ELSE AfterRun(t, -1)
    /\ UNCHANGED <<serial, installed, lock, remote, staging, packedAt>>

(* Anywhere else a lost connection is an exception, and so is a failing upload.  *)
ConnectionLost(t) ==
    /\ session[t].pc \notin Waiting \cup Ended
    /\ Returns(t, 1)
    /\ UNCHANGED <<serial, installed, lock, remote, staging, packedAt>>

-----------------------------------------------------------------------------
(* Staging the checkout. *)

Package(t) ==
    /\ At(t, "package")
    /\ \E s \in Seconds :
          /\ session' = [session EXCEPT ![t].pc = "extract", ![t].second = s]
          /\ staging' = [staging EXCEPT ![Directory(s)].archive = t]
          /\ packedAt' = [packedAt EXCEPT ![s] = @ \cup {t}]
    /\ UNCHANGED <<serial, installed, lock, remote>>

(* rm -rf, tar xzf, rm -f; without an archive nothing but an empty tree is left. *)
Extract(t) ==
    LET s == Directory(session[t].second)
    IN  /\ At(t, "extract")
        /\ IF staging[s].archive = Nobody THEN Returns(t, 1) ELSE Goes(t, "start")
        /\ staging' = [staging EXCEPT ![s] = [archive |-> Nobody, tree |-> staging[s].archive]]
        /\ UNCHANGED <<serial, installed, lock, remote, packedAt>>

(* On success only: the staging directory goes, and main returns 0. *)
Cleanup(t) ==
    /\ At(t, "cleanup") /\ Returns(t, 0)
    /\ staging' = [staging EXCEPT ![Directory(session[t].second)] = Empty]
    /\ UNCHANGED <<serial, installed, lock, remote, packedAt>>

-----------------------------------------------------------------------------
Next == \E t \in Technicians :
    \/ Connect(t) \/ CheckExistingInstall(t) \/ FetchRemoteIdentity(t) \/ Choose(t)
    \/ BeginReset(t) \/ BeginRun(t) \/ Reset(t) \/ Install(t) \/ CommandEnds(t) \/ ChannelCloses(t)
    \/ ConnectionLost(t) \/ Package(t) \/ Extract(t) \/ Cleanup(t)

Spec == Init /\ [][Next]_vars

-----------------------------------------------------------------------------
(* Each variable has its shape, and the lock belongs to the one command that     *)
(* runs, whether or not somebody still waits for it.                             *)
TypeOK ==
    /\ session \in [Technicians -> [pc : {"closed", "check", "identity", "ask", "ask_reset", "reset",
                                         "package", "extract", "start", "run", "cleanup",
                                         "complete", "failed"},
                                   saw : 0..MaxSerial, mode : Modes, did : BOOLEAN,
                                   second : {0} \cup Seconds]]
    /\ serial \in 0..MaxSerial /\ installed \in Technicians \cup {Nobody}
    /\ lock \in Technicians \cup {Nobody}
    /\ remote \in [Technicians -> [command : {"none", "reset", "run"}, did : BOOLEAN]]
    /\ staging \in [Seconds -> [archive : Technicians \cup {Nobody}, tree : Technicians \cup {Nobody}]]
    /\ packedAt \in [Seconds -> SUBSET Technicians]
    /\ \A t \in Technicians : remote[t].command # "none" <=> lock = t

(* Several technicians may be shown one identity and confirm that it be erased:  *)
(* one of them gets through.  The others, whose command finds the identity that  *)
(* came after, or whose channel closed, are stopped and configure nothing.       *)
PastErasure(t) ==
    /\ session[t].pc \in {"package", "extract", "start", "run", "cleanup", "complete"}
    /\ session[t].mode = "factory"
ErasedOnce ==
    \A t, u \in Technicians :
        t # u /\ PastErasure(t) /\ PastErasure(u) => session[t].saw # session[u].saw

(* "It never silently proceeds to reconfigure a device whose reset did not       *)
(* actually happen", also when the status of the reset never arrives.            *)
NoReconfigureAfterFailedReset ==
    \A t \in Technicians :
        session[t].pc \in {"package", "extract", "start"} /\ session[t].mode # "none" => session[t].did

(* Only a run.sh that did its work is followed by the summary and status 0.      *)
SummaryFollowsInstall == \A t \in Technicians : session[t].pc = "cleanup" => session[t].did

(* Nothing follows a command that did not do its work, or of which nobody knows. *)
OnlySuccessIsFollowed == NoReconfigureAfterFailedReset /\ SummaryFollowsInstall

(* A device gets the checkout of the laptop whose run.sh is at work, unless two  *)
(* laptops packaged theirs in the same second: these share a staging directory,  *)
(* and nothing in the code keeps them apart.                                     *)
InstallsOwnCheckout ==
    [][\A t \in Technicians :
          remote[t].command = "run" /\ ~remote[t].did /\ remote'[t].did
          /\ packedAt[session[t].second] = {t} => installed' = t]_vars

=============================================================================
