------------------------- MODULE ConfiguratorProofs -------------------------
(***************************************************************************)
(* Proofs about module Configurator, for any number of technicians:        *)
(* nothing is configured after a reset that failed or was not heard of, of *)
(* those who confirmed to erase one identity one goes on, and a device     *)
(* gets the checkout that was packaged for it.                             *)
(***************************************************************************)
EXTENDS Configurator, TLAPS

USE TechniciansAssumption, TimesAssumption

Pcs      == {"closed", "check", "identity", "ask", "ask_reset", "reset",
             "package", "extract", "start", "run", "cleanup", "complete", "failed"}
Sessions == [pc : Pcs, saw : 0..MaxSerial, mode : Modes, did : BOOLEAN, second : {0} \cup Seconds]
Remotes  == [command : {"none", "reset", "run"}, did : BOOLEAN]
Stagings == [archive : Technicians \cup {Nobody}, tree : Technicians \cup {Nobody}]

(* No reset was chosen before the serial was shown. *)
Unasked == \A t \in Technicians : session[t].pc \in {"check", "identity"} => session[t].mode = "none"

(* Whoever works on a staging directory has named one. *)
Named ==
    \A t \in Technicians :
        session[t].pc \in {"extract", "start", "run", "cleanup"} \/ remote[t].command = "run"
            => session[t].second \in Seconds

(* What a staging directory holds was packaged for it. *)
Packaged == \A s \in Seconds : {staging[s].archive, staging[s].tree} \subseteq packedAt[s] \cup {Nobody}

Inv == TypeOK /\ Unasked /\ Named /\ Packaged /\ NoReconfigureAfterFailedReset /\ SummaryFollowsInstall

(* The session of each technician alone. *)
SessionOK(t) ==
    /\ session[t].pc \in {"check", "identity"} => session[t].mode = "none"
    /\ session[t].pc \in {"extract", "start", "run", "cleanup"} \/ remote[t].command = "run"
          => session[t].second \in Seconds
    /\ session[t].pc \in {"package", "extract", "start"} /\ session[t].mode # "none" => session[t].did
    /\ session[t].pc = "cleanup" => session[t].did

DeviceOK ==
    /\ serial \in 0..MaxSerial /\ installed \in Technicians \cup {Nobody}
    /\ staging \in [Seconds -> Stagings] /\ packedAt \in [Seconds -> SUBSET Technicians]
    /\ Packaged

CommandsOK ==
    /\ lock \in Technicians \cup {Nobody} /\ remote \in [Technicians -> Remotes]
    /\ \A t \in Technicians : remote[t].command # "none" <=> lock = t

(* The invariant, part by part. *)
LEMMA InvByParts ==
    Inv <=> /\ session \in [Technicians -> Sessions] /\ \A t \in Technicians : SessionOK(t)
            /\ DeviceOK /\ CommandsOK
BY DEF Inv, TypeOK, Unasked, Named, NoReconfigureAfterFailedReset, SummaryFollowsInstall,
       SessionOK, DeviceOK, CommandsOK, Sessions, Remotes, Stagings, Pcs

(* A session begins without a serial, a choice or a directory.                   *)
LEMMA ClosedSession == Closed \in Sessions /\ Closed.pc = "closed" /\ Closed.mode = "none"
<1>1. 0 \in 0..MaxSerial
  OBVIOUS
<1> QED
  BY <1>1 DEF Closed, Sessions, Pcs, Modes

(* A step of one technician leaves the sessions of the others alone, and their  *)
(* commands too.                                                                *)
LEMMA OneSession ==
    ASSUME Inv, NEW t \in Technicians, NEW r \in Sessions, NEW c \in Remotes,
           session' = [session EXCEPT ![t] = r], remote' = [remote EXCEPT ![t] = c],
           SessionOK(t)', DeviceOK', CommandsOK'
    PROVE  Inv'
<1>1. session \in [Technicians -> Sessions] /\ remote \in [Technicians -> Remotes]
  BY InvByParts DEF CommandsOK
<1>2. session' \in [Technicians -> Sessions]
  BY <1>1
<1>3. ASSUME NEW u \in Technicians, u # t PROVE SessionOK(u)'
  <2>1. session'[u] = session[u] /\ remote'[u] = remote[u]
    BY <1>1, <1>3
  <2> QED
    BY <2>1, InvByParts DEF SessionOK
<1>4. \A u \in Technicians : SessionOK(u)'
  BY <1>3
<1> QED
  BY <1>2, <1>4, InvByParts DEF Inv, TypeOK, Unasked, Named, NoReconfigureAfterFailedReset, SummaryFollowsInstall,
       SessionOK, DeviceOK, CommandsOK, Sessions, Remotes, Stagings, Pcs

-----------------------------------------------------------------------------
(* Nothing on the device changes. *)
LEMMA DeviceAlone ==
    ASSUME Inv, UNCHANGED <<serial, installed, staging, packedAt>>
    PROVE  DeviceOK'
BY InvByParts DEF DeviceOK, Packaged, Stagings

(* The technician at the laptop; the device is only read. *)
LEMMA InspectingKeeps ==
    ASSUME Inv, NEW t \in Technicians,
           Connect(t) \/ CheckExistingInstall(t) \/ FetchRemoteIdentity(t) \/ Choose(t)
              \/ ConnectionLost(t) \/ ChannelCloses(t)
    PROVE  Inv'
<1>0. /\ session \in [Technicians -> Sessions] /\ remote \in [Technicians -> Remotes]
      /\ SessionOK(t) /\ CommandsOK /\ DeviceOK
  BY InvByParts DEF CommandsOK
<1>1. UNCHANGED <<serial, installed, lock, remote, staging, packedAt>>
  BY DEF Connect, CheckExistingInstall, FetchRemoteIdentity, Choose, ConnectionLost, ChannelCloses
<1>2. DeviceOK' /\ CommandsOK' /\ remote' = [remote EXCEPT ![t] = remote[t]] /\ remote[t] \in Remotes
  <2>1. CommandsOK'
    BY <1>0, <1>1 DEF CommandsOK
  <2> QED
    BY <1>0, <1>1, <2>1, DeviceAlone
<1>3. ASSUME NEW r \in Sessions, session' = [session EXCEPT ![t] = r],
             r.pc \in {"check", "identity"} => r.mode = "none",
             r.pc \in {"extract", "start", "run", "cleanup"} \/ remote[t].command = "run" => r.second \in Seconds,
             r.pc \in {"package", "extract", "start"} /\ r.mode # "none" => r.did,
             r.pc = "cleanup" => r.did
      PROVE  Inv'
  <2>1. session'[t] = r /\ remote' = remote
    BY <1>0, <1>1, <1>3
  <2>2. SessionOK(t)'
    BY <1>3, <2>1 DEF SessionOK
  <2> QED
    BY <1>2, <1>3, <2>2, OneSession
<1>4. ASSUME NEW pc \in {"complete", "failed"}, session' = [session EXCEPT ![t].pc = pc]
      PROVE  Inv'
  <2> DEFINE r == [session[t] EXCEPT !.pc = pc]
  <2>1. r \in Sessions /\ session' = [session EXCEPT ![t] = r] /\ r.pc = pc /\ r.second = session[t].second
    BY <1>0, <1>4 DEF Sessions, Pcs
  <2> HIDE DEF r
  <2> QED
    BY <1>0, <1>3, <2>1 DEF SessionOK
<1>5. ASSUME NEW status, Returns(t, status) PROVE Inv'
  BY <1>4, <1>5 DEF Returns
<1>6. CASE Connect(t)
  <2> DEFINE r == [Closed EXCEPT !.pc = "check"]
  <2>1. session' = [session EXCEPT ![t] = r] /\ remote[t].command = "none"
    BY <1>6 DEF Connect, Silent
  <2>2. Closed \in Sessions /\ Closed.mode = "none"
    BY ClosedSession
  <2>3. r \in Sessions /\ r.pc = "check" /\ r.mode = "none"
    BY <2>2 DEF Sessions, Pcs
  <2> HIDE DEF r
  <2> QED
    BY <1>3, <2>1, <2>3
<1>7. CASE CheckExistingInstall(t)
  <2>1. PICK pc \in {"identity", "package"} : session' = [session EXCEPT ![t].pc = pc]
    BY <1>7 DEF CheckExistingInstall, Goes
  <2> DEFINE r == [session[t] EXCEPT !.pc = pc]
  <2>2. r \in Sessions /\ session' = [session EXCEPT ![t] = r] /\ r.pc = pc
        /\ r.second = session[t].second /\ r.mode = session[t].mode
    BY <1>0, <2>1 DEF Sessions, Pcs
  <2>3. session[t].mode = "none"
    BY <1>0, <1>7 DEF CheckExistingInstall, At, SessionOK
  <2> HIDE DEF r
  <2> QED
    BY <1>0, <1>3, <2>2, <2>3 DEF SessionOK
<1>8. CASE FetchRemoteIdentity(t)
  <2>1. CASE session' = [session EXCEPT ![t].pc = "ask", ![t].saw = serial]
    <3> DEFINE r == [session[t] EXCEPT !.pc = "ask", !.saw = serial]
    <3>1. r \in Sessions /\ session' = [session EXCEPT ![t] = r] /\ r.pc = "ask"
          /\ r.second = session[t].second
      BY <1>0, <2>1 DEF Sessions, Pcs, DeviceOK
    <3> HIDE DEF r
    <3> QED
      BY <1>0, <1>3, <3>1 DEF SessionOK
  <2> QED
    BY <1>5, <1>8, <2>1 DEF FetchRemoteIdentity
<1>9. CASE Choose(t)
  <2>1. PICK mode \in Modes : session' = [session EXCEPT
            ![t].pc = IF mode = "none" THEN "package" ELSE "ask_reset", ![t].mode = mode]
    BY <1>9 DEF Choose
  <2> DEFINE r == [session[t] EXCEPT !.pc = IF mode = "none" THEN "package" ELSE "ask_reset", !.mode = mode]
  <2>2. r \in Sessions /\ session' = [session EXCEPT ![t] = r] /\ r.mode = mode
        /\ r.pc = (IF mode = "none" THEN "package" ELSE "ask_reset") /\ r.second = session[t].second
    BY <1>0, <2>1 DEF Sessions, Pcs
  <2> HIDE DEF r
  <2> QED
    BY <1>0, <1>3, <2>2 DEF SessionOK
<1>10. CASE ConnectionLost(t)
  BY <1>5, <1>10 DEF ConnectionLost
<1>11. CASE ChannelCloses(t)
  BY <1>5, <1>11 DEF ChannelCloses, AfterReset, AfterRun, ResetFails, RunFails
<1> QED
  BY <1>6, <1>7, <1>8, <1>9, <1>10, <1>11


-----------------------------------------------------------------------------
(* A command begins only while none is at work, and then has the lock.          *)
LEMMA BeginKeeps ==
    ASSUME Inv, NEW t \in Technicians, BeginReset(t) \/ BeginRun(t)
    PROVE  Inv'
<1>0. /\ session \in [Technicians -> Sessions] /\ remote \in [Technicians -> Remotes]
      /\ SessionOK(t) /\ CommandsOK /\ DeviceOK
  BY InvByParts DEF CommandsOK
<1>1. PICK asked \in {"ask_reset", "start"}, command \in {"reset", "run"} :
          Begin(t, asked, command) /\ (command = "run" => asked = "start")
  BY DEF BeginReset, BeginRun
<1>2. DeviceOK'
  BY <1>1, DeviceAlone DEF Begin
<1>3. CASE lock = Nobody
  <2> DEFINE r == [session[t] EXCEPT !.pc = command]
             c == [Silent EXCEPT !.command = command]
  <2>1. /\ session' = [session EXCEPT ![t] = r] /\ remote' = [remote EXCEPT ![t] = c] /\ lock' = t
        /\ session[t].pc = asked
    BY <1>0, <1>1, <1>3 DEF Begin, Goes, At
  <2>2. r \in Sessions /\ r.pc = command /\ r.second = session[t].second
    BY <1>0 DEF Sessions, Pcs
  <2>3. Silent \in Remotes
    BY DEF Silent, Remotes
  <2>4. c \in Remotes /\ c.command = command
    BY <2>3 DEF Remotes
  <2> HIDE DEF r, c
  <2>5. session'[t] = r /\ remote'[t] = c
    BY <1>0, <2>1
  <2>6. SessionOK(t)'
    BY <1>0, <1>1, <2>1, <2>2, <2>4, <2>5 DEF SessionOK
  <2>7. CommandsOK'
    <3>1. remote' \in [Technicians -> Remotes] /\ lock' \in Technicians \cup {Nobody}
      BY <1>0, <2>1, <2>4
    <3>2. \A u \in Technicians : remote'[u].command # "none" <=> lock' = u
      <4> SUFFICES ASSUME NEW u \in Technicians PROVE remote'[u].command # "none" <=> lock' = u
        OBVIOUS
      <4>1. CASE u = t
        BY <2>1, <2>4, <2>5, <4>1
      <4>2. CASE u # t
        BY <1>0, <1>3, <2>1, <4>2 DEF CommandsOK
      <4> QED
        BY <4>1, <4>2
    <3> QED
      BY <3>1, <3>2 DEF CommandsOK
  <2> QED
    BY <1>2, <2>1, <2>2, <2>4, <2>6, <2>7, OneSession
<1>4. CASE lock # Nobody
  <2> DEFINE r == [session[t] EXCEPT !.pc = "failed"]
  <2>1. session' = [session EXCEPT ![t] = r] /\ remote' = [remote EXCEPT ![t] = remote[t]] /\ UNCHANGED <<lock, remote>>
    BY <1>0, <1>1, <1>4 DEF Begin, Returns
  <2>2. r \in Sessions /\ r.pc = "failed" /\ r.second = session[t].second
    BY <1>0 DEF Sessions, Pcs
  <2> HIDE DEF r
  <2>3. session'[t] = r
    BY <1>0, <2>1
  <2>4. SessionOK(t)' /\ CommandsOK' /\ remote[t] \in Remotes
    BY <1>0, <2>1, <2>2, <2>3 DEF SessionOK, CommandsOK
  <2> QED
    BY <1>2, <2>1, <2>2, <2>4, OneSession
<1> QED
  BY <1>3, <1>4

(* A command does its work.                                                      *)
LEMMA WorkKeeps ==
    ASSUME Inv, NEW t \in Technicians, Reset(t) \/ Install(t)
    PROVE  Inv'
<1>0. /\ session \in [Technicians -> Sessions] /\ remote \in [Technicians -> Remotes]
      /\ SessionOK(t) /\ CommandsOK /\ DeviceOK
  BY InvByParts DEF CommandsOK
<1> DEFINE c == [remote[t] EXCEPT !.did = TRUE]
<1>1. session' = session /\ lock' = lock /\ remote' = [remote EXCEPT ![t] = c] /\ UNCHANGED <<staging, packedAt>>
  BY <1>0 DEF Reset, Install, Done
<1>2. c \in Remotes /\ c.command = remote[t].command
  BY <1>0 DEF Remotes
<1> HIDE DEF c
<1>3. remote'[t] = c
  BY <1>0, <1>1
<1>4. SessionOK(t)'
  BY <1>0, <1>1, <1>2, <1>3 DEF SessionOK
<1>5. CommandsOK'
  <2>1. \A u \in Technicians : remote'[u].command = remote[u].command
    BY <1>0, <1>1, <1>2, <1>3
  <2> QED
    BY <1>0, <1>1, <1>2, <2>1 DEF CommandsOK
<1>6. serial' \in 0..MaxSerial /\ installed' \in Technicians \cup {Nobody}
  <2>1. CASE Reset(t)
    <3>1. serial' = serial \/ (serial' = serial + 1 /\ serial < MaxSerial)
      BY <2>1 DEF Reset
    <3>2. installed' = installed
      BY <2>1 DEF Reset
    <3> QED
      BY <1>0, <3>1, <3>2 DEF DeviceOK
  <2>2. CASE Install(t)
    <3>1. session[t].second \in Seconds
      BY <1>0, <2>2 DEF Install, Running, SessionOK
    <3>2. staging[session[t].second].tree \in Technicians \cup {Nobody}
      BY <1>0, <3>1 DEF DeviceOK, Stagings
    <3>3. installed' = staging[session[t].second].tree /\ serial' \in {serial, 1}
      BY <2>2 DEF Install, Directory
    <3> QED
      BY <1>0, <3>2, <3>3 DEF DeviceOK
  <2> QED
    BY <2>1, <2>2
<1>7. DeviceOK'
  BY <1>0, <1>1, <1>6 DEF DeviceOK, Packaged
<1>8. session' = [session EXCEPT ![t] = session[t]] /\ session[t] \in Sessions
  BY <1>0, <1>1
<1> QED
  BY <1>1, <1>2, <1>4, <1>5, <1>7, <1>8, OneSession

(* The status 0 speaks of work that was done.                                    *)
LEMMA ZeroIsTrue ==
    ASSUME NEW t \in Technicians, NEW status \in Statuses(t), status = 0
    PROVE  remote[t].did
BY DEF Statuses

(* A command ends, and with it goes the lock.                                    *)
LEMMA EndKeeps ==
    ASSUME Inv, NEW t \in Technicians, CommandEnds(t)
    PROVE  Inv'
<1>0. /\ session \in [Technicians -> Sessions] /\ remote \in [Technicians -> Remotes]
      /\ SessionOK(t) /\ CommandsOK /\ DeviceOK
  BY InvByParts DEF CommandsOK
<1>1. /\ remote[t].command # "none" /\ lock' = Nobody
      /\ remote' = [remote EXCEPT ![t] = Silent] /\ UNCHANGED <<serial, installed, staging, packedAt>>
  BY DEF CommandEnds
<1>2. DeviceOK'
  BY <1>1, DeviceAlone
<1>3. Silent \in Remotes /\ Silent.command = "none" /\ remote'[t] = Silent
  BY <1>0, <1>1 DEF Silent, Remotes
<1>4. CommandsOK'
  <2>1. lock = t
    BY <1>0, <1>1 DEF CommandsOK
  <2>2. remote' \in [Technicians -> Remotes]
    BY <1>0, <1>1, <1>3
  <2>3. \A u \in Technicians : remote'[u].command = "none"
    <3> SUFFICES ASSUME NEW u \in Technicians PROVE remote'[u].command = "none"
      OBVIOUS
    <3>1. CASE u = t
      BY <1>3, <3>1
    <3>2. CASE u # t
      BY <1>0, <1>1, <2>1, <3>2 DEF CommandsOK
    <3> QED
      BY <3>1, <3>2
  <2> QED
    BY <1>1, <2>2, <2>3 DEF CommandsOK
<1>5. ASSUME NEW r \in Sessions, session' = [session EXCEPT ![t] = r],
             r.pc \in {"check", "identity"} => r.mode = "none",
             r.pc \in {"extract", "start", "run", "cleanup"} => r.second \in Seconds,
             r.pc \in {"package", "extract", "start"} /\ r.mode # "none" => r.did,
             r.pc = "cleanup" => r.did
      PROVE  Inv'
  <2>1. session'[t] = r
    BY <1>0, <1>5
  <2>2. SessionOK(t)'
    BY <1>3, <1>5, <2>1 DEF SessionOK
  <2> QED
    BY <1>1, <1>2, <1>3, <1>4, <1>5, <2>2, OneSession
<1>6. CASE session' = session
  <2>1. session' = [session EXCEPT ![t] = session[t]] /\ session[t] \in Sessions
    BY <1>0, <1>6
  <2> QED
    BY <1>0, <1>5, <2>1 DEF SessionOK
<1>7. ASSUME NEW status, Returns(t, status) PROVE Inv'
  <2>1. PICK pc \in {"complete", "failed"} : session' = [session EXCEPT ![t].pc = pc]
    BY <1>7 DEF Returns
  <2> DEFINE r == [session[t] EXCEPT !.pc = pc]
  <2>2. r \in Sessions /\ session' = [session EXCEPT ![t] = r] /\ r.pc = pc
    BY <1>0, <2>1 DEF Sessions, Pcs
  <2> HIDE DEF r
  <2> QED
    BY <1>5, <2>2
<1>8. ASSUME NEW pc \in {"package", "cleanup"}, remote[t].did,
             pc = "cleanup" => session[t].pc = "run",
             session' = [session EXCEPT ![t].pc = pc, ![t].did = remote[t].did]
      PROVE  Inv'
  <2> DEFINE r == [session[t] EXCEPT !.pc = pc, !.did = remote[t].did]
  <2>1. remote[t].did \in BOOLEAN
    BY <1>0 DEF Remotes
  <2>2. r \in Sessions /\ session' = [session EXCEPT ![t] = r] /\ r.pc = pc
        /\ r.did = remote[t].did /\ r.second = session[t].second
    BY <1>0, <1>8, <2>1 DEF Sessions, Pcs
  <2> HIDE DEF r
  <2>3. pc = "cleanup" => r.second \in Seconds
    BY <1>0, <1>8, <2>2 DEF SessionOK
  <2> QED
    BY <1>5, <1>8, <2>2, <2>3
<1>9. CASE session[t].pc \in Waiting
  <2>1. PICK status \in Statuses(t) :
            IF At(t, "reset") THEN AfterReset(t, status) ELSE AfterRun(t, status)
    BY <1>9 DEF CommandEnds
  <2>2. CASE status # 0
    BY <1>7, <2>1, <2>2 DEF AfterReset, AfterRun, ResetFails, RunFails
  <2>3. CASE status = 0
    <3>1. remote[t].did
      BY <2>3, ZeroIsTrue
    <3>2. PICK pc \in {"package", "cleanup"} :
              /\ session' = [session EXCEPT ![t].pc = pc, ![t].did = remote[t].did]
              /\ pc = "cleanup" => session[t].pc = "run"
      BY <1>9, <2>1, <2>3 DEF AfterReset, AfterRun, ResetFails, RunFails, At, Waiting
    <3> QED
      BY <1>8, <3>1, <3>2
  <2> QED
    BY <2>2, <2>3
<1> QED
  BY <1>6, <1>9 DEF CommandEnds

(* Staging: what is put into a directory is noted at its second.                 *)
LEMMA StagingKeeps ==
    ASSUME Inv, NEW t \in Technicians, Package(t) \/ Extract(t) \/ Cleanup(t)
    PROVE  Inv'
<1>0. /\ session \in [Technicians -> Sessions] /\ remote \in [Technicians -> Remotes]
      /\ SessionOK(t) /\ CommandsOK /\ DeviceOK
  BY InvByParts DEF CommandsOK
<1>1. UNCHANGED <<serial, installed, lock, remote>>
  BY DEF Package, Extract, Cleanup
<1>2. CommandsOK' /\ remote' = [remote EXCEPT ![t] = remote[t]] /\ remote[t] \in Remotes
  BY <1>0, <1>1 DEF CommandsOK
<1>3. ASSUME NEW s \in Seconds, NEW entry \in Stagings, staging' = [staging EXCEPT ![s] = entry],
             packedAt' \in [Seconds -> SUBSET Technicians],
             \A x \in Seconds : packedAt[x] \subseteq packedAt'[x],
             {entry.archive, entry.tree} \subseteq packedAt'[s] \cup {Nobody}
      PROVE  DeviceOK'
  <2>1. \A x \in Seconds : {staging'[x].archive, staging'[x].tree} \subseteq packedAt'[x] \cup {Nobody}
    <3> SUFFICES ASSUME NEW x \in Seconds
                 PROVE  {staging'[x].archive, staging'[x].tree} \subseteq packedAt'[x] \cup {Nobody}
      OBVIOUS
    <3>1. CASE x = s
      <4>1. staging'[x] = entry
        BY <1>0, <1>3, <3>1 DEF DeviceOK
      <4> QED
        BY <1>3, <3>1, <4>1
    <3>2. CASE x # s
      <4>1. staging'[x] = staging[x]
        BY <1>0, <1>3, <3>2 DEF DeviceOK
      <4>2. {staging[x].archive, staging[x].tree} \subseteq packedAt[x] \cup {Nobody}
        BY <1>0 DEF DeviceOK, Packaged
      <4> QED
        BY <1>3, <4>1, <4>2
    <3> QED
      BY <3>1, <3>2
  <2>2. staging' \in [Seconds -> Stagings]
    BY <1>0, <1>3 DEF DeviceOK
  <2> QED
    BY <1>0, <1>1, <1>3, <2>1, <2>2 DEF DeviceOK, Packaged
<1>4. ASSUME NEW r \in Sessions, session' = [session EXCEPT ![t] = r], DeviceOK',
             r.second \in Seconds, r.pc \in {"extract", "start", "complete", "failed"},
             r.pc \in {"extract", "start"} /\ r.mode # "none" => r.did
      PROVE  Inv'
  <2>1. session'[t] = r /\ remote' = remote
    BY <1>0, <1>1, <1>4
  <2>2. SessionOK(t)'
    BY <1>4, <2>1 DEF SessionOK
  <2> QED
    BY <1>2, <1>4, <2>2, OneSession
<1>5. CASE Package(t)
  <2>1. PICK s \in Seconds :
            /\ session' = [session EXCEPT ![t].pc = "extract", ![t].second = s]
            /\ staging' = [staging EXCEPT ![s].archive = t]
            /\ packedAt' = [packedAt EXCEPT ![s] = @ \cup {t}]
    BY <1>5 DEF Package, Directory
  <2> DEFINE r == [session[t] EXCEPT !.pc = "extract", !.second = s]
             entry == [staging[s] EXCEPT !.archive = t]
  <2>2. /\ r \in Sessions /\ session' = [session EXCEPT ![t] = r]
        /\ r.pc = "extract" /\ r.second = s /\ r.mode = session[t].mode /\ r.did = session[t].did
    BY <1>0, <2>1 DEF Sessions, Pcs
  <2>3. /\ entry \in Stagings /\ staging' = [staging EXCEPT ![s] = entry]
        /\ entry.archive = t /\ entry.tree = staging[s].tree
    BY <1>0, <2>1 DEF DeviceOK, Stagings
  <2> HIDE DEF r, entry
  <2>4. /\ packedAt' \in [Seconds -> SUBSET Technicians] /\ packedAt'[s] = packedAt[s] \cup {t}
        /\ \A x \in Seconds : packedAt[x] \subseteq packedAt'[x]
    BY <1>0, <2>1 DEF DeviceOK
  <2>5. staging[s].tree \in packedAt[s] \cup {Nobody}
    BY <1>0 DEF DeviceOK, Packaged
  <2>6. DeviceOK'
    BY <1>3, <2>3, <2>4, <2>5
  <2>7. session[t].mode # "none" => session[t].did
    BY <1>0, <1>5 DEF Package, At, SessionOK
  <2> QED
    BY <1>4, <2>2, <2>6, <2>7
<1>6. CASE Extract(t)
  <2> DEFINE s     == session[t].second
             entry == [archive |-> Nobody, tree |-> staging[s].archive]
  <2>1. s \in Seconds /\ (session[t].mode # "none" => session[t].did)
    BY <1>0, <1>6 DEF Extract, At, SessionOK
  <2>2. packedAt' = packedAt /\ staging' = [staging EXCEPT ![s] = entry]
    BY <1>6 DEF Extract, Directory
  <2>3. entry \in Stagings /\ {entry.archive, entry.tree} \subseteq packedAt[s] \cup {Nobody}
    BY <1>0, <2>1 DEF DeviceOK, Packaged, Stagings
  <2>4. PICK pc \in {"start", "complete", "failed"} : session' = [session EXCEPT ![t].pc = pc]
    BY <1>6 DEF Extract, Returns, Goes
  <2> DEFINE r == [session[t] EXCEPT !.pc = pc]
  <2>5. /\ r \in Sessions /\ session' = [session EXCEPT ![t] = r] /\ r.pc = pc
        /\ r.second = s /\ r.mode = session[t].mode /\ r.did = session[t].did
    BY <1>0, <2>4 DEF Sessions, Pcs
  <2> HIDE DEF r, entry, s
  <2>6. DeviceOK'
    BY <1>0, <1>3, <2>1, <2>2, <2>3 DEF DeviceOK
  <2> QED
    BY <1>4, <2>1, <2>5, <2>6
<1>7. CASE Cleanup(t)
  <2> DEFINE s == session[t].second
  <2>1. s \in Seconds
    BY <1>0, <1>7 DEF Cleanup, At, SessionOK
  <2>2. packedAt' = packedAt /\ staging' = [staging EXCEPT ![s] = Empty]
    BY <1>7 DEF Cleanup, Directory
  <2>3. Empty \in Stagings /\ Empty.archive = Nobody /\ Empty.tree = Nobody
    BY DEF Empty, Stagings
  <2>4. PICK pc \in {"complete", "failed"} : session' = [session EXCEPT ![t].pc = pc]
    BY <1>7 DEF Cleanup, Returns
  <2> DEFINE r == [session[t] EXCEPT !.pc = pc]
  <2>5. r \in Sessions /\ session' = [session EXCEPT ![t] = r] /\ r.pc = pc /\ r.second = s
    BY <1>0, <2>4 DEF Sessions, Pcs
  <2> HIDE DEF r, s
  <2>6. DeviceOK'
    BY <1>0, <1>3, <2>1, <2>2, <2>3 DEF DeviceOK
  <2> QED
    BY <1>4, <2>1, <2>5, <2>6
<1> QED
  BY <1>5, <1>6, <1>7

-----------------------------------------------------------------------------
(* Nothing has happened yet.                                                     *)
LEMMA InitHolds == Init => Inv
<1> SUFFICES ASSUME Init PROVE Inv
  OBVIOUS
<1>1. Closed \in Sessions /\ Closed.pc = "closed"
  BY ClosedSession
<1>2. session \in [Technicians -> Sessions] /\ \A t \in Technicians : session[t] = Closed
  BY <1>1 DEF Init
<1>3. /\ remote \in [Technicians -> Remotes] /\ \A t \in Technicians : remote[t].command = "none"
      /\ lock = Nobody
  BY DEF Init, Silent, Remotes
<1>4. \A t \in Technicians : SessionOK(t)
  BY <1>1, <1>2, <1>3 DEF SessionOK
<1>5. CommandsOK
  BY <1>3 DEF CommandsOK
<1>6. DeviceOK
  BY DEF Init, DeviceOK, Packaged, Stagings, Empty
<1> QED
  BY <1>2, <1>4, <1>5, <1>6, InvByParts

(* A step of nobody changes nothing.                                             *)
LEMMA StutterKeeps == Inv /\ UNCHANGED vars => Inv'
BY DEF vars, Inv, TypeOK, Unasked, Named, Packaged, NoReconfigureAfterFailedReset, SummaryFollowsInstall

(* The invariant is inductive.                                                   *)
THEOREM Invariance == Spec => []Inv
<1>1. Inv /\ [Next]_vars => Inv'
  <2> SUFFICES ASSUME Inv, [Next]_vars PROVE Inv'
    OBVIOUS
  <2>1. ASSUME NEW t \in Technicians,
               \/ Connect(t) \/ CheckExistingInstall(t) \/ FetchRemoteIdentity(t) \/ Choose(t)
               \/ BeginReset(t) \/ BeginRun(t) \/ Reset(t) \/ Install(t) \/ CommandEnds(t) \/ ChannelCloses(t)
               \/ ConnectionLost(t) \/ Package(t) \/ Extract(t) \/ Cleanup(t)
        PROVE  Inv'
    BY <2>1, InspectingKeeps, BeginKeeps, WorkKeeps, EndKeeps, StagingKeeps
  <2> QED
    BY <2>1, StutterKeeps DEF Next
<1> QED
  BY <1>1, InitHolds, PTL DEF Spec

(* Every variable has its shape, and the lock is with the command that runs.     *)
THEOREM TypeCorrectness == Spec => []TypeOK
<1>1. Inv => TypeOK
  BY DEF Inv
<1> QED
  BY <1>1, Invariance, PTL

(* Nothing follows a reset or a run.sh that failed or was not heard of.          *)
THEOREM SuccessFirst == Spec => []OnlySuccessIsFollowed
<1>1. Inv => OnlySuccessIsFollowed
  BY DEF Inv, OnlySuccessIsFollowed
<1> QED
  BY <1>1, Invariance, PTL

-----------------------------------------------------------------------------
(* Only Reset and Install do the work of a command.                              *)
LEMMA WhoDoesTheWork ==
    ASSUME Inv, [Next]_vars, NEW t \in Technicians, ~remote[t].did, remote'[t].did
    PROVE  Reset(t) \/ Install(t)
<1>0. remote \in [Technicians -> Remotes]
  BY InvByParts DEF CommandsOK
<1>1. CASE UNCHANGED vars
  BY <1>1 DEF vars
<1>2. ASSUME NEW u \in Technicians, Reset(u) \/ Install(u) PROVE Reset(t) \/ Install(t)
  <2>1. remote' = [remote EXCEPT ![u].did = TRUE]
    BY <1>2 DEF Reset, Install, Done
  <2>2. u = t
    BY <1>0, <2>1
  <2> QED
    BY <1>2, <2>2
<1>3. ASSUME NEW u \in Technicians, BeginReset(u) \/ BeginRun(u) PROVE FALSE
  <2>1. PICK command \in {"reset", "run"} :
            remote' = [remote EXCEPT ![u] = [Silent EXCEPT !.command = command]] \/ remote' = remote
    BY <1>3 DEF BeginReset, BeginRun, Begin
  <2>2. [Silent EXCEPT !.command = command].did = FALSE
    BY DEF Silent
  <2> QED
    BY <1>0, <2>1, <2>2
<1>4. ASSUME NEW u \in Technicians, CommandEnds(u) PROVE FALSE
  BY <1>0, <1>4 DEF CommandEnds, Silent
<1>5. ASSUME NEW u \in Technicians,
             \/ Connect(u) \/ CheckExistingInstall(u) \/ FetchRemoteIdentity(u) \/ Choose(u)
             \/ ChannelCloses(u) \/ ConnectionLost(u) \/ Package(u) \/ Extract(u) \/ Cleanup(u)
      PROVE  FALSE
  <2>1. remote' = remote
    BY <1>5 DEF Connect, CheckExistingInstall, FetchRemoteIdentity, Choose, ChannelCloses,
                ConnectionLost, Package, Extract, Cleanup
  <2> QED
    BY <2>1
<1> QED
  BY <1>1, <1>2, <1>3, <1>4, <1>5 DEF Next

-----------------------------------------------------------------------------
(* Who has erased an identity: the command did, or its session went on.         *)
Erasing(t) ==
    /\ session[t].mode = "factory"
    /\ PastErasure(t) \/ (remote[t].command = "reset" /\ remote[t].did)

(* A session waits for the command it has begun, and begins only one.           *)
Attended(t) ==
    /\ session[t].pc \in {"check", "identity", "ask", "ask_reset"} => remote[t].command = "none"
    /\ session[t].pc = "reset" => remote[t].command = "reset"

(* Each of them has erased another identity, and all of these are gone.         *)
Erasures ==
    /\ \A t \in Technicians : Attended(t) /\ (Erasing(t) => session[t].saw < serial)
    /\ \A t, u \in Technicians :
          t # u /\ Erasing(t) /\ Erasing(u) => session[t].saw # session[u].saw

(* A step of one technician, who had erased what he now counts as erased, or     *)
(* erases it in this step.                                                       *)
LEMMA OneErasure ==
    ASSUME Inv, Erasures, NEW t \in Technicians, serial' \in Nat, serial <= serial',
           \A u \in Technicians : u # t => session'[u] = session[u] /\ remote'[u] = remote[u],
           Attended(t)',
           Erasing(t)' => \/ Erasing(t) /\ session'[t].saw = session[t].saw
                          \/ session'[t].saw = serial /\ serial < serial'
    PROVE  Erasures'
<1>0. serial \in Nat /\ \A u \in Technicians : session[u].saw \in Nat
  BY InvByParts DEF DeviceOK, Sessions
<1>1. ASSUME NEW u \in Technicians, u # t
      PROVE  /\ Erasing(u)' <=> Erasing(u)
             /\ Attended(u)' /\ session'[u].saw = session[u].saw
  BY <1>1 DEF Erasures, Erasing, Attended, PastErasure
<1>2. \A u \in Technicians : Attended(u)' /\ (Erasing(u)' => session'[u].saw < serial')
  <2> SUFFICES ASSUME NEW u \in Technicians
               PROVE  Attended(u)' /\ (Erasing(u)' => session'[u].saw < serial')
    OBVIOUS
  <2>1. CASE u = t
    BY <1>0, <2>1 DEF Erasures
  <2>2. CASE u # t
    BY <1>0, <1>1, <2>2 DEF Erasures
  <2> QED
    BY <2>1, <2>2
<1>3. ASSUME NEW u \in Technicians, u # t, Erasing(t)', Erasing(u)'
      PROVE  session'[t].saw # session'[u].saw
  <2>1. Erasing(u) /\ session'[u].saw = session[u].saw /\ session[u].saw < serial
    BY <1>1, <1>3 DEF Erasures
  <2> QED
    BY <1>0, <1>3, <2>1 DEF Erasures
<1>4. \A u, v \in Technicians :
          u # v /\ Erasing(u)' /\ Erasing(v)' => session'[u].saw # session'[v].saw
  <2> SUFFICES ASSUME NEW u \in Technicians, NEW v \in Technicians, u # v,
                      Erasing(u)', Erasing(v)'
               PROVE  session'[u].saw # session'[v].saw
    OBVIOUS
  <2>1. CASE u = t
    BY <1>3, <2>1
  <2>2. CASE v = t
    BY <1>3, <2>2
  <2>3. CASE u # t /\ v # t
    BY <1>1, <2>3 DEF Erasures
  <2> QED
    BY <2>1, <2>2, <2>3
<1> QED
  BY <1>2, <1>4 DEF Erasures

LEMMA InitErasures == Init => Erasures
BY DEF Init, Erasures, Erasing, Attended, PastErasure, Closed, Silent

LEMMA NextErasures ==
    ASSUME Inv, Erasures, NEW t \in Technicians,
           \/ Connect(t) \/ CheckExistingInstall(t) \/ FetchRemoteIdentity(t) \/ Choose(t)
           \/ BeginReset(t) \/ BeginRun(t) \/ Reset(t) \/ Install(t) \/ CommandEnds(t)
           \/ ChannelCloses(t) \/ ConnectionLost(t) \/ Package(t) \/ Extract(t) \/ Cleanup(t)
    PROVE  Erasures'
<1>0. /\ session \in [Technicians -> Sessions] /\ remote \in [Technicians -> Remotes]
      /\ serial \in Nat /\ Attended(t) /\ (Erasing(t) => session[t].saw < serial)
  BY InvByParts DEF CommandsOK, DeviceOK, Erasures
<1>1. ASSUME UNCHANGED <<serial, remote>>, NEW r \in Sessions,
             session' = [session EXCEPT ![t] = r],
             \/ r.saw = session[t].saw /\ r.mode = session[t].mode
             \/ r.mode # "factory"
             \/ r.pc = "ask_reset",
             r.pc \in {"check", "identity", "ask", "ask_reset"} => remote[t].command = "none",
             r.pc # "reset",
             r.pc \in {"package", "extract", "start", "run", "cleanup", "complete"}
                /\ r.mode = "factory" => Erasing(t)
      PROVE  Erasures'
  <2>1. session'[t] = r /\ remote' = remote /\ serial' = serial
    BY <1>0, <1>1
  <2>2. \A u \in Technicians : u # t => session'[u] = session[u] /\ remote'[u] = remote[u]
    BY <1>0, <1>1
  <2>3. Attended(t)'
    BY <1>1, <2>1 DEF Attended
  <2>4. Erasing(t)' => Erasing(t) /\ session'[t].saw = session[t].saw
    BY <1>1, <2>1 DEF Erasing, PastErasure
  <2> QED
    BY <1>0, <2>1, <2>2, <2>3, <2>4, OneErasure
<1>2. ASSUME UNCHANGED <<serial, remote>>,
             NEW pc \in {"identity", "package", "extract", "start", "complete", "failed"},
             NEW second \in {0} \cup Seconds,
             session' = [session EXCEPT ![t].pc = pc, ![t].second = second],
             pc = "identity" => remote[t].command = "none",
             pc \notin {"identity", "failed"} => PastErasure(t) \/ session[t].mode # "factory"
      PROVE  Erasures'
  <2> DEFINE r == [session[t] EXCEPT !.pc = pc, !.second = second]
  <2>1. /\ r \in Sessions /\ session' = [session EXCEPT ![t] = r]
        /\ r.pc = pc /\ r.mode = session[t].mode /\ r.saw = session[t].saw
    BY <1>0, <1>2 DEF Sessions, Pcs
  <2> HIDE DEF r
  <2>2. pc \notin {"identity", "failed"} /\ r.mode = "factory" => Erasing(t)
    BY <1>2, <2>1 DEF Erasing, PastErasure
  <2> QED
    BY <1>1, <1>2, <2>1, <2>2
<1>3. ASSUME UNCHANGED <<serial, remote>>,
             NEW pc \in {"identity", "package", "start", "complete", "failed"},
             session' = [session EXCEPT ![t].pc = pc],
             pc = "identity" => remote[t].command = "none",
             pc \notin {"identity", "failed"} => PastErasure(t) \/ session[t].mode # "factory"
      PROVE  Erasures'
  <2>1. session[t].second \in {0} \cup Seconds
    BY <1>0 DEF Sessions
  <2>2. session' = [session EXCEPT ![t].pc = pc, ![t].second = session[t].second]
    BY <1>0, <1>3 DEF Sessions
  <2> QED
    BY <1>2, <1>3, <2>1, <2>2
<1>4. CASE Connect(t)
  <2> DEFINE r == [Closed EXCEPT !.pc = "check"]
  <2>1. Closed \in Sessions /\ Closed.mode = "none"
    BY ClosedSession
  <2>2. r \in Sessions /\ r.pc = "check" /\ r.mode = "none"
    BY <2>1 DEF Sessions, Pcs
  <2>3. /\ session' = [session EXCEPT ![t] = r] /\ remote[t].command = "none"
        /\ UNCHANGED <<serial, remote>>
    BY <1>4 DEF Connect, Silent
  <2> HIDE DEF r
  <2> QED
    BY <1>1, <2>2, <2>3
<1>5. CASE CheckExistingInstall(t)
  <2>1. session[t].mode # "factory" /\ remote[t].command = "none"
    BY <1>0, <1>5, InvByParts DEF CheckExistingInstall, At, SessionOK, Attended
  <2> QED
    BY <1>3, <1>5, <2>1 DEF CheckExistingInstall, Goes
<1>6. CASE FetchRemoteIdentity(t)
  <2>1. CASE session' = [session EXCEPT ![t].pc = "ask", ![t].saw = serial]
    <3> DEFINE r == [session[t] EXCEPT !.pc = "ask", !.saw = serial]
    <3>1. /\ r \in Sessions /\ session' = [session EXCEPT ![t] = r]
          /\ r.pc = "ask" /\ r.mode = session[t].mode
      BY <1>0, <2>1, InvByParts DEF Sessions, Pcs, DeviceOK
    <3>2. session[t].mode # "factory" /\ remote[t].command = "none" /\ UNCHANGED <<serial, remote>>
      BY <1>0, <1>6, InvByParts DEF FetchRemoteIdentity, At, SessionOK, Attended
    <3> HIDE DEF r
    <3> QED
      BY <1>1, <3>1, <3>2
  <2>2. CASE Returns(t, 1)
    BY <1>3, <1>6, <2>2 DEF FetchRemoteIdentity, Returns
  <2> QED
    BY <1>6, <2>1, <2>2 DEF FetchRemoteIdentity
<1>7. CASE Choose(t)
  <2>1. PICK mode \in Modes : session' = [session EXCEPT
            ![t].pc = IF mode = "none" THEN "package" ELSE "ask_reset", ![t].mode = mode]
    BY <1>7 DEF Choose
  <2> DEFINE r == [session[t] EXCEPT !.pc = IF mode = "none" THEN "package" ELSE "ask_reset",
                                     !.mode = mode]
  <2>2. /\ r \in Sessions /\ session' = [session EXCEPT ![t] = r] /\ r.mode = mode
        /\ r.pc = IF mode = "none" THEN "package" ELSE "ask_reset"
    BY <1>0, <2>1 DEF Sessions, Pcs
  <2>3. remote[t].command = "none" /\ UNCHANGED <<serial, remote>>
    BY <1>0, <1>7 DEF Choose, At, Attended
  <2> HIDE DEF r
  <2> QED
    BY <1>1, <2>2, <2>3
<1>8. CASE ConnectionLost(t) \/ ChannelCloses(t)
  BY <1>3, <1>8 DEF ConnectionLost, ChannelCloses, AfterReset, AfterRun, ResetFails, RunFails,
                    Returns
<1>9. ASSUME NEW asked, NEW command \in {"reset", "run"}, Begin(t, asked, command),
             command = "run" => asked = "start"
      PROVE  Erasures'
  <2>1. CASE lock = Nobody
    <3>1. /\ session' = [session EXCEPT ![t].pc = command] /\ serial' = serial
          /\ remote' = [remote EXCEPT ![t] = [Silent EXCEPT !.command = command]]
          /\ session[t].pc = asked
      BY <1>9, <2>1 DEF Begin, Goes, At
    <3>2. \A u \in Technicians : u # t => session'[u] = session[u] /\ remote'[u] = remote[u]
      BY <1>0, <3>1
    <3>3. /\ session'[t].pc = command /\ session'[t].mode = session[t].mode
          /\ session'[t].saw = session[t].saw
      BY <1>0, <3>1 DEF Sessions
    <3>4. remote'[t].command = command /\ ~remote'[t].did
      BY <1>0, <3>1 DEF Silent
    <3>5. Attended(t)'
      BY <3>3, <3>4 DEF Attended
    <3>6. Erasing(t)' => Erasing(t)
      BY <1>9, <3>1, <3>3, <3>4 DEF Erasing, PastErasure
    <3> QED
      BY <1>0, <3>1, <3>2, <3>3, <3>5, <3>6, OneErasure
  <2>2. CASE lock # Nobody
    BY <1>3, <1>9, <2>2 DEF Begin, Returns
  <2> QED
    BY <2>1, <2>2
<1>10. CASE BeginReset(t) \/ BeginRun(t)
  BY <1>9, <1>10 DEF BeginReset, BeginRun
<1>11. CASE Reset(t) \/ Install(t)
  <2>1. session' = session /\ remote' = [remote EXCEPT ![t].did = TRUE]
    BY <1>11 DEF Reset, Install, Done
  <2>2. /\ \A u \in Technicians : u # t => session'[u] = session[u] /\ remote'[u] = remote[u]
        /\ remote'[t].command = remote[t].command
    BY <1>0, <2>1 DEF Remotes
  <2>3. Attended(t)'
    BY <1>0, <2>1, <2>2 DEF Attended
  <2>4. serial' \in Nat /\ serial <= serial'
    BY <1>0, <1>11 DEF Reset, Install
  <2>5. Erasing(t)' => \/ Erasing(t) /\ session'[t].saw = session[t].saw
                       \/ session'[t].saw = serial /\ serial < serial'
    <3>1. CASE Reset(t)
      BY <1>0, <2>1, <3>1 DEF Reset, Confirmed, Erasing
    <3>2. CASE Install(t)
      BY <2>1, <2>2, <3>2 DEF Install, Running, Erasing, PastErasure
    <3> QED
      BY <1>11, <3>1, <3>2
  <2> QED
    BY <2>2, <2>3, <2>4, <2>5, OneErasure
<1>12. CASE CommandEnds(t)
  <2>1. serial' = serial /\ remote' = [remote EXCEPT ![t] = Silent]
    BY <1>12 DEF CommandEnds
  <2>2. /\ \A u \in Technicians : u # t => remote'[u] = remote[u]
        /\ remote'[t].command = "none"
    BY <1>0, <2>1 DEF Silent
  <2>3. /\ session'[t].mode = session[t].mode /\ session'[t].saw = session[t].saw
        /\ \A u \in Technicians : u # t => session'[u] = session[u]
        /\ session'[t].pc # "reset"
        /\ \/ session'[t].pc = session[t].pc \/ session'[t].pc = "failed"
           \/ session'[t].pc = "package" /\ session[t].pc = "reset" /\ remote[t].did
           \/ session'[t].pc = "cleanup" /\ session[t].pc = "run"
    <3>1. CASE session[t].pc \notin Waiting
      BY <1>12, <3>1 DEF CommandEnds, Waiting
    <3>2. CASE session[t].pc \in Waiting
      <4>1. PICK status \in Statuses(t) :
                IF At(t, "reset") THEN AfterReset(t, status) ELSE AfterRun(t, status)
        BY <1>12, <3>2 DEF CommandEnds
      <4>2. CASE status # 0
        <5>1. session' = [session EXCEPT ![t].pc = "failed"]
          BY <4>1, <4>2 DEF AfterReset, AfterRun, ResetFails, RunFails, Returns
        <5> QED
          BY <1>0, <5>1 DEF Sessions
      <4>3. CASE status = 0
        <5>1. remote[t].did
          BY <4>3, ZeroIsTrue
        <5>2. CASE session[t].pc = "reset"
          <6>1. session' = [session EXCEPT ![t].pc = "package", ![t].did = remote[t].did]
            BY <4>1, <4>3, <5>2 DEF AfterReset, ResetFails, At
          <6> QED
            BY <1>0, <5>1, <5>2, <6>1 DEF Sessions
        <5>3. CASE session[t].pc = "run"
          <6>1. session' = [session EXCEPT ![t].pc = "cleanup", ![t].did = remote[t].did]
            BY <4>1, <4>3, <5>3 DEF AfterRun, RunFails, At
          <6> QED
            BY <1>0, <5>3, <6>1 DEF Sessions
        <5> QED
          BY <3>2, <5>2, <5>3 DEF Waiting
      <4> QED
        BY <4>2, <4>3
    <3> QED
      BY <3>1, <3>2
  <2>4. Attended(t)'
    BY <2>2, <2>3 DEF Attended
  <2>5. Erasing(t)' => Erasing(t)
    BY <1>0, <2>2, <2>3 DEF Erasing, PastErasure, Attended
  <2> QED
    BY <1>0, <2>1, <2>2, <2>3, <2>4, <2>5, OneErasure
<1>13. CASE Package(t)
  <2>1. PICK s \in Seconds : session' = [session EXCEPT ![t].pc = "extract", ![t].second = s]
    BY <1>13 DEF Package
  <2>2. UNCHANGED <<serial, remote>> /\ (PastErasure(t) \/ session[t].mode # "factory")
    BY <1>13 DEF Package, At, PastErasure
  <2> QED
    BY <1>2, <2>1, <2>2
<1>14. CASE Extract(t) \/ Cleanup(t)
  <2>1. UNCHANGED <<serial, remote>> /\ (PastErasure(t) \/ session[t].mode # "factory")
    BY <1>14 DEF Extract, Cleanup, At, PastErasure
  <2> QED
    BY <1>3, <1>14, <2>1 DEF Extract, Cleanup, Goes, Returns
<1> QED
  BY <1>4, <1>5, <1>6, <1>7, <1>8, <1>10, <1>11, <1>12, <1>13, <1>14

(* The others who confirmed to erase the same identity are stopped.              *)
THEOREM OneErases == Spec => []ErasedOnce
<1>1. Erasures => ErasedOnce
  BY DEF Erasures, ErasedOnce, Erasing, PastErasure
<1>2. Inv /\ Erasures /\ [Next]_vars => Erasures'
  <2>1. ASSUME Inv, Erasures, UNCHANGED vars PROVE Erasures'
    BY <2>1 DEF vars, Erasures, Erasing, Attended, PastErasure
  <2> QED
    BY <2>1, NextErasures DEF Next
<1> QED
  BY <1>1, <1>2, InitErasures, Invariance, PTL DEF Spec

-----------------------------------------------------------------------------
(* A checkout that was alone in its second is the one that is installed.         *)
THEOREM OwnCheckout == Spec => InstallsOwnCheckout
<1>1. ASSUME Inv, [Next]_vars, NEW t \in Technicians,
             remote[t].command = "run", ~remote[t].did, remote'[t].did, packedAt[session[t].second] = {t}
      PROVE  installed' = t
  <2>1. Install(t)
    BY <1>1, WhoDoesTheWork DEF Reset, Running
  <2>2. session[t].second \in Seconds
    BY <1>1, InvByParts DEF SessionOK
  <2>3. staging[session[t].second].tree \in packedAt[session[t].second] \cup {Nobody}
    BY <1>1, <2>2, InvByParts DEF DeviceOK, Packaged
  <2> QED
    BY <1>1, <2>1, <2>3 DEF Install, Directory
<1>2. Inv /\ [Next]_vars =>
        [\A t \in Technicians :
          remote[t].command = "run" /\ ~remote[t].did /\ remote'[t].did
          /\ packedAt[session[t].second] = {t} => installed' = t]_vars
  BY <1>1
<1> QED
  BY <1>2, Invariance, PTL DEF Spec, InstallsOwnCheckout

=============================================================================
