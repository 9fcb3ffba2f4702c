----------------------------- MODULE Credentials -----------------------------
(***************************************************************************)
(* Who the device is and what it may use: its identity, the enrollment of  *)
(* provisioning.py, the commands provision, run, rotate-credential and     *)
(* reset of cli.py, the hardware binding of state.py, and the platforms as *)
(* those commands see them.  agent.lock lets one command run at a time, so *)
(* one program counter is enough; it can be killed anywhere, a request it  *)
(* gave up on may still arrive, and an answer may be lost.  The SD card    *)
(* can be moved to another board and platform_url can be edited.           *)
(***************************************************************************)
EXTENDS Integers, FiniteSets

CONSTANTS
    Serials,     \* identities (UUID, serial and provisioning secret together)
    Stations,
    Platforms,   \* origins that platform_url may name
    Boards,      \* boards whose Device Tree serial can be read
    NoBoard,     \* a board without one; no binding
    None,
    MaxSecrets,  \* bound: credential secrets issued
    MaxOps,      \* bound: resets, moved cards, edits, acts of an administrator
    MaxLate      \* bound: abandoned requests still on their way

ASSUME NamesAssumption ==
    /\ NoBoard \notin Boards /\ None \notin Platforms
    /\ None \notin [by : Platforms, n : Nat]
    /\ None \notin [station : Stations, secret : [by : Platforms, n : Nat]]
ASSUME BoundsAssumption == MaxSecrets \in Nat /\ MaxOps \in Nat /\ MaxLate \in Nat

VARIABLES
    (* settings of agent.sqlite *)
    serial,       \* device_identity
    code,         \* whether an activation code is kept
    credentials,  \* [station, secret], or None
    origin,       \* platform_origin
    rotating,     \* credential_rotation_pending
    hardware,     \* hardware_identity
    (* around the program *)
    url,          \* platform_url of the config file
    board,        \* what observe() sees
    (* the command that runs *)
    pc,
    to,           \* origin of its API client
    printed,      \* whether the last provision printed a device code
    (* network *)
    request, reply, late,
    (* platforms *)
    accounts,     \* per platform and serial: [status, station, secret, bootstrap]
    issued,       \* secrets issued so far
    (* history *)
    ops,
    replaced,     \* secrets that a rotation has revoked
    usedOn        \* <<serial, board>> pairs under which a request was made

db       == <<serial, code, credentials, origin, rotating, hardware>>
outside  == <<url, board>>
command  == <<pc, to, printed>>
network  == <<request, reply, late>>
platform == <<accounts, issued>>
vars     == <<db, outside, command, network, platform, ops, replaced, usedOn>>

Secrets   == [by : Platforms, n : 1..MaxSecrets]
NoAccount == [status |-> "unknown", station |-> None, secret |-> None, bootstrap |-> FALSE]
Message(kind) == [kind |-> kind, to |-> to, serial |-> serial,
                  secret |-> IF kind = "enroll" THEN None ELSE credentials.secret]

Init ==
    /\ serial \in Serials /\ code = TRUE /\ credentials = None /\ origin = None
    /\ rotating = FALSE /\ hardware = NoBoard
    /\ url \in Platforms /\ board \in Boards \cup {NoBoard}
    /\ pc = "off" /\ to = None /\ printed = FALSE
    /\ request = None /\ reply = None /\ late = {}
    /\ accounts = [p \in Platforms |-> [s \in Serials |-> NoAccount]] /\ issued = 0
    /\ ops = 0 /\ replaced = {} /\ usedOn = {}

-----------------------------------------------------------------------------
(* Starting a command: agent.lock, then bind_hardware, then the origin. *)

BindHardware ==
    /\ hardware \in {NoBoard, board}
    /\ hardware' = board

SameOrigin == origin \in {None, url}

Start(next) ==
    /\ pc = "off"
    /\ BindHardware /\ SameOrigin
    /\ pc' = next /\ to' = url /\ printed' = FALSE
    /\ UNCHANGED <<serial, code, credentials, origin, rotating, outside, network, platform,
                   ops, replaced, usedOn>>

StartRun       == Start(IF credentials = None THEN "enroll" ELSE "running")
StartProvision == credentials = None /\ Start("provision")
StartRotate    == credentials # None /\ ~rotating /\ Start("rotate")

(* provision on an assigned device: no enrollment, the spent code goes. *)
ProvisionAssigned ==
    /\ pc = "off" /\ credentials # None
    /\ BindHardware /\ SameOrigin
    /\ origin' = url /\ code' = FALSE /\ printed' = FALSE
    /\ UNCHANGED <<serial, credentials, rotating, outside, pc, to, network, platform,
                   ops, replaced, usedOn>>

(* HardwareIdentityError, or "State is bound to another platform" after the    *)
(* binding was written.                                                        *)
StartRefused ==
    /\ pc = "off"
    /\ IF hardware \in {NoBoard, board} THEN hardware' = board /\ ~SameOrigin
                                        ELSE UNCHANGED hardware
    /\ UNCHANGED <<serial, code, credentials, origin, rotating, outside, command, network,
                   platform, ops, replaced, usedOn>>

-----------------------------------------------------------------------------
(* Requests. *)

Idle == request = None /\ reply = None

Send(m) ==
    /\ Idle /\ request' = m
    /\ usedOn' = usedOn \cup {<<serial, b>> : b \in {board} \cap Boards}
    /\ UNCHANGED <<outside, command, reply, late, platform, ops, replaced>>

(* Mutant: a device that enrolled before does not ask again. *)
EnrollOnce ==
    /\ pc \in {"enroll", "provision"} /\ origin = None
    /\ origin' = to
    /\ Send(Message("enroll"))
    /\ UNCHANGED <<serial, code, credentials, rotating, hardware>>

(* state.set("platform_origin", ...) and api.enroll. *)
Enroll ==
    /\ pc \in {"enroll", "provision"}
    /\ origin' = to
    /\ Send(Message("enroll"))
    /\ UNCHANGED <<serial, code, credentials, rotating, hardware>>

(* Any authenticated call of the run loop. *)
Call ==
    /\ pc = "running"
    /\ Send(Message("call"))
    /\ UNCHANGED db

(* Mutant: the flag is raised with the answer, not before the request. *)
RotateUnmarked ==
    /\ pc = "rotate"
    /\ Send(Message("rotate"))
    /\ UNCHANGED db

(* The flag is on disk before the request leaves. *)
Rotate ==
    /\ pc = "rotate"
    /\ rotating' = TRUE
    /\ Send(Message("rotate"))
    /\ UNCHANGED <<serial, code, credentials, origin, hardware>>

-----------------------------------------------------------------------------
(* Answers. *)

(* A command ends; what it leaves in the air is late. *)
End ==
    /\ request' = None /\ reply' = None
    /\ late' = late \cup ({request} \ {None})
    /\ Cardinality(late') <= MaxLate

Got(kind) == reply # None /\ reply.kind = kind /\ reply' = None /\ UNCHANGED <<request, late>>

PrintCode == printed' = (pc = "provision" /\ code)

(* accept_enrollment_response: "pending".  The run loop polls again. *)
GotPending ==
    /\ Got("pending")
    /\ pc' = IF pc = "provision" THEN "off" ELSE pc
    /\ PrintCode
    /\ UNCHANGED <<db, outside, to, platform, ops, replaced, usedOn>>

(* "assigned", with the bootstrap secret: credentials and code in one          *)
(* transaction.  provision prints the code it read before.                     *)
GotAssigned ==
    /\ Got("assigned") /\ reply.secret # None
    /\ credentials' = [station |-> reply.station, secret |-> reply.secret]
    /\ code' = FALSE
    /\ pc' = IF pc = "provision" THEN "off" ELSE "running"
    /\ PrintCode
    /\ UNCHANGED <<serial, origin, rotating, hardware, outside, to, platform, ops, replaced, usedOn>>

(* "revoked", "assigned" without a secret, 401: the program stops. *)
GotRefusal ==
    /\ \/ Got("revoked") \/ Got("denied")
       \/ Got("assigned") /\ reply.secret = None
    /\ pc' = "off"
    /\ UNCHANGED <<db, outside, to, printed, platform, ops, replaced, usedOn>>

GotOk ==
    /\ Got("ok")
    /\ UNCHANGED <<db, outside, command, platform, ops, replaced, usedOn>>

GotRotated ==
    /\ Got("rotated")
    /\ credentials' = [credentials EXCEPT !.secret = reply.secret]
    /\ rotating' = FALSE
    /\ pc' = "off"
    /\ UNCHANGED <<serial, code, origin, hardware, outside, to, printed, platform, ops, replaced, usedOn>>

(* Timeout, no connection, 5xx, an answer that cannot be read.  The loops of   *)
(* run go on, provision ends and prints the code, rotate-credential ends.      *)
RequestFails ==
    /\ ~Idle /\ End
    /\ pc' = IF pc \in {"enroll", "running"} THEN pc ELSE "off"
    /\ PrintCode
    /\ UNCHANGED <<db, outside, to, platform, ops, replaced, usedOn>>

(* SIGTERM, SIGKILL, power: between any two steps. *)
Stop ==
    /\ pc # "off" /\ End
    /\ pc' = "off"
    /\ UNCHANGED <<db, outside, to, printed, platform, ops, replaced, usedOn>>

-----------------------------------------------------------------------------
(* The operator, with the service stopped. *)

Operator == pc = "off" /\ ops < MaxOps /\ ops' = ops + 1

(* Mutant: a soft reset forgets the platform but not the credentials. *)
SoftResetKeepsCredentials ==
    /\ Operator /\ late = {}
    /\ BindHardware
    /\ origin' = None /\ rotating' = FALSE /\ code' = TRUE
    /\ UNCHANGED <<serial, credentials, outside, command, network, platform, replaced, usedOn>>

(* Mutant: a soft reset binds the identity anew. *)
SoftResetRebinds ==
    /\ Operator /\ late = {}
    /\ hardware' = board
    /\ credentials' = None /\ origin' = None /\ rotating' = FALSE /\ code' = TRUE
    /\ UNCHANGED <<serial, outside, command, network, platform, replaced, usedOn>>

(* reset: clear_assignment.  Assumed: by then no abandoned request is on its   *)
(* way any more (a request lives seconds, an operator comes later).            *)
SoftReset ==
    /\ Operator /\ late = {}
    /\ BindHardware
    /\ credentials' = None /\ origin' = None /\ rotating' = FALSE /\ code' = TRUE
    /\ UNCHANGED <<serial, outside, command, network, platform, replaced, usedOn>>

(* reset --factory: another identity, bound to this board. *)
FactoryReset(s) ==
    /\ Operator
    /\ s # serial /\ \A p \in Platforms : accounts[p][s] = NoAccount
    /\ \A m \in late : m.serial # s
    /\ \A b \in Boards : <<s, b>> \notin usedOn
    /\ serial' = s /\ hardware' = board
    /\ credentials' = None /\ origin' = None /\ rotating' = FALSE /\ code' = TRUE
    /\ UNCHANGED <<outside, command, network, platform, replaced, usedOn>>

EditUrl(p) ==
    /\ Operator /\ url' = p
    /\ UNCHANGED <<db, board, command, network, platform, replaced, usedOn>>

MoveCard(b) ==
    /\ Operator /\ board' = b
    /\ UNCHANGED <<db, url, command, network, platform, replaced, usedOn>>

-----------------------------------------------------------------------------
(* The platforms. *)

Account(m) == accounts[m.to][m.serial]
Valid(m)   == Account(m).status = "assigned" /\ Account(m).secret = m.secret
Fresh(p)   == [by |-> p, n |-> issued + 1]
SetAccount(p, s, a) == accounts' = [accounts EXCEPT ![p][s] = a]

(* A bootstrap secret is handed out again until it has been used. *)
Effect(m) ==
    LET a == Account(m)
    IN  CASE m.kind = "enroll" ->
               /\ SetAccount(m.to, m.serial,
                             IF a.status = "unknown" THEN [a EXCEPT !.status = "pending"] ELSE a)
               /\ UNCHANGED <<issued, replaced>>
          [] m.kind = "rotate" /\ Valid(m) ->
               /\ issued < MaxSecrets /\ issued' = issued + 1
               /\ SetAccount(m.to, m.serial, [a EXCEPT !.secret = Fresh(m.to), !.bootstrap = FALSE])
               /\ replaced' = replaced \cup {m.secret}
          [] OTHER ->
               /\ SetAccount(m.to, m.serial, [a EXCEPT !.bootstrap = @ /\ ~Valid(m)])
               /\ UNCHANGED <<issued, replaced>>

AnswerTo(m) ==
    LET a == Account(m)
    IN  CASE m.kind = "enroll" ->
               [kind    |-> IF a.status = "unknown" THEN "pending" ELSE a.status,
                station |-> a.station,
                secret  |-> IF a.bootstrap THEN a.secret ELSE None]
          [] m.kind # "enroll" /\ ~Valid(m) -> [kind |-> "denied"]
          [] m.kind = "rotate" /\ Valid(m)  -> [kind |-> "rotated", secret |-> Fresh(m.to)]
          [] m.kind = "call" /\ Valid(m)    -> [kind |-> "ok"]

Answer ==
    /\ request # None /\ Effect(request)
    /\ reply' = AnswerTo(request) /\ request' = None
    /\ UNCHANGED <<db, outside, command, late, ops, usedOn>>

(* Nobody waits any more for the answer to a late request. *)
LateArrives(m) ==
    /\ Effect(m) /\ late' = late \ {m}
    /\ UNCHANGED <<db, outside, command, request, reply, ops, usedOn>>

LateLost(m) ==
    /\ late' = late \ {m}
    /\ UNCHANGED <<db, outside, command, request, reply, platform, ops, replaced, usedOn>>

(* The customer enters the activation code of a pending device. *)
Claim(p, s, st) ==
    /\ accounts[p][s].status = "pending" /\ issued < MaxSecrets
    /\ issued' = issued + 1
    /\ SetAccount(p, s, [status |-> "assigned", station |-> st, secret |-> Fresh(p), bootstrap |-> TRUE])
    /\ UNCHANGED <<db, outside, command, network, ops, replaced, usedOn>>

(* An administrator revokes the device, or frees it for another claim. *)
Administer(p, s, status) ==
    /\ accounts[p][s].status = "assigned" /\ ops < MaxOps /\ ops' = ops + 1
    /\ SetAccount(p, s, [NoAccount EXCEPT !.status = status])
    /\ UNCHANGED <<db, outside, command, network, issued, replaced, usedOn>>

-----------------------------------------------------------------------------
Device   == StartRun \/ StartProvision \/ StartRotate \/ ProvisionAssigned \/ StartRefused
            \/ Enroll \/ Call \/ Rotate
            \/ GotPending \/ GotAssigned \/ GotRefusal \/ GotOk \/ GotRotated
            \/ RequestFails \/ Stop
People   == SoftReset \/ (\E s \in Serials : FactoryReset(s))
            \/ (\E p \in Platforms : EditUrl(p)) \/ (\E b \in Boards \cup {NoBoard} : MoveCard(b))
Platform == Answer \/ (\E m \in late : LateArrives(m) \/ LateLost(m))
            \/ (\E p \in Platforms, s \in Serials :
                    \/ \E st \in Stations : Claim(p, s, st)
                    \/ \E status \in {"pending", "revoked"} : Administer(p, s, status))

Next == Device \/ People \/ Platform

Spec == Init /\ [][Next]_vars

(* The service is started again after every failure and polls for ever; a poll *)
(* tried again and again is sent, answered and heard at last.                  *)
Fairness == /\ WF_vars(StartRun) /\ WF_vars(GotRefusal) /\ WF_vars(GotPending)
            /\ SF_vars(Enroll) /\ SF_vars(Answer) /\ SF_vars(GotAssigned)

FairSpec == Spec /\ Fairness

-----------------------------------------------------------------------------
Pcs == {"off", "enroll", "provision", "running", "rotate"}
Accounts == [status : {"unknown", "pending", "assigned", "revoked"},
             station : Stations \cup {None}, secret : Secrets \cup {None}, bootstrap : BOOLEAN]
Messages == [kind : {"enroll", "call", "rotate"}, to : Platforms, serial : Serials,
             secret : Secrets \cup {None}]

(* The settings, the command, the messages and the accounts are well formed;   *)
(* only a message to enroll goes without a secret.                             *)
TypeOK ==
    /\ serial \in Serials /\ code \in BOOLEAN /\ rotating \in BOOLEAN
    /\ credentials \in [station : Stations, secret : Secrets] \cup {None}
    /\ origin \in Platforms \cup {None} /\ hardware \in Boards \cup {NoBoard}
    /\ url \in Platforms /\ board \in Boards \cup {NoBoard}
    /\ pc \in Pcs /\ to \in Platforms \cup {None} /\ printed \in BOOLEAN
    /\ request \in Messages \cup {None}
    /\ late \in SUBSET Messages
    /\ \A m \in late \cup ({request} \ {None}) : m.kind = "enroll" <=> m.secret = None
    /\ accounts \in [Platforms -> [Serials -> Accounts]]

(* A credential secret is only ever sent to the platform that issued it,       *)
(* whatever platform_url says and however the device was reset.                *)
SecretsStayHome ==
    \A m \in late \cup ({request} \ {None}) : m.kind # "enroll" => m.secret.by = m.to

(* Once the platform has revoked the stored secret by a rotation, the device   *)
(* knows that its rotation has an unknown outcome: the flag is raised.         *)
LostRotationIsFlagged ==
    credentials # None /\ credentials.secret \in replaced => rotating

(* An identity makes requests from one recognised board at most, wherever the  *)
(* card is put; only a factory reset, with another identity, frees it.         *)
OneBoardPerIdentity ==
    \A s \in Serials : Cardinality({b \in Boards : <<s, b>> \in usedOn}) <= 1

(* An assigned device holds no activation code, an unassigned one always has   *)
(* one for its next claim.                                                     *)
CodeUntilAssigned == code <=> credentials = None

(* What the state file says of the device holds together: its shape, one board *)
(* per identity, and a code exactly while the device is not assigned.          *)
StateIsCoherent == TypeOK /\ OneBoardPerIdentity /\ CodeUntilAssigned

(* What provision prints as the code to keep sealed is a code the device still *)
(* has.                                                                        *)
PrintedCodeIsKept == [][~printed /\ printed' => code']_vars

(* A claimed device whose bootstrap secret was not used yet obtains it, unless *)
(* the claim is withdrawn or the operator made enrollment impossible.          *)
Awaited == /\ credentials = None
           /\ accounts[url][serial].status = "assigned" /\ accounts[url][serial].bootstrap
Blocked == hardware \notin {NoBoard, board} \/ ~SameOrigin

ClaimReachesDevice == Awaited ~> (~Awaited \/ Blocked)

=============================================================================
