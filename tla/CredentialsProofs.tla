------------------------- MODULE CredentialsProofs -------------------------
(***************************************************************************)
(* Proofs about module Credentials, for any number of identities,          *)
(* platforms, boards and secrets, and any number of abandoned requests: a  *)
(* secret stays with its issuer, a lost rotation is flagged, an identity   *)
(* works on one board, and a code is kept exactly while it is needed.      *)
(***************************************************************************)
EXTENDS Credentials, FiniteSetTheorems, TLAPS

USE NamesAssumption, BoundsAssumption

Flight == late \cup ({request} \ {None})

(* Secrets that the answer under way hands out. *)
Carried == {x \in Secrets : reply # None /\ reply.kind \in {"assigned", "rotated"} /\ reply.secret = x}

(* Who may know a secret: the account, a message, or the device, which is the   *)
(* identity "serial".                                                           *)
Owns(s, x) ==
    \/ \E p \in Platforms : accounts[p][s].secret = x
    \/ \E m \in Flight : m.kind # "enroll" /\ m.serial = s /\ m.secret = x
    \/ s = serial /\ credentials # None /\ credentials.secret = x
    \/ s = serial /\ x \in Carried

-----------------------------------------------------------------------------
(* What TypeOK leaves out. *)
HistoryOK ==
    /\ issued \in 0..MaxSecrets /\ replaced \in SUBSET Secrets
    /\ usedOn \in SUBSET (Serials \X Boards)

(* Where a command is says what the settings hold, and credentials go with the  *)
(* origin that issued them.                                                     *)
CommandOK ==
    /\ pc # "off" => to \in Platforms /\ hardware = board
    /\ pc \in {"running", "rotate"} => credentials # None /\ origin = to
    /\ pc \in {"enroll", "provision"} => credentials = None
    /\ pc = "off" => request = None /\ reply = None
    /\ request = None \/ reply = None
    /\ ~Idle => origin = to
    /\ credentials # None => credentials.secret.by = origin

(* A request is the command's, and a request with a secret has the device's. *)
RequestOK ==
    request # None =>
        /\ request.to = to /\ request.serial = serial
        /\ request.kind = "enroll" => pc \in {"enroll", "provision"}
        /\ request.kind = "call"   => pc = "running"
        /\ request.kind = "rotate" => pc = "rotate"
        /\ request.kind # "enroll" => request.secret = credentials.secret

(* So is an answer, and the secret in it comes from the platform asked. *)
ReplyOK ==
    reply # None =>
        /\ reply.kind \in {"pending", "assigned", "revoked", "denied", "ok", "rotated"}
        /\ reply.kind \in {"pending", "assigned", "revoked"} => pc \in {"enroll", "provision"}
        /\ reply.kind = "rotated" => pc = "rotate" /\ reply.secret \in Secrets
        /\ reply.kind = "assigned" => reply.station \in Stations /\ reply.secret \in Secrets \cup {None}
        /\ \A x \in Carried : x.by = to /\ x \notin replaced

(* The current secret of an account was issued there and not replaced. *)
AccountsOK ==
    \A p \in Platforms, s \in Serials :
        /\ accounts[p][s].status = "assigned" => accounts[p][s].station \in Stations
        /\ accounts[p][s].secret # None =>
               accounts[p][s].secret.by = p /\ accounts[p][s].secret \notin replaced

(* A secret is known to one identity, and was issued. *)
OneOwner ==
    /\ \A s \in Serials, x \in Secrets : Owns(s, x) => x.n <= issued
    /\ \A s1, s2 \in Serials, x \in Secrets : Owns(s1, x) /\ Owns(s2, x) => s1 = s2
    /\ \A x \in replaced : x.n <= issued

(* A rotation that may still happen to the stored secret is flagged, and none   *)
(* can happen to a secret that is still to be stored.                           *)
RotationOK ==
    \A m \in Flight :
        m.kind = "rotate" /\ m.serial = serial =>
            credentials # None /\ m.secret \notin Carried /\ (m.secret = credentials.secret => rotating)

(* The identity has been used on the board it is bound to, and on no other. *)
HardwareOK ==
    /\ \A b \in Boards : <<serial, b>> \in usedOn => hardware = b
    /\ \A s \in Serials, b1, b2 \in Boards : <<s, b1>> \in usedOn /\ <<s, b2>> \in usedOn => b1 = b2

Inv == /\ TypeOK /\ HistoryOK /\ CommandOK /\ RequestOK /\ ReplyOK /\ AccountsOK /\ OneOwner
       /\ RotationOK /\ HardwareOK /\ CodeUntilAssigned /\ SecretsStayHome /\ LostRotationIsFlagged

-----------------------------------------------------------------------------
(* None is neither a secret nor a pair of credentials. *)
LEMMA Names ==
    /\ None \notin Secrets
    /\ \A st \in Stations, x \in Secrets : [station |-> st, secret |-> x] # None
    /\ \A c \in [station : Stations, secret : Secrets] : c # None
<1>1. 1..MaxSecrets \subseteq Nat
  OBVIOUS
<1>2. Secrets \subseteq [by : Platforms, n : Nat]
  BY <1>1 DEF Secrets
<1> QED
  BY <1>2

(* The next secret is typed, and was not issued before. *)
LEMMA FreshSecret ==
    ASSUME Inv, NEW p \in Platforms, issued < MaxSecrets
    PROVE  Fresh(p) \in Secrets /\ Fresh(p).by = p /\ Fresh(p).n = issued + 1
<1>1. issued + 1 \in 1..MaxSecrets
  BY DEF Inv, HistoryOK
<1> QED
  BY <1>1 DEF Fresh, Secrets

(* Setting one account leaves the others alone. *)
LEMMA OneAccount ==
    ASSUME TypeOK, NEW p \in Platforms, NEW s \in Serials, NEW a \in Accounts, SetAccount(p, s, a)
    PROVE  /\ accounts' \in [Platforms -> [Serials -> Accounts]] /\ accounts'[p][s] = a
           /\ \A q \in Platforms, r \in Serials : ~(q = p /\ r = s) => accounts'[q][r] = accounts[q][r]
BY DEF TypeOK, SetAccount

(* Nobody learns a secret. *)
LEMMA OwnersShrink ==
    ASSUME OneOwner, UNCHANGED <<issued, replaced>>,
           \A s \in Serials, x \in Secrets : Owns(s, x)' => Owns(s, x)
    PROVE  OneOwner'
BY DEF OneOwner

(* One identity learns a secret that is new. *)
LEMMA OwnersGrow ==
    ASSUME Inv, NEW s0 \in Serials, NEW p \in Platforms, issued < MaxSecrets, issued' = issued + 1,
           \A s \in Serials, x \in Secrets : Owns(s, x)' => Owns(s, x) \/ (s = s0 /\ x = Fresh(p)),
           \A x \in replaced' : x \in replaced \/ (x \in Secrets /\ \E s \in Serials : Owns(s, x))
    PROVE  OneOwner'
<1>1. issued \in Nat /\ OneOwner /\ replaced \subseteq Secrets
  BY DEF Inv, HistoryOK
<1>2. \A x \in Secrets : x.n \in Nat
  BY DEF Secrets
<1>3. Fresh(p) \in Secrets /\ Fresh(p).n = issued + 1
  BY FreshSecret
<1>4. \A s \in Serials, x \in Secrets : Owns(s, x) => x.n <= issued /\ x # Fresh(p)
  BY <1>1, <1>2, <1>3 DEF OneOwner
<1>5. \A s \in Serials, x \in Secrets : Owns(s, x)' => x.n <= issued + 1
  BY <1>1, <1>2, <1>3, <1>4
<1>6. \A s1, s2 \in Serials, x \in Secrets : Owns(s1, x)' /\ Owns(s2, x)' => s1 = s2
  BY <1>1, <1>4 DEF OneOwner
<1>7. \A x \in replaced' : x.n <= issued + 1
  BY <1>1, <1>2, <1>4 DEF OneOwner
<1> QED
  BY <1>5, <1>6, <1>7 DEF OneOwner

-----------------------------------------------------------------------------
(* Nothing happens. *)
LEMMA StutterKeeps == Inv /\ UNCHANGED vars => Inv'
<1> SUFFICES ASSUME Inv, UNCHANGED vars PROVE Inv'
  OBVIOUS
<1> USE DEF vars, db, outside, command, network, platform
<1>1. TypeOK' /\ HistoryOK' /\ CommandOK' /\ RequestOK' /\ HardwareOK' /\ CodeUntilAssigned'
  BY DEF Inv, TypeOK, HistoryOK, CommandOK, RequestOK, HardwareOK, CodeUntilAssigned, Idle
<1>2. ReplyOK' /\ AccountsOK' /\ OneOwner' /\ RotationOK' /\ SecretsStayHome' /\ LostRotationIsFlagged'
  BY DEF Inv, ReplyOK, AccountsOK, OneOwner, Owns, RotationOK, Flight, Carried, SecretsStayHome,
         LostRotationIsFlagged
<1> QED
  BY <1>1, <1>2 DEF Inv

(* What the platforms and the network know is untouched, and so are the         *)
(* settings they depend on.                                                     *)
LEMMA WorldAlone ==
    ASSUME Inv, UNCHANGED <<serial, credentials, rotating, network, platform, replaced>>
    PROVE  AccountsOK' /\ OneOwner' /\ RotationOK' /\ SecretsStayHome' /\ LostRotationIsFlagged'
<1> USE DEF network, platform
<1>1. AccountsOK' /\ SecretsStayHome' /\ LostRotationIsFlagged'
  BY DEF Inv, AccountsOK, SecretsStayHome, LostRotationIsFlagged
<1>2. Flight' = Flight /\ Carried' = Carried
  BY DEF Flight, Carried
<1>3. RotationOK'
  BY <1>2 DEF Inv, RotationOK
<1>4. \A s \in Serials, x \in Secrets : Owns(s, x)' => Owns(s, x)
  BY <1>2 DEF Owns
<1> QED
  BY <1>1, <1>3, <1>4, OwnersShrink DEF Inv

(* A binding is written only where there was none. *)
LEMMA BindingKeeps ==
    ASSUME Inv, BindHardware, UNCHANGED <<serial, usedOn>>
    PROVE  HardwareOK'
BY DEF Inv, HardwareOK, BindHardware

(* agent.lock, binding and origin. *)
LEMMA StartKeeps ==
    ASSUME Inv, StartRun \/ StartProvision \/ StartRotate
    PROVE  Inv'
<1>1. PICK next \in {"enroll", "running", "provision", "rotate"} :
          /\ Start(next)
          /\ next \in {"running", "rotate"} => credentials # None
          /\ next \in {"enroll", "provision"} => credentials = None
  BY DEF StartRun, StartProvision, StartRotate
<1> USE DEF outside, network, platform, db, command
<1>2. AccountsOK' /\ OneOwner' /\ RotationOK' /\ SecretsStayHome' /\ LostRotationIsFlagged'
  BY <1>1, WorldAlone DEF Start
<1>3. HardwareOK'
  BY <1>1, BindingKeeps DEF Start
<1>4. TypeOK' /\ HistoryOK' /\ CodeUntilAssigned'
  BY <1>1 DEF Start, BindHardware, Inv, TypeOK, HistoryOK, CodeUntilAssigned, Pcs
<1>5. request = None /\ reply = None
  BY <1>1 DEF Start, Inv, CommandOK
<1>6. RequestOK' /\ ReplyOK'
  BY <1>1, <1>5 DEF Start, RequestOK, ReplyOK
<1>7. credentials # None => origin \in Platforms /\ origin # None
  BY DEF Inv, TypeOK, CommandOK, Secrets
<1>8. CommandOK'
  BY <1>1, <1>5, <1>7 DEF Start, SameOrigin, BindHardware, Inv, TypeOK, CommandOK, Idle
<1> QED
  BY <1>2, <1>3, <1>4, <1>6, <1>8 DEF Inv

(* The commands that leave before they do anything else. *)
LEMMA ShortKeeps ==
    ASSUME Inv, ProvisionAssigned \/ StartRefused
    PROVE  Inv'
<1> USE DEF outside, network, platform, db, command
<1>1. AccountsOK' /\ OneOwner' /\ RotationOK' /\ SecretsStayHome' /\ LostRotationIsFlagged'
  BY WorldAlone DEF ProvisionAssigned, StartRefused
<1>2. HardwareOK'
  <2>1. CASE ProvisionAssigned
    BY <2>1, BindingKeeps DEF ProvisionAssigned
  <2>2. CASE StartRefused
    BY <2>2 DEF StartRefused, Inv, HardwareOK
  <2> QED
    BY <2>1, <2>2
<1>3. TypeOK' /\ HistoryOK' /\ CodeUntilAssigned'
  <2>1. CASE ProvisionAssigned
    BY <2>1 DEF ProvisionAssigned, BindHardware, Inv, TypeOK, HistoryOK, CodeUntilAssigned
  <2>2. CASE StartRefused
    BY <2>2 DEF StartRefused, Inv, TypeOK, HistoryOK, CodeUntilAssigned
  <2> QED
    BY <2>1, <2>2
<1>4. pc = "off" /\ request = None /\ reply = None
  BY DEF ProvisionAssigned, StartRefused, Inv, CommandOK
<1>5. RequestOK' /\ ReplyOK'
  BY <1>4 DEF ProvisionAssigned, StartRefused, RequestOK, ReplyOK
<1>6. credentials # None => origin \in Platforms /\ origin # None
  BY DEF Inv, TypeOK, CommandOK, Secrets
<1>7. CommandOK'
  <2>1. CASE ProvisionAssigned
    BY <2>1, <1>4, <1>6 DEF ProvisionAssigned, SameOrigin, Inv, CommandOK, Idle
  <2>2. CASE StartRefused
    BY <2>2, <1>4 DEF StartRefused, Inv, CommandOK, Idle
  <2> QED
    BY <2>1, <2>2
<1> QED
  BY <1>1, <1>2, <1>3, <1>5, <1>7 DEF Inv

(* What a command asks the platform: a secret it sends is the stored one, and   *)
(* a rotation is flagged before it leaves.                                      *)
LEMMA SendKeeps ==
    ASSUME Inv, NEW kind \in {"enroll", "call", "rotate"}, Send(Message(kind)),
           kind = "enroll" => pc \in {"enroll", "provision"},
           kind = "call" => pc = "running", kind = "rotate" => pc = "rotate",
           origin' = to, rotating' \in BOOLEAN, rotating \/ kind = "rotate" => rotating',
           UNCHANGED <<serial, code, credentials, hardware>>
    PROVE  Inv'
<1> DEFINE m == Message(kind)
<1> USE DEF outside, command, platform
<1>1. /\ pc # "off" /\ to \in Platforms /\ hardware = board /\ request = None /\ reply = None
      /\ reply' = None /\ request' = m /\ late' = late
  BY DEF Inv, CommandOK, Send, Idle
<1>2. kind # "enroll" => /\ origin = to /\ credentials \in [station : Stations, secret : Secrets]
                         /\ credentials # None /\ credentials.secret.by = to
  BY DEF Inv, CommandOK, TypeOK
<1>3. kind = "enroll" => credentials = None
  BY DEF Inv, CommandOK
<1>4. /\ m \in Messages /\ m.kind = kind /\ m.to = to /\ m.serial = serial
      /\ kind = "enroll" => m.secret = None
      /\ kind # "enroll" => m.secret = credentials.secret /\ m.secret \in Secrets
  BY <1>1, <1>2 DEF Message, Messages, Inv, TypeOK
<1>5. TypeOK'
  <2>1. \A n \in late' \cup ({request'} \ {None}) : n.kind = "enroll" <=> n.secret = None
    BY <1>1, <1>4, Names DEF Inv, TypeOK
  <2> QED
    BY <1>1, <1>4, <2>1 DEF Inv, TypeOK, Send
<1>6. HistoryOK' /\ HardwareOK' /\ CodeUntilAssigned'
  <2>1. usedOn' \in SUBSET (Serials \X Boards)
    BY DEF Send, Inv, HistoryOK, TypeOK
  <2>2. \A s \in Serials, b \in Boards : <<s, b>> \in usedOn' => <<s, b>> \in usedOn \/ (s = serial /\ b = board)
    BY DEF Send
  <2>3. HardwareOK'
    BY <1>1, <2>2 DEF Inv, TypeOK, HardwareOK
  <2> QED
    BY <2>1, <2>3 DEF Send, Inv, HistoryOK, CodeUntilAssigned
<1>7. CommandOK'
  BY <1>1, <1>2 DEF Send, Inv, CommandOK, Idle
<1>8. RequestOK' /\ ReplyOK' /\ AccountsOK'
  BY <1>1, <1>4 DEF Send, Inv, RequestOK, ReplyOK, AccountsOK
<1>9. Carried' = {} /\ Flight \subseteq Flight' /\ \A n \in Flight' : n \in Flight \/ n = m
  BY <1>1 DEF Flight, Carried
<1>10. OneOwner'
  <2>1. \A s \in Serials, x \in Secrets : Owns(s, x)' => Owns(s, x)
    BY <1>2, <1>4, <1>9 DEF Send, Owns
  <2> QED
    BY <2>1, OwnersShrink DEF Send, Inv
<1>11. RotationOK'
  BY <1>2, <1>3, <1>4, <1>9 DEF Inv, RotationOK
<1>12. SecretsStayHome' /\ LostRotationIsFlagged'
  BY <1>1, <1>2, <1>4 DEF Send, Inv, SecretsStayHome, LostRotationIsFlagged
<1> QED
  BY <1>5, <1>6, <1>7, <1>8, <1>10, <1>11, <1>12 DEF Inv

(* Enrollment, a call of the run loop and a rotation. *)
LEMMA AskKeeps ==
    ASSUME Inv, Enroll \/ Call \/ Rotate
    PROVE  Inv'
<1>1. CASE Enroll
  BY <1>1, SendKeeps DEF Enroll, Inv, TypeOK
<1>2. CASE Call
  BY <1>2, SendKeeps DEF Call, db, Inv, TypeOK, CommandOK
<1>3. CASE Rotate
  BY <1>3, SendKeeps DEF Rotate, Inv, TypeOK, CommandOK
<1> QED
  BY <1>1, <1>2, <1>3

-----------------------------------------------------------------------------
(* An exchange ends and no setting changes; a request given up is under way.    *)
LEMMA QuietKeeps ==
    ASSUME Inv, UNCHANGED <<db, outside, to, platform, replaced, usedOn>>, printed' \in BOOLEAN,
           request' = None, reply' = None, Flight' = Flight, pc' \in {pc, "off"}
    PROVE  Inv'
<1> USE DEF db, outside, platform
<1>1. late' = Flight
  BY DEF Flight
<1>2. Carried' = {} 
  BY DEF Carried
<1>3. TypeOK'
  <2>1. pc' \in Pcs
    BY DEF Inv, TypeOK, Pcs
  <2>2. late' \in SUBSET Messages /\ \A m \in late' : m.kind = "enroll" <=> m.secret = None
    BY <1>1 DEF Inv, TypeOK, Flight
  <2> QED
    BY <2>1, <2>2 DEF Inv, TypeOK
<1>4. HistoryOK' /\ HardwareOK' /\ CodeUntilAssigned' /\ RequestOK' /\ ReplyOK' /\ AccountsOK'
  BY DEF Inv, HistoryOK, HardwareOK, CodeUntilAssigned, RequestOK, ReplyOK, AccountsOK
<1>5. CommandOK'
  BY DEF Inv, CommandOK, Idle
<1>6. OneOwner'
  <2>1. \A s \in Serials, x \in Secrets : Owns(s, x)' => Owns(s, x)
    BY <1>2 DEF Owns
  <2> QED
    BY <2>1, OwnersShrink DEF Inv
<1>7. RotationOK'
  BY <1>2 DEF Inv, RotationOK
<1>8. SecretsStayHome' /\ LostRotationIsFlagged'
  BY <1>1 DEF Inv, SecretsStayHome, LostRotationIsFlagged, Flight
<1> QED
  BY <1>3, <1>4, <1>5, <1>6, <1>7, <1>8 DEF Inv

(* Answers that change no setting, failures, and the end of a command. *)
LEMMA EndKeeps ==
    ASSUME Inv, GotPending \/ GotRefusal \/ GotOk \/ RequestFails \/ Stop
    PROVE  Inv'
<1>1. reply # None => request = None
  BY DEF Inv, CommandOK
<1>2. CASE GotPending \/ GotRefusal \/ GotOk
  <2>1. reply # None /\ reply' = None /\ UNCHANGED <<request, late>>
    BY <1>2 DEF GotPending, GotRefusal, GotOk, Got
  <2>2. Flight' = Flight /\ request' = None
    BY <1>1, <2>1 DEF Flight
  <2>3. pc' \in {pc, "off"} /\ printed' \in BOOLEAN
    BY <1>2 DEF GotPending, GotRefusal, GotOk, PrintCode, command, Inv, TypeOK
  <2>4. UNCHANGED <<db, outside, to, platform, replaced, usedOn>>
    BY <1>2 DEF GotPending, GotRefusal, GotOk, command
  <2> QED
    BY <2>1, <2>2, <2>3, <2>4, QuietKeeps
<1>3. CASE RequestFails \/ Stop
  <2>1. request' = None /\ reply' = None /\ late' = Flight
    BY <1>3 DEF RequestFails, Stop, End, Flight
  <2>2. Flight' = Flight
    BY <2>1 DEF Flight
  <2>3. pc' \in {pc, "off"} /\ printed' \in BOOLEAN
    BY <1>3 DEF RequestFails, Stop, PrintCode, Inv, TypeOK
  <2>4. UNCHANGED <<db, outside, to, platform, replaced, usedOn>>
    BY <1>3 DEF RequestFails, Stop
  <2> QED
    BY <2>1, <2>2, <2>3, <2>4, QuietKeeps
<1> QED
  BY <1>2, <1>3

(* Storing what an answer brought: a secret of the platform asked, that no      *)
(* rotation under way can hit.                                                  *)
LEMMA StoreKeeps ==
    ASSUME Inv, reply # None, reply.secret \in Carried, reply' = None, printed' \in BOOLEAN,
           NEW st \in Stations, credentials' = [station |-> st, secret |-> reply.secret],
           code' = FALSE, rotating' \in BOOLEAN, pc' \in {"off", "running"},
           \A m \in Flight : m.kind = "rotate" /\ m.serial = serial => m.secret \notin Carried,
           UNCHANGED <<serial, origin, hardware, outside, to, request, late, platform, replaced, usedOn>>
    PROVE  Inv'
<1> USE DEF outside, platform
<1>1. request = None /\ pc # "off" /\ origin = to /\ to \in Platforms /\ hardware = board
  BY DEF Inv, CommandOK, Idle
<1>2. /\ reply.secret \in Secrets /\ reply.secret.by = to /\ reply.secret \notin replaced
      /\ credentials' # None /\ credentials' \in [station : Stations, secret : Secrets]
      /\ credentials'.secret = reply.secret
  BY Names DEF Inv, ReplyOK, Carried
<1>3. Flight' = Flight /\ Carried' = {} /\ request' = None
  BY <1>1 DEF Flight, Carried
<1>4. TypeOK' /\ HistoryOK' /\ HardwareOK' /\ CodeUntilAssigned'
  BY <1>2 DEF Inv, TypeOK, Pcs, HistoryOK, HardwareOK, CodeUntilAssigned
<1>5. CommandOK' /\ RequestOK' /\ ReplyOK'
  BY <1>1, <1>2, <1>3 DEF CommandOK, RequestOK, ReplyOK, Idle
<1>6. AccountsOK' /\ SecretsStayHome' /\ LostRotationIsFlagged'
  BY <1>2 DEF Inv, AccountsOK, SecretsStayHome, LostRotationIsFlagged
<1>7. OneOwner'
  <2>1. \A s \in Serials, x \in Secrets : Owns(s, x)' => Owns(s, x)
    BY <1>2, <1>3 DEF Owns
  <2> QED
    BY <2>1, OwnersShrink DEF Inv
<1>8. RotationOK'
  BY <1>2, <1>3 DEF RotationOK
<1> QED
  BY <1>4, <1>5, <1>6, <1>7, <1>8 DEF Inv

(* The assignment, and the outcome of a rotation. *)
LEMMA CredentialsArrive ==
    ASSUME Inv, GotAssigned \/ GotRotated
    PROVE  Inv'
<1>1. CASE GotAssigned
  <2>1. reply # None /\ reply' = None /\ reply.secret \in Carried /\ reply.station \in Stations
    BY <1>1 DEF GotAssigned, Got, Inv, ReplyOK, Carried
  <2>2. \A m \in Flight : ~(m.kind = "rotate" /\ m.serial = serial)
    BY <1>1 DEF GotAssigned, Got, Inv, ReplyOK, CommandOK, RotationOK
  <2>3. pc' \in {"off", "running"} /\ printed' \in BOOLEAN /\ rotating' \in BOOLEAN
    BY <1>1 DEF GotAssigned, PrintCode, Inv, TypeOK
  <2> QED
    BY <1>1, <2>1, <2>2, <2>3, StoreKeeps DEF GotAssigned, Got
<1>2. CASE GotRotated
  <2>1. reply # None /\ reply' = None /\ reply.secret \in Carried /\ pc = "rotate" /\ credentials # None
    BY <1>2 DEF GotRotated, Got, Inv, ReplyOK, CommandOK, Carried
  <2>2. credentials \in [station : Stations, secret : Secrets] /\ code = FALSE
    BY <2>1 DEF Inv, TypeOK, CodeUntilAssigned
  <2>3. credentials' = [station |-> credentials.station, secret |-> reply.secret]
    BY <1>2, <2>2 DEF GotRotated
  <2>4. \A m \in Flight : m.kind = "rotate" /\ m.serial = serial => m.secret \notin Carried
    BY DEF Inv, RotationOK
  <2>5. pc' = "off" /\ printed' \in BOOLEAN /\ rotating' = FALSE /\ code' = FALSE
    BY <1>2, <2>2 DEF GotRotated, Inv, TypeOK
  <2> QED
    BY <1>2, <2>1, <2>2, <2>3, <2>4, <2>5, StoreKeeps DEF GotRotated, Got
<1> QED
  BY <1>1, <1>2

-----------------------------------------------------------------------------
(* The two resets: the device forgets its secret. *)
LEMMA ResetKeeps ==
    ASSUME Inv, SoftReset \/ \E s \in Serials : FactoryReset(s)
    PROVE  Inv'
<1> USE DEF outside, network, platform, command
<1>1. /\ pc = "off" /\ request = None /\ reply = None /\ serial' \in Serials
      /\ UNCHANGED <<request, reply, late, accounts, issued, replaced, usedOn, to, printed, pc, url, board>>
      /\ credentials' = None /\ origin' = None /\ rotating' = FALSE /\ code' = TRUE
      /\ hardware' = board
  BY DEF SoftReset, FactoryReset, Operator, BindHardware, Inv, CommandOK, TypeOK
<1>2. \A m \in Flight : m.serial # serial'
  BY <1>1 DEF SoftReset, FactoryReset, Flight
<1>3. TypeOK' /\ HistoryOK' /\ CodeUntilAssigned'
  BY <1>1 DEF Inv, TypeOK, HistoryOK, CodeUntilAssigned
<1>4. CommandOK' /\ RequestOK' /\ ReplyOK' /\ AccountsOK' /\ SecretsStayHome' /\ LostRotationIsFlagged'
  BY <1>1 DEF Inv, CommandOK, Idle, RequestOK, ReplyOK, AccountsOK, SecretsStayHome, LostRotationIsFlagged
<1>5. Flight' = Flight /\ Carried' = {}
  BY <1>1 DEF Flight, Carried
<1>6. OneOwner'
  <2>1. \A s \in Serials, x \in Secrets : Owns(s, x)' => Owns(s, x)
    BY <1>1, <1>5 DEF Owns
  <2> QED
    BY <1>1, <2>1, OwnersShrink DEF Inv
<1>7. RotationOK'
  BY <1>2, <1>5 DEF RotationOK
<1>8. HardwareOK'
  <2>1. CASE SoftReset
    BY <2>1, BindingKeeps DEF SoftReset
  <2>2. CASE \E s \in Serials : FactoryReset(s)
    BY <1>1, <2>2 DEF FactoryReset, Inv, HardwareOK
  <2> QED
    BY <2>1, <2>2
<1> QED
  BY <1>3, <1>4, <1>6, <1>7, <1>8 DEF Inv

(* An edited configuration, and a card put into another board. *)
LEMMA MoveKeeps ==
    ASSUME Inv, (\E p \in Platforms : EditUrl(p)) \/ (\E b \in Boards \cup {NoBoard} : MoveCard(b))
    PROVE  Inv'
<1> USE DEF db, network, platform, command
<1>1. /\ pc = "off" /\ url' \in Platforms /\ board' \in Boards \cup {NoBoard}
      /\ UNCHANGED <<db, command, network, platform, replaced, usedOn>>
  BY DEF EditUrl, MoveCard, Operator, Inv, TypeOK
<1>2. AccountsOK' /\ OneOwner' /\ RotationOK' /\ SecretsStayHome' /\ LostRotationIsFlagged'
  BY <1>1, WorldAlone
<1>3. TypeOK' /\ HistoryOK' /\ CodeUntilAssigned' /\ HardwareOK'
  BY <1>1 DEF Inv, TypeOK, HistoryOK, CodeUntilAssigned, HardwareOK
<1>4. CommandOK' /\ RequestOK' /\ ReplyOK'
  BY <1>1 DEF Inv, CommandOK, Idle, RequestOK, ReplyOK, Carried
<1> QED
  BY <1>2, <1>3, <1>4 DEF Inv

-----------------------------------------------------------------------------
(* What a message does to its account: nothing to the secret, or a rotation. *)
LEMMA EffectOf ==
    ASSUME Inv, NEW m \in Flight, Effect(m)
    PROVE  \E a \in Accounts :
             /\ SetAccount(m.to, m.serial, a)
             /\ a.status = "assigned" => Account(m).status = "assigned" /\ a.station = Account(m).station
             /\ \/ a.secret = Account(m).secret /\ UNCHANGED <<issued, replaced>>
                \/ /\ m.kind = "rotate" /\ Valid(m) /\ a.secret = Fresh(m.to)
                   /\ issued < MaxSecrets /\ issued' = issued + 1 /\ replaced' = replaced \cup {m.secret}
<1>1. m \in Messages
  BY DEF Flight, Inv, TypeOK
<1>2. Account(m) \in Accounts
  BY <1>1 DEF Inv, TypeOK, Messages, Account
<1>3. CASE m.kind = "enroll"
  <2> DEFINE a == IF Account(m).status = "unknown" THEN [Account(m) EXCEPT !.status = "pending"] ELSE Account(m)
  <2>1. SetAccount(m.to, m.serial, a) /\ UNCHANGED <<issued, replaced>>
    BY <1>3 DEF Effect
  <2>2. a \in Accounts /\ a.secret = Account(m).secret
    BY <1>2 DEF Accounts
  <2>3. a.status = "assigned" => Account(m).status = "assigned" /\ a.station = Account(m).station
    BY <1>2 DEF Accounts
  <2> QED
    BY <2>1, <2>2, <2>3
<1>4. CASE m.kind = "rotate" /\ Valid(m)
  <2> DEFINE a == [Account(m) EXCEPT !.secret = Fresh(m.to), !.bootstrap = FALSE]
  <2>1. SetAccount(m.to, m.serial, a) /\ issued < MaxSecrets /\ issued' = issued + 1 /\ replaced' = replaced \cup {m.secret}
    BY <1>4 DEF Effect
  <2>2. Fresh(m.to) \in Secrets
    BY <1>1, <2>1, FreshSecret DEF Messages
  <2>3. a \in Accounts /\ a.secret = Fresh(m.to) /\ a.status = Account(m).status /\ a.station = Account(m).station
    BY <1>2, <2>2 DEF Accounts
  <2> HIDE DEF a
  <2> QED
    BY <1>4, <2>1, <2>3
<1>5. CASE m.kind # "enroll" /\ ~(m.kind = "rotate" /\ Valid(m))
  <2> DEFINE a == [Account(m) EXCEPT !.bootstrap = @ /\ ~Valid(m)]
  <2>1. SetAccount(m.to, m.serial, a) /\ UNCHANGED <<issued, replaced>>
    BY <1>5 DEF Effect
  <2>2. (Account(m).bootstrap /\ ~Valid(m)) \in BOOLEAN
    BY <1>2 DEF Accounts
  <2>3. a \in Accounts /\ a.secret = Account(m).secret /\ a.status = Account(m).status /\ a.station = Account(m).station
    BY <1>2, <2>2 DEF Accounts
  <2> HIDE DEF a
  <2> QED
    BY <2>1, <2>3
<1> QED
  BY <1>3, <1>4, <1>5

(* Serving a message keeps every account in order.  The secret a rotation       *)
(* replaces is the device's own only if the message is, hence flagged.          *)
LEMMA EffectKeeps ==
    ASSUME Inv, NEW m \in Flight, Effect(m), Flight' \subseteq Flight,
           \A x \in Carried' : x \in Carried \/ /\ m.serial = serial
                                                /\ \/ x = Account(m).secret
                                                   \/ x = Fresh(m.to) /\ issued' = issued + 1,
           UNCHANGED <<serial, credentials, rotating, usedOn>>
    PROVE  /\ accounts' \in [Platforms -> [Serials -> Accounts]]
           /\ HistoryOK' /\ AccountsOK' /\ OneOwner' /\ LostRotationIsFlagged'
           /\ \A x \in Carried : x \notin replaced'
<1>1. PICK a \in Accounts :
          /\ SetAccount(m.to, m.serial, a)
          /\ a.status = "assigned" => Account(m).status = "assigned" /\ a.station = Account(m).station
          /\ \/ a.secret = Account(m).secret /\ UNCHANGED <<issued, replaced>>
             \/ /\ m.kind = "rotate" /\ Valid(m) /\ a.secret = Fresh(m.to)
                /\ issued < MaxSecrets /\ issued' = issued + 1 /\ replaced' = replaced \cup {m.secret}
  BY EffectOf
<1>2. m.to \in Platforms /\ m.serial \in Serials /\ (m.kind = "rotate" => m.secret \in Secrets)
  BY DEF Flight, Inv, TypeOK, Messages
<1>3. /\ accounts' \in [Platforms -> [Serials -> Accounts]] /\ accounts'[m.to][m.serial] = a
      /\ \A q \in Platforms, r \in Serials :
             ~(q = m.to /\ r = m.serial) => accounts'[q][r] = accounts[q][r]
  BY <1>1, <1>2, OneAccount DEF Inv
<1>4. issued \in Nat /\ replaced \subseteq Secrets /\ OneOwner
  BY DEF Inv, HistoryOK
<1>5. \A p \in Platforms, s \in Serials : accounts'[p][s].status = "assigned" => accounts'[p][s].station \in Stations
  BY <1>1, <1>2, <1>3 DEF Inv, AccountsOK, Account
<1>6. CASE a.secret = Account(m).secret /\ UNCHANGED <<issued, replaced>>
  <2>1. \A p \in Platforms, s \in Serials : accounts'[p][s].secret = accounts[p][s].secret
    BY <1>3, <1>6 DEF Account
  <2>2. AccountsOK'
    BY <1>5, <1>6, <2>1 DEF Inv, AccountsOK
  <2>3. \A s \in Serials, x \in Secrets : Owns(s, x)' => Owns(s, x)
    BY <1>2, <1>4, <1>6, <2>1 DEF Owns, Account
  <2>4. OneOwner'
    BY <1>4, <1>6, <2>3, OwnersShrink
  <2> QED
    BY <1>3, <1>6, <2>2, <2>4 DEF Inv, HistoryOK, LostRotationIsFlagged, ReplyOK, Carried
<1>7. CASE /\ m.kind = "rotate" /\ Valid(m) /\ a.secret = Fresh(m.to)
           /\ issued < MaxSecrets /\ issued' = issued + 1 /\ replaced' = replaced \cup {m.secret}
  <2>1. Fresh(m.to) \in Secrets /\ Fresh(m.to).by = m.to /\ Fresh(m.to).n = issued + 1
    BY <1>2, <1>7, FreshSecret
  <2>2. m.secret \in Secrets /\ m.secret.by = m.to /\ Owns(m.serial, m.secret)
    BY <1>2, <1>7 DEF Inv, SecretsStayHome, Owns, Flight
  <2>3. \A x \in Secrets : x.n \in Nat
    BY DEF Secrets
  <2>4. Fresh(m.to) \notin replaced'
    BY <1>2, <1>4, <1>7, <2>1, <2>2, <2>3 DEF OneOwner
  <2>5. \A s \in Serials : Owns(s, m.secret) => s = m.serial
    BY <1>2, <1>4, <2>2 DEF OneOwner
  <2>6. AccountsOK'
    <3>1. ASSUME NEW p \in Platforms, NEW s \in Serials, accounts'[p][s].secret # None
          PROVE  accounts'[p][s].secret.by = p /\ accounts'[p][s].secret \notin replaced'
      <4>1. CASE p = m.to /\ s = m.serial
        BY <1>3, <1>7, <2>1, <2>4, <4>1
      <4>2. CASE ~(p = m.to /\ s = m.serial)
        <5>1. /\ accounts'[p][s].secret = accounts[p][s].secret
              /\ accounts[p][s].secret.by = p /\ accounts[p][s].secret \notin replaced
          BY <1>3, <3>1, <4>2 DEF Inv, AccountsOK
        <5>2. accounts[p][s].secret # m.secret
          BY <2>2, <2>5, <4>2, <5>1 DEF Owns
        <5> QED
          BY <1>7, <5>1, <5>2
      <4> QED
        BY <4>1, <4>2
    <3> QED
      BY <1>5, <3>1 DEF AccountsOK
  <2>7. \A s \in Serials, x \in Secrets : Owns(s, x)' => Owns(s, x) \/ (s = m.serial /\ x = Fresh(m.to))
    <3>1. \A p \in Platforms, s \in Serials : accounts'[p][s].secret = accounts[p][s].secret
                                              \/ (s = m.serial /\ accounts'[p][s].secret = Fresh(m.to))
      BY <1>3, <1>7
    <3> QED
      BY <1>2, <3>1 DEF Owns, Account
  <2>8. OneOwner'
    BY <1>2, <1>7, <2>2, <2>7, OwnersGrow
  <2>9. m.serial = serial => m.secret \notin Carried /\ (credentials # None /\ m.secret = credentials.secret => rotating)
    BY <1>7 DEF Inv, RotationOK
  <2>10. serial \in Serials
    BY DEF Inv, TypeOK
  <2>11. \A x \in Carried : x \notin replaced'
    <3>1. \A x \in Carried : x \notin replaced
      BY DEF Inv, ReplyOK, Carried
    <3>2. m.secret \in Carried => m.serial = serial
      BY <2>5, <2>10 DEF Owns
    <3> QED
      BY <1>7, <2>9, <3>1, <3>2
  <2>12. LostRotationIsFlagged'
    <3>1. credentials # None /\ m.secret = credentials.secret => m.serial = serial
      BY <2>5, <2>10 DEF Owns
    <3> QED
      BY <1>7, <2>9, <3>1 DEF Inv, LostRotationIsFlagged
  <2>13. HistoryOK'
    BY <1>7, <2>2 DEF Inv, HistoryOK
  <2> QED
    BY <1>3, <2>6, <2>8, <2>11, <2>12, <2>13
<1> QED
  BY <1>1, <1>6, <1>7

(* A request is answered. *)
LEMMA AnswerKeeps ==
    ASSUME Inv, Answer
    PROVE  Inv'
<1> USE DEF db, outside, command
<1> DEFINE m == request
<1>1. /\ m # None /\ reply = None /\ request' = None /\ reply' = AnswerTo(m) /\ late' = late /\ Effect(m)
      /\ UNCHANGED <<db, outside, command, late, ops, usedOn>>
  BY DEF Answer, Inv, CommandOK
<1>2. /\ m \in Flight /\ m \in Messages /\ m.to = to /\ m.serial = serial
      /\ to \in Platforms /\ serial \in Serials
      /\ origin = to /\ pc # "off"
      /\ m.kind = "enroll" => pc \in {"enroll", "provision"} /\ credentials = None
      /\ m.kind = "call" => pc = "running"
      /\ m.kind = "rotate" => pc = "rotate"
  BY <1>1 DEF Flight, Inv, TypeOK, Messages, RequestOK, CommandOK, Idle
<1>3. Account(m) \in Accounts /\ m.kind \in {"enroll", "call", "rotate"}
  BY <1>2 DEF Inv, TypeOK, Messages, Account
<1>4. Flight' \subseteq Flight /\ late \subseteq Flight /\ Flight' = late /\ Carried = {}
  BY <1>1 DEF Flight, Carried
<1>5. \/ /\ m.kind = "enroll" /\ reply'.kind \in {"pending", "assigned", "revoked"}
         /\ reply'.kind = "assigned" => /\ Account(m).status = "assigned"
                                        /\ reply'.station = Account(m).station
                                        /\ reply'.secret \in {None, Account(m).secret}
      \/ m.kind # "enroll" /\ reply'.kind \in {"denied", "ok"}
      \/ /\ m.kind = "rotate" /\ Valid(m) /\ reply'.kind = "rotated" /\ reply'.secret = Fresh(m.to)
         /\ issued < MaxSecrets /\ issued' = issued + 1
  <2>1. CASE m.kind = "enroll"
    <3>1. reply' = [kind    |-> IF Account(m).status = "unknown" THEN "pending" ELSE Account(m).status,
                    station |-> Account(m).station,
                    secret  |-> IF Account(m).bootstrap THEN Account(m).secret ELSE None]
      BY <1>1, <2>1 DEF AnswerTo
    <3> QED
      BY <1>3, <2>1, <3>1 DEF Accounts
  <2>2. CASE m.kind = "rotate" /\ Valid(m)
    BY <1>1, <2>2 DEF AnswerTo, Effect
  <2>3. CASE m.kind # "enroll" /\ ~(m.kind = "rotate" /\ Valid(m))
    BY <1>1, <1>3, <2>3 DEF AnswerTo
  <2> QED
    BY <1>3, <2>1, <2>2, <2>3
<1>6. \A x \in Carried' : /\ x = Account(m).secret \/ (x = Fresh(m.to) /\ issued' = issued + 1 /\ issued < MaxSecrets)
                          /\ m.kind \in {"enroll", "rotate"}
                          /\ m.kind = "rotate" => x = Fresh(m.to) /\ issued < MaxSecrets
  BY <1>5, Names DEF Carried
<1>7. /\ accounts' \in [Platforms -> [Serials -> Accounts]]
      /\ HistoryOK' /\ AccountsOK' /\ OneOwner' /\ LostRotationIsFlagged'
  BY <1>1, <1>2, <1>4, <1>6, EffectKeeps
<1>8. TypeOK'
  BY <1>1, <1>7 DEF Inv, TypeOK
<1>9. CommandOK' /\ RequestOK' /\ HardwareOK' /\ CodeUntilAssigned'
  <2>1. CommandOK'
    BY <1>1, <1>2 DEF Inv, CommandOK, Idle
  <2> QED
    BY <1>1, <2>1 DEF Inv, RequestOK, HardwareOK, CodeUntilAssigned
<1>10. SecretsStayHome'
  BY <1>1 DEF Inv, SecretsStayHome
<1>11. ReplyOK'
  <2>1. reply'.kind = "rotated" => reply'.secret \in Secrets
    BY <1>2, <1>5, FreshSecret
  <2>2. reply'.kind = "assigned" => reply'.station \in Stations /\ reply'.secret \in Secrets \cup {None}
    BY <1>2, <1>3, <1>5 DEF Inv, AccountsOK, Account, Accounts
  <2>3. \A x \in Carried' : x.by = to' /\ x \notin replaced'
    <3>1. SUFFICES ASSUME NEW x \in Carried' PROVE x.by = to /\ x \notin replaced'
      BY <1>1
    <3>2. CASE m.kind = "enroll"
      <4>1. x \in Secrets /\ reply'.kind \in {"assigned", "rotated"} /\ reply'.secret = x
        BY <3>1 DEF Carried
      <4>2. x # None
        BY <4>1, Names
      <4>3. x = Account(m).secret
        BY <1>5, <3>2, <4>1, <4>2
      <4>4. replaced' = replaced
        BY <1>1, <3>2 DEF Effect
      <4> QED
        BY <1>2, <4>2, <4>3, <4>4 DEF Inv, AccountsOK, Account
    <3>3. CASE m.kind = "rotate"
      <4>1. x = Fresh(m.to) /\ issued < MaxSecrets /\ Valid(m)
        BY <1>5, <1>6, <3>3 DEF Carried
      <4>2. Fresh(m.to).by = m.to /\ Fresh(m.to).n = issued + 1
        BY <1>2, <4>1, FreshSecret
      <4>3. replaced' = replaced \cup {m.secret}
        BY <1>1, <3>3, <4>1 DEF Effect
      <4>4. m.secret \in Secrets /\ Owns(m.serial, m.secret) /\ m.serial \in Serials
        BY <1>2, <3>3 DEF Inv, TypeOK, Flight, Messages, Owns
      <4>5. \A y \in replaced' : y.n <= issued
        BY <4>3, <4>4 DEF Inv, OneOwner
      <4>6. issued \in Nat
        BY DEF Inv, HistoryOK
      <4> QED
        BY <1>2, <4>1, <4>2, <4>5, <4>6
    <3> QED
      BY <1>6, <3>2, <3>3
  <2> QED
    BY <1>1, <1>2, <1>5, <2>1, <2>2, <2>3 DEF ReplyOK
<1>12. RotationOK'
  <2>1. SUFFICES ASSUME NEW n \in late, n.kind = "rotate", n.serial = serial
                 PROVE  n.secret \notin Carried'
    BY <1>1, <1>4 DEF Inv, RotationOK
  <2>2. n \in Flight /\ credentials # None
    BY <1>4, <2>1 DEF Inv, RotationOK
  <2>3. n.secret \in Secrets /\ Owns(serial, n.secret) /\ serial \in Serials
    BY <2>1, <2>2 DEF Inv, TypeOK, Flight, Messages, Owns
  <2>4. n.secret.n <= issued /\ issued \in Nat
    BY <2>3 DEF Inv, OneOwner, HistoryOK
  <2>5. n.secret \in Carried' => n.secret.n = issued + 1
    BY <1>2, <1>6, <2>2, FreshSecret
  <2> QED
    BY <2>4, <2>5
<1> QED
  BY <1>7, <1>8, <1>9, <1>10, <1>11, <1>12 DEF Inv

(* A request that was given up arrives, or is lost. *)
LEMMA LateKeeps ==
    ASSUME Inv, \E m \in late : LateArrives(m) \/ LateLost(m)
    PROVE  Inv'
<1> USE DEF db, outside, command, platform
<1>1. PICK m \in late : LateArrives(m) \/ LateLost(m)
  OBVIOUS
<1>2. /\ late' = late \ {m}
      /\ UNCHANGED <<db, outside, command, request, reply, usedOn>>
  BY <1>1 DEF LateArrives, LateLost
<1>3. m \in Flight /\ Flight' \subseteq Flight /\ Carried' = Carried
  BY <1>2 DEF Flight, Carried
<1>4. /\ accounts' \in [Platforms -> [Serials -> Accounts]]
      /\ HistoryOK' /\ AccountsOK' /\ OneOwner' /\ LostRotationIsFlagged'
      /\ \A x \in Carried : x \notin replaced'
  <2>1. CASE LateArrives(m)
    BY <1>2, <1>3, <2>1, EffectKeeps DEF LateArrives
  <2>2. CASE LateLost(m)
    <3>1. UNCHANGED <<accounts, issued, replaced>>
      BY <2>2 DEF LateLost
    <3>2. \A s \in Serials, x \in Secrets : Owns(s, x)' => Owns(s, x)
      BY <1>2, <1>3, <3>1 DEF Owns
    <3>3. OneOwner'
      BY <3>1, <3>2, OwnersShrink DEF Inv
    <3> QED
      BY <1>2, <3>1, <3>3 DEF Inv, TypeOK, HistoryOK, AccountsOK, LostRotationIsFlagged, ReplyOK, Carried
  <2> QED
    BY <1>1, <2>1, <2>2
<1>5. TypeOK' /\ SecretsStayHome'
  BY <1>2, <1>4 DEF Inv, TypeOK, SecretsStayHome
<1>6. CommandOK' /\ RequestOK' /\ HardwareOK' /\ CodeUntilAssigned'
  BY <1>2 DEF Inv, CommandOK, Idle, RequestOK, HardwareOK, CodeUntilAssigned
<1>7. ReplyOK'
  BY <1>2, <1>3, <1>4 DEF Inv, ReplyOK
<1>8. RotationOK'
  BY <1>2, <1>3 DEF Inv, RotationOK
<1> QED
  BY <1>4, <1>5, <1>6, <1>7, <1>8 DEF Inv

(* The customer's claim, and an administrator who revokes it. *)
LEMMA OwnersKeep ==
    ASSUME Inv, NEW p \in Platforms, NEW s \in Serials,
           (\E st \in Stations : Claim(p, s, st)) \/ (\E status \in {"pending", "revoked"} : Administer(p, s, status))
    PROVE  Inv'
<1> USE DEF db, outside, command, network
<1>1. UNCHANGED <<db, outside, command, network, replaced, usedOn>>
  BY DEF Claim, Administer
<1>2. PICK a \in Accounts :
          /\ SetAccount(p, s, a)
          /\ a.status = "assigned" => a.station \in Stations
          /\ \/ a.secret = None /\ issued' = issued
             \/ a.secret = Fresh(p) /\ issued < MaxSecrets /\ issued' = issued + 1
  <2>1. CASE \E st \in Stations : Claim(p, s, st)
    <3>1. PICK st \in Stations : Claim(p, s, st)
      BY <2>1
    <3> DEFINE a == [status |-> "assigned", station |-> st, secret |-> Fresh(p), bootstrap |-> TRUE]
    <3>2. issued < MaxSecrets /\ issued' = issued + 1 /\ SetAccount(p, s, a)
      BY <3>1 DEF Claim
    <3>3. a \in Accounts
      BY <3>2, FreshSecret DEF Accounts
    <3> QED
      BY <3>2, <3>3
  <2>2. CASE \E status \in {"pending", "revoked"} : Administer(p, s, status)
    <3>1. PICK status \in {"pending", "revoked"} : Administer(p, s, status)
      BY <2>2
    <3> DEFINE a == [NoAccount EXCEPT !.status = status]
    <3>2. SetAccount(p, s, a) /\ issued' = issued
      BY <3>1 DEF Administer
    <3>3. a \in Accounts /\ a.secret = None /\ a.status # "assigned"
      BY DEF Accounts, NoAccount
    <3> HIDE DEF a
    <3> QED
      BY <3>2, <3>3
  <2> QED
    BY <2>1, <2>2
<1>3. /\ accounts' \in [Platforms -> [Serials -> Accounts]] /\ accounts'[p][s] = a
      /\ \A q \in Platforms, r \in Serials : ~(q = p /\ r = s) => accounts'[q][r] = accounts[q][r]
  BY <1>2, OneAccount DEF Inv
<1>4. Flight' = Flight /\ Carried' = Carried /\ OneOwner /\ issued \in 0..MaxSecrets
  BY <1>1 DEF Flight, Carried, Inv, HistoryOK
<1>5. issued' \in 0..MaxSecrets
  BY <1>2, <1>4
<1>6. AccountsOK'
  <2>1. a.secret # None => a.secret.by = p /\ a.secret \notin replaced
    <3>1. \A x \in replaced : x.n <= issued
      BY <1>4 DEF OneOwner
    <3> QED
      BY <1>2, <1>4, <3>1, FreshSecret
  <2>2. ASSUME NEW q \in Platforms, NEW r \in Serials
        PROVE  /\ accounts'[q][r].status = "assigned" => accounts'[q][r].station \in Stations
               /\ accounts'[q][r].secret # None =>
                      accounts'[q][r].secret.by = q /\ accounts'[q][r].secret \notin replaced
    BY <1>2, <1>3, <2>1 DEF Inv, AccountsOK
  <2> QED
    BY <1>1, <2>2 DEF AccountsOK
<1>7. OneOwner'
  <2>1. CASE a.secret = None /\ issued' = issued
    <3>1. \A r \in Serials, x \in Secrets : Owns(r, x)' => Owns(r, x)
      BY <1>1, <1>3, <1>4, <2>1, Names DEF Owns
    <3> QED
      BY <1>1, <1>4, <2>1, <3>1, OwnersShrink
  <2>2. CASE a.secret = Fresh(p) /\ issued < MaxSecrets /\ issued' = issued + 1
    <3>1. \A r \in Serials, x \in Secrets : Owns(r, x)' => Owns(r, x) \/ (r = s /\ x = Fresh(p))
      BY <1>1, <1>3, <1>4, <2>2 DEF Owns
    <3>2. \A x \in replaced' : x \in replaced
      BY <1>1
    <3> QED
      BY <2>2, <3>1, <3>2, OwnersGrow
  <2> QED
    BY <1>2, <2>1, <2>2
<1>8. TypeOK' /\ HistoryOK' /\ CommandOK' /\ RequestOK'
  BY <1>1, <1>3, <1>5 DEF Inv, TypeOK, HistoryOK, CommandOK, Idle, RequestOK
<1>9. ReplyOK' /\ RotationOK'
  BY <1>1, <1>4 DEF Inv, ReplyOK, RotationOK
<1>10. HardwareOK' /\ CodeUntilAssigned' /\ SecretsStayHome' /\ LostRotationIsFlagged'
  BY <1>1 DEF Inv, HardwareOK, CodeUntilAssigned, SecretsStayHome, LostRotationIsFlagged
<1> QED
  BY <1>6, <1>7, <1>8, <1>9, <1>10 DEF Inv

-----------------------------------------------------------------------------
(* A device that was never switched on. *)
LEMMA InitHolds == Init => Inv
<1> SUFFICES ASSUME Init PROVE Inv
  OBVIOUS
<1>1. Flight = {} /\ Carried = {}
  BY DEF Init, Flight, Carried
<1>2. NoAccount \in Accounts /\ NoAccount.secret = None /\ NoAccount.status # "assigned"
  BY DEF NoAccount, Accounts
<1>3. \A s \in Serials, x \in Secrets : ~Owns(s, x)
  BY <1>1, <1>2, Names DEF Init, Owns
<1>4. TypeOK
  BY <1>2 DEF Init, TypeOK, Pcs
<1>5. HistoryOK /\ CommandOK /\ RequestOK /\ ReplyOK /\ HardwareOK /\ CodeUntilAssigned
  BY DEF Init, HistoryOK, CommandOK, Idle, RequestOK, ReplyOK, HardwareOK, CodeUntilAssigned
<1>6. AccountsOK
  BY <1>2 DEF Init, AccountsOK
<1>7. OneOwner
  BY <1>3 DEF Init, OneOwner
<1>8. RotationOK /\ SecretsStayHome /\ LostRotationIsFlagged
  BY <1>1 DEF Init, RotationOK, SecretsStayHome, LostRotationIsFlagged
<1> QED
  BY <1>4, <1>5, <1>6, <1>7, <1>8 DEF Inv

(* One case per action. *)
LEMMA NextKeeps == Inv /\ [Next]_vars => Inv'
<1> SUFFICES ASSUME Inv, [Next]_vars PROVE Inv'
  OBVIOUS
<1>1. CASE Device
  <2>1. CASE StartRun \/ StartProvision \/ StartRotate
    BY <2>1, StartKeeps
  <2>2. CASE ProvisionAssigned \/ StartRefused
    BY <2>2, ShortKeeps
  <2>3. CASE Enroll \/ Call \/ Rotate
    BY <2>3, AskKeeps
  <2>4. CASE GotPending \/ GotRefusal \/ GotOk \/ RequestFails \/ Stop
    BY <2>4, EndKeeps
  <2>5. CASE GotAssigned \/ GotRotated
    BY <2>5, CredentialsArrive
  <2> QED
    BY <1>1, <2>1, <2>2, <2>3, <2>4, <2>5 DEF Device
<1>2. CASE People
  <2>1. CASE SoftReset \/ \E s \in Serials : FactoryReset(s)
    BY <2>1, ResetKeeps
  <2>2. CASE (\E p \in Platforms : EditUrl(p)) \/ (\E b \in Boards \cup {NoBoard} : MoveCard(b))
    BY <2>2, MoveKeeps
  <2> QED
    BY <1>2, <2>1, <2>2 DEF People
<1>3. CASE Platform
  <2>1. CASE Answer
    BY <2>1, AnswerKeeps
  <2>2. CASE \E m \in late : LateArrives(m) \/ LateLost(m)
    BY <2>2, LateKeeps
  <2>3. CASE \E p \in Platforms, s \in Serials :
                 \/ \E st \in Stations : Claim(p, s, st)
                 \/ \E status \in {"pending", "revoked"} : Administer(p, s, status)
    BY <2>3, OwnersKeep
  <2> QED
    BY <1>3, <2>1, <2>2, <2>3 DEF Platform
<1>4. CASE UNCHANGED vars
  BY <1>4, StutterKeeps
<1> QED
  BY <1>1, <1>2, <1>3, <1>4 DEF Next

-----------------------------------------------------------------------------
(* The device, the network and the platforms agree on who holds which secret,   *)
(* in every state.                                                              *)
THEOREM Invariance == Spec => []Inv
BY InitHolds, NextKeeps, PTL DEF Spec

(* cli.py binds the state to an origin before the first request: a secret is    *)
(* only ever sent to the platform that issued it, whatever platform_url says    *)
(* and however the device was reset.                                            *)
THEOREM SecretsStay == Spec => []SecretsStayHome
<1>1. Inv => SecretsStayHome
  BY DEF Inv
<1> QED
  BY <1>1, Invariance, PTL

(* rotate_credential raises the flag before its request: once the platform has  *)
(* revoked the stored secret the flag is up, however the request fared and      *)
(* however many of them were lost.                                              *)
THEOREM RotationsFlagged == Spec => []LostRotationIsFlagged
<1>1. Inv => LostRotationIsFlagged
  BY DEF Inv
<1> QED
  BY <1>1, Invariance, PTL

(* bind_hardware, clear_assignment and accept_enrollment_response: the settings *)
(* are well formed, an identity is used on one board, and an activation code is *)
(* kept exactly while the device is not assigned.                               *)
THEOREM StateCoherent == Spec => []StateIsCoherent
<1>1. Inv => StateIsCoherent
  <2> SUFFICES ASSUME Inv PROVE StateIsCoherent
    OBVIOUS
  <2>1. ASSUME NEW s \in Serials
        PROVE  Cardinality({b \in Boards : <<s, b>> \in usedOn}) <= 1
    <3> DEFINE B == {b \in Boards : <<s, b>> \in usedOn}
    <3>1. CASE B = {}
      <4>1. Cardinality(B) = 0
        BY <3>1, FS_EmptySet
      <4> QED
        BY <4>1
    <3>2. CASE B # {}
      <4>1. PICK b \in B : TRUE
        BY <3>2
      <4>2. B = {b}
        BY <4>1 DEF Inv, HardwareOK
      <4>3. Cardinality(B) = 1
        BY <4>2, FS_Singleton
      <4> QED
        BY <4>3
    <3> QED
      BY <3>1, <3>2
  <2> QED
    BY <2>1 DEF Inv, StateIsCoherent, OneBoardPerIdentity
<1> QED
  BY <1>1, Invariance, PTL

=============================================================================
