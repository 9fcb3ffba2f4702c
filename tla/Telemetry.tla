------------------------------ MODULE Telemetry ------------------------------
(***************************************************************************)
(* The telemetry path of the EMS device: the durable outbox of state.py,   *)
(* Agent.sample, Agent.sync and Agent.upload of agent.py, the "run" loop   *)
(* of cli.py that calls them, the two operator resets, and the platform    *)
(* as those calls see it.                                                  *)
(*                                                                         *)
(* A telemetry item is known by (boot_id, sequence).  A row of the outbox  *)
(* is that item with its AUTOINCREMENT id.  The field "station" of a row   *)
(* is a ghost: the payload does not carry it, it records under which       *)
(* assignment the reading was taken.                                       *)
(***************************************************************************)
EXTENDS Integers, FiniteSets

CONSTANTS
    Stations,     \* station assignments the platform can hand out
    NoStation,    \* no credentials / no cached policy
    Boots,        \* process boot ids (uuid4 in the code)
    NoBoot,       \* no agent process
    Capacity,     \* outbox capacity (17280 in the code)
    Batch,        \* rows of one upload (50 in the code)
    MaxSamples,   \* bound: readings taken in a behaviour
    MaxLate,      \* bound: abandoned requests still on their way
    Poison        \* ids of the rows the platform refuses as retryable for ever

ASSUME StationsAssumption == NoStation \notin Stations
ASSUME BootsAssumption    == NoBoot \notin Boots
ASSUME CapacityAssumption == Capacity \in Nat \ {0} /\ Batch \in Nat \ {0}
ASSUME BoundsAssumption   == MaxSamples \in Nat /\ MaxLate \in Nat
ASSUME PoisonAssumption   == Poison \subseteq Nat

VARIABLES
    (* agent.sqlite: survives a crash *)
    outbox,       \* rows waiting for the platform
    lastId,       \* sqlite_sequence: the largest id ever given out
    deadLetter,   \* rows set aside for an operator, each with a reason
    credentials,  \* the station of the stored credentials
    config,       \* the station whose policy is cached in station_config
    (* the agent process *)
    pc,           \* where the run loop is
    boot,         \* boot_id of the process
    sequence,     \* sequence of its next item
    syncDue,      \* now >= next_sync
    batch,        \* the rows read by pending(), held across the POST
    (* the network *)
    request,      \* the POST being awaited
    reply,        \* its answer
    late,         \* POSTs the process gave up on, still on their way
    (* the platform *)
    active,       \* stations whose credentials it honours
    stored,       \* items it has taken, each under a station
    (* history *)
    measured,     \* every row ever committed to the outbox
    wiped,        \* rows erased by a factory reset
    lastSync      \* outcome of this process's last sync

durable  == <<outbox, lastId, deadLetter, credentials, config>>
process  == <<pc, boot, sequence, syncDue, batch, lastSync>>
network  == <<request, reply, late>>
platform == <<active, stored>>
history  == <<measured, wiped>>
vars     == <<durable, process, network, platform, history>>

Row       == [id : 1..MaxSamples, boot : Boots, seq : 0..MaxSamples, station : Stations]
Reasons   == {"assignment_reset", "rejected"}
NoRequest == [station |-> NoStation, rows |-> {}]
NoReply   == [kind |-> "none"]
Requests  == [station : Stations, rows : SUBSET Row]
Tallies   == [accepted : Nat, duplicates : Nat, rejected : Nat]
Statuses  == {"accepted", "duplicate", "rejected"}
Receipts  == [boot : Boots, seq : Nat, status : Statuses, retryable : BOOLEAN]

Ids(rows) == {r.id : r \in rows}

(* State.pending: the oldest rows, by id, up to the batch limit. *)
Pending == {r \in outbox : Cardinality({q \in outbox : q.id < r.id}) < Batch}

-----------------------------------------------------------------------------
(* The platform's answers. *)

(* It recognises an item of a station by (boot_id, sequence). *)
Held(r, s) == \E x \in stored : /\ x.under = s
                                /\ x.row.boot = r.boot
                                /\ x.row.seq = r.seq

Outcomes == {"accepted", "duplicate", "permanent", "retry"}

(* What it may decide about each row of a request made for station s. *)
Verdicts(rows, s) ==
    {v \in [rows -> Outcomes] :
        \A r \in rows : /\ v[r] = "duplicate" <=> Held(r, s)
                        /\ r.id \in Poison => v[r] = "retry"}

Store(rows, s, v) ==
    stored' = stored \cup {[row |-> r, under |-> s] : r \in {q \in rows : v[q] = "accepted"}}

Receipt(r, outcome) ==
    [boot |-> r.boot, seq |-> r.seq,
     status |-> IF outcome \in {"permanent", "retry"} THEN "rejected" ELSE outcome,
     retryable |-> outcome = "retry"]

Tally(results) ==
    LET Of(status) == Cardinality({r \in DOMAIN results : results[r].status = status})
    IN  [accepted |-> Of("accepted"), duplicates |-> Of("duplicate"), rejected |-> Of("rejected")]

(* A platform that tells no lies about an item may still answer without      *)
(* per-item results (the older protocol), or with receipts that are missing, *)
(* repeated or out of order, or with counters that do not add up.            *)
Replies(rows, v) ==
    LET honest == [r \in rows |-> Receipt(r, v[r])]
        tally  == Tally(honest)
        shapes == {rows} \cup {rows \ {r} : r \in rows}
        orders == UNION {[shape -> rows] : shape \in shapes}
    IN  {[kind |-> "counts", counts |-> tally]}
        \cup {[kind |-> "items", counts |-> tally,
               results |-> [r \in DOMAIN order |-> honest[order[r]]]] : order \in orders}
        \cup {[kind |-> "items", counts |-> [tally EXCEPT !.rejected = @ + 1],
               results |-> honest]}

-----------------------------------------------------------------------------
(* What the device makes of an answer. *)

(* Mutant: receipts matched by position alone. *)
ReceiptsByPosition(rows, answer) ==
    DOMAIN answer.results = rows /\ answer.counts = Tally(answer.results)

(* Agent._validate_item_receipts: one receipt per row, in the order sent. *)
ValidItemReceipts(rows, answer) ==
    /\ DOMAIN answer.results = rows
    /\ \A r \in rows : LET c == answer.results[r]
                       IN  /\ c.boot = r.boot /\ c.seq = r.seq
                           /\ c.status # "rejected" => ~c.retryable
    /\ answer.counts = Tally(answer.results)

(* Without per-item results only a complete success identifies anything. *)
CompleteSuccess(rows, answer) ==
    /\ answer.counts.rejected = 0
    /\ answer.counts.accepted + answer.counts.duplicates = Cardinality(rows)

Acknowledged(rows, answer) == {r \in rows : answer.results[r].status # "rejected"}
Permanent(rows, answer) ==
    {r \in rows : answer.results[r].status = "rejected" /\ ~answer.results[r].retryable}

(* The INSERT would break UNIQUE(original_outbox_id): the transaction aborts. *)
Conflict(rows) == \E r \in rows, d \in deadLetter : d.row.id = r.id

(* Mutant: a cumulative acknowledgement. *)
AllAfter(rows) == {r \in outbox : \A q \in rows : q.id < r.id}

(* The rows left in the outbox once these are deleted by id. *)
Without(rows) == {r \in outbox : r.id \notin Ids(rows)}

(* Mutant: all or nothing, one retryable row holds back its whole batch. *)
SettlesTogether(rows, answer) ==
    \/ answer.kind = "counts" /\ CompleteSuccess(rows, answer)
    \/ /\ answer.kind = "items" /\ ValidItemReceipts(rows, answer)
       /\ \A r \in rows : ~answer.results[r].retryable

(* The answer settles the whole batch: it is valid and its transaction commits. *)
Settles(rows, answer) ==
    \/ answer.kind = "counts" /\ CompleteSuccess(rows, answer)
    \/ /\ answer.kind = "items" /\ ValidItemReceipts(rows, answer)
       /\ LET rejected == Permanent(rows, answer)
          IN  Ids(rejected) \subseteq Ids(outbox) /\ ~Conflict(rejected)

(* Mutant: rejected rows are dropped. *)
Discard(rows, reason)  == deadLetter' = deadLetter
SetAside(rows, reason) == deadLetter' = deadLetter \cup {[row |-> r, reason |-> reason] : r \in rows}

-----------------------------------------------------------------------------
Init ==
    /\ outbox = {} /\ lastId = 0 /\ deadLetter = {}
    /\ credentials = NoStation /\ config = NoStation
    /\ pc = "down" /\ boot = NoBoot /\ sequence = 0 /\ syncDue = TRUE /\ batch = {}
    /\ request = NoRequest /\ reply = NoReply /\ late = {}
    /\ active = {} /\ stored = {}
    /\ measured = {} /\ wiped = {} /\ lastSync = "none"

(* uuid4: an id no earlier process used for a reading. *)
(* Mutant: the boot id survives a restart. *)
AnyBoots   == Boots
FreshBoots == Boots \ {m.boot : m \in measured}

(* The process ends; all it had in memory is gone. *)
ProcessEnds ==
    /\ pc' = "down" /\ boot' = NoBoot /\ sequence' = 0 /\ syncDue' = TRUE
    /\ batch' = {} /\ lastSync' = "none"

(* systemd starts "ems-device run": State(), then a fresh process_boot_id. *)
Start ==
    /\ pc = "down"
    /\ boot' \in FreshBoots
    /\ pc' = IF credentials = NoStation THEN "enroll" ELSE "startup"
    /\ UNCHANGED <<durable, sequence, syncDue, batch, lastSync, network, platform, history>>

(* The enrollment loop ends with credentials for a station (Credentials     *)
(* tells how); the same process goes on to its startup sync.                *)
Enroll(s) ==
    /\ pc = "enroll"
    /\ credentials' = s
    /\ active' = active \cup {s}
    /\ pc' = "startup"
    /\ UNCHANGED <<outbox, lastId, deadLetter, config, boot, sequence, syncDue, batch,
                   lastSync, network, stored, history>>

-----------------------------------------------------------------------------
(* Agent.sync, at startup and then at most once a minute. *)

Syncing == pc \in {"startup", "sync"}

SyncOk ==
    /\ Syncing /\ credentials \in active
    /\ config' = credentials
    /\ lastSync' = "ok"
    /\ pc' = IF pc = "startup" THEN "top" ELSE "upload"
    /\ syncDue' = (pc = "startup")
    /\ UNCHANGED <<outbox, lastId, deadLetter, credentials, boot, sequence, batch,
                   network, platform, history>>

(* The answer to GET /config names station s: refused before it is cached   *)
(* when s is not the station of the credentials, cached when only the       *)
(* heartbeat that follows fails.                                            *)
SyncFails(s) ==
    /\ Syncing
    /\ config' = IF s = credentials THEN s ELSE config
    /\ IF pc = "startup" /\ config' = NoStation
       THEN ProcessEnds
       ELSE /\ pc' = "top" /\ lastSync' = "failed"
            /\ UNCHANGED <<boot, sequence, syncDue, batch>>
    /\ UNCHANGED <<outbox, lastId, deadLetter, credentials, network, platform, history>>

(* 401/403: CredentialInactiveError ends the process. *)
SyncUnauthorized ==
    /\ Syncing /\ credentials \notin active
    /\ ProcessEnds
    /\ UNCHANGED <<durable, network, platform, history>>

-----------------------------------------------------------------------------
(* One turn of the loop: a sample, then the cloud if its time has come. *)

(* Mutant: one row too many. *)
HasRoomForOne == Cardinality(outbox) <= Capacity

HasRoom == Cardinality(outbox) < Capacity

(* Mutant: a plain rowid, the successor of the largest id in the table. *)
ReusedId == CHOOSE n \in 1..(lastId + 1) : Ids(outbox) \subseteq 0..(n - 1) /\ n - 1 \in Ids(outbox) \cup {0}

(* AUTOINCREMENT never gives an id twice, not even after DELETE. *)
NextId == lastId + 1

(* Agent.sample with State.enqueue; the commit and the increment of the      *)
(* volatile sequence are one step, as a crash between them erases the latter. *)
Sample ==
    /\ pc = "top"
    /\ HasRoom /\ lastId < MaxSamples
    /\ LET row == [id |-> NextId, boot |-> boot, seq |-> sequence, station |-> credentials]
       IN  /\ outbox' = outbox \cup {row}
           /\ measured' = measured \cup {row}
    /\ lastId' = NextId
    /\ sequence' = sequence + 1
    /\ pc' = "cloud"
    /\ UNCHANGED <<deadLetter, credentials, config, boot, syncDue, batch, lastSync,
                   network, platform, wiped>>

(* No telemetry to read, a failed or invalid reading, or a full outbox. *)
NoSample ==
    /\ pc = "top"
    /\ pc' = "cloud"
    /\ UNCHANGED <<durable, boot, sequence, syncDue, batch, lastSync, network, platform, history>>

CloudNotDue ==
    /\ pc = "cloud"
    /\ pc' = "top"
    /\ UNCHANGED <<durable, boot, sequence, syncDue, batch, lastSync, network, platform, history>>

(* Mutant: a cached policy is taken for a sync. *)
CloudDueWithCachedPolicy ==
    /\ pc = "cloud"
    /\ pc' = IF syncDue /\ config = NoStation THEN "sync" ELSE "upload"
    /\ UNCHANGED <<durable, boot, sequence, syncDue, batch, lastSync, network, platform, history>>

CloudDue ==
    /\ pc = "cloud"
    /\ pc' = IF syncDue THEN "sync" ELSE "upload"
    /\ UNCHANGED <<durable, boot, sequence, syncDue, batch, lastSync, network, platform, history>>

(* A minute has passed since the last successful sync of the loop. *)
SyncTimer ==
    /\ pc \in {"top", "cloud"} /\ ~syncDue
    /\ syncDue' = TRUE
    /\ UNCHANGED <<durable, pc, boot, sequence, batch, lastSync, network, platform, history>>

-----------------------------------------------------------------------------
(* Agent.upload. *)

NothingPending ==
    /\ pc = "upload" /\ outbox = {}
    /\ pc' = "top"
    /\ UNCHANGED <<durable, boot, sequence, syncDue, batch, lastSync, network, platform, history>>

Send ==
    /\ pc = "upload" /\ outbox # {}
    /\ batch' = Pending
    /\ request' = [station |-> credentials, rows |-> Pending]
    /\ pc' = "wait"
    /\ UNCHANGED <<durable, boot, sequence, syncDue, lastSync, reply, late, platform, history>>

Done == /\ pc' = "top" /\ batch' = {} /\ reply' = NoReply /\ request' = NoRequest
        /\ UNCHANGED <<lastId, credentials, config, boot, sequence, syncDue, lastSync, late,
                       platform, history>>

(* State.acknowledge of the whole batch. *)
AcknowledgeAll ==
    /\ pc = "wait" /\ reply.kind = "counts" /\ Settles(batch, reply)
    /\ outbox' = Without(batch)
    /\ deadLetter' = deadLetter
    /\ Done

(* State.apply_item_receipts: one transaction. *)
ApplyItemReceipts ==
    /\ pc = "wait" /\ reply.kind = "items" /\ Settles(batch, reply)
    /\ LET rejected == Permanent(batch, reply)
           remove   == Acknowledged(batch, reply) \cup rejected
       IN  /\ SetAside(rejected, "rejected")
           /\ outbox' = Without(remove)
    /\ Done

(* A malformed or partial answer, or a transaction that aborts: all rows stay. *)
KeepAll ==
    /\ pc = "wait" /\ reply.kind \in {"counts", "items"}
    /\ ~Settles(batch, reply)
    /\ UNCHANGED <<outbox, deadLetter>>
    /\ Done

UploadUnauthorized ==
    /\ pc = "wait" /\ reply.kind = "unauthorized"
    /\ ProcessEnds /\ reply' = NoReply
    /\ UNCHANGED <<durable, request, late, platform, history>>

(* The process stops listening: an unanswered request may still arrive. *)
Abandon ==
    /\ \/ late' = late
       \/ request # NoRequest /\ Cardinality(late) < MaxLate /\ late' = late \cup {request}
    /\ request' = NoRequest /\ reply' = NoReply

(* Time-out, connection error or 5xx; the POST may have been processed. *)
UploadFails ==
    /\ pc = "wait"
    /\ Abandon
    /\ pc' = "top" /\ batch' = {}
    /\ UNCHANGED <<durable, boot, sequence, syncDue, lastSync, platform, history>>

(* SIGKILL, power loss, or SIGTERM between two steps of the loop. *)
Crash ==
    /\ pc # "down"
    /\ Abandon
    /\ ProcessEnds
    /\ UNCHANGED <<durable, platform, history>>

-----------------------------------------------------------------------------
(* "ems-device reset", by an operator; agent.lock keeps the agent out. *)

(* Mutant: the queue goes on under the next assignment. *)
ClearCredentials ==
    /\ pc = "down"
    /\ credentials' = NoStation /\ config' = NoStation
    /\ UNCHANGED <<outbox, lastId, deadLetter, process, network, platform, history>>

ClearAssignment ==
    /\ pc = "down" /\ ~Conflict(outbox)
    /\ SetAside(outbox, "assignment_reset")
    /\ outbox' = {} /\ credentials' = NoStation /\ config' = NoStation
    /\ UNCHANGED <<lastId, process, network, platform, history>>

FactoryReset ==
    /\ pc = "down"
    /\ wiped' = wiped \cup outbox \cup {d.row : d \in deadLetter}
    /\ outbox' = {} /\ deadLetter' = {} /\ credentials' = NoStation /\ config' = NoStation
    /\ UNCHANGED <<lastId, process, network, platform, measured>>

-----------------------------------------------------------------------------
(* The platform. *)

Handle(v, answer) ==
    /\ request # NoRequest /\ request.station \in active
    /\ v \in Verdicts(request.rows, request.station)
    /\ answer \in Replies(request.rows, v)
    /\ Store(request.rows, request.station, v)
    /\ reply' = answer
    /\ request' = NoRequest
    /\ UNCHANGED <<durable, process, late, active, history>>

HandleSome == \E v \in Verdicts(request.rows, request.station) :
                 \E answer \in Replies(request.rows, v) : Handle(v, answer)

RefuseCredentials ==
    /\ request # NoRequest /\ request.station \notin active
    /\ reply' = [kind |-> "unauthorized"]
    /\ request' = NoRequest
    /\ UNCHANGED <<durable, process, late, platform, history>>

(* An abandoned POST arrives after all; nobody reads the answer. *)
HandleLate(q) ==
    /\ q.station \in active
    /\ \E v \in Verdicts(q.rows, q.station) : Store(q.rows, q.station, v)
    /\ late' = late \ {q}
    /\ UNCHANGED <<durable, process, request, reply, active, history>>

LoseLate(q) ==
    /\ late' = late \ {q}
    /\ UNCHANGED <<durable, process, request, reply, platform, history>>

(* The station is revoked or the device transferred. *)
Revoke(s) ==
    /\ active' = active \ {s}
    /\ UNCHANGED <<durable, process, network, stored, history>>

-----------------------------------------------------------------------------
Next ==
    \/ Start
    \/ \E s \in Stations : Enroll(s)
    \/ SyncOk
    \/ \E s \in Stations \cup {NoStation} : SyncFails(s)
    \/ SyncUnauthorized
    \/ Sample \/ NoSample
    \/ CloudNotDue \/ CloudDue \/ SyncTimer
    \/ NothingPending \/ Send
    \/ AcknowledgeAll \/ ApplyItemReceipts \/ KeepAll
    \/ UploadUnauthorized \/ UploadFails
    \/ Crash
    \/ ClearAssignment \/ FactoryReset
    \/ HandleSome \/ RefuseCredentials
    \/ \E q \in late : HandleLate(q) \/ LoseLate(q)
    \/ \E s \in active : Revoke(s)

Spec == Init /\ [][Next]_vars
-----------------------------------------------------------------------------
(* Properties. *)

(* The shape of every variable, with the capacity of the queue. *)
TypeOK ==
    /\ outbox \subseteq Row /\ Cardinality(outbox) <= Capacity
    /\ lastId \in 0..MaxSamples
    /\ deadLetter \subseteq [row : Row, reason : Reasons]
    /\ credentials \in Stations \cup {NoStation}
    /\ config \in Stations \cup {NoStation}
    /\ pc \in {"down", "enroll", "startup", "top", "cloud", "sync", "upload", "wait"}
    /\ boot \in Boots \cup {NoBoot}
    /\ sequence \in 0..lastId
    /\ syncDue \in BOOLEAN
    /\ batch \subseteq Row
    /\ request \in Requests \cup {NoRequest}
    /\ reply = NoReply \/ reply.kind \in {"unauthorized", "counts", "items"}
    /\ late \subseteq Requests
    /\ active \subseteq Stations
    /\ stored \subseteq [row : Row, under : Stations]
    /\ measured \subseteq Row /\ wiped \subseteq Row
    /\ lastSync \in {"none", "ok", "failed"}

Queued      == outbox
Delivered   == {x.row : x \in stored}
Quarantined == {d.row : d \in deadLetter}

(* A reading committed to the outbox is never lost without a trace: it is    *)
(* still queued, taken by the platform, set aside for the operator, or       *)
(* erased by an explicit factory reset.  Lost answers, crashes, restarts,    *)
(* malformed receipts and resets are all in between (Agent.upload,           *)
(* State.apply_item_receipts, State.clear_assignment).                       *)
NoSilentLoss == measured \subseteq Queued \cup Delivered \cup Quarantined \cup wiped

(* No reading taken under one assignment is kept for, sent with, or stored   *)
(* under another one, however late a request arrives; and the cached policy  *)
(* is never that of another station (clear_assignment, the station_mismatch  *)
(* test of Agent.sync).                                                      *)
OwnStationOnly ==
    /\ \A r \in outbox : r.station = credentials
    /\ \A q \in late \cup {request} : \A r \in q.rows : r.station = q.station
    /\ \A x \in stored : x.row.station = x.under
    /\ config \in {credentials, NoStation}

(* The platform tells readings apart by (boot_id, sequence): no two readings *)
(* ever measured share them, across crashes, resets and restarts.            *)
KeysUnique == \A m, n \in measured : m.boot = n.boot /\ m.seq = n.seq => m = n

(* The queue holds its capacity, and every reading in it has a key of its own. *)
OutboxIsSound == TypeOK /\ KeysUnique

(* What upload() read before the POST is still queued when the answer comes, *)
(* and no transaction that moves rows to dead_letter can abort on its UNIQUE *)
(* column: ids are never given out twice, not even after a reset.            *)
ReceiptsApply == batch \subseteq outbox /\ ~Conflict(outbox)

(* A process uploads only when its own last sync succeeded: a cached policy  *)
(* lets it sample through an outage, but after a failed sync or one that     *)
(* named another station no telemetry leaves the device.                     *)
UploadsFollowGoodSync == pc \in {"upload", "wait"} => lastSync = "ok" /\ config = credentials

(* A row leaves the outbox only while the agent holds an answer about that   *)
(* very row, or by an operator's reset with the agent stopped; newer         *)
(* readings never push out older ones (State.enqueue).                       *)
OnlySettledRowsLeave ==
    [][\A r \in outbox \ outbox' :
          \/ pc = "wait" /\ r \in batch /\ (r \in Delivered \/ r \in {d.row : d \in deadLetter'})
          \/ pc = "down" /\ credentials' = NoStation]_vars

-----------------------------------------------------------------------------
(* What the outbox promises (module Delivery), kept by every step above: a   *)
(* reading leaves the queue only when the platform holds it, or quarantined, *)
(* or erased, and a whole answer is applied at once.                         *)
Promise == INSTANCE Delivery WITH
    Readings    <- Row,
    queued      <- Queued,
    delivered   <- Delivered,
    quarantined <- Quarantined,
    erased      <- wiped

ImplementsDelivery == Promise!Spec

(* An exchange in which only poisonous rows are put off, with valid receipts. *)
HandleWell ==
    \E v \in Verdicts(request.rows, request.station) :
        /\ \A r \in request.rows : v[r] = "retry" => r.id \in Poison
        /\ \E answer \in Replies(request.rows, v) :
              /\ answer.kind = "items" /\ ValidItemReceipts(request.rows, answer)
              /\ Handle(v, answer)

(* The outage ends: the loop goes on (its waits are bounded), systemd starts *)
(* the process again, and what the network or the platform can do again and  *)
(* again it does in the end, an exchange that goes well included.            *)
Fairness ==
    /\ WF_vars(Start)
    /\ SF_vars(pc = "startup" /\ SyncOk)
    /\ SF_vars(Sample \/ NoSample)
    /\ SF_vars(CloudDue)
    /\ SF_vars(pc = "sync" /\ SyncOk)
    /\ SF_vars(Send)
    /\ SF_vars(HandleWell)
    /\ SF_vars(ApplyItemReceipts /\ \A r \in batch : reply.results[r].retryable => r.id \in Poison)
    /\ SF_vars(AcknowledgeAll \/ ApplyItemReceipts \/ KeepAll)

FairSpec == Spec /\ Fairness

(* Rows the platform refuses for ever as "retryable" hold a place at the    *)
(* head of every batch.  As long as they are fewer than a batch, every other *)
(* row leaves the outbox in the end, unless the platform revoked the         *)
(* credentials: no backoff, restart or lost answer blocks the queue.         *)
EveryRowSettles ==
    \A i \in (1..MaxSamples) \ Poison :
        (i \in Ids(outbox)) ~> (i \notin Ids(outbox) \/ credentials \notin active)

=============================================================================
