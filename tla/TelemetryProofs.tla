--------------------------- MODULE TelemetryProofs ---------------------------
(***************************************************************************)
(* Proofs about module Telemetry, for every value of its constants: the    *)
(* type invariant, that no reading is lost silently, and that stations are *)
(* never mixed.                                                            *)
(***************************************************************************)
EXTENDS Telemetry, FiniteSetTheorems, TLAPS

(* Where the loop is says what the process holds: nothing is in flight but   *)
(* while it waits, and then it waits for the batch it sent.                  *)
Control ==
    /\ pc \notin {"down", "enroll"} => credentials \in Stations
    /\ pc = "enroll" => credentials = NoStation
    /\ pc # "down" => boot \in Boots
    /\ pc # "wait" => request = NoRequest /\ reply = NoReply /\ batch = {}
    /\ request # NoRequest => /\ request = [station |-> credentials, rows |-> batch]
                              /\ reply = NoReply

(* Every row, wherever it is, was measured; a queued one is nowhere else on  *)
(* the device.                                                               *)
RowsMeasured ==
    /\ IsFiniteSet(outbox)
    /\ outbox \subseteq measured /\ Quarantined \subseteq measured /\ Delivered \subseteq measured
    /\ wiped \subseteq measured
    /\ \A q \in late \cup {request} : q.rows \subseteq measured
    /\ batch \subseteq outbox
    /\ outbox \cap Quarantined = {}

(* Ids and item keys run ahead of everything measured so far. *)
KeysFresh ==
    /\ \A m \in measured : m.id <= lastId
    /\ \A m, n \in measured : m.id = n.id => m = n
    /\ pc # "down" => \A m \in measured : m.boot = boot => m.seq < sequence

(* An answer that says an item was taken says so of an item the platform holds. *)
AnswerHonest ==
    /\ reply.kind = "counts" /\ CompleteSuccess(batch, reply) =>
          \A r \in batch : \E x \in stored :
             x.row.boot = r.boot /\ x.row.seq = r.seq /\ x.under = credentials
    /\ reply.kind = "items" =>
          \A p \in DOMAIN reply.results : reply.results[p].status # "rejected" =>
             \E x \in stored : /\ x.row.boot = reply.results[p].boot
                               /\ x.row.seq = reply.results[p].seq
                               /\ x.under = credentials

Inv ==
    /\ TypeOK /\ Control /\ RowsMeasured /\ KeysFresh /\ AnswerHonest
    /\ NoSilentLoss /\ OwnStationOnly /\ KeysUnique

-----------------------------------------------------------------------------
(* What the platform says it took, it holds once it has answered. *)
LEMMA AcceptedIsHeld ==
    ASSUME NEW rows, NEW s, NEW v \in Verdicts(rows, s), Store(rows, s, v),
           NEW r \in rows, v[r] \in {"accepted", "duplicate"}
    PROVE  \E x \in stored' : x.row.boot = r.boot /\ x.row.seq = r.seq /\ x.under = s
<1>1. CASE v[r] = "accepted"
  <2>1. [row |-> r, under |-> s] \in stored'
    BY <1>1 DEF Store
  <2> QED
    BY <2>1
<1>2. CASE v[r] = "duplicate"
  BY <1>2 DEF Verdicts, Held, Store
<1> QED
  BY <1>1, <1>2

(* Receipts, in whatever order, speak the truth about the items they name. *)
LEMMA ReceiptsAreTrue ==
    ASSUME NEW rows, NEW s, NEW v \in Verdicts(rows, s), Store(rows, s, v),
           NEW answer \in Replies(rows, v), answer.kind = "items",
           NEW p \in DOMAIN answer.results, answer.results[p].status # "rejected"
    PROVE  \E x \in stored' : /\ x.row.boot = answer.results[p].boot
                              /\ x.row.seq = answer.results[p].seq
                              /\ x.under = s
<1> DEFINE honest == [r \in rows |-> Receipt(r, v[r])]
<1>1. \E r \in rows : answer.results[p] = Receipt(r, v[r])
  BY DEF Replies
<1>2. PICK r \in rows : answer.results[p] = Receipt(r, v[r])
  BY <1>1
<1>3. v[r] \in {"accepted", "duplicate"}
  BY <1>2 DEF Receipt, Verdicts, Outcomes
<1> QED
  BY <1>2, <1>3, AcceptedIsHeld DEF Receipt

(* Counters without a rejection speak for every row of the batch. *)
LEMMA CountsAreTrue ==
    ASSUME NEW rows, IsFiniteSet(rows), NEW s, NEW v \in Verdicts(rows, s), Store(rows, s, v),
           NEW answer \in Replies(rows, v), answer.kind = "counts", CompleteSuccess(rows, answer),
           NEW r \in rows
    PROVE  \E x \in stored' : x.row.boot = r.boot /\ x.row.seq = r.seq /\ x.under = s
<1> DEFINE honest  == [q \in rows |-> Receipt(q, v[q])]
           refused == {q \in DOMAIN honest : honest[q].status = "rejected"}
<1>1. answer.counts.rejected = Cardinality(refused)
  <2>1. answer.counts = Tally(honest)
    BY DEF Replies
  <2>2. Tally(honest).rejected = Cardinality(refused)
    BY DEF Tally
  <2> QED
    BY <2>1, <2>2
<1>2. IsFiniteSet(refused)
  BY FS_Subset
<1>3. refused = {}
  BY <1>1, <1>2, FS_EmptySet DEF CompleteSuccess
<1>4. v[r] \in {"accepted", "duplicate"}
  BY <1>3 DEF Receipt, Verdicts, Outcomes
<1> QED
  BY <1>4, AcceptedIsHeld

-----------------------------------------------------------------------------
LEMMA InitInv == Init => Inv
<1> SUFFICES ASSUME Init PROVE Inv
  OBVIOUS
<1>1. IsFiniteSet({}) /\ Cardinality({}) = 0
  BY FS_EmptySet
<1> QED
  BY <1>1, CapacityAssumption, BoundsAssumption
  DEF Init, Inv, TypeOK, Control, RowsMeasured, KeysFresh, AnswerHonest, NoSilentLoss,
      OwnStationOnly, KeysUnique, Quarantined, Delivered, Queued, NoRequest, NoReply

FlagsTyped == lastSync' \in {"none", "ok", "failed"} /\ syncDue' \in BOOLEAN

(* Steps that touch neither a table nor the network. *)
QuietStep ==
    /\ UNCHANGED <<outbox, lastId, deadLetter, credentials, request, reply, late, batch,
                   platform, history>>
    /\ config' \in {credentials, NoStation}
    /\ FlagsTyped
    /\ boot' \in Boots \cup {NoBoot}
    /\ \/ sequence' = sequence
       \/ sequence' = 0 /\ pc' = "down"
    /\ pc' \in {"down", "enroll", "startup", "top", "cloud", "sync", "upload", "wait"}
    /\ pc' \notin {"down", "enroll"} => credentials \in Stations
    /\ pc' = "enroll" => credentials = NoStation
    /\ pc' = "wait" <=> pc = "wait"
    /\ pc' # "down" => /\ boot' \in Boots
                       /\ \/ pc # "down" /\ boot' = boot
                          \/ boot' \in FreshBoots

LEMMA QuietStepInv == Inv /\ QuietStep => Inv'
<1> SUFFICES ASSUME Inv, QuietStep PROVE Inv'
  OBVIOUS
<1> USE DEF QuietStep, Inv, platform, history
<1>1. TypeOK'
  BY DEF TypeOK, FlagsTyped
<1>2. Control'
  BY DEF Control, TypeOK
<1>3. RowsMeasured'
  BY DEF RowsMeasured, Quarantined, Delivered
<1>4. KeysFresh'
  BY DEF KeysFresh, FreshBoots
<1>5. AnswerHonest'
  BY DEF AnswerHonest, CompleteSuccess
<1>6. NoSilentLoss'
  BY DEF NoSilentLoss, Queued, Delivered, Quarantined
<1>7. OwnStationOnly'
  BY DEF OwnStationOnly
<1>8. KeysUnique'
  BY DEF KeysUnique
<1> QED
  BY <1>1, <1>2, <1>3, <1>4, <1>5, <1>6, <1>7, <1>8
(* The process stops listening, or is gone. *)
LeaveStep ==
    /\ UNCHANGED <<durable, platform, history>>
    /\ \/ late' = late
       \/ request # NoRequest /\ late' = late \cup {request}
    /\ request' = NoRequest /\ reply' = NoReply /\ batch' = {}
    /\ \/ ProcessEnds
       \/ pc = "wait" /\ pc' = "top" /\ UNCHANGED <<boot, sequence, syncDue, lastSync>>

LEMMA LeaveStepInv == Inv /\ LeaveStep => Inv'
<1> SUFFICES ASSUME Inv, LeaveStep PROVE Inv'
  OBVIOUS
<1> USE DEF Inv, LeaveStep, ProcessEnds, durable, platform, history
<1>1. TypeOK'
  <2>1. late' \subseteq Requests
    BY DEF TypeOK
  <2>2. sequence' \in 0..lastId'
    BY BoundsAssumption DEF TypeOK
  <2>3. boot' \in Boots \cup {NoBoot} /\ lastSync' \in {"none", "ok", "failed"}
    BY DEF TypeOK
  <2>4. syncDue' \in BOOLEAN
    BY DEF TypeOK
  <2> QED
    BY <2>1, <2>2, <2>3, <2>4 DEF TypeOK
<1>2. Control'
  BY DEF Control, TypeOK
<1>3. RowsMeasured'
  BY DEF RowsMeasured, Quarantined, Delivered, NoRequest
<1>4. KeysFresh'
  BY DEF KeysFresh, RowsMeasured
<1>5. AnswerHonest'
  BY DEF AnswerHonest, NoReply
<1>6. NoSilentLoss'
  BY DEF NoSilentLoss, Queued, Delivered, Quarantined
<1>7. OwnStationOnly'
  BY DEF OwnStationOnly, NoRequest
<1>8. KeysUnique'
  BY DEF KeysUnique
<1> QED
  BY <1>1, <1>2, <1>3, <1>4, <1>5, <1>6, <1>7, <1>8

LEMMA EnrollInv == Inv /\ (\E s \in Stations : Enroll(s)) => Inv'
<1> SUFFICES ASSUME Inv, (\E s \in Stations : Enroll(s)) PROVE Inv'
  OBVIOUS
<1> USE DEF Inv, Enroll, network, history
<1>1. TypeOK'
  BY DEF TypeOK
<1>2. Control'
  BY DEF Control, TypeOK
<1>3. RowsMeasured'
  BY DEF RowsMeasured, Quarantined, Delivered
<1>4. KeysFresh'
  BY DEF KeysFresh, RowsMeasured
<1>5. AnswerHonest'
  BY DEF AnswerHonest, Control, NoReply
<1>6. NoSilentLoss'
  BY DEF NoSilentLoss, Queued, Delivered, Quarantined
<1>7. OwnStationOnly'
  BY StationsAssumption DEF OwnStationOnly, TypeOK, Row, Control, NoRequest
<1>8. KeysUnique'
  BY DEF KeysUnique
<1> QED
  BY <1>1, <1>2, <1>3, <1>4, <1>5, <1>6, <1>7, <1>8

LEMMA SendInv == Inv /\ Send => Inv'
<1> SUFFICES ASSUME Inv, Send PROVE Inv'
  OBVIOUS
<1> USE DEF Inv, Send, durable, platform, history
<1>a. Pending \subseteq outbox
  BY DEF Pending
<1>b. request'.rows = Pending /\ request'.station = credentials
  OBVIOUS
<1>1. TypeOK'
  BY <1>a DEF TypeOK, Requests, Control
<1>2. Control'
  BY DEF Control, TypeOK
<1>3. RowsMeasured'
  BY <1>a, <1>b DEF RowsMeasured, Quarantined, Delivered
<1>4. KeysFresh'
  BY DEF KeysFresh, RowsMeasured
<1>5. AnswerHonest'
  BY DEF AnswerHonest, Control, NoReply
<1>6. NoSilentLoss'
  BY DEF NoSilentLoss, Queued, Delivered, Quarantined
<1>7. OwnStationOnly'
  BY <1>a, <1>b DEF OwnStationOnly, Control
<1>8. KeysUnique'
  BY DEF KeysUnique
<1> QED
  BY <1>1, <1>2, <1>3, <1>4, <1>5, <1>6, <1>7, <1>8


LEMMA SampleInv == Inv /\ Sample => Inv'
<1> SUFFICES ASSUME Inv, Sample PROVE Inv'
  OBVIOUS
<1> USE DEF Inv, network, platform
<1> DEFINE row == [id |-> NextId, boot |-> boot, seq |-> sequence, station |-> credentials]
<1>1. /\ outbox' = outbox \cup {row} /\ measured' = measured \cup {row}
      /\ lastId' = lastId + 1 /\ sequence' = sequence + 1 /\ lastId < MaxSamples
      /\ boot \in Boots /\ credentials \in Stations /\ pc = "top" /\ pc' = "cloud"
      /\ lastId \in Nat /\ sequence \in 0..lastId
      /\ UNCHANGED <<deadLetter, credentials, config, boot, syncDue, batch, lastSync,
                     request, reply, late, active, stored, wiped>>
  BY BoundsAssumption DEF Sample, Control, TypeOK, NextId
<1>2. row \in Row
  BY <1>1, BoundsAssumption DEF Row, NextId
<1>3. \A m \in measured : m.id < row.id /\ ~(m.boot = row.boot /\ m.seq = row.seq)
  BY <1>1 DEF KeysFresh, NextId, TypeOK, Row
<1>4. IsFiniteSet(outbox') /\ Cardinality(outbox') <= Capacity
  <2>1. Cardinality(outbox) < Capacity /\ Cardinality(outbox) \in Nat
    BY FS_CardinalityType DEF Sample, HasRoom, RowsMeasured
  <2> HIDE DEF row
  <2>2. /\ IsFiniteSet(outbox \cup {row})
        /\ Cardinality(outbox \cup {row}) \in {Cardinality(outbox), Cardinality(outbox) + 1}
    BY FS_AddElement DEF RowsMeasured
  <2> QED
    BY <1>1, <2>1, <2>2, CapacityAssumption
<1>5. row \notin measured
  BY <1>3
<1> HIDE DEF row
<1>6. TypeOK'
  BY <1>1, <1>2, <1>4, BoundsAssumption DEF TypeOK
<1>7. Control'
  BY <1>1 DEF Control
<1>8. RowsMeasured'
  BY <1>1, <1>4, <1>5 DEF RowsMeasured, Quarantined, Delivered
<1>9. KeysFresh'
  BY <1>1, <1>3, BoundsAssumption DEF KeysFresh, NextId, TypeOK, Row, row
<1>10. AnswerHonest'
  BY <1>1 DEF AnswerHonest, CompleteSuccess
<1>11. NoSilentLoss'
  BY <1>1 DEF NoSilentLoss, Queued, Delivered, Quarantined
<1>12. OwnStationOnly'
  BY <1>1 DEF OwnStationOnly, row
<1>13. KeysUnique'
  BY <1>1, <1>3 DEF KeysUnique
<1> QED
  BY <1>6, <1>7, <1>8, <1>9, <1>10, <1>11, <1>12, <1>13

LEMMA SetAsideQuarantines ==
    ASSUME NEW rows, NEW reason, SetAside(rows, reason)
    PROVE  Quarantined' = Quarantined \cup rows
<1>1. ASSUME NEW r \in Quarantined' PROVE r \in Quarantined \cup rows
  BY <1>1 DEF SetAside, Quarantined
<1>2. ASSUME NEW r \in Quarantined PROVE r \in Quarantined'
  BY <1>2 DEF SetAside, Quarantined
<1>3. ASSUME NEW r \in rows PROVE r \in Quarantined'
  <2>1. [row |-> r, reason |-> reason] \in deadLetter'
    BY <1>3 DEF SetAside
  <2> QED
    BY <2>1 DEF Quarantined
<1> QED
  BY <1>1, <1>2, <1>3

(* Deleting by id deletes exactly the rows meant, for ids are unique. *)
LEMMA WithoutIsExact ==
    ASSUME Inv, NEW rows \in SUBSET outbox
    PROVE  Without(rows) = outbox \ rows
BY DEF Without, Ids, Inv, KeysFresh, RowsMeasured

(* An answer taken: every row that leaves is held by the platform or set aside. *)
SettleStep ==
    /\ \E done, refused \in SUBSET batch :
          /\ done \subseteq Delivered
          /\ SetAside(refused, "rejected")
          /\ outbox' = outbox \ (done \cup refused)
    /\ pc = "wait" /\ Done

LEMMA SettleStepInv == Inv /\ SettleStep => Inv'
<1> SUFFICES ASSUME Inv, SettleStep PROVE Inv'
  OBVIOUS
<1> USE DEF Inv, SettleStep, Done, platform, history
<1>1. PICK done \in SUBSET batch, refused \in SUBSET batch :
         /\ done \subseteq Delivered
         /\ SetAside(refused, "rejected")
         /\ outbox' = outbox \ (done \cup refused)
  OBVIOUS
<1>2. Quarantined' = Quarantined \cup refused
  BY <1>1, SetAsideQuarantines
<1>3. deadLetter' \subseteq [row : Row, reason : Reasons]
  BY <1>1 DEF SetAside, TypeOK, Reasons
<1>4. IsFiniteSet(outbox') /\ Cardinality(outbox') <= Capacity
  <2>1. IsFiniteSet(outbox) /\ outbox' \subseteq outbox /\ Cardinality(outbox) <= Capacity
    BY <1>1 DEF RowsMeasured, TypeOK
  <2>2. IsFiniteSet(outbox') /\ Cardinality(outbox') <= Cardinality(outbox)
    BY <2>1, FS_Subset
  <2> QED
    BY <2>1, <2>2, FS_CardinalityType, CapacityAssumption
<1>5. TypeOK'
  BY <1>1, <1>3, <1>4 DEF TypeOK
<1>6. Control'
  BY DEF Control
<1>7. RowsMeasured'
  BY <1>1, <1>2, <1>4 DEF RowsMeasured, Delivered, NoRequest
<1>8. KeysFresh'
  BY DEF KeysFresh
<1>9. AnswerHonest'
  BY DEF AnswerHonest, NoReply
<1>10. NoSilentLoss'
  BY <1>1, <1>2 DEF NoSilentLoss, Queued, Delivered
<1>11. OwnStationOnly'
  BY <1>1 DEF OwnStationOnly, NoRequest
<1>12. KeysUnique'
  BY DEF KeysUnique
<1> QED
  BY <1>5, <1>6, <1>7, <1>8, <1>9, <1>10, <1>11, <1>12

(* Under the invariant an answer settles only rows the platform holds. *)
LEMMA AnswersSettle ==
    Inv /\ (AcknowledgeAll \/ ApplyItemReceipts) => SettleStep
<1>1. ASSUME Inv, AcknowledgeAll PROVE SettleStep
  <2>1. CompleteSuccess(batch, reply) /\ reply.kind = "counts"
    BY <1>1 DEF AcknowledgeAll, Settles
  <2>2. ASSUME NEW r \in batch PROVE r \in Delivered
    <3>1. PICK x \in stored : x.row.boot = r.boot /\ x.row.seq = r.seq
      BY <1>1, <2>1, <2>2 DEF Inv, AnswerHonest
    <3>2. x.row \in measured /\ r \in measured
      BY <1>1, <2>2 DEF Inv, RowsMeasured, Delivered
    <3>3. x.row = r
      BY <1>1, <3>1, <3>2 DEF Inv, KeysUnique
    <3> QED
      BY <3>3 DEF Delivered
  <2>3. Without(batch) = outbox \ batch
    BY <1>1, WithoutIsExact DEF Inv, RowsMeasured
  <2>4. SetAside({}, "rejected") /\ outbox' = outbox \ (batch \cup {}) /\ Done /\ pc = "wait"
    BY <1>1, <2>3 DEF AcknowledgeAll, SetAside
  <2>5. batch \in SUBSET batch /\ {} \in SUBSET batch /\ batch \subseteq Delivered
    BY <2>2
  <2> QED
    BY <2>4, <2>5 DEF SettleStep
<1>2. ASSUME Inv, ApplyItemReceipts PROVE SettleStep
  <2> DEFINE done    == Acknowledged(batch, reply)
             refused == Permanent(batch, reply)
  <2>1. ValidItemReceipts(batch, reply) /\ reply.kind = "items"
    BY <1>2 DEF ApplyItemReceipts, Settles
  <2>2. ASSUME NEW r \in done PROVE r \in Delivered
    <3>1. r \in batch /\ r \in DOMAIN reply.results /\ reply.results[r].status # "rejected"
      BY <2>1, <2>2 DEF Acknowledged, ValidItemReceipts
    <3>2. reply.results[r].boot = r.boot /\ reply.results[r].seq = r.seq
      BY <2>1, <3>1 DEF ValidItemReceipts
    <3>3. PICK x \in stored : x.row.boot = r.boot /\ x.row.seq = r.seq
      BY <1>2, <2>1, <3>1, <3>2 DEF Inv, AnswerHonest
    <3>4. x.row \in measured /\ r \in measured
      BY <1>2, <3>1 DEF Inv, RowsMeasured, Delivered
    <3>5. x.row = r
      BY <1>2, <3>3, <3>4 DEF Inv, KeysUnique
    <3> QED
      BY <3>5 DEF Delivered
  <2>3. done \in SUBSET batch /\ refused \in SUBSET batch
    BY DEF Acknowledged, Permanent
  <2>4. Without(done \cup refused) = outbox \ (done \cup refused)
    BY <1>2, <2>3, WithoutIsExact DEF Inv, RowsMeasured
  <2>5. SetAside(refused, "rejected") /\ outbox' = outbox \ (done \cup refused) /\ Done /\ pc = "wait"
    BY <1>2, <2>4 DEF ApplyItemReceipts
  <2> HIDE DEF done, refused
  <2> QED
    BY <2>2, <2>3, <2>5 DEF SettleStep
<1> QED
  BY <1>1, <1>2

LEMMA KeepAllInv == Inv /\ KeepAll => Inv'
<1> SUFFICES ASSUME Inv, KeepAll PROVE LeaveStep
  BY LeaveStepInv
<1> QED
  BY DEF LeaveStep, KeepAll, Done, durable, platform, history, Inv, Control

LEMMA ClearAssignmentInv == Inv /\ ClearAssignment => Inv'
<1> SUFFICES ASSUME Inv, ClearAssignment PROVE Inv'
  OBVIOUS
<1> USE DEF Inv, ClearAssignment, process, network, platform, history
<1>1. Quarantined' = Quarantined \cup outbox
  BY SetAsideQuarantines
<1>2. deadLetter' \subseteq [row : Row, reason : Reasons]
  BY DEF SetAside, TypeOK, Reasons
<1>3. IsFiniteSet(outbox') /\ Cardinality(outbox') <= Capacity
  BY FS_EmptySet, CapacityAssumption
<1>4. TypeOK'
  BY <1>2, <1>3 DEF TypeOK
<1>5. Control'
  BY DEF Control
<1>6. RowsMeasured'
  BY <1>1, <1>3 DEF RowsMeasured, Delivered, Control
<1>7. KeysFresh'
  BY DEF KeysFresh
<1>8. AnswerHonest'
  BY DEF AnswerHonest, Control, NoReply
<1>9. NoSilentLoss'
  BY <1>1 DEF NoSilentLoss, Queued, Delivered
<1>10. OwnStationOnly'
  BY DEF OwnStationOnly
<1>11. KeysUnique'
  BY DEF KeysUnique
<1> QED
  BY <1>4, <1>5, <1>6, <1>7, <1>8, <1>9, <1>10, <1>11

LEMMA FactoryResetInv == Inv /\ FactoryReset => Inv'
<1> SUFFICES ASSUME Inv, FactoryReset PROVE Inv'
  OBVIOUS
<1> USE DEF Inv, FactoryReset, process, network, platform
<1>1. IsFiniteSet(outbox') /\ Cardinality(outbox') <= Capacity
  BY FS_EmptySet, CapacityAssumption
<1>2. TypeOK'
  BY <1>1 DEF TypeOK
<1>3. Control'
  BY DEF Control
<1>4. RowsMeasured'
  BY <1>1 DEF RowsMeasured, Delivered, Quarantined, Control
<1>5. KeysFresh'
  BY DEF KeysFresh
<1>6. AnswerHonest'
  BY DEF AnswerHonest, Control, NoReply
<1>7. NoSilentLoss'
  BY DEF NoSilentLoss, Queued, Delivered, Quarantined
<1>8. OwnStationOnly'
  BY DEF OwnStationOnly
<1>9. KeysUnique'
  BY DEF KeysUnique
<1> QED
  BY <1>2, <1>3, <1>4, <1>5, <1>6, <1>7, <1>8, <1>9

(* The platform stores rows of a request: rows measured under its station. *)
StoreStep(q) ==
    /\ UNCHANGED <<durable, process, history>>
    /\ active' \subseteq active
    /\ \/ stored' = stored
       \/ \E v \in Verdicts(q.rows, q.station) : Store(q.rows, q.station, v)

LEMMA StoreStepFacts ==
    ASSUME Inv, NEW q \in Requests, StoreStep(q),
           q.rows \subseteq measured, \A r \in q.rows : r.station = q.station
    PROVE  /\ stored \subseteq stored' /\ stored' \subseteq [row : Row, under : Stations]
           /\ Delivered \subseteq Delivered' /\ Delivered' \subseteq measured
           /\ \A x \in stored' : x.row.station = x.under
<1>1. CASE stored' = stored
  BY <1>1 DEF Inv, TypeOK, Delivered, RowsMeasured, OwnStationOnly
<1>2. CASE \E v \in Verdicts(q.rows, q.station) : Store(q.rows, q.station, v)
  <2>1. ASSUME NEW x \in stored'
        PROVE  x \in stored \/ \E r \in q.rows : x = [row |-> r, under |-> q.station]
    BY <1>2 DEF Store
  <2>2. stored \subseteq stored'
    BY <1>2 DEF Store
  <2>3. q.rows \subseteq Row /\ q.station \in Stations
    BY DEF Requests
  <2>4. stored' \subseteq [row : Row, under : Stations]
    BY <2>1, <2>3 DEF Inv, TypeOK
  <2>5. Delivered \subseteq Delivered'
    BY <2>2 DEF Delivered
  <2>6. Delivered' \subseteq measured
    BY <2>1 DEF Delivered, Inv, RowsMeasured
  <2>7. \A x \in stored' : x.row.station = x.under
    BY <2>1 DEF Inv, OwnStationOnly
  <2> QED
    BY <2>2, <2>4, <2>5, <2>6, <2>7
<1> QED
  BY <1>1, <1>2 DEF StoreStep

LEMMA HandleInv == Inv /\ HandleSome => Inv'
<1> SUFFICES ASSUME Inv, NEW v, NEW answer, Handle(v, answer) PROVE Inv'
  BY DEF HandleSome
<1> USE DEF Inv, durable, process, history
<1>1. /\ request # NoRequest /\ request \in Requests
      /\ request.rows = batch /\ request.station = credentials /\ pc = "wait"
  BY DEF Handle, TypeOK, Control
<1>2. /\ v \in Verdicts(batch, credentials) /\ answer \in Replies(batch, v)
      /\ Store(batch, credentials, v) /\ reply' = answer /\ request' = NoRequest
      /\ UNCHANGED <<durable, process, late, active, history>>
  BY <1>1 DEF Handle
<1>3. StoreStep(request)
  BY <1>1, <1>2 DEF StoreStep
<1>4. /\ stored \subseteq stored' /\ stored' \subseteq [row : Row, under : Stations]
      /\ Delivered \subseteq Delivered' /\ Delivered' \subseteq measured
      /\ \A x \in stored' : x.row.station = x.under
  BY <1>1, <1>3, StoreStepFacts DEF RowsMeasured, OwnStationOnly
<1>5. answer.kind \in {"counts", "items"}
  BY <1>2 DEF Replies
<1>6. TypeOK'
  BY <1>2, <1>4, <1>5 DEF TypeOK
<1>7. Control'
  BY <1>1, <1>2 DEF Control
<1>8. RowsMeasured'
  BY <1>2, <1>4 DEF RowsMeasured, Quarantined, NoRequest
<1>9. KeysFresh'
  BY <1>2 DEF KeysFresh
<1>10. AnswerHonest'
  <2>1. IsFiniteSet(batch)
    BY FS_Subset DEF RowsMeasured
  <2>2. CompleteSuccess(batch', reply') <=> CompleteSuccess(batch, answer)
    BY <1>2 DEF CompleteSuccess
  <2> QED
    BY <1>2, <2>1, <2>2, CountsAreTrue, ReceiptsAreTrue DEF AnswerHonest
<1>11. NoSilentLoss'
  BY <1>2, <1>4 DEF NoSilentLoss, Queued, Quarantined
<1>12. OwnStationOnly'
  BY <1>2, <1>4 DEF OwnStationOnly, NoRequest
<1>13. KeysUnique'
  BY <1>2 DEF KeysUnique
<1> QED
  BY <1>6, <1>7, <1>8, <1>9, <1>10, <1>11, <1>12, <1>13

LEMMA LateInv == ASSUME Inv, NEW q \in late, HandleLate(q) \/ LoseLate(q) PROVE Inv'
<1> USE DEF Inv, durable, process, history, platform
<1>1. /\ q \in Requests /\ late' = late \ {q}
      /\ UNCHANGED <<durable, process, request, reply, active, history>>
  BY DEF HandleLate, LoseLate, TypeOK
<1>2. StoreStep(q)
  BY DEF StoreStep, HandleLate, LoseLate
<1>3. /\ stored \subseteq stored' /\ stored' \subseteq [row : Row, under : Stations]
      /\ Delivered \subseteq Delivered' /\ Delivered' \subseteq measured
      /\ \A x \in stored' : x.row.station = x.under
  BY <1>1, <1>2, StoreStepFacts DEF RowsMeasured, OwnStationOnly
<1>4. TypeOK'
  BY <1>1, <1>3 DEF TypeOK
<1>5. Control'
  BY <1>1 DEF Control
<1>6. RowsMeasured'
  BY <1>1, <1>3 DEF RowsMeasured, Quarantined
<1>7. KeysFresh'
  BY <1>1 DEF KeysFresh
<1>8. AnswerHonest'
  BY <1>1, <1>3 DEF AnswerHonest, CompleteSuccess
<1>9. NoSilentLoss'
  BY <1>1, <1>3 DEF NoSilentLoss, Queued, Quarantined
<1>10. OwnStationOnly'
  BY <1>1, <1>3 DEF OwnStationOnly
<1>11. KeysUnique'
  BY <1>1 DEF KeysUnique
<1> QED
  BY <1>4, <1>5, <1>6, <1>7, <1>8, <1>9, <1>10, <1>11

LEMMA RefuseInv == Inv /\ RefuseCredentials => Inv'
<1> SUFFICES ASSUME Inv, RefuseCredentials PROVE Inv'
  OBVIOUS
<1> USE DEF Inv, RefuseCredentials, durable, process, platform, history
<1>1. TypeOK'
  BY DEF TypeOK
<1>2. Control'
  BY DEF Control
<1>3. RowsMeasured'
  BY DEF RowsMeasured, Quarantined, Delivered, NoRequest
<1>4. KeysFresh'
  BY DEF KeysFresh
<1>5. AnswerHonest'
  BY DEF AnswerHonest
<1>6. NoSilentLoss'
  BY DEF NoSilentLoss, Queued, Delivered, Quarantined
<1>7. OwnStationOnly'
  BY DEF OwnStationOnly, NoRequest
<1>8. KeysUnique'
  BY DEF KeysUnique
<1> QED
  BY <1>1, <1>2, <1>3, <1>4, <1>5, <1>6, <1>7, <1>8

LEMMA RevokeInv == Inv /\ (\E s \in active : Revoke(s)) => Inv'
<1> SUFFICES ASSUME Inv, NEW s \in active, Revoke(s) PROVE Inv'
  OBVIOUS
<1> USE DEF Inv, Revoke, durable, process, network, history
<1>1. TypeOK'
  BY DEF TypeOK
<1>2. Control' /\ KeysFresh' /\ KeysUnique' /\ OwnStationOnly'
  BY DEF Control, KeysFresh, KeysUnique, OwnStationOnly
<1>3. RowsMeasured'
  BY DEF RowsMeasured, Quarantined, Delivered
<1>4. AnswerHonest'
  BY DEF AnswerHonest, CompleteSuccess
<1>5. NoSilentLoss'
  BY DEF NoSilentLoss, Queued, Delivered, Quarantined
<1> QED
  BY <1>1, <1>2, <1>3, <1>4, <1>5

LEMMA LoopIsQuiet ==
    Inv /\ \/ Start \/ SyncOk \/ \E s \in Stations \cup {NoStation} : SyncFails(s)
           \/ SyncUnauthorized \/ NoSample \/ CloudNotDue \/ CloudDue \/ SyncTimer
           \/ NothingPending \/ UNCHANGED vars
      => QuietStep
<1> USE DEF Inv, QuietStep, durable, network, platform, history
<1>1. ASSUME Inv, Start PROVE QuietStep
  <2>1. syncDue' \in BOOLEAN
    BY <1>1 DEF Start, FreshBoots, TypeOK
  <2>2. FlagsTyped
    BY <1>1, <2>1 DEF FlagsTyped, Start, FreshBoots, TypeOK
  <2>3. config' \in {credentials, NoStation}
    BY <1>1 DEF Start, FreshBoots, OwnStationOnly
  <2> QED
    BY <1>1, <2>2, <2>3 DEF Start, FreshBoots, TypeOK, Control
<1>2. ASSUME Inv, SyncOk PROVE QuietStep
  <2>1. syncDue' \in BOOLEAN
    BY <1>2 DEF SyncOk, Syncing, TypeOK
  <2>2. FlagsTyped
    BY <1>2, <2>1 DEF FlagsTyped, SyncOk, Syncing, TypeOK
  <2>3. config' \in {credentials, NoStation}
    BY <1>2 DEF SyncOk, Syncing, OwnStationOnly
  <2> QED
    BY <1>2, <2>2, <2>3 DEF SyncOk, Syncing, TypeOK, Control
<1>3. ASSUME Inv, NEW s \in Stations \cup {NoStation}, SyncFails(s) PROVE QuietStep
  <2>1. syncDue' \in BOOLEAN
    BY <1>3 DEF SyncFails, Syncing, ProcessEnds, TypeOK
  <2>2. FlagsTyped
    BY <1>3, <2>1 DEF FlagsTyped, SyncFails, Syncing, ProcessEnds, TypeOK
  <2>3. config' \in {credentials, NoStation}
    BY <1>3 DEF SyncFails, Syncing, ProcessEnds, OwnStationOnly
  <2> QED
    BY <1>3, <2>2, <2>3 DEF SyncFails, Syncing, ProcessEnds, TypeOK, Control
<1>4. ASSUME Inv, SyncUnauthorized PROVE QuietStep
  <2>1. syncDue' \in BOOLEAN
    BY <1>4 DEF SyncUnauthorized, Syncing, ProcessEnds, TypeOK
  <2>2. FlagsTyped
    BY <1>4, <2>1 DEF FlagsTyped, SyncUnauthorized, Syncing, ProcessEnds, TypeOK
  <2>3. config' \in {credentials, NoStation}
    BY <1>4 DEF SyncUnauthorized, Syncing, ProcessEnds, OwnStationOnly
  <2> QED
    BY <1>4, <2>2, <2>3 DEF SyncUnauthorized, Syncing, ProcessEnds, TypeOK, Control
<1>5. ASSUME Inv, NoSample \/ CloudNotDue \/ CloudDue \/ NothingPending PROVE QuietStep
  <2>1. syncDue' \in BOOLEAN
    BY <1>5 DEF NoSample, CloudNotDue, CloudDue, NothingPending, TypeOK
  <2>2. FlagsTyped
    BY <1>5, <2>1 DEF FlagsTyped, NoSample, CloudNotDue, CloudDue, NothingPending, TypeOK
  <2>3. config' \in {credentials, NoStation}
    BY <1>5 DEF NoSample, CloudNotDue, CloudDue, NothingPending, OwnStationOnly
  <2> QED
    BY <1>5, <2>2, <2>3 DEF NoSample, CloudNotDue, CloudDue, NothingPending, TypeOK, Control
<1>6. ASSUME Inv, SyncTimer PROVE QuietStep
  <2>1. syncDue' \in BOOLEAN
    BY <1>6 DEF SyncTimer, TypeOK
  <2>2. FlagsTyped
    BY <1>6, <2>1 DEF FlagsTyped, SyncTimer, TypeOK
  <2>3. config' \in {credentials, NoStation}
    BY <1>6 DEF SyncTimer, OwnStationOnly
  <2> QED
    BY <1>6, <2>2, <2>3 DEF SyncTimer, TypeOK, Control
<1>7. ASSUME Inv, UNCHANGED vars PROVE QuietStep
  <2>1. syncDue' \in BOOLEAN
    BY <1>7 DEF vars, process, TypeOK
  <2>2. FlagsTyped
    BY <1>7, <2>1 DEF FlagsTyped, vars, process, TypeOK
  <2>3. config' \in {credentials, NoStation}
    BY <1>7 DEF vars, process, OwnStationOnly
  <2> QED
    BY <1>7, <2>2, <2>3 DEF vars, process, TypeOK, Control
<1> QED
  BY <1>1, <1>2, <1>3, <1>4, <1>5, <1>6, <1>7

LEMMA GivingUpLeaves ==
    Inv /\ (UploadUnauthorized \/ UploadFails \/ Crash) => LeaveStep
<1> USE DEF Inv, LeaveStep, Abandon, durable, platform, history
<1>1. ASSUME Inv, UploadUnauthorized PROVE LeaveStep
  BY <1>1 DEF UploadUnauthorized, ProcessEnds, Control, NoReply
<1>2. ASSUME Inv, UploadFails PROVE LeaveStep
  BY <1>2 DEF UploadFails
<1>3. ASSUME Inv, Crash PROVE LeaveStep
  BY <1>3 DEF Crash, ProcessEnds
<1> QED
  BY <1>1, <1>2, <1>3

LEMMA NextInv == Inv /\ [Next]_vars => Inv'
<1> SUFFICES ASSUME Inv, [Next]_vars PROVE Inv'
  OBVIOUS
<1>1. CASE \/ Start \/ SyncOk \/ \E s \in Stations \cup {NoStation} : SyncFails(s)
           \/ SyncUnauthorized \/ NoSample \/ CloudNotDue \/ CloudDue \/ SyncTimer
           \/ NothingPending \/ UNCHANGED vars
  BY <1>1, LoopIsQuiet, QuietStepInv
<1>2. CASE \E s \in Stations : Enroll(s)
  BY <1>2, EnrollInv
<1>3. CASE Sample
  BY <1>3, SampleInv
<1>4. CASE Send
  BY <1>4, SendInv
<1>5. CASE AcknowledgeAll \/ ApplyItemReceipts
  BY <1>5, AnswersSettle, SettleStepInv
<1>6. CASE KeepAll
  BY <1>6, KeepAllInv
<1>7. CASE UploadUnauthorized \/ UploadFails \/ Crash
  BY <1>7, GivingUpLeaves, LeaveStepInv
<1>8. CASE ClearAssignment
  BY <1>8, ClearAssignmentInv
<1>9. CASE FactoryReset
  BY <1>9, FactoryResetInv
<1>10. CASE HandleSome
  BY <1>10, HandleInv
<1>11. CASE RefuseCredentials
  BY <1>11, RefuseInv
<1>12. CASE \E q \in late : HandleLate(q) \/ LoseLate(q)
  BY <1>12, LateInv
<1>13. CASE \E s \in active : Revoke(s)
  BY <1>13, RevokeInv
<1> QED
  BY <1>1, <1>2, <1>3, <1>4, <1>5, <1>6, <1>7, <1>8, <1>9, <1>10, <1>11, <1>12, <1>13
  DEF Next

(* The inductive invariant holds in every reachable state. *)
THEOREM Invariance == Spec => []Inv
<1>1. Init => Inv
  BY InitInv
<1>2. Inv /\ [Next]_vars => Inv'
  BY NextInv
<1> QED
  BY <1>1, <1>2, PTL DEF Spec

(* Every variable keeps its shape, the queue its capacity, and               *)
(* (boot_id, sequence) names one reading for ever.                           *)
THEOREM OutboxSound == Spec => []OutboxIsSound
<1>1. Inv => OutboxIsSound
  BY DEF Inv, OutboxIsSound
<1> QED
  BY <1>1, Invariance, PTL

(* A committed reading is queued, held by the platform, set aside, or erased *)
(* by a factory reset: Agent.upload and the tables of State lose none.       *)
THEOREM NoReadingLost == Spec => []NoSilentLoss
<1>1. Inv => NoSilentLoss
  BY DEF Inv
<1> QED
  BY <1>1, Invariance, PTL

(* No reading is sent or stored under another assignment than its own, after *)
(* any number of resets and enrollments and however late a request arrives.  *)
THEOREM StationsNeverMix == Spec => []OwnStationOnly
<1>1. Inv => OwnStationOnly
  BY DEF Inv
<1> QED
  BY <1>1, Invariance, PTL

(* What upload() read is still there when the answer comes, and no move to   *)
(* dead_letter aborts.                                                       *)
THEOREM ReceiptsAlwaysApply == Spec => []ReceiptsApply
<1>1. Inv => ReceiptsApply
  <2> SUFFICES ASSUME Inv, NEW r \in outbox, NEW d \in deadLetter, d.row.id = r.id PROVE FALSE
    BY DEF ReceiptsApply, Conflict, Inv, RowsMeasured
  <2>1. d.row \in Quarantined
    BY DEF Quarantined
  <2>2. d.row = r
    BY <2>1 DEF Inv, RowsMeasured, KeysFresh
  <2> QED
    BY <2>1, <2>2 DEF Inv, RowsMeasured
<1> QED
  BY <1>1, Invariance, PTL

(* While next_sync lies ahead, the last sync of this very process succeeded. *)
SyncedUntilDue ==
    /\ UploadsFollowGoodSync
    /\ pc \in {"down", "enroll", "startup", "sync"} => syncDue
    /\ pc \in {"top", "cloud"} /\ ~syncDue => lastSync = "ok" /\ config = credentials

LEMMA SyncedUntilDueInv == SyncedUntilDue /\ [Next]_vars => SyncedUntilDue'
<1> SUFFICES ASSUME SyncedUntilDue, [Next]_vars PROVE SyncedUntilDue'
  OBVIOUS
<1> USE DEF SyncedUntilDue, UploadsFollowGoodSync, durable, process, history
<1>1. CASE Start \/ \E s \in Stations : Enroll(s)
  BY <1>1 DEF Start, Enroll
<1>2. CASE SyncOk
  BY <1>2 DEF SyncOk, Syncing
<1>3. CASE SyncUnauthorized \/ UploadUnauthorized \/ Crash
  BY <1>3 DEF SyncUnauthorized, UploadUnauthorized, Crash, ProcessEnds
<1>4. ASSUME NEW s \in Stations \cup {NoStation}, SyncFails(s) PROVE SyncedUntilDue'
  BY <1>4 DEF SyncFails, Syncing, ProcessEnds
<1>5. CASE Sample \/ NoSample \/ CloudNotDue \/ SyncTimer \/ NothingPending
  BY <1>5 DEF Sample, NoSample, CloudNotDue, SyncTimer, NothingPending
<1>6. CASE CloudDue
  BY <1>6 DEF CloudDue
<1>7. CASE Send \/ AcknowledgeAll \/ ApplyItemReceipts \/ KeepAll \/ UploadFails
  BY <1>7 DEF Send, AcknowledgeAll, ApplyItemReceipts, KeepAll, UploadFails, Done
<1>8. CASE ClearAssignment \/ FactoryReset
  BY <1>8 DEF ClearAssignment, FactoryReset
<1>9. CASE \/ HandleSome \/ RefuseCredentials
           \/ \E q \in late : HandleLate(q) \/ LoseLate(q)
           \/ \E s \in active : Revoke(s)
           \/ UNCHANGED vars
  BY <1>9 DEF HandleSome, Handle, RefuseCredentials, HandleLate, LoseLate, Revoke, vars
<1> QED
  BY <1>1, <1>2, <1>3, <1>4, <1>5, <1>6, <1>7, <1>8, <1>9 DEF Next

(* No telemetry leaves the device but after a successful sync of the running *)
(* process: main() of cli.py tries the sync first and uploads only then.     *)
THEOREM UploadsAreSynced == Spec => []UploadsFollowGoodSync
<1>1. Init => SyncedUntilDue
  BY DEF Init, SyncedUntilDue, UploadsFollowGoodSync
<1>2. SyncedUntilDue => UploadsFollowGoodSync
  BY DEF SyncedUntilDue
<1> QED
  BY <1>1, <1>2, SyncedUntilDueInv, PTL DEF Spec

-----------------------------------------------------------------------------
(* Every step but four leaves the queue as it was, or adds to it. *)
LEMMA OthersKeepRows ==
    ASSUME [Next]_vars, ~AcknowledgeAll, ~ApplyItemReceipts, ~ClearAssignment, ~FactoryReset
    PROVE  outbox \subseteq outbox'
BY DEF Next, vars, durable, Start, Enroll, SyncOk, SyncFails, SyncUnauthorized, Syncing, Sample,
       NoSample, CloudNotDue, CloudDue, SyncTimer, NothingPending, Send, KeepAll,
       UploadUnauthorized, UploadFails, Crash, HandleSome, Handle, RefuseCredentials,
       HandleLate, LoseLate, Revoke

LEMMA LeavingIsSettled ==
    ASSUME Inv, [Next]_vars, NEW r \in outbox \ outbox'
    PROVE  \/ pc = "wait" /\ r \in batch /\ (r \in Delivered \/ r \in {d.row : d \in deadLetter'})
           \/ pc = "down" /\ credentials' = NoStation
<1>1. CASE AcknowledgeAll \/ ApplyItemReceipts
  <2>1. SettleStep
    BY <1>1, AnswersSettle
  <2>2. PICK done \in SUBSET batch, refused \in SUBSET batch :
           /\ done \subseteq Delivered
           /\ SetAside(refused, "rejected")
           /\ outbox' = outbox \ (done \cup refused)
    BY <2>1 DEF SettleStep
  <2>3. Quarantined' = Quarantined \cup refused
    BY <2>2, SetAsideQuarantines
  <2> QED
    BY <2>1, <2>2, <2>3 DEF SettleStep, Quarantined
<1>2. CASE ClearAssignment \/ FactoryReset
  BY <1>2 DEF ClearAssignment, FactoryReset
<1> QED
  BY <1>1, <1>2, OthersKeepRows

(* A row leaves the outbox only with an answer about that very row, or by a     *)
(* reset while the agent is stopped (State.acknowledge, apply_item_receipts,    *)
(* clear_assignment, factory_reset).                                            *)
THEOREM RowsLeaveSettled == Spec => OnlySettledRowsLeave
<1>1. Inv /\ [Next]_vars =>
        [\A r \in outbox \ outbox' :
          \/ pc = "wait" /\ r \in batch /\ (r \in Delivered \/ r \in {d.row : d \in deadLetter'})
          \/ pc = "down" /\ credentials' = NoStation]_vars
  BY LeavingIsSettled
<1> QED
  BY <1>1, Invariance, PTL DEF Spec, OnlySettledRowsLeave

-----------------------------------------------------------------------------
(* The refinement of Delivery. *)

Mapped == <<Queued, Delivered, Quarantined, wiped>>

(* The platform may come to hold any rows that were measured. *)
LEMMA StoringDelivers ==
    ASSUME Inv, NEW q \in Requests, StoreStep(q), q.rows \subseteq measured
    PROVE  Promise!Next \/ UNCHANGED Mapped
<1> USE DEF Inv, durable, process, history
<1>1. UNCHANGED <<Queued, Quarantined, wiped>>
  BY DEF StoreStep, Queued, Quarantined
<1>2. CASE stored' = stored
  BY <1>1, <1>2 DEF Mapped, Delivered
<1>3. CASE \E v \in Verdicts(q.rows, q.station) : Store(q.rows, q.station, v)
  <2>1. PICK v \in Verdicts(q.rows, q.station) : Store(q.rows, q.station, v)
    BY <1>3
  <2> DEFINE new == {r \in q.rows : v[r] = "accepted"}
  <2>2. Delivered' = Delivered \cup new
    <3>1. ASSUME NEW r \in Delivered' PROVE r \in Delivered \cup new
      BY <2>1, <3>1 DEF Store, Delivered
    <3>2. ASSUME NEW r \in Delivered PROVE r \in Delivered'
      BY <2>1, <3>2 DEF Store, Delivered
    <3>3. ASSUME NEW r \in new PROVE r \in Delivered'
      <4>1. [row |-> r, under |-> q.station] \in stored'
        BY <2>1, <3>3 DEF Store
      <4> QED
        BY <4>1 DEF Delivered
    <3> QED
      BY <3>1, <3>2, <3>3
  <2>3. new \in SUBSET Promise!Taken
    BY DEF NoSilentLoss, Promise!Taken
  <2>4. Promise!Deliver(new)
    BY <1>1, <2>2, <2>3 DEF Promise!Deliver
  <2> QED
    BY <2>3, <2>4 DEF Promise!Next
<1> QED
  BY <1>2, <1>3 DEF StoreStep

LEMMA StepsRefine == Inv /\ [Next]_vars => [Promise!Next]_Mapped
<1> SUFFICES ASSUME Inv, [Next]_vars PROVE Promise!Next \/ UNCHANGED Mapped
  OBVIOUS
<1> USE DEF Inv
<1>1. CASE \/ Start \/ SyncOk \/ \E s \in Stations \cup {NoStation} : SyncFails(s)
           \/ SyncUnauthorized \/ NoSample \/ CloudNotDue \/ CloudDue \/ SyncTimer
           \/ NothingPending \/ UNCHANGED vars
  <2>1. QuietStep
    BY <1>1, LoopIsQuiet
  <2> QED
    BY <2>1 DEF QuietStep, Mapped, Queued, Delivered, Quarantined, platform, history
<1>2. CASE \/ \E s \in Stations : Enroll(s)
           \/ Send \/ KeepAll \/ RefuseCredentials \/ \E s \in active : Revoke(s)
  BY <1>2 DEF Enroll, Send, KeepAll, Done, RefuseCredentials, Revoke, Mapped, Queued,
              Delivered, Quarantined, platform, history, durable
<1>3. CASE UploadUnauthorized \/ UploadFails \/ Crash
  BY <1>3, GivingUpLeaves DEF LeaveStep, Mapped, Queued, Delivered, Quarantined,
                              platform, history, durable
<1>4. CASE Sample
  <2> DEFINE row == [id |-> NextId, boot |-> boot, seq |-> sequence, station |-> credentials]
  <2>1. row \in Row
    BY <1>4, BoundsAssumption DEF Sample, Control, TypeOK, NextId, Row
  <2>2. row \notin measured
    BY <1>4 DEF Sample, KeysFresh, NextId, TypeOK, Row
  <2>3. row \notin Promise!Taken
    BY <2>2 DEF Promise!Taken, RowsMeasured, Queued
  <2>4. Queued' = Queued \cup {row} /\ UNCHANGED <<Delivered, Quarantined, wiped>>
    BY <1>4 DEF Sample, Queued, Delivered, Quarantined, platform
  <2> HIDE DEF row
  <2>5. Promise!Take(row)
    BY <2>3, <2>4 DEF Promise!Take
  <2> QED
    BY <2>1, <2>5 DEF Promise!Next
<1>5. CASE AcknowledgeAll \/ ApplyItemReceipts
  <2>1. SettleStep
    BY <1>5, AnswersSettle
  <2>2. PICK done \in SUBSET batch, refused \in SUBSET batch :
           /\ done \subseteq Delivered
           /\ SetAside(refused, "rejected")
           /\ outbox' = outbox \ (done \cup refused)
    BY <2>1 DEF SettleStep
  <2>3. Quarantined' = Quarantined \cup refused
    BY <2>2, SetAsideQuarantines
  <2>4. UNCHANGED <<Delivered, wiped>>
    BY <2>1 DEF SettleStep, Done, platform, history, Delivered
  <2>5. done \in SUBSET Queued /\ refused \in SUBSET Queued
    BY DEF RowsMeasured, Queued
  <2>6. Promise!Settle(done, refused)
    BY <2>2, <2>3, <2>4, <2>5 DEF Promise!Settle, Queued
  <2> QED
    BY <2>5, <2>6 DEF Promise!Next
<1>6. CASE ClearAssignment
  <2>1. Quarantined' = Quarantined \cup outbox
    BY <1>6, SetAsideQuarantines DEF ClearAssignment
  <2>2. Promise!SetAllAside
    BY <1>6, <2>1 DEF ClearAssignment, Promise!SetAllAside, Queued, Delivered, platform, history
  <2> QED
    BY <2>2 DEF Promise!Next
<1>7. CASE FactoryReset
  <2>1. Promise!Erase
    BY <1>7 DEF FactoryReset, Promise!Erase, Queued, Delivered, Quarantined, platform
  <2> QED
    BY <2>1 DEF Promise!Next
<1>8. CASE HandleSome
  <2>1. PICK v, answer : Handle(v, answer)
    BY <1>8 DEF HandleSome
  <2>2. request \in Requests /\ request.rows \subseteq measured
    BY <2>1 DEF Handle, TypeOK, RowsMeasured
  <2>3. StoreStep(request)
    BY <2>1 DEF Handle, StoreStep
  <2> QED
    BY <2>2, <2>3, StoringDelivers
<1>9. CASE \E q \in late : HandleLate(q) \/ LoseLate(q)
  <2>1. PICK q \in late : HandleLate(q) \/ LoseLate(q)
    BY <1>9
  <2>2. q \in Requests /\ q.rows \subseteq measured
    BY DEF TypeOK, RowsMeasured
  <2>3. StoreStep(q)
    BY <2>1 DEF HandleLate, LoseLate, StoreStep, platform
  <2> QED
    BY <2>2, <2>3, StoringDelivers
<1> QED
  BY <1>1, <1>2, <1>3, <1>4, <1>5, <1>6, <1>7, <1>8, <1>9 DEF Next

(* The whole telemetry path implements the abstract Delivery: a reading      *)
(* leaves the queue only when the platform holds it, or set aside, or erased. *)
THEOREM Refinement == Spec => ImplementsDelivery
<1>1. Init => Promise!Init
  BY DEF Init, Promise!Init, Queued, Delivered, Quarantined
<1>2. Inv /\ [Next]_vars => [Promise!Next]_Promise!vars
  BY StepsRefine DEF Mapped, Promise!vars
<1> QED
  BY <1>1, <1>2, Invariance, PTL DEF Spec, ImplementsDelivery, Promise!Spec

=============================================================================
