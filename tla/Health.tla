------------------------------- MODULE Health -------------------------------
(***************************************************************************)
(* "operational_health" of state.py: the counters and timestamps that tell *)
(* an operator how the device is, who writes them, and the "health"        *)
(* command, which reads them and the queue, a query at a time and without  *)
(* the agent's lock.                                                       *)
(*                                                                         *)
(* A reading is its id in the outbox.  The wall clock moves as it likes.   *)
(***************************************************************************)
EXTENDS Integers, FiniteSets

CONSTANTS
    CAPACITY,     \* of the outbox
    MIN,          \* min_interval_seconds of record_success: 60
    Modbus,       \* whether the reader is the Modbus one
    Asked,        \* whether anyone asks for the health
    MaxRows,      \* bound: readings
    MaxClock,     \* bound: the wall clock
    MaxBacksteps, \* bound: times the clock is set back
    MaxFailures   \* bound: operations that fail

ASSUME HealthAssumption == CAPACITY \in Nat \ {0} /\ MIN \in Nat \ {0} /\ {Modbus, Asked} \subseteq BOOLEAN
ASSUME BoundsAssumption == {MaxRows, MaxClock, MaxBacksteps, MaxFailures} \subseteq Nat

VARIABLES
    (* agent.sqlite *)
    outbox, lastId, deadLetter,
    health,    \* operational_health
    (* the agent *)
    todo,      \* the outcome it is about to record
    (* the "health" command *)
    reading,   \* what it has read so far
    (* the world *)
    clock,
    (* history *)
    failed,    \* operations that failed, since the health was last cleared
    missed,    \* failures that were not recorded
    refused,   \* readings refused, since the health was last cleared
    counted,   \* regressions counted for each operation
    backsteps, \* times the clock was set back
    at,        \* clock at the last recorded success
    kept       \* readings on the device since "health" was asked

history == <<failed, missed, refused, counted, backsteps, at, kept>>
vars    == <<outbox, lastId, deadLetter, health, todo, reading, clock, history>>

Operations == {"sample", "upload", "config"}
Never      == 0
None       == 0
Zero       == [op \in Operations |-> 0]
NoHealth   == [refused_samples |-> 0, errors |-> Zero, rs485_errors |-> 0,
               clock_regressions |-> 0, last |-> Zero]
Nothing    == [op |-> "config", outcome |-> "none"]
Outcome(op, o) == [op |-> op, outcome |-> o]
Queries    == {"backlog", "oldest", "newest", "dead"}
NoReading  == [step |-> 0, answers |-> [q \in Queries |-> 0]]

Init ==
    /\ outbox = {} /\ lastId = 0 /\ deadLetter = {} /\ health = NoHealth
    /\ todo = Nothing /\ reading = NoReading /\ clock = 1
    /\ failed = Zero /\ missed = Zero /\ refused = 0 /\ counted = Zero
    /\ backsteps = 0 /\ at = Zero /\ kept = {}

-----------------------------------------------------------------------------
(* The agent's operations, one at a time; each is followed by the record of its *)
(* outcome, in a transaction of its own.                                        *)

Idle == todo = Nothing

MayFail == failed["sample"] + failed["upload"] + failed["config"] < MaxFailures

Fail(op) ==
    /\ MayFail
    /\ todo' = Outcome(op, "error") /\ failed' = [failed EXCEPT ![op] = @ + 1]

(* Mutant: off by one. *)
HasRoomForOne == Cardinality(outbox) <= CAPACITY

HasRoom == Cardinality(outbox) < CAPACITY

SampleQueued ==
    /\ Idle /\ HasRoom /\ lastId < MaxRows
    /\ outbox' = outbox \cup {lastId + 1} /\ lastId' = lastId + 1
    /\ todo' = Outcome("sample", "success")
    /\ UNCHANGED <<deadLetter, health, reading, clock, history>>

(* Mutant: BufferError is raised inside the transaction, which rolls back. *)
SampleRolledBack ==
    /\ Idle /\ ~HasRoom /\ Fail("sample")
    /\ refused' = refused + 1
    /\ UNCHANGED <<outbox, lastId, deadLetter, health, reading, clock>>
    /\ UNCHANGED <<missed, counted, backsteps, at, kept>>

(* The refusal is committed before BufferError makes it a failed sample. *)
SampleRefused ==
    /\ Idle /\ ~HasRoom /\ Fail("sample")
    /\ health' = [health EXCEPT !.refused_samples = @ + 1] /\ refused' = refused + 1
    /\ UNCHANGED <<outbox, lastId, deadLetter, reading, clock>>
    /\ UNCHANGED <<missed, counted, backsteps, at, kept>>

(* The rows are settled in one transaction: some delivered, some set aside. *)
Uploaded ==
    /\ Idle
    /\ \E delivered, rejected \in SUBSET outbox :
          /\ delivered \cap rejected = {} /\ outbox # {}
          /\ outbox' = outbox \ (delivered \cup rejected)
          /\ deadLetter' = deadLetter \cup rejected /\ kept' = kept \ delivered
    /\ todo' = Outcome("upload", "success")
    /\ UNCHANGED <<lastId, health, reading, clock, failed, missed, refused, counted, backsteps, at>>

Synced ==
    /\ Idle /\ todo' = Outcome("config", "success")
    /\ UNCHANGED <<outbox, lastId, deadLetter, health, reading, clock, history>>

(* An empty queue is no upload, and cannot fail. *)
OperationFails ==
    /\ Idle /\ \E op \in Operations : (op = "upload" => outbox # {}) /\ Fail(op)
    /\ UNCHANGED <<outbox, lastId, deadLetter, health, reading, clock>>
    /\ UNCHANGED <<missed, refused, counted, backsteps, at, kept>>

(* record_success writes at most once in the interval, a backward step apart. *)
Throttled(op) ==
    /\ health.last[op] # Never
    /\ clock >= health.last[op] /\ clock - health.last[op] < MIN

Regressed(op) == health.last[op] # Never /\ clock < health.last[op]

(* Mutant: a step back is counted, and the timestamp waits to be overtaken. *)
StampedLater(op) ==
    [health EXCEPT !.last[op] = IF Regressed(op) THEN @ ELSE clock,
                   !.clock_regressions = IF Regressed(op) THEN @ + 1 ELSE @]

Stamped(op) ==
    [health EXCEPT !.last[op] = clock,
                   !.clock_regressions = IF Regressed(op) THEN @ + 1 ELSE @]

RecordSuccess ==
    /\ todo.outcome = "success" /\ todo' = Nothing
    /\ health' = IF Throttled(todo.op) THEN health ELSE Stamped(todo.op)
    /\ counted' = [counted EXCEPT ![todo.op] =
                        @ + health'.clock_regressions - health.clock_regressions]
    /\ at' = [at EXCEPT ![todo.op] = clock]
    /\ UNCHANGED <<outbox, lastId, deadLetter, reading, clock, failed, missed, refused, backsteps, kept>>

(* rs485_errors counts the failed samples of a Modbus reader, whatever failed. *)
OfModbus(op) == IF Modbus /\ op = "sample" THEN 1 ELSE 0

RecordError ==
    /\ todo.outcome = "error" /\ todo' = Nothing
    /\ health' = [health EXCEPT !.errors[todo.op] = @ + 1,
                                !.rs485_errors = @ + OfModbus(todo.op)]
    /\ UNCHANGED <<outbox, lastId, deadLetter, reading, clock, history>>

(* A full disk must not turn a success into a failure, nor hide the error that  *)
(* was to be recorded: the agent goes on.  A crash comes to the same.           *)
RecordLost ==
    /\ ~Idle /\ todo' = Nothing
    /\ missed' = [missed EXCEPT ![todo.op] = IF todo.outcome = "error" THEN @ + 1 ELSE @]
    /\ UNCHANGED <<outbox, lastId, deadLetter, health, reading, clock>>
    /\ UNCHANGED <<failed, refused, counted, backsteps, at, kept>>

HealthCleared ==
    /\ health' = NoHealth /\ failed' = Zero /\ missed' = Zero /\ refused' = 0
    /\ counted' = Zero /\ at' = Zero

(* The operator's commands, while the agent is stopped. *)
ClearAssignment ==
    /\ Idle /\ HealthCleared
    /\ deadLetter' = deadLetter \cup outbox /\ outbox' = {}
    /\ UNCHANGED <<lastId, todo, reading, clock, backsteps, kept>>

FactoryReset ==
    /\ Idle /\ HealthCleared
    /\ deadLetter' = {} /\ outbox' = {} /\ kept' = {}
    /\ UNCHANGED <<lastId, todo, reading, clock, backsteps>>

-----------------------------------------------------------------------------
(* health_snapshot: one SELECT after the other, the agent's steps in between. *)

First(rows)  == IF rows = {} THEN None ELSE CHOOSE i \in rows : \A j \in rows : i <= j
Newest(rows) == IF rows = {} THEN None ELSE CHOOSE i \in rows : \A j \in rows : j <= i

Answer(query) ==
    CASE query = "backlog" -> Cardinality(outbox)
      [] query = "oldest"  -> First(outbox)
      [] query = "newest"  -> Newest(outbox)
      [] query = "dead"    -> Cardinality(deadLetter)

(* Mutant: what was set aside is counted before what waits. *)
DeadLettersFirst == <<"dead", "backlog", "oldest", "newest">>

Order == <<"backlog", "oldest", "newest", "dead">>

Query ==
    /\ Asked /\ reading.step < 4
    /\ LET query == Order[reading.step + 1]
       IN  reading' = [step |-> reading.step + 1,
                       answers |-> [reading.answers EXCEPT ![query] = Answer(query)]]
    /\ kept' = IF reading.step = 0 THEN outbox \cup deadLetter ELSE kept
    /\ UNCHANGED <<outbox, lastId, deadLetter, health, todo, clock>>
    /\ UNCHANGED <<failed, missed, refused, counted, backsteps, at>>

Report ==
    /\ reading.step = 4 /\ reading' = NoReading
    /\ UNCHANGED <<outbox, lastId, deadLetter, health, todo, clock, history>>

-----------------------------------------------------------------------------
Tick ==
    /\ clock < MaxClock /\ clock' = clock + 1
    /\ UNCHANGED <<outbox, lastId, deadLetter, health, todo, reading, history>>

SetBack ==
    /\ backsteps < MaxBacksteps /\ backsteps' = backsteps + 1
    /\ clock' \in 1..(clock - 1)
    /\ UNCHANGED <<outbox, lastId, deadLetter, health, todo, reading>>
    /\ UNCHANGED <<failed, missed, refused, counted, at, kept>>

Next == \/ SampleQueued \/ SampleRefused \/ Uploaded \/ Synced \/ OperationFails
        \/ RecordSuccess \/ RecordError \/ RecordLost \/ ClearAssignment \/ FactoryReset
        \/ Query \/ Report \/ Tick \/ SetBack

Spec == Init /\ [][Next]_vars

-----------------------------------------------------------------------------
(* The queue holds no more than its capacity, what waits and what was set aside *)
(* are different readings, and every record has its shape.                      *)
TypeOK ==
    /\ lastId \in 0..MaxRows /\ outbox \subseteq 1..lastId /\ deadLetter \subseteq 1..lastId
    /\ Cardinality(outbox) <= CAPACITY /\ outbox \cap deadLetter = {}
    /\ health \in [refused_samples : Nat, errors : [Operations -> Nat], rs485_errors : Nat,
                   clock_regressions : Nat, last : [Operations -> Nat]]
    /\ todo \in [op : Operations, outcome : {"none", "success", "error"}]
    /\ reading \in [step : 0..4, answers : [Queries -> Nat]]
    /\ clock \in Nat \ {0} /\ backsteps \in Nat /\ refused \in Nat
    /\ {failed, missed, counted, at} \subseteq [Operations -> Nat]
    /\ kept \subseteq outbox \cup deadLetter

(* The counters account for what happened: every refusal is counted, whatever    *)
(* happens after it, and every failure unless its own record was lost; an error  *)
(* is never the echo of a success that could not be recorded.  What the line to  *)
(* the inverter is charged with are the failed samples, refusals among them.     *)
CountersAccount ==
    /\ health.refused_samples = refused
    /\ health.rs485_errors = IF Modbus THEN health.errors["sample"] ELSE 0
    /\ \A op \in Operations :
          failed[op] = health.errors[op] + missed[op] + (IF todo = Outcome(op, "error") THEN 1 ELSE 0)

(* A timestamp is never ahead of the last recorded success and less than the     *)
(* interval behind it, wherever the clock has been in between.                   *)
TimestampsTrail ==
    \A op \in Operations : health.last[op] <= at[op] /\ at[op] - health.last[op] < MIN

(* clock_regressions counts steps back of the clock: none without one, and each  *)
(* at most once for each of the three operations.                                *)
RegressionsAreReal ==
    /\ health.clock_regressions = counted["sample"] + counted["upload"] + counted["config"]
    /\ \A op \in Operations : counted[op] <= backsteps

(* The timestamps and the count of regressions follow the clock, backwards too.  *)
ClockIsFollowed == TimestampsTrail /\ RegressionsAreReal

(* A reading on the device from the first query to the last is reported, as      *)
(* waiting or as set aside, although the agent moves it between the queries.     *)
HealthMissesNothing ==
    reading.step = 4 => Cardinality(kept) <= reading.answers["backlog"] + reading.answers["dead"]

(* The newest reading reported is not older than the oldest.                     *)
OldestComesFirst ==
    reading.step = 4 /\ reading.answers["oldest"] # None /\ reading.answers["newest"] # None
        => reading.answers["oldest"] <= reading.answers["newest"]

(* What the report says of the queue is true of no single moment, but it misses  *)
(* nothing and does not contradict itself.                                       *)
ReportIsSound == HealthMissesNothing /\ OldestComesFirst

=============================================================================
