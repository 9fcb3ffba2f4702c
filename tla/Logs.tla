-------------------------------- MODULE Logs --------------------------------
(***************************************************************************)
(* The debug log: CompactLogBuffer of log_buffer.py, the warnings and      *)
(* errors the agent's thread writes to it, and Agent.upload_logs, which    *)
(* drains it into one request.  "Losable by design": a batch that fails is *)
(* dropped, with a warning after it, and a full ring drops its oldest      *)
(* entry without one.                                                      *)
(*                                                                         *)
(* The numbers of the entries are the model's: the code gives them none.   *)
(***************************************************************************)
EXTENDS Integers, FiniteSets, SequencesExt

CONSTANTS
    MAX_BUFFERED, \* 50
    MaxEntries    \* bound: entries of one process

ASSUME LogsAssumption == MAX_BUFFERED \in Nat \ {0} /\ MaxEntries \in Nat

VARIABLES
    buffer,    \* the deque
    entries,   \* drained, held across the POST
    pc,
    last,      \* number of the last entry
    received,  \* what the platform has, in the order of arrival
    underway,  \* requests given up, still on their way
    (* history *)
    failures   \* batches whose upload failed, each with its notice

logVars == <<buffer, entries, pc, last, received, underway, failures>>

LogInit ==
    /\ buffer = <<>> /\ entries = <<>> /\ pc = "running" /\ last = 0
    /\ received = <<>> /\ underway = {} /\ failures = {}

(* deque(maxlen=capacity): the oldest gives way. *)
Emitted(q, e) == IF Len(q) = MAX_BUFFERED THEN Append(Tail(q), e) ELSE Append(q, e)

(* A warning of the agent's own thread; bound on last. *)
Emit ==
    /\ pc = "running" /\ last < MaxEntries
    /\ last' = last + 1 /\ buffer' = Emitted(buffer, last + 1)
    /\ UNCHANGED <<entries, pc, received, underway, failures>>

(* Mutant: the buffer is cleared when the upload is over. *)
DrainLater ==
    /\ pc = "running" /\ buffer # <<>>
    /\ entries' = buffer /\ pc' = "uploading"
    /\ UNCHANGED <<buffer, last, received, underway, failures>>

Drain ==
    /\ pc = "running" /\ buffer # <<>>
    /\ entries' = buffer /\ buffer' = <<>> /\ pc' = "uploading"
    /\ UNCHANGED <<last, received, underway, failures>>

(* The platform takes the entries; its answer may still be lost. *)
Arrives ==
    /\ pc = "uploading" /\ received' = received \o entries /\ pc' = "taken"
    /\ UNCHANGED <<buffer, entries, last, underway, failures>>

Answered ==
    /\ pc = "taken" /\ pc' = "running" /\ entries' = <<>>
    /\ UNCHANGED <<buffer, last, received, underway, failures>>

Notice ==
    /\ last' = last + 1 /\ buffer' = Emitted(buffer, last + 1)
    /\ failures' = failures \cup {[batch |-> ToSet(entries), notice |-> last + 1]}
    /\ pc' = "running"

(* Any exception: the entries are gone, and a warning is written after them.    *)
(* The request may not have left, have been refused, or arrive later.           *)
UploadFails ==
    /\ pc \in {"uploading", "taken"} /\ last < MaxEntries
    /\ Notice /\ entries' = <<>>
    /\ \/ UNCHANGED underway
       \/ pc = "uploading" /\ underway' = underway \cup {entries}
    /\ UNCHANGED received

ArrivesLate ==
    /\ \E b \in underway : received' = received \o b /\ underway' = underway \ {b}
    /\ UNCHANGED <<buffer, entries, pc, last, failures>>

(* A new process has a new buffer; the numbers start again with it. *)
Restart ==
    /\ buffer' = <<>> /\ entries' = <<>> /\ pc' = "running" /\ last' = 0
    /\ received' = <<>> /\ underway' = {} /\ failures' = {}

LogNext == Emit \/ Drain \/ Arrives \/ Answered \/ UploadFails \/ ArrivesLate \/ Restart

LogSpec == LogInit /\ [][LogNext]_logVars

-----------------------------------------------------------------------------
(* The buffer and a batch hold no more than the platform takes in one request.   *)
LogTypeOK ==
    /\ buffer \in Seq(1..last) /\ Len(buffer) <= MAX_BUFFERED
    /\ entries \in Seq(1..last) /\ Len(entries) <= MAX_BUFFERED
    /\ pc \in {"running", "uploading", "taken"} /\ last \in 0..MaxEntries
    /\ received \in Seq(1..last)
    /\ \A f \in failures : f.batch \subseteq 1..last /\ f.notice \in 1..last

(* No entry reaches the platform twice, although a failed upload may have been   *)
(* taken, or arrive after the next one.                                          *)
AtMostOnce == \A i, j \in DOMAIN received : received[i] = received[j] => i = j

(* An entry is somewhere, or was in a batch that failed, of which a warning was  *)
(* written later, or gave way to as many newer ones as the ring holds.  The      *)
(* first loss is told by the warning, unless that is lost in turn; the second    *)
(* leaves no trace.                                                              *)
Somewhere == ToSet(buffer) \cup ToSet(entries) \cup ToSet(received) \cup UNION {ToSet(b) : b \in underway}
LossIsExplained ==
    \A e \in 1..last : \/ e \in Somewhere
                       \/ \E f \in failures : e \in f.batch /\ e < f.notice
                       \/ e + MAX_BUFFERED <= last

(* Nothing arrives twice, and nothing is lost but by a failed batch, with its    *)
(* warning, and by a full ring, oldest first.                                    *)
LogIsAccounted == LogTypeOK /\ AtMostOnce /\ LossIsExplained

=============================================================================
