------------------------------ MODULE RunLoop ------------------------------
(***************************************************************************)
(* The waits of cli.py's "run": polling for enrollment, the first sync,    *)
(* and the loop that samples, syncs and uploads at its own pace, with the  *)
(* backoff of the network and the stop event of SIGTERM.                   *)
(*                                                                         *)
(* Telemetry says what the operations do; here they succeed or fail and    *)
(* take time.  A deadline on the monotonic clock is the time left until    *)
(* it, so that runs are not bounded in length.  The ages are history: they *)
(* are measured, never read by the program.                                *)
(***************************************************************************)
EXTENDS Integers

CONSTANTS
    INTERVAL,    \* sample_seconds
    POLL,        \* between polls while the enrollment is pending: 30
    SYNC,        \* between syncs: 60
    LOGS,        \* between uploads of the log: 60
    RESTART,     \* RestartSec of the unit: 30
    CAP,         \* longest backoff: 300
    MAX_EXP,     \* largest exponent of the backoff: 8
    MIN_AFTER,   \* shortest Retry-After that is obeyed: 5
    RETRY_AFTER, \* values of Retry-After a platform may send
    CALL,        \* bound: time one request takes
    READ,        \* bound: time one sample takes
    MaxAge       \* bound: ages stop counting here

ASSUME PacesAssumption ==
    /\ {INTERVAL, POLL, SYNC, LOGS, CAP, MIN_AFTER} \subseteq Nat \ {0}
    /\ MAX_EXP \in Nat /\ RESTART \in Nat /\ MIN_AFTER <= CAP
    /\ RETRY_AFTER \subseteq Nat
ASSUME DurationsAssumption == CALL \in Nat /\ READ \in Nat /\ MaxAge \in Nat /\ CAP <= MaxAge
(* Arithmetic, true of every MAX_EXP: the powers of 2 grow with the exponent.   *)
ASSUME PowersAssumption ==
    \A m, n \in 0..MAX_EXP : m <= n => 2^m \in Nat /\ 2^n \in Nat /\ 2^m <= 2^n

VARIABLES
    (* the process *)
    pc,        \* what it is doing
    spent,     \* how long already
    wait,      \* time left of stop.wait or of RestartSec
    due,       \* the comparisons with "now", read at the top of the turn
    left,      \* time left until next_sync, next_upload, next_log_upload
    failures,
    stop,      \* the event set by SIGTERM and SIGINT
    (* what the process meets *)
    enrolled,  \* credentials are stored
    cloud,     \* the platform: up, down, or refusing the credential
    (* history: ages and a count *)
    age,       \* of the last sample, attempt, sync, and of the stop
    streak     \* the attempts of this process that failed since the last success:
               \* how many, and whether the first sync was the first of them

process == <<pc, spent, wait, due, left, failures>>
vars    == <<process, stop, enrolled, cloud, age, streak>>

Lesser(a, b) == IF a < b THEN a ELSE b
Larger(a, b) == IF a < b THEN b ELSE a

Calls == {"enroll", "startup", "logs", "sync", "upload"}
Turns == {"turn", "logs", "sample", "sync", "upload", "wait"}
Ages  == {"sample", "attempt", "sync", "stop"}

(* How long a step may take: a sync is two requests. *)
Limit == CASE pc \in {"sync", "startup"} -> 2 * CALL
           [] pc \in {"enroll", "logs", "upload"} -> CALL
           [] pc \in {"reader", "sample"} -> READ
           [] OTHER -> 0

Backoff(f) == Lesser(CAP, 2^Lesser(f, MAX_EXP))

(* random.random() is less than a tick. *)
Jittered(d) == {d, d + 1}

Clamped(a) == Larger(MIN_AFTER, Lesser(CAP, a))

(* _retry_delay: the header of an HTTP error, or the backoff. *)
RetryDelays(f) == Jittered(Backoff(f)) \cup {Clamped(a) : a \in RETRY_AFTER}

(* Bound: the code counts on, but takes no notice beyond MAX_EXP. *)
OneMore(f) == Lesser(f + 1, MAX_EXP + 2)

(* History. *)
NoFailure    == [count |-> 0, cold |-> FALSE]
OneMoreFails == streak' = [streak EXCEPT !.count = OneMore(@)]

Init ==
    /\ pc = "enroll" /\ spent = 0 /\ wait = 0 /\ failures = 0
    /\ due = [sync |-> FALSE, upload |-> FALSE]
    /\ left = [sync |-> 0, upload |-> 0, logs |-> 0]
    /\ stop = FALSE /\ cloud \in {"up", "down", "refuses"} /\ enrolled \in BOOLEAN
    /\ age = [a \in Ages |-> 0] /\ streak = NoFailure

Goto(to) == pc' = to /\ spent' = 0

(* Mutant: time.sleep. *)
Slept == wait = 0

(* stop.wait *)
WaitOver == wait = 0 \/ stop

-----------------------------------------------------------------------------
(* Enrollment, and the sync before the loop. *)

HasCredentials ==
    /\ pc = "enroll" /\ enrolled
    /\ Goto(IF stop THEN "stopped" ELSE "reader") /\ failures' = 0
    /\ UNCHANGED <<wait, due, left, stop, enrolled, cloud, age, streak>>

(* The stop event is looked at before a poll, not during it. *)
Polling == pc = "enroll" /\ ~enrolled

StopEnrolling ==
    /\ Polling /\ spent = 0 /\ stop
    /\ Goto("stopped")
    /\ UNCHANGED <<wait, due, left, failures, stop, enrolled, cloud, age, streak>>

Assigned ==
    /\ Polling /\ cloud = "up"
    /\ enrolled' = TRUE /\ streak' = NoFailure /\ age' = [age EXCEPT !.attempt = 0]
    /\ Goto(IF stop THEN "stopped" ELSE "reader") /\ failures' = 0
    /\ UNCHANGED <<wait, due, left, stop, cloud>>

Pending ==
    /\ Polling /\ cloud = "up"
    /\ failures' = 0 /\ streak' = NoFailure /\ age' = [age EXCEPT !.attempt = 0]
    /\ Goto("poll") /\ wait' = POLL
    /\ UNCHANGED <<due, left, stop, enrolled, cloud>>

EnrollFails ==
    /\ Polling /\ cloud = "down"
    /\ failures' = OneMore(failures) /\ OneMoreFails
    /\ age' = [age EXCEPT !.attempt = 0]
    /\ Goto("poll") /\ wait' \in RetryDelays(failures')
    /\ UNCHANGED <<due, left, stop, enrolled, cloud>>

PollAgain ==
    /\ pc = "poll" /\ WaitOver
    /\ Goto(IF stop THEN "stopped" ELSE "enroll") /\ wait' = 0
    /\ UNCHANGED <<due, left, failures, stop, enrolled, cloud, age, streak>>

(* check_ready reads the inverter once, before any request is made. *)
ReaderReady ==
    /\ pc = "reader" /\ Goto("startup")
    /\ UNCHANGED <<wait, due, left, failures, stop, enrolled, cloud, age, streak>>

ReaderFails ==
    /\ pc = "reader" /\ Goto("down") /\ wait' = RESTART
    /\ UNCHANGED <<due, left, failures, stop, enrolled, cloud, age, streak>>

(* Mutant: the process ends with status 0, which systemd takes for the end. *)
RefusedQuietly ==
    /\ Polling \/ pc \in {"startup", "sync", "upload"}
    /\ cloud = "refuses"
    /\ age' = [age EXCEPT !.attempt = 0]
    /\ Goto("stopped") /\ UNCHANGED wait
    /\ UNCHANGED <<due, left, failures, stop, enrolled, cloud, streak>>

(* A refusal ends the process, here and in the loop: exit status 1. *)
Refused ==
    /\ Polling \/ pc \in {"startup", "sync", "upload"}
    /\ cloud = "refuses"
    /\ age' = [age EXCEPT !.attempt = 0]
    /\ Goto("down") /\ wait' = RESTART
    /\ UNCHANGED <<due, left, failures, stop, enrolled, cloud, streak>>

(* The loop begins with all deadlines in the past. *)
StartLoop == Goto("turn") /\ left' = [sync |-> 0, upload |-> 0, logs |-> 0] /\ failures' = 0

FirstSync ==
    /\ pc = "startup" /\ cloud = "up"
    /\ StartLoop /\ streak' = NoFailure
    /\ age' = [age EXCEPT !.attempt = 0, !.sync = 0, !.sample = 0]
    /\ UNCHANGED <<wait, due, stop, enrolled, cloud>>

(* With a policy in the cache the loop begins all the same, with nothing to wait *)
(* for; without one the process ends.                                           *)
FirstSyncFails ==
    /\ pc = "startup" /\ cloud # "refuses"
    /\ \/ /\ StartLoop /\ UNCHANGED wait
          /\ streak' = [count |-> OneMore(streak.count), cold |-> TRUE]
          /\ age' = [age EXCEPT !.attempt = 0, !.sync = MaxAge, !.sample = 0]
       \/ /\ Goto("down") /\ wait' = RESTART
          /\ age' = [age EXCEPT !.attempt = 0]
          /\ OneMoreFails /\ UNCHANGED <<left, failures>>
    /\ UNCHANGED <<due, stop, enrolled, cloud>>

(* Restart=on-failure.  The new process knows nothing of the failures before. *)
Restarts ==
    /\ pc = "down" /\ (wait = 0 \/ stop)
    /\ Goto(IF stop THEN "stopped" ELSE "enroll") /\ wait' = 0 /\ failures' = 0
    /\ streak' = NoFailure
    /\ UNCHANGED <<due, left, stop, enrolled, cloud, age>>

-----------------------------------------------------------------------------
(* The loop. *)

ToSample == Goto("sample") /\ age' = [age EXCEPT !.sample = 0]

(* "now" is read once, and so are all comparisons with it. *)
Turn ==
    /\ pc = "turn"
    /\ \/ stop /\ Goto("stopped") /\ UNCHANGED <<due, age>>
       \/ /\ ~stop
          /\ due' = [sync |-> left.sync = 0, upload |-> left.upload = 0]
          /\ IF left.logs = 0 THEN Goto("logs") /\ UNCHANGED age ELSE ToSample
    /\ UNCHANGED <<wait, left, failures, stop, enrolled, cloud, streak>>

(* Never raises. *)
UploadLogs ==
    /\ pc = "logs" /\ ToSample
    /\ left' = [left EXCEPT !.logs = LOGS]
    /\ UNCHANGED <<wait, due, failures, stop, enrolled, cloud, streak>>

(* Whatever became of the sample. *)
Sample ==
    /\ pc = "sample"
    /\ IF due.upload
       THEN Goto(IF due.sync THEN "sync" ELSE "upload") /\ UNCHANGED wait
       ELSE Goto("wait") /\ wait' = INTERVAL
    /\ UNCHANGED <<due, left, failures, stop, enrolled, cloud, age, streak>>

(* Mutant: "failures = 0" as soon as the platform answered. *)
SyncForgives ==
    /\ pc = "sync" /\ cloud = "up"
    /\ Goto("upload") /\ failures' = 0
    /\ left' = [left EXCEPT !.sync = SYNC]
    /\ age' = [age EXCEPT !.sync = 0]
    /\ UNCHANGED <<wait, due, stop, enrolled, cloud, streak>>

Sync ==
    /\ pc = "sync" /\ cloud = "up"
    /\ Goto("upload")
    /\ left' = [left EXCEPT !.sync = SYNC]
    /\ age' = [age EXCEPT !.sync = 0]
    /\ UNCHANGED <<wait, due, failures, stop, enrolled, cloud, streak>>

Upload ==
    /\ pc = "upload" /\ cloud = "up"
    /\ Goto("wait") /\ wait' = INTERVAL /\ failures' = 0
    /\ left' = [left EXCEPT !.upload = INTERVAL]
    /\ streak' = NoFailure /\ age' = [age EXCEPT !.attempt = 0]
    /\ UNCHANGED <<due, stop, enrolled, cloud>>

(* Mutant: the loop sleeps until the next attempt. *)
CloudFailsAndSleeps ==
    /\ pc \in {"sync", "upload"} /\ cloud # "refuses"
    /\ failures' = OneMore(failures) /\ OneMoreFails
    /\ \E d \in Jittered(Backoff(failures')) :
          left' = [left EXCEPT !.upload = d] /\ wait' = Larger(INTERVAL, d)
    /\ Goto("wait") /\ age' = [age EXCEPT !.attempt = 0]
    /\ UNCHANGED <<due, stop, enrolled, cloud>>

(* Mutant: a sync counts as made when it was tried. *)
CloudFailsSynced ==
    /\ pc \in {"sync", "upload"} /\ cloud # "refuses"
    /\ failures' = OneMore(failures) /\ OneMoreFails
    /\ \E d \in Jittered(Backoff(failures')) :
          left' = [left EXCEPT !.upload = d, !.sync = IF pc = "sync" THEN SYNC ELSE @]
    /\ Goto("wait") /\ wait' = INTERVAL /\ age' = [age EXCEPT !.attempt = 0]
    /\ UNCHANGED <<due, stop, enrolled, cloud>>

(* The network, an HTTP error, or an answer that does not pass its checks, which *)
(* also a platform that is up may give.                                          *)
CloudFails ==
    /\ pc \in {"sync", "upload"} /\ cloud # "refuses"
    /\ failures' = OneMore(failures) /\ OneMoreFails
    /\ \E d \in Jittered(Backoff(failures')) : left' = [left EXCEPT !.upload = d]
    /\ Goto("wait") /\ wait' = INTERVAL /\ age' = [age EXCEPT !.attempt = 0]
    /\ UNCHANGED <<due, stop, enrolled, cloud>>

WakeUp ==
    /\ pc = "wait" /\ WaitOver
    /\ Goto("turn") /\ wait' = 0
    /\ UNCHANGED <<due, left, failures, stop, enrolled, cloud, age, streak>>

-----------------------------------------------------------------------------
(* The world. *)

Signal ==
    /\ ~stop /\ stop' = TRUE
    /\ age' = [age EXCEPT !.stop = 0]
    /\ UNCHANGED <<process, enrolled, cloud, streak>>

(* The platform changes its mind between two requests, or during one. *)
CloudChanges ==
    /\ cloud' \in {"up", "down", "refuses"} \ {cloud}
    /\ UNCHANGED <<process, stop, enrolled, age, streak>>

Less(t)  == IF t = 0 THEN 0 ELSE t - 1
Older(a) == Lesser(a + 1, MaxAge)

(* Time passes while the process is busy or asleep. *)
Tick ==
    /\ \/ spent < Limit /\ spent' = spent + 1 /\ UNCHANGED wait
       \/ /\ wait > 0 /\ ((pc \in {"wait", "poll"} /\ ~WaitOver) \/ (pc = "down" /\ ~stop))
          /\ wait' = wait - 1 /\ UNCHANGED spent
    /\ left' = [t \in DOMAIN left |-> Less(left[t])]
    /\ age' = [a \in Ages |-> Older(age[a])]
    /\ UNCHANGED <<pc, due, failures, stop, enrolled, cloud, streak>>

Loop == \/ Turn \/ UploadLogs \/ Sample \/ Sync \/ Upload \/ CloudFails \/ WakeUp
        \/ HasCredentials \/ StopEnrolling \/ Assigned \/ Pending \/ EnrollFails \/ PollAgain
        \/ ReaderReady \/ ReaderFails \/ Refused \/ FirstSync \/ FirstSyncFails \/ Restarts

Next == Loop \/ Signal \/ CloudChanges \/ Tick

Spec == Init /\ [][Next]_vars

(* The process runs and time passes.  A platform that is up does not fail every *)
(* attempt, nor the inverter every check at a start.                            *)
FairSpec == /\ Spec /\ WF_vars(Loop) /\ WF_vars(Tick)
            /\ SF_vars(ReaderReady) /\ SF_vars(FirstSync) /\ SF_vars(Sync) /\ SF_vars(Upload)

-----------------------------------------------------------------------------
(* The longest delay that a failure or the platform can ask for. *)
Longest == Larger(CAP, Backoff(MAX_EXP) + 1)

(* The process is at one of its places, and no timer is set beyond its range,    *)
(* whatever Retry-After the platform sends.                                      *)
TypeOK ==
    /\ pc \in Calls \cup Turns \cup {"poll", "reader", "down", "stopped"}
    /\ spent \in 0..Limit
    /\ wait \in 0..Larger(Larger(INTERVAL, RESTART), Larger(POLL, Longest))
    /\ failures \in 0..MAX_EXP + 2
    /\ streak \in [count : 0..MAX_EXP + 2, cold : BOOLEAN]
    /\ due \in [sync : BOOLEAN, upload : BOOLEAN]
    /\ left \in [sync : 0..SYNC, upload : Nat, logs : 0..LOGS]
    /\ stop \in BOOLEAN /\ enrolled \in BOOLEAN /\ cloud \in {"up", "down", "refuses"}
    /\ age \in [Ages -> 0..MaxAge]

(* "Local sampling continues when cloud is offline": whatever the network does,  *)
(* and however long it has been away, the next sample is begun within the        *)
(* interval and the time that one turn of requests can take.                     *)
SamplingGap == INTERVAL + READ + 4 * CALL
SamplingGoesOn == pc \in Turns => age.sample <= SamplingGap

(* Backoff never grows into silence: the platform is tried again within the      *)
(* longest backoff, the interval and two turns, and a device that waits for its  *)
(* enrollment asks again within the longest delay the platform may ask for.      *)
RetryGap == Backoff(MAX_EXP) + INTERVAL + 2 * READ + 5 * CALL
RetriesInTime ==
    /\ pc \in Turns => age.attempt <= RetryGap
    /\ Polling \/ pc = "poll" => age.attempt <= Larger(RESTART, Larger(POLL, Longest)) + CALL

(* The loop leaves a platform that fails alone, for longer with every failure in *)
(* a row, also when its syncs succeed and only the uploads fail.  One failure    *)
(* earns no wait, that of the first sync: the loop that a cached policy starts   *)
(* asks again in its first turn, and its backoff counts from there.              *)
Owed == streak.count - (IF streak.cold THEN 1 ELSE 0)
BacksOff ==
    [][pc = "sample" /\ pc' \in {"sync", "upload"} /\ Owed > 0
        => age.attempt >= Backoff(Owed)]_vars

(* However long the platform is away, the device goes on at its paces: it        *)
(* samples, and it asks again.                                                   *)
KeepsPace == TypeOK /\ SamplingGoesOn /\ RetriesInTime

(* An upload starts at most a sync period, a log upload and a sample after the   *)
(* last sync that succeeded in this process, although "now" is read at the top   *)
(* of the turn: never on a policy that was confirmed longer ago.                 *)
PolicyIsFresh ==
    pc = "upload" => age.sync <= Larger(SYNC - 1, 0) + 2 * CALL + READ

(* A stop waits for the step under way and what is left of the turn, and for no  *)
(* timer: polls, backoff and interval end at once.                               *)
StopGap == READ + 4 * CALL
StopsInTime == stop /\ pc # "stopped" => age.stop <= StopGap

(* When the platform is there for good and the device enrolled, uploads go on    *)
(* for ever, however long the outage before was.                                 *)
UploadsResume == <>[](cloud = "up" /\ enrolled /\ ~stop) => []<><<Upload>>_vars

=============================================================================
