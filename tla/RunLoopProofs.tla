---------------------------- MODULE RunLoopProofs ----------------------------
(***************************************************************************)
(* Proofs about module RunLoop, for every length of the intervals, the     *)
(* backoff, the requests and the samples and for every Retry-After: the    *)
(* gaps between samples, attempts and syncs are bounded, a stop waits for  *)
(* no timer, and a platform that fails is left alone for the full backoff. *)
(* The invariants say how old each thing can be at each place of the loop. *)
(***************************************************************************)
EXTENDS RunLoop, TLAPS

LongestBackoff == Backoff(MAX_EXP)

(* How long ago the last sample was begun. *)
SampleAge ==
    /\ pc = "sample" => age.sample <= spent
    /\ pc = "sync"   => age.sample <= READ + spent
    /\ pc = "upload" => age.sample <= READ + 2 * CALL + spent
    /\ pc = "wait"   => wait <= INTERVAL /\ age.sample <= READ + 3 * CALL + (INTERVAL - wait)
    /\ pc = "turn"   => age.sample <= READ + 3 * CALL + INTERVAL
    /\ pc = "logs"   => age.sample <= READ + 3 * CALL + INTERVAL + spent

(* How long ago the platform was last tried, when an upload is due or not.   *)
(* The deadline of the next try is never later than the backoff allows; only *)
(* the one set by a success may be further away, but not beyond the wait.    *)
Waited == LongestBackoff + CALL + READ + INTERVAL

AttemptAge ==
    /\ pc = "turn" => age.attempt <= Waited
    /\ pc = "logs" => age.attempt <= (IF due.upload THEN Waited ELSE LongestBackoff) + spent
    /\ pc = "sample" =>
          age.attempt <= (IF due.upload THEN Waited ELSE LongestBackoff) + CALL + spent
    /\ pc = "sync" => age.attempt <= Waited + CALL + READ + spent
    /\ pc = "upload" => age.attempt <= Waited + 3 * CALL + READ + spent
    /\ pc = "wait" => age.attempt <= LongestBackoff + CALL + READ + (INTERVAL - wait)

NextAttempt ==
    left.upload > 0 =>
        /\ (pc = "turn" /\ ~stop) \/ pc \in {"logs", "sample"} =>
              age.attempt + left.upload <= LongestBackoff + 1
        /\ pc = "wait" =>
              age.attempt + left.upload <= LongestBackoff + 1 \/ left.upload <= wait

(* A device without credentials is polling, or about to. *)
Enrollment ==
    /\ ~enrolled => pc \in {"enroll", "poll", "down", "stopped"}
    /\ pc = "poll" => age.attempt + wait <= Larger(POLL, Longest)
    /\ pc = "down" => wait <= RESTART
    /\ pc = "down" /\ ~enrolled => age.attempt + wait <= RESTART
    /\ Polling => age.attempt <= Larger(RESTART, Larger(POLL, Longest)) + spent

(* How long ago the last sync was, if the next one is not due. *)
PolicyAge ==
    /\ left.sync > 0 => age.sync + left.sync <= SYNC
    /\ ~due.sync =>
          /\ pc = "logs"   => age.sync <= SYNC - 1 + spent
          /\ pc = "sample" => age.sync <= SYNC - 1 + CALL + spent
          /\ pc = "upload" => age.sync <= SYNC - 1 + CALL + READ + spent
    /\ due.sync /\ pc = "upload" => age.sync <= spent

(* How long ago the stop was asked for.  No timer counts once it was. *)
StopAge ==
    stop => /\ pc \in {"enroll", "reader", "logs"} => age.stop <= spent
            /\ pc = "poll"    => age.stop <= CALL
            /\ pc = "startup" => age.stop <= READ + spent
            /\ pc = "sample"  => age.stop <= CALL + spent
            /\ pc = "sync"    => age.stop <= CALL + READ + spent
            /\ pc = "upload"  => age.stop <= 3 * CALL + READ + spent
            /\ pc \in {"wait", "turn", "down"} => age.stop <= StopGap

(* The code's count of failures is the number in a row, or one less when the *)
(* first sync began it.                                                      *)
Counted ==
    /\ pc = "poll" => ~enrolled
    /\ pc \in {"reader", "startup"} \/ (pc = "enroll" /\ enrolled) => streak.count = 0
    /\ pc \in Turns => streak.count = IF streak.cold THEN OneMore(failures) ELSE failures

(* Since the last failure in the loop its backoff has passed, or its         *)
(* deadline is still to come.                                                *)
Backing ==
    /\ pc \in Turns /\ failures > 0 =>
          age.attempt = MaxAge \/ age.attempt + left.upload >= Backoff(failures)
    /\ pc \in {"logs", "sample"} /\ due.upload /\ failures > 0 =>
          age.attempt >= Backoff(failures)

Inv == /\ TypeOK /\ SampleAge /\ AttemptAge /\ NextAttempt /\ Enrollment /\ PolicyAge /\ StopAge
       /\ Counted /\ Backing

-----------------------------------------------------------------------------
LEMMA Paces ==
    /\ INTERVAL \in Nat \ {0} /\ POLL \in Nat \ {0} /\ SYNC \in Nat \ {0} /\ LOGS \in Nat \ {0}
    /\ CAP \in Nat \ {0} /\ MIN_AFTER \in Nat \ {0} /\ MIN_AFTER <= CAP
    /\ RESTART \in Nat /\ MAX_EXP \in Nat /\ CALL \in Nat /\ READ \in Nat
    /\ MaxAge \in Nat /\ CAP <= MaxAge
BY PacesAssumption, DurationsAssumption

(* A backoff is never longer than the cap, nor than that of the largest      *)
(* exponent, which the counter of failures may exceed.                       *)
LEMMA BackoffBounds ==
    ASSUME NEW f \in 0..MAX_EXP + 2
    PROVE  Backoff(f) \in Nat /\ Backoff(f) <= LongestBackoff /\ Backoff(f) <= CAP
<1>1. Lesser(f, MAX_EXP) \in 0..MAX_EXP /\ Lesser(f, MAX_EXP) <= MAX_EXP
  BY Paces DEF Lesser
<1>2. Lesser(MAX_EXP, MAX_EXP) = MAX_EXP
  BY DEF Lesser
<1>3. /\ 2^Lesser(f, MAX_EXP) \in Nat /\ 2^MAX_EXP \in Nat
      /\ 2^Lesser(f, MAX_EXP) <= 2^MAX_EXP
  BY <1>1, Paces, PowersAssumption
<1> DEFINE p == 2^Lesser(f, MAX_EXP)
           q == 2^MAX_EXP
<1>4. Backoff(f) = Lesser(CAP, p) /\ LongestBackoff = Lesser(CAP, q)
  BY <1>2 DEF Backoff, LongestBackoff
<1>5. p \in Nat /\ q \in Nat /\ p <= q
  BY <1>3
<1> HIDE DEF p, q
<1> QED
  BY <1>4, <1>5, Paces DEF Lesser

LEMMA LongestBounds ==
    /\ LongestBackoff \in Nat /\ LongestBackoff <= CAP /\ Longest \in Nat
    /\ CAP <= Longest /\ LongestBackoff + 1 <= Longest
<1>1. LongestBackoff \in Nat /\ LongestBackoff <= CAP
  BY BackoffBounds, Paces DEF LongestBackoff
<1> QED
  BY <1>1, Paces DEF Longest, Larger, LongestBackoff

(* Whatever the platform asks for, a delay is at most the longest one. *)
LEMMA DelayBounds ==
    ASSUME NEW f \in 0..MAX_EXP + 2, NEW d \in RetryDelays(f)
    PROVE  d \in Nat /\ d <= Longest
<1>1. CASE d \in Jittered(Backoff(f))
  BY <1>1, BackoffBounds, LongestBounds DEF Jittered
<1>2. CASE \E a \in RETRY_AFTER : d = Clamped(a)
  BY <1>2, LongestBounds, Paces, PacesAssumption DEF Clamped, Larger, Lesser
<1> QED
  BY <1>1, <1>2 DEF RetryDelays

LEMMA OneMoreBounds ==
    ASSUME NEW f \in 0..MAX_EXP + 2 PROVE OneMore(f) \in 0..MAX_EXP + 2
BY Paces DEF OneMore, Lesser

(* The time that a place of the program may take. *)
LEMMA Limits ==
    /\ pc \in {"sync", "startup"} => Limit = 2 * CALL
    /\ pc \in {"enroll", "logs", "upload"} => Limit = CALL
    /\ pc \in {"reader", "sample"} => Limit = READ
    /\ pc \in {"turn", "wait", "poll", "down", "stopped"} => Limit = 0
    /\ Limit \in Nat
BY Paces DEF Limit

LEMMA LargerOf ==
    ASSUME NEW a \in Nat, NEW b \in Nat
    PROVE  Larger(a, b) \in Nat /\ a <= Larger(a, b) /\ b <= Larger(a, b)
BY DEF Larger

(* Every timer the program sets is in its range. *)
LEMMA WaitRange ==
    ASSUME NEW d \in Nat, d <= INTERVAL \/ d <= RESTART \/ d <= POLL \/ d <= Longest
    PROVE  d \in 0..Larger(Larger(INTERVAL, RESTART), Larger(POLL, Longest))
BY Paces, LongestBounds DEF Larger

(* The range itself is one. *)
LEMMA WaitIsNatural ==
    ASSUME NEW d \in 0..Larger(Larger(INTERVAL, RESTART), Larger(POLL, Longest))
    PROVE  /\ d \in Nat
           /\ d > 0 => d - 1 \in 0..Larger(Larger(INTERVAL, RESTART), Larger(POLL, Longest))
<1> DEFINE L == Larger(Larger(INTERVAL, RESTART), Larger(POLL, Longest))
<1>1. L \in Nat
  BY Paces, LongestBounds DEF Larger
<1> HIDE DEF L
<1>2. ASSUME NEW e \in 0..L PROVE e \in Nat /\ (e > 0 => e - 1 \in 0..L)
  BY <1>1
<1> QED
  BY <1>2 DEF L

(* The history counts within its range. *)
LEMMA StreakTypes ==
    /\ NoFailure \in [count : 0..MAX_EXP + 2, cold : BOOLEAN]
    /\ TypeOK => \A c \in BOOLEAN :
          [count |-> OneMore(streak.count), cold |-> c] \in [count : 0..MAX_EXP + 2, cold : BOOLEAN]
    /\ TypeOK /\ OneMoreFails => streak' \in [count : 0..MAX_EXP + 2, cold : BOOLEAN]
BY Paces, OneMoreBounds DEF TypeOK, NoFailure, OneMoreFails

LEMMA InitInv == Init => Inv
<1> SUFFICES ASSUME Init PROVE Inv
  OBVIOUS
<1>1. TypeOK
  <2>1. age \in [Ages -> 0..MaxAge] /\ spent \in 0..Limit
    BY Paces, Limits DEF Init
  <2>2. wait \in 0..Larger(Larger(INTERVAL, RESTART), Larger(POLL, Longest))
    BY WaitRange, Paces DEF Init
  <2>3. /\ left \in [sync : 0..SYNC, upload : Nat, logs : 0..LOGS]
        /\ due \in [sync : BOOLEAN, upload : BOOLEAN]
        /\ failures \in 0..MAX_EXP + 2
        /\ streak \in [count : 0..MAX_EXP + 2, cold : BOOLEAN]
    BY Paces DEF Init, NoFailure
  <2>4. /\ pc \in Calls \cup Turns \cup {"poll", "reader", "down", "stopped"}
        /\ stop \in BOOLEAN /\ enrolled \in BOOLEAN /\ cloud \in {"up", "down", "refuses"}
    BY DEF Init, Calls
  <2> QED
    BY <2>1, <2>2, <2>3, <2>4 DEF TypeOK
<1>2. SampleAge /\ AttemptAge /\ NextAttempt /\ PolicyAge /\ StopAge /\ Counted /\ Backing
  BY Paces DEF Init, SampleAge, AttemptAge, NextAttempt, PolicyAge, StopAge, Counted, Backing,
    Turns, Ages, NoFailure
<1>3. Enrollment
  BY Paces, LongestBounds DEF Init, Enrollment, Polling, Ages, Larger
<1> QED
  BY <1>1, <1>2, <1>3 DEF Inv

LEMMA HasCredentialsInv == ASSUME Inv, HasCredentials PROVE Inv'
<1> USE DEF Inv, HasCredentials, Goto
<1>1. TypeOK'
  BY Paces DEF TypeOK, Calls, Turns, Ages, Limit
<1>2. SampleAge'
  BY DEF SampleAge
<1>3. AttemptAge'
  BY DEF AttemptAge
<1>4. NextAttempt'
  BY DEF NextAttempt
<1>5. Enrollment'
  BY DEF Enrollment, Polling
<1>6. PolicyAge'
  BY DEF PolicyAge
<1>7. StopAge'
  BY DEF StopAge
<1>8. Counted' /\ Backing'
  BY DEF Counted, Backing, Turns
<1> QED
  BY <1>1, <1>2, <1>3, <1>4, <1>5, <1>6, <1>7, <1>8

LEMMA StopEnrollingInv == ASSUME Inv, StopEnrolling PROVE Inv'
<1> USE DEF Inv, StopEnrolling, Polling, Goto
<1>1. TypeOK'
  BY Paces DEF TypeOK, Calls, Turns, Ages, Limit
<1>2. SampleAge'
  BY DEF SampleAge
<1>3. AttemptAge'
  BY DEF AttemptAge
<1>4. NextAttempt'
  BY DEF NextAttempt
<1>5. Enrollment'
  BY DEF Enrollment, Polling
<1>6. PolicyAge'
  BY DEF PolicyAge
<1>7. StopAge'
  BY DEF StopAge
<1>8. Counted' /\ Backing'
  BY DEF Counted, Backing, Turns
<1> QED
  BY <1>1, <1>2, <1>3, <1>4, <1>5, <1>6, <1>7, <1>8

LEMMA AssignedInv == ASSUME Inv, Assigned PROVE Inv'
<1> USE DEF Inv, Assigned, Polling, Goto
<1>1. TypeOK'
  BY StreakTypes, Paces DEF TypeOK, Calls, Turns, Ages, Limit
<1>2. SampleAge'
  BY DEF SampleAge
<1>3. AttemptAge'
  BY DEF AttemptAge
<1>4. NextAttempt'
  BY DEF NextAttempt
<1>5. Enrollment'
  BY DEF Enrollment, Polling
<1>6. PolicyAge'
  BY DEF PolicyAge
<1>7. StopAge'
  BY DEF StopAge
<1>8. Counted' /\ Backing'
  BY DEF Counted, Backing, Turns, NoFailure
<1> QED
  BY <1>1, <1>2, <1>3, <1>4, <1>5, <1>6, <1>7, <1>8

LEMMA PendingInv == ASSUME Inv, Pending PROVE Inv'
<1> USE DEF Inv, Pending, Polling, Goto
<1>1. TypeOK'
  BY StreakTypes, Paces, LongestBounds DEF TypeOK, Calls, Turns, Ages, Limit, Larger
<1>2. SampleAge'
  BY DEF SampleAge
<1>3. AttemptAge'
  BY DEF AttemptAge
<1>4. NextAttempt'
  BY DEF NextAttempt
<1>5. Enrollment'
  BY Paces, LongestBounds DEF TypeOK, Ages, Enrollment, Polling, Larger
<1>6. PolicyAge'
  BY DEF PolicyAge
<1>7. StopAge'
  BY Paces, Limits DEF TypeOK, Ages, StopAge, StopGap
<1>8. Counted' /\ Backing'
  BY DEF Counted, Backing, Turns, NoFailure
<1> QED
  BY <1>1, <1>2, <1>3, <1>4, <1>5, <1>6, <1>7, <1>8

LEMMA EnrollFailsInv == ASSUME Inv, EnrollFails PROVE Inv'
<1> USE DEF Inv, EnrollFails, Polling, Goto
<1>0. /\ failures' \in 0..MAX_EXP + 2
      /\ streak' \in [count : 0..MAX_EXP + 2, cold : BOOLEAN]
      /\ wait' \in Nat /\ wait' <= Longest
  BY OneMoreBounds, DelayBounds DEF TypeOK, OneMoreFails
<1>1. TypeOK'
  <2>1. wait' \in 0..Larger(Larger(INTERVAL, RESTART), Larger(POLL, Longest))
    BY <1>0, WaitRange
  <2> QED
    BY <1>0, <2>1, Paces DEF TypeOK, Calls, Turns, Ages, Limit
<1>2. SampleAge'
  BY DEF SampleAge
<1>3. AttemptAge'
  BY DEF AttemptAge
<1>4. NextAttempt'
  BY DEF NextAttempt
<1>5. Enrollment'
  <2>1. age'.attempt = 0 /\ wait' <= Larger(POLL, Longest)
    BY <1>0, Paces, LongestBounds, LargerOf DEF TypeOK, Ages
  <2> QED
    BY <1>0, <2>1 DEF Enrollment
<1>6. PolicyAge'
  BY DEF PolicyAge
<1>7. StopAge'
  BY Paces, Limits DEF TypeOK, Ages, StopAge, StopGap
<1>8. Counted' /\ Backing'
  BY DEF Counted, Backing, Turns
<1> QED
  BY <1>1, <1>2, <1>3, <1>4, <1>5, <1>6, <1>7, <1>8

LEMMA PollAgainInv == ASSUME Inv, PollAgain PROVE Inv'
<1> USE DEF Inv, PollAgain, Goto, WaitOver
<1>1. TypeOK'
  BY Paces, LongestBounds DEF TypeOK, Calls, Turns, Ages, Limit, Larger
<1>2. SampleAge'
  BY DEF SampleAge
<1>3. AttemptAge'
  BY DEF AttemptAge
<1>4. NextAttempt'
  BY DEF NextAttempt
<1>5. Enrollment'
  BY Paces, LongestBounds DEF TypeOK, Ages, Enrollment, Polling, Larger
<1>6. PolicyAge'
  BY DEF PolicyAge
<1>7. StopAge'
  BY DEF StopAge
<1>8. Counted' /\ Backing'
  BY DEF Counted, Backing, Turns
<1> QED
  BY <1>1, <1>2, <1>3, <1>4, <1>5, <1>6, <1>7, <1>8

LEMMA ReaderReadyInv == ASSUME Inv, ReaderReady PROVE Inv'
<1> USE DEF Inv, ReaderReady, Goto
<1>1. TypeOK'
  BY Paces DEF TypeOK, Calls, Turns, Ages, Limit
<1>2. SampleAge'
  BY DEF SampleAge
<1>3. AttemptAge'
  BY DEF AttemptAge
<1>4. NextAttempt'
  BY DEF NextAttempt
<1>5. Enrollment'
  BY DEF Enrollment, Polling
<1>6. PolicyAge'
  BY DEF PolicyAge
<1>7. StopAge'
  BY Paces, Limits DEF TypeOK, Ages, StopAge, StopGap
<1>8. Counted' /\ Backing'
  BY DEF Counted, Backing, Turns
<1> QED
  BY <1>1, <1>2, <1>3, <1>4, <1>5, <1>6, <1>7, <1>8

LEMMA ReaderFailsInv == ASSUME Inv, ReaderFails PROVE Inv'
<1> USE DEF Inv, ReaderFails, Goto
<1>1. TypeOK'
  BY Paces, LongestBounds DEF TypeOK, Calls, Turns, Ages, Limit, Larger
<1>2. SampleAge'
  BY DEF SampleAge
<1>3. AttemptAge'
  BY DEF AttemptAge
<1>4. NextAttempt'
  BY DEF NextAttempt
<1>5. Enrollment'
  BY Paces, LongestBounds DEF TypeOK, Ages, Enrollment, Polling, Larger
<1>6. PolicyAge'
  BY DEF PolicyAge
<1>7. StopAge'
  BY Paces, Limits DEF TypeOK, Ages, StopAge, StopGap
<1>8. Counted' /\ Backing'
  BY DEF Counted, Backing, Turns
<1> QED
  BY <1>1, <1>2, <1>3, <1>4, <1>5, <1>6, <1>7, <1>8

LEMMA RefusedInv == ASSUME Inv, Refused PROVE Inv'
<1> USE DEF Inv, Refused, Polling, Goto
<1>1. TypeOK'
  BY Paces, LongestBounds DEF TypeOK, Calls, Turns, Ages, Limit, Larger
<1>2. SampleAge'
  BY DEF SampleAge
<1>3. AttemptAge'
  BY DEF AttemptAge
<1>4. NextAttempt'
  BY DEF NextAttempt
<1>5. Enrollment'
  BY Paces, LongestBounds DEF TypeOK, Ages, Enrollment, Polling, Larger
<1>6. PolicyAge'
  BY DEF PolicyAge
<1>7. StopAge'
  BY Paces, Limits DEF TypeOK, Ages, StopAge, StopGap
<1>8. Counted' /\ Backing'
  BY DEF Counted, Backing, Turns
<1> QED
  BY <1>1, <1>2, <1>3, <1>4, <1>5, <1>6, <1>7, <1>8

LEMMA FirstSyncInv == ASSUME Inv, FirstSync PROVE Inv'
<1> USE DEF Inv, FirstSync, Goto, StartLoop
<1>1. TypeOK'
  <2>1. age' \in [Ages -> 0..MaxAge]
    <3> DEFINE Range == 0..MaxAge
    <3>1. 0 \in Range /\ MaxAge \in Range /\ age \in [Ages -> Range]
      BY Paces DEF TypeOK
    <3> HIDE DEF Range
    <3>2. age' \in [Ages -> Range]
      BY <3>1 DEF Ages
    <3> QED
      BY <3>2 DEF Range
  <2>2. spent' \in 0..Limit'
    BY Paces DEF Limit
  <2>3. left' \in [sync : 0..SYNC, upload : Nat, logs : 0..LOGS]
    BY Paces
  <2> QED
    BY <2>1, <2>2, <2>3, StreakTypes, Paces DEF TypeOK, Calls, Turns
<1>2. SampleAge'
  BY Paces DEF TypeOK, Ages, SampleAge
<1>3. AttemptAge'
  BY Paces, LongestBounds DEF TypeOK, Ages, AttemptAge, Waited
<1>4. NextAttempt'
  BY DEF NextAttempt
<1>5. Enrollment'
  BY DEF Enrollment, Polling
<1>6. PolicyAge'
  BY DEF PolicyAge
<1>7. StopAge'
  BY Paces, Limits DEF TypeOK, Ages, StopAge, StopGap
<1>8. Counted' /\ Backing'
  BY DEF Counted, Backing, Turns, NoFailure
<1> QED
  BY <1>1, <1>2, <1>3, <1>4, <1>5, <1>6, <1>7, <1>8

(* A first sync that fails, and there is a policy in the cache. *)
LEMMA StartOfflineInv ==
    ASSUME Inv, FirstSyncFails, StartLoop, UNCHANGED wait,
           streak' = [count |-> OneMore(streak.count), cold |-> TRUE],
           age' = [age EXCEPT !.attempt = 0, !.sync = MaxAge, !.sample = 0]
    PROVE  Inv'
<1> USE DEF Inv, StartLoop, Goto
<1>0. UNCHANGED <<due, stop, enrolled, cloud>> /\ pc = "startup"
  BY DEF FirstSyncFails
<1>1. TypeOK'
  <2>1. age' \in [Ages -> 0..MaxAge]
    <3> DEFINE Range == 0..MaxAge
    <3>1. 0 \in Range /\ MaxAge \in Range /\ age \in [Ages -> Range]
      BY Paces DEF TypeOK
    <3> HIDE DEF Range
    <3>2. age' \in [Ages -> Range]
      BY <3>1 DEF Ages
    <3> QED
      BY <3>2 DEF Range
  <2>2. spent' \in 0..Limit'
    BY Paces DEF Limit
  <2>3. left' \in [sync : 0..SYNC, upload : Nat, logs : 0..LOGS]
    BY Paces
  <2> QED
    BY <1>0, <2>1, <2>2, <2>3, StreakTypes, Paces DEF TypeOK, Calls, Turns
<1>2. age'.sample = 0 /\ age'.attempt = 0 /\ age'.stop = age.stop
  BY DEF TypeOK, Ages
<1>3. SampleAge' /\ AttemptAge'
  BY <1>2, Paces, LongestBounds DEF SampleAge, AttemptAge, Waited
<1>4. NextAttempt' /\ PolicyAge'
  BY DEF NextAttempt, PolicyAge
<1>5. Enrollment'
  BY <1>0 DEF Enrollment, Polling
<1>6. StopAge'
  BY <1>0, <1>2, Limits, Paces DEF StopAge, StopGap, TypeOK, Ages
<1>7. Counted' /\ Backing'
  BY <1>0 DEF Counted, Backing, Turns
<1> QED
  BY <1>1, <1>3, <1>4, <1>5, <1>6, <1>7

(* A first sync that fails, and there is none. *)
LEMMA NoPolicyInv ==
    ASSUME Inv, FirstSyncFails, Goto("down"), wait' = RESTART,
           age' = [age EXCEPT !.attempt = 0], UNCHANGED <<left, failures>>,
           OneMoreFails
    PROVE  Inv'
<1> USE DEF Inv, Goto
<1>0. UNCHANGED <<due, stop, enrolled, cloud>> /\ pc = "startup"
  BY DEF FirstSyncFails
<1>1. TypeOK'
  <2>1. age' \in [Ages -> 0..MaxAge] /\ spent' \in 0..Limit'
    BY Paces DEF TypeOK, Ages, Limit
  <2>2. wait' \in 0..Larger(Larger(INTERVAL, RESTART), Larger(POLL, Longest))
    BY WaitRange, Paces
  <2> QED
    BY <1>0, <2>1, <2>2, StreakTypes, Paces DEF TypeOK
<1>2. age'.attempt = 0 /\ age'.sync = age.sync /\ age'.stop = age.stop
  BY DEF TypeOK, Ages
<1>3. SampleAge' /\ AttemptAge' /\ NextAttempt' /\ Counted' /\ Backing'
  BY DEF SampleAge, AttemptAge, NextAttempt, Counted, Backing, Turns
<1>4. Enrollment'
  BY <1>0, <1>2, Paces DEF Enrollment, Polling
<1>5. PolicyAge'
  BY <1>2 DEF PolicyAge
<1>6. StopAge'
  BY <1>0, <1>2, Limits, Paces DEF StopAge, StopGap, TypeOK, Ages
<1> QED
  BY <1>1, <1>3, <1>4, <1>5, <1>6

LEMMA FirstSyncFailsInv == ASSUME Inv, FirstSyncFails PROVE Inv'
BY StartOfflineInv, NoPolicyInv DEF FirstSyncFails

LEMMA RestartsInv == ASSUME Inv, Restarts PROVE Inv'
<1> USE DEF Inv, Restarts, Goto
<1>1. TypeOK'
  BY StreakTypes, Paces, LongestBounds DEF TypeOK, Calls, Turns, Ages, Limit, Larger
<1>2. SampleAge'
  BY DEF SampleAge
<1>3. AttemptAge'
  BY DEF AttemptAge
<1>4. NextAttempt'
  BY DEF NextAttempt
<1>5. Enrollment'
  BY Paces, LongestBounds DEF TypeOK, Ages, Enrollment, Polling, Larger
<1>6. PolicyAge'
  BY DEF PolicyAge
<1>7. StopAge'
  BY DEF StopAge
<1>8. Counted' /\ Backing'
  BY Paces DEF Counted, Backing, Turns, NoFailure
<1> QED
  BY <1>1, <1>2, <1>3, <1>4, <1>5, <1>6, <1>7, <1>8

(* A stop ends the process at the top of a turn. *)
LEMMA StopTurnInv == ASSUME Inv, Turn, stop PROVE Inv'
<1> USE DEF Inv, Turn, Goto
<1>1. TypeOK'
  BY Paces DEF TypeOK, Limit
<1>2. SampleAge' /\ AttemptAge' /\ NextAttempt' /\ StopAge' /\ Counted' /\ Backing'
  BY DEF SampleAge, AttemptAge, NextAttempt, StopAge, Counted, Backing, Turns
<1>3. Enrollment' /\ PolicyAge'
  BY DEF Enrollment, Polling, PolicyAge
<1> QED
  BY <1>1, <1>2, <1>3

LEMMA GoTurnInv == ASSUME Inv, Turn, ~stop PROVE Inv'
<1> USE DEF Inv
<1>0. /\ pc = "turn" /\ pc' \in {"logs", "sample"} /\ spent' = 0
      /\ UNCHANGED <<wait, left, failures, stop, enrolled, cloud, streak>>
  BY DEF Turn, Goto, ToSample
<1>1. /\ due' \in [sync : BOOLEAN, upload : BOOLEAN]
      /\ due'.sync <=> left.sync = 0
      /\ due'.upload <=> left.upload = 0
  <2>1. due' = [sync |-> left.sync = 0, upload |-> left.upload = 0]
    BY DEF Turn
  <2>2. (left.sync = 0) \in BOOLEAN /\ (left.upload = 0) \in BOOLEAN
    OBVIOUS
  <2> QED
    BY <2>1, <2>2, Zenon
<1>2. /\ age' \in [Ages -> 0..MaxAge]
      /\ age'.attempt = age.attempt /\ age'.sync = age.sync /\ age'.stop = age.stop
      /\ pc' = "logs" => age'.sample = age.sample
      /\ pc' = "sample" => age'.sample = 0
  BY Paces DEF TypeOK, Ages, Turn, ToSample, Goto
<1>3. TypeOK'
  <2>1. spent' \in 0..Limit'
    BY <1>0, Paces DEF Limit
  <2> QED
    BY <1>0, <1>1, <1>2, <2>1 DEF TypeOK, Calls, Turns
<1>4. /\ age.attempt \in Nat /\ age.sync \in Nat /\ age.sample \in Nat
      /\ left.upload \in Nat /\ left.sync \in Nat /\ failures \in 0..MAX_EXP + 2
  BY DEF TypeOK, Ages
<1>5. SampleAge'
  BY <1>0, <1>2, <1>4, Paces DEF SampleAge
<1>6. AttemptAge'
  <2>1. age.attempt <= Waited /\ Waited \in Nat
    BY <1>0, Paces, LongestBounds DEF AttemptAge, Waited
  <2>2. ~due'.upload => age.attempt <= LongestBackoff
    BY <1>0, <1>1, <1>4, LongestBounds DEF NextAttempt
  <2> QED
    BY <1>0, <1>2, <1>4, <2>1, <2>2, Paces, LongestBounds DEF AttemptAge
<1>7. NextAttempt'
  BY <1>0, <1>2 DEF NextAttempt
<1>8. Enrollment'
  BY <1>0 DEF Enrollment, Polling
<1>9. PolicyAge'
  BY <1>0, <1>1, <1>2, <1>4, Paces DEF PolicyAge
<1>10. StopAge'
  BY <1>0 DEF StopAge
<1>11. Counted' /\ Backing'
  BY <1>0, <1>1, <1>2, <1>4, BackoffBounds, Paces DEF Counted, Backing, Turns
<1> QED
  BY <1>3, <1>5, <1>6, <1>7, <1>8, <1>9, <1>10, <1>11

LEMMA TurnInv == ASSUME Inv, Turn PROVE Inv'
BY StopTurnInv, GoTurnInv

LEMMA UploadLogsInv == ASSUME Inv, UploadLogs PROVE Inv'
<1> USE DEF Inv, UploadLogs, Goto, ToSample
<1>1. TypeOK'
  BY Paces DEF TypeOK, Calls, Turns, Ages, Limit
<1>2. SampleAge'
  BY DEF SampleAge
<1>3. AttemptAge'
  BY Paces, LongestBounds, Limits DEF TypeOK, Ages, AttemptAge, NextAttempt, Waited
<1>4. NextAttempt'
  BY DEF NextAttempt
<1>5. Enrollment'
  BY DEF Enrollment, Polling
<1>6. PolicyAge'
  BY Paces, Limits DEF TypeOK, Ages, PolicyAge
<1>7. StopAge'
  BY Paces, Limits DEF TypeOK, Ages, StopAge, StopGap
<1>8. Counted' /\ Backing'
  BY DEF Counted, Backing, Turns
<1> QED
  BY <1>1, <1>2, <1>3, <1>4, <1>5, <1>6, <1>7, <1>8

LEMMA SampleInv == ASSUME Inv, Sample PROVE Inv'
<1> USE DEF Inv, Sample, Goto
<1>1. TypeOK'
  BY Paces, LongestBounds DEF TypeOK, Calls, Turns, Ages, Limit, Larger
<1>2. SampleAge'
  BY Paces, Limits DEF TypeOK, Ages, SampleAge
<1>3. AttemptAge'
  BY Paces, LongestBounds, Limits DEF TypeOK, Ages, AttemptAge, NextAttempt, Waited
<1>4. NextAttempt'
  BY DEF NextAttempt
<1>5. Enrollment'
  BY DEF Enrollment, Polling
<1>6. PolicyAge'
  BY Paces, Limits DEF TypeOK, Ages, PolicyAge
<1>7. StopAge'
  BY Paces, Limits DEF TypeOK, Ages, StopAge, StopGap
<1>8. Counted' /\ Backing'
  BY DEF Counted, Backing, Turns
<1> QED
  BY <1>1, <1>2, <1>3, <1>4, <1>5, <1>6, <1>7, <1>8

LEMMA SyncInv == ASSUME Inv, Sync PROVE Inv'
<1> USE DEF Inv, Sync, Goto
<1>1. TypeOK'
  BY Paces DEF TypeOK, Calls, Turns, Ages, Limit
<1>2. SampleAge'
  BY Paces, Limits DEF TypeOK, Ages, SampleAge
<1>3. AttemptAge'
  BY Paces, LongestBounds, Limits DEF TypeOK, Ages, AttemptAge, NextAttempt, Waited
<1>4. NextAttempt'
  BY DEF NextAttempt
<1>5. Enrollment'
  BY DEF Enrollment, Polling
<1>6. PolicyAge'
  BY Paces DEF TypeOK, Ages, PolicyAge
<1>7. StopAge'
  BY Paces, Limits DEF TypeOK, Ages, StopAge, StopGap
<1>8. Counted' /\ Backing'
  BY DEF Counted, Backing, Turns
<1> QED
  BY <1>1, <1>2, <1>3, <1>4, <1>5, <1>6, <1>7, <1>8

LEMMA UploadInv == ASSUME Inv, Upload PROVE Inv'
<1> USE DEF Inv, Upload, Goto
<1>1. TypeOK'
  BY StreakTypes, Paces, LongestBounds DEF TypeOK, Calls, Turns, Ages, Limit, Larger
<1>2. SampleAge'
  BY Paces, Limits DEF TypeOK, Ages, SampleAge
<1>3. AttemptAge'
  BY Paces, LongestBounds DEF TypeOK, Ages, AttemptAge, Waited
<1>4. NextAttempt'
  BY Paces, LongestBounds DEF TypeOK, Ages, NextAttempt
<1>5. Enrollment'
  BY DEF Enrollment, Polling
<1>6. PolicyAge'
  BY DEF PolicyAge
<1>7. StopAge'
  BY Paces, Limits DEF TypeOK, Ages, StopAge, StopGap
<1>8. Counted' /\ Backing'
  BY Paces DEF Counted, Backing, Turns, NoFailure
<1> QED
  BY <1>1, <1>2, <1>3, <1>4, <1>5, <1>6, <1>7, <1>8

LEMMA CloudFailsInv == ASSUME Inv, CloudFails PROVE Inv'
<1> USE DEF Inv, CloudFails, Goto
<1>0. /\ failures' \in 0..MAX_EXP + 2
      /\ streak' \in [count : 0..MAX_EXP + 2, cold : BOOLEAN]
      /\ Backoff(failures') \in Nat /\ Backoff(failures') <= LongestBackoff
  BY OneMoreBounds, BackoffBounds DEF TypeOK, OneMoreFails
<1>d. PICK d \in Jittered(Backoff(failures')) : left' = [left EXCEPT !.upload = d]
  OBVIOUS
<1>e. /\ d \in Nat /\ Backoff(failures') <= d /\ d <= LongestBackoff + 1
      /\ left'.upload = d /\ left'.sync = left.sync
      /\ left' \in [sync : 0..SYNC, upload : Nat, logs : 0..LOGS]
  BY <1>0, <1>d, LongestBounds DEF TypeOK, Jittered
<1>f. age' \in [Ages -> 0..MaxAge] /\ age'.attempt = 0 /\ age'.sync = age.sync
  BY Paces DEF TypeOK, Ages
<1>1. TypeOK'
  <2>1. spent' \in 0..Limit'
    BY Paces DEF Limit
  <2>2. wait' \in 0..Larger(Larger(INTERVAL, RESTART), Larger(POLL, Longest))
    BY WaitRange, Paces
  <2> QED
    BY <1>0, <1>e, <1>f, <2>1, <2>2 DEF TypeOK, Turns
<1>2. SampleAge'
  BY Paces, Limits DEF TypeOK, Ages, SampleAge
<1>3. AttemptAge'
  BY Paces, LongestBounds DEF TypeOK, Ages, AttemptAge, Waited
<1>4. NextAttempt'
  BY <1>e, <1>f DEF NextAttempt
<1>5. Enrollment'
  BY DEF Enrollment, Polling
<1>6. PolicyAge'
  BY DEF PolicyAge
<1>7. StopAge'
  BY Paces, Limits DEF TypeOK, Ages, StopAge, StopGap
<1>8. Counted'
  BY DEF Counted, Turns, OneMoreFails, TypeOK
<1>9. Backing'
  BY <1>0, <1>e, <1>f DEF Backing, Turns
<1> QED
  BY <1>1, <1>2, <1>3, <1>4, <1>5, <1>6, <1>7, <1>8, <1>9

LEMMA WakeUpInv == ASSUME Inv, WakeUp PROVE Inv'
<1> USE DEF Inv, WakeUp, Goto, WaitOver
<1>1. TypeOK'
  BY Paces, LongestBounds DEF TypeOK, Calls, Turns, Ages, Limit, Larger
<1>2. SampleAge'
  BY Paces DEF TypeOK, Ages, SampleAge
<1>3. AttemptAge'
  BY Paces, LongestBounds DEF TypeOK, Ages, AttemptAge, Waited
<1>4. NextAttempt'
  BY Paces, LongestBounds DEF TypeOK, Ages, NextAttempt
<1>5. Enrollment'
  BY DEF Enrollment, Polling
<1>6. PolicyAge'
  BY DEF PolicyAge
<1>7. StopAge'
  BY DEF StopAge
<1>8. Counted' /\ Backing'
  BY DEF Counted, Backing, Turns
<1> QED
  BY <1>1, <1>2, <1>3, <1>4, <1>5, <1>6, <1>7, <1>8

LEMMA SignalInv == ASSUME Inv, Signal PROVE Inv'
<1> USE DEF Inv, Signal, process
<1>1. TypeOK'
  BY Paces DEF TypeOK, Calls, Turns, Ages, Limit
<1>2. SampleAge'
  BY DEF SampleAge
<1>3. AttemptAge'
  BY DEF AttemptAge
<1>4. NextAttempt'
  BY DEF NextAttempt
<1>5. Enrollment'
  BY DEF Enrollment, Polling
<1>6. PolicyAge'
  BY DEF PolicyAge
<1>7. StopAge'
  BY Paces DEF TypeOK, Ages, StopAge, StopGap
<1>8. Counted' /\ Backing'
  BY DEF Counted, Backing, Turns
<1> QED
  BY <1>1, <1>2, <1>3, <1>4, <1>5, <1>6, <1>7, <1>8

LEMMA CloudChangesInv == ASSUME Inv, CloudChanges PROVE Inv'
<1> USE DEF Inv, CloudChanges, process
<1>1. TypeOK'
  BY Paces DEF TypeOK, Calls, Turns, Ages, Limit
<1>2. SampleAge'
  BY DEF SampleAge
<1>3. AttemptAge'
  BY DEF AttemptAge
<1>4. NextAttempt'
  BY DEF NextAttempt
<1>5. Enrollment'
  BY DEF Enrollment, Polling
<1>6. PolicyAge'
  BY DEF PolicyAge
<1>7. StopAge'
  BY DEF StopAge
<1>8. Counted' /\ Backing'
  BY DEF Counted, Backing, Turns
<1> QED
  BY <1>1, <1>2, <1>3, <1>4, <1>5, <1>6, <1>7, <1>8

(* Time passes: nothing gets younger, and nothing older by more than a tick. *)
LEMMA TickAges ==
    ASSUME Inv, Tick, NEW a \in Ages
    PROVE  /\ age[a] \in 0..MaxAge /\ age'[a] \in 0..MaxAge
           /\ age[a] <= age'[a] /\ age'[a] <= age[a] + 1
           /\ age'[a] = MaxAge \/ age'[a] = age[a] + 1
BY Paces DEF Inv, TypeOK, Tick, Older, Lesser

LEMMA TickInv == ASSUME Inv, Tick PROVE Inv'
<1> USE DEF Inv
<1>0. UNCHANGED <<pc, due, failures, stop, enrolled, cloud, streak>>
  BY DEF Tick
<1>1. /\ age'.sample <= age.sample + 1 /\ age'.attempt <= age.attempt + 1
      /\ age'.sync <= age.sync + 1 /\ age'.stop <= age.stop + 1
      /\ age.attempt <= age'.attempt
      /\ age'.attempt = MaxAge \/ age'.attempt = age.attempt + 1
      /\ age.sample \in Nat /\ age.attempt \in Nat /\ age.sync \in Nat /\ age.stop \in Nat
      /\ age'.sample \in Nat /\ age'.attempt \in Nat /\ age'.sync \in Nat /\ age'.stop \in Nat
  BY TickAges, Paces DEF Ages
<1>2. age' \in [Ages -> 0..MaxAge]
  BY TickAges DEF Tick
<1>3. /\ left' \in [sync : 0..SYNC, upload : Nat, logs : 0..LOGS]
      /\ left.upload > 0 => left'.upload = left.upload - 1
      /\ left.upload = 0 => left'.upload = 0
      /\ left.sync > 0 => left'.sync = left.sync - 1
      /\ left.sync = 0 => left'.sync = 0
      /\ left.upload \in Nat /\ left.sync \in Nat
  BY Paces DEF TypeOK, Tick, Less
<1>4. /\ spent \in Nat /\ wait \in Nat
      /\ \/ spent' = spent + 1 /\ spent' <= Limit /\ wait' = wait
         \/ /\ spent' = spent /\ wait' = wait - 1 /\ wait' \in Nat
            /\ pc \in {"wait", "poll", "down"} /\ ~stop
  <2>1. spent \in 0..Limit /\ Limit \in Nat /\ wait \in Nat
    BY Limits, WaitIsNatural DEF TypeOK
  <2> QED
    BY <2>1 DEF Tick, WaitOver
<1>5. /\ pc \in {"turn", "wait", "poll", "down", "stopped"} =>
            spent' = spent /\ wait' = wait - 1 /\ wait' \in Nat
            /\ pc \in {"wait", "poll", "down"} /\ ~stop
      /\ pc \notin {"turn", "wait", "poll", "down", "stopped"} =>
            spent' = spent + 1 /\ wait' = wait
  <2>1. Limit = 0 => ~(spent' = spent + 1 /\ spent' <= Limit)
    BY <1>4
  <2> QED
    BY <1>4, <2>1, Limits
<1>6. TypeOK'
  <2>1. spent' \in 0..Limit'
    <3>1. Limit' = Limit
      BY <1>0 DEF Limit
    <3> QED
      BY <1>4, <3>1, Limits DEF TypeOK
  <2>2. wait' \in 0..Larger(Larger(INTERVAL, RESTART), Larger(POLL, Longest))
    <3>1. wait' = wait \/ (wait > 0 /\ wait' = wait - 1)
      BY <1>4
    <3> QED
      BY <3>1, WaitIsNatural DEF TypeOK
  <2> QED
    BY <1>0, <1>2, <1>3, <2>1, <2>2 DEF TypeOK
<1>7. SampleAge'
  BY <1>0, <1>1, <1>4, <1>5, Paces DEF SampleAge
<1>8. AttemptAge'
  <2>1. Waited \in Nat
    BY Paces, LongestBounds DEF Waited
  <2> QED
    BY <1>0, <1>1, <1>4, <1>5, <2>1, Paces, LongestBounds DEF AttemptAge
<1>9. NextAttempt'
  BY <1>0, <1>1, <1>3, <1>4, <1>5, LongestBounds DEF NextAttempt
<1>10. Enrollment'
  <2>1. Larger(POLL, Longest) \in Nat /\ Larger(RESTART, Larger(POLL, Longest)) \in Nat
    BY Paces, LongestBounds, LargerOf
  <2> QED
    BY <1>0, <1>1, <1>4, <1>5, <2>1, Paces DEF Enrollment, Polling
<1>11. PolicyAge'
  BY <1>0, <1>1, <1>3, <1>5, <1>4, Paces DEF PolicyAge
<1>12. StopAge'
  BY <1>0, <1>1, <1>4, <1>5, Paces DEF StopAge
<1>13. Backing'
  <2>1. ASSUME failures > 0 PROVE Backoff(failures) \in Nat /\ Backoff(failures) <= MaxAge
    BY <2>1, BackoffBounds, Paces DEF TypeOK
  <2> QED
    BY <1>0, <1>1, <1>3, <2>1, Paces DEF Backing
<1>14. Counted'
  BY <1>0 DEF Counted
<1> QED
  BY <1>6, <1>7, <1>8, <1>9, <1>10, <1>11, <1>12, <1>13, <1>14

LEMMA StutterInv == ASSUME Inv, UNCHANGED vars PROVE Inv'
BY DEF vars, process, Inv, TypeOK, SampleAge, AttemptAge, NextAttempt, Enrollment, PolicyAge,
       StopAge, Counted, Backing, Limit, Polling

LEMMA NextInv == ASSUME Inv, [Next]_vars PROVE Inv'
<1>1. CASE Loop
  BY <1>1, TurnInv, UploadLogsInv, SampleInv, SyncInv, UploadInv, CloudFailsInv, WakeUpInv,
     HasCredentialsInv, StopEnrollingInv, AssignedInv, PendingInv, EnrollFailsInv, PollAgainInv,
     ReaderReadyInv, ReaderFailsInv, RefusedInv, FirstSyncInv, FirstSyncFailsInv, RestartsInv
     DEF Loop
<1>2. CASE Signal
  BY <1>2, SignalInv
<1>3. CASE CloudChanges
  BY <1>3, CloudChangesInv
<1>4. CASE Tick
  BY <1>4, TickInv
<1>5. CASE UNCHANGED vars
  BY <1>5, StutterInv
<1> QED
  BY <1>1, <1>2, <1>3, <1>4, <1>5 DEF Next

(* At every place of the loop, the sample, the last attempt, the last sync   *)
(* and the stop are no older than what the program has waited for since.     *)
THEOREM Invariance == Spec => []Inv
<1>1. Init => Inv
  BY InitInv
<1>2. Inv /\ [Next]_vars => Inv'
  BY NextInv
<1> QED
  BY <1>1, <1>2, PTL DEF Spec

(* Samples go on at their pace whatever the network does, and the platform   *)
(* is tried again within the longest backoff, the interval and two turns.    *)
THEOREM PaceIsKept == Spec => []KeepsPace
<1>1. Inv => KeepsPace
  <2> SUFFICES ASSUME Inv PROVE KeepsPace
    OBVIOUS
  <2>1. TypeOK
    BY DEF Inv
  <2>2. /\ spent \in Nat /\ spent <= Limit /\ wait \in Nat
        /\ age.sample \in Nat /\ age.attempt \in Nat
    BY Limits DEF Inv, TypeOK, Ages, Larger
  <2>3. SamplingGoesOn
    BY <2>2, Limits, Paces DEF Inv, SampleAge, SamplingGoesOn, SamplingGap, Turns
  <2>4. pc \in Turns => age.attempt <= RetryGap
    <3>1. Backoff(MAX_EXP) = LongestBackoff
      BY DEF LongestBackoff
    <3> QED
      BY <2>2, <3>1, Limits, Paces, LongestBounds DEF Inv, AttemptAge, Waited, RetryGap, Turns
  <2>5. Polling \/ pc = "poll" =>
           age.attempt <= Larger(RESTART, Larger(POLL, Longest)) + CALL
    <3> DEFINE P == Larger(POLL, Longest)
               R == Larger(RESTART, P)
    <3>1. P \in Nat /\ R \in Nat /\ P <= R
      BY Paces, LongestBounds, LargerOf
    <3>2. Polling => age.attempt <= R + spent
      BY DEF Inv, Enrollment
    <3>3. pc = "poll" => age.attempt + wait <= P
      BY DEF Inv, Enrollment
    <3>4. Polling => Limit = CALL
      BY Limits DEF Polling
    <3> HIDE DEF P, R
    <3>5. Polling \/ pc = "poll" => age.attempt <= R + CALL
      BY <2>2, <3>1, <3>2, <3>3, <3>4, Paces
    <3> QED
      BY <3>5 DEF P, R
  <2> QED
    BY <2>1, <2>3, <2>4, <2>5 DEF KeepsPace, RetriesInTime
<1> QED
  BY <1>1, Invariance, PTL

(* No upload starts on a policy that was confirmed longer ago than a sync    *)
(* period and what comes before the upload in its turn.                      *)
THEOREM PolicyStaysFresh == Spec => []PolicyIsFresh
<1>1. Inv => PolicyIsFresh
  BY Limits, Paces DEF Inv, TypeOK, Ages, PolicyAge, PolicyIsFresh, Larger
<1> QED
  BY <1>1, Invariance, PTL

(* A stop waits for the step under way and the turn, and for no timer. *)
THEOREM StopIsPrompt == Spec => []StopsInTime
<1>1. Inv => StopsInTime
  BY Limits, Paces DEF Inv, TypeOK, Ages, Calls, Turns, StopAge, StopsInTime, StopGap
<1> QED
  BY <1>1, Invariance, PTL

(* What the loop owes a platform that failed is the backoff of its count.    *)
LEMMA OwedBackoff ==
    ASSUME Inv, pc \in Turns, Owed > 0
    PROVE  failures > 0 /\ Backoff(Owed) = Backoff(failures)
<1> USE DEF Inv
<1>1. failures \in 0..MAX_EXP + 2 /\ streak.count \in 0..MAX_EXP + 2
  BY DEF TypeOK
<1>2. CASE ~streak.cold
  BY <1>1, <1>2 DEF Counted, Owed
<1>3. CASE streak.cold
  <2>1. Owed = OneMore(failures) - 1
    BY <1>3 DEF Counted, Owed
  <2>2. failures > 0 /\ Lesser(Owed, MAX_EXP) = Lesser(failures, MAX_EXP)
    BY <1>1, <2>1, Paces DEF OneMore, Lesser
  <2> QED
    BY <2>2 DEF Backoff
<1> QED
  BY <1>2, <1>3

(* In its loop the device does not ask a platform again before the backoff   *)
(* of its failures in a row has passed, that of a failed first sync excepted. *)
THEOREM BackoffIsObeyed == Spec => BacksOff
<1> DEFINE Waits == pc = "sample" /\ pc' \in {"sync", "upload"} /\ Owed > 0
                    => age.attempt >= Backoff(Owed)
<1>1. ASSUME Inv, [Next]_vars PROVE Waits
  <2> SUFFICES ASSUME pc = "sample", pc' \in {"sync", "upload"}, Owed > 0
               PROVE  age.attempt >= Backoff(Owed)
    OBVIOUS
  <2>1. Sample
    BY <1>1 DEF Next, Loop, vars, process, Signal, CloudChanges, Tick, Turn, UploadLogs, Sync,
                Upload, CloudFails, WakeUp, HasCredentials, StopEnrolling, Assigned, Pending,
                EnrollFails, PollAgain, ReaderReady, ReaderFails, Refused, FirstSync,
                FirstSyncFails, Restarts, Polling
  <2>2. due.upload
    BY <2>1 DEF Sample, Goto
  <2>3. failures > 0 /\ Backoff(Owed) = Backoff(failures)
    BY <1>1, OwedBackoff DEF Turns
  <2> QED
    BY <1>1, <2>2, <2>3 DEF Inv, Backing
<1> QED
  BY <1>1, Invariance, PTL DEF Spec, BacksOff

=============================================================================
