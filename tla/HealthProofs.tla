---------------------------- MODULE HealthProofs ----------------------------
(***************************************************************************)
(* Proofs about modules Health and Logs, two components without a variable *)
(* in common.  Health, for every capacity, interval, number of readings    *)
(* and behaviour of the clock: the counters account for what happened,     *)
(* timestamps follow the clock, regressions are real, and the report       *)
(* misses no reading although its queries are not one transaction.  Logs,  *)
(* for every size of the ring: no entry arrives twice, a failed batch has  *)
(* its warning, and the ring drops none but the oldest.                    *)
(***************************************************************************)
EXTENDS Health, Logs, FiniteSetTheorems, SequenceTheorems, TLAPS

(* Logs. *)

Distinct(s) == \A i, j \in DOMAIN s : s[i] = s[j] => i = j

(* The numbers of a sequence run up to n without a gap.                          *)
EndsWith(q, n) == q \in Seq(1..n) /\ \A i \in 1..Len(q) : q[i] = n - Len(q) + i

(* Entries up to here are neither in the ring nor in a batch that waits to be    *)
(* taken: they are sent, given up or gone.                                       *)
Settled == last - Len(buffer) - (IF pc = "uploading" THEN Len(entries) ELSE 0)

(* Ring and batch hold the entries written last, in their order, and the ring is *)
(* empty while a batch is out.                                                   *)
Windows ==
    /\ EndsWith(buffer, last) /\ EndsWith(entries, last)
    /\ pc = "running" => entries = <<>>
    /\ pc # "running" => buffer = <<>>
    /\ pc = "taken" => ToSet(entries) \subseteq ToSet(received)

(* Of the entries up to n, each is with the platform once or in one request that *)
(* may still arrive, or in neither.                                              *)
SentUpTo(n, taken, requests) ==
    /\ taken \in Seq(1..n) /\ Distinct(taken)
    /\ \A b \in requests : /\ b \in Seq(1..n) /\ Distinct(b)
                           /\ ToSet(b) \cap ToSet(taken) = {}
    /\ \A b, c \in requests : b # c => ToSet(b) \cap ToSet(c) = {}
SentOnce == SentUpTo(Settled, received, underway)

LogInv == LogTypeOK /\ Windows /\ SentOnce /\ LossIsExplained

(* What is in a sequence of numbers, by position.                                *)
LEMMA ElementsOf ==
    ASSUME NEW S, NEW s \in Seq(S)
    PROVE  /\ Len(s) \in Nat /\ DOMAIN s = 1..Len(s)
           /\ ToSet(s) = {s[i] : i \in 1..Len(s)} /\ ToSet(s) \subseteq S
BY ElementOfSeq, LenProperties DEF ToSet

(* Appending the next number, and dropping the oldest, leave no gap.             *)
LEMMA AppendKeepsWindow ==
    ASSUME NEW n \in Nat, NEW q, EndsWith(q, n)
    PROVE  EndsWith(Append(q, n + 1), n + 1) /\ Len(Append(q, n + 1)) = Len(q) + 1
<1> DEFINE a == Append(q, n + 1)
           S == 1..(n + 1)
<1>1. q \in Seq(S) /\ n + 1 \in S
  BY SeqMonotonic DEF EndsWith
<1>2. \A i \in 1..Len(q) : q[i] = n - Len(q) + i
  BY DEF EndsWith
<1> HIDE DEF S
<1>3. /\ Len(q) \in Nat /\ a \in Seq(S) /\ Len(a) = Len(q) + 1
      /\ \A i \in 1..Len(q) : a[i] = q[i]
      /\ a[Len(q) + 1] = n + 1
  BY <1>1, AppendProperties, LenProperties
<1> HIDE DEF a
<1>4. ASSUME NEW i \in 1..(Len(q) + 1) PROVE a[i] = n + 1 - (Len(q) + 1) + i
  <2>1. CASE i = Len(q) + 1
    BY <1>3, <2>1
  <2>2. CASE i # Len(q) + 1
    <3>1. i \in 1..Len(q)
      BY <1>3, <2>2
    <3> QED
      BY <1>2, <1>3, <3>1
  <2> QED
    BY <2>1, <2>2
<1>5. EndsWith(a, n + 1)
  BY <1>3, <1>4 DEF EndsWith, S
<1> QED
  BY <1>3, <1>5 DEF a

LEMMA TailKeepsWindow ==
    ASSUME NEW n \in Nat, NEW q, EndsWith(q, n), q # <<>>
    PROVE  EndsWith(Tail(q), n) /\ Len(Tail(q)) = Len(q) - 1
<1> DEFINE a == Tail(q)
           S == 1..n
<1>1. q \in Seq(S) /\ \A i \in 1..Len(q) : q[i] = n - Len(q) + i
  BY DEF EndsWith
<1> HIDE DEF S
<1>2. /\ Len(q) \in Nat /\ a \in Seq(S) /\ Len(a) = Len(q) - 1
      /\ \A i \in 1..Len(a) : a[i] = q[i + 1]
  BY <1>1, HeadTailProperties, LenProperties
<1> HIDE DEF a
<1>3. ASSUME NEW i \in 1..Len(a) PROVE a[i] = n - Len(a) + i
  <2>1. i + 1 \in 1..Len(q)
    BY <1>2
  <2>2. q[i + 1] = n - Len(q) + (i + 1)
    BY <1>1, <2>1
  <2> QED
    BY <1>2, <2>2
<1>4. EndsWith(a, n)
  BY <1>2, <1>3 DEF EndsWith, S
<1> QED
  BY <1>2, <1>4 DEF a

(* After an entry the ring ends with that entry, and is shorter than the window  *)
(* before by nothing, or by the oldest when it was full.                         *)
LEMMA EmittedKeepsWindow ==
    ASSUME NEW n \in Nat, NEW q, EndsWith(q, n), Len(q) <= MAX_BUFFERED
    PROVE  /\ EndsWith(Emitted(q, n + 1), n + 1)
           /\ Len(Emitted(q, n + 1)) = IF Len(q) = MAX_BUFFERED THEN Len(q) ELSE Len(q) + 1
<1>1. Len(q) \in Nat /\ (q = <<>> => Len(q) = 0)
  BY LenProperties, EmptySeq DEF EndsWith
<1>2. CASE Len(q) = MAX_BUFFERED
  <2>1. q # <<>>
    BY <1>1, <1>2, LogsAssumption
  <2>2. EndsWith(Tail(q), n) /\ Len(Tail(q)) = Len(q) - 1
    BY <2>1, TailKeepsWindow
  <2>3. EndsWith(Append(Tail(q), n + 1), n + 1) /\ Len(Append(Tail(q), n + 1)) = Len(Tail(q)) + 1
    BY <2>2, AppendKeepsWindow
  <2>4. Emitted(q, n + 1) = Append(Tail(q), n + 1)
    BY <1>2 DEF Emitted
  <2>5. Len(Tail(q)) + 1 = Len(q)
    BY <1>1, <2>2
  <2> QED
    BY <1>2, <2>3, <2>4, <2>5, Zenon
<1>3. CASE Len(q) # MAX_BUFFERED
  <2>1. Emitted(q, n + 1) = Append(q, n + 1)
    BY <1>3 DEF Emitted
  <2>2. EndsWith(Append(q, n + 1), n + 1) /\ Len(Append(q, n + 1)) = Len(q) + 1
    BY AppendKeepsWindow
  <2> QED
    BY <1>3, <2>1, <2>2, Zenon
<1> QED
  BY <1>2, <1>3

(* Such a window holds all numbers of its range, each once, and no other.        *)
LEMMA WindowHolds ==
    ASSUME NEW n \in Nat, NEW q, EndsWith(q, n)
    PROVE  /\ Len(q) \in 0..n /\ ToSet(q) = (n - Len(q) + 1)..n /\ Distinct(q)
<1>1. Len(q) \in Nat /\ DOMAIN q = 1..Len(q) /\ ToSet(q) = {q[i] : i \in 1..Len(q)}
      /\ ToSet(q) \subseteq 1..n /\ \A i \in 1..Len(q) : q[i] = n - Len(q) + i
  BY ElementsOf DEF EndsWith
<1>2. Len(q) <= n
  <2>1. CASE Len(q) = 0
    BY <2>1
  <2>2. CASE Len(q) # 0
    <3>1. 1 \in DOMAIN q /\ q[1] \in ToSet(q) /\ q[1] = n - Len(q) + 1
      BY <1>1, <2>2
    <3>2. n - Len(q) + 1 \in 1..n
      BY <1>1, <3>1
    <3> QED
      BY <1>1, <3>2
  <2> QED
    BY <2>1, <2>2
<1>3. ASSUME NEW e \in (n - Len(q) + 1)..n PROVE e \in ToSet(q)
  <2>1. e - (n - Len(q)) \in 1..Len(q)
    BY <1>1, <1>2
  <2>2. q[e - (n - Len(q))] = e
    BY <1>1, <2>1
  <2> QED
    BY <1>1, <2>1, <2>2
<1>4. ASSUME NEW e \in ToSet(q) PROVE e \in (n - Len(q) + 1)..n
  BY <1>1, <1>2
<1>5. Distinct(q)
  BY <1>1 DEF Distinct
<1>6. ToSet(q) = (n - Len(q) + 1)..n
  BY <1>3, <1>4
<1> QED
  BY <1>1, <1>2, <1>5, <1>6

(* Two sequences without repetition and without a common element, one after the  *)
(* other, repeat nothing.                                                        *)
LEMMA ConcatDistinct ==
    ASSUME NEW S, NEW s \in Seq(S), NEW t \in Seq(S), Distinct(s), Distinct(t),
           ToSet(s) \cap ToSet(t) = {}
    PROVE  s \o t \in Seq(S) /\ Distinct(s \o t) /\ ToSet(s \o t) = ToSet(s) \cup ToSet(t)
<1>1. /\ Len(s) \in Nat /\ DOMAIN s = 1..Len(s) /\ ToSet(s) = {s[i] : i \in 1..Len(s)}
      /\ Len(t) \in Nat /\ DOMAIN t = 1..Len(t) /\ ToSet(t) = {t[i] : i \in 1..Len(t)}
  BY ElementsOf
<1>2. /\ s \o t \in Seq(S) /\ Len(s \o t) = Len(s) + Len(t)
      /\ \A i \in 1..(Len(s) + Len(t)) :
            (s \o t)[i] = IF i <= Len(s) THEN s[i] ELSE t[i - Len(s)]
  BY ConcatProperties
<1>3. DOMAIN (s \o t) = 1..(Len(s) + Len(t))
      /\ ToSet(s \o t) = {(s \o t)[i] : i \in 1..(Len(s) + Len(t))}
  <2> DEFINE c == s \o t
  <2>1. c \in Seq(S) /\ Len(c) = Len(s) + Len(t)
    BY <1>2
  <2> HIDE DEF c
  <2>2. DOMAIN c = 1..Len(c) /\ ToSet(c) = {c[i] : i \in 1..Len(c)}
    BY <2>1, ElementsOf
  <2> QED
    BY <2>1, <2>2 DEF c
<1>4. ASSUME NEW i \in 1..(Len(s) + Len(t)), i > Len(s)
      PROVE  i - Len(s) \in 1..Len(t) /\ (s \o t)[i] = t[i - Len(s)] /\ t[i - Len(s)] \in ToSet(t)
  BY <1>1, <1>2, <1>4
<1>5. ASSUME NEW i \in 1..(Len(s) + Len(t)), ~(i > Len(s))
      PROVE  i \in 1..Len(s) /\ (s \o t)[i] = s[i] /\ s[i] \in ToSet(s)
  BY <1>1, <1>2, <1>5
<1>6. ASSUME NEW i \in 1..(Len(s) + Len(t)), NEW j \in 1..(Len(s) + Len(t)),
             (s \o t)[i] = (s \o t)[j]
      PROVE  i = j
  <2>1. CASE i > Len(s) /\ j > Len(s)
    <3>1. t[i - Len(s)] = t[j - Len(s)] /\ i - Len(s) \in 1..Len(t) /\ j - Len(s) \in 1..Len(t)
      BY <1>4, <1>6, <2>1
    <3>2. i - Len(s) = j - Len(s)
      BY <1>1, <3>1 DEF Distinct
    <3> QED
      BY <1>1, <3>2
  <2>2. CASE ~(i > Len(s)) /\ ~(j > Len(s))
    BY <1>1, <1>5, <1>6, <2>2 DEF Distinct
  <2>3. CASE (i > Len(s)) # (j > Len(s))
    BY <1>4, <1>5, <1>6, <2>3
  <2> QED
    BY <2>1, <2>2, <2>3
<1>7. Distinct(s \o t)
  BY <1>3, <1>6 DEF Distinct
<1>8. ASSUME NEW e \in ToSet(s) PROVE e \in ToSet(s \o t)
  <2>1. PICK i \in 1..Len(s) : s[i] = e
    BY <1>1
  <2>2. i \in 1..(Len(s) + Len(t)) /\ (s \o t)[i] = e
    BY <1>1, <1>2, <2>1
  <2> QED
    BY <1>3, <2>2
<1>9. ASSUME NEW e \in ToSet(t) PROVE e \in ToSet(s \o t)
  <2>1. PICK i \in 1..Len(t) : t[i] = e
    BY <1>1
  <2>2. i + Len(s) \in 1..(Len(s) + Len(t)) /\ (s \o t)[i + Len(s)] = t[i + Len(s) - Len(s)]
    BY <1>1, <1>2, <2>1
  <2>3. i + Len(s) - Len(s) = i
    BY <1>1
  <2> QED
    BY <1>3, <2>1, <2>2, <2>3
<1>10. ToSet(s \o t) \subseteq ToSet(s) \cup ToSet(t)
  BY <1>3, <1>4, <1>5
<1> QED
  BY <1>2, <1>7, <1>8, <1>9, <1>10

LEMMA EmptyWindow ==
    ASSUME NEW n \in Nat
    PROVE  EndsWith(<<>>, n) /\ Len(<<>>) = 0 /\ ToSet(<<>>) = {} /\ Distinct(<<>>)
<1>1. <<>> \in Seq(1..n) /\ Len(<<>>) = 0 /\ DOMAIN <<>> = {}
  BY EmptySeq
<1> QED
  BY <1>1 DEF EndsWith, ToSet, Distinct

(* Where an entry can be, by its number.                                         *)
LEMMA WhereEntriesAre ==
    ASSUME LogInv
    PROVE  /\ last \in Nat /\ Settled \in 0..last
           /\ Len(buffer) \in 0..last /\ ToSet(buffer) = (last - Len(buffer) + 1)..last
           /\ Len(entries) \in 0..last /\ ToSet(entries) = (last - Len(entries) + 1)..last
           /\ Distinct(entries)
           /\ ToSet(received) \subseteq 1..Settled
           /\ \A b \in underway : ToSet(b) \subseteq 1..Settled
<1>1. last \in Nat /\ EndsWith(buffer, last) /\ EndsWith(entries, last)
      /\ (pc # "running" => buffer = <<>>)
  BY LogsAssumption DEF LogInv, LogTypeOK, Windows
<1>2. /\ Len(buffer) \in 0..last /\ ToSet(buffer) = (last - Len(buffer) + 1)..last
      /\ Len(entries) \in 0..last /\ ToSet(entries) = (last - Len(entries) + 1)..last
      /\ Distinct(entries)
  BY <1>1, WindowHolds
<1>3. Settled \in 0..last
  <2>1. CASE pc = "uploading"
    <3>1. Len(buffer) = 0
      BY <1>1, <2>1, EmptyWindow
    <3> QED
      BY <1>1, <1>2, <2>1, <3>1 DEF Settled
  <2>2. CASE pc # "uploading"
    BY <1>1, <1>2, <2>2 DEF Settled
  <2> QED
    BY <2>1, <2>2
<1>4. received \in Seq(1..Settled) /\ \A b \in underway : b \in Seq(1..Settled)
  BY DEF LogInv, SentOnce, SentUpTo
<1> HIDE DEF Settled
<1>5. ToSet(received) \subseteq 1..Settled /\ \A b \in underway : ToSet(b) \subseteq 1..Settled
  BY <1>4, ElementsOf
<1> QED
  BY <1>1, <1>2, <1>3, <1>5

(* What was sent stays as it is when later entries are settled.                  *)
LEMMA SentStaysSent ==
    ASSUME NEW m \in Nat, NEW n \in Nat, m <= n, NEW s, NEW u, SentUpTo(m, s, u)
    PROVE  SentUpTo(n, s, u)
<1>1. 1..m \subseteq 1..n
  OBVIOUS
<1>2. \A b \in Seq(1..m) : b \in Seq(1..n)
  BY <1>1, SeqMonotonic
<1> QED
  BY <1>2 DEF SentUpTo

LEMMA FreshLog == ASSUME LogInit PROVE LogInv
<1>1. EndsWith(<<>>, 0) /\ Len(<<>>) = 0 /\ ToSet(<<>>) = {} /\ Distinct(<<>>) /\ <<>> \in Seq(1..0)
  BY EmptyWindow DEF EndsWith
<1>2. last = 0 /\ buffer = <<>> /\ entries = <<>> /\ received = <<>> /\ pc = "running"
      /\ underway = {} /\ failures = {}
  BY DEF LogInit
<1>3. Settled = 0
  <2>1. Len(buffer) = 0 /\ Len(entries) = 0 /\ last = 0
    BY <1>1, <1>2
  <2> QED
    BY <2>1 DEF Settled
<1>4. LogTypeOK
  BY <1>1, <1>2, LogsAssumption DEF LogTypeOK
<1>5. Windows
  BY <1>1, <1>2 DEF Windows
<1>6. SentOnce
  BY <1>1, <1>2, <1>3 DEF SentOnce, SentUpTo
<1>7. LossIsExplained
  BY <1>2 DEF LossIsExplained
<1> QED
  BY <1>4, <1>5, <1>6, <1>7 DEF LogInv

LEMMA EmitKeeps == ASSUME LogInv, Emit PROVE LogInv'
<1>1. /\ last \in Nat /\ last' = last + 1 /\ last' \in 0..MaxEntries /\ buffer' = Emitted(buffer, last + 1)
      /\ pc = "running" /\ UNCHANGED <<entries, pc, received, underway, failures>>
      /\ entries = <<>> /\ EndsWith(buffer, last) /\ Len(buffer) <= MAX_BUFFERED
  BY WhereEntriesAre, LogsAssumption DEF Emit, LogInv, LogTypeOK, Windows
<1>2. /\ EndsWith(buffer', last')
      /\ Len(buffer') = IF Len(buffer) = MAX_BUFFERED THEN Len(buffer) ELSE Len(buffer) + 1
  BY <1>1, EmittedKeepsWindow
<1>3. Len(buffer') \in 0..last' /\ ToSet(buffer') = (last' - Len(buffer') + 1)..last'
  BY <1>1, <1>2, WindowHolds
<1>4. EndsWith(entries', last') /\ Len(entries') = 0 /\ entries' \in Seq(1..last')
  BY <1>1, EmptyWindow DEF EndsWith
<1>5. SentOnce'
  <2>1. Settled = last - Len(buffer) /\ Settled' = last' - Len(buffer')
    BY <1>1, WhereEntriesAre, <1>3 DEF Settled
  <2>2. Len(buffer) \in 0..last
    BY WhereEntriesAre
  <2>3. Settled \in Nat /\ Settled' \in Nat /\ Settled <= Settled'
    BY <1>1, <1>2, <1>3, <2>1, <2>2
  <2> QED
    BY <1>1, <2>3, SentStaysSent DEF LogInv, SentOnce
<1>6. LogTypeOK'
  <2>1. received' \in Seq(1..last')
    BY <1>1, SeqMonotonic DEF LogInv, LogTypeOK
  <2>2. \A f \in failures' : f.batch \subseteq 1..last' /\ f.notice \in 1..last'
    BY <1>1 DEF LogInv, LogTypeOK
  <2>3. Len(buffer') <= MAX_BUFFERED
    BY <1>1, <1>2, LogsAssumption, WhereEntriesAre
  <2> QED
    BY <1>1, <1>2, <1>4, <2>1, <2>2, <2>3, LogsAssumption DEF LogTypeOK, EndsWith
<1>7. Windows'
  BY <1>1, <1>2, <1>4 DEF Windows
<1>8. LossIsExplained'
  <2> SUFFICES ASSUME NEW e \in 1..last', e \notin ToSet(buffer')
               PROVE  \/ e \in Somewhere'
                      \/ \E f \in failures' : e \in f.batch /\ e < f.notice
                      \/ e + MAX_BUFFERED <= last'
    BY DEF LossIsExplained, Somewhere
  <2>1. e \in 1..last
    BY <1>1, <1>2, <1>3, LogsAssumption, WhereEntriesAre
  <2>2. CASE e \in ToSet(buffer)
    BY <1>1, <1>2, <1>3, <2>1, <2>2, WhereEntriesAre, LogsAssumption
  <2>3. CASE e \in Somewhere /\ e \notin ToSet(buffer)
    BY <1>1, <2>3 DEF Somewhere
  <2>4. CASE e \notin Somewhere
    BY <1>1, <2>1, <2>4, LogsAssumption DEF LogInv, LossIsExplained
  <2> QED
    BY <2>2, <2>3, <2>4
<1> QED
  BY <1>5, <1>6, <1>7, <1>8 DEF LogInv

LEMMA DrainKeeps == ASSUME LogInv, Drain PROVE LogInv'
<1>1. /\ last \in Nat /\ EndsWith(buffer, last) /\ Len(buffer) <= MAX_BUFFERED
      /\ buffer' = <<>> /\ entries' = buffer /\ pc = "running" /\ pc' = "uploading" /\ entries = <<>>
      /\ UNCHANGED <<last, received, underway, failures>>
  BY WhereEntriesAre DEF Drain, LogInv, LogTypeOK, Windows
<1>2. EndsWith(buffer', last') /\ Len(buffer') = 0 /\ ToSet(buffer') = {} /\ ToSet(entries) = {}
  BY <1>1, EmptyWindow
<1>3. LogTypeOK'
  BY <1>1, <1>2, LogsAssumption DEF LogInv, LogTypeOK, EndsWith
<1>4. Windows'
  BY <1>1, <1>2 DEF Windows
<1>5. SentOnce'
  <2>1. Settled' = Settled
    BY <1>1, <1>2, WhereEntriesAre DEF Settled
  <2> QED
    BY <1>1, <2>1 DEF LogInv, SentOnce
<1>6. LossIsExplained'
  <2>1. Somewhere' = Somewhere
    BY <1>1, <1>2 DEF Somewhere
  <2> QED
    BY <1>1, <2>1 DEF LogInv, LossIsExplained
<1> QED
  BY <1>3, <1>4, <1>5, <1>6 DEF LogInv

LEMMA ArrivesKeeps == ASSUME LogInv, Arrives PROVE LogInv'
<1>1. /\ last \in Nat /\ EndsWith(entries, last) /\ Distinct(entries)
      /\ received' = received \o entries /\ pc = "uploading" /\ pc' = "taken" /\ buffer = <<>>
      /\ UNCHANGED <<buffer, entries, last, underway, failures>>
  BY WhereEntriesAre DEF Arrives, LogInv, LogTypeOK, Windows
<1>2. Len(buffer) = 0
  BY <1>1, EmptyWindow
<1>3. Settled = last - Len(entries) /\ Settled' = last /\ Settled \in 0..last
  BY <1>1, <1>2, WhereEntriesAre DEF Settled
<1>4. received \in Seq(1..last) /\ entries \in Seq(1..last)
  BY DEF LogInv, LogTypeOK
<1>5. ToSet(received) \cap ToSet(entries) = {}
  BY <1>3, WhereEntriesAre
<1>6. /\ received' \in Seq(1..last) /\ Distinct(received')
      /\ ToSet(received') = ToSet(received) \cup ToSet(entries)
  <2>1. Distinct(received)
    BY DEF LogInv, SentOnce, SentUpTo
  <2> QED
    BY <1>1, <1>4, <1>5, <2>1, ConcatDistinct
<1>7. LogTypeOK'
  BY <1>1, <1>6 DEF LogInv, LogTypeOK
<1>8. Windows'
  BY <1>1, <1>6 DEF LogInv, Windows
<1>9. SentOnce'
  <2>1. SentUpTo(last, received, underway)
    BY <1>1, <1>3, SentStaysSent DEF LogInv, SentOnce
  <2>2. \A b \in underway : ToSet(b) \cap ToSet(entries) = {}
    BY <1>3, WhereEntriesAre
  <2>3. SentUpTo(last, received', underway)
    BY <1>6, <2>1, <2>2 DEF SentUpTo
  <2> QED
    BY <1>1, <1>3, <2>3, Zenon DEF SentOnce
<1>10. LossIsExplained'
  <2>1. Somewhere \subseteq Somewhere'
    BY <1>1, <1>6 DEF Somewhere
  <2> QED
    BY <1>1, <2>1 DEF LogInv, LossIsExplained
<1> QED
  BY <1>7, <1>8, <1>9, <1>10 DEF LogInv

LEMMA AnsweredKeeps == ASSUME LogInv, Answered PROVE LogInv'
<1>1. /\ last \in Nat /\ pc = "taken" /\ pc' = "running" /\ entries' = <<>> /\ buffer = <<>>
      /\ UNCHANGED <<buffer, last, received, underway, failures>>
      /\ ToSet(entries) \subseteq ToSet(received)
  BY WhereEntriesAre DEF Answered, LogInv, LogTypeOK, Windows
<1>2. EndsWith(entries', last') /\ Len(entries') = 0 /\ ToSet(entries') = {}
  BY <1>1, EmptyWindow
<1>3. LogTypeOK'
  BY <1>1, <1>2, LogsAssumption DEF LogInv, LogTypeOK, EndsWith
<1>4. Windows'
  BY <1>1, <1>2 DEF LogInv, Windows
<1>5. SentOnce'
  <2>1. Settled' = Settled
    BY <1>1, WhereEntriesAre DEF Settled
  <2> QED
    BY <1>1, <2>1 DEF LogInv, SentOnce
<1>6. LossIsExplained'
  <2>1. Somewhere' = Somewhere
    BY <1>1, <1>2 DEF Somewhere
  <2> QED
    BY <1>1, <2>1 DEF LogInv, LossIsExplained
<1> QED
  BY <1>3, <1>4, <1>5, <1>6 DEF LogInv

LEMMA UploadFailsKeeps == ASSUME LogInv, UploadFails PROVE LogInv'
<1>1. /\ last \in Nat /\ pc \in {"uploading", "taken"} /\ pc' = "running" /\ entries' = <<>>
      /\ buffer = <<>> /\ buffer' = Emitted(buffer, last + 1)
      /\ last' = last + 1 /\ last' \in 0..MaxEntries /\ received' = received
      /\ failures' = failures \cup {[batch |-> ToSet(entries), notice |-> last + 1]}
      /\ pc = "taken" => ToSet(entries) \subseteq ToSet(received)
  BY WhereEntriesAre, LogsAssumption DEF UploadFails, Notice, LogInv, LogTypeOK, Windows
<1>2. /\ EndsWith(buffer, last) /\ Len(buffer) = 0 /\ ToSet(buffer) = {}
      /\ EndsWith(entries', last') /\ Len(entries') = 0 /\ ToSet(entries') = {}
  BY <1>1, EmptyWindow
<1>3. EndsWith(buffer', last') /\ Len(buffer') = 1
  <2>1. Len(buffer) <= MAX_BUFFERED /\ Len(buffer) # MAX_BUFFERED
    BY <1>2, LogsAssumption
  <2>2. EndsWith(Emitted(buffer, last + 1), last + 1) /\ Len(Emitted(buffer, last + 1)) = Len(buffer) + 1
    BY <1>1, <1>2, <2>1, EmittedKeepsWindow
  <2>3. EndsWith(buffer', last') /\ Len(buffer') = Len(buffer) + 1
    BY <1>1, <2>2, Zenon
  <2> QED
    BY <1>2, <2>3
<1>4. last' \in Nat /\ ToSet(buffer') = {last'}
  <2>1. last' \in Nat
    BY <1>1
  <2>2. ToSet(buffer') = (last' - Len(buffer') + 1)..last'
    BY <1>3, <2>1, WindowHolds
  <2> QED
    BY <1>3, <2>1, <2>2
<1>5. ToSet(entries) \subseteq 1..last /\ ToSet(entries) = (last - Len(entries) + 1)..last
  BY WhereEntriesAre
<1>6. Settled' = last /\ Settled \in 0..last /\ (pc = "uploading" => Settled = last - Len(entries))
  <2>1. Settled' = last' - Len(buffer')
    BY <1>1, <1>3, <1>4 DEF Settled
  <2>2. pc = "uploading" => Settled = last - Len(entries)
    BY <1>1, <1>2, WhereEntriesAre DEF Settled
  <2> QED
    BY <1>1, <1>3, <2>1, <2>2, WhereEntriesAre
<1>7. LogTypeOK'
  <2>1. received' \in Seq(1..last')
    BY <1>1, SeqMonotonic DEF LogInv, LogTypeOK
  <2>2. \A f \in failures : f.batch \subseteq 1..last' /\ f.notice \in 1..last'
    BY <1>1 DEF LogInv, LogTypeOK
  <2>3. ToSet(entries) \subseteq 1..last' /\ last + 1 \in 1..last'
    BY <1>1, <1>5
  <2> QED
    BY <1>1, <1>2, <1>3, <2>1, <2>2, <2>3, LogsAssumption DEF LogTypeOK, EndsWith
<1>8. Windows'
  BY <1>1, <1>2, <1>3 DEF Windows
<1>9. SentOnce'
  <2>1. CASE UNCHANGED underway
    BY <1>1, <1>6, <2>1, SentStaysSent DEF LogInv, SentOnce
  <2>2. CASE pc = "uploading" /\ underway' = underway \cup {entries}
    <3>1. SentUpTo(last, received, underway)
      BY <1>1, <1>6, SentStaysSent DEF LogInv, SentOnce
    <3>2. entries \in Seq(1..last) /\ Distinct(entries)
      BY WhereEntriesAre DEF LogInv, LogTypeOK
    <3>3. ToSet(entries) \cap ToSet(received) = {}
          /\ \A b \in underway : ToSet(b) \cap ToSet(entries) = {}
      BY <1>6, <2>2, WhereEntriesAre
    <3>4. SentUpTo(last, received, underway')
      BY <2>2, <3>1, <3>2, <3>3 DEF SentUpTo
    <3> QED
      BY <1>1, <1>6, <3>4, Zenon DEF SentOnce
  <2> QED
    BY <2>1, <2>2 DEF UploadFails
<1>10. LossIsExplained'
  <2> SUFFICES ASSUME NEW e \in 1..last', e \notin ToSet(buffer')
               PROVE  \/ e \in Somewhere'
                      \/ \E f \in failures' : e \in f.batch /\ e < f.notice
                      \/ e + MAX_BUFFERED <= last'
    BY DEF LossIsExplained, Somewhere
  <2>1. e \in 1..last
    BY <1>1, <1>4
  <2>2. CASE e \in ToSet(entries)
    <3> DEFINE f == [batch |-> ToSet(entries), notice |-> last + 1]
    <3>1. f \in failures' /\ f.batch = ToSet(entries) /\ f.notice = last + 1
      BY <1>1
    <3>2. e < last + 1
      BY <1>1, <2>1
    <3> HIDE DEF f
    <3>3. \E g \in failures' : e \in g.batch /\ e < g.notice
      BY <2>2, <3>1, <3>2
    <3> QED
      BY <3>3
  <2>3. CASE e \in Somewhere /\ e \notin ToSet(entries)
    <3>1. UNION {ToSet(b) : b \in underway} \subseteq UNION {ToSet(b) : b \in underway'}
      BY DEF UploadFails
    <3>2. e \in ToSet(received) \cup UNION {ToSet(b) : b \in underway}
      BY <1>2, <2>3 DEF Somewhere
    <3> QED
      BY <1>1, <3>1, <3>2 DEF Somewhere
  <2>4. CASE e \notin Somewhere
    BY <1>1, <2>1, <2>4, LogsAssumption DEF LogInv, LossIsExplained
  <2> QED
    BY <2>2, <2>3, <2>4
<1> QED
  BY <1>7, <1>8, <1>9, <1>10 DEF LogInv

LEMMA ArrivesLateKeeps == ASSUME LogInv, ArrivesLate PROVE LogInv'
<1>1. PICK b \in underway : received' = received \o b /\ underway' = underway \ {b}
  BY DEF ArrivesLate
<1>2. UNCHANGED <<buffer, entries, pc, last, failures>> /\ Settled' = Settled
  BY DEF ArrivesLate, Settled
<1>3. last \in Nat /\ Settled \in 0..last
  BY WhereEntriesAre
<1>4. /\ received \in Seq(1..Settled) /\ Distinct(received)
      /\ \A c \in underway : c \in Seq(1..Settled) /\ Distinct(c) /\ ToSet(c) \cap ToSet(received) = {}
      /\ \A c, d \in underway : c # d => ToSet(c) \cap ToSet(d) = {}
  BY DEF LogInv, SentOnce, SentUpTo
<1> HIDE DEF Settled
<1>5. /\ received' \in Seq(1..Settled) /\ Distinct(received')
      /\ ToSet(received') = ToSet(received) \cup ToSet(b)
  BY <1>1, <1>4, ConcatDistinct
<1>6. SentOnce'
  <2>1. SentUpTo(Settled, received', underway')
    BY <1>1, <1>4, <1>5 DEF SentUpTo
  <2> QED
    BY <1>2, <2>1 DEF SentOnce
<1>7. LogTypeOK'
  <2>1. 1..Settled \subseteq 1..last
    BY <1>3
  <2>2. received' \in Seq(1..last)
    BY <1>5, <2>1, SeqMonotonic
  <2> QED
    BY <1>2, <2>2 DEF LogInv, LogTypeOK
<1>8. Windows'
  BY <1>2, <1>5 DEF LogInv, Windows
<1>9. LossIsExplained'
  <2>1. Somewhere' = Somewhere
    BY <1>1, <1>2, <1>5 DEF Somewhere
  <2> QED
    BY <1>2, <2>1 DEF LogInv, LossIsExplained
<1> QED
  BY <1>6, <1>7, <1>8, <1>9 DEF LogInv

LEMMA RestartKeeps == ASSUME Restart PROVE LogInv'
<1>1. LogInit'
  BY DEF Restart, LogInit
<1> QED
  BY <1>1, FreshLog, PTL

(* Ring, batch in hand and requests never hold the same entry twice, in whatever *)
(* order uploads fail, arrive late, or the process starts again.                 *)
THEOREM LogInvariance == LogSpec => []LogInv
<1>1. LogInit => LogInv
  BY FreshLog
<1>2. LogInv /\ [LogNext]_logVars => LogInv'
  <2> SUFFICES ASSUME LogInv, [LogNext]_logVars PROVE LogInv'
    OBVIOUS
  <2>1. CASE UNCHANGED logVars
    <3>1. /\ buffer' = buffer /\ entries' = entries /\ pc' = pc /\ last' = last
          /\ received' = received /\ underway' = underway /\ failures' = failures
      BY <2>1 DEF logVars
    <3>2. LogTypeOK'
      BY <3>1 DEF LogInv, LogTypeOK
    <3>3. Windows'
      BY <3>1 DEF LogInv, Windows
    <3>4. SentOnce'
      BY <3>1 DEF LogInv, SentOnce, Settled
    <3>5. LossIsExplained'
      BY <3>1 DEF LogInv, LossIsExplained, Somewhere
    <3> QED
      BY <3>2, <3>3, <3>4, <3>5 DEF LogInv
  <2>2. CASE LogNext
    BY <2>2, EmitKeeps, DrainKeeps, ArrivesKeeps, AnsweredKeeps, UploadFailsKeeps,
       ArrivesLateKeeps, RestartKeeps DEF LogNext
  <2> QED
    BY <2>1, <2>2
<1> QED
  BY <1>1, <1>2, PTL DEF LogSpec

(* No entry of the debug log reaches the platform twice, whatever becomes of the *)
(* requests; a batch that failed has its warning, and else none is lost but what *)
(* the ring had to give up for newer ones.                                       *)
THEOREM LogAccounted == LogSpec => []LogIsAccounted
<1>1. LogInv => LogIsAccounted
  BY DEF LogInv, SentOnce, SentUpTo, Distinct, LogIsAccounted, AtMostOnce
<1> QED
  BY <1>1, LogInvariance, PTL

-----------------------------------------------------------------------------
(* Health. *)

USE HealthAssumption, BoundsAssumption

(* Readings are finitely many. *)
LEMMA FiniteReadings ==
    ASSUME TypeOK
    PROVE  /\ lastId \in Nat
           /\ IsFiniteSet(outbox) /\ IsFiniteSet(deadLetter) /\ IsFiniteSet(kept)
           /\ Cardinality(outbox) \in Nat /\ Cardinality(deadLetter) \in Nat /\ Cardinality(kept) \in Nat
<1>1. lastId \in Nat /\ outbox \subseteq 1..lastId /\ deadLetter \subseteq 1..lastId
      /\ kept \subseteq 1..lastId
  BY DEF TypeOK
<1>2. IsFiniteSet(1..lastId)
  BY <1>1, FS_Interval
<1>3. IsFiniteSet(outbox) /\ IsFiniteSet(deadLetter) /\ IsFiniteSet(kept)
  BY <1>1, <1>2, FS_Subset
<1> QED
  BY <1>1, <1>3, FS_CardinalityType

(* A set of numbers that is not empty has a least element. *)
LEMMA LeastElement ==
    ASSUME NEW S, S \subseteq Nat, S # {}
    PROVE  \E i \in S : \A j \in S : i <= j
<1> DEFINE Below == OpToRel(<, Nat)
<1>1. \A i, j \in Nat : <<i, j>> \in Below <=> i < j
  BY DEF OpToRel
<1>2. IsWellFoundedOn(Below, Nat)
  BY NatLessThanWellFounded
<1> HIDE DEF Below
<1>3. PICK i \in S : \A j \in S : ~(<<j, i>> \in Below)
  BY <1>2, WFMin
<1>4. \A j \in S : ~(j < i)
  BY <1>1, <1>3, Zenon
<1>5. \A j \in S : i <= j
  BY <1>4
<1> QED
  BY <1>5

(* The first and the last row are rows, and none is beyond them. *)
LEMMA EndsOfTheQueue ==
    ASSUME TypeOK, outbox # {}
    PROVE  /\ First(outbox) \in outbox /\ \A i \in outbox : First(outbox) <= i
           /\ Newest(outbox) \in outbox /\ \A i \in outbox : i <= Newest(outbox)
<1>1. lastId \in Nat /\ outbox \subseteq 1..lastId
  BY DEF TypeOK
<1> DEFINE Down == {lastId - i : i \in outbox}
<1>2. PICK i \in outbox : \A j \in outbox : i <= j
  <2>1. outbox \subseteq Nat
    BY <1>1
  <2> QED
    BY <2>1, LeastElement
<1>3. PICK d \in Down : \A e \in Down : d <= e
  <2>1. Down \in SUBSET Nat /\ Down # {}
    BY <1>1
  <2> QED
    BY <2>1, LeastElement
<1>4. PICK k \in outbox : d = lastId - k
  BY <1>3
<1>5. ASSUME NEW j \in outbox PROVE j <= k
  <2>1. lastId - j \in Down
    OBVIOUS
  <2>2. lastId - k <= lastId - j
    BY <2>1, <1>3, <1>4
  <2> QED
    BY <1>1, <2>2
<1>6. First(outbox) = CHOOSE i_ \in outbox : \A j \in outbox : i_ <= j
  BY DEF First
<1>7. Newest(outbox) = CHOOSE i_ \in outbox : \A j \in outbox : j <= i_
  BY DEF Newest
<1> QED
  BY <1>2, <1>5, <1>6, <1>7, Zenon
-----------------------------------------------------------------------------
(* Type correctness. *)

LEMMA InitTypes == Init => TypeOK
BY FS_EmptySet DEF Init, TypeOK, NoHealth, Zero, Nothing, NoReading, Operations

(* What record_success writes. *)
LEMMA StampedHealth ==
    ASSUME TypeOK, NEW op \in Operations
    PROVE  /\ Stamped(op) \in [refused_samples : Nat, errors : [Operations -> Nat],
                              rs485_errors : Nat, clock_regressions : Nat, last : [Operations -> Nat]]
           /\ Stamped(op).refused_samples = health.refused_samples
           /\ Stamped(op).errors = health.errors
           /\ Stamped(op).rs485_errors = health.rs485_errors
           /\ Stamped(op).last = [health.last EXCEPT ![op] = clock]
           /\ Stamped(op).clock_regressions =
                 health.clock_regressions + (IF Regressed(op) THEN 1 ELSE 0)
           /\ Stamped(op).clock_regressions - health.clock_regressions \in {0, 1}
<1> DEFINE Healths == [refused_samples : Nat, errors : [Operations -> Nat], rs485_errors : Nat,
                       clock_regressions : Nat, last : [Operations -> Nat]]
           r == health.clock_regressions + (IF Regressed(op) THEN 1 ELSE 0)
           l == [health.last EXCEPT ![op] = clock]
<1>1. health \in Healths /\ clock \in Nat
  BY DEF TypeOK
<1>2. r \in Nat /\ l \in [Operations -> Nat] /\ r - health.clock_regressions \in {0, 1}
  BY <1>1
<1>3. Stamped(op) = [health EXCEPT !.last = l, !.clock_regressions = r]
  <2>1. CASE Regressed(op)
    <3>1. Stamped(op) = [health EXCEPT !.last[op] = clock, !.clock_regressions = @ + 1]
      BY <2>1, Zenon DEF Stamped
    <3>2. r = health.clock_regressions + 1
      BY <2>1, Zenon
    <3> HIDE DEF r
    <3> QED
      BY <1>1, <3>1, <3>2
  <2>2. CASE ~Regressed(op)
    <3>1. Stamped(op) = [health EXCEPT !.last[op] = clock, !.clock_regressions = @]
      BY <2>2, Zenon DEF Stamped
    <3>2. r = health.clock_regressions
      <4>1. r = health.clock_regressions + 0
        BY <2>2, Zenon
      <4> HIDE DEF r
      <4> QED
        BY <1>1, <4>1
    <3> HIDE DEF r
    <3> QED
      BY <1>1, <3>1, <3>2
  <2> QED
    BY <2>1, <2>2
<1> HIDE DEF r, l
<1>4. Stamped(op) \in Healths
  BY <1>1, <1>2, <1>3
<1>5. /\ Stamped(op).refused_samples = health.refused_samples /\ Stamped(op).errors = health.errors
      /\ Stamped(op).rs485_errors = health.rs485_errors
      /\ Stamped(op).last = l /\ Stamped(op).clock_regressions = r
  BY <1>1, <1>3
<1> QED
  BY <1>2, <1>4, <1>5 DEF r, l

(* The steps that leave queue and report alone. *)
LEMMA RecordTypes ==
    ASSUME TypeOK, RecordSuccess \/ RecordError \/ RecordLost \/ Synced \/ OperationFails
                      \/ SampleRefused \/ Tick \/ SetBack
    PROVE  TypeOK'
<1> USE DEF TypeOK, history
<1> DEFINE Counts == [Operations -> Nat]
<1>1. ASSUME RecordSuccess PROVE TypeOK'
  <2>1. todo.op \in Operations /\ clock \in Nat
    BY DEF Operations
  <2>2. /\ Stamped(todo.op) \in [refused_samples : Nat, errors : [Operations -> Nat],
                                rs485_errors : Nat, clock_regressions : Nat, last : [Operations -> Nat]]
        /\ Stamped(todo.op).clock_regressions - health.clock_regressions \in {0, 1}
    BY <2>1, StampedHealth
  <2>3. health'.clock_regressions - health.clock_regressions \in {0, 1}
    BY <1>1, <2>2 DEF RecordSuccess
  <2>4. counted' \in Counts /\ at' \in Counts
    BY <1>1, <2>1, <2>3 DEF RecordSuccess
  <2> QED
    BY <1>1, <2>1, <2>2, <2>4 DEF RecordSuccess, Nothing, Operations
<1>2. ASSUME RecordError PROVE TypeOK'
  <2>1. OfModbus(todo.op) \in {0, 1}
    BY DEF OfModbus
  <2>2. health' \in [refused_samples : Nat, errors : [Operations -> Nat], rs485_errors : Nat,
                     clock_regressions : Nat, last : [Operations -> Nat]]
    <3> DEFINE e == [health.errors EXCEPT ![todo.op] = @ + 1]
               m == health.rs485_errors + OfModbus(todo.op)
    <3>1. e \in [Operations -> Nat] /\ m \in Nat
      BY <2>1
    <3>2. health' = [health EXCEPT !.errors = e, !.rs485_errors = m]
      BY <1>2 DEF RecordError
    <3> HIDE DEF e, m
    <3> QED
      BY <3>1, <3>2
  <2> QED
    BY <1>2, <2>2 DEF RecordError, Nothing, Operations
<1>3. ASSUME RecordLost PROVE TypeOK'
  <2>1. missed' \in Counts
    BY <1>3 DEF RecordLost
  <2> QED
    BY <1>3, <2>1 DEF RecordLost, Nothing, Operations
<1>4. ASSUME Synced PROVE TypeOK'
  BY <1>4 DEF Synced, Outcome, Operations
<1>5. ASSUME OperationFails PROVE TypeOK'
  <2>1. PICK op \in Operations : Fail(op)
    BY <1>5 DEF OperationFails
  <2>2. failed' \in Counts /\ todo' \in [op : Operations, outcome : {"none", "success", "error"}]
    BY <2>1 DEF Fail, Outcome
  <2> QED
    BY <1>5, <2>2 DEF OperationFails
<1>6. ASSUME SampleRefused PROVE TypeOK'
  <2>1. failed' \in Counts /\ todo' \in [op : Operations, outcome : {"none", "success", "error"}]
    BY <1>6 DEF SampleRefused, Fail, Outcome, Operations
  <2> QED
    BY <1>6, <2>1 DEF SampleRefused
<1>7. ASSUME Tick PROVE TypeOK'
  BY <1>7 DEF Tick
<1>8. ASSUME SetBack PROVE TypeOK'
  BY <1>8 DEF SetBack
<1> QED
  BY <1>1, <1>2, <1>3, <1>4, <1>5, <1>6, <1>7, <1>8

LEMMA AtMostOneMore ==
    ASSUME NEW S, NEW x, IsFiniteSet(S), Cardinality(S) < CAPACITY
    PROVE  Cardinality(S \cup {x}) <= CAPACITY
<1>1. Cardinality(S) \in Nat
  BY FS_CardinalityType
<1>2. Cardinality(S \cup {x}) = Cardinality(S) \/ Cardinality(S \cup {x}) = Cardinality(S) + 1
  BY FS_AddElement
<1> QED
  BY <1>1, <1>2

(* The steps on the queue and of the report. *)
LEMMA QueueTypes ==
    ASSUME TypeOK, SampleQueued \/ Uploaded \/ ClearAssignment \/ FactoryReset \/ Query \/ Report
    PROVE  TypeOK'
<1> USE DEF TypeOK, history
<1>0. IsFiniteSet(outbox) /\ Cardinality(outbox) \in Nat
  BY FiniteReadings
<1>1. ASSUME SampleQueued PROVE TypeOK'
  <2>1. Cardinality(outbox') <= CAPACITY
    <3>1. outbox' = outbox \cup {lastId + 1} /\ Cardinality(outbox) < CAPACITY
      BY <1>1 DEF SampleQueued, HasRoom
    <3> QED
      BY <1>0, <3>1, AtMostOneMore
  <2> QED
    BY <1>1, <2>1 DEF SampleQueued, Outcome, Operations
<1>2. ASSUME Uploaded PROVE TypeOK'
  <2>1. PICK delivered, rejected \in SUBSET outbox :
          /\ delivered \cap rejected = {}
          /\ outbox' = outbox \ (delivered \cup rejected)
          /\ deadLetter' = deadLetter \cup rejected /\ kept' = kept \ delivered
    BY <1>2 DEF Uploaded
  <2>2. Cardinality(outbox') <= CAPACITY
    <3>1. outbox' \in SUBSET outbox
      BY <2>1
    <3>2. Cardinality(outbox') <= Cardinality(outbox) /\ Cardinality(outbox') \in Nat
      BY <1>0, <3>1, FS_Subset, FS_CardinalityType
    <3> QED
      BY <1>0, <3>2
  <2>3. kept' \subseteq outbox' \cup deadLetter' /\ outbox' \cap deadLetter' = {}
    BY <2>1
  <2> QED
    BY <1>2, <2>1, <2>2, <2>3 DEF Uploaded, Outcome, Operations
<1>3. ASSUME ClearAssignment \/ FactoryReset PROVE TypeOK'
  <2>1. NoHealth \in [refused_samples : Nat, errors : [Operations -> Nat], rs485_errors : Nat,
                     clock_regressions : Nat, last : [Operations -> Nat]]
        /\ Zero \in [Operations -> Nat]
    BY DEF NoHealth, Zero
  <2>2. outbox' = {} /\ Cardinality({}) = 0 /\ 0 <= CAPACITY
    BY <1>3, FS_EmptySet DEF ClearAssignment, FactoryReset
  <2>3. kept' \subseteq deadLetter' /\ deadLetter' \subseteq 1..lastId
    BY <1>3 DEF ClearAssignment, FactoryReset
  <2>4. {failed', missed', counted', at'} \subseteq [Operations -> Nat] /\ refused' \in Nat
    BY <1>3, <2>1 DEF ClearAssignment, FactoryReset, HealthCleared
  <2> QED
    BY <1>3, <2>1, <2>2, <2>3, <2>4 DEF ClearAssignment, FactoryReset, HealthCleared
<1>4. ASSUME Query PROVE TypeOK'
  <2>1. \A query \in Queries : Answer(query) \in Nat
    <3>1. First(outbox) \in Nat /\ Newest(outbox) \in Nat
      <4>0. outbox \subseteq Nat
        OBVIOUS
      <4>1. CASE outbox = {}
        BY <4>1 DEF First, Newest, None
      <4>2. CASE outbox # {}
        <5>1. First(outbox) \in outbox /\ Newest(outbox) \in outbox
          BY <4>2, EndsOfTheQueue
        <5> QED
          BY <4>0, <5>1
      <4> QED
        BY <4>1, <4>2
    <3> QED
      BY <3>1, FiniteReadings DEF Answer, Queries
  <2>2. reading.step \in 0..3 /\ Order[reading.step + 1] \in Queries
    BY <1>4 DEF Query, Order, Queries
  <2>3. reading' \in [step : 0..4, answers : [Queries -> Nat]]
    BY <1>4, <2>1, <2>2 DEF Query
  <2>4. kept' \subseteq outbox \cup deadLetter
    BY <1>4 DEF Query
  <2> QED
    BY <1>4, <2>3, <2>4 DEF Query
<1>5. ASSUME Report PROVE TypeOK'
  BY <1>5 DEF Report, NoReading
<1> QED
  BY <1>1, <1>2, <1>3, <1>4, <1>5

LEMMA NextTypes == TypeOK /\ [Next]_vars => TypeOK'
<1> SUFFICES ASSUME TypeOK, [Next]_vars PROVE TypeOK'
  OBVIOUS
<1>1. CASE UNCHANGED vars
  BY <1>1 DEF vars, history, TypeOK
<1>2. CASE Next
  BY <1>2, RecordTypes, QueueTypes DEF Next
<1> QED
  BY <1>1, <1>2

(* Every record keeps its shape and the queue its capacity. *)
THEOREM TypeCorrectness == Spec => []TypeOK
BY InitTypes, NextTypes, PTL DEF Spec

-----------------------------------------------------------------------------
(* The counters, the timestamps and the regressions. *)

(* Outcomes of two operations differ. *)
LEMMA OutcomesDiffer ==
    ASSUME NEW op \in Operations, NEW p \in Operations
    PROVE  /\ Outcome(p, "error") = Outcome(op, "error") <=> p = op
           /\ Outcome(p, "success") # Outcome(op, "error")
           /\ Nothing # Outcome(op, "error")
BY DEF Outcome, Nothing, Operations

LEMMA NextCounters == TypeOK /\ CountersAccount /\ [Next]_vars => CountersAccount'
<1> SUFFICES ASSUME TypeOK, CountersAccount, [Next]_vars PROVE CountersAccount'
  OBVIOUS
<1> DEFINE Counts == [Operations -> Nat]
<1>0. /\ failed \in Counts /\ missed \in Counts /\ health.errors \in Counts
      /\ health.refused_samples \in Nat /\ refused \in Nat
      /\ todo \in [op : Operations, outcome : {"none", "success", "error"}]
  BY DEF TypeOK
<1>1. CASE UNCHANGED <<health, failed, missed, refused>> /\ \A op \in Operations :
             todo' = Outcome(op, "error") <=> todo = Outcome(op, "error")
  BY <1>1 DEF CountersAccount
<1>2. ASSUME NEW p \in Operations, Idle, Fail(p), UNCHANGED missed,
             health'.errors = health.errors, health'.refused_samples = refused',
             health'.rs485_errors = health.rs485_errors
      PROVE  CountersAccount'
  <2>1. todo = Nothing /\ todo' = Outcome(p, "error") /\ failed' = [failed EXCEPT ![p] = @ + 1]
    BY <1>2 DEF Idle, Fail
  <2> SUFFICES ASSUME NEW op \in Operations
               PROVE  failed'[op] = health'.errors[op] + missed'[op]
                                    + (IF todo' = Outcome(op, "error") THEN 1 ELSE 0)
    BY <1>2 DEF CountersAccount
  <2>2. todo # Outcome(op, "error") /\ (todo' = Outcome(op, "error") <=> p = op)
    BY <2>1, OutcomesDiffer
  <2>3. failed[op] = health.errors[op] + missed[op]
    BY <1>0, <2>2 DEF CountersAccount
  <2> QED
    BY <1>0, <1>2, <2>1, <2>2, <2>3
<1>3. CASE SampleRefused
  <2>1. /\ health'.errors = health.errors /\ health'.refused_samples = refused'
        /\ health'.rs485_errors = health.rs485_errors
    BY <1>0, <1>3 DEF SampleRefused, TypeOK, CountersAccount
  <2> QED
    BY <1>2, <1>3, <2>1 DEF SampleRefused, Operations
<1>4. CASE OperationFails
  BY <1>2, <1>4 DEF OperationFails, CountersAccount
<1>5. CASE SampleQueued \/ Uploaded \/ Synced
  <2>1. \A op \in Operations : todo' # Outcome(op, "error") /\ todo # Outcome(op, "error")
    BY <1>5, OutcomesDiffer DEF SampleQueued, Uploaded, Synced, Idle, Operations
  <2> QED
    BY <1>1, <1>5, <2>1 DEF SampleQueued, Uploaded, Synced, history
<1>6. CASE RecordSuccess
  <2>0. todo.outcome = "success" /\ todo' = Nothing /\ todo.op \in Operations
    BY <1>0, <1>6 DEF RecordSuccess
  <2>1. \A op \in Operations : todo' # Outcome(op, "error") /\ todo # Outcome(op, "error")
    BY <2>0, OutcomesDiffer DEF Outcome
  <2>2. /\ health'.errors = health.errors /\ health'.refused_samples = health.refused_samples
        /\ health'.rs485_errors = health.rs485_errors
    BY <1>0, <1>6, StampedHealth DEF RecordSuccess
  <2> QED
    BY <1>6, <2>1, <2>2 DEF RecordSuccess, CountersAccount
<1>7. CASE RecordError
  <2>1. todo' = Nothing /\ todo = Outcome(todo.op, "error") /\ todo.op \in Operations
    BY <1>0, <1>7 DEF RecordError, Outcome
  <2>2. /\ health'.errors = [health.errors EXCEPT ![todo.op] = @ + 1]
        /\ health'.refused_samples = health.refused_samples
        /\ health'.rs485_errors = health.rs485_errors + OfModbus(todo.op)
    BY <1>0, <1>7 DEF RecordError, TypeOK
  <2>6. health'.rs485_errors = IF Modbus THEN health'.errors["sample"] ELSE 0
    BY <1>0, <2>1, <2>2 DEF CountersAccount, OfModbus, Operations
  <2> SUFFICES ASSUME NEW op \in Operations
               PROVE  failed'[op] = health'.errors[op] + missed'[op]
                                    + (IF todo' = Outcome(op, "error") THEN 1 ELSE 0)
    BY <1>7, <2>2, <2>6 DEF CountersAccount, RecordError, history
  <2>3. todo' # Outcome(op, "error") /\ (todo = Outcome(op, "error") <=> todo.op = op)
    BY <2>1, OutcomesDiffer
  <2>4. failed[op] = health.errors[op] + missed[op] + (IF todo.op = op THEN 1 ELSE 0)
    BY <2>3 DEF CountersAccount
  <2>5. UNCHANGED <<failed, missed>>
    BY <1>7 DEF RecordError, history
  <2> QED
    BY <1>0, <2>1, <2>2, <2>3, <2>4, <2>5
<1>8. CASE RecordLost
  <2>1. todo' = Nothing /\ todo.op \in Operations /\ UNCHANGED <<failed, health, refused>>
        /\ missed' = [missed EXCEPT ![todo.op] = IF todo.outcome = "error" THEN @ + 1 ELSE @]
    BY <1>0, <1>8 DEF RecordLost
  <2> SUFFICES ASSUME NEW op \in Operations
               PROVE  failed'[op] = health'.errors[op] + missed'[op]
                                    + (IF todo' = Outcome(op, "error") THEN 1 ELSE 0)
    BY <2>1 DEF CountersAccount
  <2>2. todo' # Outcome(op, "error")
        /\ (todo = Outcome(op, "error") <=> (todo.op = op /\ todo.outcome = "error"))
    <3>1. todo' # Outcome(op, "error")
      BY <2>1, OutcomesDiffer
    <3>2. todo = [op |-> todo.op, outcome |-> todo.outcome]
      BY <1>0
    <3> QED
      BY <3>1, <3>2 DEF Outcome
  <2>3. failed[op] = health.errors[op] + missed[op]
                    + (IF todo.op = op /\ todo.outcome = "error" THEN 1 ELSE 0)
    BY <2>2 DEF CountersAccount
  <2> QED
    BY <1>0, <2>1, <2>2, <2>3
<1>9. CASE ClearAssignment \/ FactoryReset
  <2>0. todo' = Nothing
    BY <1>9 DEF ClearAssignment, FactoryReset, Idle
  <2>1. \A op \in Operations : todo' # Outcome(op, "error")
    BY <2>0, OutcomesDiffer
  <2> QED
    BY <1>9, <2>1 DEF ClearAssignment, FactoryReset, HealthCleared, NoHealth, Zero, CountersAccount,
       Operations
<1>10. CASE Query \/ Report \/ Tick \/ SetBack \/ UNCHANGED vars
  BY <1>1, <1>10 DEF Query, Report, Tick, SetBack, vars, history
<1> QED
  BY <1>3, <1>4, <1>5, <1>6, <1>7, <1>8, <1>9, <1>10 DEF Next

(* The counters account for every refusal and every failure, whatever is lost.  *)
THEOREM CountersAreRight == Spec => []CountersAccount
<1>1. Init => CountersAccount
  BY OutcomesDiffer DEF Init, CountersAccount, NoHealth, Zero, Operations
<1> QED
  BY <1>1, NextCounters, TypeCorrectness, PTL DEF Spec

(* A timestamp is the clock at the last recorded success, or less than the      *)
(* interval behind it; record_success keeps this whatever the clock did.        *)
LEMMA NextTimestamps == TypeOK /\ TimestampsTrail /\ [Next]_vars => TimestampsTrail'
<1> SUFFICES ASSUME TypeOK, TimestampsTrail, [Next]_vars PROVE TimestampsTrail'
  OBVIOUS
<1>0. health.last \in [Operations -> Nat] /\ at \in [Operations -> Nat] /\ clock \in Nat
  BY DEF TypeOK
<1>1. CASE health'.last = health.last /\ at' = at
  BY <1>1 DEF TimestampsTrail
<1>2. CASE ClearAssignment \/ FactoryReset
  BY <1>2 DEF ClearAssignment, FactoryReset, HealthCleared, NoHealth, Zero, TimestampsTrail
<1>3. CASE RecordSuccess
  <2>1. todo.op \in Operations /\ at' = [at EXCEPT ![todo.op] = clock]
        /\ health' = IF Throttled(todo.op) THEN health ELSE Stamped(todo.op)
    BY <1>3 DEF RecordSuccess, TypeOK
  <2>2. CASE Throttled(todo.op)
    <3>1. /\ health' = health
          /\ health.last[todo.op] <= clock /\ clock - health.last[todo.op] < MIN
      BY <1>0, <2>1, <2>2 DEF Throttled
    <3> QED
      BY <1>0, <2>1, <3>1 DEF TimestampsTrail
  <2>3. CASE ~Throttled(todo.op)
    <3>1. health' = Stamped(todo.op)
      BY <2>1, <2>3, Zenon
    <3>2. health'.last = [health.last EXCEPT ![todo.op] = clock]
      BY <2>1, <3>1, StampedHealth
    <3> QED
      BY <1>0, <2>1, <3>2 DEF TimestampsTrail
  <2> QED
    BY <2>2, <2>3
<1>4. CASE SampleRefused \/ RecordError
  <2>1. health'.last = health.last /\ at' = at
    BY <1>4 DEF SampleRefused, RecordError, TypeOK, history
  <2> QED
    BY <1>1, <2>1
<1>5. CASE \/ SampleQueued \/ Uploaded \/ Synced \/ OperationFails \/ RecordLost
           \/ Query \/ Report \/ Tick \/ SetBack \/ UNCHANGED vars
  BY <1>1, <1>5 DEF SampleQueued, Uploaded, Synced, OperationFails, RecordLost, Query, Report,
                    Tick, SetBack, vars, history
<1> QED
  BY <1>2, <1>3, <1>4, <1>5 DEF Next

(* Timestamps follow the clock, backwards too.                                  *)
THEOREM TimestampsFollow == Spec => []TimestampsTrail
<1>1. Init => TimestampsTrail
  BY DEF Init, TimestampsTrail, NoHealth, Zero
<1> QED
  BY <1>1, NextTimestamps, TypeCorrectness, PTL DEF Spec

(* An operation whose timestamp is ahead of the clock has a step back to count. *)
Uncounted ==
    \A op \in Operations : /\ counted[op] <= backsteps
                           /\ Regressed(op) => counted[op] < backsteps

LEMMA NextRegressions ==
    TypeOK /\ RegressionsAreReal /\ Uncounted /\ [Next]_vars => RegressionsAreReal' /\ Uncounted'
<1> SUFFICES ASSUME TypeOK, RegressionsAreReal, Uncounted, [Next]_vars
             PROVE  RegressionsAreReal' /\ Uncounted'
  OBVIOUS
<1>0. /\ health.last \in [Operations -> Nat] /\ counted \in [Operations -> Nat]
      /\ health.clock_regressions \in Nat /\ clock \in Nat \ {0} /\ backsteps \in Nat
      /\ Operations = {"sample", "upload", "config"}
  BY DEF TypeOK, Operations
<1>1. SUFFICES /\ health'.clock_regressions = counted'["sample"] + counted'["upload"] + counted'["config"]
               /\ Uncounted'
  BY DEF RegressionsAreReal, Uncounted
<1>2. CASE /\ health'.last = health.last /\ health'.clock_regressions = health.clock_regressions
           /\ counted' = counted /\ clock' >= clock /\ backsteps' = backsteps /\ clock' \in Nat
  BY <1>0, <1>2 DEF RegressionsAreReal, Uncounted, Regressed
<1>3. CASE ClearAssignment \/ FactoryReset
  BY <1>0, <1>3 DEF ClearAssignment, FactoryReset, HealthCleared, NoHealth, Zero, Uncounted,
                    Regressed, Never
<1>4. CASE SetBack
  <2>1. health' = health /\ counted' = counted /\ backsteps' = backsteps + 1
    BY <1>4 DEF SetBack
  <2> QED
    BY <1>0, <2>1 DEF RegressionsAreReal, Uncounted
<1>5. CASE RecordSuccess
  <2> DEFINE more == health'.clock_regressions - health.clock_regressions
  <2>1. todo.op \in Operations /\ clock' = clock /\ backsteps' = backsteps
        /\ health' = (IF Throttled(todo.op) THEN health ELSE Stamped(todo.op))
    BY <1>5 DEF RecordSuccess, TypeOK
  <2>2. counted' = [counted EXCEPT ![todo.op] = @ + health'.clock_regressions - health.clock_regressions]
    BY <1>5 DEF RecordSuccess
  <2>3. CASE Throttled(todo.op)
    <3>1. health' = health
      BY <2>1, <2>3
    <3>2. counted' = counted
      BY <1>0, <2>1, <2>2, <3>1
    <3> QED
      BY <1>0, <1>2, <2>1, <3>1, <3>2
  <2>4. CASE ~Throttled(todo.op) /\ ~Regressed(todo.op)
    <3>1. health' = Stamped(todo.op)
      BY <2>1, <2>4, Zenon
    <3>2. /\ health'.last = [health.last EXCEPT ![todo.op] = clock]
          /\ health'.clock_regressions =
                health.clock_regressions + (IF Regressed(todo.op) THEN 1 ELSE 0)
      BY <2>1, <3>1, StampedHealth
    <3>3. health'.clock_regressions = health.clock_regressions
      <4>1. health'.clock_regressions = health.clock_regressions + 0
        BY <2>4, <3>2, Zenon
      <4> QED
        BY <1>0, <4>1
    <3>4. counted' = counted
      BY <1>0, <2>1, <2>2, <3>3
    <3> QED
      BY <1>0, <2>1, <3>2, <3>3, <3>4 DEF RegressionsAreReal, Uncounted, Regressed
  <2>5. CASE ~Throttled(todo.op) /\ Regressed(todo.op)
    <3>1. health' = Stamped(todo.op)
      BY <2>1, <2>5, Zenon
    <3>2. /\ health'.last = [health.last EXCEPT ![todo.op] = clock]
          /\ health'.clock_regressions =
                health.clock_regressions + (IF Regressed(todo.op) THEN 1 ELSE 0)
      BY <2>1, <3>1, StampedHealth
    <3>3. health'.clock_regressions = health.clock_regressions + 1
      BY <2>5, <3>2, Zenon
    <3>4. counted' = [counted EXCEPT ![todo.op] = @ + 1]
      <4>1. counted[todo.op] \in Nat
        BY <1>0, <2>1
      <4>2. counted[todo.op] + health'.clock_regressions - health.clock_regressions
               = counted[todo.op] + 1
        BY <1>0, <3>3, <4>1
      <4> QED
        BY <2>2, <4>2, Zenon
    <3>5. counted[todo.op] < backsteps
      BY <2>1, <2>5 DEF Uncounted
    <3>6. health'.clock_regressions = counted'["sample"] + counted'["upload"] + counted'["config"]
      BY <1>0, <2>1, <3>3, <3>4 DEF RegressionsAreReal
    <3>7. Uncounted'
      BY <1>0, <2>1, <3>2, <3>4, <3>5 DEF Uncounted, Regressed
    <3> QED
      BY <3>6, <3>7
  <2> QED
    BY <2>3, <2>4, <2>5
<1>6. CASE SampleRefused \/ RecordError
  <2>1. health'.last = health.last /\ health'.clock_regressions = health.clock_regressions
        /\ counted' = counted /\ backsteps' = backsteps /\ clock' = clock
    BY <1>6 DEF SampleRefused, RecordError, TypeOK, history
  <2> QED
    BY <1>0, <1>2, <2>1
<1>7. CASE \/ SampleQueued \/ Uploaded \/ Synced \/ OperationFails \/ RecordLost
           \/ Query \/ Report \/ Tick \/ UNCHANGED vars
  <2>1. health' = health /\ counted' = counted /\ backsteps' = backsteps /\ clock' \in {clock, clock + 1}
    BY <1>7 DEF SampleQueued, Uploaded, Synced, OperationFails, RecordLost, Query, Report,
                Tick, vars, history
  <2> QED
    BY <1>0, <1>2, <2>1
<1> QED
  BY <1>3, <1>4, <1>5, <1>6, <1>7 DEF Next

(* No regression is counted twice for an operation, and none without a step back. *)
THEOREM RegressionsAreSteps == Spec => []RegressionsAreReal
<1>1. Init => RegressionsAreReal /\ Uncounted
  BY DEF Init, RegressionsAreReal, Uncounted, Regressed, NoHealth, Zero, Operations, Never
<1> QED
  BY <1>1, NextRegressions, TypeCorrectness, PTL DEF Spec

-----------------------------------------------------------------------------
(* The report: its queries are not one transaction, but in this order a reading *)
(* can only move from what is yet to be counted to what is counted later.       *)

CountedSoFar ==
    /\ reading.step >= 1 => Cardinality(kept) <= reading.answers["backlog"] + Cardinality(deadLetter)
    /\ HealthMissesNothing

(* Rows that come are newer than what was read. *)
OldestSoFar ==
    /\ reading.step >= 2 /\ reading.answers["oldest"] # None
          => reading.answers["oldest"] <= lastId /\ \A i \in outbox : reading.answers["oldest"] <= i
    /\ reading.step >= 3 /\ reading.answers["oldest"] # None /\ reading.answers["newest"] # None
          => reading.answers["oldest"] <= reading.answers["newest"]

(* What the queries ask, in their order. *)
LEMMA QueriesInOrder ==
    ASSUME TypeOK, Query
    PROVE  /\ reading.step \in 0..3 /\ reading'.step = reading.step + 1
           /\ reading.step = 0 => reading'.answers = [reading.answers EXCEPT !["backlog"] = Cardinality(outbox)]
           /\ reading.step = 1 => reading'.answers = [reading.answers EXCEPT !["oldest"] = First(outbox)]
           /\ reading.step = 2 => reading'.answers = [reading.answers EXCEPT !["newest"] = Newest(outbox)]
           /\ reading.step = 3 => reading'.answers = [reading.answers EXCEPT !["dead"] = Cardinality(deadLetter)]
<1>1. reading.step \in 0..3
  BY DEF TypeOK, Query
<1>2. /\ reading'.step = reading.step + 1
      /\ reading'.answers = [reading.answers EXCEPT ![Order[reading.step + 1]] = Answer(Order[reading.step + 1])]
  BY DEF Query
<1>3. /\ reading.step = 0 => Order[reading.step + 1] = "backlog"
      /\ reading.step = 1 => Order[reading.step + 1] = "oldest"
      /\ reading.step = 2 => Order[reading.step + 1] = "newest"
      /\ reading.step = 3 => Order[reading.step + 1] = "dead"
  BY DEF Order
<1>4. /\ Answer("backlog") = Cardinality(outbox) /\ Answer("oldest") = First(outbox)
      /\ Answer("newest") = Newest(outbox) /\ Answer("dead") = Cardinality(deadLetter)
  BY DEF Answer
<1> DEFINE query == Order[reading.step + 1]
<1>5. reading'.answers = [reading.answers EXCEPT ![query] = Answer(query)]
  BY <1>2
<1>6. /\ reading.step = 0 => query = "backlog"
      /\ reading.step = 1 => query = "oldest"
      /\ reading.step = 2 => query = "newest"
      /\ reading.step = 3 => query = "dead"
  BY <1>3
<1> HIDE DEF query
<1>7. ASSUME NEW q, query = q PROVE reading'.answers = [reading.answers EXCEPT ![q] = Answer(q)]
  BY <1>5, <1>7, Zenon
<1>8. reading.step = 0 => reading'.answers = [reading.answers EXCEPT !["backlog"] = Answer("backlog")]
  <2> SUFFICES ASSUME reading.step = 0 PROVE query = "backlog"
    BY <1>7, Zenon
  <2> QED
    BY <1>6
<1>9. reading.step = 1 => reading'.answers = [reading.answers EXCEPT !["oldest"] = Answer("oldest")]
  <2> SUFFICES ASSUME reading.step = 1 PROVE query = "oldest"
    BY <1>7, Zenon
  <2> QED
    BY <1>6
<1>10. reading.step = 2 => reading'.answers = [reading.answers EXCEPT !["newest"] = Answer("newest")]
  <2> SUFFICES ASSUME reading.step = 2 PROVE query = "newest"
    BY <1>7, Zenon
  <2> QED
    BY <1>6
<1>11. reading.step = 3 => reading'.answers = [reading.answers EXCEPT !["dead"] = Answer("dead")]
  <2> SUFFICES ASSUME reading.step = 3 PROVE query = "dead"
    BY <1>7, Zenon
  <2> QED
    BY <1>6
<1> HIDE DEF Answer
<1> QED
  BY <1>1, <1>2, <1>4, <1>8, <1>9, <1>10, <1>11, Zenon

LEMMA NextCounted == TypeOK /\ TypeOK' /\ CountedSoFar /\ [Next]_vars => CountedSoFar'
<1> SUFFICES ASSUME TypeOK, TypeOK', CountedSoFar, [Next]_vars PROVE CountedSoFar'
  OBVIOUS
<1> USE DEF CountedSoFar, HealthMissesNothing
<1>0. /\ reading.answers["backlog"] \in Nat /\ reading.answers["dead"] \in Nat /\ reading.step \in 0..4
      /\ IsFiniteSet(outbox) /\ IsFiniteSet(deadLetter) /\ IsFiniteSet(kept)
      /\ Cardinality(outbox) \in Nat /\ Cardinality(deadLetter) \in Nat /\ Cardinality(kept) \in Nat
      /\ IsFiniteSet(deadLetter') /\ Cardinality(deadLetter') \in Nat
  <2>1. IsFiniteSet(deadLetter')
    <3>1. lastId' \in Nat /\ deadLetter' \subseteq 1..lastId'
      BY DEF TypeOK
    <3>2. \A n \in Nat : IsFiniteSet(1..n)
      BY FS_Interval
    <3> QED
      BY <3>1, <3>2, FS_Subset
  <2>2. Cardinality(deadLetter') \in Nat
    BY <2>1, FS_CardinalityType
  <2> QED
    BY <2>1, <2>2, FiniteReadings DEF TypeOK, Queries
<1>1. CASE UNCHANGED reading /\ kept' \in SUBSET kept /\ deadLetter \in SUBSET deadLetter'
  <2>1. /\ Cardinality(kept') <= Cardinality(kept) /\ Cardinality(deadLetter) <= Cardinality(deadLetter')
        /\ Cardinality(kept') \in Nat
    BY <1>0, <1>1, FS_Subset, FS_CardinalityType
  <2> QED
    BY <1>0, <1>1, <2>1
<1>2. CASE SampleQueued \/ SampleRefused \/ Uploaded \/ Synced \/ OperationFails \/ RecordSuccess
           \/ RecordError \/ RecordLost \/ ClearAssignment \/ Tick \/ SetBack \/ UNCHANGED vars
  <2>1. UNCHANGED reading /\ kept' \subseteq kept /\ deadLetter \subseteq deadLetter'
    BY <1>2 DEF SampleQueued, SampleRefused, Uploaded, Synced, OperationFails, RecordSuccess,
                RecordError, RecordLost, ClearAssignment, Tick, SetBack, vars, history
  <2> QED
    BY <1>1, <2>1
<1>3. CASE FactoryReset
  <2>1. kept' = {} /\ UNCHANGED reading
    BY <1>3 DEF FactoryReset
  <2>2. Cardinality(kept') = 0
    BY <2>1, FS_EmptySet
  <2> QED
    BY <1>0, <2>1, <2>2
<1>4. CASE Query
  <2>1. deadLetter' = deadLetter /\ kept' = IF reading.step = 0 THEN outbox \cup deadLetter ELSE kept
    BY <1>4 DEF Query
  <2>2. reading.answers \in [Queries -> Nat] /\ reading.step \in 0..3 /\ reading'.step = reading.step + 1
    BY <1>4, QueriesInOrder DEF TypeOK
  <2>3. CASE reading.step = 0
    <3>1. reading'.answers["backlog"] = Cardinality(outbox)
      BY <1>4, <2>2, <2>3, QueriesInOrder DEF Queries
    <3>2. Cardinality(outbox \cup deadLetter)
             = Cardinality(outbox) + Cardinality(deadLetter) - Cardinality(outbox \cap deadLetter)
      BY <1>0, FS_Union
    <3>3. Cardinality(outbox \cap deadLetter) = 0
      BY FS_EmptySet DEF TypeOK
    <3>4. Cardinality(kept') = Cardinality(outbox) + Cardinality(deadLetter)
      BY <1>0, <2>1, <2>3, <3>2, <3>3
    <3> QED
      BY <1>0, <2>1, <2>2, <2>3, <3>1, <3>4
  <2>4. CASE reading.step # 0
    <3>1. reading'.answers["backlog"] = reading.answers["backlog"]
      BY <1>4, <2>2, <2>4, QueriesInOrder DEF Queries
    <3>2. reading'.step = 4 => reading'.answers["dead"] = Cardinality(deadLetter)
      BY <1>4, <2>2, QueriesInOrder DEF Queries
    <3> QED
      BY <1>0, <2>1, <2>2, <2>4, <3>1, <3>2
  <2> QED
    BY <2>3, <2>4
<1>5. CASE Report
  BY <1>5 DEF Report, NoReading
<1> QED
  BY <1>2, <1>3, <1>4, <1>5 DEF Next

(* No reading is missed by the report, however the agent moves it meanwhile.    *)
THEOREM ReportIsComplete == Spec => []HealthMissesNothing
<1>1. Init => CountedSoFar
  BY DEF Init, CountedSoFar, HealthMissesNothing, NoReading
<1>2. CountedSoFar => HealthMissesNothing
  BY DEF CountedSoFar
<1> QED
  BY <1>1, <1>2, NextCounted, NextTypes, TypeCorrectness, PTL DEF Spec

LEMMA NextOldest == TypeOK /\ TypeOK' /\ OldestSoFar /\ [Next]_vars => OldestSoFar'
<1> SUFFICES ASSUME TypeOK, TypeOK', OldestSoFar, [Next]_vars PROVE OldestSoFar'
  OBVIOUS
<1>0. /\ reading.answers["oldest"] \in Nat /\ reading.answers["newest"] \in Nat /\ reading.step \in 0..4
      /\ lastId \in Nat /\ outbox \subseteq 1..lastId
  BY DEF TypeOK, Queries
<1>1. CASE UNCHANGED reading /\ lastId' >= lastId /\ lastId' \in Nat /\ \A i \in outbox' : i \in outbox \/ i > lastId
  <2>1. \A i \in outbox' : i \in Nat
    BY <1>0, <1>1 DEF TypeOK
  <2> QED
    BY <1>0, <1>1, <2>1 DEF OldestSoFar
<1>2. CASE SampleQueued
  BY <1>0, <1>1, <1>2 DEF SampleQueued
<1>3. CASE Uploaded \/ ClearAssignment \/ FactoryReset
  <2>1. UNCHANGED <<reading, lastId>> /\ outbox' \subseteq outbox
    BY <1>3 DEF Uploaded, ClearAssignment, FactoryReset
  <2> QED
    BY <1>0, <1>1, <2>1
<1>4. CASE SampleRefused \/ Synced \/ OperationFails \/ RecordSuccess \/ RecordError \/ RecordLost
           \/ Tick \/ SetBack \/ UNCHANGED vars
  <2>1. UNCHANGED <<reading, lastId, outbox>>
    BY <1>4 DEF SampleRefused, Synced, OperationFails, RecordSuccess, RecordError, RecordLost,
                Tick, SetBack, vars, history
  <2> QED
    BY <1>0, <1>1, <2>1
<1>5. CASE Query
  <2>1. UNCHANGED <<lastId, outbox>>
    BY <1>5 DEF Query
  <2>2. reading.answers \in [Queries -> Nat] /\ reading.step \in 0..3 /\ reading'.step = reading.step + 1
    BY <1>5, QueriesInOrder DEF TypeOK
  <2>3. CASE reading.step = 0
    BY <2>2, <2>3 DEF OldestSoFar
  <2>4. CASE reading.step = 1
    <3>1. reading'.answers["oldest"] = First(outbox)
      BY <1>5, <2>2, <2>4, QueriesInOrder DEF Queries
    <3>2. outbox # {} => First(outbox) \in outbox /\ \A i \in outbox : First(outbox) <= i
      BY EndsOfTheQueue
    <3>3. CASE outbox = {}
      <4>1. First(outbox) = None
        BY <3>3 DEF First
      <4> QED
        BY <2>2, <2>4, <3>1, <4>1 DEF OldestSoFar
    <3>4. CASE outbox # {}
      <4>1. First(outbox) <= lastId
        <5>1. First(outbox) \in 1..lastId
          BY <1>0, <3>2, <3>4, Zenon
        <5> QED
          BY <1>0, <5>1
      <4> QED
        BY <2>1, <2>2, <2>4, <3>1, <3>2, <3>4, <4>1 DEF OldestSoFar
    <3> QED
      BY <3>3, <3>4
  <2>5. CASE reading.step = 2
    <3>1. reading'.answers["newest"] = Newest(outbox) /\ reading'.answers["oldest"] = reading.answers["oldest"]
      BY <1>5, <2>2, <2>5, QueriesInOrder DEF Queries
    <3>2. outbox # {} => Newest(outbox) \in outbox
      BY EndsOfTheQueue
    <3>3. CASE outbox = {}
      <4>1. Newest(outbox) = None
        BY <3>3 DEF Newest
      <4> QED
        BY <2>1, <2>2, <2>5, <3>1, <4>1 DEF OldestSoFar
    <3>4. CASE outbox # {}
      BY <2>1, <2>2, <2>5, <3>1, <3>2, <3>4 DEF OldestSoFar
    <3> QED
      BY <3>3, <3>4
  <2>6. CASE reading.step = 3
    <3>1. reading'.answers["newest"] = reading.answers["newest"]
          /\ reading'.answers["oldest"] = reading.answers["oldest"]
      BY <1>5, <2>2, <2>6, QueriesInOrder DEF Queries
    <3> QED
      BY <1>0, <2>1, <2>2, <2>6, <3>1 DEF OldestSoFar
  <2> QED
    BY <2>2, <2>3, <2>4, <2>5, <2>6
<1>6. CASE Report
  BY <1>6 DEF Report, NoReading, OldestSoFar
<1> QED
  BY <1>2, <1>3, <1>4, <1>5, <1>6 DEF Next

(* The newest reading reported is not older than the oldest, though the queue   *)
(* may have been emptied and filled between the two queries.                    *)
THEOREM ReportIsOrdered == Spec => []OldestComesFirst
<1>1. Init => OldestSoFar
  BY DEF Init, OldestSoFar, NoReading
<1>2. OldestSoFar => OldestComesFirst
  BY DEF OldestSoFar, OldestComesFirst
<1> QED
  BY <1>1, <1>2, NextOldest, NextTypes, TypeCorrectness, PTL DEF Spec

(* Counters, timestamps and report together, as the runs check them.            *)
THEOREM ClockFollowed == Spec => []ClockIsFollowed
BY TimestampsFollow, RegressionsAreSteps, PTL DEF ClockIsFollowed

(* The report is complete and does not contradict itself.                       *)
THEOREM ReportSound == Spec => []ReportIsSound
BY ReportIsComplete, ReportIsOrdered, PTL DEF ReportIsSound

=============================================================================
