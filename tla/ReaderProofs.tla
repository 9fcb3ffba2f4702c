---------------------------- MODULE ReaderProofs ----------------------------
(***************************************************************************)
(* What the reader promises, proved for every word size, address space,    *)
(* set of profiles, set of inverters and contents of their registers: an   *)
(* accepted profile is read register by register as it declares, only an   *)
(* identified inverter is read, and a sample means what the registers hold.*)
(***************************************************************************)
EXTENDS Reader, TLAPS

-----------------------------------------------------------------------------
(* The sign of a register is its two's complement. *)

(* The only multiples of M between -2 M and M are 0 and -M. *)
LEMMA MultiplesNear ==
    ASSUME NEW M \in Nat \ {0}, NEW x \in Int, x % M = 0, -(2 * M) < x, x < M
    PROVE  x = 0 \/ x = -M
<1> DEFINE k == x \div M
<1>1. k \in Int /\ x = M * k
  OBVIOUS
<1>2. k < 1
  <2> SUFFICES ASSUME k >= 1 PROVE FALSE
    BY <1>1
  <2>1. M * k >= M * 1
    BY <1>1
  <2> QED BY <1>1, <2>1
<1>3. k > -2
  <2> SUFFICES ASSUME k <= -2 PROVE FALSE
    BY <1>1
  <2>1. M * k <= M * (-2)
    BY <1>1
  <2> QED BY <1>1, <2>1
<1>4. k = 0 \/ k = -1
  BY <1>1, <1>2, <1>3
<1> QED BY <1>1, <1>4

LEMMA TwosComplementOf ==
    ASSUME NEW M \in Nat \ {0}, M % 2 = 0, NEW raw \in 0..(M - 1)
    PROVE  TwosComplement(raw, M) = IF raw >= M \div 2 THEN raw - M ELSE raw
<1> DEFINE half  == M \div 2
           range == -half..(half - 1)
           meant == IF raw >= half THEN raw - M ELSE raw
<1>1. half \in Nat /\ M = 2 * half
  OBVIOUS
<1>2. meant \in range
  BY <1>1
<1>3. (meant - raw) % M = 0
  <2>1. 0 % M = 0 /\ (-M) % M = 0
    OBVIOUS
  <2>2. meant - raw = 0 \/ meant - raw = -M
    BY <1>1
  <2> QED BY <2>1, <2>2
<1>4. \A v \in range : (v - raw) % M = 0 => v = meant
  <2> TAKE v \in range
  <2> HAVE (v - raw) % M = 0
  <2>1. v - raw \in Int /\ -(2 * M) < v - raw /\ v - raw < M
    BY <1>1
  <2>2. v - raw = 0 \/ v - raw = -M
    BY <2>1, MultiplesNear
  <2> QED BY <1>1, <2>2
<1> HIDE DEF meant
<1>5. TwosComplement(raw, M) = CHOOSE v \in range : (v - raw) % M = 0
  BY DEF TwosComplement
<1> HIDE DEF range
<1>6. (CHOOSE v \in range : (v - raw) % M = 0) = meant
  BY <1>2, <1>3, <1>4
<1> QED BY <1>5, <1>6 DEF meant

LEMMA SquareIsEven ==
    Words * Words \in Nat \ {0} /\ (Words * Words) % 2 = 0
<1>1. PICK h \in Nat : Words = 2 * h
  <2>1. Words = 2 * (Words \div 2) /\ Words \div 2 \in Nat
    BY RegistersAssumption
  <2> QED BY <2>1
<1>2. h # 0 /\ h * h \in Nat /\ h * h # 0
  BY <1>1, RegistersAssumption
<1>3. Words * Words = 2 * (2 * (h * h))
  BY <1>1
<1> QED BY <1>2, <1>3

(* A sum of two terms is their sum, in whatever order the fold takes them. *)
LEMMA SumOfPair ==
    ASSUME NEW v, NEW f, NEW g, f # g, v[f] \in Int, v[g] \in Int
    PROVE  SumOf(v, {f, g}) = v[f] + v[g]
<1> DEFINE pick(s) == CHOOSE x \in s : TRUE
           Sums(h) == [s \in SUBSET {f, g} |->
                          IF s = {} THEN 0 ELSE v[pick(s)] + h[s \ {pick(s)}]]
           sum == CHOOSE h : h = Sums(h)
           known == [s \in SUBSET {f, g} |->
                        IF s = {} THEN 0 ELSE IF s = {f} THEN v[f]
                        ELSE IF s = {g} THEN v[g] ELSE v[f] + v[g]]
<1>1. SumOf(v, {f, g}) = sum[{f, g}]
  BY DEF SumOf, SumFunctionOnSet, FoldFunctionOnSet, MapThenFoldSet
<1>2. \A s : s # {} => pick(s) \in s
  OBVIOUS
<1>3. \A s \in SUBSET {f, g} : s \in {{}, {f}, {g}, {f, g}}
  OBVIOUS
<1> HIDE DEF pick
<1>4. pick({f}) = f /\ pick({g}) = g /\ pick({f, g}) \in {f, g}
  <2>1. {f} # {} /\ {g} # {} /\ {f, g} # {}
    OBVIOUS
  <2>2. pick({f}) \in {f} /\ pick({g}) \in {g} /\ pick({f, g}) \in {f, g}
    BY <1>2, <2>1
  <2> QED BY <2>2
<1>5. known = Sums(known)
  <2>1. /\ known[{}] = 0 /\ known[{f}] = v[f] /\ known[{g}] = v[g]
        /\ known[{f, g}] = v[f] + v[g]
    <3>1. {f} # {} /\ {g} # {} /\ {f} # {g} /\ {f, g} \notin {{}, {f}, {g}}
      OBVIOUS
    <3> QED BY <3>1
  <2>2. /\ {f} \ {pick({f})} = {} /\ {g} \ {pick({g})} = {}
        /\ {f, g} \ {f} = {g} /\ {f, g} \ {g} = {f}
    BY <1>4
  <2>3. /\ Sums(known)[{}] = 0
        /\ \A s \in {{f}, {g}, {f, g}} : Sums(known)[s] = v[pick(s)] + known[s \ {pick(s)}]
    <3> HIDE DEF known
    <3> QED OBVIOUS
  <2>4. \A s \in {{}, {f}, {g}, {f, g}} : known[s] = Sums(known)[s]
    <3> HIDE DEF known, Sums
    <3>1. known[{f}] = Sums(known)[{f}]
      <4>1. Sums(known)[{f}] = v[f] + known[{}]
        BY <2>2, <2>3, <1>4
      <4>2. v[f] + 0 = v[f]
        OBVIOUS
      <4> QED BY <4>1, <4>2, <2>1
    <3>2. known[{g}] = Sums(known)[{g}]
      <4>1. Sums(known)[{g}] = v[g] + known[{}]
        BY <2>2, <2>3, <1>4
      <4>2. v[g] + 0 = v[g]
        OBVIOUS
      <4> QED BY <4>1, <4>2, <2>1
    <3>3. known[{f, g}] = Sums(known)[{f, g}]
      <4>1. Sums(known)[{f, g}] = v[pick({f, g})] + known[{f, g} \ {pick({f, g})}]
        BY <2>3
      <4>2. CASE pick({f, g}) = f
        BY <4>1, <4>2, <2>1, <2>2
      <4>3. CASE pick({f, g}) = g
        <5>1. v[g] + v[f] = v[f] + v[g]
          OBVIOUS
        <5> QED BY <4>1, <4>3, <5>1, <2>1, <2>2
      <4> QED BY <1>4, <4>2, <4>3
    <3> QED BY <2>1, <2>3, <3>1, <3>2, <3>3
  <2>5. \A s \in SUBSET {f, g} : known[s] = Sums(known)[s]
    <3> HIDE DEF known, Sums
    <3> QED BY <1>3, <2>4
  <2>6. known = [s \in SUBSET {f, g} |-> known[s]]
    OBVIOUS
  <2>7. Sums(known) = [s \in SUBSET {f, g} |-> Sums(known)[s]]
    <3> HIDE DEF known
    <3> QED OBVIOUS
  <2> HIDE DEF known, Sums
  <2> QED BY <2>5, <2>6, <2>7
<1>6. sum = Sums(sum)
  <2> HIDE DEF Sums, known
  <2> QED BY <1>5
<1> HIDE DEF sum, known
<1>7. sum[{}] = 0 /\ sum[{f}] = v[f] + sum[{}] /\ sum[{g}] = v[g] + sum[{}]
  <2>1. {f} \ {pick({f})} = {} /\ {g} \ {pick({g})} = {}
    BY <1>4
  <2>2. Sums(sum)[{}] = 0
    OBVIOUS
  <2>3. Sums(sum)[{f}] = v[f] + sum[{}]
    BY <1>4, <2>1
  <2>4. Sums(sum)[{g}] = v[g] + sum[{}]
    BY <1>4, <2>1
  <2> QED BY <1>6, <2>2, <2>3, <2>4
<1>8. sum[{f, g}] = v[pick({f, g})] + sum[{f, g} \ {pick({f, g})}]
  <2>1. Sums(sum)[{f, g}] = v[pick({f, g})] + sum[{f, g} \ {pick({f, g})}]
    OBVIOUS
  <2> QED BY <1>6, <2>1
<1>9. {f, g} \ {f} = {g} /\ {f, g} \ {g} = {f}
  OBVIOUS
<1> HIDE DEF Sums
<1>10. sum[{f, g}] = v[f] + v[g]
  <2>1. sum[{f}] = v[f] /\ sum[{g}] = v[g]
    BY <1>7
  <2>2. CASE pick({f, g}) = f
    BY <1>8, <1>9, <2>1, <2>2
  <2>3. CASE pick({f, g}) = g
    <3>1. v[g] + v[f] = v[f] + v[g]
      OBVIOUS
    <3> QED BY <1>8, <1>9, <2>1, <2>3, <3>1
  <2> QED BY <1>4, <2>2, <2>3
<1> QED BY <1>1, <1>10

-----------------------------------------------------------------------------
(* The inductive invariant. *)

Types ==
    /\ profile \in Profiles
    /\ pc \in {"new", "refused", "idle", "identify", "calls"}
    /\ ready \in BOOLEAN /\ open \in BOOLEAN /\ identified \in BOOLEAN
    /\ inverter \in Inverters /\ bus \in Contents /\ answered \subseteq Inverters
    /\ \A r \in DOMAIN registers : registers[r] \in 0..(Words - 1)

Accepted == pc \in {"idle", "identify", "calls"} => Valid

(* An identity that is remembered while the line is open is of the inverter    *)
(* the line leads to, so every answer is a matching inverter's.                *)
Identity ==
    /\ open /\ identified => inverter \in Matching
    /\ pc = "calls" => identified
    /\ answered \subseteq Matching

(* What is read and still to be read is declared, and in a reading the two     *)
(* leave out nothing that is declared.                                         *)
Reach(calls) == UNION {BlockSpan(c) : c \in calls}
Asked == Reach(todo)
Coverage ==
    /\ Asked \subseteq Declared /\ DOMAIN registers \subseteq Declared
    /\ ready /\ pc \in {"identify", "calls"} => Declared \subseteq DOMAIN registers \cup Asked

(* A sample is the decoding of a complete reading, until the next one starts.  *)
Outcome ==
    sample # Empty => /\ ready /\ pc = "idle" /\ DOMAIN registers = Declared
                      /\ sample = Decode(DOMAIN Points, registers)

Inv == Types /\ Accepted /\ Identity /\ Coverage /\ Outcome

-----------------------------------------------------------------------------
(* What the constructor's checks give. *)

LEMMA SameProfile ==
    ASSUME profile' = profile
    PROVE  /\ Declared' = Declared /\ Valid' = Valid /\ Points' = Points
           /\ Decode(DOMAIN Points, registers)' = Decode(DOMAIN Points, registers')
<1>1. Points' = Points
  BY DEF Points
<1>2. Declared' = Declared
  BY <1>1 DEF Declared, Needs
<1>3. Valid' = Valid
  BY <1>1, <1>2 DEF Valid, ValidPoints, ValidSums, ValidBlocks, ValidReadiness, Covered
<1>4. Decode(DOMAIN Points, registers)' = Decode(DOMAIN Points, registers')
  BY <1>1 DEF Decode
<1> QED BY <1>1, <1>2, <1>3, <1>4

LEMMA DeclaredAreSpaces ==
    ASSUME profile \in Profiles, Valid
    PROVE  Declared \subseteq Spaces
<1> SUFFICES ASSUME NEW f \in DOMAIN Points, NEW r \in Needs(Points[f])
             PROVE  r \in Spaces
  BY DEF Declared
<1> DEFINE p == Points[f]
<1>1. /\ p.function \in {3, 4} /\ p.address \in 0..MaxAddress
      /\ Wide(p) => p.address # MaxAddress
  BY DEF Valid, ValidPoints
<1>2. PICK i \in 0..(Count(p) - 1) : r = <<p.function, p.address + i>>
  BY DEF Needs, Span
<1>3. p.address + i \in 0..MaxAddress
  BY <1>1, <1>2, RegistersAssumption DEF Count
<1> QED BY <1>1, <1>2, <1>3 DEF Spaces

LEMMA PointCallsReach ==
    ASSUME NEW fields
    PROVE  Reach(PointCalls(fields)) = UNION {Needs(Points[f]) : f \in fields}
<1>1. \A f : BlockSpan(<<Points[f].function, Points[f].address, Count(Points[f])>>)
                 = Needs(Points[f])
  BY DEF BlockSpan, Needs
<1> QED BY <1>1 DEF Reach, PointCalls

LEMMA CallsReach ==
    ASSUME Valid
    PROVE  Reach(Calls) \subseteq Declared /\ (ready => Reach(Calls) = Declared)
<1>1. CASE ~ready
  <2>1. CheckFields \subseteq DOMAIN Points
    BY DEF Valid, ValidSums, CheckFields
  <2>2. Reach(PointCalls(CheckFields)) \subseteq Declared
    BY <2>1, PointCallsReach DEF Declared
  <2> QED BY <1>1, <2>2 DEF Calls
<1>2. CASE ready /\ profile.blocks # {}
  <2>1. Covered = Declared
    BY <1>2 DEF Valid, ValidBlocks
  <2> QED BY <1>2, <2>1 DEF Calls, Reach, Covered
<1>3. CASE ready /\ profile.blocks = {}
  BY <1>3, PointCallsReach DEF Calls, Declared
<1> QED BY <1>1, <1>2, <1>3

-----------------------------------------------------------------------------
(* What the decoding of a complete reading says. *)

LEMMA DecodedFields ==
    ASSUME profile \in Profiles, NEW regs
    PROVE  LET there  == {f \in DOMAIN Points : Available(Points[f], regs)}
               values == [f \in there |-> Value(Points[f], regs)]
               D      == Decode(DOMAIN Points, regs)
           IN  /\ DOMAIN D \subseteq Fields \cup {Total}
               /\ \A f \in DOMAIN Points : f \in DOMAIN D <=> f \in there
               /\ \A f \in there : D[f] = Value(Points[f], regs)
               /\ \A s \in DOMAIN profile.sums :
                     /\ s \in DOMAIN D <=> profile.sums[s] \subseteq there
                     /\ s \in DOMAIN D => D[s] = SumOf(values, profile.sums[s])
<1> DEFINE there  == {f \in DOMAIN Points : Available(Points[f], regs)}
           values == [f \in there |-> Value(Points[f], regs)]
           D      == Decode(DOMAIN Points, regs)
           sums   == {f \in DOMAIN profile.sums : profile.sums[f] \subseteq there}
<1>1. /\ DOMAIN Points \subseteq Fields /\ DOMAIN profile.sums \subseteq {Total}
  BY ProfilesAssumption DEF Points
<1>2. D = [f \in there \cup sums |->
              IF f \in sums THEN SumOf(values, profile.sums[f]) ELSE values[f]]
  BY DEF Decode
<1>3. \A f \in DOMAIN Points : f \notin DOMAIN profile.sums
  BY <1>1, FieldsAssumption
<1>4. \A f \in there : values[f] = Value(Points[f], regs)
  OBVIOUS
<1> HIDE DEF values, D
<1>5. DOMAIN D = there \cup sums
  BY <1>2
<1>6. \A f \in there : D[f] = values[f]
  BY <1>2, <1>3
<1>7. \A s \in sums : D[s] = SumOf(values, profile.sums[s])
  BY <1>2
<1> QED BY <1>1, <1>3, <1>4, <1>5, <1>6, <1>7 DEF D, values

(* A point's raw value is the number its words write, in the declared order,   *)
(* and its sign is read by two's complement.                                   *)
LEMMA PointMeans ==
    ASSUME profile \in Profiles, Valid, NEW f \in DOMAIN Points, NEW regs,
           Declared \subseteq DOMAIN regs, \A r \in DOMAIN regs : regs[r] \in 0..(Words - 1)
    PROVE  LET p == Points[f]
               words == [i \in 0..(Count(p) - 1) |-> regs[<<p.function, p.address + i>>]]
               high == IF p.order = "low_high" THEN 1 ELSE 0
               raw == IF Wide(p) THEN words[high] * Words + words[1 - high] ELSE words[0]
               width == IF Wide(p) THEN Words * Words ELSE Words
               meant == IF p.encoding \in {"s16", "s32"} THEN TwosComplement(raw, width)
                        ELSE raw
           IN  /\ raw = Raw(p, regs) /\ meant = Signed(p, Raw(p, regs))
               /\ Value(p, regs) = meant * p.scale + p.offset
               /\ Value(p, regs) \in Int
<1> DEFINE p == Points[f]
           words == [i \in 0..(Count(p) - 1) |-> regs[<<p.function, p.address + i>>]]
           high == IF p.order = "low_high" THEN 1 ELSE 0
           raw == IF Wide(p) THEN words[high] * Words + words[1 - high] ELSE words[0]
           width == IF Wide(p) THEN Words * Words ELSE Words
           meant == IF p.encoding \in {"s16", "s32"} THEN TwosComplement(raw, width) ELSE raw
<1>1. /\ p.encoding \in {"u16", "s16", "u32", "s32"} /\ p.scale \in Int /\ p.offset \in Int
  BY ProfilesAssumption DEF Points
<1>2. /\ p.address \in 0..MaxAddress
  BY DEF Valid, ValidPoints
<1>3. \A i \in 0..(Count(p) - 1) : regs[<<p.function, p.address + i>>] \in 0..(Words - 1)
  <2>1. \A i \in 0..(Count(p) - 1) : <<p.function, p.address + i>> \in Declared
    BY DEF Declared, Needs, Span
  <2> QED BY <2>1
<1>4. raw = Raw(p, regs) /\ raw \in 0..(width - 1)
  <2>1. CASE Wide(p)
    <3>1. Count(p) = 2
      BY <2>1 DEF Count
    <3>2. p.address + 0 = p.address
      BY <1>2
    <3>3. words[0] \in 0..(Words - 1) /\ words[1] \in 0..(Words - 1)
      BY <1>3, <3>1
    <3>4. \A a, b \in 0..(Words - 1) : a * Words + b \in 0..(Words * Words - 1)
      <4> TAKE a, b \in 0..(Words - 1)
      <4>1. a * Words <= (Words - 1) * Words
        BY RegistersAssumption
      <4>2. a * Words >= 0
        BY RegistersAssumption
      <4>3. (Words - 1) * Words = Words * Words - Words
        BY RegistersAssumption
      <4> QED BY <4>1, <4>2, <4>3, RegistersAssumption
    <3>5. raw = Raw(p, regs)
      BY <2>1, <3>1, <3>2 DEF Raw
    <3>6. raw = words[1] * Words + words[0] \/ raw = words[0] * Words + words[1]
      BY <2>1
    <3> QED BY <2>1, <3>3, <3>4, <3>5, <3>6
  <2>2. CASE ~Wide(p)
    <3>1. Count(p) = 1
      BY <2>2 DEF Count
    <3>2. words[0] = regs[<<p.function, p.address + 0>>]
      BY <3>1
    <3> QED BY <2>2, <3>1, <3>2, <1>3 DEF Raw
  <2> QED BY <2>1, <2>2
<1>5. width \in Nat \ {0} /\ width % 2 = 0
  BY RegistersAssumption, SquareIsEven
<1> HIDE DEF raw, width
<1>6. TwosComplement(raw, width) = IF raw >= width \div 2 THEN raw - width ELSE raw
  BY <1>4, <1>5, TwosComplementOf
<1>7. meant = Signed(p, raw)
  BY <1>1, <1>6 DEF Signed, Wide, width
<1>8. meant \in Int
  BY <1>4, <1>5, <1>6
<1> HIDE DEF meant
<1>9. Value(p, regs) = meant * p.scale + p.offset
  BY <1>4, <1>7 DEF Value
<1>10. Value(p, regs) \in Int
  BY <1>1, <1>8, <1>9
<1>11. meant = Signed(p, Raw(p, regs))
  BY <1>4, <1>7
<1> QED BY <1>4, <1>9, <1>10, <1>11 DEF raw, width, meant

-----------------------------------------------------------------------------
(* One lemma per action.  The profile never changes, so what the constructor   *)
(* found holds on; a step that leaves a part's variables alone keeps the part. *)

LEMMA InitInv == Init => Inv
<1> SUFFICES ASSUME Init PROVE Inv
  OBVIOUS
<1>1. Types
  BY DEF Init, Types, Empty
<1>2. Asked = {} /\ DOMAIN registers = {}
  BY DEF Init, Asked, Reach, Empty
<1>3. Coverage
  BY <1>2 DEF Init, Coverage
<1> QED BY <1>1, <1>3 DEF Init, Inv, Accepted, Identity, Outcome

(* A reading that does not touch the calls, their answers or the profile keeps *)
(* what they cover, if it stays in its phase or leaves it.                     *)
LEMMA SameCoverage ==
    ASSUME Coverage, UNCHANGED <<profile, ready, todo, registers>>,
           pc' = pc \/ pc' \notin {"identify", "calls"} \/ pc \in {"identify", "calls"}
    PROVE  Coverage'
<1>1. Declared' = Declared /\ Asked' = Asked
  BY SameProfile DEF Asked
<1> QED BY <1>1 DEF Coverage

LEMMA SameOutcome ==
    ASSUME Outcome, UNCHANGED <<profile, ready, registers, sample, pc>>
    PROVE  Outcome'
<1>1. /\ Declared' = Declared
      /\ Decode(DOMAIN Points, registers)' = Decode(DOMAIN Points, registers')
  BY SameProfile
<1> QED BY <1>1 DEF Outcome

LEMMA ConstructInv == Inv /\ Construct => Inv'
<1> SUFFICES ASSUME Inv, Construct PROVE Inv'
  OBVIOUS
<1> USE DEF Construct, reader, line
<1>1. Types' /\ Identity'
  BY DEF Inv, Types, Identity
<1>2. Accepted'
  BY SameProfile DEF Accepted
<1>3. Coverage'
  BY SameCoverage DEF Inv
<1>4. Outcome'
  BY DEF Inv, Outcome
<1> QED BY <1>1, <1>2, <1>3, <1>4 DEF Inv

LEMMA ConnectInv == Inv /\ Connect => Inv'
<1> SUFFICES ASSUME Inv, Connect PROVE Inv'
  OBVIOUS
<1> USE DEF Connect
<1>1. Types' /\ Identity'
  BY DEF Inv, Types, Identity, Empty
<1>2. Valid /\ Accepted'
  BY SameProfile DEF Inv, Accepted
<1>3. Coverage'
  <2>1. Declared' = Declared
    BY SameProfile
  <2>2. Asked' = Reach(Calls)
    BY DEF Asked, Reach
  <2>3. DOMAIN registers' = {}
    BY DEF Empty
  <2> QED BY <1>2, <2>1, <2>2, <2>3, CallsReach DEF Coverage
<1>4. Outcome'
  BY DEF Outcome, Empty
<1> QED BY <1>1, <1>2, <1>3, <1>4 DEF Inv

LEMMA IdentifyInv == Inv /\ Identify => Inv'
<1> SUFFICES ASSUME Inv, Identify PROVE Inv'
  OBVIOUS
<1> USE DEF Identify, line
<1>1. Types' /\ Identity'
  BY DEF Inv, Types, Identity
<1>2. Accepted'
  BY SameProfile DEF Inv, Accepted
<1>3. Coverage'
  BY SameCoverage DEF Inv
<1>4. Outcome'
  BY DEF Inv, Outcome
<1> QED BY <1>1, <1>2, <1>3, <1>4 DEF Inv

(* The answer comes from the inverter that was identified, and moves the       *)
(* registers of the call from those still to be read to those that were.       *)
LEMMA ReadCallInv == ASSUME NEW c \in todo PROVE Inv /\ ReadCall(c) => Inv'
<1> SUFFICES ASSUME Inv, ReadCall(c) PROVE Inv'
  OBVIOUS
<1> DEFINE answer == BlockSpan(c)
<1>1. /\ pc = "calls" /\ open /\ c \in todo
      /\ registers' = [r \in DOMAIN registers \cup answer |->
                          IF r \in answer THEN bus[r] ELSE registers[r]]
      /\ todo' = todo \ {c} /\ answered' = answered \cup {inverter}
      /\ UNCHANGED <<profile, pc, ready, identified, sample, line>>
  BY DEF ReadCall, BlockSpan
<1>2. Valid /\ profile \in Profiles /\ Declared' = Declared
  BY <1>1, SameProfile DEF Inv, Types, Accepted
<1>3. answer \subseteq Declared
  BY <1>1 DEF Inv, Coverage, Asked, Reach
<1>4. DOMAIN registers' = DOMAIN registers \cup answer
  BY <1>1
<1>5. Types'
  <2>1. bus \in [Spaces -> 0..(Words - 1)]
    BY ContentsAssumption DEF Inv, Types
  <2>2. answer \subseteq Spaces
    BY <1>2, <1>3, DeclaredAreSpaces
  <2>3. \A r \in DOMAIN registers' : registers'[r] \in 0..(Words - 1)
    <3> SUFFICES ASSUME NEW r \in DOMAIN registers' PROVE registers'[r] \in 0..(Words - 1)
      OBVIOUS
    <3>1. CASE r \in answer
      <4>1. registers'[r] = bus[r]
        BY <1>1, <1>4, <3>1
      <4> QED BY <2>1, <2>2, <3>1, <4>1
    <3>2. CASE r \notin answer
      <4>1. r \in DOMAIN registers /\ registers'[r] = registers[r]
        BY <1>1, <1>4, <3>2
      <4> QED BY <4>1 DEF Inv, Types
    <3> QED BY <3>1, <3>2
  <2> QED BY <1>1, <2>3 DEF Inv, Types, line
<1>6. Identity'
  BY <1>1 DEF Inv, Identity, line
<1>7. Accepted'
  BY <1>1, SameProfile DEF Inv, Accepted
<1>8. Coverage'
  <2>1. Asked \subseteq Asked' \cup answer /\ Asked' \subseteq Asked
    BY <1>1 DEF Asked, Reach
  <2> QED BY <1>1, <1>2, <1>3, <1>4, <2>1 DEF Inv, Coverage
<1>9. Outcome'
  BY <1>1 DEF Inv, Outcome
<1> QED BY <1>5, <1>6, <1>7, <1>8, <1>9 DEF Inv

LEMMA FailInv == Inv /\ Fail => Inv'
<1> SUFFICES ASSUME Inv, Fail PROVE Inv'
  OBVIOUS
<1> USE DEF Fail
<1>1. Types' /\ Identity'
  BY DEF Inv, Types, Identity, Empty
<1>2. Accepted'
  BY SameProfile DEF Inv, Accepted
<1>3. Asked' = {} /\ DOMAIN registers' = {}
  BY DEF Asked, Reach, Empty
<1>4. Coverage'
  BY <1>3 DEF Coverage
<1>5. Outcome'
  BY DEF Outcome, Empty
<1> QED BY <1>1, <1>2, <1>4, <1>5 DEF Inv

LEMMA FinishCheckInv == Inv /\ FinishCheck => Inv'
<1> SUFFICES ASSUME Inv, FinishCheck PROVE Inv'
  OBVIOUS
<1> USE DEF FinishCheck, line
<1>1. Types' /\ Identity'
  BY DEF Inv, Types, Identity
<1>2. Accepted'
  BY SameProfile DEF Inv, Accepted
<1>3. Declared' = Declared /\ Asked' = Asked
  BY SameProfile DEF Asked
<1>4. Coverage'
  BY <1>3 DEF Inv, Coverage
<1>5. Outcome'
  BY DEF Inv, Outcome
<1> QED BY <1>1, <1>2, <1>4, <1>5 DEF Inv

LEMMA FailCheckInv == Inv /\ FailCheck => Inv'
<1> SUFFICES ASSUME Inv, FailCheck PROVE Inv'
  OBVIOUS
<1> USE DEF FailCheck
<1>1. Types' /\ Identity'
  BY DEF Inv, Types, Identity
<1>2. Accepted'
  BY DEF Accepted
<1>3. Coverage'
  BY SameCoverage DEF Inv
<1>4. Outcome'
  BY DEF Inv, Outcome
<1> QED BY <1>1, <1>2, <1>3, <1>4 DEF Inv

(* Nothing is left to be asked, so what was read is all that is declared.      *)
LEMMA FinishReadInv == Inv /\ FinishRead => Inv'
<1> SUFFICES ASSUME Inv, FinishRead PROVE Inv'
  OBVIOUS
<1> USE DEF FinishRead, line
<1>1. Types' /\ Identity'
  BY DEF Inv, Types, Identity
<1>2. Accepted'
  BY SameProfile DEF Inv, Accepted
<1>3. Coverage'
  BY SameCoverage DEF Inv
<1>4. DOMAIN registers = Declared
  <2>1. Asked = {}
    BY DEF Asked, Reach
  <2> QED BY <2>1 DEF Inv, Coverage
<1>5. /\ Declared' = Declared
      /\ Decode(DOMAIN Points, registers)' = Decode(DOMAIN Points, registers)
  BY SameProfile
<1>6. Outcome'
  BY <1>4, <1>5 DEF Outcome
<1> QED BY <1>1, <1>2, <1>3, <1>6 DEF Inv

(* Pulling the adapter out closes the line, so the remembered identity counts  *)
(* for nothing until the next connection drops it.                             *)
LEMMA LineInv == Inv /\ (Unplug \/ Measure \/ UNCHANGED vars) => Inv'
<1> SUFFICES ASSUME Inv, Unplug \/ Measure \/ UNCHANGED vars PROVE Inv'
  OBVIOUS
<1>1. UNCHANGED <<profile, reader>>
  BY DEF Unplug, Measure, vars
<1>2. Types' /\ Identity'
  <2>1. CASE Unplug
    BY <2>1 DEF Inv, Types, Identity, Unplug, reader
  <2>2. CASE Measure
    BY <2>2 DEF Inv, Types, Identity, Measure, reader
  <2>3. CASE UNCHANGED vars
    BY <2>3 DEF Inv, Types, Identity, vars, reader, line
  <2> QED BY <2>1, <2>2, <2>3
<1>3. Accepted'
  BY <1>1, SameProfile DEF Inv, Accepted, reader
<1>4. Coverage'
  BY <1>1, SameCoverage DEF Inv, reader
<1>5. Outcome'
  BY <1>1, SameOutcome DEF Inv, reader
<1> QED BY <1>2, <1>3, <1>4, <1>5 DEF Inv

-----------------------------------------------------------------------------
(* The invariant holds of every reader, whatever profiles, inverters and       *)
(* register contents there are and whenever calls fail or the adapter moves.   *)
THEOREM Invariance == Spec => []Inv
<1>1. Init => Inv
  BY InitInv
<1>2. Inv /\ [Next]_vars => Inv'
  BY ConstructInv, ConnectInv, IdentifyInv, ReadCallInv, FailInv, FinishCheckInv, FailCheckInv,
     FinishReadInv, LineInv DEF Next, Stopped
<1> QED BY <1>1, <1>2, PTL DEF Spec

(* ModbusReader.read asks for exactly the registers the profile's points       *)
(* declare, whether by blocks or point by point, and no call touches others.   *)
THEOREM ReadsTheProfile == Spec => []ReadsExactlyDeclared
<1>1. Inv => ReadsExactlyDeclared
  <2> SUFFICES ASSUME Inv PROVE ReadsExactlyDeclared
    OBVIOUS
  <2>1. todo = {} => Asked = {}
    BY DEF Asked, Reach
  <2> QED BY <2>1 DEF Inv, Coverage, ReadsExactlyDeclared
<1> QED BY <1>1, Invariance, PTL

(* Every call goes to an inverter whose identity registers are as expected,    *)
(* so no sample holds another one's values, even when the adapter is moved     *)
(* between two calls; and the registers kept are words.                        *)
THEOREM AuditedOnly == Spec => []OnlyTheAudited
<1>1. Inv => OnlyTheAudited
  <2> SUFFICES ASSUME Inv PROVE OnlyTheAudited
    OBVIOUS
  <2>1. DOMAIN sample \subseteq Fields \cup {Total}
    <3>1. CASE sample = Empty
      BY <3>1 DEF Empty
    <3>2. CASE sample # Empty
      BY <3>2, DecodedFields DEF Inv, Types, Outcome
    <3> QED BY <3>1, <3>2
  <2> QED BY <2>1 DEF Inv, Types, Identity, OnlyTheAudited, TypeOK, SampleFromMatching
<1> QED BY <1>1, Invariance, PTL

(* A sample says what the registers say: _decode leaves a field out exactly    *)
(* when its raw value is a sentinel, reads signs by two's complement, and adds *)
(* the two terms of a sum when both are there.                                 *)
THEOREM SamplesAreFaithful == Spec => []SampleIsFaithful
<1>1. Inv => SampleIsFaithful
  <2> SUFFICES ASSUME Inv, pc = "idle", ready, sample # Empty PROVE SampleIsFaithful
    BY DEF SampleIsFaithful
  <2> DEFINE there  == {f \in DOMAIN Points : Available(Points[f], registers)}
             values == [f \in there |-> Value(Points[f], registers)]
  <2>1. /\ sample = Decode(DOMAIN Points, registers) /\ DOMAIN registers = Declared
        /\ profile \in Profiles /\ Valid
        /\ \A r \in DOMAIN registers : registers[r] \in 0..(Words - 1)
    BY DEF Inv, Outcome, Types, Accepted
  <2>2. /\ \A f \in DOMAIN Points : f \in DOMAIN sample <=> f \in there
        /\ \A f \in there : sample[f] = Value(Points[f], registers)
        /\ \A s \in DOMAIN profile.sums :
              /\ s \in DOMAIN sample <=> profile.sums[s] \subseteq there
              /\ s \in DOMAIN sample => sample[s] = SumOf(values, profile.sums[s])
    BY <2>1, DecodedFields
  <2>3. ASSUME NEW f \in DOMAIN Points
        PROVE  LET p == Points[f]
                   words == [i \in 0..(Count(p) - 1) |->
                                registers[<<p.function, p.address + i>>]]
                   high == IF p.order = "low_high" THEN 1 ELSE 0
                   raw == IF Wide(p) THEN words[high] * Words + words[1 - high] ELSE words[0]
                   width == IF Wide(p) THEN Words * Words ELSE Words
                   meant == IF p.encoding \in {"s16", "s32"} THEN TwosComplement(raw, width)
                            ELSE raw
               IN  /\ f \in DOMAIN sample <=> raw \notin p.unavailable
                   /\ f \in DOMAIN sample => sample[f] = meant * p.scale + p.offset
    BY <2>1, <2>2, PointMeans DEF Available
  <2>4. ASSUME NEW s \in DOMAIN profile.sums
        PROVE  /\ s \in DOMAIN sample <=> profile.sums[s] \subseteq DOMAIN sample
               /\ s \in DOMAIN sample =>
                    \A f, g \in profile.sums[s] :
                       f # g /\ profile.sums[s] = {f, g} => sample[s] = sample[f] + sample[g]
    <3>1. profile.sums[s] \subseteq DOMAIN Points
      BY <2>1 DEF Valid, ValidSums
    <3>2. s \in DOMAIN sample <=> profile.sums[s] \subseteq DOMAIN sample
      BY <2>2, <3>1
    <3>3. ASSUME s \in DOMAIN sample, NEW f, NEW g, f # g, profile.sums[s] = {f, g}
          PROVE  sample[s] = sample[f] + sample[g]
      <4>1. f \in there /\ g \in there
        BY <2>2, <3>3
      <4>2. values[f] = sample[f] /\ values[g] = sample[g]
        BY <2>2, <4>1
      <4>3. values[f] \in Int /\ values[g] \in Int
        BY <2>1, <4>1, PointMeans
      <4> HIDE DEF values
      <4>4. SumOf(values, {f, g}) = values[f] + values[g]
        BY <3>3, <4>3, SumOfPair
      <4> QED BY <2>2, <3>3, <4>2, <4>4
    <3> QED BY <3>2, <3>3
  <2> QED BY <2>3, <2>4 DEF SampleIsFaithful
<1> QED BY <1>1, Invariance, PTL

=============================================================================
