------------------------------- MODULE Reader -------------------------------
(***************************************************************************)
(* The Modbus reader of readers.py: which profiles its constructor takes,  *)
(* the identity checks remembered for one connection, check_ready and      *)
(* read with calls that can fail one by one, and the decoding of the       *)
(* registers into a sample.  The adapter can be pulled out and put on      *)
(* another inverter at any time; registers change between two calls.       *)
(***************************************************************************)
EXTENDS Integers, FiniteSets, Functions

CONSTANTS
    Fields,      \* telemetry fields read from registers
    Total,       \* a computed field
    NoField,     \* no readiness check
    Profiles,    \* profiles to construct a reader from
    Words,       \* 2^16 in the code: a register is in 0..Words - 1
    MaxAddress,  \* 65535 in the code
    MaxBlock,    \* MAX_BLOCK_REGISTERS
    Inverters,
    Matching,    \* inverters whose identity registers are as expected
    Contents     \* what the registers of an inverter may hold: <<function, address>> -> word

Spaces == {3, 4} \X (0..MaxAddress)

ASSUME RegistersAssumption == /\ Words \in Nat \ {0, 1} /\ Words % 2 = 0
                              /\ MaxAddress \in Nat /\ MaxBlock \in Nat
ASSUME InvertersAssumption == Matching \subseteq Inverters
ASSUME ContentsAssumption  == Contents \subseteq [Spaces -> 0..(Words - 1)]

(* What the constructor asks of a profile's types: known fields, none twice,   *)
(* known encodings, numbers for scale and offset.  Numbers are whole here.     *)
ASSUME FieldsAssumption == Total \notin Fields
ASSUME ProfilesAssumption ==
    \A q \in Profiles :
        /\ DOMAIN q.points \subseteq Fields /\ DOMAIN q.sums \subseteq {Total}
        /\ \A f \in DOMAIN q.points :
             /\ q.points[f].encoding \in {"u16", "s16", "u32", "s32"}
             /\ q.points[f].scale \in Int /\ q.points[f].offset \in Int

VARIABLES
    profile,
    pc,          \* "new", "refused", "idle", "identify", "calls"
    ready,       \* check_ready has passed
    open,        \* client.connected
    identified,  \* _identity_ready
    todo,        \* register calls left: <<function, first, count>>
    registers,   \* what the calls so far returned
    sample,      \* the last sample: field -> value
    inverter,    \* the inverter the adapter is on
    bus,         \* its registers now
    answered     \* history: inverters that answered calls of this sample

reader == <<pc, ready, identified, todo, registers, sample, answered>>
line   == <<open, inverter, bus>>
vars   == <<profile, reader, line>>

Empty == [x \in {} |-> 0]

-----------------------------------------------------------------------------
(* Profiles.  profile.points maps a field to its point, profile.sums a       *)
(* computed field to its terms; blocks are <<function, start, length>>.      *)

Wide(p)  == p.encoding \in {"u32", "s32"}
Count(p) == IF Wide(p) THEN 2 ELSE 1
Span(function, first, count) == {<<function, first + i>> : i \in 0..(count - 1)}
Needs(p) == Span(p.function, p.address, Count(p))

Points       == profile.points
Declared     == UNION {Needs(Points[f]) : f \in DOMAIN Points}
BlockSpan(b) == Span(b[1], b[2], b[3])
Covered      == UNION {BlockSpan(b) : b \in profile.blocks}

ValidPoints ==
    /\ DOMAIN Points # {}
    /\ \A f \in DOMAIN Points :
         LET p == Points[f]
         IN  /\ p.function \in {3, 4} /\ p.address \in 0..MaxAddress
             /\ Wide(p) => p.order \in {"low_high", "high_low"} /\ p.address # MaxAddress
             /\ p.scale # 0
             /\ \A v \in p.unavailable : v \in 0..((IF Wide(p) THEN Words * Words ELSE Words) - 1)

ValidSums == \A f \in DOMAIN profile.sums :
                profile.sums[f] # {} /\ profile.sums[f] \subseteq DOMAIN Points

(* Mutant: every point is covered, nothing is said of the rest of a block. *)
CoveringBlocks ==
    profile.blocks # {} =>
        /\ \A b \in profile.blocks : b[3] \in 1..MaxBlock /\ b[2] + b[3] - 1 <= MaxAddress
        /\ \A b, c \in profile.blocks : b # c => BlockSpan(b) \cap BlockSpan(c) = {}
        /\ Declared \subseteq Covered

(* Blocks neither overlap nor read a register no point declares.  No blocks  *)
(* stands for a profile without the key.                                     *)
ValidBlocks ==
    profile.blocks # {} =>
        /\ \A b \in profile.blocks : b[3] \in 1..MaxBlock /\ b[2] + b[3] - 1 <= MaxAddress
        /\ \A b, c \in profile.blocks : b # c => BlockSpan(b) \cap BlockSpan(c) = {}
        /\ Covered = Declared

ValidReadiness == profile.check \in DOMAIN Points \cup DOMAIN profile.sums \cup {NoField}

Valid == ValidPoints /\ ValidSums /\ ValidBlocks /\ ValidReadiness

-----------------------------------------------------------------------------
(* Decoding. *)

Raw(p, regs) ==
    LET At(i) == regs[<<p.function, p.address + i>>]
    IN  IF ~Wide(p) THEN At(0)
        ELSE IF p.order = "low_high" THEN At(1) * Words + At(0) ELSE At(0) * Words + At(1)

(* Mutant: the sign bit is tested with the wrong comparison. *)
SignedFrom(p, raw) ==
    CASE p.encoding = "s16" /\ raw > Words \div 2           -> raw - Words
      [] p.encoding = "s32" /\ raw > (Words * Words) \div 2 -> raw - Words * Words
      [] OTHER -> raw

Signed(p, raw) ==
    CASE p.encoding = "s16" /\ raw >= Words \div 2           -> raw - Words
      [] p.encoding = "s32" /\ raw >= (Words * Words) \div 2 -> raw - Words * Words
      [] OTHER -> raw

(* _decode_point: the sentinels are raw values, before sign, scale, offset. *)
Available(p, regs) == Raw(p, regs) \notin p.unavailable
Value(p, regs)     == Signed(p, Raw(p, regs)) * p.scale + p.offset

SumOf(values, terms) == SumFunctionOnSet(values, terms)

(* _decode: a sum only of terms that are all there. *)
Decode(fields, regs) ==
    LET there  == {f \in fields : Available(Points[f], regs)}
        values == [f \in there |-> Value(Points[f], regs)]
        sums   == {f \in DOMAIN profile.sums : profile.sums[f] \subseteq there}
    IN  [f \in there \cup sums |->
            IF f \in sums THEN SumOf(values, profile.sums[f]) ELSE values[f]]

-----------------------------------------------------------------------------
Init ==
    /\ profile \in Profiles /\ pc = "new" /\ ready = FALSE
    /\ open = FALSE /\ identified = FALSE /\ todo = {} /\ registers = Empty /\ sample = Empty
    /\ inverter \in Inverters /\ bus \in Contents /\ answered = {}

Construct ==
    /\ pc = "new"
    /\ pc' = IF Valid THEN "idle" ELSE "refused"
    /\ UNCHANGED <<profile, ready, identified, todo, registers, sample, answered, line>>

(* check_ready reads only the points its field needs, each by itself. *)
CheckFields == IF profile.check \in DOMAIN profile.sums THEN profile.sums[profile.check]
               ELSE {profile.check} \cap DOMAIN Points
PointCalls(fields) == {<<Points[f].function, Points[f].address, Count(Points[f])>> : f \in fields}
Calls == IF ~ready THEN PointCalls(CheckFields)
         ELSE IF profile.blocks # {} THEN profile.blocks ELSE PointCalls(DOMAIN Points)

(* Mutant: the identity is remembered for the life of the process. *)
ConnectOnce ==
    /\ pc = "idle"
    /\ open' = TRUE
    /\ pc' = IF identified THEN "calls" ELSE "identify"
    /\ todo' = Calls /\ registers' = Empty /\ sample' = Empty /\ answered' = {}
    /\ UNCHANGED <<profile, ready, identified, inverter, bus>>

(* _connect_and_identify: a new connection has to identify again. *)
Connect ==
    /\ pc = "idle"
    /\ open' = TRUE /\ identified' = (identified /\ open)
    /\ pc' = IF identified' THEN "calls" ELSE "identify"
    /\ todo' = Calls /\ registers' = Empty /\ sample' = Empty /\ answered' = {}
    /\ UNCHANGED <<profile, ready, inverter, bus>>

Identify ==
    /\ pc = "identify" /\ open /\ inverter \in Matching
    /\ identified' = TRUE /\ pc' = "calls"
    /\ UNCHANGED <<profile, ready, todo, registers, sample, answered, line>>

ReadCall(c) ==
    /\ pc = "calls" /\ open /\ c \in todo
    /\ LET answer == Span(c[1], c[2], c[3])
       IN  registers' = [r \in DOMAIN registers \cup answer |->
                            IF r \in answer THEN bus[r] ELSE registers[r]]
    /\ todo' = todo \ {c} /\ answered' = answered \cup {inverter}
    /\ UNCHANGED <<profile, pc, ready, identified, sample, line>>

(* No connection, another identity, an error or a malformed answer to a call:  *)
(* the connection is closed and the error passed on.                           *)
Fail ==
    /\ pc \in {"idle", "identify", "calls"}
    /\ pc' = "idle" /\ identified' = FALSE /\ open' = FALSE
    /\ todo' = {} /\ registers' = Empty /\ sample' = Empty /\ answered' = {}
    /\ UNCHANGED <<profile, ready, inverter, bus>>

Checked == Decode(CheckFields, registers)

FinishCheck ==
    /\ pc = "calls" /\ todo = {} /\ ~ready
    /\ profile.check # NoField => /\ profile.check \in DOMAIN Checked
                                  /\ Checked[profile.check] \in profile.allowed
    /\ ready' = TRUE /\ pc' = "idle"
    /\ UNCHANGED <<profile, identified, todo, registers, sample, answered, line>>

(* "incompatible_profile": the agent stops. *)
FailCheck ==
    /\ pc = "calls" /\ todo = {} /\ ~ready /\ profile.check # NoField
    /\ profile.check \in DOMAIN Checked => Checked[profile.check] \notin profile.allowed
    /\ pc' = "refused" /\ identified' = FALSE /\ open' = FALSE
    /\ UNCHANGED <<profile, ready, todo, registers, sample, answered, inverter, bus>>

FinishRead ==
    /\ pc = "calls" /\ todo = {} /\ ready
    /\ sample' = Decode(DOMAIN Points, registers) /\ pc' = "idle"
    /\ UNCHANGED <<profile, ready, identified, todo, registers, answered, line>>

(* The adapter is pulled out, perhaps to be put on another inverter. *)
Unplug ==
    /\ open' = FALSE /\ inverter' \in Inverters /\ pc \notin {"new", "refused"}
    /\ UNCHANGED <<profile, reader, bus>>

Measure ==
    /\ pc = "calls" /\ bus' \in Contents
    /\ UNCHANGED <<profile, reader, open, inverter>>

(* The agent has stopped: cli.py closes the reader. *)
Stopped == pc = "refused" /\ UNCHANGED vars

Next == \/ Construct \/ Connect \/ Identify \/ (\E c \in todo : ReadCall(c)) \/ Fail
        \/ FinishCheck \/ FailCheck \/ FinishRead \/ Unplug \/ Measure \/ Stopped

Spec == Init /\ [][Next]_vars

-----------------------------------------------------------------------------
(* What a raw value of a given width means, by two's complement. *)
TwosComplement(raw, modulus) ==
    CHOOSE v \in -(modulus \div 2)..(modulus \div 2 - 1) : (v - raw) % modulus = 0

(* The state of the reader is one its code can be in: only registers of the    *)
(* declared spaces are held, each a word, and only identified readers call.    *)
TypeOK ==
    /\ pc \in {"new", "refused", "idle", "identify", "calls"}
    /\ ready \in BOOLEAN /\ open \in BOOLEAN /\ identified \in BOOLEAN
    /\ \A r \in DOMAIN registers : registers[r] \in 0..(Words - 1)
    /\ DOMAIN sample \subseteq Fields \cup {Total}
    /\ answered \subseteq Inverters
    /\ pc = "calls" => identified

(* An accepted profile can be read and decoded without touching a register     *)
(* that no point declares, and without missing one that a point needs.         *)
ReadsExactlyDeclared ==
    /\ DOMAIN registers \subseteq Declared
    /\ pc = "calls" /\ ready /\ todo = {} => DOMAIN registers = Declared

(* No sample holds a value of an inverter other than the audited model, even   *)
(* if the adapter is moved between two reads or during one.                    *)
SampleFromMatching == sample # Empty => answered \subseteq Matching

(* Only identified inverters are read, and only their values are kept.         *)
OnlyTheAudited == TypeOK /\ SampleFromMatching

(* A sample says what the registers say: a field is missing exactly when its   *)
(* raw value is a declared sentinel or a term of its sum is missing, a value   *)
(* is the two's complement of its width, scaled and shifted.                   *)
SampleIsFaithful ==
    pc = "idle" /\ ready /\ sample # Empty =>
        /\ \A f \in DOMAIN Points :
             LET p == Points[f]
                 words == [i \in 0..(Count(p) - 1) |-> registers[<<p.function, p.address + i>>]]
                 high == IF p.order = "low_high" THEN 1 ELSE 0
                 raw == IF Wide(p) THEN words[high] * Words + words[1 - high] ELSE words[0]
                 width == IF Wide(p) THEN Words * Words ELSE Words
                 meant == IF p.encoding \in {"s16", "s32"} THEN TwosComplement(raw, width) ELSE raw
             IN  /\ f \in DOMAIN sample <=> raw \notin p.unavailable
                 /\ f \in DOMAIN sample => sample[f] = meant * p.scale + p.offset
        /\ \A s \in DOMAIN profile.sums :
             /\ s \in DOMAIN sample <=> profile.sums[s] \subseteq DOMAIN sample
             /\ s \in DOMAIN sample =>
                  \A f, g \in profile.sums[s] :
                     f # g /\ profile.sums[s] = {f, g} => sample[s] = sample[f] + sample[g]

=============================================================================
