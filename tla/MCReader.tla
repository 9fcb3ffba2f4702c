------------------------------ MODULE MCReader ------------------------------
(* Two families of profiles: values (encodings, word orders, sentinels,      *)
(* scales, a sum, on words of two bits), and blocks (functions, addresses,   *)
(* block divisions, readiness checks).                                       *)
EXTENDS Reader

Point(functions, addresses, encodings, sentinels, scales) ==
    [function : functions, address : addresses, encoding : encodings,
     order : {"low_high", "high_low"}, unavailable : sentinels,
     scale : {s[1] : s \in scales}, offset : {s[2] : s \in scales}]

First == CHOOSE f \in Fields : TRUE

ValuePoints ==
    {p \in Point({3}, {0, 1}, {"u16", "s16", "u32", "s32"}, {{}, {Words - 1}}, {<<1, 0>>, <<-2, 1>>}) :
        /\ (p.scale = 1) <=> (p.offset = 0)
        /\ p.encoding \in {"u16", "s16"} => p.order = "low_high"
        /\ p.encoding \in {"u32", "s32"} => p.address = 0}

(* The other term of the sum is one word. *)
OtherPoints == {p \in ValuePoints : p.encoding = "s16" /\ p.address = 1}

ValueProfiles ==
    [points : {ps \in [Fields -> ValuePoints] : \A f \in Fields \ {First} : ps[f] \in OtherPoints},
     sums : {[t \in {Total} |-> Fields]},
     blocks : {{}}, check : {NoField}, allowed : {{}}]

BlockPoints ==
    {p \in Point({3, 4}, 0..MaxAddress, {"u16", "u32"}, {{}}, {<<1, 0>>}) : p.order = "low_high"}

BlockSets == {bs \in SUBSET ({3, 4} \X (0..MaxAddress) \X (1..3)) : Cardinality(bs) <= 2}

(* The two functions are interchangeable: the first point is in the first. *)
BlockProfiles ==
    [points : {ps \in UNION {[fs -> BlockPoints] : fs \in {{First}, Fields}} : ps[First].function = 3},
     sums : {[t \in {} |-> {}]}, blocks : BlockSets,
     check : {NoField, First}, allowed : {{0}}]

AllProfiles == ValueProfiles \cup BlockProfiles

(* Two registers hold every word, the others nothing: which registers are read *)
(* shows in the sample as well as in the addresses.                            *)
AllContents ==
    {[r \in {3, 4} \X (0..MaxAddress) |->
        IF r \in {<<3, 0>>, <<3, 1>>} THEN w[r[2]] ELSE 0] : w \in [{0, 1} -> 0..(Words - 1)]}

=============================================================================
