----------------------------- MODULE Mp4ToAnnexB -----------------------------
(* code/basic/remux/utils.c, which extractVideo calls: a packet of an mp4     *)
(* file, whose NAL units carry their lengths, becomes units with start codes, *)
(* and the parameter sets of the file go before every unit of a key frame.    *)
EXTENDS Integers, Sequences, SequencesExt

\* A byte of a buffer; behind its end there is padding.
At(buf, i) == IF i \in 1..Len(buf) THEN buf[i] ELSE 0

\* The number in the n bytes from i.
BigEndian(buf, i, n) ==
    LET number[k \in 0..n] == IF k = 0 THEN 0 ELSE number[k - 1] * 256 + At(buf, i + k - 1)
    IN  number[n]

StartCode3 == <<0, 0, 1>>
StartCode4 == <<0, 0, 0, 1>>

Failed == [ok |-> FALSE, out |-> <<>>]

\* Stands for what is written when the behaviour is not defined: no bytes.
Undefined == <<-1>>

\* n units with lengths of two bytes, from position i of extradata; next: behind them.
ParameterSets(extradata, i, n) ==
    LET Size(at) == BigEndian(extradata, at, 2)
        next[k \in 0..n] == IF k = 0 THEN i ELSE next[k - 1] + 2 + Size(next[k - 1])
    IN  IF n > 0 /\ next[n] > Len(extradata) + 1 THEN Failed
        ELSE [ok   |-> TRUE,
              out  |-> FlattenSeq([k \in 1..n |->
                           StartCode4 \o SubSeq(extradata, next[k - 1] + 2, next[k] - 1)]),
              next |-> next[n]]

\* The sets of both kinds, with start codes.  When one reaches past the end of
\* extradata the result is left unset.
h264_extradata_to_annexb(extradata) ==
    LET sps == ParameterSets(extradata, 7, At(extradata, 6) % 32)
        pps == ParameterSets(extradata, sps.next + 1, At(extradata, sps.next))
    IN  IF ~sps.ok THEN Failed
        ELSE IF ~pps.ok THEN Failed ELSE [ok |-> TRUE, out |-> sps.out \o pps.out]

\* Mutant of alloc_and_copy: the length of the start code does not follow the sets.
alloc_and_copy_short(sps_pps, unit) == sps_pps \o unit

\* What is appended for a unit.
alloc_and_copy(sps_pps, unit) ==
    sps_pps \o (IF sps_pps = <<>> THEN StartCode3 ELSE StartCode4) \o unit

\* One turn of the loop: the unit at t.buf is appended to t.out.  The result of
\* h264_extradata_to_annexb is not looked at: when it fails, spspps_pkt was never set.
NextUnit(packet, extradata, t) ==
    LET nal_size == BigEndian(packet, t.buf, 4)
        buf      == t.buf + 4
        IsIdr    == At(packet, buf) % 32 = 5
        sets     == h264_extradata_to_annexb(extradata)
        sps_pps  == IF IsIdr THEN sets.out ELSE <<>>
    IN  IF buf > Len(packet) + 1 \/ nal_size > Len(packet) + 1 - buf
        THEN [t EXCEPT !.ret = "fail"]
        ELSE IF IsIdr /\ ~sets.ok THEN [t EXCEPT !.ret = "undefined"]
        ELSE [ret |-> IF buf + nal_size <= Len(packet) THEN "next" ELSE "ok",
              buf |-> buf + nal_size,
              out |-> t.out \o alloc_and_copy(sps_pps, SubSeq(packet, buf, buf + nal_size - 1))]

\* What is written for a packet: all of it or, when a length does not fit, nothing.
h264_mp4toannexb(packet, extradata) ==
    LET turns[k \in 0..(Len(packet) + 1)] ==
            IF k = 0 THEN [ret |-> "next", buf |-> 1, out |-> <<>>]
            ELSE LET t == turns[k - 1]
                 IN  IF t.ret = "next" THEN NextUnit(packet, extradata, t) ELSE t
        last == turns[Len(packet) + 1]
    IN  IF last.ret = "ok" THEN last.out
        ELSE IF last.ret = "undefined" THEN Undefined ELSE <<>>

-----------------------------------------------------------------------------
(* Properties                                                                 *)

TwoBytes(n)  == <<n \div 256, n % 256>>
FourBytes(n) == TwoBytes(n \div 65536) \o TwoBytes(n % 65536)

\* The format of mp4: a unit with its length, and the extradata of parameter sets.
Avcc(units) == FlattenSeq([i \in DOMAIN units |-> FourBytes(Len(units[i])) \o units[i]])
Sets(s)     == FlattenSeq([i \in DOMAIN s |-> TwoBytes(Len(s[i])) \o s[i]])
Extradata(sps, pps) ==
    <<1, 66, 0, 30, 255, 224 + Len(sps)>> \o Sets(sps) \o <<Len(pps)>> \o Sets(pps)

\* Where the start codes of a stream are, in order.
StartCodes(stream) ==
    LET IsCode(i) == i + 2 <= Len(stream) /\ SubSeq(stream, i, i + 2) = StartCode3
        codes[i \in 0..Len(stream)] ==
            IF i = 0 THEN <<>>
            ELSE LET c == codes[i - 1] IN IF IsCode(i) THEN Append(c, i) ELSE c
    IN  codes[Len(stream)]

\* A unit without the zeros behind it.
Trim(u) ==
    SubSeq(u, 1, CHOOSE n \in 0..Len(u) :
                     /\ n > 0 => u[n] # 0
                     /\ \A i \in (n + 1)..Len(u) : u[i] = 0)

\* The units between the start codes of a stream, by their definition.
Cut(stream) ==
    LET codes  == StartCodes(stream)
        End(k) == IF k < Len(codes) THEN codes[k + 1] - 1 ELSE Len(stream)
    IN  [k \in DOMAIN codes |-> Trim(SubSeq(stream, codes[k] + 3, End(k)))]

KeyUnit(u) == u[1] % 32 = 5
SetUnit(u) == u[1] % 32 \in {7, 8}

\* Where a key frame begins and no parameter sets are present.
WantsSets(units) ==
    {i \in DOMAIN units :
        /\ KeyUnit(units[i])
        /\ \A j \in 1..(i - 1) : ~KeyUnit(units[j]) /\ ~SetUnit(units[j])}

\* The units with the sets before those at the places P.
WithSets(units, P, sets) ==
    FlattenSeq([i \in DOMAIN units |->
                   IF i \in P THEN sets \o <<units[i]>> ELSE <<units[i]>>])

(* Cut at its start codes, what is written for a packet is its units in their *)
(* order, with all parameter sets before the first unit of a key frame unless *)
(* sets are present, as the comment at utils.c:212 asks.  Before further key  *)
(* units they may stand again: the comment says "only" the first, the code    *)
(* puts them before every unit of type 5, also behind present sets.  For a    *)
(* packet that was cut off inside a unit nothing is written (utils.c:29-63,   *)
(* 67-141, 158-249).  Lengths have four bytes, the only size the code reads:  *)
(* the length_size of the extradata, 1, 2 or 4 (utils.c:75, 156), is unused.  *)
UnitsComeBack(UnitLists, SpsLists, PpsLists) ==
    \A units \in UnitLists, sps \in SpsLists, pps \in PpsLists :
        LET packet == Avcc(units)
            extra  == Extradata(sps, pps)
            Whole(n) == \E k \in DOMAIN units : n = Len(Avcc(SubSeq(units, 1, k)))
        IN  /\ \E P \in SUBSET {i \in DOMAIN units : KeyUnit(units[i])} :
                   /\ WantsSets(units) \subseteq P
                   /\ Cut(h264_mp4toannexb(packet, extra)) = WithSets(units, P, sps \o pps)
            /\ \A n \in 0..Len(packet) :
                   ~Whole(n) => h264_mp4toannexb(SubSeq(packet, 1, n), extra) = <<>>
=============================================================================
