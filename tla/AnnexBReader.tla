---------------------------- MODULE AnnexBReader -----------------------------
(* code/basic/h264: AnnexBReader, which reads a file in blocks and cuts it at *)
(* its start codes, the loop of h264_decoder_main over the units, and what is *)
(* done to the bytes of one: Nalu, EBSP, BitStream.  One step per turn of the *)
(* loop in ReadNalu and per unit parsed.  A byte is 0, 1, 3, or another value.*)
EXTENDS Integers, Sequences, FiniteSets, SequencesExt

CONSTANT Block          \* tempBufferLen: 1024

VARIABLES
    file,               \* the bytes of the file
    at,                 \* how many of them ReadFromFile has read
    buffer,             \* those not yet returned
    step,               \* "read": inside ReadNalu; "parse": it has returned;
                        \* "done"; "crashed"
    nalu,               \* the unit that ReadNalu returned
    returned,           \* history: the bytes of all of them, one after the other
    ends                \* history: where in the file they ended
vars == <<file, at, buffer, step, nalu, returned, ends>>

NoNalu == [buf |-> <<>>, startCodeLen |-> 0, last |-> FALSE]

Start ==
    /\ at = 0
    /\ buffer = <<>>
    /\ step = "read"
    /\ nalu = NoNalu
    /\ returned = <<>>
    /\ ends = {}

-----------------------------------------------------------------------------
(* Cutting                                                                    *)

From(s, i) == SubSeq(s, i + 1, Len(s))

\* The length of the start code that b begins with, 0 if it does not.
CheckStartCode(b) ==
    IF Len(b) >= 3 /\ SubSeq(b, 1, 3) = <<0, 0, 1>> THEN 3
    ELSE IF Len(b) >= 4 /\ SubSeq(b, 1, 4) = <<0, 0, 0, 1>> THEN 4
    ELSE 0

\* Mutant of EndPositions: the search goes on where the last block ended.
EndPositionsOfBlock ==
    {i \in CheckStartCode(buffer)..(Len(buffer) - 1) :
        i >= Len(buffer) - Block /\ CheckStartCode(From(buffer, i)) # 0}

\* Where the next start code may lie.
EndPositions ==
    {i \in CheckStartCode(buffer)..(Len(buffer) - 1) : CheckStartCode(From(buffer, i)) # 0}

endPos == CHOOSE i \in EndPositions : \A j \in EndPositions : i <= j

\* The next start code is in the buffer: what lies before it is returned.
ReadNalu ==
    /\ step = "read"
    /\ EndPositions # {}
    /\ nalu' = [buf          |-> SubSeq(buffer, 1, endPos),
                startCodeLen |-> CheckStartCode(buffer),
                last         |-> FALSE]
    /\ returned' = returned \o nalu'.buf
    /\ ends' = ends \cup {Len(returned')}
    /\ buffer' = From(buffer, endPos)
    /\ step' = "parse"
    /\ UNCHANGED <<file, at>>

\* It is not: a block is appended, and the search begins again.
ReadFromFile ==
    /\ step = "read"
    /\ EndPositions = {}
    /\ at < Len(file)
    /\ LET n == IF Len(file) - at < Block THEN Len(file) - at ELSE Block
       IN  /\ buffer' = buffer \o SubSeq(file, at + 1, at + n)
           /\ at' = at + n
    /\ UNCHANGED <<file, step, nalu, returned, ends>>

\* The end of the file: the rest is the last unit.
ReadLastNalu ==
    /\ step = "read"
    /\ EndPositions = {}
    /\ at = Len(file)
    /\ nalu' = [buf          |-> buffer,
                startCodeLen |-> CheckStartCode(buffer),
                last         |-> TRUE]
    /\ returned' = returned \o nalu'.buf
    /\ ends' = ends \cup {Len(returned')}
    /\ buffer' = <<>>
    /\ step' = "parse"
    /\ UNCHANGED <<file, at>>

\* ParseHeader and ParseRBSP: a unit without a byte behind its start code has
\* -1 bytes to copy.  main leaves its loop after the last unit.
Parse ==
    /\ step = "parse"
    /\ step' = IF Len(nalu.buf) = nalu.startCodeLen THEN "crashed"
               ELSE IF nalu.last THEN "done" ELSE "read"
    /\ UNCHANGED <<file, at, buffer, nalu, returned, ends>>

Read == ReadNalu \/ ReadFromFile \/ ReadLastNalu \/ Parse

-----------------------------------------------------------------------------
(* The bytes of a unit                                                        *)

\* Mutant of Skipped: three zeros are wanted.
SkippedLate(b, i) ==
    /\ b[i] = 3
    /\ i > 3 /\ b[i - 3] = 0 /\ b[i - 2] = 0 /\ b[i - 1] = 0
    /\ i < Len(b) /\ b[i + 1] <= 3

\* EBSP::GetRBSP: does it leave out byte i?
Skipped(b, i) ==
    /\ b[i] = 3
    /\ i > 2 /\ b[i - 2] = 0 /\ b[i - 1] = 0
    /\ i < Len(b) /\ b[i + 1] <= 3

GetRBSP(b) ==
    LET copied[i \in 0..Len(b)] ==
            IF i = 0 THEN <<>>
            ELSE IF Skipped(b, i) THEN copied[i - 1] ELSE Append(copied[i - 1], b[i])
    IN  copied[Len(b)]

\* 1 << k, of an int.
Bit[k \in 0..31] == IF k = 0 THEN 1 ELSE 2 * Bit[k - 1]

\* BitStream::ReadU: n bits from position p on.
ReadU(bits, p, n) ==
    LET r[i \in 0..n] == IF i = 0 THEN 0 ELSE 2 * r[i - 1] + bits[p + i - 1]
    IN  r[n]

\* BitStream::ReadUE, of bits that hold a one.
ReadUE(bits, p) ==
    LET one      == CHOOSE i \in p..Len(bits) : bits[i] = 1 /\ \A j \in p..(i - 1) : bits[j] = 0
        zero_cnt == one - p
    IN  IF zero_cnt >= 32 THEN -1 ELSE ReadU(bits, one + 1, zero_cnt) + Bit[zero_cnt] - 1

\* BitStream::ReadSE.
ReadSE(bits, p) ==
    LET r == ReadUE(bits, p)
    IN  IF r % 2 = 1 THEN (r + 1) \div 2 ELSE -(r \div 2)

-----------------------------------------------------------------------------
(* The reference: a file is cut where a start code begins, the zero of the    *)
(* longer form included.                                                      *)

Occurs(s, f) == {i \in 1..(Len(f) - Len(s) + 1) : SubSeq(f, i, i + Len(s) - 1) = s}

CutsOf(f) ==
    {IF i > 1 /\ f[i - 1] = 0 THEN i - 1 ELSE i : i \in Occurs(<<0, 0, 1>>, f)}

\* What an encoder makes of a payload: a 3 before a byte up to 3 after two zeros.
Escape(p) ==
    LET escaped[i \in 0..Len(p)] ==
            IF i = 0 THEN <<>>
            ELSE LET e == escaped[i - 1]
                 IN  IF Len(e) >= 2 /\ e[Len(e)] = 0 /\ e[Len(e) - 1] = 0 /\ p[i] <= 3
                     THEN e \o <<3, p[i]>> ELSE Append(e, p[i])
    IN  escaped[Len(p)]

\* The code of v in Exp-Golomb: as many zeros as v + 1 has bits behind its first.
Golomb(v) ==
    LET n == CHOOSE k \in 0..30 : Bit[k] <= v + 1 /\ v + 1 < Bit[k + 1]
    IN  [i \in 1..(2 * n + 1) |-> IF i <= n THEN 0 ELSE ((v + 1) \div Bit[2 * n + 1 - i]) % 2]

-----------------------------------------------------------------------------
(* Properties                                                                 *)

(* The units that ReadNalu returns are the file, cut where its start codes    *)
(* begin and nowhere else, whether or not a start code or a unit lies across  *)
(* two blocks (AnnexBReader.hpp:46-53, 72).                                   *)
CutAtStartCodes ==
    /\ returned \o buffer = SubSeq(file, 1, at)
    /\ {e + 1 : e \in ends \cap 1..(Len(file) - 1)}
           = {c \in CutsOf(file) : c > 1 /\ c <= Len(returned) + 1}

\* GetRBSP gives back every payload as it was.
BytesReadBack(Payloads) == \A p \in Payloads : GetRBSP(Escape(p)) = p

\* The three ways to read bits give back the numbers that were written, the second
\* of two from where the first ends.
NumbersReadBack(Numbers) ==
    \A v \in Numbers, w \in Numbers :
        LET bits == <<1>> \o Golomb(v) \o Golomb(w)
        IN  /\ ReadUE(bits, 2) = v
            /\ ReadUE(bits, 2 + Len(Golomb(v))) = w
            /\ LET s == ReadSE(bits, 2) IN v = IF s > 0 THEN 2 * s - 1 ELSE -2 * s

(* What a unit holds is read back as it was before the bytes against imitated *)
(* start codes were put in, and so are the numbers in it: no code is taken    *)
(* for longer or shorter than it is (EBSP.hpp:46-55, BitStream.hpp:21-64).    *)
PayloadReadsBack(Payloads, Numbers) ==
    BytesReadBack(Payloads) /\ NumbersReadBack(Numbers)
=============================================================================
