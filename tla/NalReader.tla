------------------------------ MODULE NalReader ------------------------------
(* RTSPSource of webrtc/rtsp_server/rtp.h: a file held in memory, cut into    *)
(* NAL units at its start codes 001 and 0001.  One step per byte that         *)
(* copy_nal_from_file reads.  A byte is 0, 1, or 2 for every other value.     *)
EXTENDS Integers, Sequences, FiniteSets

CONSTANT Files      \* the files that may be opened, as sequences of bytes

Byte == 0..2

ASSUME FilesAssumption == Files \subseteq Seq(Byte)

VARIABLES
    buffer,         \* the file
    buffer_pos,     \* how many bytes have been read since the last Reset
    pc,             \* "idle" between two calls of copy_nal_from_file, "scan"
                    \* inside one, "ended" after a call that returned -1
    flag,           \* how many zeros copy_nal_from_file holds back
    buf,            \* the unit it collects
    seen,           \* history: the bytes that fread1 has returned since Reset
    unit_start,     \* history: buffer_pos when the running call began
    units           \* history: the units returned since Reset
vars == <<buffer, buffer_pos, pc, flag, buf, seen, unit_start, units>>

Init ==
    /\ buffer \in Files
    /\ buffer_pos = 0
    /\ pc = "idle"
    /\ flag = 0
    /\ buf = <<>>
    /\ seen = <<>>
    /\ unit_start = 0
    /\ units = <<>>

CopyNal ==
    /\ pc \in {"idle", "ended"}
    /\ pc' = "scan"
    /\ flag' = 0
    /\ buf' = <<>>
    /\ unit_start' = buffer_pos
    /\ UNCHANGED <<buffer, buffer_pos, seen, units>>

(* fread1 copies buffer[buffer_pos + 1] and not buffer[buffer_pos].  At the   *)
(* last position that is one past the end: the byte may be anything.          *)
fread1 ==
    IF buffer_pos + 2 <= Len(buffer) THEN {buffer[buffer_pos + 2]} ELSE Byte

CanRead == buffer_pos + 1 <= Len(buffer)

Consume(c) ==
    /\ pc = "scan"
    /\ CanRead
    /\ c \in fread1
    /\ buffer_pos' = buffer_pos + 1
    /\ seen' = Append(seen, c)
    /\ UNCHANGED <<buffer, unit_start>>

Zeros(n) == [i \in 1..n |-> 0]

\* Mutant of EndsUnit: one zero and a one already count as a start code.
EndsUnitEarly(c) == flag \in {1, 2, 3} /\ c = 1

\* A start code is complete: the call returns what it has collected.
EndsUnit(c) == flag \in {2, 3} /\ c = 1

\* One more zero is held back.
HoldsZero(c) == flag < 3 /\ c = 0

\* Mutant of KeepByte: the zeros held back are forgotten.
KeepByteOnly(c) ==
    /\ Consume(c) /\ ~EndsUnit(c) /\ ~HoldsZero(c)
    /\ buf' = buf \o <<c>>
    /\ flag' = 0
    /\ UNCHANGED <<pc, units>>

KeepByte(c) ==
    /\ Consume(c)
    /\ ~EndsUnit(c)
    /\ ~HoldsZero(c)
    /\ buf' = buf \o Zeros(flag) \o <<c>>
    /\ flag' = 0
    /\ UNCHANGED <<pc, units>>

HoldZero(c) ==
    /\ Consume(c)
    /\ HoldsZero(c)
    /\ flag' = flag + 1
    /\ UNCHANGED <<pc, buf, units>>

ReturnUnit(c) ==
    /\ Consume(c)
    /\ EndsUnit(c)
    /\ units' = Append(units, buf)
    /\ flag' = 0
    /\ pc' = "idle"
    /\ UNCHANGED buf

\* The end of the file: -1, and what was collected is not returned.
ReturnError ==
    /\ pc = "scan"
    /\ ~CanRead
    /\ pc' = "ended"
    /\ UNCHANGED <<buffer, buffer_pos, flag, buf, seen, unit_start, units>>

Reset ==
    /\ pc = "ended"
    /\ pc' = "idle"
    /\ buffer_pos' = 0
    /\ seen' = <<>>
    /\ units' = <<>>
    /\ buf' = <<>>
    /\ flag' = 0
    /\ unit_start' = 0
    /\ UNCHANGED buffer

Next ==
    \/ CopyNal
    \/ \E c \in Byte : KeepByte(c) \/ HoldZero(c) \/ ReturnUnit(c)
    \/ ReturnError
    \/ Reset

Spec == Init /\ [][Next]_vars

-----------------------------------------------------------------------------
(* What the file says: the reference the reader is compared with.             *)

ThreeByteCode == <<0, 0, 1>>

Occurs(s, f) ==
    {i \in 1..(Len(f) - Len(s) + 1) : SubSeq(f, i, i + Len(s) - 1) = s}

Codes(f) == Occurs(ThreeByteCode, f)

\* The bytes between the start code at i and the next one; a zero before the
\* next one belongs to its four-byte form.
UnitAfter(f, i) ==
    LET next == {j \in Codes(f) : j > i}
        j    == CHOOSE j \in next : \A k \in next : j <= k
    IN  SubSeq(f, i + 3, IF f[j - 1] = 0 THEN j - 2 ELSE j - 1)

\* Files this reader is made for: they open with a four-byte start code, hold no
\* run of four zeros and do not end in two.
Regular(f) ==
    /\ Len(f) > 4
    /\ SubSeq(f, 1, 4) = <<0, 0, 0, 1>>
    /\ Occurs(<<0, 0, 0, 0>>, f) = {}
    /\ SubSeq(f, Len(f) - 1, Len(f)) # <<0, 0>>

\* The start codes of which every byte has been read or passed over.
Passed == {i \in Codes(buffer) : i + 2 <= buffer_pos + 1}

-----------------------------------------------------------------------------
(* Properties                                                                 *)

TypeOK ==
    /\ buffer \in Files
    /\ buffer_pos \in 0..Len(buffer)
    /\ pc \in {"idle", "scan", "ended"}
    /\ flag \in 0..3
    /\ buf \in Seq(Byte)
    /\ seen \in Seq(Byte)
    /\ unit_start \in 0..buffer_pos
    /\ units \in Seq(Seq(Byte))

(* Whatever the file and wherever the scan is, what the call has collected,   *)
(* followed by the zeros it holds back, is exactly what it has read: no byte  *)
(* is lost or doubled when a candidate for a start code turns out to be data  *)
(* (copy_nal_from_file, the branches that give the zeros back).               *)
NothingLost ==
    pc = "scan" => SubSeq(seen, unit_start + 1, buffer_pos) = buf \o Zeros(flag)

(* A call returns only at a start code: what it has read is the unit and then *)
(* 001 or 0001, and nothing of the code is left in the unit (rtp.h:129-130).  *)
ReturnsAtStartCode ==
    [][units' # units /\ units' # <<>> =>
        \E z \in {2, 3} :
            SubSeq(seen', unit_start + 1, buffer_pos')
                = units'[Len(units')] \o Zeros(z) \o <<1>>]_vars

(* For the files it is made for, the calls return first an empty unit and     *)
(* then the file's units, in order, as an independent definition finds them.  *)
UnitsAreTheFile ==
    Regular(buffer) =>
        /\ Len(units) = Cardinality(Passed)
        /\ \A k \in DOMAIN units :
             IF k = 1 THEN units[k] = <<>>
             ELSE \E i \in Passed :
                    /\ Cardinality({j \in Passed : j < i}) = k - 2
                    /\ units[k] = UnitAfter(buffer, i)

=============================================================================
