----------------------------- MODULE ToolsProofs -----------------------------
(* That the tools which decode or encode lose, repeat and confuse no frame,    *)
(* for every file, every delay of a codec and every number of frames; and that *)
(* the tools which copy packets put each where it belongs, with its time,      *)
(* and leave none out, for all files, time bases and failures.                 *)
EXTENDS MCTools, FiniteSetTheorems, SequenceTheorems, WellFoundedInduction, TLAPS

------------------------------------------------------------------------------
(* The tools *)

\* What the courses of the tools have in common; the proofs need no more of them.
Course(c) ==
    /\ {c.decodes, c.encodes} \subseteq BOOLEAN
    /\ c.onError \in {"next", "failed", "done"}
    /\ c.once \in {{}, {"encoder"}, {"decoder"}}
    /\ c.atEnd \in {"old", "made", "stop", "flush", "failed", "done"}
    /\ ~c.decodes =>
         /\ c.encodes /\ c.onError = "failed" /\ c.once # {"decoder"}
         /\ c.atEnd \in {"old", "made", "stop"}
         /\ c.name \notin {"h264ToTs", "drawbox_filter"}
    /\ c.decodes =>
         /\ c.once # {"encoder"} /\ c.buffer = "copied" /\ c.onFlush # "again"
         /\ c.atEnd \in {"flush", "failed", "done"}
         /\ c.encodes <=> (c.atEnd = "flush")
    /\ c.decodes /\ c.encodes =>
         c.onError = "failed" /\ c.name = "h264ToTs" /\ c.once = {}
    /\ ~c.encodes => c.name # "h264ToTs"
    /\ c.buffer \in {"same", "writable", "copied"}
    /\ c.buffer = "same" => c.name = "audio_resample"

LEMMA ToolsHaveCourses == \A c \in Codec!Tools : Course(c)
<1>1. Course(Codec!encode_video)
    BY DEF Course, Codec!encode_video
<1>2. Course(Codec!audioEncoder)
    BY DEF Course, Codec!audioEncoder, Codec!encode_video
<1>3. Course(Codec!audio_resample)
    BY DEF Course, Codec!audio_resample, Codec!encode_video
<1>4. Course(Codec!codecEncoderAndMutex)
    BY DEF Course, Codec!codecEncoderAndMutex, Codec!audioEncoder, Codec!encode_video
<1>5. Course(Codec!encode_with_libx264)
    BY DEF Course, Codec!encode_with_libx264, Codec!encode_video
<1>6. Course(Codec!h264ToTs)
    BY DEF Course, Codec!h264ToTs
<1>8. Course(Codec!decodeVideo)
    BY DEF Course, Codec!decodeVideo, Codec!h264ToTs
<1>9. Course(Codec!drawbox_filter)
    BY DEF Course, Codec!drawbox_filter, Codec!decodeVideo, Codec!h264ToTs
<1>10. Course(Codec!playVideo)
    BY DEF Course, Codec!playVideo, Codec!drawbox_filter, Codec!decodeVideo, Codec!h264ToTs
<1>11. QED
    BY <1>1, <1>2, <1>3, <1>4, <1>5, <1>6, <1>8, <1>9, <1>10 DEF Codec!Tools

------------------------------------------------------------------------------
(* Sequences *)

\* A sequence without its element i.
LEMMA Removed ==
    ASSUME NEW T, NEW s \in Seq(T), NEW i \in 1..Len(s)
    PROVE  /\ Codec!RemoveAt(s, i) \in Seq(T)
           /\ Len(Codec!RemoveAt(s, i)) = Len(s) - 1
           /\ \A j \in 1..(Len(s) - 1) :
                 Codec!RemoveAt(s, i)[j] = IF j < i THEN s[j] ELSE s[j + 1]
<1>0. PICK m \in Nat : m = Len(s)
    BY LenProperties
<1>1. /\ SubSeq(s, 1, i - 1) \in Seq(T) /\ Len(SubSeq(s, 1, i - 1)) = i - 1
      /\ \A j \in 1..(i - 1) : SubSeq(s, 1, i - 1)[j] = s[j]
    BY <1>0, i - 1 \in 0..m, SubSeqProperties
<1>2. /\ SubSeq(s, i + 1, m) \in Seq(T) /\ Len(SubSeq(s, i + 1, m)) = m - i
      /\ \A j \in 1..(m - i) : SubSeq(s, i + 1, m)[j] = s[i + j]
    BY <1>0, SubSeqProperties
<1> DEFINE a == SubSeq(s, 1, i - 1)
           b == SubSeq(s, i + 1, m)
<1>3. Codec!RemoveAt(s, i) = a \o b
    BY <1>0 DEF Codec!RemoveAt
<1> HIDE DEF a, b
<1>4. /\ a \o b \in Seq(T) /\ Len(a \o b) = Len(a) + Len(b)
      /\ \A j \in 1..(Len(a) + Len(b)) :
            (a \o b)[j] = IF j <= Len(a) THEN a[j] ELSE b[j - Len(a)]
    BY <1>1, <1>2, ConcatProperties DEF a, b
<1>5. Len(a) = i - 1 /\ Len(b) = m - i
    BY <1>1, <1>2 DEF a, b
<1>6. ASSUME NEW j \in 1..(m - 1)
      PROVE  (a \o b)[j] = IF j < i THEN s[j] ELSE s[j + 1]
    <2>1. CASE j < i
        BY <2>1, <1>0, <1>1, <1>4, <1>5 DEF a
    <2>2. CASE ~(j < i)
        <3>1. (a \o b)[j] = b[j - (i - 1)] /\ j - (i - 1) \in 1..(m - i)
            BY <2>2, <1>0, <1>4, <1>5
        <3>2. b[j - (i - 1)] = s[i + (j - (i - 1))]
            BY <3>1, <1>2 DEF b
        <3>3. i + (j - (i - 1)) = j + 1
            BY <1>0
        <3>4. QED
            BY <2>2, <3>1, <3>2, <3>3
    <2>3. QED
        BY <2>1, <2>2
<1>7. QED
    BY <1>0, <1>3, <1>4, <1>5, <1>6

\* What Append, Head and Tail give, for elements of any kind.
LEMMA Appended ==
    ASSUME NEW T, NEW s \in Seq(T), NEW e \in T
    PROVE  /\ Append(s, e) \in Seq(T) /\ Len(Append(s, e)) = Len(s) + 1
           /\ \A j \in 1..(Len(s) + 1) :
                 Append(s, e)[j] = IF j <= Len(s) THEN s[j] ELSE e
           /\ DOMAIN Append(s, e) = 1..(Len(s) + 1) /\ DOMAIN s = 1..Len(s) /\ Len(s) \in Nat
BY AppendProperties, LenProperties

------------------------------------------------------------------------------
(* The inductive invariant *)

Buffers == 0..(delay + 2)

CodecTypeOK ==
    /\ coder \in Codec!Tools
    /\ source \in Seq([stream : Nat, frames : Nat])
    /\ delay \in Nat
    /\ pc \in {"open", "next", "decoder", "encoder", "done", "failed"}
    /\ n \in Nat /\ taken \in Nat /\ pos \in Nat /\ failures \in Nat
    /\ dec \in Seq(Nat)
    /\ enc \in Seq([pts : Nat, buf : Buffers])
    /\ coded \in Seq([pts : Nat, content : Nat])
    /\ emptying \subseteq {"decoder", "encoder"}
    /\ buf \in Buffers /\ content \in [Buffers -> Nat] /\ broken \in BOOLEAN

\* Where a tool may be: in a codec that it has, and past the loop that empties one.
Phases ==
    /\ broken => failures # 0
    /\ pc = "open" => enc = <<>> /\ dec = <<>> /\ emptying = {}
    /\ ~coder.encodes => enc = <<>> /\ pc # "encoder"
    /\ ~coder.decodes => dec = <<>> /\ pc # "decoder" /\ "decoder" \notin emptying
    /\ "encoder" \in emptying =>
         /\ pc \in {"encoder", "done"}
         /\ coder.encodes => dec = <<>>
    /\ coder.atEnd # "flush" => "decoder" \notin emptying
    /\ "decoder" \in emptying =>
         n = Len(source) /\ pc # "next"

\* The tools that ask once for each packet, where packets have several frames.
Lags == "decoder" \in coder.once /\ Codec!Bursts

\* A codec is asked for what it may not keep before it is given more.
RoomLeft ==
    /\ Len(enc) <= delay + 1
    /\ failures = 0 /\ pc \in {"next", "decoder"} => Len(enc) <= delay
    /\ failures = 0 /\ ~Lags =>
         /\ pc = "next" => Len(dec) <= delay
         /\ "decoder" \in coder.once =>
              Len(dec) <= delay + 1 /\ (pc = "encoder" => Len(dec) <= delay)

\* The numbers that will not be given to another frame.
Used ==
    IF ~coder.decodes THEN 0..(n - 1)
    ELSE IF coder.name = "h264ToTs" THEN 0..(pos - 1)
    ELSE {p \in 0..(taken - 1) : \A i \in DOMAIN dec : p < dec[i]}

NoRepeat ==
    /\ \A i, j \in DOMAIN coded : i # j => coded[i].pts # coded[j].pts
    /\ \A i, j \in DOMAIN enc : i # j => enc[i].pts # enc[j].pts
    /\ \A i \in DOMAIN coded, j \in DOMAIN enc : coded[i].pts # enc[j].pts
    /\ \A i \in DOMAIN coded : coded[i].pts \in Used
    /\ \A i \in DOMAIN enc : enc[i].pts \in Used

\* The decoder gives frames in the order of their numbers; h264ToTs.cpp numbers
\* them again, and gets the same while nothing fails.
DecodedInOrder ==
    /\ \A i \in DOMAIN dec : dec[i] < taken
    /\ \A i, j \in DOMAIN dec : i < j => dec[i] < dec[j]
    /\ coder.name = "h264ToTs" /\ failures = 0 =>
         /\ pos + Len(dec) = taken
         /\ \A i \in DOMAIN dec : dec[i] = pos + i - 1

\* Every frame that was read or made came out or is in one of the codecs.
Whereabouts(p) ==
    \/ \E i \in DOMAIN coded : coded[i].pts = p
    \/ \E i \in DOMAIN enc : enc[i].pts = p
    \/ \E i \in DOMAIN dec : dec[i] = p

Accounted ==
    failures = 0 /\ ~Lags =>
        /\ ~coder.decodes => taken = n
        /\ \A p \in 0..(taken - 1) : Whereabouts(p)

Emptied ==
    failures = 0 /\ ~Lags /\ pc \in {"done", "failed"} =>
        /\ Codec!NeverFilled \/ enc = <<>>
        /\ coder.encodes => dec = <<>>

\* What is encoded under the time p.
Expected(p) ==
    IF coder.atEnd = "old" /\ p >= Len(source) THEN Len(source) ELSE p + 1

\* The encoder's frames have buffers of their own, which hold what was made for
\* them; and the frame that is filled next holds the last.
ContentRight ==
    coder.name # "audio_resample" /\ failures = 0 =>
        /\ \A i, j \in DOMAIN enc : i # j => enc[i].buf # enc[j].buf
        /\ \A i \in DOMAIN enc : content[enc[i].buf] = Expected(enc[i].pts)
        /\ \A i \in DOMAIN coded : coded[i].content = Expected(coded[i].pts)
        /\ ~coder.decodes /\ coder.atEnd = "old" =>
             content[buf] = IF n <= Len(source) THEN n ELSE Len(source)

CodecInv ==
    /\ CodecTypeOK /\ Phases /\ RoomLeft
    /\ NoRepeat /\ DecodedInOrder /\ Accounted /\ Emptied /\ ContentRight

------------------------------------------------------------------------------
(* The coding tools keep the invariant *)

\* There is a buffer that the encoder does not refer to.
LEMMA BufferIsFree ==
    ASSUME CodecTypeOK, RoomLeft
    PROVE  /\ Codec!Buffer \in Buffers
           /\ coder.name # "audio_resample" => Codec!Buffer \notin Codec!Held
<1>1. PICK m \in Nat : m = Len(enc)
    BY LenProperties DEF CodecTypeOK
<1>2. m <= delay + 1 /\ delay \in Nat /\ DOMAIN enc = 1..m
    BY <1>1, LenProperties DEF RoomLeft, CodecTypeOK
<1> DEFINE H == Codec!Held
           f == [i \in 1..m |-> enc[i].buf]
<1>3. f \in Surjection(1..m, H)
    <2>1. \A i \in 1..m : f[i] \in H
        BY <1>2 DEF Codec!Held
    <2>2. \A h \in H : \E i \in 1..m : f[i] = h
        BY <1>2 DEF Codec!Held
    <2>3. QED
        BY <2>1, <2>2 DEF Surjection
<1>4. IsFiniteSet(H) /\ Cardinality(H) <= m
    <2>1. IsFiniteSet(1..m) /\ Cardinality(1..m) = m
        BY FS_Interval
    <2> HIDE DEF H, f
    <2>2. QED
        BY <1>3, <2>1, FS_Surjection
<1>5. IsFiniteSet(Buffers) /\ Cardinality(Buffers) = delay + 3
    BY <1>2, FS_Interval DEF Buffers
<1>6. \E b \in Buffers : b \notin H
    <2>1. SUFFICES ASSUME Buffers \subseteq H PROVE FALSE
        OBVIOUS
    <2>2. Cardinality(Buffers) <= Cardinality(H)
        BY <2>1, <1>4, FS_Subset
    <2>3. Cardinality(H) \in Nat
        BY <1>4, FS_CardinalityType
    <2> HIDE DEF H
    <2>4. QED
        BY <2>2, <2>3, <1>2, <1>4, <1>5
<1>7. DOMAIN content = Buffers /\ buf \in Buffers
    BY DEF CodecTypeOK
<1>8. Codec!Unused \in Buffers /\ Codec!Unused \notin Codec!Held
    BY <1>6, <1>7 DEF Codec!Unused
<1>9. coder.buffer = "same" => coder.name = "audio_resample"
    BY ToolsHaveCourses DEF CodecTypeOK, Course
<1>10. QED
    BY <1>7, <1>8, <1>9 DEF Codec!Buffer

LEMMA NextPacket ==
    ASSUME CodecTypeOK, Codec!Reads
    PROVE  n + 1 \in 1..Len(source) /\ source[n + 1].frames \in Nat
<1>1. n + 1 \in 1..Len(source)
    BY LenProperties DEF CodecTypeOK, Codec!Reads
<1>2. source[n + 1] \in [stream : Nat, frames : Nat]
    BY <1>1, ElementOfSeq DEF CodecTypeOK
<1>3. QED
    BY <1>1, <1>2

LEMMA MadeIsNat ==
    ASSUME CodecTypeOK
    PROVE  Codec!Made \in Nat
BY DEF CodecTypeOK, Codec!Made

LEMMA CourseOfCoder ==
    ASSUME CodecTypeOK
    PROVE  Course(coder)
BY ToolsHaveCourses DEF CodecTypeOK

LEMMA TypeStep ==
    ASSUME CodecTypeOK, RoomLeft, Codec!Next
    PROVE  CodecTypeOK'
<1> DEFINE EncOf == [pts : Nat, buf : Buffers]
           Unit == [pts : Nat, content : Nat]
<1>1. Course(coder)
    BY CourseOfCoder
<1>2. /\ enc \in Seq(EncOf) /\ coded \in Seq(Unit) /\ dec \in Seq(Nat)
      /\ pos \in Nat /\ n \in Nat /\ taken \in Nat /\ failures \in Nat /\ broken \in BOOLEAN
    BY DEF CodecTypeOK
<1>3. Codec!Fail => failures' \in Nat
    BY <1>2 DEF Codec!Fail
<1>4. Codec!AfterFrame \in {"next", "decoder"}
        /\ Codec!AfterEncoder \in {"done", "next", "decoder"}
    BY DEF Codec!AfterFrame, Codec!AfterEncoder
<1>5. /\ Codec!AfterPacket \in {"done", "next", "decoder", "encoder"}
      /\ Codec!AfterError \in {"done", "next", "decoder", "encoder", "failed"}
      /\ coder.onError \in {"next", "done", "failed"}
      /\ coder.onError \in {"next", "done", "failed"}
    BY <1>1, <1>4 DEF Codec!AfterPacket, Codec!AfterError, Course
<1>6. dec # <<>> => Head(dec) \in Nat /\ Tail(dec) \in Seq(Nat)
    BY <1>2, HeadTailProperties
<1>7. Codec!Buffer \in Buffers /\ Codec!Made \in Nat
    BY BufferIsFree, MadeIsNat
<1>8. CASE Codec!Open
    BY <1>8 DEF Codec!Open, CodecTypeOK, Buffers
<1>9. CASE Codec!SendFrame
    <2>1. Append(enc, [pts |-> n, buf |-> Codec!Buffer]) \in Seq(EncOf)
        BY <1>2, <1>7, [pts |-> n, buf |-> Codec!Buffer] \in EncOf, Appended
    <2>2. QED
        BY <1>9, <1>7, <2>1 DEF Codec!SendFrame, CodecTypeOK, Buffers
<1>10. CASE Codec!SendFrameFails
    BY <1>10, <1>3, <1>5 DEF Codec!SendFrameFails, CodecTypeOK, Buffers
<1>11. CASE Codec!FlushEncoder
    BY <1>11 DEF Codec!FlushEncoder, CodecTypeOK, Buffers
<1>12. CASE Codec!ReceivePacket
    <2>1. PICK i \in DOMAIN enc :
            /\ coded' = Append(coded, [pts |-> enc[i].pts, content |-> content[enc[i].buf]])
            /\ enc' = Codec!RemoveAt(enc, i)
        BY <1>12 DEF Codec!ReceivePacket
    <2>2. i \in 1..Len(enc)
        BY <1>2, LenProperties
    <2>3. enc' \in Seq(EncOf)
        BY <2>1, <2>2, <1>2, Removed
    <2>4. enc[i] \in EncOf
        BY <2>2, <1>2, ElementOfSeq
    <2>5. [pts |-> enc[i].pts, content |-> content[enc[i].buf]] \in Unit
        BY <2>4 DEF CodecTypeOK
    <2>6. coded' \in Seq(Unit)
        BY <2>1, <2>5, <1>2, Appended
    <2>7. QED
        BY <1>12, <1>5, <2>3, <2>6 DEF Codec!ReceivePacket, CodecTypeOK, Buffers
<1>13. CASE Codec!NoPacket
    BY <1>13, <1>4 DEF Codec!NoPacket, CodecTypeOK, Buffers
<1>14. CASE Codec!EncoderFails
    BY <1>14, <1>3, <1>5 DEF Codec!EncoderFails, CodecTypeOK, Buffers
<1>15. CASE Codec!SkipPacket
    BY <1>15 DEF Codec!SkipPacket, CodecTypeOK, Buffers
<1>16. CASE Codec!SendPacket
    <2>1. source[n + 1].frames \in Nat
        BY <1>16, NextPacket DEF Codec!SendPacket
    <2>2. PICK k \in Nat : k = source[n + 1].frames
        BY <2>1
    <2>3. [i \in 1..k |-> taken + i - 1] \in Seq(Nat)
        BY <1>2, IsASeq, \A i \in 1..k : taken + i - 1 \in Nat
    <2>4. dec \o [i \in 1..k |-> taken + i - 1] \in Seq(Nat)
        BY <1>2, <2>3, ConcatProperties
    <2>5. QED
        <3>1. n + 1 \in Nat /\ taken + k \in Nat
            BY <1>2
        <3>2. /\ dec' = dec \o [i \in 1..k |-> taken + i - 1]
              /\ taken' = taken + k /\ n' = n + 1
            BY <1>16, <2>2 DEF Codec!SendPacket
        <3>3. dec' \in Seq(Nat) /\ taken' \in Nat /\ n' \in Nat
            BY <3>1, <3>2, <2>4
        <3>4. QED
            BY <1>16, <3>3 DEF Codec!SendPacket, CodecTypeOK, Buffers
<1>17. CASE Codec!SendPacketFails
    <2>1. source[n + 1].frames \in Nat
        BY <1>17, NextPacket DEF Codec!SendPacketFails
    <2>2. QED
        <3>1. n' \in Nat /\ taken' \in Nat
            BY <1>17, <1>2, <2>1 DEF Codec!SendPacketFails
        <3>2. failures' \in Nat
            BY <1>17, <1>2, <1>3 DEF Codec!SendPacketFails
        <3>3. pc' \in {"next", "done", "failed"}
            BY <1>17, <1>5 DEF Codec!SendPacketFails
        <3>4. QED
            BY <1>17, <3>1, <3>2, <3>3 DEF Codec!SendPacketFails, CodecTypeOK, Buffers
<1>18. CASE Codec!ReceiveFrame
    <2>1. [pts |-> Head(dec), content |-> Head(dec) + 1] \in Unit
        BY <1>18, <1>6 DEF Codec!ReceiveFrame
    <2>2. Append(coded, [pts |-> Head(dec), content |-> Head(dec) + 1]) \in Seq(Unit)
        BY <1>2, <2>1, Appended
    <2>3. QED
        BY <1>18, <1>4, <1>6, <2>2 DEF Codec!ReceiveFrame, CodecTypeOK, Buffers
<1>19. CASE Codec!FilterFails
    BY <1>19, <1>3, <1>4, <1>6 DEF Codec!FilterFails, CodecTypeOK, Buffers
<1>20. CASE Codec!Reencode
    <2> DEFINE e == [pts |-> IF coder.name = "h264ToTs" THEN pos ELSE Head(dec),
                     buf |-> Codec!Buffer]
    <2>1. e \in EncOf
        BY <1>20, <1>2, <1>6, <1>7 DEF Codec!Reencode
    <2>2. Append(enc, e) \in Seq(EncOf)
        BY <1>2, <2>1, Appended
    <2>3. Head(dec) + 1 \in Nat /\ Tail(dec) \in Seq(Nat)
        BY <1>20, <1>6 DEF Codec!Reencode
    <2>4. QED
        <3>1. CASE enc' = Append(enc, e) /\ pc' = "encoder" /\ UNCHANGED failures
                       /\ buf' = Codec!Buffer
                       /\ content' = [content EXCEPT ![Codec!Buffer] = Head(dec) + 1]
            BY <3>1, <1>20, <1>2, <1>7, <2>2, <2>3 DEF Codec!Reencode, CodecTypeOK, Buffers
        <3>2. CASE /\ IF Codec!Full(enc) THEN UNCHANGED failures ELSE Codec!Fail
                   /\ pc' = Codec!AfterError
                   /\ UNCHANGED <<enc, buf, content>>
            <4>1. failures' \in Nat
                BY <3>2, <1>2, <1>3
            <4>2. pc' = Codec!AfterError /\ UNCHANGED <<enc, buf, content>>
                BY <3>2
            <4>3. QED
                BY <4>1, <4>2, <1>20, <1>2, <1>5, <2>3 DEF Codec!Reencode, CodecTypeOK, Buffers
        <3>3. QED
            BY <1>20, <3>1, <3>2 DEF Codec!Reencode
<1>21. CASE Codec!NoFrame
    BY <1>21 DEF Codec!NoFrame, CodecTypeOK, Buffers
<1>22. CASE Codec!DecoderFails
    BY <1>22, <1>3, <1>5 DEF Codec!DecoderFails, CodecTypeOK, Buffers
<1>23. CASE Codec!EndOfFile
    BY <1>23, <1>1 DEF Codec!EndOfFile, CodecTypeOK, Buffers, Course
<1>24. QED
    BY <1>8, <1>9, <1>10, <1>11, <1>12, <1>13, <1>14, <1>15, <1>16, <1>17, <1>18, <1>19,
       <1>20, <1>21, <1>22, <1>23 DEF Codec!Next

\* No call changes the tool, its file or its codecs; and a failure is counted.
LEMMA WhatStays ==
    ASSUME CodecTypeOK, Phases, Codec!Next
    PROVE  /\ UNCHANGED <<coder, source, delay>>
           /\ failures' = failures \/ failures' = failures + 1
           /\ failures' = 0 => failures = 0 /\ ~Codec!Fail
<1>0. failures \in Nat /\ (broken => failures # 0)
    BY DEF CodecTypeOK, Phases
<1>1. UNCHANGED <<coder, source, delay>>
    BY DEF Codec!Next, Codec!Open, Codec!SendFrame, Codec!SendFrameFails, Codec!FlushEncoder,
           Codec!ReceivePacket, Codec!NoPacket, Codec!EncoderFails, Codec!SkipPacket,
           Codec!SendPacket, Codec!SendPacketFails, Codec!ReceiveFrame, Codec!FilterFails,
           Codec!Reencode, Codec!NoFrame, Codec!DecoderFails, Codec!EndOfFile
<1>2. UNCHANGED failures \/ Codec!Fail
    BY DEF Codec!Next, Codec!Open, Codec!SendFrame, Codec!SendFrameFails, Codec!FlushEncoder,
           Codec!ReceivePacket, Codec!NoPacket, Codec!EncoderFails, Codec!SkipPacket,
           Codec!SendPacket, Codec!SendPacketFails, Codec!ReceiveFrame, Codec!FilterFails,
           Codec!Reencode, Codec!NoFrame, Codec!DecoderFails, Codec!EndOfFile
<1>3. QED
    BY <1>0, <1>1, <1>2 DEF Codec!Fail

LEMMA PhasesStep ==
    ASSUME CodecTypeOK, Phases, Codec!Next
    PROVE  Phases'
<1>1. Course(coder) /\ failures \in Nat /\ (broken => failures # 0)
    BY CourseOfCoder DEF CodecTypeOK, Phases
<1>2. /\ UNCHANGED <<coder, source, delay>>
      /\ Codec!Fail => failures' # 0 /\ failures' \in Nat
      /\ failures' = failures \/ failures' = failures + 1
    BY WhatStays DEF CodecTypeOK
<1>3. CASE Codec!Open
    BY <1>3, <1>2, <1>1 DEF Codec!Open, Phases, Course
<1>4. CASE Codec!SendFrame
    BY <1>4, <1>2, <1>1 DEF Codec!SendFrame, Phases, Course
<1>5. CASE Codec!SendFrameFails
    BY <1>5, <1>2, <1>1 DEF Codec!SendFrameFails, Phases, Course
<1>6. CASE Codec!FlushEncoder
    BY <1>6, <1>2, <1>1 DEF Codec!FlushEncoder, Phases, Course
<1>7. CASE Codec!ReceivePacket
    <2>1. pc' = Codec!AfterPacket /\ UNCHANGED <<dec, emptying, n, failures, broken>>
          /\ pc = "encoder"
        BY <1>7 DEF Codec!ReceivePacket
    <2>2. QED
        BY <2>1, <1>2, <1>1
           DEF Phases, Course, Codec!AfterPacket, Codec!AfterEncoder, Codec!AfterFrame
<1>8. CASE Codec!NoPacket
    BY <1>8, <1>2, <1>1 DEF Codec!NoPacket, Phases, Course, Codec!AfterEncoder, Codec!AfterFrame
<1>9. CASE Codec!EncoderFails
    BY <1>9, <1>2, <1>1 DEF Codec!EncoderFails, Phases, Course, Codec!AfterError,
       Codec!IgnoresEncoder, Codec!AfterEncoder, Codec!AfterFrame
<1>10. CASE Codec!SkipPacket
    BY <1>10, <1>2, <1>1 DEF Codec!SkipPacket, Codec!Reads, Phases, Course, CodecTypeOK
<1>11. CASE Codec!SendPacket
    BY <1>11, <1>2, <1>1 DEF Codec!SendPacket, Codec!Reads, Phases, Course, CodecTypeOK
<1>12. CASE Codec!SendPacketFails
    <2>0. pc = "next" /\ coder.decodes /\ n < Len(source) /\ n \in Nat
        BY <1>12 DEF Codec!SendPacketFails, Codec!Reads, CodecTypeOK
    <2>1. /\ "decoder" \notin emptying /\ "encoder" \notin emptying
          /\ coder.encodes \/ enc = <<>>
        BY <2>0 DEF Phases
    <2>2. pc' = coder.onError /\ UNCHANGED <<dec, enc, emptying, broken>>
        BY <1>12 DEF Codec!SendPacketFails
    <2>3. QED
        BY <2>0, <2>1, <2>2, <1>2, <1>1 DEF Phases, Course
<1>13. CASE Codec!ReceiveFrame
    BY <1>13, <1>2, <1>1 DEF Codec!ReceiveFrame, Codec!AfterFrame, Phases, Course
<1>14. CASE Codec!FilterFails
    BY <1>14, <1>2, <1>1 DEF Codec!FilterFails, Codec!AfterFrame, Phases, Course
<1>15. CASE Codec!Reencode
    BY <1>15, <1>2, <1>1 DEF Codec!Reencode, Phases, Course, Codec!AfterError,
       Codec!IgnoresEncoder, Codec!AfterEncoder, Codec!AfterFrame
<1>16. CASE Codec!NoFrame
    BY <1>16, <1>2, <1>1 DEF Codec!NoFrame, Codec!MayGiveNone, Codec!NeverFilled, Phases, Course
<1>17. CASE Codec!DecoderFails
    BY <1>17, <1>2, <1>1 DEF Codec!DecoderFails, Phases, Course
<1>18. CASE Codec!EndOfFile
    BY <1>18, <1>2, <1>1 DEF Codec!EndOfFile, Phases, Course
<1>19. QED
    BY <1>3, <1>4, <1>5, <1>6, <1>7, <1>8, <1>9, <1>10, <1>11, <1>12, <1>13, <1>14, <1>15,
       <1>16, <1>17, <1>18 DEF Codec!Next

LEMMA RoomStep ==
    ASSUME CodecTypeOK, Phases, RoomLeft, Codec!Next
    PROVE  RoomLeft'
<1>1. Course(coder) /\ failures \in Nat /\ delay \in Nat
    BY CourseOfCoder DEF CodecTypeOK
<1>2. /\ UNCHANGED <<coder, source, delay>> /\ (Lags' <=> Lags)
      /\ failures' = 0 => failures = 0 /\ ~Codec!Fail
    BY WhatStays DEF Lags, Codec!Bursts
<1>3. Len(enc) \in Nat /\ Len(dec) \in Nat
    BY LenProperties DEF CodecTypeOK
<1>4. CASE Codec!Open
    BY <1>4, <1>1, <1>2, <1>3 DEF Codec!Open, RoomLeft, Phases
<1>5. CASE Codec!SendFrame
    <2>1. Len(enc') = Len(enc) + 1
        BY <1>5, AppendProperties, BufferIsFree DEF Codec!SendFrame, CodecTypeOK
    <2>2. QED
        BY <2>1, <1>5, <1>1, <1>2, <1>3 DEF Codec!SendFrame, Codec!Full, RoomLeft, Course
<1>6. CASE Codec!SendFrameFails
    BY <1>6, <1>1, <1>2, <1>3 DEF Codec!SendFrameFails, RoomLeft, Course
<1>7. CASE Codec!FlushEncoder
    BY <1>7, <1>1, <1>2, <1>3 DEF Codec!FlushEncoder, RoomLeft, Course
<1>8. CASE Codec!ReceivePacket
    <2>1. PICK i \in DOMAIN enc : enc' = Codec!RemoveAt(enc, i)
        BY <1>8 DEF Codec!ReceivePacket
    <2>2. Len(enc') = Len(enc) - 1
        BY <2>1, Removed, LenProperties DEF CodecTypeOK
    <2>3. pc = "encoder" /\ pc' = Codec!AfterPacket /\ UNCHANGED <<dec, failures, emptying>>
        BY <1>8 DEF Codec!ReceivePacket
    <2>4. QED
        BY <2>2, <2>3, <1>1, <1>2, <1>3
           DEF RoomLeft, Course, Phases, Codec!AfterPacket, Codec!AfterEncoder, Codec!AfterFrame
<1>9. CASE Codec!NoPacket
    BY <1>9, <1>1, <1>2, <1>3 DEF Codec!NoPacket, Codec!MayGiveNone, Codec!Full, RoomLeft,
       Course, Phases, Codec!AfterEncoder, Codec!AfterFrame
<1>10. CASE Codec!EncoderFails
    BY <1>10, <1>1, <1>2, <1>3 DEF Codec!EncoderFails, RoomLeft
<1>11. CASE Codec!SkipPacket
    BY <1>11, <1>1, <1>2, <1>3 DEF Codec!SkipPacket, RoomLeft
<1>12. CASE Codec!SendPacket
    <2>1. PICK k \in Nat : k = source[n + 1].frames
        BY <1>12, NextPacket DEF Codec!SendPacket
    <2>2. Len(dec') = Len(dec) + k
        <3>1. [i \in 1..k |-> taken + i - 1] \in Seq(Nat)
            BY IsASeq, \A i \in 1..k : taken + i - 1 \in Nat DEF CodecTypeOK
        <3>2. Len([i \in 1..k |-> taken + i - 1]) = k
            BY <3>1, LenProperties
        <3>3. QED
            BY <1>12, <2>1, <3>1, <3>2, ConcatProperties DEF Codec!SendPacket, CodecTypeOK
    <2>3. ~Codec!Bursts => k <= 1
        <3>1. n + 1 \in DOMAIN source
            BY <1>12, NextPacket, LenProperties DEF Codec!SendPacket, CodecTypeOK
        <3>2. QED
            BY <2>1, <3>1 DEF Codec!Bursts
    <2>4. QED
        BY <1>12, <2>1, <2>2, <2>3, <1>1, <1>2, <1>3
           DEF Codec!SendPacket, Codec!Reads, Codec!Full, RoomLeft, Lags
<1>13. CASE Codec!SendPacketFails
    BY <1>13, <1>1, <1>2, <1>3
       DEF Codec!SendPacketFails, Codec!Reads, Codec!Full, RoomLeft, Course
<1>14. CASE dec # <<>> /\ dec' = Tail(dec) /\ pc' = Codec!AfterFrame /\ UNCHANGED enc
            /\ pc = "decoder"
    <2>1. Len(dec') = Len(dec) - 1
        BY <1>14, HeadTailProperties DEF CodecTypeOK
    <2>2. QED
        BY <1>14, <2>1, <1>1, <1>2, <1>3 DEF RoomLeft, Course, Phases, Codec!AfterFrame
<1>15. CASE Codec!Reencode
    <2>1. Len(dec') = Len(dec) - 1 /\ pc = "decoder"
        BY <1>15, HeadTailProperties DEF CodecTypeOK, Codec!Reencode
    <2>2. CASE Len(enc') = Len(enc) + 1 /\ ~Codec!Full(enc) /\ pc' = "encoder"
        BY <2>2, <2>1, <1>1, <1>2, <1>3 DEF RoomLeft, Codec!Full
    <2>3. CASE UNCHANGED enc /\ (Codec!Full(enc) \/ Codec!Fail)
        BY <2>3, <2>1, <1>1, <1>2, <1>3 DEF RoomLeft, Codec!Full
    <2>4. Len(Append(enc, [pts |-> IF coder.name = "h264ToTs" THEN pos ELSE Head(dec),
                           buf |-> Codec!Buffer])) = Len(enc) + 1
        BY AppendProperties, BufferIsFree, <1>15, HeadTailProperties
           DEF CodecTypeOK, Codec!Reencode
    <2>5. QED
        BY <1>15, <2>2, <2>3, <2>4 DEF Codec!Reencode
<1>16. CASE Codec!NoFrame
    BY <1>16, <1>1, <1>2, <1>3, LenProperties
       DEF Codec!NoFrame, Codec!MayGiveNone, Codec!Full, RoomLeft, Phases, Course
<1>17. CASE Codec!DecoderFails
    BY <1>17, <1>1, <1>2, <1>3 DEF Codec!DecoderFails, RoomLeft
<1>18. CASE Codec!EndOfFile
    BY <1>18, <1>1, <1>2, <1>3 DEF Codec!EndOfFile, RoomLeft, Course
<1>19. QED
    BY <1>4, <1>5, <1>6, <1>7, <1>8, <1>9, <1>10, <1>11, <1>12, <1>13, <1>14, <1>15,
       <1>16, <1>17, <1>18 DEF Codec!Next, Codec!ReceiveFrame, Codec!FilterFails

\* The kinds of steps: those that move no frame are alike.
Idle ==
    /\ UNCHANGED <<enc, dec, coded, content, buf, pos>>
    /\ n' >= n /\ taken' >= taken
    /\ ~coder.decodes => n' = n
    /\ failures' = 0 /\ ~Lags => taken' = taken

LEMMA StepKinds ==
    ASSUME CodecTypeOK, Phases, RoomLeft, Codec!Next
    PROVE  \/ Codec!SendFrame \/ Codec!ReceivePacket \/ Codec!SendPacket
           \/ Codec!ReceiveFrame \/ Codec!FilterFails \/ Codec!Reencode \/ Idle
<1>1. /\ Course(coder) /\ n \in Nat /\ taken \in Nat /\ delay \in Nat
      /\ Len(enc) \in Nat /\ Len(dec) \in Nat
    BY CourseOfCoder, LenProperties DEF CodecTypeOK
<1>2. failures' = 0 => failures = 0 /\ ~Codec!Fail
    BY WhatStays
<1>3. CASE Codec!SendFrameFails
    BY <1>1, <1>2, <1>3 DEF Codec!SendFrameFails, RoomLeft, Codec!Full, Idle
<1>4. CASE Codec!SendPacketFails
    <2>1. source[n + 1].frames \in Nat /\ pc = "next" /\ coder.decodes
        BY <1>4, NextPacket DEF Codec!SendPacketFails, Codec!Reads
    <2>2. QED
        BY <1>1, <1>2, <1>4, <2>1 DEF Codec!SendPacketFails, RoomLeft, Codec!Full, Idle
<1>5. CASE Codec!Open \/ Codec!FlushEncoder \/ Codec!NoPacket \/ Codec!EncoderFails
           \/ Codec!NoFrame \/ Codec!DecoderFails \/ Codec!EndOfFile
    <2>1. UNCHANGED <<enc, dec, coded, content, buf, pos, n, taken>>
        BY <1>5 DEF Codec!Open, Codec!FlushEncoder, Codec!NoPacket, Codec!EncoderFails,
                    Codec!NoFrame, Codec!DecoderFails, Codec!EndOfFile
    <2>2. QED
        BY <1>1, <2>1 DEF Idle
<1>6. CASE Codec!SkipPacket
    BY <1>1, <1>6 DEF Codec!SkipPacket, Codec!Reads, Idle
<1>7. QED
    BY <1>3, <1>4, <1>5, <1>6 DEF Codec!Next

\* What the decoder keeps: a sequence and what is left of it.
LEMMA DecodedFrames ==
    ASSUME CodecTypeOK
    PROVE  /\ DOMAIN dec = 1..Len(dec) /\ Len(dec) \in Nat
           /\ \A i \in DOMAIN dec : dec[i] \in Nat
           /\ dec # <<>> =>
                /\ Len(dec) >= 1 /\ Head(dec) = dec[1] /\ Tail(dec) \in Seq(Nat)
                /\ Len(Tail(dec)) = Len(dec) - 1 /\ DOMAIN Tail(dec) = 1..(Len(dec) - 1)
                /\ \A i \in 1..(Len(dec) - 1) : Tail(dec)[i] = dec[i + 1]
<1>1. dec \in Seq(Nat)
    BY DEF CodecTypeOK
<1>2. DOMAIN dec = 1..Len(dec) /\ Len(dec) \in Nat /\ \A i \in DOMAIN dec : dec[i] \in Nat
    BY <1>1, LenProperties, ElementOfSeq
<1>3. ASSUME dec # <<>>
      PROVE  /\ Len(dec) >= 1 /\ Head(dec) = dec[1] /\ Tail(dec) \in Seq(Nat)
             /\ Len(Tail(dec)) = Len(dec) - 1 /\ DOMAIN Tail(dec) = 1..(Len(dec) - 1)
             /\ \A i \in 1..(Len(dec) - 1) : Tail(dec)[i] = dec[i + 1]
    <2>1. /\ Tail(dec) \in Seq(Nat) /\ Len(Tail(dec)) = Len(dec) - 1
          /\ \A i \in 1..Len(Tail(dec)) : Tail(dec)[i] = dec[i + 1]
        BY <1>1, <1>3, HeadTailProperties
    <2>2. DOMAIN Tail(dec) = 1..Len(Tail(dec))
        BY <2>1, LenProperties
    <2>3. Len(dec) # 0
        BY <1>1, <1>3, EmptySeq
    <2>4. Len(dec) >= 1 /\ Head(dec) = dec[1]
        BY <1>1, <1>2, <2>3
    <2>5. QED
        BY <2>1, <2>2, <2>4
<1>4. QED
    BY <1>2, <1>3

\* What the decoder keeps after a packet of k frames.
LEMMA PacketDecoded ==
    ASSUME CodecTypeOK, Codec!SendPacket
    PROVE  \E k \in Nat :
             /\ taken' = taken + k /\ UNCHANGED <<enc, coded, pos, content, buf>>
             /\ n' = n + 1 /\ coder.decodes
             /\ DOMAIN dec' = 1..(Len(dec) + k) /\ Len(dec') = Len(dec) + k
             /\ \A i \in 1..(Len(dec) + k) :
                   dec'[i] = IF i <= Len(dec) THEN dec[i] ELSE taken + (i - Len(dec)) - 1
<1>1. PICK k \in Nat : k = source[n + 1].frames
    BY NextPacket DEF Codec!SendPacket
<1>2. dec \in Seq(Nat) /\ taken \in Nat /\ Len(dec) \in Nat
    BY LenProperties DEF CodecTypeOK
<1> DEFINE d == [i \in 1..k |-> taken + i - 1]
<1>3. d \in Seq(Nat)
    BY <1>2, IsASeq, \A i \in 1..k : taken + i - 1 \in Nat
<1>4. Len(d) = k /\ \A i \in 1..k : d[i] = taken + i - 1
    BY <1>3, LenProperties
<1> HIDE DEF d
<1>5. /\ Len(dec \o d) = Len(dec) + k /\ DOMAIN (dec \o d) = 1..(Len(dec) + k)
      /\ \A i \in 1..(Len(dec) + k) :
            (dec \o d)[i] = IF i <= Len(dec) THEN dec[i] ELSE d[i - Len(dec)]
    <2>1. /\ dec \o d \in Seq(Nat) /\ Len(dec \o d) = Len(dec) + Len(d)
          /\ \A i \in 1..(Len(dec) + Len(d)) :
                (dec \o d)[i] = IF i <= Len(dec) THEN dec[i] ELSE d[i - Len(dec)]
        BY <1>2, <1>3, ConcatProperties
    <2>2. DOMAIN (dec \o d) = 1..Len(dec \o d)
        BY <2>1, LenProperties
    <2>3. QED
        BY <2>1, <2>2, <1>4
<1>6. \A i \in 1..(Len(dec) + k) :
          (dec \o d)[i] = IF i <= Len(dec) THEN dec[i] ELSE taken + (i - Len(dec)) - 1
    <2>1. TAKE i \in 1..(Len(dec) + k)
    <2>2. CASE i <= Len(dec)
        BY <2>2, <1>5
    <2>3. CASE ~(i <= Len(dec))
        BY <2>3, <1>2, <1>4, <1>5, i - Len(dec) \in 1..k
    <2>4. QED
        BY <2>2, <2>3
<1>7. /\ dec' = dec \o d /\ taken' = taken + k /\ UNCHANGED <<enc, coded, pos, content, buf>>
      /\ n' = n + 1 /\ coder.decodes
    BY <1>1 DEF Codec!SendPacket, Codec!Reads, d
<1>8. QED
    BY <1>5, <1>6, <1>7

LEMMA DecodedStep ==
    ASSUME CodecTypeOK, Phases, RoomLeft, DecodedInOrder, Codec!Next
    PROVE  DecodedInOrder'
<1>1. /\ Course(coder) /\ n \in Nat /\ taken \in Nat /\ pos \in Nat
      /\ coder' = coder /\ (failures' = 0 => failures = 0) /\ taken' \in Nat
    BY CourseOfCoder, WhatStays, TypeStep DEF CodecTypeOK
<1>2. /\ DOMAIN dec = 1..Len(dec) /\ Len(dec) \in Nat
      /\ \A i \in DOMAIN dec : dec[i] \in Nat
    BY DecodedFrames
<1>3. CASE Codec!SendFrame
    BY <1>1, <1>2, <1>3 DEF Codec!SendFrame, DecodedInOrder, Course
<1>4. CASE Codec!ReceivePacket
    BY <1>1, <1>2, <1>4 DEF Codec!ReceivePacket, DecodedInOrder
<1>5. CASE Codec!SendPacket
    <2>1. PICK k \in Nat :
             /\ taken' = taken + k /\ UNCHANGED <<enc, coded, pos, content, buf>>
             /\ n' = n + 1 /\ coder.decodes
             /\ DOMAIN dec' = 1..(Len(dec) + k) /\ Len(dec') = Len(dec) + k
             /\ \A i \in 1..(Len(dec) + k) :
                   dec'[i] = IF i <= Len(dec) THEN dec[i] ELSE taken + (i - Len(dec)) - 1
        BY <1>5, PacketDecoded
    <2>2. \A i \in DOMAIN dec' : dec'[i] < taken'
        BY <1>1, <1>2, <2>1 DEF DecodedInOrder
    <2>3. \A i, j \in DOMAIN dec' : i < j => dec'[i] < dec'[j]
        BY <1>1, <1>2, <2>1 DEF DecodedInOrder
    <2>4. ASSUME coder'.name = "h264ToTs", failures' = 0
          PROVE  /\ pos' + Len(dec') = taken'
                 /\ \A i \in DOMAIN dec' : dec'[i] = pos' + i - 1
        <3>1. pos + Len(dec) = taken /\ \A i \in DOMAIN dec : dec[i] = pos + i - 1
            BY <1>1, <2>4 DEF DecodedInOrder
        <3>2. pos' + Len(dec') = taken'
            <4>1. pos' = pos /\ Len(dec') = Len(dec) + k /\ taken' = taken + k
                BY <2>1
            <4>2. pos + (Len(dec) + k) = (pos + Len(dec)) + k
                BY <1>1, <1>2
            <4>3. QED
                BY <3>1, <4>1, <4>2
        <3>3. ASSUME NEW i \in DOMAIN dec' PROVE dec'[i] = pos' + i - 1
            <4>1. i \in 1..(Len(dec) + k) /\ pos' = pos
                BY <2>1
            <4>2. CASE i <= Len(dec)
                <5>1. dec'[i] = dec[i] /\ i \in DOMAIN dec
                    BY <1>2, <2>1, <4>1, <4>2
                <5>2. QED
                    BY <3>1, <4>1, <5>1
            <4>3. CASE ~(i <= Len(dec))
                <5>1. dec'[i] = taken + (i - Len(dec)) - 1
                    BY <2>1, <4>1, <4>3
                <5>2. (pos + Len(dec)) + (i - Len(dec)) - 1 = pos + i - 1
                    BY <1>1, <1>2, <4>1
                <5>3. QED
                    BY <3>1, <4>1, <5>1, <5>2
            <4>4. QED
                BY <4>2, <4>3
        <3>4. QED
            BY <3>2, <3>3
    <2>5. QED
        BY <2>2, <2>3, <2>4 DEF DecodedInOrder
<1>6. CASE /\ dec # <<>> /\ dec' = Tail(dec) /\ taken' = taken
           /\ coder.name = "h264ToTs" => pos' = pos + 1
    <2>1. /\ Len(dec) >= 1 /\ Len(dec') = Len(dec) - 1 /\ DOMAIN dec' = 1..(Len(dec) - 1)
          /\ \A i \in 1..(Len(dec) - 1) : dec'[i] = dec[i + 1]
        BY <1>6, DecodedFrames
    <2>2. QED
        <3>1. \A i \in DOMAIN dec' : dec'[i] = dec[i + 1] /\ i + 1 \in DOMAIN dec
            BY <1>2, <2>1
        <3>2. \A i \in DOMAIN dec' : dec'[i] < taken'
            BY <1>6, <3>1 DEF DecodedInOrder
        <3>3. ASSUME NEW i \in DOMAIN dec', NEW j \in DOMAIN dec', i < j
              PROVE  dec'[i] < dec'[j]
            <4>1. i + 1 < j + 1
                BY <1>2, <2>1, <3>3
            <4>2. QED
                BY <4>1, <3>1 DEF DecodedInOrder
        <3>4. ASSUME coder'.name = "h264ToTs", failures' = 0
              PROVE  /\ pos' + Len(dec') = taken'
                     /\ \A i \in DOMAIN dec' : dec'[i] = pos' + i - 1
            <4>1. pos + Len(dec) = taken /\ \A i \in DOMAIN dec : dec[i] = pos + i - 1
                BY <1>1, <3>4 DEF DecodedInOrder
            <4>2. pos' = pos + 1 /\ taken' = taken
                BY <1>1, <1>6, <3>4
            <4>3. ASSUME NEW i \in DOMAIN dec' PROVE dec'[i] = pos' + i - 1
                BY <1>1, <1>2, <2>1, <3>1, <4>1, <4>2
            <4>4. (pos + 1) + (Len(dec) - 1) = pos + Len(dec)
                BY <1>1, <1>2
            <4>5. pos' + Len(dec') = taken'
                BY <2>1, <4>1, <4>2, <4>4
            <4>6. QED
                BY <4>3, <4>5
        <3>5. QED
            BY <3>2, <3>3, <3>4 DEF DecodedInOrder
<1>7. CASE Codec!ReceiveFrame \/ Codec!FilterFails \/ Codec!Reencode
    BY <1>1, <1>6, <1>7 DEF Codec!ReceiveFrame, Codec!FilterFails, Codec!Reencode, Course
<1>8. CASE Idle
    <2>1. coder.name = "h264ToTs" => ~Lags
        BY <1>1 DEF Course, Lags
    <2>2. QED
        <3>1. dec' = dec /\ pos' = pos /\ taken' \in Int /\ taken' >= taken
              /\ (failures' = 0 /\ ~Lags => taken' = taken)
            BY <1>1, <1>8 DEF Idle
        <3>2. \A i \in DOMAIN dec' : dec'[i] < taken'
            BY <1>1, <1>2, <3>1 DEF DecodedInOrder
        <3>3. QED
            BY <1>1, <2>1, <3>1, <3>2 DEF DecodedInOrder
<1>9. QED
    BY <1>3, <1>4, <1>5, <1>7, <1>8, StepKinds

\* What the encoder keeps and what came out: the elements that steps add and remove.
LEMMA EncodedFrames ==
    ASSUME CodecTypeOK
    PROVE  /\ DOMAIN enc = 1..Len(enc) /\ Len(enc) \in Nat
           /\ DOMAIN coded = 1..Len(coded) /\ Len(coded) \in Nat
           /\ \A i \in DOMAIN enc : enc[i] \in [pts : Nat, buf : Buffers]
           /\ \A i \in DOMAIN coded : coded[i] \in [pts : Nat, content : Nat]
<1>1. enc \in Seq([pts : Nat, buf : Buffers]) /\ coded \in Seq([pts : Nat, content : Nat])
    BY DEF CodecTypeOK
<1>2. /\ DOMAIN enc = 1..Len(enc) /\ Len(enc) \in Nat
      /\ DOMAIN coded = 1..Len(coded) /\ Len(coded) \in Nat
    BY <1>1, LenProperties
<1>3. \A i \in 1..Len(enc) : enc[i] \in [pts : Nat, buf : Buffers]
    BY <1>1, ElementOfSeq
<1>4. \A i \in 1..Len(coded) : coded[i] \in [pts : Nat, content : Nat]
    BY <1>1, ElementOfSeq
<1>5. QED
    BY <1>2, <1>3, <1>4

LEMMA FrameEncoded ==
    ASSUME CodecTypeOK, Phases, RoomLeft,
           \/ Codec!SendFrame
           \/ Codec!Reencode /\ enc' # enc
    PROVE  \E p \in Nat :
             /\ p = IF ~coder.decodes THEN n
                    ELSE IF coder.name = "h264ToTs" THEN pos ELSE Head(dec)
             /\ DOMAIN enc' = 1..(Len(enc) + 1)
             /\ \A i \in 1..(Len(enc) + 1) :
                   enc'[i] = IF i <= Len(enc) THEN enc[i]
                             ELSE [pts |-> p, buf |-> Codec!Buffer]
             /\ content' = [content EXCEPT ![Codec!Buffer] =
                              IF coder.decodes THEN Head(dec) + 1 ELSE Codec!Made]
             /\ buf' = Codec!Buffer /\ coded' = coded
<1> DEFINE p == IF ~coder.decodes THEN n
                ELSE IF coder.name = "h264ToTs" THEN pos ELSE Head(dec)
           e == [pts |-> p, buf |-> Codec!Buffer]
<1>1. Course(coder) /\ n \in Nat /\ pos \in Nat /\ enc \in Seq([pts : Nat, buf : Buffers])
    BY CourseOfCoder DEF CodecTypeOK
<1>2. Codec!Reencode => coder.decodes /\ dec # <<>>
    BY DEF Codec!Reencode, Phases
<1>3. p \in Nat
    BY <1>1, <1>2, DecodedFrames DEF Codec!SendFrame
<1>4. enc' = Append(enc, e) /\ buf' = Codec!Buffer /\ coded' = coded
    BY <1>2 DEF Codec!SendFrame, Codec!Reencode
<1>5. content' = [content EXCEPT ![Codec!Buffer] =
                    IF coder.decodes THEN Head(dec) + 1 ELSE Codec!Made]
    BY <1>2 DEF Codec!SendFrame, Codec!Reencode
<1>6. e \in [pts : Nat, buf : Buffers]
    BY <1>3, BufferIsFree
<1> HIDE DEF e
<1>7. /\ DOMAIN enc' = 1..(Len(enc) + 1)
      /\ \A i \in 1..(Len(enc) + 1) : enc'[i] = IF i <= Len(enc) THEN enc[i] ELSE e
    BY <1>1, <1>4, <1>6, Appended
<1> USE DEF e
<1> HIDE DEF p
<1>8. QED
    BY <1>3, <1>4, <1>5, <1>7 DEF p

LEMMA PacketReceived ==
    ASSUME CodecTypeOK, Codec!ReceivePacket
    PROVE  \E i \in 1..Len(enc) :
             /\ DOMAIN coded' = 1..(Len(coded) + 1)
             /\ \A j \in 1..(Len(coded) + 1) :
                   coded'[j] = IF j <= Len(coded) THEN coded[j]
                               ELSE [pts |-> enc[i].pts, content |-> content[enc[i].buf]]
             /\ DOMAIN enc' = 1..(Len(enc) - 1)
             /\ \A j \in 1..(Len(enc) - 1) : enc'[j] = IF j < i THEN enc[j] ELSE enc[j + 1]
             /\ UNCHANGED <<coder, source, n, taken, dec, pos, buf, content, failures>>
<1>1. PICK i \in DOMAIN enc :
        /\ coded' = Append(coded, [pts |-> enc[i].pts, content |-> content[enc[i].buf]])
        /\ enc' = Codec!RemoveAt(enc, i)
    BY DEF Codec!ReceivePacket
<1>2. /\ i \in 1..Len(enc) /\ enc[i] \in [pts : Nat, buf : Buffers]
      /\ content[enc[i].buf] \in Nat
    BY EncodedFrames DEF CodecTypeOK
<1>3. /\ DOMAIN enc' = 1..(Len(enc) - 1)
      /\ \A j \in 1..(Len(enc) - 1) : enc'[j] = IF j < i THEN enc[j] ELSE enc[j + 1]
    <2>1. enc' \in Seq([pts : Nat, buf : Buffers]) /\ Len(enc') = Len(enc) - 1
          /\ \A j \in 1..(Len(enc) - 1) : enc'[j] = IF j < i THEN enc[j] ELSE enc[j + 1]
        BY <1>1, <1>2, Removed DEF CodecTypeOK
    <2>2. QED
        BY <2>1, LenProperties
<1> DEFINE u == [pts |-> enc[i].pts, content |-> content[enc[i].buf]]
<1>4. u \in [pts : Nat, content : Nat]
    BY <1>2
<1>5. coded \in Seq([pts : Nat, content : Nat]) /\ coded' = Append(coded, u)
    BY <1>1 DEF CodecTypeOK
<1> HIDE DEF u
<1>6. /\ DOMAIN coded' = 1..(Len(coded) + 1)
      /\ \A j \in 1..(Len(coded) + 1) : coded'[j] = IF j <= Len(coded) THEN coded[j] ELSE u
    BY <1>4, <1>5, Appended
<1>7. UNCHANGED <<coder, source, n, taken, dec, pos, buf, content, failures>>
    BY DEF Codec!ReceivePacket
<1>8. QED
    BY <1>2, <1>3, <1>6, <1>7 DEF u

LEMMA FrameShown ==
    ASSUME CodecTypeOK, Codec!ReceiveFrame
    PROVE  /\ DOMAIN coded' = 1..(Len(coded) + 1)
           /\ \A j \in 1..(Len(coded) + 1) :
                 coded'[j] = IF j <= Len(coded) THEN coded[j]
                             ELSE [pts |-> dec[1], content |-> dec[1] + 1]
           /\ dec # <<>> /\ dec' = Tail(dec) /\ dec[1] \in Nat
           /\ coder.decodes /\ ~coder.encodes
           /\ UNCHANGED <<coder, source, n, taken, enc, pos, buf, content, failures>>
<1>1. /\ coded' = Append(coded, [pts |-> Head(dec), content |-> Head(dec) + 1])
      /\ dec # <<>> /\ dec' = Tail(dec) /\ ~coder.encodes
      /\ UNCHANGED <<coder, source, n, taken, enc, pos, buf, content, failures>>
    BY DEF Codec!ReceiveFrame
<1>2. Head(dec) = dec[1] /\ dec[1] \in Nat
    BY <1>1, DecodedFrames
<1>3. coder.decodes
    BY <1>1, CourseOfCoder DEF Course
<1> DEFINE u == [pts |-> dec[1], content |-> dec[1] + 1]
<1>4. u \in [pts : Nat, content : Nat] /\ coded' = Append(coded, u)
      /\ coded \in Seq([pts : Nat, content : Nat])
    BY <1>1, <1>2 DEF CodecTypeOK
<1> HIDE DEF u
<1>5. /\ DOMAIN coded' = 1..(Len(coded) + 1)
      /\ \A j \in 1..(Len(coded) + 1) : coded'[j] = IF j <= Len(coded) THEN coded[j] ELSE u
    BY <1>4, Appended
<1>6. QED
    BY <1>1, <1>2, <1>3, <1>5 DEF u

LEMMA Below ==
    ASSUME NEW a \in Nat, NEW b \in Nat
    PROVE  a < b <=> a \in 0..(b - 1)
OBVIOUS

\* A number that was used stays used.
LEMMA SentStays ==
    ASSUME CodecTypeOK, Phases, RoomLeft, Codec!Next, NEW p \in Nat, p \in Used
    PROVE  p \in Used'
<1>1. /\ Course(coder) /\ n \in Nat /\ taken \in Nat /\ pos \in Nat /\ coder' = coder
      /\ n' \in Nat /\ taken' \in Nat /\ pos' \in Nat
    BY CourseOfCoder, WhatStays, TypeStep DEF CodecTypeOK
<1>2. /\ DOMAIN dec = 1..Len(dec) /\ Len(dec) \in Nat
      /\ \A i \in DOMAIN dec : dec[i] \in Nat
    BY DecodedFrames
<1>3. CASE Codec!SendFrame
    BY <1>1, <1>3 DEF Codec!SendFrame, Used
<1>4. CASE Codec!ReceivePacket
    BY <1>1, <1>4, PacketReceived DEF Used
<1>5. CASE Codec!SendPacket
    <2>1. PICK k \in Nat :
             /\ taken' = taken + k /\ UNCHANGED <<enc, coded, pos, content, buf>>
             /\ n' = n + 1 /\ coder.decodes
             /\ DOMAIN dec' = 1..(Len(dec) + k) /\ Len(dec') = Len(dec) + k
             /\ \A i \in 1..(Len(dec) + k) :
                   dec'[i] = IF i <= Len(dec) THEN dec[i] ELSE taken + (i - Len(dec)) - 1
        BY <1>5, PacketDecoded
    <2>2. ASSUME p < taken, \A i \in DOMAIN dec : p < dec[i]
          PROVE  p < taken' /\ \A i \in DOMAIN dec' : p < dec'[i]
        BY <1>1, <1>2, <2>1, <2>2
    <2>3. QED
        BY <1>1, <2>1, <2>2 DEF Used
<1>6. CASE dec # <<>> /\ dec' = Tail(dec) /\ taken' = taken /\ pos' >= pos /\ n' = n
    <2>1. DOMAIN dec' = 1..(Len(dec) - 1) /\ \A i \in 1..(Len(dec) - 1) : dec'[i] = dec[i + 1]
        BY <1>6, DecodedFrames
    <2>2. ASSUME \A i \in DOMAIN dec : p < dec[i]
          PROVE  \A i \in DOMAIN dec' : p < dec'[i]
        BY <1>2, <2>1, <2>2
    <2>3. QED
        <3>1. CASE ~coder.decodes
            BY <1>1, <1>6, <3>1 DEF Used
        <3>2. CASE coder.decodes /\ coder.name = "h264ToTs"
            <4>1. Used = 0..(pos - 1) /\ Used' = 0..(pos' - 1)
                BY <1>1, <3>2 DEF Used
            <4>2. p < pos
                BY <1>1, <4>1
            <4>3. p < pos'
                BY <1>1, <1>6, <4>2
            <4>4. p \in 0..(pos' - 1)
                BY <1>1, <4>3, Below
            <4>5. QED
                BY <4>1, <4>4
        <3>3. CASE coder.decodes /\ coder.name # "h264ToTs"
            BY <1>1, <1>6, <2>2, <3>3 DEF Used
        <3>4. QED
            BY <1>1, <3>1, <3>2, <3>3 DEF Course
<1>7. CASE Codec!ReceiveFrame \/ Codec!FilterFails \/ Codec!Reencode
    BY <1>1, <1>6, <1>7 DEF Codec!ReceiveFrame, Codec!FilterFails, Codec!Reencode
<1>8. CASE Idle
    <2>1. CASE ~coder.decodes
        BY <1>1, <1>8, <2>1 DEF Idle, Used
    <2>2. CASE coder.decodes /\ coder.name = "h264ToTs"
        BY <1>1, <1>8, <2>2 DEF Idle, Used
    <2>3. CASE coder.decodes /\ coder.name # "h264ToTs"
        <3>1. /\ Used = {q \in 0..(taken - 1) : \A i \in DOMAIN dec : q < dec[i]}
              /\ Used' = {q \in 0..(taken' - 1) : \A i \in DOMAIN dec' : q < dec'[i]}
            BY <1>1, <2>3 DEF Used
        <3>2. taken' >= taken /\ dec' = dec
            BY <1>8 DEF Idle
        <3>3. p < taken /\ \A i \in DOMAIN dec : p < dec[i]
            BY <1>1, <3>1
        <3>4. p < taken' /\ \A i \in DOMAIN dec' : p < dec'[i]
            BY <1>1, <3>2, <3>3
        <3>5. p \in 0..(taken' - 1)
            BY <1>1, <3>4, Below
        <3>6. QED
            BY <3>1, <3>4, <3>5
    <2>4. QED
        BY <1>1, <2>1, <2>2, <2>3 DEF Course
<1>9. QED
    BY <1>3, <1>4, <1>5, <1>7, <1>8, StepKinds

\* The number of the frame that goes to the encoder or is shown was not used, and
\* is now.
LEMMA NumberIsNew ==
    ASSUME CodecTypeOK, Phases, RoomLeft, DecodedInOrder,
           \/ Codec!SendFrame
           \/ Codec!Reencode
           \/ Codec!ReceiveFrame,
           NEW p \in Nat,
           p = IF ~coder.decodes THEN n ELSE IF coder.name = "h264ToTs" THEN pos ELSE Head(dec)
    PROVE  p \notin Used /\ p \in Used'
<1>1. Course(coder) /\ n \in Nat /\ taken \in Nat /\ pos \in Nat /\ coder' = coder
    BY CourseOfCoder DEF CodecTypeOK, Codec!SendFrame, Codec!Reencode, Codec!ReceiveFrame
<1>2. CASE Codec!SendFrame
    BY <1>1, <1>2 DEF Codec!SendFrame, Used
<1>3. CASE Codec!Reencode \/ Codec!ReceiveFrame
    <2>1. /\ coder.decodes /\ dec # <<>> /\ dec' = Tail(dec) /\ taken' = taken
          /\ coder.name = "h264ToTs" => pos' = pos + 1
        BY <1>1, <1>3 DEF Codec!Reencode, Codec!ReceiveFrame, Phases, Course
    <2>2. /\ Head(dec) = dec[1] /\ Len(dec) \in Nat /\ Len(dec) >= 1 /\ DOMAIN dec = 1..Len(dec)
          /\ DOMAIN dec' = 1..(Len(dec) - 1) /\ \A i \in 1..(Len(dec) - 1) : dec'[i] = dec[i + 1]
        BY <2>1, DecodedFrames
    <2>3. CASE coder.name = "h264ToTs"
        BY <1>1, <2>1, <2>3 DEF Used
    <2>4. CASE coder.name # "h264ToTs"
        <3>1. p = dec[1] /\ 1 \in DOMAIN dec
            BY <2>1, <2>2, <2>4
        <3>2. p \notin Used
            BY <2>1, <2>4, <3>1 DEF Used
        <3>3. p < taken'
            BY <2>1, <3>1 DEF DecodedInOrder
        <3>4. ASSUME NEW i \in DOMAIN dec' PROVE p < dec'[i]
            <4>1. i + 1 \in DOMAIN dec /\ 1 < i + 1 /\ dec'[i] = dec[i + 1]
                BY <2>2
            <4>2. QED
                BY <3>1, <4>1 DEF DecodedInOrder
        <3>5. QED
            BY <1>1, <2>1, <2>4, <3>2, <3>3, <3>4 DEF Used
    <2>5. QED
        BY <2>3, <2>4
<1>4. QED
    BY <1>2, <1>3

LEMMA NoRepeatStep ==
    ASSUME CodecTypeOK, Phases, RoomLeft, DecodedInOrder, NoRepeat, Codec!Next
    PROVE  NoRepeat'
<1>1. Course(coder) /\ n \in Nat /\ pos \in Nat
    BY CourseOfCoder DEF CodecTypeOK
<1>2. /\ DOMAIN enc = 1..Len(enc) /\ Len(enc) \in Nat
      /\ DOMAIN coded = 1..Len(coded) /\ Len(coded) \in Nat
      /\ \A i \in DOMAIN enc : enc[i].pts \in Nat
      /\ \A i \in DOMAIN coded : coded[i].pts \in Nat
    BY EncodedFrames
<1>3. /\ \A i \in DOMAIN enc : enc[i].pts \in Used /\ enc[i].pts \in Used'
      /\ \A i \in DOMAIN coded : coded[i].pts \in Used /\ coded[i].pts \in Used'
    <2>1. ASSUME NEW q \in Nat, q \in Used PROVE q \in Used'
        BY <2>1, SentStays
    <2>2. \A i \in DOMAIN enc : enc[i].pts \in Nat /\ enc[i].pts \in Used
        BY <1>2 DEF NoRepeat
    <2>3. \A i \in DOMAIN coded : coded[i].pts \in Nat /\ coded[i].pts \in Used
        BY <1>2 DEF NoRepeat
    <2>4. QED
        BY <2>1, <2>2, <2>3
<1>4. CASE UNCHANGED <<enc, coded>>
    BY <1>3, <1>4 DEF NoRepeat
<1>5. CASE Codec!SendFrame \/ (Codec!Reencode /\ enc' # enc)
    <2>1. PICK p \in Nat :
             /\ p = IF ~coder.decodes THEN n
                    ELSE IF coder.name = "h264ToTs" THEN pos ELSE Head(dec)
             /\ DOMAIN enc' = 1..(Len(enc) + 1)
             /\ \A i \in 1..(Len(enc) + 1) :
                   enc'[i] = IF i <= Len(enc) THEN enc[i]
                             ELSE [pts |-> p, buf |-> Codec!Buffer]
             /\ coded' = coded
        BY <1>5, FrameEncoded
    <2>2. p \notin Used /\ p \in Used'
        BY <1>5, <2>1, NumberIsNew
    <2>3. \A i \in DOMAIN enc' : IF i \in DOMAIN enc THEN enc'[i] = enc[i]
                                 ELSE i = Len(enc) + 1 /\ enc'[i].pts = p
        BY <1>2, <2>1
    <2>4. \A i \in DOMAIN enc : enc[i].pts # p
        BY <1>3, <2>2
    <2>5. \A i \in DOMAIN coded : coded[i].pts # p
        BY <1>3, <2>2
    <2>6. \A i, j \in DOMAIN enc' : i # j => enc'[i].pts # enc'[j].pts
        BY <2>3, <2>4 DEF NoRepeat
    <2>7. \A i \in DOMAIN coded', j \in DOMAIN enc' : coded'[i].pts # enc'[j].pts
        BY <2>1, <2>3, <2>5 DEF NoRepeat
    <2>8. \A i \in DOMAIN enc' : enc'[i].pts \in Used'
        BY <1>3, <2>2, <2>3
    <2>9. QED
        BY <1>3, <2>1, <2>6, <2>7, <2>8 DEF NoRepeat
<1>6. CASE Codec!ReceivePacket
    <2>1. PICK i \in 1..Len(enc) :
             /\ DOMAIN coded' = 1..(Len(coded) + 1)
             /\ \A j \in 1..(Len(coded) + 1) :
                   coded'[j] = IF j <= Len(coded) THEN coded[j]
                               ELSE [pts |-> enc[i].pts, content |-> content[enc[i].buf]]
             /\ DOMAIN enc' = 1..(Len(enc) - 1)
             /\ \A j \in 1..(Len(enc) - 1) : enc'[j] = IF j < i THEN enc[j] ELSE enc[j + 1]
        BY <1>6, PacketReceived
    <2>2. \A j \in DOMAIN coded' : IF j \in DOMAIN coded THEN coded'[j] = coded[j]
                                   ELSE j = Len(coded) + 1 /\ coded'[j].pts = enc[i].pts
        BY <1>2, <2>1
    <2> DEFINE old(j) == IF j < i THEN j ELSE j + 1
    <2>3. \A j \in DOMAIN enc' : old(j) \in DOMAIN enc /\ old(j) # i /\ enc'[j] = enc[old(j)]
        BY <1>2, <2>1
    <2>4. \A j, k \in DOMAIN enc' : j # k => old(j) # old(k)
        BY <1>2, <2>1
    <2> HIDE DEF old
    <2>5. i \in DOMAIN enc
        BY <1>2
    <2>6. \A j, k \in DOMAIN enc' : j # k => enc'[j].pts # enc'[k].pts
        BY <2>3, <2>4 DEF NoRepeat
    <2>7. \A j, k \in DOMAIN coded' : j # k => coded'[j].pts # coded'[k].pts
        BY <2>2, <2>5 DEF NoRepeat
    <2>8. \A j \in DOMAIN coded', k \in DOMAIN enc' : coded'[j].pts # enc'[k].pts
        BY <2>2, <2>3, <2>5 DEF NoRepeat
    <2>9. /\ \A j \in DOMAIN enc' : enc'[j].pts \in Used'
          /\ \A j \in DOMAIN coded' : coded'[j].pts \in Used'
        BY <1>3, <2>2, <2>3, <2>5
    <2>10. QED
        BY <2>6, <2>7, <2>8, <2>9 DEF NoRepeat
<1>7. CASE Codec!ReceiveFrame
    <2>1. /\ DOMAIN coded' = 1..(Len(coded) + 1)
          /\ \A j \in 1..(Len(coded) + 1) :
                coded'[j] = IF j <= Len(coded) THEN coded[j]
                            ELSE [pts |-> dec[1], content |-> dec[1] + 1]
          /\ dec # <<>> /\ dec[1] \in Nat /\ coder.decodes /\ ~coder.encodes
        BY <1>7, FrameShown
    <2>2. dec[1] \notin Used /\ dec[1] \in Used'
        <3>1. dec[1] = Head(dec)
            BY <2>1, DecodedFrames
        <3>2. dec[1] = IF ~coder.decodes THEN n
                       ELSE IF coder.name = "h264ToTs" THEN pos ELSE Head(dec)
            BY <1>1, <2>1, <3>1 DEF Course
        <3>3. PICK p \in Nat : p = dec[1]
            BY <2>1
        <3>4. p \notin Used /\ p \in Used'
            BY <1>7, <3>2, <3>3, NumberIsNew
        <3>5. QED
            BY <3>3, <3>4
    <2>3. enc = <<>> /\ enc' = <<>>
        BY <1>7, <2>1 DEF Codec!ReceiveFrame, Phases
    <2>4. \A j \in DOMAIN coded' : IF j \in DOMAIN coded THEN coded'[j] = coded[j]
                                   ELSE j = Len(coded) + 1 /\ coded'[j].pts = dec[1]
        BY <1>2, <2>1
    <2>5. \A i \in DOMAIN coded : coded[i].pts # dec[1]
        BY <1>3, <2>2
    <2>6. \A j, k \in DOMAIN coded' : j # k => coded'[j].pts # coded'[k].pts
        BY <2>4, <2>5 DEF NoRepeat
    <2>7. \A j \in DOMAIN coded' : coded'[j].pts \in Used'
        BY <1>3, <2>2, <2>4
    <2>8. QED
        BY <2>3, <2>6, <2>7 DEF NoRepeat
<1>8. Codec!SendPacket \/ Codec!FilterFails \/ Idle => UNCHANGED <<enc, coded>>
    BY DEF Codec!SendPacket, Codec!FilterFails, Idle
<1>9. Codec!Reencode => UNCHANGED coded
    BY DEF Codec!Reencode
<1>10. QED
    BY <1>4, <1>5, <1>6, <1>7, <1>8, <1>9, StepKinds

LEMMA AccountedStep ==
    ASSUME CodecTypeOK, Phases, RoomLeft, DecodedInOrder, NoRepeat, Accounted, Codec!Next
    PROVE  Accounted'
<1>1. /\ Course(coder) /\ n \in Nat /\ pos \in Nat /\ taken \in Nat
      /\ UNCHANGED <<coder, source, delay>> /\ (Lags' <=> Lags)
      /\ failures' = 0 => failures = 0 /\ ~Codec!Fail
    BY CourseOfCoder, WhatStays DEF CodecTypeOK, Lags, Codec!Bursts
<1>2. /\ DOMAIN enc = 1..Len(enc) /\ Len(enc) \in Nat
      /\ DOMAIN coded = 1..Len(coded) /\ Len(coded) \in Nat
      /\ DOMAIN dec = 1..Len(dec) /\ Len(dec) \in Nat
    BY EncodedFrames, DecodedFrames
<1>3. SUFFICES ASSUME failures' = 0, ~Lags
               PROVE  /\ ~coder.decodes => taken' = n'
                      /\ \A p \in 0..(taken' - 1) : Whereabouts(p)'
    BY <1>1 DEF Accounted
<1>4. /\ ~coder.decodes => taken = n
      /\ \A p \in 0..(taken - 1) : Whereabouts(p)
    BY <1>1, <1>3 DEF Accounted
<1>5. CASE Idle
    BY <1>1, <1>3, <1>4, <1>5 DEF Idle, Whereabouts
<1>6. CASE Codec!SendFrame
    <2>1. PICK p \in Nat :
             /\ p = n /\ DOMAIN enc' = 1..(Len(enc) + 1)
             /\ \A i \in 1..(Len(enc) + 1) :
                   enc'[i] = IF i <= Len(enc) THEN enc[i]
                             ELSE [pts |-> p, buf |-> Codec!Buffer]
        BY <1>6, FrameEncoded DEF Codec!SendFrame
    <2>2. UNCHANGED <<dec, coded>> /\ n' = n + 1 /\ taken' = taken + 1 /\ taken = n
        BY <1>4, <1>6 DEF Codec!SendFrame
    <2>3. /\ \A i \in DOMAIN enc : i \in DOMAIN enc' /\ enc'[i] = enc[i]
          /\ Len(enc) + 1 \in DOMAIN enc' /\ enc'[Len(enc) + 1].pts = n
        BY <1>2, <2>1
    <2>4. ASSUME NEW q \in 0..(taken' - 1) PROVE Whereabouts(q)'
        <3>1. CASE q = n
            BY <2>3, <3>1 DEF Whereabouts
        <3>2. CASE q # n
            <4>1. q \in 0..(taken - 1)
                BY <1>1, <2>2, <3>2
            <4>2. Whereabouts(q)
                BY <1>4, <4>1
            <4>3. QED
                BY <2>2, <2>3, <4>2 DEF Whereabouts
        <3>3. QED
            BY <3>1, <3>2
    <2>5. QED
        BY <1>1, <2>2, <2>4
<1>7. CASE Codec!ReceivePacket
    <2>1. PICK i \in 1..Len(enc) :
             /\ DOMAIN coded' = 1..(Len(coded) + 1)
             /\ \A j \in 1..(Len(coded) + 1) :
                   coded'[j] = IF j <= Len(coded) THEN coded[j]
                               ELSE [pts |-> enc[i].pts, content |-> content[enc[i].buf]]
             /\ DOMAIN enc' = 1..(Len(enc) - 1)
             /\ \A j \in 1..(Len(enc) - 1) : enc'[j] = IF j < i THEN enc[j] ELSE enc[j + 1]
             /\ UNCHANGED <<n, taken, dec>>
        BY <1>7, PacketReceived
    <2>2. /\ \A j \in DOMAIN coded : j \in DOMAIN coded' /\ coded'[j] = coded[j]
          /\ Len(coded) + 1 \in DOMAIN coded' /\ coded'[Len(coded) + 1].pts = enc[i].pts
        BY <1>2, <2>1
    <2>3. ASSUME NEW j \in DOMAIN enc, j # i PROVE \E k \in DOMAIN enc' : enc'[k] = enc[j]
        <3>1. CASE j < i
            BY <1>2, <2>1, <3>1, j \in DOMAIN enc'
        <3>2. CASE j > i
            <4>1. j - 1 \in DOMAIN enc' /\ ~(j - 1 < i) /\ (j - 1) + 1 = j
                BY <1>2, <2>1, <3>2
            <4>2. QED
                BY <2>1, <4>1
        <3>3. QED
            BY <1>2, <2>3, <3>1, <3>2
    <2>4. ASSUME NEW q \in 0..(taken - 1) PROVE Whereabouts(q)'
        <3>1. Whereabouts(q)
            BY <1>4
        <3>2. CASE \E j \in DOMAIN coded : coded[j].pts = q
            BY <2>2, <3>2 DEF Whereabouts
        <3>3. CASE \E j \in DOMAIN enc : enc[j].pts = q
            BY <2>2, <2>3, <3>3 DEF Whereabouts
        <3>4. CASE \E j \in DOMAIN dec : dec[j] = q
            BY <2>1, <3>4 DEF Whereabouts
        <3>5. QED
            BY <3>1, <3>2, <3>3, <3>4 DEF Whereabouts
    <2>5. QED
        BY <1>4, <2>1, <2>4
<1>8. CASE Codec!SendPacket
    <2>1. PICK k \in Nat :
             /\ taken' = taken + k /\ UNCHANGED <<enc, coded>> /\ coder.decodes
             /\ DOMAIN dec' = 1..(Len(dec) + k)
             /\ \A i \in 1..(Len(dec) + k) :
                   dec'[i] = IF i <= Len(dec) THEN dec[i] ELSE taken + (i - Len(dec)) - 1
        BY <1>8, PacketDecoded
    <2>2. \A j \in DOMAIN dec : j \in DOMAIN dec' /\ dec'[j] = dec[j]
        BY <1>2, <2>1
    <2>3. ASSUME NEW q \in 0..(taken' - 1) PROVE Whereabouts(q)'
        <3>1. CASE q < taken
            <4>1. Whereabouts(q)
                BY <1>1, <1>4, <3>1
            <4>2. QED
                BY <2>1, <2>2, <4>1 DEF Whereabouts
        <3>2. CASE ~(q < taken)
            <4>0. Len(dec) + (q - taken) + 1 \in Int
                BY <1>1, <1>2
            <4>1. PICK i \in Int : i = Len(dec) + (q - taken) + 1
                BY <4>0
            <4>2. i \in DOMAIN dec' /\ ~(i <= Len(dec)) /\ taken + (i - Len(dec)) - 1 = q
                BY <1>1, <1>2, <2>1, <3>2, <4>1
            <4>3. dec'[i] = q
                BY <2>1, <4>2
            <4>4. QED
                BY <4>2, <4>3 DEF Whereabouts
        <3>3. QED
            BY <3>1, <3>2
    <2>4. QED
        BY <2>1, <2>3
<1>9. ASSUME dec # <<>>, dec' = Tail(dec), NEW q, Whereabouts(q), q # dec[1],
             \A i \in DOMAIN coded : \E j \in DOMAIN coded' : coded'[j] = coded[i],
             \A i \in DOMAIN enc : \E j \in DOMAIN enc' : enc'[j] = enc[i]
      PROVE  Whereabouts(q)'
    <2>1. /\ Len(dec) >= 1 /\ DOMAIN dec' = 1..(Len(dec) - 1)
          /\ \A i \in 1..(Len(dec) - 1) : dec'[i] = dec[i + 1]
        BY <1>9, DecodedFrames
    <2>2. ASSUME NEW i \in DOMAIN dec, dec[i] = q PROVE \E j \in DOMAIN dec' : dec'[j] = q
        <3>1. i # 1 /\ i \in 1..Len(dec)
            BY <1>2, <1>9, <2>2
        <3>2. i - 1 \in DOMAIN dec' /\ (i - 1) + 1 = i
            BY <1>2, <2>1, <3>1
        <3>3. QED
            BY <2>1, <2>2, <3>2
    <2>3. QED
        BY <1>9, <2>2 DEF Whereabouts
<1>10. CASE Codec!ReceiveFrame
    <2>1. /\ DOMAIN coded' = 1..(Len(coded) + 1)
          /\ \A j \in 1..(Len(coded) + 1) :
                coded'[j] = IF j <= Len(coded) THEN coded[j]
                            ELSE [pts |-> dec[1], content |-> dec[1] + 1]
          /\ dec # <<>> /\ dec' = Tail(dec) /\ coder.decodes
          /\ UNCHANGED <<n, taken, enc>>
        BY <1>10, FrameShown
    <2>2. /\ \A j \in DOMAIN coded : j \in DOMAIN coded' /\ coded'[j] = coded[j]
          /\ Len(coded) + 1 \in DOMAIN coded' /\ coded'[Len(coded) + 1].pts = dec[1]
        BY <1>2, <2>1
    <2>3. ASSUME NEW q \in 0..(taken - 1) PROVE Whereabouts(q)'
        <3>1. CASE q = dec[1]
            BY <2>2, <3>1 DEF Whereabouts
        <3>2. CASE q # dec[1]
            <4>1. Whereabouts(q)
                BY <1>4
            <4>2. \A i \in DOMAIN enc : \E j \in DOMAIN enc' : enc'[j] = enc[i]
                BY <2>1
            <4>3. \A i \in DOMAIN coded : \E j \in DOMAIN coded' : coded'[j] = coded[i]
                BY <2>2
            <4>4. QED
                BY <1>9, <2>1, <3>2, <4>1, <4>2, <4>3
        <3>3. QED
            BY <3>1, <3>2
    <2>4. QED
        BY <2>1, <2>3
<1>11. CASE Codec!FilterFails
    BY <1>1, <1>3, <1>11 DEF Codec!FilterFails
<1>12. CASE Codec!Reencode
    <2>1. ~Codec!Full(enc)
        BY <1>1, <1>2, <1>3, <1>12 DEF Codec!Reencode, RoomLeft, Codec!Full, CodecTypeOK
    <2>2. /\ enc' = Append(enc, [pts |-> IF coder.name = "h264ToTs" THEN pos ELSE Head(dec),
                                 buf |-> Codec!Buffer])
          /\ coder.decodes /\ dec # <<>> /\ dec' = Tail(dec) /\ UNCHANGED <<n, taken, coded>>
        BY <1>1, <1>3, <1>12, <2>1 DEF Codec!Reencode, Phases
    <2>3. Len(enc') = Len(enc) + 1
        BY <2>2, AppendProperties DEF CodecTypeOK
    <2>4. PICK p \in Nat :
             /\ p = IF coder.name = "h264ToTs" THEN pos ELSE Head(dec)
             /\ DOMAIN enc' = 1..(Len(enc) + 1)
             /\ \A i \in 1..(Len(enc) + 1) :
                   enc'[i] = IF i <= Len(enc) THEN enc[i]
                             ELSE [pts |-> p, buf |-> Codec!Buffer]
        <3>1. enc' # enc
            BY <1>2, <2>3
        <3>2. QED
            BY <1>12, <2>2, <3>1, FrameEncoded
    <2>5. /\ \A i \in DOMAIN enc : i \in DOMAIN enc' /\ enc'[i] = enc[i]
          /\ Len(enc) + 1 \in DOMAIN enc' /\ enc'[Len(enc) + 1].pts = p
        BY <1>2, <2>4
    <2>6. p = dec[1]
        <3>1. Head(dec) = dec[1] /\ 1 \in DOMAIN dec
            BY <1>2, <2>2, DecodedFrames
        <3>2. coder.name = "h264ToTs" => dec[1] = pos + 1 - 1
            BY <1>1, <1>3, <3>1 DEF DecodedInOrder
        <3>3. QED
            BY <1>1, <2>4, <3>1, <3>2
    <2>7. ASSUME NEW q \in 0..(taken - 1) PROVE Whereabouts(q)'
        <3>1. CASE q = dec[1]
            BY <2>5, <2>6, <3>1 DEF Whereabouts
        <3>2. CASE q # dec[1]
            <4>1. Whereabouts(q)
                BY <1>4
            <4>2. \A i \in DOMAIN enc : \E j \in DOMAIN enc' : enc'[j] = enc[i]
                BY <2>5
            <4>3. \A i \in DOMAIN coded : \E j \in DOMAIN coded' : coded'[j] = coded[i]
                BY <2>2
            <4>4. QED
                BY <1>9, <2>2, <3>2, <4>1, <4>2, <4>3
        <3>3. QED
            BY <3>1, <3>2
    <2>8. QED
        BY <2>2, <2>7
<1>13. QED
    BY <1>5, <1>6, <1>7, <1>8, <1>10, <1>11, <1>12, StepKinds

LEMMA EmptiedStep ==
    ASSUME CodecTypeOK, Phases, RoomLeft, Emptied, Codec!Next
    PROVE  Emptied'
<1>1. /\ Course(coder) /\ delay \in Nat /\ Len(enc) \in Nat /\ Len(dec) \in Nat
      /\ UNCHANGED <<coder, source, delay>> /\ (Lags' <=> Lags)
      /\ failures' = 0 => failures = 0 /\ ~Codec!Fail
    BY CourseOfCoder, WhatStays, LenProperties
       DEF CodecTypeOK, Lags, Codec!Bursts
<1>2. SUFFICES ASSUME failures' = 0, ~Lags, pc' \in {"done", "failed"}
               PROVE  /\ Codec!NeverFilled' \/ enc' = <<>>
                      /\ coder.encodes => dec' = <<>>
    BY <1>1 DEF Emptied
<1>3. failures = 0 /\ ~Codec!Fail
    BY <1>1, <1>2
<1>4. Codec!AfterFrame \notin {"done", "failed"}
    BY DEF Codec!AfterFrame
<1>5. CASE Codec!Open
    BY <1>5 DEF Codec!Open, Phases
<1>6. CASE Codec!SendFrame
    BY <1>2, <1>6 DEF Codec!SendFrame
<1>7. CASE Codec!SendFrameFails
    BY <1>1, <1>3, <1>7 DEF Codec!SendFrameFails, RoomLeft, Codec!Full
<1>8. CASE Codec!FlushEncoder
    BY <1>2, <1>8 DEF Codec!FlushEncoder
<1>9. CASE Codec!ReceivePacket
    <2>1. pc' = Codec!AfterPacket
        BY <1>9 DEF Codec!ReceivePacket
    <2>2. QED
        BY <1>2, <1>4, <2>1 DEF Codec!AfterPacket, Codec!AfterEncoder
<1>10. CASE Codec!NoPacket
    <2>1. "encoder" \in emptying
        BY <1>2, <1>4, <1>10 DEF Codec!NoPacket, Codec!AfterEncoder
    <2>2. enc' = <<>> \/ Codec!NeverFilled'
        BY <1>10, <2>1 DEF Codec!NoPacket, Codec!MayGiveNone, Codec!NeverFilled
    <2>3. QED
        BY <1>10, <2>1, <2>2 DEF Codec!NoPacket, Phases
<1>11. CASE Codec!EncoderFails \/ Codec!FilterFails \/ Codec!DecoderFails
    BY <1>3, <1>11 DEF Codec!EncoderFails, Codec!FilterFails, Codec!DecoderFails
<1>12. CASE Codec!SkipPacket
    BY <1>2, <1>12 DEF Codec!SkipPacket, Codec!Reads
<1>13. CASE Codec!SendPacket
    BY <1>2, <1>13 DEF Codec!SendPacket
<1>14. CASE Codec!SendPacketFails
    BY <1>1, <1>2, <1>3, <1>14 DEF Codec!SendPacketFails, Codec!Reads, RoomLeft, Codec!Full
<1>15. CASE Codec!ReceiveFrame
    BY <1>2, <1>4, <1>15 DEF Codec!ReceiveFrame
<1>16. CASE Codec!Reencode
    BY <1>1, <1>2, <1>3, <1>16 DEF Codec!Reencode, RoomLeft, Codec!Full
<1>17. CASE Codec!NoFrame
    BY <1>2, <1>17 DEF Codec!NoFrame
<1>18. CASE Codec!EndOfFile
    <2>1. coder.decodes /\ UNCHANGED <<enc, dec>> /\ coder.atEnd # "flush"
        BY <1>2, <1>18 DEF Codec!EndOfFile
    <2>2. ~coder.encodes
        BY <1>1, <2>1 DEF Course
    <2>3. QED
        BY <2>1, <2>2 DEF Phases
<1>19. QED
    BY <1>5, <1>6, <1>7, <1>8, <1>9, <1>10, <1>11, <1>12, <1>13, <1>14, <1>15, <1>16, <1>17,
       <1>18 DEF Codec!Next

\* A frame of an encoder is made for its own number; one of a decoder keeps it.
LEMMA FrameMade ==
    ASSUME CodecTypeOK, Phases, RoomLeft, DecodedInOrder, ContentRight,
           Codec!SendFrame \/ Codec!Reencode,
           coder.name # "audio_resample", failures = 0,
           NEW p \in Nat,
           p = IF ~coder.decodes THEN n ELSE IF coder.name = "h264ToTs" THEN pos ELSE Head(dec)
    PROVE  (IF coder.decodes THEN Head(dec) + 1 ELSE Codec!Made) = Expected(p)
<1>1. Course(coder) /\ n \in Nat /\ pos \in Nat /\ Len(source) \in Nat
    BY CourseOfCoder, LenProperties DEF CodecTypeOK
<1>2. CASE Codec!SendFrame
    <2>1. ~coder.decodes /\ p = n
        BY <1>2 DEF Codec!SendFrame
    <2>2. coder.atEnd = "old" => content[buf] = IF n <= Len(source) THEN n ELSE Len(source)
        BY <2>1 DEF ContentRight
    <2>3. QED
        BY <1>1, <2>1, <2>2 DEF Codec!Made, Expected
<1>3. CASE Codec!Reencode
    <2>1. coder.decodes /\ dec # <<>> /\ coder.atEnd # "old"
        BY <1>1, <1>3 DEF Codec!Reencode, Phases, Course
    <2>2. Head(dec) = dec[1] /\ 1 \in DOMAIN dec
        BY <2>1, DecodedFrames
    <2>3. coder.name = "h264ToTs" => dec[1] = pos + 1 - 1
        BY <2>2 DEF DecodedInOrder
    <2>4. p = dec[1]
        BY <1>1, <2>1, <2>2, <2>3
    <2>5. QED
        BY <2>1, <2>2, <2>4 DEF Expected
<1>4. QED
    BY <1>2, <1>3

LEMMA ContentStep ==
    ASSUME CodecTypeOK, Phases, RoomLeft, DecodedInOrder, ContentRight, Codec!Next
    PROVE  ContentRight'
<1>1. /\ Course(coder) /\ n \in Nat /\ pos \in Nat /\ Len(source) \in Nat
      /\ UNCHANGED <<coder, source, delay>>
      /\ failures' = 0 => failures = 0 /\ ~Codec!Fail
    BY CourseOfCoder, WhatStays, LenProperties DEF CodecTypeOK
<1>2. /\ DOMAIN enc = 1..Len(enc) /\ Len(enc) \in Nat
      /\ DOMAIN coded = 1..Len(coded) /\ Len(coded) \in Nat
      /\ \A i \in DOMAIN enc : enc[i].buf \in Buffers
      /\ DOMAIN content = Buffers
    BY EncodedFrames DEF CodecTypeOK
<1>3. \A p : Expected(p)' = Expected(p)
    BY <1>1 DEF Expected
<1>4. SUFFICES ASSUME coder.name # "audio_resample", failures' = 0
               PROVE  /\ \A i, j \in DOMAIN enc' : i # j => enc'[i].buf # enc'[j].buf
                      /\ \A i \in DOMAIN enc' : content'[enc'[i].buf] = Expected(enc'[i].pts)
                      /\ \A i \in DOMAIN coded' :
                            coded'[i].content = Expected(coded'[i].pts)
                      /\ ~coder.decodes /\ coder.atEnd = "old" =>
                           content'[buf'] = IF n' <= Len(source) THEN n' ELSE Len(source)
    BY <1>1 DEF ContentRight, Expected
<1>5. /\ failures = 0 /\ ~Codec!Fail
      /\ \A i, j \in DOMAIN enc : i # j => enc[i].buf # enc[j].buf
      /\ \A i \in DOMAIN enc : content[enc[i].buf] = Expected(enc[i].pts)
      /\ \A i \in DOMAIN coded : coded[i].content = Expected(coded[i].pts)
      /\ ~coder.decodes /\ coder.atEnd = "old" =>
           content[buf] = IF n <= Len(source) THEN n ELSE Len(source)
    BY <1>1, <1>4 DEF ContentRight
<1>6. CASE UNCHANGED <<enc, coded, content, buf>> /\ (~coder.decodes => n' = n)
    BY <1>5, <1>6
<1>7. CASE Codec!SendFrame \/ (Codec!Reencode /\ enc' # enc)
    <2>1. PICK p \in Nat :
             /\ p = IF ~coder.decodes THEN n
                    ELSE IF coder.name = "h264ToTs" THEN pos ELSE Head(dec)
             /\ DOMAIN enc' = 1..(Len(enc) + 1)
             /\ \A i \in 1..(Len(enc) + 1) :
                   enc'[i] = IF i <= Len(enc) THEN enc[i]
                             ELSE [pts |-> p, buf |-> Codec!Buffer]
             /\ content' = [content EXCEPT ![Codec!Buffer] =
                              IF coder.decodes THEN Head(dec) + 1 ELSE Codec!Made]
             /\ buf' = Codec!Buffer /\ coded' = coded
        BY <1>7, FrameEncoded
    <2>2. (IF coder.decodes THEN Head(dec) + 1 ELSE Codec!Made) = Expected(p)
        BY <1>4, <1>5, <1>7, <2>1, FrameMade
    <2>3. Codec!Buffer \in Buffers /\ \A i \in DOMAIN enc : enc[i].buf # Codec!Buffer
        BY <1>4, BufferIsFree DEF Codec!Held
    <2>4. /\ content'[Codec!Buffer] = Expected(p)
          /\ \A i \in DOMAIN enc : content'[enc[i].buf] = content[enc[i].buf]
        BY <1>2, <2>1, <2>2, <2>3
    <2>5. \A i \in DOMAIN enc' :
             IF i \in DOMAIN enc THEN enc'[i] = enc[i]
             ELSE i = Len(enc) + 1 /\ enc'[i].pts = p /\ enc'[i].buf = Codec!Buffer
        BY <1>2, <2>1
    <2>6. \A i, j \in DOMAIN enc' : i # j => enc'[i].buf # enc'[j].buf
        BY <1>5, <2>3, <2>5
    <2>7. \A i \in DOMAIN enc' : content'[enc'[i].buf] = Expected(enc'[i].pts)
        BY <1>5, <2>4, <2>5
    <2>8. ASSUME ~coder.decodes, coder.atEnd = "old"
          PROVE  content'[buf'] = IF n' <= Len(source) THEN n' ELSE Len(source)
        <3>1. n' = n + 1 /\ p = n /\ content'[buf'] = Expected(n)
            BY <1>7, <2>1, <2>4, <2>8 DEF Codec!SendFrame, Codec!Reencode, Phases
        <3>2. QED
            BY <1>1, <2>8, <3>1 DEF Expected
    <2>9. QED
        BY <1>5, <2>1, <2>6, <2>7, <2>8
<1>8. CASE Codec!ReceivePacket
    <2>1. PICK i \in 1..Len(enc) :
             /\ DOMAIN coded' = 1..(Len(coded) + 1)
             /\ \A j \in 1..(Len(coded) + 1) :
                   coded'[j] = IF j <= Len(coded) THEN coded[j]
                               ELSE [pts |-> enc[i].pts, content |-> content[enc[i].buf]]
             /\ DOMAIN enc' = 1..(Len(enc) - 1)
             /\ \A j \in 1..(Len(enc) - 1) : enc'[j] = IF j < i THEN enc[j] ELSE enc[j + 1]
             /\ UNCHANGED <<n, buf, content>>
        BY <1>8, PacketReceived
    <2> DEFINE old(j) == IF j < i THEN j ELSE j + 1
    <2>2. \A j \in DOMAIN enc' : old(j) \in DOMAIN enc /\ enc'[j] = enc[old(j)]
        BY <1>2, <2>1
    <2>3. \A j, k \in DOMAIN enc' : j # k => old(j) # old(k)
        BY <1>2, <2>1
    <2> HIDE DEF old
    <2>4. \A j, k \in DOMAIN enc' : j # k => enc'[j].buf # enc'[k].buf
        BY <1>5, <2>2, <2>3
    <2>5. \A j \in DOMAIN enc' : content'[enc'[j].buf] = Expected(enc'[j].pts)
        BY <1>5, <2>1, <2>2
    <2>6. \A j \in DOMAIN coded' : coded'[j].content = Expected(coded'[j].pts)
        BY <1>2, <1>5, <2>1
    <2>7. QED
        BY <1>5, <2>1, <2>4, <2>5, <2>6
<1>9. CASE Codec!ReceiveFrame
    <2>1. /\ DOMAIN coded' = 1..(Len(coded) + 1)
          /\ \A j \in 1..(Len(coded) + 1) :
                coded'[j] = IF j <= Len(coded) THEN coded[j]
                            ELSE [pts |-> dec[1], content |-> dec[1] + 1]
          /\ coder.decodes /\ UNCHANGED <<enc, content>>
        BY <1>9, FrameShown
    <2>2. Expected(dec[1]) = dec[1] + 1
        BY <1>1, <2>1 DEF Expected, Course
    <2>3. \A j \in DOMAIN coded' : coded'[j].content = Expected(coded'[j].pts)
        BY <1>2, <1>5, <2>1, <2>2
    <2>4. QED
        BY <1>5, <2>1, <2>3
<1>10. CASE Codec!SendPacket
    BY <1>6, <1>10 DEF Codec!SendPacket, Codec!Reads
<1>11. CASE Codec!FilterFails
    BY <1>5, <1>11 DEF Codec!FilterFails
<1>12. CASE Idle
    BY <1>6, <1>12 DEF Idle
<1>13. CASE Codec!Reencode /\ enc' = enc
    <2>1. coder.decodes /\ UNCHANGED <<enc, coded, content, buf>>
        <3>1. Len(Append(enc, [pts |-> IF coder.name = "h264ToTs" THEN pos ELSE Head(dec),
                               buf |-> Codec!Buffer])) = Len(enc) + 1
            BY AppendProperties DEF CodecTypeOK
        <3>2. Len(enc) # Len(enc) + 1
            <4>1. Len(enc) \in Nat
                BY <1>2
            <4>2. \A m \in Nat : m # m + 1
                OBVIOUS
            <4>3. QED
                BY <4>1, <4>2
        <3>3. enc' # Append(enc, [pts |-> IF coder.name = "h264ToTs" THEN pos ELSE Head(dec),
                                  buf |-> Codec!Buffer])
            BY <1>13, <3>1, <3>2
        <3>4. QED
            BY <1>13, <3>3 DEF Codec!Reencode, Phases
    <2>2. QED
        BY <1>6, <2>1
<1>14. QED
    BY <1>7, <1>8, <1>9, <1>10, <1>11, <1>12, <1>13, StepKinds

LEMMA CodecStep ==
    ASSUME CodecInv, [Codec!Next]_codecVars
    PROVE  CodecInv'
<1>1. CASE Codec!Next
    <2>1. /\ CodecTypeOK /\ Phases /\ RoomLeft /\ NoRepeat /\ DecodedInOrder
          /\ Accounted /\ Emptied /\ ContentRight
        BY DEF CodecInv
    <2>2. CodecTypeOK' /\ Phases' /\ RoomLeft'
        BY <1>1, <2>1, TypeStep, PhasesStep, RoomStep
    <2>3. NoRepeat' /\ DecodedInOrder'
        BY <1>1, <2>1, NoRepeatStep, DecodedStep
    <2>4. Accounted' /\ Emptied' /\ ContentRight'
        BY <1>1, <2>1, AccountedStep, EmptiedStep, ContentStep
    <2>5. QED
        BY <2>2, <2>3, <2>4 DEF CodecInv
<1>2. CASE UNCHANGED codecVars
    <2>1. CodecTypeOK' /\ Phases' /\ RoomLeft'
        BY <1>2 DEF codecVars, CodecInv, CodecTypeOK, Buffers, Phases, RoomLeft,
           Lags, Codec!Bursts
    <2>2. NoRepeat' /\ DecodedInOrder'
        BY <1>2 DEF codecVars, CodecInv, NoRepeat, Used, DecodedInOrder
    <2>3. Accounted' /\ Emptied'
        BY <1>2 DEF codecVars, CodecInv, Accounted, Whereabouts, Emptied, Codec!NeverFilled, Lags,
           Codec!Bursts
    <2>4. ContentRight'
        BY <1>2 DEF codecVars, CodecInv, ContentRight, Expected
    <2>5. QED
        BY <2>1, <2>2, <2>3, <2>4 DEF CodecInv
<1>3. QED
    BY <1>1, <1>2

LEMMA CodecStart == Codec!Init => CodecInv
<1> SUFFICES ASSUME Codec!Init PROVE CodecInv
    OBVIOUS
<1>1. /\ coder \in Codec!Tools /\ source \in Seq([stream : Nat, frames : Nat])
      /\ delay \in Nat
    BY CodingAssumption DEF Codec!Init
<1>2. /\ pc = "open" /\ n = 0 /\ taken = 0 /\ dec = <<>> /\ enc = <<>> /\ emptying = {}
      /\ buf = 0 /\ content = [b \in Buffers |-> 0]
      /\ pos = 0 /\ coded = <<>> /\ failures = 0 /\ broken = FALSE
    BY DEF Codec!Init, Buffers
<1>3. /\ \A T : <<>> \in Seq(T)
      /\ Len(<<>>) = 0 /\ DOMAIN <<>> = {}
    OBVIOUS
<1>4. Course(coder) /\ Len(source) \in Nat
    BY <1>1, ToolsHaveCourses, LenProperties
<1>5. 0 \in Buffers
    BY <1>1 DEF Buffers
<1>6. CodecTypeOK
    BY <1>1, <1>2, <1>3, <1>5 DEF CodecTypeOK
<1>7. Phases /\ RoomLeft
    BY <1>1, <1>2, <1>3, <1>4 DEF Phases, RoomLeft
<1>8. NoRepeat /\ DecodedInOrder
    BY <1>2, <1>3, <1>4 DEF NoRepeat, DecodedInOrder
<1>9. Accounted /\ Emptied
    BY <1>2, <1>3 DEF Accounted, Emptied
<1>10. ContentRight
    BY <1>2, <1>3, <1>4, <1>5 DEF ContentRight
<1>11. QED
    BY <1>6, <1>7, <1>8, <1>9, <1>10 DEF CodecInv

LEMMA InvariantImpliesHeldBack == CodecInv => NothingHeldBack
<1> SUFFICES ASSUME CodecInv PROVE NothingHeldBack
    OBVIOUS
<1>1. /\ CodecTypeOK /\ Phases /\ RoomLeft /\ NoRepeat /\ DecodedInOrder
      /\ Accounted /\ Emptied
    BY DEF CodecInv
<1>2. \A i, j \in DOMAIN coded : i # j => coded[i].pts # coded[j].pts
    BY <1>1 DEF NoRepeat
<1>3. ASSUME Codec!Ended, failures = 0, ~Lags
      PROVE  /\ (Codec!NeverFilled \/ enc = <<>>) /\ (coder.encodes => dec = <<>>)
             /\ {coded[i].pts : i \in DOMAIN coded} \cup {enc[i].pts : i \in DOMAIN enc}
                    \cup Codec!Range(dec) = 0..(taken - 1)
    <2>1. (Codec!NeverFilled \/ enc = <<>>) /\ (coder.encodes => dec = <<>>)
        BY <1>1, <1>3 DEF Emptied, Codec!Ended
    <2>2. ~coder.decodes => taken = n
        BY <1>1, <1>3 DEF Accounted
    <2>3. /\ n \in Nat /\ taken \in Nat /\ pos \in Nat /\ Course(coder)
          /\ \A i \in DOMAIN coded : coded[i].pts \in Nat
          /\ \A i \in DOMAIN dec : dec[i] \in Nat
          /\ Len(dec) \in Nat
        BY <1>1, CourseOfCoder, EncodedFrames, DecodedFrames DEF CodecTypeOK
    <2>4. Used \subseteq 0..(taken - 1)
        <3>1. CASE ~coder.decodes
            BY <2>2, <3>1 DEF Used
        <3>2. CASE coder.decodes /\ coder.name = "h264ToTs"
            <4>1. pos <= taken
                BY <1>1, <1>3, <2>3, <3>2 DEF DecodedInOrder
            <4>2. Used = 0..(pos - 1)
                BY <3>2 DEF Used
            <4>3. QED
                BY <2>3, <4>1, <4>2
        <3>3. CASE coder.decodes /\ coder.name # "h264ToTs"
            BY <3>3 DEF Used
        <3>4. QED
            BY <2>3, <3>1, <3>2, <3>3 DEF Course
    <2>5. /\ {coded[i].pts : i \in DOMAIN coded} \subseteq 0..(taken - 1)
          /\ {enc[i].pts : i \in DOMAIN enc} \subseteq 0..(taken - 1)
        BY <1>1, <2>4 DEF NoRepeat
    <2>6. \A i \in DOMAIN dec : dec[i] \in 0..(taken - 1)
        <3>1. \A i \in DOMAIN dec : dec[i] < taken
            BY <1>1 DEF DecodedInOrder
        <3>2. QED
            BY <2>3, <3>1, Below
    <2>7. ASSUME NEW p \in 0..(taken - 1)
          PROVE  p \in {coded[i].pts : i \in DOMAIN coded}
                            \cup {enc[i].pts : i \in DOMAIN enc} \cup Codec!Range(dec)
        <3>1. Whereabouts(p)
            BY <1>1, <1>3 DEF Accounted
        <3>2. QED
            BY <3>1 DEF Whereabouts, Codec!Range
    <2>8. Codec!Range(dec) \subseteq 0..(taken - 1)
        BY <2>6 DEF Codec!Range
    <2>9. QED
        BY <2>1, <2>5, <2>7, <2>8
<1>4. QED
    BY <1>2, <1>3 DEF NothingHeldBack, Codec!NothingHeldBack, Lags

LEMMA InvariantImpliesAsMade == CodecInv => EncodedAsMade
BY DEF CodecInv, ContentRight, Expected, EncodedAsMade, Codec!EncodedAsMade

\* For every file, every delay of the codecs and every number of frames.
LEMMA CodingInvariant == MCSpec => []CodecInv
<1>1. MCInit => CodecInv
    BY CodecStart DEF MCInit
<1>2. CodecInv /\ [CopyingTool \/ CodingTool]_<<coding, vars, codecVars>> => CodecInv'
    <2>1. [CopyingTool \/ CodingTool]_<<coding, vars, codecVars>> => [Codec!Next]_codecVars
        BY DEF CopyingTool, CodingTool
    <2>2. QED
        BY <2>1, CodecStep
<1>3. QED
    BY <1>1, <1>2, PTL DEF MCSpec

(* No frame comes out twice, and none is refused or stays behind in a codec   *)
(* when nothing failed, whatever number of frames the codecs keep; but x264   *)
(* keeps all of them when they are no more than its delay, and a decoder      *)
(* that is not flushed its last (encode_video.cpp:263, h264ToTs.cpp:227-249,  *)
(* encode_with_libx264.cpp:82-93).                                            *)
THEOREM FramesComeOut == MCSpec => []NothingHeldBack
BY CodingInvariant, InvariantImpliesHeldBack, PTL

(* What comes out under a time was made for it, although the encoder holds    *)
(* frames while the next ones are filled (encode_video.cpp:251-255).          *)
THEOREM FramesAsMade == MCSpec => []EncodedAsMade
BY CodingInvariant, InvariantImpliesAsMade, PTL

------------------------------------------------------------------------------
(* Copying: numbers and sets of numbers *)

\* Of rising times none is rescaled to a lower one than that before it, and where the
\* output is no coarser each is rescaled to a time of its own.
LEMMA Stretched ==
    ASSUME NEW num \in Nat \ {0}, NEW den \in Nat \ {0}, NEW a \in Int, NEW b \in Int, a < b
    PROVE  /\ (2 * a * num + den) \div (2 * den) <= (2 * b * num + den) \div (2 * den)
           /\ num >= den =>
                  (2 * a * num + den) \div (2 * den) < (2 * b * num + den) \div (2 * den)
<1> DEFINE D == 2 * den
           x == 2 * a * num + den
           y == 2 * b * num + den
<1>2. D \in Nat \ {0} /\ x \in Int /\ y \in Int
    OBVIOUS
<1>3. y >= x /\ (num >= den => y >= x + D)
    <2>1. PICK d \in Nat : b = a + 1 + d
        <3>1. b - a - 1 \in Nat /\ b = a + 1 + (b - a - 1)
            OBVIOUS
        <3>2. QED
            BY <3>1
    <2>2. 2 * b * num = 2 * a * num + 2 * num + 2 * d * num
        BY <2>1
    <2>3. 2 * d * num \in Nat /\ 2 * a * num \in Int /\ 2 * num \in Nat
        OBVIOUS
    <2>4. QED
        BY <2>2, <2>3
<1> HIDE DEF D, x, y
<1>4. /\ x \div D \in Int /\ y \div D \in Int
      /\ D * (x \div D) <= x /\ y < D * (y \div D) + D
    BY <1>2
<1>5. PICK p \in Int, q \in Int : p = x \div D /\ q = y \div D
    BY <1>4
<1>6. p <= q
    <2>1. SUFFICES ASSUME q < p PROVE FALSE
        OBVIOUS
    <2>2. PICK e \in Nat : p = q + 1 + e
        <3>1. p - q - 1 \in Nat /\ p = q + 1 + (p - q - 1)
            BY <2>1
        <3>2. QED
            BY <3>1
    <2>3. D * p = D * q + D + D * e /\ D * e \in Nat /\ D * q \in Int
        BY <1>2, <2>2
    <2>4. QED
        BY <1>2, <1>3, <1>4, <1>5, <2>3
<1>7. num >= den => p # q
    <2>1. D * q \in Int
        BY <1>2
    <2>2. QED
        BY <1>2, <1>3, <1>4, <1>5, <2>1
<1>8. p <= q /\ (num >= den => p < q)
    BY <1>6, <1>7
<1>9. QED
    BY <1>5, <1>8 DEF D, x, y

LEMMA RescaleRises ==
    ASSUME NEW f, files[f].num \in Nat \ {0}, files[f].den \in Nat \ {0},
           NEW a \in Int, NEW b \in Int
    PROVE  /\ Rescale(f, a) \in Int
           /\ a < b => Rescale(f, a) <= Rescale(f, b)
           /\ a < b /\ files[f].num >= files[f].den => Rescale(f, a) < Rescale(f, b)
           /\ a >= 0 => Rescale(f, a) >= 0
           /\ files[f].num >= files[f].den => Rescale(f, 1) > 0
<1>1. PICK num \in Nat \ {0}, den \in Nat \ {0} : num = files[f].num /\ den = files[f].den
    OBVIOUS
<1> DEFINE N(k) == (2 * k * num + den) \div (2 * den)
<1>2. \A k \in Int : N(k) \in Int
    <2> TAKE k \in Int
    <2>1. PICK u \in Int : u = 2 * k * num + den
        OBVIOUS
    <2>2. u \div (2 * den) \in Int
        OBVIOUS
    <2>3. QED
        BY <2>1, <2>2
<1>3. \A k, m \in Int : k < m => N(k) <= N(m) /\ (num >= den => N(k) < N(m))
    BY Stretched
<1>4. N(0) = 0
    <2>1. 2 * 0 * num + den = den
        OBVIOUS
    <2>2. den \div (2 * den) = 0
        OBVIOUS
    <2>3. QED
        BY <2>1, <2>2
<1>5. \A t \in Int : Rescale(f, t) = IF t < 0 THEN -N(-t) ELSE N(t)
    BY <1>1 DEF Rescale, av_rescale_q
<1> HIDE DEF N
<1>6. Rescale(f, a) \in Int /\ Rescale(f, b) \in Int
    <2>1. N(a) \in Int /\ N(b) \in Int /\ N(-a) \in Int /\ N(-b) \in Int
        BY <1>2
    <2>2. QED
        BY <1>5, <2>1
<1>7. ASSUME a < b
      PROVE  /\ Rescale(f, a) <= Rescale(f, b)
             /\ num >= den => Rescale(f, a) < Rescale(f, b)
    <2>1. CASE a >= 0
        BY <1>3, <1>5, <1>7, <2>1
    <2>2. CASE b < 0
        <3>1. -b < -a /\ N(-b) \in Int /\ N(-a) \in Int
            BY <1>2, <1>7
        <3>2. N(-b) <= N(-a) /\ (num >= den => N(-b) < N(-a))
            BY <1>3, <3>1
        <3>3. Rescale(f, a) = -N(-a) /\ Rescale(f, b) = -N(-b)
            BY <1>5, <1>7, <2>2
        <3>4. QED
            BY <3>1, <3>2, <3>3
    <2>3. CASE a < 0 /\ b >= 0
        <3>1. /\ N(0) <= N(-a) /\ (num >= den => N(0) < N(-a))
              /\ N(-a) \in Int /\ N(b) \in Int
            BY <1>2, <1>3, <2>3
        <3>2. b = 0 \/ N(0) <= N(b)
            BY <1>3, <2>3
        <3>3. Rescale(f, a) = -N(-a) /\ Rescale(f, b) = N(b)
            BY <1>5, <2>3
        <3>4. QED
            BY <1>4, <3>1, <3>2, <3>3
    <2>4. QED
        BY <2>1, <2>2, <2>3
<1>8. \A k \in Int : k >= 0 => Rescale(f, k) >= 0
    <2> TAKE k \in Int
    <2>1. SUFFICES ASSUME k >= 0 PROVE Rescale(f, k) >= 0
        OBVIOUS
    <2>2. k = 0 \/ N(0) <= N(k)
        BY <1>3, <2>1
    <2>3. Rescale(f, k) = N(k) /\ N(k) \in Int
        BY <1>2, <1>5, <2>1
    <2>4. QED
        BY <1>4, <2>2, <2>3
<1>9. num >= den => Rescale(f, 1) > 0
    <2>1. N(0) <= N(1) /\ (num >= den => N(0) < N(1)) /\ N(1) \in Int
        BY <1>2, <1>3
    <2>2. Rescale(f, 1) = N(1)
        BY <1>5
    <2>3. QED
        BY <1>4, <2>1, <2>2
<1>10. QED
    BY <1>1, <1>6, <1>7, <1>8, <1>9

\* A set of numbers up to m that is not empty has a least one.
LEMMA LeastNumber ==
    ASSUME NEW m \in Nat, NEW S, S \subseteq 0..m, S # {}
    PROVE  \E a \in S : \A b \in S : a <= b
<1> DEFINE Lower(x) == {y \in S : y < x}
           F == {Lower(x) : x \in S}
<1>1. IsFiniteSet(S)
    <2>1. IsFiniteSet(0..m)
        BY FS_Interval
    <2>2. QED
        BY <2>1, FS_Subset
<1>2. F \subseteq FiniteSubsetsOf(S) /\ F # {}
    <2>1. F \subseteq SUBSET S /\ F # {}
        OBVIOUS
    <2> HIDE DEF F
    <2>2. QED
        BY <1>1, <2>1, FS_FiniteSubsetsOfFinite
<1>3. PICK M \in F : \A N \in F : ~(<<N, M>> \in StrictSubsetOrdering(S))
    <2> HIDE DEF F
    <2>1. QED
        BY <1>2, FS_StrictSubsetOrderingWellFounded, WFMin
<1>4. PICK a \in S : M = Lower(a)
    BY <1>3
<1>5. ASSUME NEW b \in S, ~(a <= b) PROVE FALSE
    <2>1. b < a /\ \A y \in S : y < b => y < a
        <3>1. \A y \in S : y \in Nat
            OBVIOUS
        <3>2. QED
            BY <1>5, <3>1
    <2>2. b \in Lower(a) /\ b \notin Lower(b) /\ Lower(b) \subseteq Lower(a)
        <3>1. ~(b < b)
            OBVIOUS
        <3>2. QED
            BY <2>1, <3>1
    <2>3. <<Lower(b), M>> \in StrictSubsetOrdering(S)
        BY <1>4, <2>2 DEF StrictSubsetOrdering
    <2>4. Lower(b) \in F
        OBVIOUS
    <2>5. QED
        BY <1>3, <2>3, <2>4
<1>6. QED
    BY <1>5

\* av_find_best_stream finds a stream of the type when there is one.
LEMMA BestIs ==
    ASSUME NEW T, NEW types \in Seq(T), NEW type
    PROVE  /\ Best(types, type) = 0
                \/ (Best(types, type) \in DOMAIN types /\ types[Best(types, type)] = type)
           /\ \A s \in DOMAIN types : types[s] = type => Best(types, type) # 0
<1>0. PICK m \in Nat : m = Len(types) /\ DOMAIN types = 1..m
    BY LenProperties
<1> DEFINE I == {i \in 1..m : types[i] = type}
<1>1. Best(types, type) = IF I # {} THEN Min(I) ELSE 0
    BY <1>0 DEF Best, SelectInSeq
<1>2. CASE I = {}
    BY <1>0, <1>1, <1>2
<1>3. CASE I # {}
    <2>1. I \subseteq 0..m
        OBVIOUS
    <2>2. \E a \in I : \A b \in I : a <= b
        <3> HIDE DEF I
        <3>1. QED
            BY <1>3, <2>1, LeastNumber
    <2>3. Min(I) \in I
        <3>1. Min(I) = CHOOSE a \in I : \A b \in I : a <= b
            BY DEF Min
        <3> HIDE DEF I
        <3>2. QED
            BY <2>2, <3>1
    <2>4. Best(types, type) \in 1..m /\ types[Best(types, type)] = type
        BY <1>1, <1>3, <2>3
    <2>5. QED
        BY <1>0, <2>4
<1>4. QED
    BY <1>2, <1>3

\* The rank of a number in a set.
Rank(S, a) == Cardinality({b \in S : b <= a})

LEMMA RankRises ==
    ASSUME NEW m \in Nat, NEW S, S \subseteq 1..m, NEW a \in S, NEW b \in S
    PROVE  /\ Rank(S, a) \in 1..Cardinality(S) /\ Cardinality(S) \in Nat
           /\ a < b => Rank(S, a) < Rank(S, b)
<1>1. IsFiniteSet(S)
    <2>1. IsFiniteSet(1..m)
        BY FS_Interval
    <2>2. QED
        BY <2>1, FS_Subset
<1> DEFINE U(x) == {y \in S : y <= x}
<1>2. U(a) \subseteq S /\ U(b) \subseteq S /\ a \in U(a) /\ b \in U(b)
    OBVIOUS
<1> U(a) \in SUBSET S /\ U(b) \in SUBSET S
    BY <1>2
<1>3. /\ IsFiniteSet(U(a)) /\ Cardinality(U(a)) <= Cardinality(S)
      /\ IsFiniteSet(U(b)) /\ Cardinality(U(b)) <= Cardinality(S)
    BY <1>1, <1>2, FS_Subset
<1>4. Cardinality(U(a)) \in Nat /\ Cardinality(U(b)) \in Nat /\ Cardinality(S) \in Nat
    BY <1>1, <1>3, FS_CardinalityType
<1>5. Cardinality(U(a)) # 0
    BY <1>2, <1>3, FS_EmptySet
<1>6. ASSUME a < b PROVE Cardinality(U(a)) < Cardinality(U(b))
    <2>1. U(a) \subseteq U(b) /\ b \notin U(a)
        <3>1. a \in Int /\ b \in Int /\ \A y \in S : y \in Int
            OBVIOUS
        <3>2. ~(b <= a) /\ \A y \in S : y <= a => y <= b
            BY <1>6, <3>1
        <3>3. QED
            BY <3>2
    <2>2. U(a) \in SUBSET U(b) /\ U(a) # U(b)
        BY <1>2, <2>1
    <2> HIDE DEF U
    <2>3. Cardinality(U(a)) <= Cardinality(U(b)) /\ Cardinality(U(a)) # Cardinality(U(b))
        BY <1>3, <2>2, FS_Subset
    <2>4. QED
        BY <1>4, <2>3
<1>7. QED
    BY <1>3, <1>4, <1>5, <1>6 DEF Rank

LEMMA NthIs ==
    ASSUME NEW m \in Nat, NEW S, S \subseteq 1..m, NEW a \in S
    PROVE  Nth(S, Rank(S, a)) = a
<1>1. ASSUME NEW b \in S, Rank(S, b) = Rank(S, a) PROVE b = a
    <2>1. /\ Rank(S, a) \in 1..Cardinality(S) /\ Cardinality(S) \in Nat
          /\ a < b => Rank(S, a) < Rank(S, b)
        BY RankRises
    <2>2. b < a => Rank(S, b) < Rank(S, a)
        BY RankRises
    <2>3. a \in Int /\ b \in Int
        OBVIOUS
    <2>4. QED
        BY <1>1, <2>1, <2>2, <2>3
<1>2. QED
    BY <1>1 DEF Nth, Rank

LEMMA NthExists ==
    ASSUME NEW m \in Nat, NEW S, S \subseteq 1..m, NEW k \in 1..Cardinality(S)
    PROVE  Nth(S, k) \in S
<1>1. IsFiniteSet(S)
    <2>1. IsFiniteSet(1..m)
        BY FS_Interval
    <2>2. QED
        BY <2>1, FS_Subset
<1>2. Cardinality(S) \in Nat
    BY <1>1, FS_CardinalityType
<1> DEFINE T == 1..Cardinality(S)
           r == [a \in S |-> Rank(S, a)]
<1>3. IsFiniteSet(T) /\ Cardinality(T) = Cardinality(S)
    BY <1>2, FS_Interval
<1>4. ASSUME NEW a \in S, NEW b \in S
      PROVE  Rank(S, a) \in T /\ (Rank(S, a) = Rank(S, b) => a = b)
    <2>1. /\ Rank(S, a) \in T
          /\ a < b => Rank(S, a) < Rank(S, b)
        BY RankRises
    <2>2. /\ Rank(S, b) \in T
          /\ b < a => Rank(S, b) < Rank(S, a)
        BY RankRises
    <2>3. a \in Int /\ b \in Int
        OBVIOUS
    <2>4. QED
        BY <1>2, <2>1, <2>2, <2>3
<1>5. r \in Injection(S, T)
    BY <1>4 DEF Injection, IsInjective
<1>6. r \in Surjection(S, T)
    <2> HIDE DEF r, T
    <2>1. QED
        BY <1>1, <1>3, <1>5, FS_Injection
<1>7. PICK a \in S : Rank(S, a) = k
    BY <1>6 DEF Surjection
<1>8. QED
    BY <1>7, NthIs

------------------------------------------------------------------------------
(* Copying: the inductive invariant *)

\* The output stream of a packet of stream s of file f.
TargetOf(f, s) ==
    CASE tool \in {"remuxing", "cutVideo"} -> Mapped(files[f].types, s)
      [] SelectsOne -> IF s = Selected(files[f].types) THEN 1 ELSE 0
      [] tool = "concat" -> IF s = Best(files[f].types, "audio") THEN 1 ELSE 2
      [] tool = "merge" -> f
      [] OTHER -> s

StreamOf(f, k) == files[f].packets[k].stream
LengthOf(f) == Len(files[f].packets)

\* Tool and files are as they were given.
Given == \E c \in Cases : tool = c.tool /\ files = c.files

Entry == [stream : Nat, file : Nat, n : Nat, pts : Int, dts : Int, ok : BOOLEAN]

CopyTypeOK ==
    /\ phase \in {"open", "header", "seek", "copy", "trailer", "done", "failed", "crashed"}
    /\ header \in BOOLEAN /\ round \in BOOLEAN
    /\ {cur, reads, steps, leaked} \subseteq Nat
    /\ at \in [DOMAIN files -> Nat]
    /\ \A f \in DOMAIN files : at[f] <= LengthOf(f)
    /\ offset \in [1..2 -> Int] /\ duration \in [1..2 -> Int]
    /\ out \in Seq(Entry)

\* The file at hand.
AtFile ==
    /\ tool # "merge" => cur \in DOMAIN files
    /\ tool = "merge" => cur \in 1..(MixSize + 1) /\ 1..(cur - 1) \subseteq Opened
    /\ tool # "concat" /\ tool # "merge" => cur = 1
    /\ phase \in {"open", "header", "seek"} => cur = 1 /\ out = <<>>
    /\ tool = "concat" => \A f \in DOMAIN files : f > cur => at[f] = 0

\* The files that a tool comes to: merge stops at one that did not open.
Reached(f) == f \in Opened /\ (tool = "merge" => 1..f \subseteq Opened)

\* The output's streams are made for the streams they get packets of.
StreamsFit ==
    phase \notin {"open", "failed", "crashed"} \/ out # <<>> =>
        \A f \in DOMAIN files : \A s \in DOMAIN files[f].types :
            LET t == TargetOf(f, s)
                type == files[f].types[s]
            IN  /\ Reached(f) /\ t # 0 =>
                     /\ t \in DOMAIN streams
                     /\ \/ streams[t] = type
                        \/ tool = "concat"
                             /\ s \notin {Best(files[f].types, "audio"), Best(files[f].types, "video")}
                        \/ tool = "merge" /\ s # 1
                /\ type \in Range(streams) /\ (SelectsOne => IsInjective(files[f].types)) => t # 0

\* What the output holds of the packets read.
WrittenRight ==
    \A i \in DOMAIN out :
        LET w == out[i]
        IN  /\ w.file \in DOMAIN files /\ Reached(w.file)
            /\ w.n \in 1..at[w.file]
            /\ w.stream = TargetOf(w.file, StreamOf(w.file, w.n)) /\ w.stream # 0
            /\ tool = "concat" => w.file <= cur

InOrder ==
    \A i, j \in DOMAIN out : i < j =>
        /\ out[i].file = out[j].file => out[i].n < out[j].n
        /\ tool = "concat" => out[i].file <= out[j].file

\* Before the trailer.
Running == phase \in {"open", "header", "seek", "copy"}

\* The times that are written, of the tools but concat.
Stamped ==
    Follow /\ tool # "concat" /\ Running =>
        /\ tool = "remuxing-h264" => steps = Len(out)
        /\ \A i \in DOMAIN out :
              /\ tool = "remuxing-h264" => out[i].dts = Rescale(out[i].file, i - 1)
              /\ tool \in {"record_audio", "record_video", "extractVideo"} =>
                    out[i].dts = Source(out[i]).dts
              /\ tool \notin {"remuxing-h264", "record_audio", "record_video", "extractVideo"} =>
                    out[i].dts = Rescale(out[i].file, Source(out[i]).dts)

\* How the offsets and durations of concat lie to the times that are written.
PartsFollow ==
    Follow /\ tool = "concat" /\ Running =>
        /\ \A i \in DOMAIN out :
              LET w == out[i]
              IN  /\ w.file < cur => w.dts + Rescale(w.file, 1) <= offset[w.stream]
                  /\ w.file = cur => /\ w.dts = offset[w.stream] + Rescale(w.file, Source(w).dts)
                                     /\ w.dts + Rescale(w.file, 1) <= duration[w.stream]
        /\ \A k \in 1..at[cur] :
              LET t == TargetOf(cur, StreamOf(cur, k)) IN offset[t] <= duration[t]

\* What has been read and is for the output is in it.
Copied ==
    tool # "cutVideo" =>
        \A f \in DOMAIN files : \A k \in 1..at[f] :
            TargetOf(f, StreamOf(f, k)) # 0 =>
                \E i \in DOMAIN out : out[i].file = f /\ out[i].n = k

\* The files that have been read to their ends.
ReadToEnd ==
    /\ tool = "concat" => \A f \in Opened : f < cur => at[f] = LengthOf(f)
    /\ tool = "merge" /\ phase = "copy" =>
           round \/ \A f \in 1..(cur - 1) : at[f] = LengthOf(f)
    /\ phase \in {"trailer", "done"} /\ (\A i \in DOMAIN out : out[i].ok)
         /\ tool # "cutVideo" /\ ~(Counts /\ reads = MaxReads) =>
           \A f \in Opened : at[f] = LengthOf(f)

Ending ==
    /\ phase \in {"seek", "copy", "trailer", "done"} => header \/ IgnoresHeader
    /\ leaked = 0 \/ tool = "split" \/ (leaked = 1 /\ phase \in {"trailer", "done"})
    /\ tool # "merge" /\ phase \in {"header", "seek", "copy", "trailer", "done"} => 1 \in Opened

CopyInv ==
    /\ Given /\ CopyTypeOK /\ AtFile /\ StreamsFit /\ WrittenRight /\ InOrder
    /\ Stamped /\ PartsFollow /\ TimesRise /\ Copied /\ ReadToEnd /\ Ending


\* What is known of a file.
LEMMA GivenFile ==
    ASSUME Given, NEW f \in DOMAIN files
    PROVE  /\ files[f] \in Input
           /\ files[f].types \in Seq({"video", "audio", "other"})
           /\ Len(files[f].types) \in Nat \ {0}
           /\ DOMAIN files[f].types = 1..Len(files[f].types)
           /\ LengthOf(f) \in Nat /\ DOMAIN files[f].packets = 1..LengthOf(f)
           /\ \A k \in 1..LengthOf(f) :
                 /\ files[f].packets[k] \in [stream : Nat, dts : Int, pts : Int]
                 /\ StreamOf(f, k) \in DOMAIN files[f].types
           /\ \A k, m \in 1..LengthOf(f) :
                 k < m /\ StreamOf(f, k) = StreamOf(f, m)
                     => files[f].packets[k].dts < files[f].packets[m].dts
           /\ tool \in {"record_audio", "record_video"} => Len(files[f].types) = 1
           /\ files[f].num \in Nat \ {0} /\ files[f].den \in Nat \ {0}
<1>1. PICK c \in Cases : tool = c.tool /\ files = c.files
    BY DEF Given
<1>2. files \in Seq(Input)
    BY <1>1, CasesAssumption
<1>3. files[f] \in Input
    BY <1>2
<1>4. files[f].types \in Seq({"video", "audio", "other"}) /\ files[f].types # <<>>
    BY <1>1, <1>3, CasesAssumption DEF Input
<1>5. /\ Len(files[f].types) \in Nat /\ DOMAIN files[f].types = 1..Len(files[f].types)
      /\ Len(files[f].types) # 0
    BY <1>4, LenProperties, EmptySeq
<1>6. files[f].packets \in Seq([stream : Nat, dts : Int, pts : Int])
    BY <1>3 DEF Input
<1>7. /\ LengthOf(f) \in Nat /\ DOMAIN files[f].packets = 1..LengthOf(f)
      /\ \A k \in 1..LengthOf(f) : files[f].packets[k] \in [stream : Nat, dts : Int, pts : Int]
    BY <1>6, LenProperties DEF LengthOf
<1>8. /\ \A k \in DOMAIN files[f].packets : files[f].packets[k].stream \in DOMAIN files[f].types
      /\ \A k, m \in DOMAIN files[f].packets :
            k < m /\ files[f].packets[k].stream = files[f].packets[m].stream
                => files[f].packets[k].dts < files[f].packets[m].dts
      /\ tool \in {"record_audio", "record_video"} => Len(files[f].types) = 1
    BY <1>1, CasesAssumption
<1>9. files[f].num \in Nat \ {0} /\ files[f].den \in Nat \ {0}
    BY <1>3 DEF Input
<1>10. QED
    BY <1>3, <1>4, <1>5, <1>7, <1>8, <1>9 DEF StreamOf

\* What becomes of the times of a file.
LEMMA TimesOf ==
    ASSUME Given, NEW f \in DOMAIN files, NEW a \in Int, NEW b \in Int
    PROVE  /\ Rescale(f, a) \in Int /\ Rescale(f, 1) \in Int
           /\ a < b => Rescale(f, a) <= Rescale(f, b)
           /\ a < b /\ Finer /\ f \in Opened => Rescale(f, a) < Rescale(f, b)
           /\ a >= 0 => Rescale(f, a) >= 0
           /\ Rescale(f, 1) >= 0
           /\ Finer /\ f \in Opened => Rescale(f, 1) > 0
<1>1. files[f].num \in Nat \ {0} /\ files[f].den \in Nat \ {0}
    BY GivenFile
<1>2. Finer /\ f \in Opened => files[f].num >= files[f].den
    BY DEF Finer
<1>3. Rescale(f, 1) \in Int /\ Rescale(f, 1) >= 0
    BY <1>1, RescaleRises
<1>4. QED
    BY <1>1, <1>2, <1>3, RescaleRises

LEMMA GivenFiles ==
    ASSUME Given
    PROVE  /\ tool \in Programs
           /\ Len(files) \in Nat \ {0} /\ DOMAIN files = 1..Len(files)
           /\ tool \notin {"concat", "merge"} => Len(files) = 1
           /\ IsFiniteSet(Opened) /\ MixSize \in 0..Len(files)
<1>1. PICK c \in Cases : tool = c.tool /\ files = c.files
    BY DEF Given
<1>2. /\ files \in Seq(Input) /\ files # <<>> /\ tool \in Programs
      /\ tool \notin {"concat", "merge"} => Len(files) = 1
    BY <1>1, CasesAssumption
<1>3. PICK m \in Nat : m = Len(files)
    BY <1>2, LenProperties
<1>4. DOMAIN files = 1..m /\ m # 0
    BY <1>2, <1>3, LenProperties, EmptySeq
<1>5. IsFiniteSet(1..m) /\ Cardinality(1..m) = m
    BY FS_Interval
<1>6. Opened \in SUBSET (1..m)
    BY <1>4 DEF Opened
<1>7. IsFiniteSet(Opened) /\ Cardinality(Opened) <= m /\ Cardinality(Opened) \in Nat
    BY <1>5, <1>6, FS_Subset, FS_CardinalityType
<1>8. QED
    BY <1>2, <1>3, <1>4, <1>7 DEF MixSize

\* The files that merge comes to are those in front of it.
LEMMA FirstOpened ==
    ASSUME Given, NEW f \in Nat \ {0}, 1..f \subseteq Opened
    PROVE  Rank(Opened, f) = f /\ f \in 1..MixSize
<1>1. {g \in Opened : g <= f} = 1..f
    <2>1. \A g \in Opened : g \in Int /\ g >= 1
        BY GivenFiles DEF Opened
    <2>2. QED
        BY <2>1
<1>2. Cardinality(1..f) = f
    BY FS_Interval
<1>3. Cardinality(1..f) <= Cardinality(Opened)
    BY GivenFiles, FS_Subset
<1>4. Cardinality(Opened) \in Nat
    BY GivenFiles DEF MixSize
<1>5. Rank(Opened, f) = f
    BY <1>1, <1>2 DEF Rank
<1>6. MixSize \in Nat /\ f <= MixSize
    BY <1>2, <1>3, <1>4 DEF MixSize
<1>7. QED
    BY <1>5, <1>6

\* When merge has come to the last of them, they are all.
LEMMA AllOpened ==
    ASSUME Given, 1..MixSize \subseteq Opened
    PROVE  Opened = 1..MixSize
<1>1. MixSize \in Nat
    BY GivenFiles
<1>2. Cardinality(1..MixSize) = MixSize
    BY <1>1, FS_Interval
<1>3. QED
    BY <1>2, GivenFiles, FS_Subset DEF MixSize

LEMMA TargetIs == Target(Packet.stream) = TargetOf(cur, Packet.stream)
BY DEF Target, TargetOf, Types

\* Streams that are kept have outputs of their own.
LEMMA MappedIs ==
    ASSUME Given, NEW f \in DOMAIN files, NEW s \in DOMAIN files[f].types
    PROVE  LET types == files[f].types
               kept  == {r \in DOMAIN types : Supported(types[r])}
           IN  /\ Supported(types[s]) => Mapped(types, s) = Rank(kept, s)
                    /\ Mapped(types, s) \in 1..Cardinality(kept)
               /\ ~Supported(types[s]) => Mapped(types, s) = 0
               /\ Cardinality(kept) \in Nat
<1> DEFINE types == files[f].types
           kept  == {r \in DOMAIN types : Supported(types[r])}
<1>1. PICK m \in Nat : m = Len(types) /\ DOMAIN types = 1..m /\ s \in 1..m
    BY GivenFile
<1>2. kept \subseteq 1..m
    BY <1>1
<1>3. {r \in 1..s : Supported(types[r])} = {r \in kept : r <= s}
    BY <1>1
<1>4. Cardinality(kept) \in Nat
    <2>1. IsFiniteSet(1..m)
        BY FS_Interval
    <2> HIDE DEF kept
    <2>2. QED
        BY <1>2, <2>1, FS_Subset, FS_CardinalityType
<1>5. ASSUME Supported(types[s])
      PROVE  Mapped(types, s) = Rank(kept, s) /\ Rank(kept, s) \in 1..Cardinality(kept)
    <2>1. Mapped(types, s) = Rank(kept, s)
        BY <1>3, <1>5 DEF Mapped, Rank
    <2>2. s \in kept
        BY <1>5
    <2> HIDE DEF kept
    <2>3. QED
        BY <1>2, <2>1, <2>2, RankRises
<1>6. ~Supported(types[s]) => Mapped(types, s) = 0
    BY DEF Mapped
<1>7. QED
    BY <1>4, <1>5, <1>6

LEMMA MappedOnce ==
    ASSUME Given, NEW f \in DOMAIN files,
           NEW s \in DOMAIN files[f].types, NEW r \in DOMAIN files[f].types,
           Mapped(files[f].types, s) = Mapped(files[f].types, r), Mapped(files[f].types, s) # 0
    PROVE  s = r
<1> DEFINE types == files[f].types
           kept  == {q \in DOMAIN types : Supported(types[q])}
<1>1. PICK m \in Nat : m = Len(types) /\ DOMAIN types = 1..m
    BY GivenFile
<1>2. s \in kept /\ r \in kept
    BY DEF Mapped
<1>3. Rank(kept, s) = Rank(kept, r)
    <2>1. Mapped(types, s) = Rank(kept, s)
        BY <1>2, MappedIs
    <2>2. Mapped(types, r) = Rank(kept, r)
        BY <1>2, MappedIs
    <2>3. QED
        BY <2>1, <2>2
<1>4. kept \subseteq 1..m
    BY <1>1
<1> HIDE DEF kept
<1>5. Nth(kept, Rank(kept, s)) = s
    BY <1>2, <1>4, NthIs
<1>6. Nth(kept, Rank(kept, r)) = r
    BY <1>2, <1>4, NthIs
<1>7. QED
    BY <1>3, <1>5, <1>6

LEMMA TargetType ==
    ASSUME Given, NEW f \in DOMAIN files, NEW s \in DOMAIN files[f].types
    PROVE  TargetOf(f, s) \in Nat /\ (tool = "concat" => TargetOf(f, s) \in 1..2)
<1>1. f \in Nat /\ s \in Nat
    BY GivenFile, GivenFiles
<1>2. Mapped(files[f].types, s) \in Nat
    <2> DEFINE kept == {r \in DOMAIN files[f].types : Supported(files[f].types[r])}
    <2>1. /\ Supported(files[f].types[s]) => Mapped(files[f].types, s) \in 1..Cardinality(kept)
          /\ ~Supported(files[f].types[s]) => Mapped(files[f].types, s) = 0
        BY MappedIs
    <2> HIDE DEF kept
    <2>2. QED
        BY <2>1
<1>3. QED
    BY <1>1, <1>2 DEF TargetOf, SelectsOne

\* The packet at hand.
LEMMA PacketIs ==
    ASSUME Given, CopyTypeOK, cur \in DOMAIN files, at[cur] # LengthOf(cur)
    PROVE  LET k == at[cur] + 1
               s == StreamOf(cur, k)
           IN  /\ at[cur] \in Nat /\ k \in 1..LengthOf(cur)
               /\ Packet = files[cur].packets[k]
               /\ Packet \in [stream : Nat, dts : Int, pts : Int]
               /\ Packet.stream = s /\ s \in DOMAIN files[cur].types
               /\ Target(Packet.stream) = TargetOf(cur, s)
               /\ TargetOf(cur, s) \in Nat
               /\ tool = "concat" => TargetOf(cur, s) \in 1..2
<1> DEFINE k == at[cur] + 1
<1>1. at[cur] \in Nat /\ at[cur] <= LengthOf(cur) /\ LengthOf(cur) \in Nat
    BY GivenFile DEF CopyTypeOK
<1>2. k \in 1..LengthOf(cur)
    BY <1>1
<1>3. Packet = files[cur].packets[k]
    BY DEF Packet
<1>4. Packet \in [stream : Nat, dts : Int, pts : Int]
        /\ StreamOf(cur, k) \in DOMAIN files[cur].types
    BY <1>2, <1>3, GivenFile
<1>5. Packet.stream = StreamOf(cur, k)
    BY <1>3 DEF StreamOf
<1>6. TargetOf(cur, StreamOf(cur, k)) \in Nat
        /\ (tool = "concat" => TargetOf(cur, StreamOf(cur, k)) \in 1..2)
    BY <1>4, TargetType
<1>7. QED
    BY <1>1, <1>2, <1>3, <1>4, <1>5, <1>6, TargetIs

\* What is given to the muxer.
LEMMA WrittenIs ==
    ASSUME Given, CopyTypeOK, cur \in DOMAIN files, at[cur] # LengthOf(cur), NEW ok \in BOOLEAN
    PROVE  LET k == at[cur] + 1
           IN  /\ Written(ok) \in Entry
               /\ Written(ok).file = cur /\ Written(ok).n = k /\ Written(ok).ok = ok
               /\ Written(ok).stream = TargetOf(cur, StreamOf(cur, k))
               /\ Written(ok).pts = Time(Packet.pts)
               /\ Written(ok).dts = Time(IF tool = "extractAudio" THEN Packet.pts ELSE Packet.dts)
<1> DEFINE k == at[cur] + 1
           T == TargetOf(cur, StreamOf(cur, k))
<1>1. /\ at[cur] \in Nat /\ Packet.pts \in Int /\ Packet.dts \in Int
      /\ T \in Nat /\ (tool = "concat" => T \in 1..2) /\ Target(Packet.stream) = T
    BY PacketIs
<1>2. cur \in Nat /\ steps \in Int /\ offset \in [1..2 -> Int]
    BY DEF CopyTypeOK
<1>3. ASSUME NEW t \in Int PROVE Time(t) \in Int
    <2>1. Rescale(cur, t) \in Int /\ Rescale(cur, steps) \in Int
        BY <1>2, TimesOf
    <2>2. tool = "concat" => offset[T] + Rescale(cur, t) \in Int
        BY <1>1, <1>2, <2>1
    <2>3. QED
        BY <1>1, <1>3, <2>1, <2>2 DEF Time
<1>4. Time(Packet.pts) \in Int
        /\ Time(IF tool = "extractAudio" THEN Packet.pts ELSE Packet.dts) \in Int
    BY <1>1, <1>3
<1>5. QED
    BY <1>1, <1>2, <1>4 DEF Written, Entry

------------------------------------------------------------------------------
(* Copying: each part of the invariant *)

\* The output's streams are made for what they get.
LEMMA OpenFits ==
    ASSUME Given, cur = 1, streams' = NewStreams, UNCHANGED <<tool, files>>
    PROVE  StreamsFit'
<1> DEFINE type(f, s) == files[f].types[s]
           Fits(f, s) ==
             LET t == TargetOf(f, s)
             IN  /\ Reached(f) /\ t # 0 =>
                      /\ t \in DOMAIN NewStreams
                      /\ \/ NewStreams[t] = type(f, s)
                         \/ tool = "concat"
                              /\ s \notin {Best(files[f].types, "audio"), Best(files[f].types, "video")}
                         \/ tool = "merge" /\ s # 1
                 /\ type(f, s) \in Range(NewStreams)
                      /\ (SelectsOne => IsInjective(files[f].types)) => t # 0
<1>1. SUFFICES ASSUME NEW f \in DOMAIN files, NEW s \in DOMAIN files[f].types
               PROVE  Fits(f, s)
    <2>1. ASSUME \A f \in DOMAIN files : \A s \in DOMAIN files[f].types : Fits(f, s)
          PROVE  StreamsFit'
        BY <2>1 DEF StreamsFit, TargetOf, Reached, SelectsOne, Selected, Opened
    <2>2. QED
        BY <2>1
<1>2. DOMAIN files = 1..Len(files) /\ Len(files) \in Nat \ {0} /\ 1 \in DOMAIN files
    BY GivenFiles
<1>3. tool \in Programs /\ (tool \notin {"concat", "merge"} => f = 1 /\ Types = files[f].types)
    BY <1>2, GivenFiles DEF Types
<1>4. PICK m \in Nat \ {0} : m = Len(files[f].types) /\ DOMAIN files[f].types = 1..m /\ s \in 1..m
    BY GivenFile
<1>5. CASE tool \in {"remuxing", "cutVideo"}
    <2> DEFINE kept == {r \in DOMAIN files[f].types : Supported(files[f].types[r])}
    <2>1. Kept = kept /\ kept \subseteq 1..m
        BY <1>3, <1>4, <1>5 DEF Kept
    <2>2. NewStreams = [i \in 1..Cardinality(kept) |-> files[f].types[Nth(kept, i)]]
        BY <1>3, <1>5, <2>1 DEF NewStreams, SelectsOne
    <2>3. TargetOf(f, s) = Mapped(files[f].types, s)
        BY <1>5 DEF TargetOf, SelectsOne
    <2>4. CASE Supported(type(f, s))
        <3>1. /\ Mapped(files[f].types, s) = Rank(kept, s)
              /\ Mapped(files[f].types, s) \in 1..Cardinality(kept) /\ Cardinality(kept) \in Nat
            BY <2>4, MappedIs
        <3>2. s \in kept
            BY <2>4
        <3> HIDE DEF kept
        <3>3. Nth(kept, Rank(kept, s)) = s
            BY <2>1, <3>2, NthIs
        <3>4. QED
            BY <2>2, <2>3, <3>1, <3>3
    <2>5. CASE ~Supported(type(f, s))
        <3>1. Mapped(files[f].types, s) = 0
            BY <2>5, MappedIs
        <3>2. ASSUME NEW i \in 1..Cardinality(kept) PROVE NewStreams[i] # type(f, s)
            <4>1. i \in 1..Cardinality(kept) /\ kept \subseteq 1..m /\ IsFiniteSet(kept)
                <5>1. IsFiniteSet(1..m)
                    BY FS_Interval
                <5>2. QED
                    BY <2>1, <5>1, FS_Subset
            <4>2. Nth(kept, i) \in kept
                BY <4>1, NthExists
            <4>3. QED
                BY <2>2, <2>5, <3>2, <4>2
        <3>3. QED
            BY <2>2, <2>3, <3>1, <3>2 DEF Range
    <2>6. QED
        BY <2>4, <2>5
<1>6. CASE SelectsOne
    <2>1. tool \notin {"remuxing", "cutVideo", "concat", "merge"}
        BY <1>6 DEF SelectsOne
    <2>2. TargetOf(f, s) = IF s = Selected(files[f].types) THEN 1 ELSE 0
        BY <1>6, <2>1 DEF TargetOf
    <2>3. NewStreams = IF Selected(files[f].types) = 0
                       THEN <<>> ELSE <<files[f].types[Selected(files[f].types)]>>
        BY <1>3, <1>6, <2>1 DEF NewStreams
    <2>4. Selected(files[f].types) \in 0..m
        <3>1. /\ Best(files[f].types, "audio") \in 0..m
              /\ Best(files[f].types, "video") \in 0..m
            <4>1. files[f].types \in Seq({"video", "audio", "other"})
                BY GivenFile
            <4>2. \A w : Best(files[f].types, w) = 0
                    \/ Best(files[f].types, w) \in DOMAIN files[f].types
                BY <4>1, BestIs
            <4>3. QED
                BY <1>4, <4>2
        <3>2. QED
            BY <1>4, <3>1 DEF Selected
    <2> HIDE DEF Fits
    <2>5. CASE s = Selected(files[f].types)
        <3>1. TargetOf(f, s) = 1 /\ NewStreams = <<type(f, s)>>
            BY <1>4, <2>2, <2>3, <2>5
        <3>2. QED
            BY <3>1 DEF Fits
    <2>6. CASE s # Selected(files[f].types)
        <3>1. TargetOf(f, s) = 0
            BY <2>2, <2>6
        <3>2. ASSUME IsInjective(files[f].types), type(f, s) \in Range(NewStreams) PROVE FALSE
            <4>1. Selected(files[f].types) # 0
                    /\ type(f, s) = files[f].types[Selected(files[f].types)]
                BY <2>3, <3>2 DEF Range
            <4>2. QED
                BY <1>4, <2>4, <2>6, <3>2, <4>1 DEF IsInjective
        <3>3. QED
            BY <1>6, <3>1, <3>2 DEF Fits
    <2>7. QED
        BY <2>5, <2>6
<1>7. CASE tool = "concat"
    <2>1. NewStreams = <<"audio", "video">>
            /\ TargetOf(f, s) = IF s = Best(files[f].types, "audio") THEN 1 ELSE 2
        BY <1>7 DEF NewStreams, TargetOf, SelectsOne
    <2>2. /\ Best(files[f].types, "audio") = s => type(f, s) = "audio"
          /\ Best(files[f].types, "video") = s => type(f, s) = "video"
        BY <1>4, BestIs, GivenFile
    <2>3. QED
        BY <1>7, <2>1, <2>2
<1>8. CASE tool = "merge"
    <2>1. NewStreams = [i \in 1..MixSize |-> files[Nth(Opened, i)].types[1]] /\ TargetOf(f, s) = f
        BY <1>8 DEF NewStreams, TargetOf, SelectsOne, MixSize
    <2>2. f \in Nat \ {0}
        BY <1>2
    <2>3. ASSUME Reached(f) PROVE f \in 1..MixSize /\ Nth(Opened, f) = f
        <3>1. 1..f \subseteq Opened /\ f \in Opened
            BY <1>8, <2>3 DEF Reached
        <3>2. Rank(Opened, f) = f /\ f \in 1..MixSize
            BY <2>2, <3>1, FirstOpened
        <3>3. Opened \subseteq 1..Len(files)
            BY <1>2 DEF Opened
        <3>4. Nth(Opened, Rank(Opened, f)) = f
            BY <1>2, <3>1, <3>3, NthIs
        <3>5. QED
            BY <3>2, <3>4
    <2>4. QED
        BY <1>8, <2>1, <2>2, <2>3
<1>9. CASE tool \in {"record_audio", "record_video"}
    <2>1. s = 1
        <3>1. Len(files[f].types) = 1
            BY <1>9, GivenFile
        <3>2. QED
            BY <1>4, <3>1
    <2>2. NewStreams = <<files[f].types[1]>>
        BY <1>3, <1>9 DEF NewStreams, SelectsOne
    <2>3. TargetOf(f, s) = s
        BY <1>9 DEF TargetOf, SelectsOne
    <2>4. QED
        BY <1>9, <2>1, <2>2, <2>3
<1>10. QED
    BY <1>3, <1>5, <1>6, <1>7, <1>8, <1>9 DEF Programs, SelectsOne

\* The steps of all tools.
LEMMA CopyKinds ==
    ASSUME Next
    PROVE  \/ Open \/ OpenCrashes \/ HeaderFails \/ WriteHeader \/ (Seek /\ tool = "cutVideo")
           \/ Skip \/ CutHere
           \/ \E ok \in BOOLEAN : Copy(ok)
           \/ EndOfFile \/ WriteTrailer
           \/ \E ok \in BOOLEAN : MergeCopies(ok)
           \/ MergeMeetsHole \/ MergeRoundEnds
BY DEF Next, remuxing, cutVideo, remuxing_h264, remuxing_from_memory, extractAudio, extractVideo,
       concat, merge, split, record_audio, record_video, Begin, CopyAll, MergeRounds

\* The file being read has another packet.
LEMMA ReadsIs ==
    ASSUME Given, CopyTypeOK, AtFile, Reads
    PROVE  /\ cur \in DOMAIN files /\ cur \in Opened /\ at[cur] # LengthOf(cur)
           /\ at' = [at EXCEPT ![cur] = @ + 1]
           /\ phase = "copy" /\ tool # "merge"
<1>1. cur \in DOMAIN files /\ at[cur] < LengthOf(cur)
    BY DEF Reads, AtFile, LengthOf
<1>2. at[cur] \in Nat /\ LengthOf(cur) \in Nat
    BY <1>1, GivenFile DEF CopyTypeOK
<1>3. QED
    BY <1>1, <1>2 DEF Reads, Opened

LEMMA CopyTypeStep ==
    ASSUME Given, CopyTypeOK, AtFile, Next
    PROVE  CopyTypeOK' /\ Given' /\ UNCHANGED <<tool, files>>
<1> DEFINE PhaseNames == {"open", "header", "seek", "copy", "trailer", "done", "failed", "crashed"}
           AtOK == at' \in [DOMAIN files -> Nat] /\ \A f \in DOMAIN files : at'[f] <= LengthOf(f)
<1>1. UNCHANGED <<tool, files>>
    BY CopyKinds DEF Open, OpenCrashes, HeaderFails, WriteHeader, Seek, Skip, CutHere, Copy,
       EndOfFile,
       WriteTrailer, MergeCopies, MergeMeetsHole, MergeRoundEnds
<1>2. SUFFICES CopyTypeOK'
    BY <1>1 DEF Given
<1>3. /\ header \in BOOLEAN /\ round \in BOOLEAN /\ phase \in PhaseNames
      /\ cur \in Nat /\ reads \in Nat /\ steps \in Nat /\ leaked \in Nat
      /\ offset \in [1..2 -> Int] /\ duration \in [1..2 -> Int] /\ out \in Seq(Entry)
      /\ at' = at => AtOK
    BY DEF CopyTypeOK
<1>4. ASSUME header' \in BOOLEAN, round' \in BOOLEAN, phase' \in PhaseNames, AtOK,
             cur' \in Nat, reads' \in Nat, steps' \in Nat, leaked' \in Nat,
             offset' \in [1..2 -> Int], duration' \in [1..2 -> Int], out' \in Seq(Entry)
      PROVE  CopyTypeOK'
    BY <1>1, <1>4 DEF CopyTypeOK, LengthOf
<1> HIDE DEF PhaseNames, AtOK
<1>5. \A p \in {"open", "header", "seek", "copy", "trailer", "done", "failed", "crashed"} : p \in PhaseNames
    BY DEF PhaseNames
<1>6. CASE Open \/ OpenCrashes \/ HeaderFails \/ WriteHeader \/ WriteTrailer \/ MergeMeetsHole
    <2>1. UNCHANGED <<cur, at, round, reads, steps, offset, duration, out, leaked>>
        BY <1>6 DEF Open, OpenCrashes, HeaderFails, WriteHeader, WriteTrailer, MergeMeetsHole
    <2>2. header' \in BOOLEAN
        BY <1>3, <1>6 DEF Open, OpenCrashes, HeaderFails, WriteHeader, WriteTrailer,
           MergeMeetsHole
    <2>3. phase' \in {"header", "seek", "copy", "done", "failed", "crashed"}
        <3>1. Open => phase' \in {"header", "failed", "crashed"}
            BY DEF Open
        <3>2. QED
            BY <1>6, <3>1 DEF OpenCrashes, HeaderFails, WriteHeader, WriteTrailer, MergeMeetsHole
    <2>4. QED
        BY <1>3, <1>4, <1>5, <2>1, <2>2, <2>3
<1>7. CASE Seek /\ tool = "cutVideo"
    <2>1. Len(files) = 1 /\ DOMAIN files = 1..1 /\ LengthOf(1) \in Nat
        <3>1. Len(files) = 1 /\ DOMAIN files = 1..1
            BY <1>7, GivenFiles
        <3>2. QED
            BY <3>1, GivenFile
    <2>2. UNCHANGED <<header, cur, round, reads, steps, offset, duration, out, leaked>>
        BY <1>7 DEF Seek
    <2>3. \/ phase' = "copy" /\ \E k \in 0..LengthOf(1) : at' = <<k>>
          \/ phase' = "failed" /\ at' = at
        BY <1>7 DEF Seek, LengthOf
    <2>4. AtOK
        <3>1. ASSUME NEW k \in 0..LengthOf(1), at' = <<k>> PROVE AtOK
            <4>1. k \in Nat /\ k <= LengthOf(1)
                BY <2>1
            <4>2. QED
                BY <2>1, <3>1, <4>1 DEF AtOK
        <3>2. QED
            BY <1>3, <2>3, <3>1
    <2>5. QED
        BY <1>3, <1>4, <1>5, <2>2, <2>3, <2>4
<1>8. ASSUME at' = [at EXCEPT ![cur] = @ + 1], cur \in DOMAIN files, at[cur] # LengthOf(cur)
      PROVE  AtOK
    <2>1. at[cur] \in Nat /\ at[cur] + 1 \in 1..LengthOf(cur) /\ LengthOf(cur) \in Nat
        BY <1>8, PacketIs, GivenFile
    <2>2. QED
        BY <1>8, <2>1 DEF CopyTypeOK, AtOK
<1>9. ASSUME Reads PROVE AtOK /\ reads' \in Nat
    BY <1>3, <1>8, <1>9, ReadsIs DEF Reads
<1>10. CASE Skip
    <2>1. UNCHANGED <<header, phase, cur, round, steps, offset, duration, out>>
            /\ leaked' \in Nat /\ Reads
        BY <1>3, <1>10 DEF Skip
    <2>2. QED
        BY <1>3, <1>4, <1>9, <2>1
<1>11. CASE CutHere
    <2>1. /\ UNCHANGED <<header, cur, round, steps, offset, duration, out>> /\ leaked' \in Nat
          /\ phase' = "trailer" /\ Reads
        BY <1>3, <1>11 DEF CutHere
    <2>2. QED
        BY <1>3, <1>4, <1>5, <1>9, <2>1
<1>12. ASSUME NEW ok \in BOOLEAN, Copy(ok) PROVE CopyTypeOK'
    <2>1. Reads
        BY <1>12 DEF Copy
    <2>2. Written(ok) \in Entry /\ Written(ok).pts \in Int
        BY <2>1, ReadsIs, WrittenIs DEF Entry
    <2>3. out' \in Seq(Entry)
        <3>1. out' = Append(out, Written(ok))
            BY <1>12 DEF Copy
        <3>2. QED
            BY <1>3, <2>2, <3>1, AppendProperties
    <2>4. duration' \in [1..2 -> Int]
        <3>1. tool = "concat" => Target(Packet.stream) \in 1..2
            BY <2>1, ReadsIs, PacketIs
        <3>2. EndOfPacket(Written(ok)) \in Int
            <4>1. cur \in DOMAIN files
                BY <2>1, ReadsIs
            <4>2. Rescale(cur, 1) \in Int
                BY <4>1, TimesOf
            <4>3. QED
                BY <2>2, <4>2 DEF EndOfPacket
        <3>3. duration' = IF tool = "concat"
                          THEN [duration EXCEPT
                                    ![Target(Packet.stream)] = EndOfPacket(Written(ok))]
                          ELSE duration
            BY <1>12 DEF Copy
        <3>4. QED
            BY <1>3, <3>1, <3>2, <3>3
    <2>5. phase' \in {phase, "trailer"} /\ steps' \in Nat /\ leaked' \in Nat
        BY <1>3, <1>12 DEF Copy
    <2>6. UNCHANGED <<header, cur, round, offset>>
        BY <1>12 DEF Copy
    <2>7. QED
        BY <1>3, <1>4, <1>5, <1>9, <2>1, <2>3, <2>4, <2>5, <2>6
<1>13. CASE EndOfFile
    <2>1. cur' \in Nat /\ phase' \in {phase, "trailer"}
        BY <1>3, <1>13 DEF EndOfFile
    <2>2. offset' \in [1..2 -> Int] /\ duration' \in [1..2 -> Int]
        BY <1>3, <1>13 DEF EndOfFile
    <2>3. UNCHANGED <<header, at, round, reads, steps, out, leaked>>
        BY <1>13 DEF EndOfFile
    <2>4. QED
        BY <1>3, <1>4, <1>5, <2>1, <2>2, <2>3
<1>14. ASSUME NEW ok \in BOOLEAN, MergeCopies(ok) PROVE CopyTypeOK'
    <2>1. cur \in DOMAIN files /\ cur' \in Nat
        BY <1>3, <1>14 DEF MergeCopies, Opened
    <2>2. UNCHANGED <<header, phase, steps, offset, duration, leaked>>
        BY <1>14 DEF MergeCopies
    <2>3. CASE at[cur] = LengthOf(cur)
        <3>1. UNCHANGED <<at, round, reads, out>>
            BY <1>14, <2>3 DEF MergeCopies, LengthOf
        <3>2. QED
            BY <1>3, <1>4, <2>1, <2>2, <3>1
    <2>4. CASE at[cur] # LengthOf(cur)
        <3>1. Written(ok) \in Entry
            BY <2>1, <2>4, WrittenIs
        <3>2. /\ out' = Append(out, Written(ok)) /\ at' = [at EXCEPT ![cur] = @ + 1]
              /\ round' = TRUE /\ reads' = reads + 1
            BY <1>14, <2>4 DEF MergeCopies, LengthOf
        <3>3. out' \in Seq(Entry)
            BY <1>3, <3>1, <3>2, AppendProperties
        <3>4. AtOK
            BY <1>8, <2>1, <2>4, <3>2
        <3>5. QED
            BY <1>3, <1>4, <2>1, <2>2, <3>2, <3>3, <3>4
    <2>5. QED
        BY <2>3, <2>4
<1>15. CASE MergeRoundEnds
    <2>1. cur' = 1 /\ round' = FALSE /\ phase' \in {phase, "trailer"}
        BY <1>15 DEF MergeRoundEnds
    <2>2. UNCHANGED <<header, at, reads, steps, offset, duration, out, leaked>>
        BY <1>15 DEF MergeRoundEnds
    <2>3. QED
        BY <1>3, <1>4, <1>5, <2>1, <2>2
<1>16. QED
    BY <1>6, <1>7, <1>10, <1>11, <1>12, <1>13, <1>14, <1>15, CopyKinds

LEMMA AtFileStep ==
    ASSUME Given, CopyTypeOK, AtFile, Next
    PROVE  AtFile'
<1>1. UNCHANGED <<tool, files>>
    BY CopyTypeStep
<1>2. DOMAIN files' = DOMAIN files /\ Opened' = Opened /\ MixSize' = MixSize /\ MixSize \in Nat
    BY <1>1, GivenFiles DEF Opened, MixSize
<1>3. /\ tool # "merge" => cur \in DOMAIN files
      /\ tool = "merge" => cur \in 1..(MixSize + 1) /\ 1..(cur - 1) \subseteq Opened
      /\ tool # "concat" /\ tool # "merge" => cur = 1
      /\ phase \in {"open", "header", "seek"} => cur = 1 /\ out = <<>>
      /\ tool = "concat" => \A f \in DOMAIN files : f > cur => at[f] = 0
    BY DEF AtFile
<1>4. ASSUME tool' # "merge" => cur' \in DOMAIN files,
             tool' = "merge" => cur' \in 1..(MixSize + 1) /\ 1..(cur' - 1) \subseteq Opened,
             tool' # "concat" /\ tool' # "merge" => cur' = 1,
             phase' \in {"open", "header", "seek"} => cur' = 1 /\ out' = <<>>,
             tool' = "concat" => \A f \in DOMAIN files : f > cur' => at'[f] = 0
      PROVE  AtFile'
    BY <1>1, <1>2, <1>4 DEF AtFile
<1>5. CASE Open \/ OpenCrashes \/ HeaderFails \/ WriteHeader \/ WriteTrailer \/ MergeMeetsHole
    <2>1. UNCHANGED <<tool, cur, at, out>>
        BY <1>5 DEF Open, OpenCrashes, HeaderFails, WriteHeader, WriteTrailer, MergeMeetsHole
    <2>2. phase' \in {"open", "header", "seek"} => phase \in {"open", "header", "seek"}
        BY <1>5 DEF Open, OpenCrashes, HeaderFails, WriteHeader, WriteTrailer, MergeMeetsHole
    <2>3. QED
        BY <1>3, <1>4, <2>1, <2>2
<1>6. CASE Seek /\ tool = "cutVideo"
    <2>1. UNCHANGED <<tool, cur, out>> /\ phase = "seek"
        BY <1>6 DEF Seek
    <2>2. QED
        BY <1>3, <1>4, <1>6, <2>1
<1>7. ASSUME Reads, UNCHANGED <<tool, cur>>, phase' \in {"copy", "trailer"} PROVE AtFile'
    <2>1. cur \in DOMAIN files /\ at' = [at EXCEPT ![cur] = @ + 1] /\ tool # "merge"
        BY <1>7, ReadsIs
    <2>2. tool = "concat" => \A f \in DOMAIN files : f > cur => at'[f] = 0
        <3>1. \A f \in DOMAIN files : f # cur => at'[f] = at[f]
            BY <2>1 DEF CopyTypeOK
        <3>2. cur \in Nat /\ \A f \in DOMAIN files : f > cur => f # cur
            BY GivenFiles DEF CopyTypeOK
        <3>3. QED
            BY <1>3, <3>1, <3>2
    <2>3. QED
        BY <1>3, <1>4, <1>7, <2>1, <2>2
<1>8. CASE Skip
    BY <1>7, <1>8, ReadsIs DEF Skip
<1>9. CASE CutHere
    BY <1>7, <1>9 DEF CutHere
<1>10. ASSUME NEW ok \in BOOLEAN, Copy(ok) PROVE AtFile'
    BY <1>7, <1>10, ReadsIs DEF Copy
<1>11. CASE EndOfFile
    <2>1. phase' \in {"copy", "trailer"} /\ tool' = tool /\ tool # "merge" /\ at' = at
        BY <1>11 DEF EndOfFile
    <2>2. cur' = cur \/ (tool = "concat" /\ cur < Len(files) /\ cur' = cur + 1)
        BY <1>11 DEF EndOfFile
    <2>3. CASE cur' = cur
        BY <1>3, <1>4, <2>1, <2>3
    <2>4. CASE tool = "concat" /\ cur < Len(files) /\ cur' = cur + 1
        <3>1. cur \in Nat /\ Len(files) \in Nat /\ DOMAIN files = 1..Len(files)
            BY GivenFiles DEF CopyTypeOK
        <3>2. cur' \in DOMAIN files /\ \A f \in DOMAIN files : f > cur' => f > cur
            BY <2>4, <3>1
        <3>3. QED
            BY <1>3, <1>4, <2>1, <2>4, <3>2
    <2>5. QED
        BY <2>2, <2>3, <2>4
<1>12. ASSUME NEW ok \in BOOLEAN, MergeCopies(ok) PROVE AtFile'
    <2>1. /\ phase' = "copy" /\ tool' = tool /\ tool = "merge" /\ cur' = cur + 1
          /\ cur \in 1..MixSize /\ cur \in Opened
        BY <1>12 DEF MergeCopies
    <2>2. cur' \in 1..(MixSize + 1) /\ 1..(cur' - 1) \subseteq Opened
        BY <1>2, <1>3, <2>1
    <2>3. QED
        BY <1>4, <2>1, <2>2
<1>13. CASE MergeRoundEnds
    <2>1. phase' \in {"copy", "trailer"} /\ tool' = tool /\ tool = "merge" /\ cur' = 1
        BY <1>13 DEF MergeRoundEnds
    <2>2. QED
        BY <1>2, <1>4, <2>1
<1>14. QED
    BY <1>5, <1>6, <1>8, <1>9, <1>10, <1>11, <1>12, <1>13, CopyKinds

LEMMA StreamsFitStep ==
    ASSUME Given, CopyTypeOK, AtFile, StreamsFit, Next
    PROVE  StreamsFit'
<1>1. UNCHANGED <<tool, files>>
    BY CopyTypeStep
<1>2. ASSUME phase' \in {"open", "failed", "crashed"}, out' = <<>> PROVE StreamsFit'
    BY <1>2 DEF StreamsFit
<1>3. CASE Open
    <2>1. phase = "open" /\ cur = 1 /\ out = <<>> /\ out' = out
        BY <1>3 DEF Open, AtFile
    <2>2. phase' = "failed" \/ streams' = NewStreams
        BY <1>3 DEF Open
    <2>3. QED
        BY <1>1, <1>2, <2>1, <2>2, OpenFits
<1>4. CASE OpenCrashes
    BY <1>2, <1>4 DEF OpenCrashes, AtFile
<1>5. CASE ~Open /\ ~OpenCrashes
    <2>1. streams' = streams /\ phase \in {"header", "seek", "copy", "trailer"}
        <3>1. Reads => phase = "copy"
            BY DEF Reads
        <3>2. QED
            BY <1>5, <3>1, CopyKinds
               DEF HeaderFails, WriteHeader, Seek, Skip, CutHere, Copy, EndOfFile,
               WriteTrailer, MergeCopies, MergeMeetsHole, MergeRoundEnds
    <2>2. phase \notin {"open", "failed", "crashed"} \/ out # <<>>
        BY <2>1
    <2>3. QED
        BY <1>1, <2>1, <2>2 DEF StreamsFit, TargetOf, Reached, SelectsOne, Selected, Opened
<1>6. QED
    BY <1>3, <1>4, <1>5

\* The steps by what they add to the output.
Appends(ok) ==
    /\ phase = "copy" /\ cur \in DOMAIN files /\ Reached(cur) /\ at[cur] # LengthOf(cur)
    /\ TargetOf(cur, StreamOf(cur, at[cur] + 1)) # 0
    /\ at' = [at EXCEPT ![cur] = @ + 1]
    /\ out' = Append(out, Written(ok))
    /\ UNCHANGED offset
    /\ tool # "merge" => cur' = cur

LeavesOut ==
    /\ out' = out
    /\ \/ at' = at
       \/ /\ cur \in DOMAIN files /\ at[cur] # LengthOf(cur) /\ at' = [at EXCEPT ![cur] = @ + 1]
          /\ TargetOf(cur, StreamOf(cur, at[cur] + 1)) = 0 \/ tool = "cutVideo"
       \/ out = <<>> /\ tool = "cutVideo"
    /\ tool = "concat" => cur' \in {cur, cur + 1}

LEMMA CopySteps ==
    ASSUME Given, CopyTypeOK, AtFile, Next
    PROVE  LeavesOut \/ \E ok \in BOOLEAN : Appends(ok)
<1>1. CASE Open \/ OpenCrashes \/ HeaderFails \/ WriteHeader \/ WriteTrailer \/ MergeMeetsHole
    BY <1>1 DEF Open, OpenCrashes, HeaderFails, WriteHeader, WriteTrailer, MergeMeetsHole,
       LeavesOut
<1>2. CASE Seek /\ tool = "cutVideo"
    <2>1. out' = out /\ cur' = cur /\ phase = "seek" /\ tool = "cutVideo"
        BY <1>2 DEF Seek
    <2>2. QED
        BY <2>1 DEF LeavesOut, AtFile
<1>3. ASSUME Reads
      PROVE  /\ cur \in DOMAIN files /\ at[cur] # LengthOf(cur)
                  /\ at' = [at EXCEPT ![cur] = @ + 1]
             /\ Target(Packet.stream) = TargetOf(cur, StreamOf(cur, at[cur] + 1))
             /\ phase = "copy" /\ tool # "merge" /\ Reached(cur)
    <2>1. /\ cur \in DOMAIN files /\ at[cur] # LengthOf(cur) /\ at' = [at EXCEPT ![cur] = @ + 1]
          /\ phase = "copy" /\ tool # "merge" /\ cur \in Opened
        BY <1>3, ReadsIs
    <2>2. QED
        BY <2>1, PacketIs DEF Reached
<1>4. CASE Skip
    BY <1>3, <1>4 DEF Skip, LeavesOut
<1>5. CASE CutHere
    BY <1>3, <1>5 DEF CutHere, LeavesOut, BehindEnd
<1>6. ASSUME NEW ok \in BOOLEAN, Copy(ok) PROVE Appends(ok)
    BY <1>3, <1>6 DEF Copy, Appends
<1>7. CASE EndOfFile
    BY <1>7 DEF EndOfFile, LeavesOut
<1>8. ASSUME NEW ok \in BOOLEAN, MergeCopies(ok) PROVE LeavesOut \/ Appends(ok)
    <2>1. /\ phase = "copy" /\ tool = "merge" /\ cur \in Opened /\ cur \in DOMAIN files
          /\ UNCHANGED offset
        BY <1>8 DEF MergeCopies, Opened
    <2>2. CASE at[cur] = LengthOf(cur)
        BY <1>8, <2>1, <2>2 DEF MergeCopies, LengthOf, LeavesOut
    <2>3. CASE at[cur] # LengthOf(cur)
        <3>1. out' = Append(out, Written(ok)) /\ at' = [at EXCEPT ![cur] = @ + 1]
            BY <1>8, <2>3 DEF MergeCopies, LengthOf
        <3>2. cur \in Nat \ {0} /\ 1..(cur - 1) \subseteq Opened
            <4>1. MixSize \in Nat
                BY GivenFiles
            <4>2. QED
                BY <2>1, <4>1 DEF AtFile
        <3>3. Reached(cur)
            BY <2>1, <3>2 DEF Reached
        <3>4. TargetOf(cur, StreamOf(cur, at[cur] + 1)) = cur
            BY <2>1 DEF TargetOf, SelectsOne
        <3>5. QED
            BY <2>1, <2>3, <3>1, <3>2, <3>3, <3>4 DEF Appends
    <2>4. QED
        BY <2>2, <2>3
<1>9. CASE MergeRoundEnds
    BY <1>9 DEF MergeRoundEnds, LeavesOut
<1>10. QED
    BY <1>1, <1>2, <1>4, <1>5, <1>6, <1>7, <1>8, <1>9, CopyKinds

\* An entry is appended for the packet at hand.
LEMMA AppendIs ==
    ASSUME Given, CopyTypeOK, NEW ok \in BOOLEAN, Appends(ok)
    PROVE  /\ Written(ok) \in Entry /\ Written(ok).file = cur /\ Written(ok).n = at[cur] + 1
           /\ Written(ok).stream = TargetOf(cur, StreamOf(cur, at[cur] + 1))
           /\ Written(ok).stream # 0
           /\ cur \in DOMAIN files /\ Reached(cur)
           /\ at[cur] \in Nat /\ at[cur] + 1 \in 1..LengthOf(cur)
           /\ DOMAIN out = 1..Len(out) /\ Len(out) \in Nat /\ DOMAIN out' = 1..(Len(out) + 1)
           /\ \A i \in DOMAIN out : out'[i] = out[i] /\ out[i] \in Entry
           /\ out'[Len(out) + 1] = Written(ok)
           /\ at'[cur] = at[cur] + 1
           /\ \A f \in DOMAIN files : f # cur => at'[f] = at[f]
<1>1. cur \in DOMAIN files /\ at[cur] # LengthOf(cur) /\ out' = Append(out, Written(ok))
    BY DEF Appends
<1>2. at[cur] \in Nat /\ at[cur] + 1 \in 1..LengthOf(cur)
    BY <1>1, PacketIs
<1>3. out \in Seq(Entry)
    BY DEF CopyTypeOK
<1>4. /\ Written(ok) \in Entry /\ Written(ok).file = cur /\ Written(ok).n = at[cur] + 1
      /\ Written(ok).stream = TargetOf(cur, StreamOf(cur, at[cur] + 1))
    BY <1>1, WrittenIs
<1> DEFINE w == Written(ok)
<1> HIDE DEF w
<1>5. /\ DOMAIN out = 1..Len(out) /\ Len(out) \in Nat /\ DOMAIN out' = 1..(Len(out) + 1)
      /\ \A i \in 1..(Len(out) + 1) : out'[i] = IF i <= Len(out) THEN out[i] ELSE w
    <2>1. w \in Entry /\ out' = Append(out, w)
        BY <1>1, <1>4 DEF w
    <2>2. QED
        BY <1>3, <2>1, Appended
<1>6. /\ \A i \in DOMAIN out : out'[i] = out[i] /\ out[i] \in Entry
      /\ out'[Len(out) + 1] = Written(ok)
    <2>1. \A i \in DOMAIN out : out[i] \in Entry
        BY <1>3
    <2>2. QED
        BY <1>5, <2>1 DEF w
<1>7. at'[cur] = at[cur] + 1 /\ \A f \in DOMAIN files : f # cur => at'[f] = at[f]
    BY <1>1 DEF Appends, CopyTypeOK
<1>8. QED
    BY <1>1, <1>2, <1>4, <1>5, <1>6, <1>7 DEF Appends

\* What was written stays right, and what is added is.
LEMMA WrittenStep ==
    ASSUME Given, CopyTypeOK, AtFile, WrittenRight, InOrder, Next
    PROVE  WrittenRight' /\ InOrder'
<1>1. UNCHANGED <<tool, files>>
    BY CopyTypeStep
<1> DEFINE Right(w) ==
             /\ w.file \in DOMAIN files /\ Reached(w.file)
             /\ w.n \in 1..at'[w.file]
             /\ w.stream = TargetOf(w.file, StreamOf(w.file, w.n)) /\ w.stream # 0
             /\ tool = "concat" => w.file <= cur'
           Ordered(v, w) ==
             /\ v.file = w.file => v.n < w.n
             /\ tool = "concat" => v.file <= w.file
<1>2. (\A i \in DOMAIN out' : Right(out'[i])) => WrittenRight'
    BY <1>1 DEF WrittenRight, Reached, TargetOf, StreamOf, SelectsOne, Selected, Opened
<1>3. (\A i, j \in DOMAIN out' : i < j => Ordered(out'[i], out'[j])) => InOrder'
    BY <1>1 DEF InOrder
<1>4. \A i, j \in DOMAIN out : i < j => Ordered(out[i], out[j])
    BY DEF InOrder
<1>5. \A f \in DOMAIN files : f \in Nat /\ at[f] \in Nat /\ at'[f] \in Nat
    <2>1. CopyTypeOK'
        BY CopyTypeStep
    <2>2. at \in [DOMAIN files -> Nat] /\ at' \in [DOMAIN files -> Nat]
        BY <1>1, <2>1 DEF CopyTypeOK
    <2>3. \A f \in DOMAIN files : f \in Nat
        BY GivenFiles
    <2>4. QED
        BY <2>2, <2>3
<1>6. cur \in Nat /\ cur' \in Nat
    BY CopyTypeStep DEF CopyTypeOK
<1>7. ASSUME NEW i \in DOMAIN out, out = <<>> \/ \A f \in DOMAIN files : at[f] <= at'[f],
             tool = "concat" => cur <= cur'
      PROVE  Right(out[i])
    <2>1. /\ out[i].file \in DOMAIN files /\ Reached(out[i].file)
          /\ out[i].n \in 1..at[out[i].file]
          /\ out[i].stream = TargetOf(out[i].file, StreamOf(out[i].file, out[i].n))
               /\ out[i].stream # 0
          /\ tool = "concat" => out[i].file <= cur
        BY DEF WrittenRight
    <2>2. \A f \in DOMAIN files : at[f] <= at'[f]
        BY <1>7
    <2>3. out[i].n \in 1..at'[out[i].file]
        BY <1>5, <2>1, <2>2
    <2>4. tool = "concat" => out[i].file <= cur'
        BY <1>5, <1>6, <1>7, <2>1
    <2>5. QED
        BY <2>1, <2>3, <2>4
<1> HIDE DEF Right, Ordered
<1>8. CASE LeavesOut
    <2>1. out' = out /\ (tool = "concat" => cur <= cur')
        BY <1>6, <1>8 DEF LeavesOut
    <2>2. out = <<>> \/ \A f \in DOMAIN files : at[f] <= at'[f]
        <3>1. at' = at \/ at' = [at EXCEPT ![cur] = @ + 1] \/ out = <<>>
            BY <1>8 DEF LeavesOut
        <3>2. at \in [DOMAIN files -> Nat]
            BY DEF CopyTypeOK
        <3>3. ASSUME NEW f \in DOMAIN files,
                       at' = [at EXCEPT ![cur] = @ + 1] PROVE at[f] <= at'[f]
            <4>1. at[f] \in Nat /\ at'[f] = IF f = cur THEN at[f] + 1 ELSE at[f]
                BY <3>2, <3>3
            <4>2. QED
                BY <4>1
        <3>4. at' = at => \A f \in DOMAIN files : at[f] <= at'[f]
            BY <1>5
        <3>5. QED
            BY <3>1, <3>3, <3>4
    <2>3. QED
        BY <1>2, <1>3, <1>4, <1>7, <2>1, <2>2
<1>9. ASSUME NEW ok \in BOOLEAN, Appends(ok) PROVE WrittenRight' /\ InOrder'
    <2> DEFINE w == Written(ok)
               e == Len(out) + 1
    <2>1. /\ w.file = cur /\ w.n = at[cur] + 1
          /\ w.stream = TargetOf(cur, StreamOf(cur, at[cur] + 1)) /\ w.stream # 0
          /\ cur \in DOMAIN files /\ Reached(cur) /\ at'[cur] = at[cur] + 1
          /\ \A f \in DOMAIN files : f # cur => at'[f] = at[f]
          /\ DOMAIN out = 1..Len(out) /\ Len(out) \in Nat /\ DOMAIN out' = 1..e
          /\ \A i \in DOMAIN out : out'[i] = out[i]
          /\ out'[e] = w
        BY <1>9, AppendIs
    <2> HIDE DEF w
    <2>2. tool = "concat" => cur' = cur
        BY <1>9 DEF Appends
    <2>3. \A f \in DOMAIN files : at[f] <= at'[f]
        BY <1>5, <2>1
    <2>4. Right(w)
        BY <1>5, <1>6, <2>1, <2>2 DEF Right
    <2>5. \A i \in DOMAIN out' : Right(out'[i])
        <3>1. \A i \in DOMAIN out : Right(out[i])
            BY <1>6, <1>7, <2>2, <2>3
        <3>2. QED
            BY <2>1, <2>4, <3>1
    <2>6. ASSUME NEW i \in DOMAIN out PROVE Ordered(out[i], w)
        <3>1. out[i].file \in DOMAIN files /\ out[i].n \in 1..at[out[i].file]
                /\ (tool = "concat" => out[i].file <= cur)
            BY DEF WrittenRight
        <3>2. QED
            BY <1>5, <2>1, <3>1 DEF Ordered
    <2>7. ASSUME NEW i \in DOMAIN out', NEW j \in DOMAIN out',
                   i < j PROVE Ordered(out'[i], out'[j])
        <3>1. i \in DOMAIN out /\ (j \in DOMAIN out \/ j = e)
            BY <2>1, <2>7
        <3>2. QED
            BY <1>4, <2>1, <2>6, <2>7, <3>1
    <2>8. QED
        BY <1>2, <1>3, <2>5, <2>7
<1>10. QED
    BY <1>8, <1>9, CopySteps

\* What was read for the output is in it.
LEMMA CopiedStep ==
    ASSUME Given, CopyTypeOK, AtFile, Copied, Next
    PROVE  Copied'
<1>1. UNCHANGED <<tool, files>>
    BY CopyTypeStep
<1> DEFINE Holds(s, f, k) == \E i \in DOMAIN s : s[i].file = f /\ s[i].n = k
           For(f, k) == TargetOf(f, StreamOf(f, k)) # 0
<1>2. (tool # "cutVideo" => \A f \in DOMAIN files : \A k \in 1..at'[f] : For(f, k) =>
        Holds(out', f, k)) => Copied'
    BY <1>1 DEF Copied, TargetOf, StreamOf, SelectsOne, Selected
<1>3. tool # "cutVideo" => \A f \in DOMAIN files : \A k \in 1..at[f] : For(f, k) =>
        Holds(out, f, k)
    BY DEF Copied
<1>4. \A f \in DOMAIN files : at[f] \in Nat
    BY DEF CopyTypeOK
<1> HIDE DEF Holds, For
<1>5. ASSUME tool # "cutVideo", cur \in DOMAIN files, at' = [at EXCEPT ![cur] = @ + 1],
             \A f \in DOMAIN files : \A k \in 1..at[f] : Holds(out, f, k) => Holds(out', f, k),
             For(cur, at[cur] + 1) => Holds(out', cur, at[cur] + 1)
      PROVE  Copied'
    <2>1. ASSUME NEW f \in DOMAIN files, NEW k \in 1..at'[f], For(f, k) PROVE Holds(out', f, k)
        <3>1. k \in 1..at[f] \/ (f = cur /\ k = at[cur] + 1)
            BY <1>4, <1>5, <2>1 DEF CopyTypeOK
        <3>2. QED
            BY <1>3, <1>5, <2>1, <3>1
    <2>2. QED
        BY <1>2, <2>1
<1>6. CASE LeavesOut
    <2>1. CASE tool = "cutVideo"
        BY <1>2, <2>1
    <2>2. CASE tool # "cutVideo" /\ at' = at /\ out' = out
        BY <1>2, <1>3, <2>2
    <2>3. CASE /\ tool # "cutVideo" /\ out' = out
               /\ cur \in DOMAIN files /\ at' = [at EXCEPT ![cur] = @ + 1]
               /\ TargetOf(cur, StreamOf(cur, at[cur] + 1)) = 0
        BY <1>5, <2>3 DEF For
    <2>4. QED
        BY <1>6, <2>1, <2>2, <2>3 DEF LeavesOut
<1>7. ASSUME NEW ok \in BOOLEAN, Appends(ok) PROVE Copied'
    <2> DEFINE w == Written(ok)
               e == Len(out) + 1
    <2>1. /\ w.file = cur /\ w.n = at[cur] + 1 /\ cur \in DOMAIN files
          /\ DOMAIN out = 1..Len(out) /\ Len(out) \in Nat /\ DOMAIN out' = 1..e
          /\ \A i \in DOMAIN out : out'[i] = out[i]
          /\ out'[e] = w
        BY <1>7, AppendIs
    <2> HIDE DEF w
    <2>2. Holds(out', cur, at[cur] + 1)
        BY <2>1 DEF Holds
    <2>3. \A f, k : Holds(out, f, k) => Holds(out', f, k)
        BY <2>1 DEF Holds
    <2>4. QED
        BY <1>2, <1>5, <1>7, <2>1, <2>2, <2>3 DEF Appends
<1>8. QED
    BY <1>6, <1>7, CopySteps

\* A tool ends when it has read its files.
LEMMA ReadStep ==
    ASSUME Given, CopyTypeOK, AtFile, ReadToEnd, Next
    PROVE  ReadToEnd'
<1>1. UNCHANGED <<tool, files>>
    BY CopyTypeStep
<1> DEFINE Failed(s) == \E i \in DOMAIN s : ~s[i].ok
           Enough == Counts /\ reads' = MaxReads
           Earlier == tool = "concat" => \A f \in Opened : f < cur' => at'[f] = LengthOf(f)
           Rounds == tool = "merge" /\ phase' = "copy" =>
                         round' \/ \A f \in 1..(cur' - 1) : at'[f] = LengthOf(f)
           AllRead == phase' \in {"trailer", "done"} /\ ~Failed(out') /\ tool # "cutVideo"
             /\ ~Enough =>
                         \A f \in Opened : at'[f] = LengthOf(f)
<1>2. Earlier /\ Rounds /\ AllRead => ReadToEnd'
    BY <1>1 DEF ReadToEnd, Opened, LengthOf, Counts
<1>3. /\ tool = "concat" => \A f \in Opened : f < cur => at[f] = LengthOf(f)
      /\ tool = "merge" /\ phase = "copy" => round \/ \A f \in 1..(cur - 1) : at[f] = LengthOf(f)
      /\ phase \in {"trailer", "done"} /\ ~Failed(out) /\ tool # "cutVideo"
           /\ ~(Counts /\ reads = MaxReads) =>
             \A f \in Opened : at[f] = LengthOf(f)
    BY DEF ReadToEnd
<1>4. /\ cur \in Nat /\ MixSize \in Nat /\ at \in [DOMAIN files -> Nat]
      /\ DOMAIN files = 1..Len(files) /\ Len(files) \in Nat \ {0} /\ Opened \subseteq DOMAIN files
    BY GivenFiles DEF CopyTypeOK, Opened
<1>5. phase \in {"open", "header", "seek"} => cur = 1
    BY DEF AtFile
<1> HIDE DEF Failed, Enough, Earlier, Rounds, AllRead
<1>6. CASE Open \/ OpenCrashes \/ HeaderFails \/ WriteHeader \/ WriteTrailer \/ MergeMeetsHole
    <2>1. UNCHANGED <<cur, at, round, reads, out>>
        BY <1>6 DEF Open, OpenCrashes, HeaderFails, WriteHeader, WriteTrailer, MergeMeetsHole
    <2>2. /\ phase' = "copy" => phase = "header"
          /\ phase' \in {"trailer", "done"} => phase = "trailer"
        <3>1. Open => phase' \in {"header", "failed", "crashed"}
            BY DEF Open
        <3>2. QED
            BY <1>6, <3>1 DEF OpenCrashes, HeaderFails, WriteHeader, WriteTrailer, MergeMeetsHole
    <2>3. Earlier
        BY <1>3, <2>1 DEF Earlier
    <2>4. Rounds
        BY <1>5, <2>1, <2>2 DEF Rounds
    <2>5. AllRead
        BY <1>3, <2>1, <2>2 DEF AllRead, Enough
    <2>6. QED
        BY <1>2, <2>3, <2>4, <2>5
<1>7. CASE Seek /\ tool = "cutVideo"
    BY <1>2, <1>7 DEF Earlier, Rounds, AllRead
<1>8. ASSUME Reads, cur' = cur, phase' = "trailer" => Failed(out') \/ tool = "cutVideo",
               phase' \in {"copy", "trailer"}
      PROVE  ReadToEnd'
    <2>1. tool # "merge" /\ at' = [at EXCEPT ![cur] = @ + 1] /\ cur \in DOMAIN files
        BY <1>8, ReadsIs
    <2>2. Rounds /\ AllRead
        BY <1>8, <2>1 DEF Rounds, AllRead
    <2>3. \A f \in Opened : f < cur => at'[f] = at[f]
        BY <1>4, <2>1
    <2>4. Earlier
        BY <1>3, <1>8, <2>3 DEF Earlier
    <2>5. QED
        BY <1>2, <2>2, <2>4
<1>9. CASE Skip
    BY <1>8, <1>9, ReadsIs DEF Skip
<1>10. CASE CutHere
    BY <1>8, <1>10 DEF CutHere, BehindEnd
<1>11. ASSUME NEW ok \in BOOLEAN, Copy(ok) PROVE ReadToEnd'
    <2>1. Reads /\ cur' = cur /\ phase' \in {phase, "trailer"}
            /\ (phase' = "trailer" => ~ok \/ phase = "trailer")
        BY <1>11 DEF Copy
    <2>2. phase = "copy" /\ cur \in DOMAIN files /\ at[cur] # LengthOf(cur)
        BY <2>1, ReadsIs
    <2>3. ~ok => Failed(out')
        <3>1. Written(ok).ok = ok /\ Written(ok) \in Entry
            BY <2>2, WrittenIs
        <3>2. out' = Append(out, Written(ok)) /\ out \in Seq(Entry)
            BY <1>11 DEF Copy, CopyTypeOK
        <3> DEFINE w == Written(ok)
        <3>3. w.ok = ok /\ w \in Entry /\ out' = Append(out, w)
            BY <3>1, <3>2
        <3> HIDE DEF w
        <3>4. Len(out) + 1 \in DOMAIN out' /\ out'[Len(out) + 1] = w
            BY <3>2, <3>3, Appended
        <3>5. QED
            BY <3>3, <3>4 DEF Failed
    <2>4. QED
        BY <1>8, <2>1, <2>2, <2>3
<1>12. CASE EndOfFile
    <2>1. /\ phase = "copy" /\ tool # "merge" /\ cur \in DOMAIN files
          /\ UNCHANGED <<at, round, reads, out>>
        BY <1>12 DEF EndOfFile, AtFile
    <2>2. Counts \/ cur \notin Opened \/ at[cur] = LengthOf(cur)
        BY <1>12 DEF EndOfFile, Opened, LengthOf
    <2>3. Counts => Enough \/ cur \notin Opened \/ at[cur] = LengthOf(cur)
        BY <1>12 DEF EndOfFile, Enough, Opened, LengthOf
    <2>4. Rounds
        BY <2>1 DEF Rounds
    <2>5. CASE tool = "concat"
        <3>1. \A f \in Opened : f < cur + 1 => at[f] = LengthOf(f)
            <4>1. \A f \in Opened : f < cur + 1 => f < cur \/ f = cur
                BY <1>4
            <4>2. cur \in Opened => at[cur] = LengthOf(cur)
                BY <2>2, <2>5 DEF Counts
            <4>3. QED
                BY <1>3, <2>5, <4>1, <4>2
        <3>2. \/ cur' = cur + 1 /\ phase' = "copy"
              \/ cur' = cur /\ cur = Len(files)
            <4>1. IF cur < Len(files) THEN cur' = cur + 1 /\ phase' = phase ELSE cur' = cur
                BY <1>12, <2>5 DEF EndOfFile
            <4>2. cur \in 1..Len(files) /\ Len(files) \in Nat
                BY <1>4, <2>1
            <4>3. QED
                BY <2>1, <4>1, <4>2
        <3>3. Earlier
            <4>1. \A f \in Opened : f \in Nat
                BY <1>4
            <4>2. ASSUME NEW f \in Opened, f < cur' PROVE f < cur + 1
                <5>1. f \in Nat /\ cur \in Nat /\ (cur' = cur + 1 \/ cur' = cur)
                    BY <1>4, <3>2, <4>1
                <5>2. QED
                    BY <4>2, <5>1
            <4>3. QED
                BY <2>1, <3>1, <4>2 DEF Earlier
        <3>4. AllRead
            <4>1. cur = Len(files) => \A f \in Opened : f < cur + 1
                BY <1>4
            <4>2. QED
                BY <2>1, <3>1, <3>2, <4>1 DEF AllRead
        <3>5. QED
            BY <1>2, <2>4, <3>3, <3>4
    <2>6. CASE tool # "concat"
        <3>1. \A f \in Opened : f = cur
            <4>1. Len(files) = 1 /\ cur = 1
                BY <2>1, <2>6, GivenFiles DEF AtFile
            <4>2. QED
                BY <1>4, <4>1
        <3>2. Earlier /\ AllRead
            BY <2>1, <2>2, <2>3, <2>6, <3>1 DEF Earlier, AllRead
        <3>3. QED
            BY <1>2, <2>4, <3>2
    <2>7. QED
        BY <2>5, <2>6
<1>13. ASSUME NEW ok \in BOOLEAN, MergeCopies(ok) PROVE ReadToEnd'
    <2>1. /\ phase = "copy" /\ phase' = "copy" /\ tool = "merge" /\ cur' = cur + 1
               /\ cur \in 1..MixSize
        BY <1>13 DEF MergeCopies
    <2>2. Earlier /\ AllRead
        BY <2>1 DEF Earlier, AllRead
    <2>3. round' \/ (round' = round /\ at' = at /\ at[cur] = LengthOf(cur))
        BY <1>13 DEF MergeCopies, LengthOf
    <2>4. 1..(cur' - 1) = 1..(cur - 1) \cup {cur}
        BY <1>4, <2>1
    <2>5. Rounds
        BY <1>3, <2>1, <2>3, <2>4 DEF Rounds
    <2>6. QED
        BY <1>2, <2>2, <2>5
<1>14. CASE MergeRoundEnds
    <2>1. /\ phase = "copy" /\ tool = "merge" /\ cur = MixSize + 1 /\ cur' = 1
          /\ phase' = IF round THEN phase ELSE "trailer"
          /\ at' = at
        BY <1>14 DEF MergeRoundEnds
    <2>2. Earlier /\ Rounds
        BY <2>1 DEF Earlier, Rounds
    <2>3. AllRead
        <3>1. CASE round
            BY <2>1, <3>1 DEF AllRead
        <3>2. CASE ~round
            <4>1. \A f \in 1..MixSize : at[f] = LengthOf(f)
                BY <1>3, <1>4, <2>1, <3>2
            <4>2. 1..MixSize \subseteq Opened
                BY <1>4, <2>1 DEF AtFile
            <4>3. Opened = 1..MixSize
                BY <4>2, AllOpened
            <4>4. QED
                BY <2>1, <4>1, <4>3 DEF AllRead
        <3>3. QED
            BY <3>1, <3>2
    <2>4. QED
        BY <1>2, <2>2, <2>3
<1>15. QED
    BY <1>6, <1>7, <1>9, <1>10, <1>11, <1>12, <1>13, <1>14, CopyKinds

LEMMA EndingStep ==
    ASSUME Given, CopyTypeOK, AtFile, Ending, Next
    PROVE  Ending'
<1>1. UNCHANGED <<tool, files>>
    BY CopyTypeStep
<1> DEFINE Headed == phase' \in {"seek", "copy", "trailer", "done"} => header' \/ IgnoresHeader
           Released == leaked' = 0 \/ tool = "split"
             \/ (leaked' = 1 /\ phase' \in {"trailer", "done"})
           First == tool # "merge" /\ phase' \in {"header", "seek", "copy", "trailer", "done"} =>
             1 \in Opened
<1>2. Headed /\ Released /\ First => Ending'
    BY <1>1 DEF Ending, IgnoresHeader, Opened
<1>3. /\ phase \in {"seek", "copy", "trailer", "done"} => header \/ IgnoresHeader
      /\ leaked = 0 \/ tool = "split" \/ (leaked = 1 /\ phase \in {"trailer", "done"})
      /\ tool # "merge" /\ phase \in {"header", "seek", "copy", "trailer", "done"} => 1 \in Opened
    BY DEF Ending
<1>4. ASSUME UNCHANGED <<header, leaked>>, phase \in {"copy", "trailer"},
               phase' \in {"copy", "trailer", "done", "crashed"},
             phase = "copy" \/ phase' = "done"
      PROVE  Ending'
    BY <1>2, <1>3, <1>4
<1>5. CASE Open
    <2>1. phase = "open" /\ UNCHANGED <<header, leaked>>
            /\ phase' \in {"header", "failed", "crashed"}
        BY <1>5 DEF Open
    <2>2. phase' = "header" /\ tool # "merge" => 1 \in Opened
        BY <1>5 DEF Open
    <2>3. QED
        BY <1>2, <1>3, <2>1, <2>2
<1>6. CASE OpenCrashes
    <2>1. phase = "open" /\ phase' = "crashed" /\ leaked' = leaked
        BY <1>6 DEF OpenCrashes
    <2>2. QED
        BY <1>2, <1>3, <2>1
<1>7. CASE HeaderFails
    <2>1. phase = "header" /\ phase' = (IF IgnoresHeader THEN "copy" ELSE "failed")
            /\ leaked' = leaked
        BY <1>7 DEF HeaderFails
    <2>2. QED
        BY <1>2, <1>3, <2>1
<1>8. CASE WriteHeader
    <2>1. phase = "header" /\ header' = TRUE /\ phase' \in {"seek", "copy"} /\ leaked' = leaked
        BY <1>8 DEF WriteHeader
    <2>2. QED
        BY <1>2, <1>3, <2>1
<1>9. CASE Seek
    <2>1. phase = "seek" /\ phase' \in {"copy", "failed"} /\ UNCHANGED <<header, leaked>>
        BY <1>9 DEF Seek
    <2>2. QED
        BY <1>2, <1>3, <2>1
<1>10. CASE Skip
    <2>1. phase = "copy" /\ phase' = "copy" /\ header' = header
            /\ (leaked' = leaked \/ tool = "split")
        BY <1>10, ReadsIs DEF Skip
    <2>2. QED
        BY <1>2, <1>3, <2>1
<1>11. CASE CutHere
    <2>1. phase = "copy" /\ phase' = "trailer" /\ header' = header /\ leaked' = leaked + 1
        BY <1>11, ReadsIs DEF CutHere
    <2>2. QED
        BY <1>2, <1>3, <2>1
<1>12. ASSUME NEW ok \in BOOLEAN, Copy(ok) PROVE Ending'
    <2>1. phase = "copy" /\ header' = header /\ phase' \in {"copy", "trailer"}
        BY <1>12, ReadsIs DEF Copy
    <2>2. leaked' = leaked \/ (leaked' = leaked + 1 /\ phase' = "trailer")
        BY <1>12 DEF Copy, StopsAtFailure
    <2>3. QED
        BY <1>2, <1>3, <2>1, <2>2
<1>13. CASE EndOfFile
    <2>1. phase = "copy" /\ phase' \in {"copy", "trailer"} /\ UNCHANGED <<header, leaked>>
        BY <1>13 DEF EndOfFile
    <2>2. QED
        BY <1>4, <2>1
<1>14. CASE WriteTrailer
    BY <1>4, <1>14 DEF WriteTrailer
<1>15. ASSUME NEW ok \in BOOLEAN, MergeCopies(ok) PROVE Ending'
    <2>1. phase = "copy" /\ phase' = "copy" /\ UNCHANGED <<header, leaked>>
        BY <1>15 DEF MergeCopies
    <2>2. QED
        BY <1>4, <2>1
<1>16. CASE MergeMeetsHole
    <2>1. phase = "copy" /\ phase' = "crashed" /\ UNCHANGED <<header, leaked>>
        BY <1>16 DEF MergeMeetsHole
    <2>2. QED
        BY <1>4, <2>1
<1>17. CASE MergeRoundEnds
    <2>1. phase = "copy" /\ phase' \in {"copy", "trailer"} /\ UNCHANGED <<header, leaked>>
        BY <1>17 DEF MergeRoundEnds
    <2>2. QED
        BY <1>4, <2>1
<1>18. QED
    BY <1>5, <1>6, <1>7, <1>8, <1>9, <1>10, <1>11, <1>12, <1>13, <1>14, <1>15, <1>16, <1>17,
       CopyKinds

------------------------------------------------------------------------------
(* Copying: what the invariant says *)

LEMMA InvariantImpliesTheirStreams ==
    ASSUME Given, CopyTypeOK, StreamsFit, WrittenRight, InOrder
    PROVE  PacketsInTheirStreams
<1>1. ASSUME NEW i \in DOMAIN out
      PROVE  /\ out[i].stream \in DOMAIN streams
             /\ streams[out[i].stream] = SourceType(out[i]) \/ Strays(out[i])
    <2> DEFINE f == out[i].file
               s == StreamOf(f, out[i].n)
    <2>1. /\ f \in DOMAIN files /\ Reached(f) /\ out[i].n \in 1..at[f]
          /\ out[i].stream = TargetOf(f, s) /\ out[i].stream # 0
        BY DEF WrittenRight
    <2>2. s \in DOMAIN files[f].types
        <3>1. at[f] \in Nat /\ at[f] <= LengthOf(f) /\ LengthOf(f) \in Nat
            BY <2>1, GivenFile DEF CopyTypeOK
        <3>2. out[i].n \in 1..LengthOf(f)
            BY <2>1, <3>1
        <3>3. QED
            BY <2>1, <3>2, GivenFile
    <2>3. out # <<>>
        OBVIOUS
    <2>4. /\ out[i].stream \in DOMAIN streams
          /\ \/ streams[out[i].stream] = files[f].types[s]
             \/ tool = "concat"
                  /\ s \notin {Best(files[f].types, "audio"), Best(files[f].types, "video")}
             \/ tool = "merge" /\ s # 1
        BY <2>1, <2>2, <2>3 DEF StreamsFit
    <2>5. QED
        BY <2>4 DEF SourceType, Source, Strays, StreamOf
<1>2. QED
    BY <1>1 DEF PacketsInTheirStreams, InOrder

LEMMA InvariantImpliesComplete ==
    ASSUME Given, CopyTypeOK, StreamsFit, Copied, ReadToEnd, Ending
    PROVE  FileComplete
<1>1. ASSUME phase = "done", \A i \in DOMAIN out : out[i].ok, tool # "cutVideo",
               ~(Counts /\ reads = MaxReads),
             SelectsOne => IsInjective(files[1].types),
             NEW f \in Opened, NEW k \in DOMAIN files[f].packets,
             files[f].types[files[f].packets[k].stream] \in Range(streams)
      PROVE  \E i \in DOMAIN out : out[i].file = f /\ out[i].n = k
    <2>1. f \in DOMAIN files /\ at[f] = LengthOf(f)
        BY <1>1 DEF ReadToEnd, Opened
    <2>2. k \in 1..at[f] /\ StreamOf(f, k) \in DOMAIN files[f].types
        BY <2>1, GivenFile
    <2>3. SelectsOne => IsInjective(files[f].types)
        <3>1. SelectsOne => f = 1
            BY <2>1, GivenFiles DEF SelectsOne
        <3>2. QED
            BY <1>1, <3>1
    <2>4. TargetOf(f, StreamOf(f, k)) # 0
        <3>1. files[f].types[StreamOf(f, k)] \in Range(streams)
            BY <1>1 DEF StreamOf
        <3>2. QED
            BY <1>1, <2>1, <2>2, <2>3, <3>1 DEF StreamsFit
    <2>5. QED
        BY <1>1, <2>1, <2>2, <2>4 DEF Copied
<1>2. QED
    BY <1>1 DEF FileComplete, Ending

\* Follow says nothing of what changes.
LEMMA FollowStays ==
    ASSUME UNCHANGED <<tool, files>>
    PROVE  Follow' = Follow
<1>1. Opened' = Opened
    BY DEF Opened
<1>2. \A f : /\ {files[f].types[p.stream] : p \in Range(files[f].packets)}'
                   = {files[f].types[p.stream] : p \in Range(files[f].packets)}
             /\ {p.stream : p \in Range(files[f].packets)}'
                  = {p.stream : p \in Range(files[f].packets)}
    OBVIOUS
<1>3. QED
    BY <1>1, <1>2 DEF Follow, ShownAsStored

\* What is known of the packets of files that Follow holds for.
LEMMA FollowIs ==
    ASSUME Given, Follow, NEW f \in Opened, NEW k \in 1..LengthOf(f)
    PROVE  LET p == files[f].packets[k]
           IN  /\ tool = "extractAudio" /\ files[f].types[p.stream] = "audio" => p.pts = p.dts
               /\ tool = "concat" =>
                     /\ files[f].types[p.stream] \in {"video", "audio"}
                     /\ IsInjective(files[f].types)
                     /\ p.pts = p.dts /\ p.pts >= 0
<1> DEFINE p == files[f].packets[k]
<1>1. f \in DOMAIN files /\ DOMAIN files[f].packets = 1..LengthOf(f)
    BY GivenFile DEF Opened
<1>2. p \in Range(files[f].packets)
    BY <1>1 DEF Range
<1> HIDE DEF p
<1>3. ASSUME tool = "extractAudio", files[f].types[p.stream] = "audio" PROVE p.pts = p.dts
    BY <1>2, <1>3 DEF Follow, ShownAsStored
<1>4. ASSUME tool = "concat"
      PROVE  /\ files[f].types[p.stream] \in {"video", "audio"}
             /\ IsInjective(files[f].types)
             /\ p.pts = p.dts /\ p.pts >= 0
    <2>1. /\ {files[f].types[q.stream] : q \in Range(files[f].packets)} = {"video", "audio"}
          /\ IsInjective(files[f].types)
          /\ ShownAsStored(files[f], {"video", "audio"})
          /\ \A q \in Range(files[f].packets) : q.pts >= 0
        BY <1>4 DEF Follow
    <2>2. files[f].types[p.stream] \in {"video", "audio"}
        BY <1>2, <2>1
    <2>3. QED
        BY <1>2, <2>1, <2>2 DEF ShownAsStored
<1>5. QED
    BY <1>3, <1>4 DEF p

\* In a concatenation a stream gets the packets of its type.
LEMMA ConcatTarget ==
    ASSUME Given, tool = "concat", NEW f \in DOMAIN files, IsInjective(files[f].types),
           NEW s \in DOMAIN files[f].types
    PROVE  TargetOf(f, s) = IF files[f].types[s] = "audio" THEN 1 ELSE 2
<1>1. files[f].types \in Seq({"video", "audio", "other"})
    BY GivenFile
<1> DEFINE b == Best(files[f].types, "audio")
<1>2. /\ b = 0 \/ (b \in DOMAIN files[f].types /\ files[f].types[b] = "audio")
      /\ files[f].types[s] = "audio" => b # 0
    BY <1>1, BestIs
<1>3. TargetOf(f, s) = IF s = b THEN 1 ELSE 2
    BY DEF TargetOf, SelectsOne
<1> HIDE DEF b
<1>4. s # 0
    BY GivenFile
<1>5. files[f].types[s] = "audio" <=> s = b
    BY <1>2, <1>4 DEF IsInjective
<1>6. QED
    BY <1>3, <1>5

\* Packets of a file that go to one stream come from one, when Follow holds.
LEMMA SameStream ==
    ASSUME Given, Follow, NEW f \in Opened, NEW k \in 1..LengthOf(f), NEW m \in 1..LengthOf(f),
           TargetOf(f, StreamOf(f, k)) = TargetOf(f, StreamOf(f, m)),
             TargetOf(f, StreamOf(f, k)) # 0
    PROVE  StreamOf(f, k) = StreamOf(f, m)
<1> DEFINE s == StreamOf(f, k)
           r == StreamOf(f, m)
<1>1. f \in DOMAIN files /\ s \in DOMAIN files[f].types /\ r \in DOMAIN files[f].types
    BY GivenFile DEF Opened
<1>2. tool \in Programs
    BY GivenFiles
<1>3. CASE tool \in {"remuxing", "cutVideo"}
    <2>1. \A q : TargetOf(f, q) = Mapped(files[f].types, q)
        BY <1>3 DEF TargetOf, SelectsOne
    <2>2. QED
        BY <1>1, <2>1, MappedOnce
<1>4. CASE SelectsOne
    <2>1. \A q : TargetOf(f, q) = IF q = Selected(files[f].types) THEN 1 ELSE 0
        BY <1>4 DEF TargetOf, SelectsOne
    <2>2. QED
        BY <2>1
<1>5. CASE tool = "concat"
    <2>1. /\ IsInjective(files[f].types)
          /\ files[f].types[s] \in {"video", "audio"} /\ files[f].types[r] \in {"video", "audio"}
        BY <1>5, FollowIs DEF StreamOf
    <2>2. /\ TargetOf(f, s) = IF files[f].types[s] = "audio" THEN 1 ELSE 2
          /\ TargetOf(f, r) = IF files[f].types[r] = "audio" THEN 1 ELSE 2
        BY <1>1, <1>5, <2>1, ConcatTarget
    <2>3. files[f].types[s] = files[f].types[r]
        <3>1. TargetOf(f, s) = TargetOf(f, r)
            OBVIOUS
        <3> HIDE DEF s, r
        <3>2. QED
            BY <2>1, <2>2, <3>1
    <2>4. QED
        BY <1>1, <2>1, <2>3 DEF IsInjective
<1>6. CASE tool = "merge"
    <2> DEFINE Carried == {q.stream : q \in Range(files[f].packets)}
    <2>1. Cardinality(Carried) <= 1
        BY <1>6 DEF Follow
    <2>2. DOMAIN files[f].packets = 1..LengthOf(f)
        BY <1>1, GivenFile
    <2>3. s \in Carried /\ r \in Carried
        BY <2>2 DEF Range, StreamOf
    <2>4. IsFiniteSet(Carried)
        <3>1. IsFiniteSet(DOMAIN files[f].types)
            <4>1. PICK c \in Nat : DOMAIN files[f].types = 1..c
                BY <1>1, GivenFile
            <4>2. QED
                BY <4>1, FS_Interval
        <3>2. Carried \subseteq DOMAIN files[f].types
            BY <1>1, <2>2, GivenFile DEF Range, StreamOf
        <3> HIDE DEF Carried
        <3>3. QED
            BY <3>1, <3>2, FS_Subset
    <2> HIDE DEF Carried
    <2>5. ASSUME s # r PROVE FALSE
        <3>1. {s, r} \in SUBSET Carried
            BY <2>3
        <3>2. Cardinality({s, r}) <= Cardinality(Carried)
            BY <2>4, <3>1, FS_Subset
        <3>3. Cardinality({s, r}) = 2
            <4>1. IsFiniteSet({s}) /\ Cardinality({s}) = 1
                BY FS_Singleton
            <4>2. {s, r} = {s} \cup {r} /\ r \notin {s}
                BY <2>5
            <4>3. QED
                BY <4>1, <4>2, FS_AddElement
        <3>4. Cardinality(Carried) \in Nat
            BY <2>4, FS_CardinalityType
        <3>5. QED
            BY <2>1, <3>2, <3>3, <3>4
    <2>6. QED
        BY <2>5
<1>7. CASE tool \in {"record_audio", "record_video"}
    <2>1. TargetOf(f, s) = s /\ TargetOf(f, r) = r
        BY <1>7 DEF TargetOf, SelectsOne
    <2>2. QED
        BY <2>1
<1>8. QED
    BY <1>2, <1>3, <1>4, <1>5, <1>6, <1>7 DEF Programs, SelectsOne

\* The time that a packet is written with.
LEMMA TimeIs ==
    ASSUME Given, CopyTypeOK, AtFile, Follow, NEW ok \in BOOLEAN, Appends(ok)
    PROVE  LET w == Written(ok)
               p == files[cur].packets[at[cur] + 1]
           IN  /\ tool = "remuxing-h264" => w.dts = Rescale(cur, steps)
               /\ tool \in {"record_audio", "record_video", "extractVideo"} => w.dts = p.dts
               /\ tool = "concat" => /\ w.dts = offset[w.stream] + Rescale(cur, p.dts)
                                     /\ w.pts = w.dts /\ p.dts >= 0
                                     /\ w.stream \in 1..2
               /\ tool \notin {"remuxing-h264", "record_audio", "record_video", "extractVideo", "concat"} =>
                     w.dts = Rescale(cur, p.dts)
<1> DEFINE w == Written(ok)
           k == at[cur] + 1
           p == files[cur].packets[k]
<1>1. /\ cur \in DOMAIN files /\ cur \in Opened /\ at[cur] # LengthOf(cur)
      /\ TargetOf(cur, StreamOf(cur, k)) # 0
    BY DEF Appends, Reached
<1>2. /\ k \in 1..LengthOf(cur) /\ Packet = p /\ Packet.stream = StreamOf(cur, k)
      /\ StreamOf(cur, k) \in DOMAIN files[cur].types
      /\ Target(Packet.stream) = TargetOf(cur, StreamOf(cur, k))
      /\ tool = "concat" => TargetOf(cur, StreamOf(cur, k)) \in 1..2
    BY <1>1, PacketIs
<1>3. /\ w.stream = TargetOf(cur, StreamOf(cur, k))
      /\ w.pts = Time(p.pts) /\ w.dts = Time(IF tool = "extractAudio" THEN p.pts ELSE p.dts)
    BY <1>1, <1>2, WrittenIs
<1>4. tool = "extractAudio" => p.pts = p.dts
    <2>1. SUFFICES ASSUME tool = "extractAudio" PROVE p.pts = p.dts
        OBVIOUS
    <2>2. StreamOf(cur, k) = Best(files[cur].types, "audio")
        BY <1>1, <2>1 DEF TargetOf, SelectsOne, Selected
    <2>3. files[cur].types[StreamOf(cur, k)] = "audio"
        <3>1. /\ files[cur].types \in Seq({"video", "audio", "other"})
              /\ StreamOf(cur, k) # 0
            BY <1>1, <1>2, GivenFile
        <3>2. QED
            BY <2>2, <3>1, BestIs
    <2>4. QED
        BY <1>1, <1>2, <2>1, <2>3, FollowIs DEF StreamOf
<1>5. w.dts = Time(p.dts)
    BY <1>3, <1>4
<1>6. tool = "concat" => p.pts = p.dts /\ p.pts >= 0
    BY <1>1, <1>2, FollowIs
<1>7. \A t : /\ tool = "remuxing-h264" => Time(t) = Rescale(cur, steps)
             /\ tool \in {"record_audio", "record_video", "extractVideo"} => Time(t) = t
             /\ tool = "concat" => Time(t) = offset[w.stream] + Rescale(cur, t)
             /\ tool \notin {"remuxing-h264", "record_audio", "record_video", "extractVideo", "concat"} =>
                   Time(t) = Rescale(cur, t)
    BY <1>2, <1>3 DEF Time
<1> HIDE DEF w, p
<1>8. QED
    BY <1>2, <1>3, <1>5, <1>6, <1>7 DEF w, p

\* Within a stream the packet at hand gets a later time than those before it.
LEMMA LaterTime ==
    ASSUME Given, CopyTypeOK, AtFile, WrittenRight, Stamped, PartsFollow, Follow,
           NEW ok \in BOOLEAN, Appends(ok),
           NEW i \in DOMAIN out, out[i].stream = Written(ok).stream
    PROVE  /\ out[i].dts <= Written(ok).dts
           /\ Finer => out[i].dts < Written(ok).dts
<1> DEFINE w == Written(ok)
           v == out[i]
           k == at[cur] + 1
           p == files[cur].packets[k]
<1>1. /\ w \in Entry /\ w.file = cur /\ w.stream = TargetOf(cur, StreamOf(cur, k)) /\ w.stream # 0
      /\ cur \in DOMAIN files /\ Reached(cur) /\ at[cur] \in Nat /\ k \in 1..LengthOf(cur)
      /\ DOMAIN out = 1..Len(out) /\ Len(out) \in Nat /\ v \in Entry
    BY AppendIs
<1>2. /\ v.file \in DOMAIN files /\ Reached(v.file) /\ v.n \in 1..at[v.file]
      /\ v.stream = TargetOf(v.file, StreamOf(v.file, v.n))
      /\ tool = "concat" => v.file <= cur
    BY DEF WrittenRight
<1>3. Running /\ cur \in Opened
    BY <1>1 DEF Running, Appends, Reached
<1>4. p.dts \in Int
    BY <1>1, GivenFile
<1>5. ASSUME v.file = cur
      PROVE  Source(v).dts \in Int /\ Source(v).dts < p.dts
    <2>1. v.n \in 1..LengthOf(cur) /\ v.n < k
        <3>1. LengthOf(cur) \in Nat
            BY <1>1, GivenFile
        <3>2. v.n \in 1..at[cur]
            BY <1>2, <1>5
        <3>3. QED
            BY <1>1, <3>1, <3>2
    <2>2. StreamOf(cur, v.n) = StreamOf(cur, k)
        <3>1. TargetOf(cur, StreamOf(cur, v.n)) = TargetOf(cur, StreamOf(cur, k))
                /\ TargetOf(cur, StreamOf(cur, v.n)) # 0
            BY <1>1, <1>2, <1>5
        <3>2. QED
            BY <1>1, <1>3, <2>1, <3>1, SameStream
    <2>3. files[cur].packets[v.n].dts < files[cur].packets[k].dts
            /\ files[cur].packets[v.n].dts \in Int
        BY <1>1, <2>1, <2>2, GivenFile
    <2>4. QED
        BY <1>5, <2>3 DEF Source
<1>6. /\ tool = "remuxing-h264" => w.dts = Rescale(cur, steps)
      /\ tool \in {"record_audio", "record_video", "extractVideo"} => w.dts = p.dts
      /\ tool = "concat" => /\ w.dts = offset[w.stream] + Rescale(cur, p.dts)
                            /\ p.dts >= 0 /\ w.stream \in 1..2
      /\ tool \notin {"remuxing-h264", "record_audio", "record_video", "extractVideo", "concat"} =>
            w.dts = Rescale(cur, p.dts)
    BY TimeIs
<1>7. v.stream = w.stream
    OBVIOUS
<1> HIDE DEF w, v, p
<1>8. CASE tool = "concat"
    <2>1. /\ v.file < cur => v.dts + Rescale(v.file, 1) <= offset[v.stream]
          /\ v.file = cur => v.dts = offset[v.stream] + Rescale(v.file, Source(v).dts)
        BY <1>3, <1>8 DEF PartsFollow, v
    <2>2. /\ offset[w.stream] \in Int /\ v.dts \in Int /\ Rescale(cur, p.dts) \in Int
          /\ Rescale(v.file, 1) \in Int /\ Rescale(v.file, 1) >= 0
          /\ Finer => Rescale(v.file, 1) > 0
          /\ Rescale(cur, p.dts) >= 0
        <3>1. offset[w.stream] \in Int /\ v.dts \in Int
            BY <1>1, <1>6, <1>8 DEF CopyTypeOK, Entry
        <3>2. Rescale(cur, p.dts) \in Int /\ Rescale(cur, p.dts) >= 0
            BY <1>1, <1>4, <1>6, <1>8, TimesOf
        <3>3. v.file \in DOMAIN files /\ v.file \in Opened
            BY <1>2 DEF Reached
        <3>4. /\ Rescale(v.file, 1) \in Int /\ Rescale(v.file, 1) >= 0
              /\ Finer => Rescale(v.file, 1) > 0
            BY <3>3, TimesOf
        <3>5. QED
            BY <3>1, <3>2, <3>4
    <2>3. CASE v.file = cur
        <3>1. Source(v).dts \in Int /\ Source(v).dts < p.dts
            BY <1>5, <2>3
        <3>2. /\ Rescale(cur, Source(v).dts) \in Int
              /\ Rescale(cur, Source(v).dts) <= Rescale(cur, p.dts)
              /\ Finer => Rescale(cur, Source(v).dts) < Rescale(cur, p.dts)
            BY <1>1, <1>3, <1>4, <3>1, TimesOf
        <3>3. /\ w.dts = offset[w.stream] + Rescale(cur, p.dts)
              /\ v.dts = offset[w.stream] + Rescale(cur, Source(v).dts)
            BY <1>6, <1>7, <1>8, <2>1, <2>3
        <3>4. v.dts <= w.dts /\ (Finer => v.dts < w.dts)
            BY <2>2, <3>2, <3>3
        <3>5. QED
            BY <3>4 DEF v, w
    <2>4. CASE v.file # cur
        <3>1. v.file < cur
            <4>1. v.file \in Nat /\ cur \in Nat
                BY <1>1, <1>2, GivenFiles
            <4>2. QED
                BY <1>2, <1>8, <2>4, <4>1
        <3>2. v.dts <= w.dts /\ (Finer => v.dts < w.dts)
            BY <1>6, <1>7, <1>8, <2>1, <2>2, <3>1
        <3>3. QED
            BY <3>2 DEF v, w
    <2>5. QED
        BY <2>3, <2>4
<1>9. CASE tool # "concat"
    <2>1. /\ tool = "remuxing-h264" => v.dts = Rescale(v.file, i - 1) /\ steps = Len(out)
          /\ tool \in {"record_audio", "record_video", "extractVideo"} => v.dts = Source(v).dts
          /\ tool \notin {"remuxing-h264", "record_audio", "record_video", "extractVideo"} =>
                v.dts = Rescale(v.file, Source(v).dts)
        BY <1>3, <1>9 DEF Stamped, v
    <2>2. v.file = cur
        <3>1. CASE tool = "merge"
            <4>1. v.stream = v.file /\ w.stream = cur
                BY <1>1, <1>2, <3>1 DEF TargetOf, SelectsOne
            <4>2. QED
                BY <1>7, <4>1
        <3>2. CASE tool # "merge"
            <4>1. Len(files) = 1 /\ DOMAIN files = 1..Len(files)
                BY <1>9, <3>2, GivenFiles
            <4>2. QED
                BY <1>1, <1>2, <4>1
        <3>3. QED
            BY <3>1, <3>2
    <2>3. CASE tool = "remuxing-h264"
        <3>1. i - 1 \in Int /\ steps \in Int /\ i - 1 < steps
            BY <1>1, <2>1, <2>3
        <3>2. /\ Rescale(cur, i - 1) <= Rescale(cur, steps)
              /\ Finer => Rescale(cur, i - 1) < Rescale(cur, steps)
            BY <1>1, <1>3, <3>1, TimesOf
        <3>3. v.dts = Rescale(cur, i - 1) /\ w.dts = Rescale(cur, steps)
            BY <1>6, <2>1, <2>2, <2>3
        <3>4. QED
            BY <3>2, <3>3 DEF v, w
    <2>4. CASE tool # "remuxing-h264"
        <3>1. Source(v).dts \in Int /\ Source(v).dts < p.dts
            BY <1>5, <2>2
        <3>2. /\ Rescale(cur, Source(v).dts) <= Rescale(cur, p.dts)
              /\ Finer => Rescale(cur, Source(v).dts) < Rescale(cur, p.dts)
            BY <1>1, <1>3, <1>4, <3>1, TimesOf
        <3>3. CASE tool \in {"record_audio", "record_video", "extractVideo"}
            <4>1. v.dts = Source(v).dts /\ w.dts = p.dts
                BY <1>6, <2>1, <3>3
            <4>2. v.dts <= w.dts /\ v.dts < w.dts
                BY <1>4, <3>1, <4>1
            <4>3. QED
                BY <4>2 DEF v, w
        <3>4. CASE tool \notin {"record_audio", "record_video", "extractVideo"}
            <4>1. v.dts = Rescale(cur, Source(v).dts) /\ w.dts = Rescale(cur, p.dts)
                BY <1>6, <1>9, <2>1, <2>2, <2>4, <3>4
            <4>2. QED
                BY <3>2, <4>1 DEF v, w
        <3>5. QED
            BY <3>3, <3>4
    <2>5. QED
        BY <2>3, <2>4
<1>10. QED
    BY <1>8, <1>9

LEMMA TimesStep ==
    ASSUME Given, CopyTypeOK, AtFile, WrittenRight, Stamped, PartsFollow, TimesRise, Next
    PROVE  TimesRise'
<1>1. UNCHANGED <<tool, files>> /\ Finer' = Finer
    BY CopyTypeStep DEF Finer, Opened
<1> DEFINE Later(v, w) == v.dts <= w.dts /\ (Finer => v.dts < w.dts)
<1>2. SUFFICES ASSUME Follow
               PROVE  \A i, j \in DOMAIN out' :
                          i < j /\ out'[i].stream = out'[j].stream => Later(out'[i], out'[j])
    BY <1>1, FollowStays DEF TimesRise
<1>3. \A i, j \in DOMAIN out :
          i < j /\ out[i].stream = out[j].stream => Later(out[i], out[j])
    BY <1>2 DEF TimesRise
<1>4. CASE LeavesOut
    BY <1>3, <1>4 DEF LeavesOut
<1>5. ASSUME NEW ok \in BOOLEAN, Appends(ok),
             NEW i \in DOMAIN out', NEW j \in DOMAIN out', i < j, out'[i].stream = out'[j].stream
      PROVE  Later(out'[i], out'[j])
    <2> DEFINE w == Written(ok)
               e == Len(out) + 1
    <2>1. /\ DOMAIN out = 1..Len(out) /\ Len(out) \in Nat /\ DOMAIN out' = 1..e
          /\ \A m \in DOMAIN out : out'[m] = out[m]
          /\ out'[e] = w
        BY <1>5, AppendIs
    <2>2. \A m \in DOMAIN out : out[m].stream = w.stream => Later(out[m], w)
        BY <1>2, <1>5, LaterTime
    <2> HIDE DEF w, Later
    <2>3. i \in DOMAIN out /\ (j \in DOMAIN out \/ j = e)
        BY <1>5, <2>1
    <2>4. QED
        BY <1>3, <1>5, <2>1, <2>2, <2>3
<1>6. QED
    BY <1>4, <1>5, CopySteps

LEMMA StampedStep ==
    ASSUME Given, CopyTypeOK, AtFile, WrittenRight, Stamped, Next
    PROVE  Stamped'
<1>1. UNCHANGED <<tool, files>> /\ Follow' = Follow
    BY CopyTypeStep, FollowStays
<1> DEFINE Stamp(v, j) ==
               /\ tool = "remuxing-h264" => v.dts = Rescale(v.file, j - 1)
               /\ tool \in {"record_audio", "record_video", "extractVideo"} =>
                    v.dts = Source(v).dts
               /\ tool \notin {"remuxing-h264", "record_audio", "record_video", "extractVideo"} =>
                     v.dts = Rescale(v.file, Source(v).dts)
<1>2. SUFFICES ASSUME Follow, tool # "concat", Running'
               PROVE  /\ tool = "remuxing-h264" => steps' = Len(out')
                      /\ \A i \in DOMAIN out' : Stamp(out'[i], i)
    BY <1>1 DEF Stamped, Source, Rescale
<1>3. Running => /\ tool = "remuxing-h264" => steps = Len(out)
                 /\ \A i \in DOMAIN out : Stamp(out[i], i)
    BY <1>2 DEF Stamped
<1> HIDE DEF Stamp
<1>4. CASE \E ok \in BOOLEAN : Appends(ok)
    <2>1. PICK ok \in BOOLEAN : Appends(ok)
        BY <1>4
    <2> DEFINE w == Written(ok)
               e == Len(out) + 1
    <2>2. /\ w.file = cur /\ w.n = at[cur] + 1
          /\ DOMAIN out = 1..Len(out) /\ Len(out) \in Nat /\ DOMAIN out' = 1..e
          /\ \A i \in DOMAIN out : out'[i] = out[i]
          /\ out'[e] = w /\ w \in Entry
        BY <2>1, AppendIs
    <2>3. Running
        BY <2>1 DEF Appends, Running
    <2>4. Stamp(w, e)
        <3>1. Source(w) = files[cur].packets[at[cur] + 1]
            BY <2>2 DEF Source
        <3>2. tool = "remuxing-h264" => steps = e - 1
            BY <1>3, <2>2, <2>3
        <3>3. /\ tool = "remuxing-h264" => w.dts = Rescale(cur, steps)
              /\ tool \in {"record_audio", "record_video", "extractVideo"} =>
                   w.dts = Source(w).dts
              /\ tool \notin {"remuxing-h264", "record_audio", "record_video", "extractVideo", "concat"} =>
                    w.dts = Rescale(cur, Source(w).dts)
            BY <1>2, <2>1, <3>1, TimeIs
        <3>4. w.file = cur
            BY <2>2
        <3> HIDE DEF w, e
        <3>5. QED
            BY <1>2, <3>2, <3>3, <3>4 DEF Stamp
    <2>5. \A i \in DOMAIN out' : Stamp(out'[i], i)
        <3> HIDE DEF w
        <3>1. QED
            BY <1>3, <2>2, <2>3, <2>4
    <2>6. tool = "remuxing-h264" => steps' = Len(out')
        <3>1. SUFFICES ASSUME tool = "remuxing-h264" PROVE steps' = Len(out')
            OBVIOUS
        <3>2. out' # out
            BY <2>2
        <3>3. \E o \in BOOLEAN : Copy(o)
            <4>1. out' = out \/ (\E o \in BOOLEAN : Copy(o)) \/ tool = "merge"
                BY CopyKinds DEF Open, OpenCrashes, HeaderFails, WriteHeader, Seek, Skip, CutHere,
                   EndOfFile,
                   WriteTrailer, MergeCopies, MergeMeetsHole, MergeRoundEnds
            <4>2. QED
                BY <3>1, <3>2, <4>1
        <3>4. steps' = steps + 1
            BY <3>3 DEF Copy
        <3>5. Len(out') = Len(out) + 1
            <4>1. out \in Seq(Entry) /\ out' = Append(out, w)
                BY <2>1 DEF CopyTypeOK, Appends
            <4> HIDE DEF w
            <4>2. QED
                BY <2>2, <4>1, Appended
        <3>6. QED
            BY <1>3, <2>3, <3>1, <3>4, <3>5
    <2>7. QED
        BY <2>5, <2>6
<1>5. CASE ~\E ok \in BOOLEAN : Appends(ok)
    <2>1. out' = out
        BY <1>5, CopySteps DEF LeavesOut
    <2>2. Running
        BY <1>2, CopyKinds
           DEF Open, OpenCrashes, HeaderFails, WriteHeader, Seek, Skip, CutHere, Copy, EndOfFile,
           WriteTrailer, MergeCopies, MergeMeetsHole, MergeRoundEnds, Running, Reads
    <2>3. tool = "remuxing-h264" => steps' = steps
        <3>1. ASSUME NEW ok \in BOOLEAN, Copy(ok) PROVE Appends(ok)
            <4>1. Reads
                BY <3>1 DEF Copy
            <4>2. /\ cur \in DOMAIN files /\ cur \in Opened /\ at[cur] # LengthOf(cur)
                  /\ at' = [at EXCEPT ![cur] = @ + 1] /\ phase = "copy" /\ tool # "merge"
                BY <4>1, ReadsIs
            <4>3. Target(Packet.stream) = TargetOf(cur, StreamOf(cur, at[cur] + 1))
                BY <4>2, PacketIs
            <4>4. QED
                BY <3>1, <4>2, <4>3 DEF Copy, Appends, Reached
        <3>2. QED
            BY <1>5, <3>1, CopyKinds
               DEF Open, OpenCrashes, HeaderFails, WriteHeader, Seek, Skip, CutHere, EndOfFile,
               WriteTrailer, MergeCopies, MergeMeetsHole, MergeRoundEnds
    <2>4. QED
        BY <1>3, <2>1, <2>2, <2>3
<1>6. QED
    BY <1>4, <1>5

\* Each stream of the output has had a packet of a file that was read to its end.
LEMMA BothCarried ==
    ASSUME Given, Follow, tool = "concat", NEW f \in Opened, NEW t \in 1..2
    PROVE  \E k \in 1..LengthOf(f) : TargetOf(f, StreamOf(f, k)) = t
<1> DEFINE type == IF t = 1 THEN "audio" ELSE "video"
<1>1. f \in DOMAIN files /\ DOMAIN files[f].packets = 1..LengthOf(f)
    BY GivenFile DEF Opened
<1>2. /\ {files[f].types[q.stream] : q \in Range(files[f].packets)} = {"video", "audio"}
      /\ IsInjective(files[f].types)
    BY DEF Follow
<1>3. PICK q \in Range(files[f].packets) : files[f].types[q.stream] = type
    BY <1>2
<1>4. PICK k \in 1..LengthOf(f) : q = files[f].packets[k]
    BY <1>1, <1>3 DEF Range
<1>5. StreamOf(f, k) \in DOMAIN files[f].types /\ files[f].types[StreamOf(f, k)] = type
    BY <1>1, <1>3, <1>4, GivenFile DEF StreamOf
<1>6. TargetOf(f, StreamOf(f, k)) = t
    BY <1>1, <1>2, <1>5, ConcatTarget
<1>7. QED
    BY <1>6

LEMMA PartsStep ==
    ASSUME Given, CopyTypeOK, AtFile, WrittenRight, PartsFollow, Stamped, Next
    PROVE  PartsFollow'
<1>1. UNCHANGED <<tool, files>> /\ Follow' = Follow
    BY CopyTypeStep, FollowStays
<1> DEFINE Lies(v) ==
               /\ v.file < cur' => v.dts + Rescale(v.file, 1) <= offset'[v.stream]
               /\ v.file = cur' => /\ v.dts = offset'[v.stream] + Rescale(v.file, Source(v).dts)
                                   /\ v.dts + Rescale(v.file, 1) <= duration'[v.stream]
           Passed(k) == LET t == TargetOf(cur', StreamOf(cur', k)) IN offset'[t] <= duration'[t]
<1>2. SUFFICES ASSUME Follow, tool = "concat", Running'
               PROVE  /\ \A i \in DOMAIN out' : Lies(out'[i])
                      /\ \A k \in 1..at'[cur'] : Passed(k)
    BY <1>1 DEF PartsFollow, Source, TargetOf, StreamOf, SelectsOne, Selected, Rescale
<1>3. Running =>
        /\ \A i \in DOMAIN out :
              /\ out[i].file < cur => out[i].dts + Rescale(out[i].file, 1) <= offset[out[i].stream]
              /\ out[i].file = cur =>
                   /\ out[i].dts = offset[out[i].stream] + Rescale(out[i].file, Source(out[i]).dts)
                                      /\ out[i].dts + Rescale(out[i].file, 1) <= duration[out[i].stream]
        /\ \A k \in 1..at[cur] :
              offset[TargetOf(cur, StreamOf(cur, k))] <= duration[TargetOf(cur, StreamOf(cur, k))]
    BY <1>2 DEF PartsFollow
<1>4. ASSUME UNCHANGED <<cur, at, offset, duration, out>>, Running
      PROVE  /\ \A i \in DOMAIN out' : Lies(out'[i])
             /\ \A k \in 1..at'[cur'] : Passed(k)
    BY <1>3, <1>4
<1>5. /\ offset \in [1..2 -> Int] /\ duration \in [1..2 -> Int] /\ out \in Seq(Entry)
    BY DEF CopyTypeOK
<1>6. /\ cur \in DOMAIN files /\ cur \in Nat /\ DOMAIN files = 1..Len(files) /\ Len(files) \in Nat
      /\ at[cur] \in Nat
    BY <1>2, GivenFiles DEF AtFile, CopyTypeOK
<1>7. \A i \in DOMAIN out :
          /\ out[i] \in Entry /\ out[i].dts \in Int
          /\ out[i].file \in DOMAIN files /\ out[i].file \in Nat /\ out[i].file \in Opened
               /\ out[i].file <= cur
          /\ out[i].stream \in 1..2
          /\ Rescale(out[i].file, 1) \in Int
    <2> TAKE i \in DOMAIN out
    <2>1. out[i] \in Entry
        BY <1>5
    <2>2. /\ out[i].file \in DOMAIN files /\ out[i].file \in Opened /\ out[i].file <= cur
          /\ out[i].n \in 1..at[out[i].file]
          /\ out[i].stream = TargetOf(out[i].file, StreamOf(out[i].file, out[i].n))
        BY <1>2 DEF WrittenRight, Reached
    <2>3. out[i].stream \in 1..2
        <3>1. out[i].n \in 1..LengthOf(out[i].file)
            <4>1. at[out[i].file] \in Nat /\ at[out[i].file] <= LengthOf(out[i].file)
                    /\ LengthOf(out[i].file) \in Nat
                BY <2>2, GivenFile DEF CopyTypeOK
            <4>2. QED
                BY <2>2, <4>1
        <3>2. StreamOf(out[i].file, out[i].n) \in DOMAIN files[out[i].file].types
            BY <2>2, <3>1, GivenFile
        <3>3. QED
            BY <1>2, <2>2, <3>2, TargetType
    <2>4. Rescale(out[i].file, 1) \in Int
        BY <2>2, TimesOf
    <2>5. QED
        BY <2>1, <2>2, <2>3, <2>4 DEF Entry
<1>8. CASE Open \/ HeaderFails \/ WriteHeader
    <2>1. UNCHANGED <<cur, at, offset, duration, out>> /\ Running
        BY <1>8 DEF Open, HeaderFails, WriteHeader, Running
    <2>2. QED
        BY <1>4, <2>1
<1>9. ASSUME NEW ok \in BOOLEAN, Copy(ok)
      PROVE  /\ \A i \in DOMAIN out' : Lies(out'[i])
             /\ \A k \in 1..at'[cur'] : Passed(k)
    <2> DEFINE w == Written(ok)
               e == Len(out) + 1
               p == files[cur].packets[at[cur] + 1]
    <2>1. Reads /\ Target(Packet.stream) # 0
        BY <1>9 DEF Copy
    <2>2. /\ cur \in Opened /\ at[cur] # LengthOf(cur)
          /\ at' = [at EXCEPT ![cur] = @ + 1] /\ phase = "copy"
        BY <2>1, ReadsIs
    <2>3. Target(Packet.stream) = TargetOf(cur, StreamOf(cur, at[cur] + 1))
        BY <1>6, <2>2, PacketIs
    <2>4. Appends(ok)
        BY <1>2, <1>6, <1>9, <2>1, <2>2, <2>3 DEF Copy, Appends, Reached
    <2>5. /\ w \in Entry /\ w.file = cur /\ w.n = at[cur] + 1
          /\ w.stream = TargetOf(cur, StreamOf(cur, at[cur] + 1))
          /\ at[cur] + 1 \in 1..LengthOf(cur) /\ at'[cur] = at[cur] + 1
          /\ DOMAIN out = 1..Len(out) /\ Len(out) \in Nat /\ DOMAIN out' = 1..e
          /\ \A i \in DOMAIN out : out'[i] = out[i]
          /\ out'[e] = w
        BY <2>4, AppendIs
    <2>6. w.dts = offset[w.stream] + Rescale(cur, p.dts) /\ w.pts = w.dts /\ p.dts >= 0
            /\ w.stream \in 1..2
        BY <1>2, <2>4, TimeIs
    <2>7. \A i \in DOMAIN out : out[i].stream = w.stream => out[i].dts <= w.dts
        BY <1>2, <2>4, LaterTime
    <2>8. Running
        BY <2>2 DEF Running
    <2>9. p.dts \in Int
        BY <1>6, <2>5, GivenFile
    <2>10. Source(w) = p
        BY <2>5 DEF Source
    <2>11. duration' = [duration EXCEPT ![Target(Packet.stream)] = EndOfPacket(w)] /\ cur' = cur
             /\ offset' = offset
        BY <1>2, <1>9 DEF Copy
    <2> HIDE DEF w, p
    <2>12. /\ duration'[w.stream] = w.dts + Rescale(cur, 1)
           /\ \A t \in 1..2 : t # w.stream => duration'[t] = duration[t]
        <3>1. Target(Packet.stream) = w.stream /\ EndOfPacket(w) = w.dts + Rescale(cur, 1)
            BY <2>3, <2>5, <2>6 DEF EndOfPacket
        <3>2. QED
            BY <1>5, <2>6, <2>11, <3>1
    <2>13. w.dts \in Int /\ Rescale(cur, p.dts) \in Int /\ Rescale(cur, p.dts) >= 0
             /\ Rescale(cur, 1) \in Int /\ Rescale(cur, 1) >= 0
             /\ offset[w.stream] \in Int
        BY <1>5, <1>6, <2>5, <2>6, <2>9, TimesOf DEF Entry
    <2>14. Lies(w)
        BY <1>5, <1>6, <2>5, <2>6, <2>10, <2>11, <2>12, <2>13
    <2>15. ASSUME NEW i \in DOMAIN out PROVE Lies(out[i])
        <3>1. /\ out[i].file < cur => out[i].dts + Rescale(out[i].file, 1) <= offset[out[i].stream]
              /\ out[i].file = cur =>
                   /\ out[i].dts = offset[out[i].stream] + Rescale(out[i].file, Source(out[i]).dts)
                                      /\ out[i].dts + Rescale(out[i].file, 1) <= duration[out[i].stream]
            BY <1>3, <2>8
        <3>2. out[i].file = cur => out[i].dts + Rescale(out[i].file, 1) <= duration'[out[i].stream]
            <4>1. CASE out[i].stream = w.stream
                <5>1. out[i].dts <= w.dts /\ out[i].dts \in Int
                    BY <1>7, <2>7, <4>1
                <5>2. QED
                    BY <1>5, <2>12, <2>13, <4>1, <5>1
            <4>2. CASE out[i].stream # w.stream
                BY <1>7, <2>12, <3>1, <4>2
            <4>3. QED
                BY <4>1, <4>2
        <3>3. QED
            BY <2>11, <3>1, <3>2
    <2>16. ASSUME NEW k \in 1..at'[cur] PROVE Passed(k)
        <3> DEFINE t == TargetOf(cur, StreamOf(cur, k))
        <3>1. CASE t = w.stream
            <4>1. offset[w.stream] <= duration'[w.stream]
                BY <1>5, <2>6, <2>12, <2>13
            <4>2. QED
                BY <2>11, <3>1, <4>1
        <3>2. CASE t # w.stream
            <4>1. k \in 1..at[cur]
                BY <1>6, <2>5, <3>2
            <4>2. t \in 1..2
                <5>1. k \in 1..LengthOf(cur)
                    <6>1. LengthOf(cur) \in Nat
                        BY <1>6, GivenFile
                    <6>2. QED
                        BY <1>6, <2>5, <4>1, <6>1
                <5>2. StreamOf(cur, k) \in DOMAIN files[cur].types
                    BY <1>6, <5>1, GivenFile
                <5>3. QED
                    BY <1>2, <1>6, <5>2, TargetType
            <4>3. offset[t] <= duration[t]
                BY <1>3, <2>8, <4>1
            <4> HIDE DEF t
            <4>4. offset'[t] <= duration'[t]
                BY <2>11, <2>12, <3>2, <4>2, <4>3
            <4>5. QED
                BY <2>11, <4>4 DEF t
        <3>3. QED
            BY <3>1, <3>2
    <2> HIDE DEF Lies, Passed
    <2>17. \A i \in DOMAIN out' : Lies(out'[i])
        BY <2>5, <2>14, <2>15
    <2>18. QED
        BY <2>11, <2>16, <2>17
<1>10. CASE EndOfFile
    <2>1. /\ phase = "copy" /\ phase' = "copy" /\ UNCHANGED <<at, out>> /\ cur' = cur + 1
               /\ cur < Len(files)
          /\ cur \notin Opened \/ at[cur] = LengthOf(cur)
        BY <1>2, <1>6, <1>10 DEF EndOfFile, Running, Counts, Opened, LengthOf
    <2>2. Running
        BY <2>1 DEF Running
    <2>3. cur' \in DOMAIN files /\ cur' > cur
        BY <1>6, <2>1
    <2>4. at'[cur'] = 0
        BY <1>2, <2>1, <2>3 DEF AtFile
    <2>5. \A i \in DOMAIN out : out[i].file < cur' /\ out[i].file # cur'
        BY <1>6, <1>7, <2>1
    <2>6. ASSUME NEW i \in DOMAIN out PROVE out[i].dts + Rescale(out[i].file, 1) <= offset'[out[i].stream]
        <3>1. /\ out[i].file < cur => out[i].dts + Rescale(out[i].file, 1) <= offset[out[i].stream]
              /\ out[i].file = cur => out[i].dts + Rescale(out[i].file, 1) <= duration[out[i].stream]
            BY <1>3, <2>2
        <3>2. CASE cur \in Opened
            <4>1. offset' = duration
                BY <1>2, <1>10, <3>2 DEF EndOfFile, Opened
            <4>2. offset[out[i].stream] <= duration[out[i].stream]
                <5>1. PICK k \in 1..LengthOf(cur) : TargetOf(cur, StreamOf(cur, k))
                        = out[i].stream
                    BY <1>2, <1>7, <3>2, BothCarried
                <5>2. k \in 1..at[cur]
                    BY <2>1, <3>2
                <5>3. QED
                    BY <1>3, <2>2, <5>1, <5>2
            <4>3. /\ offset[out[i].stream] \in Int /\ duration[out[i].stream] \in Int
                  /\ out[i].dts + Rescale(out[i].file, 1) \in Int
                BY <1>5, <1>7
            <4>4. out[i].file < cur \/ out[i].file = cur
                BY <1>6, <1>7
            <4>5. QED
                BY <3>1, <4>1, <4>2, <4>3, <4>4
        <3>3. CASE cur \notin Opened
            <4>1. offset' = offset
                BY <1>2, <1>6, <1>10, <3>3 DEF EndOfFile, Opened
            <4>2. out[i].file < cur
                <5>1. out[i].file # cur
                    BY <1>7, <3>3
                <5>2. QED
                    BY <1>6, <1>7, <5>1
            <4>3. QED
                BY <3>1, <4>1, <4>2
        <3>4. QED
            BY <3>2, <3>3
    <2>7. QED
        BY <2>1, <2>4, <2>5, <2>6
<1>11. ~Skip
    <2>1. SUFFICES ASSUME Skip PROVE FALSE
        OBVIOUS
    <2>2. Reads /\ Target(Packet.stream) = 0
        BY <2>1 DEF Skip
    <2>3. at[cur] # LengthOf(cur)
        BY <2>2, ReadsIs
    <2>4. QED
        BY <1>2, <1>6, <2>2, <2>3, PacketIs
<1>12. QED
    BY <1>2, <1>8, <1>9, <1>10, <1>11, CopyKinds
       DEF OpenCrashes, CutHere, BehindEnd, WriteTrailer, MergeCopies,
       MergeMeetsHole, MergeRoundEnds, Running

LEMMA CopyStart == Init => CopyInv
<1>1. SUFFICES ASSUME Init PROVE CopyInv
    OBVIOUS
<1>2. /\ Given /\ phase = "open" /\ header = FALSE /\ cur = 1 /\ at = [f \in DOMAIN files |-> 0]
      /\ round = FALSE /\ reads = 0 /\ steps = 0 /\ leaked = 0 /\ out = <<>> /\ duration = <<0,
           0>>
      /\ offset = <<AudioStart, 0>>
    BY <1>1 DEF Init, Given
<1>3. DOMAIN files = 1..Len(files) /\ Len(files) \in Nat \ {0} /\ MixSize \in Nat
    BY <1>2, GivenFiles
<1>4. \A f \in DOMAIN files : at[f] = 0 /\ LengthOf(f) \in Nat
    BY <1>2, GivenFile
<1>5. CopyTypeOK
    <2>1. offset \in [1..2 -> Int] /\ duration \in [1..2 -> Int]
        BY <1>2, RemuxAssumption
    <2>2. out \in Seq(Entry)
        BY <1>2
    <2>3. at \in [DOMAIN files -> Nat]
        BY <1>2
    <2>4. \A f \in DOMAIN files : at[f] <= LengthOf(f)
        BY <1>4
    <2>5. cur \in Nat /\ reads \in Nat /\ steps \in Nat /\ leaked \in Nat
        BY <1>2
    <2>6. header \in BOOLEAN /\ round \in BOOLEAN
        BY <1>2
    <2>7. QED
        BY <1>2, <2>1, <2>2, <2>3, <2>4, <2>5, <2>6 DEF CopyTypeOK
<1>6. AtFile
    BY <1>2, <1>3, <1>4 DEF AtFile
<1>7. StreamsFit
    BY <1>2 DEF StreamsFit
<1>8. DOMAIN out = {} /\ Len(out) = 0
    BY <1>2
<1>9. WrittenRight /\ InOrder /\ TimesRise
    BY <1>8 DEF WrittenRight, InOrder, TimesRise
<1>10. Stamped
    BY <1>2, <1>8 DEF Stamped
<1>11. PartsFollow
    BY <1>2, <1>3, <1>4, <1>8 DEF PartsFollow
<1>12. Copied
    BY <1>4 DEF Copied
<1>13. ReadToEnd
    BY <1>2, <1>3 DEF ReadToEnd, Opened
<1>14. Ending
    BY <1>2 DEF Ending
<1>15. QED
    BY <1>2, <1>5, <1>6, <1>7, <1>9, <1>10, <1>11, <1>12, <1>13, <1>14 DEF CopyInv

LEMMA CopyStay == CopyInv /\ UNCHANGED vars => CopyInv'
<1>1. SUFFICES ASSUME CopyInv, UNCHANGED vars PROVE CopyInv'
    OBVIOUS
<1>2. /\ UNCHANGED <<tool, files>> /\ UNCHANGED <<phase, streams, header, cur, at>>
      /\ UNCHANGED <<round, reads, steps, offset, duration, out, leaked>>
      /\ Follow' = Follow
    BY <1>1, FollowStays DEF vars
<1>3. (Given /\ CopyTypeOK /\ AtFile)'
    BY <1>1, <1>2 DEF CopyInv, Given, CopyTypeOK, AtFile, LengthOf, Opened, MixSize
<1>4. (StreamsFit /\ WrittenRight /\ InOrder)'
    BY <1>1, <1>2 DEF CopyInv, StreamsFit, WrittenRight, InOrder, Reached, TargetOf, StreamOf,
       SelectsOne, Selected, Opened
<1>5. Stamped' /\ TimesRise'
    BY <1>1, <1>2 DEF CopyInv, Stamped, TimesRise, Running, Source, Rescale, Finer, Opened
<1>6. PartsFollow'
    BY <1>1, <1>2 DEF CopyInv, PartsFollow, Running, Source, TargetOf, StreamOf, SelectsOne,
       Selected, Rescale
<1>7. Copied'
    BY <1>1, <1>2 DEF CopyInv, Copied, TargetOf, StreamOf, SelectsOne, Selected
<1>8. ReadToEnd' /\ Ending'
    BY <1>1, <1>2 DEF CopyInv, ReadToEnd, Ending, Opened, LengthOf, Counts, IgnoresHeader
<1>9. QED
    BY <1>3, <1>4, <1>5, <1>6, <1>7, <1>8 DEF CopyInv

LEMMA CopyingInvariant == MCSpec => []CopyInv
<1>1. MCInit => CopyInv
    BY CopyStart DEF MCInit
<1>2. CopyInv /\ [CopyingTool \/ CodingTool]_<<coding, vars, codecVars>> => CopyInv'
    <2>1. ASSUME CopyInv, Next PROVE CopyInv'
        BY <2>1, CopyTypeStep, AtFileStep, StreamsFitStep, WrittenStep, StampedStep, PartsStep,
           TimesStep,
           CopiedStep, ReadStep, EndingStep DEF CopyInv
    <2>2. QED
        BY <2>1, CopyStay DEF CopyingTool, CodingTool
<1>3. QED
    BY <1>1, <1>2, PTL DEF MCSpec

(* Whatever the files and however many there are, a tool writes each packet   *)
(* to the output stream that was made for its stream, in the order of its     *)
(* file and none twice, also when inputs do not open, streams are left out    *)
(* and writes fail (remuxing.cpp:104-172, merge.c:25-72, concat.c:98-156).    *)
THEOREM PacketsFindTheirStreams == MCSpec => []PacketsInTheirStreams
<1>1. CopyInv => PacketsInTheirStreams
    BY InvariantImpliesTheirStreams DEF CopyInv
<1>2. QED
    BY <1>1, CopyingInvariant, PTL

(* Whatever the packets' times and the time bases of the inputs and the       *)
(* output, the times that are written to a stream never fall, and they rise   *)
(* where the output counts time at least as finely as the inputs, across the  *)
(* parts of a concatenation too when each part has packets of both its        *)
(* streams (concat.c:135-159, remuxing-h264.cpp, merge.c:54-72).  Coarser     *)
(* outputs, as the FLV of split.c, may give packets of a stream one time.     *)
THEOREM WrittenTimesRise == MCSpec => []TimesRise
<1>1. CopyInv => TimesRise
    BY DEF CopyInv
<1>2. QED
    BY <1>1, CopyingInvariant, PTL

(* A tool that ends with a trailer, had no failing write and read to the end  *)
(* has written every packet of the streams that it was to copy, has written   *)
(* the header or does not look at its result, and has at most the packet at   *)
(* hand unreleased, except for split.c.                                       *)
THEOREM FilesAreComplete == MCSpec => []FileComplete
<1>1. CopyInv => FileComplete
    BY InvariantImpliesComplete DEF CopyInv
<1>2. QED
    BY <1>1, CopyingInvariant, PTL

------------------------------------------------------------------------------
(* Mp4ToAnnexB: numbering, joining and cutting of streams *)

(* Induction up to m.                                                         *)
LEMMA CountingUp ==
    ASSUME NEW m \in Nat, NEW S, 0 \in S, \A k \in 0..(m - 1) : k \in S => k + 1 \in S
    PROVE  \A k \in 0..m : k \in S
<1> SUFFICES ASSUME NEW x \in 0..m, x \notin S PROVE FALSE
    OBVIOUS
<1> DEFINE T == {k \in 0..m : k \notin S}
<1>1. PICK a \in T : \A k \in T : a <= k
    <2>1. T \subseteq 0..m /\ T # {}
        OBVIOUS
    <2> HIDE DEF T
    <2> QED
        BY <2>1, LeastNumber
<1>2. a \in 0..m /\ a \notin S /\ a # 0
    OBVIOUS
<1>3. a - 1 \in 0..(m - 1) /\ a - 1 \in 0..m /\ ~(a <= a - 1) /\ (a - 1) + 1 = a
    BY <1>2
<1>4. a - 1 \in S
    BY <1>1, <1>3
<1> QED
    BY <1>2, <1>3, <1>4

\* A function that is base at 0 and comes from each number to the next by next.
Follows(m, V, base, next, f) ==
    /\ f \in [0..m -> V] /\ f[0] = base
    /\ \A k \in 1..m : f[k] = next[k][f[k - 1]]

(* There is one.                                                              *)
LEMMA Recursion ==
    ASSUME NEW m \in Nat, NEW V, NEW base \in V, NEW next \in [1..m -> [V -> V]]
    PROVE  \E f : Follows(m, V, base, next, f)
<1> DEFINE Reaches(k, f) == Follows(k, V, base, next, f)
           S == {k \in 0..m : \E f : Reaches(k, f)}
<1>1. 0 \in S
    <2>1. Reaches(0, [i \in 0..0 |-> base])
        BY DEF Follows
    <2>2. \E f : Reaches(0, f)
        BY <2>1
    <2> HIDE DEF Reaches
    <2>3. 0 \in 0..m
        OBVIOUS
    <2> QED
        BY <2>2, <2>3
<1>2. ASSUME NEW k \in 0..(m - 1), k \in S PROVE k + 1 \in S
    <2>1. PICK f : Reaches(k, f)
        BY <1>2
    <2> DEFINE g == [i \in 0..(k + 1) |-> IF i = k + 1 THEN next[k + 1][f[k]] ELSE f[i]]
    <2>2. k + 1 \in 1..m /\ k \in 0..k /\ k + 1 \in 0..m
        OBVIOUS
    <2>3. f[k] \in V
        BY <2>1, <2>2 DEF Follows
    <2>4. next[k + 1][f[k]] \in V
        <3>1. next[k + 1] \in [V -> V]
            BY <2>2
        <3> QED
            BY <2>3, <3>1
    <2>5. g \in [0..(k + 1) -> V]
        BY <2>1, <2>4 DEF Follows
    <2>6. g[0] = base
        BY <2>1 DEF Follows
    <2>7. ASSUME NEW i \in 1..(k + 1) PROVE g[i] = next[i][g[i - 1]]
        <3>1. CASE i = k + 1
            <4>1. g[k + 1] = next[k + 1][f[k]] /\ g[k] = f[k] /\ i - 1 = k
                BY <2>2, <3>1
            <4> QED
                BY <3>1, <4>1
        <3>2. CASE i # k + 1
            <4>1. i \in 1..k /\ g[i] = f[i] /\ g[i - 1] = f[i - 1]
                BY <3>2
            <4> QED
                BY <2>1, <4>1 DEF Follows
        <3> QED
            BY <3>1, <3>2
    <2> HIDE DEF g
    <2>8. Reaches(k + 1, g)
        BY <2>5, <2>6, <2>7 DEF Follows
    <2> QED
        BY <2>2, <2>8
<1>3. \A k \in 0..m : k \in S
    <2> HIDE DEF S
    <2> QED
        BY <1>1, <1>2, CountingUp
<1>4. m \in S
    BY <1>3
<1> QED
    BY <1>4

\* f joins the elements of s one after the other.
Joins(s, f) ==
    /\ f[0] = <<>>
    /\ \A k \in 1..Len(s) : f[k] = f[k - 1] \o s[k]

(* What FlattenSeq makes of s, and of every beginning of s.                   *)
LEMMA Flattened ==
    ASSUME NEW T, NEW s \in Seq(Seq(T))
    PROVE  \E f \in [0..Len(s) -> Seq(T)] : Joins(s, f) /\ AnnexB!FlattenSeq(s) = f[Len(s)]
<1>0. PICK m \in Nat : m = Len(s) /\ s \in [1..m -> Seq(T)]
    BY LenProperties
<1> DEFINE V == Seq(T)
           next == [i \in 1..m |-> [v \in V |-> v \o s[i]]]
           Is(g) == g = [i \in 1..Len(s) |-> IF i = 1 THEN s[i] ELSE g[i - 1] \o s[i]]
           flatten == CHOOSE g : Is(g)
<1>1. \A i \in 1..m : s[i] \in V
    BY <1>0
<1>2. next \in [1..m -> [V -> V]]
    <2>1. ASSUME NEW i \in 1..m, NEW v \in V PROVE v \o s[i] \in V
        BY <1>1, ConcatProperties
    <2> QED
        BY <2>1
<1>3. PICK f : Follows(m, V, <<>>, next, f)
    <2>1. <<>> \in V
        BY EmptySeq
    <2> HIDE DEF next, V
    <2> QED
        BY <1>2, <2>1, Recursion
<1>4. f \in [0..m -> V] /\ f[0] = <<>>
    BY <1>3 DEF Follows
<1>5. \A k \in 1..m : f[k] = f[k - 1] \o s[k]
    <2>1. ASSUME NEW k \in 1..m PROVE f[k] = f[k - 1] \o s[k]
        <3>1. f[k] = next[k][f[k - 1]]
            BY <1>3 DEF Follows
        <3>2. k - 1 \in 0..m
            OBVIOUS
        <3>3. f[k - 1] \in V
            BY <1>4, <3>2
        <3> QED
            BY <3>1, <3>3
    <2> QED
        BY <2>1
<1>6. Joins(s, f)
    BY <1>0, <1>4, <1>5 DEF Joins
<1>7. CASE m = 0
    <2>1. s = <<>>
        BY <1>0, <1>7, EmptySeq
    <2>2. AnnexB!FlattenSeq(s) = s
        BY <1>0, <1>7 DEF AnnexB!FlattenSeq
    <2> QED
        BY <1>0, <1>4, <1>6, <1>7, <2>1, <2>2
<1>8. CASE m # 0
    <2> DEFINE h == [i \in 1..m |-> f[i]]
    <2>1. \A i \in 1..m : h[i] = IF i = 1 THEN s[i] ELSE h[i - 1] \o s[i]
        <3>1. ASSUME NEW i \in 1..m PROVE h[i] = IF i = 1 THEN s[i] ELSE h[i - 1] \o s[i]
            <4>1. CASE i = 1
                <5>1. f[1] = <<>> \o s[1]
                    <6>1. f[1] = f[1 - 1] \o s[1]
                        BY <1>5, <4>1
                    <6>2. 1 - 1 = 0
                        OBVIOUS
                    <6> QED
                        BY <1>4, <6>1, <6>2
                <5>2. s[1] \in V
                    BY <1>1, <4>1
                <5>3. <<>> \o s[1] = s[1]
                    BY <5>2, ConcatEmptySeq
                <5> QED
                    BY <4>1, <5>1, <5>3
            <4>2. CASE i # 1
                <5>1. i - 1 \in 1..m
                    BY <4>2
                <5> QED
                    BY <1>5, <4>2, <5>1
            <4> QED
                BY <4>1, <4>2
        <3> QED
            BY <3>1
    <2>2. Is(h)
        BY <1>0, <2>1
    <2>3. Is(flatten)
        <3> HIDE DEF Is, h
        <3> QED
            BY <2>2
    <2>4. AnnexB!FlattenSeq(s) = flatten[m]
        BY <1>0, <1>8 DEF AnnexB!FlattenSeq
    <2>5. \A i \in 0..m : i \in {j \in 0..m : j > 0 => flatten[j] = f[j]}
        <3> DEFINE S == {j \in 0..m : j > 0 => flatten[j] = f[j]}
        <3>1. 0 \in S
            OBVIOUS
        <3>2. ASSUME NEW k \in 0..(m - 1), k \in S PROVE k + 1 \in S
            <4>1. k + 1 \in 1..m /\ k + 1 \in 0..m /\ (k + 1) - 1 = k
                OBVIOUS
            <4>2. flatten[k + 1] = IF k + 1 = 1 THEN s[k + 1] ELSE flatten[k] \o s[k + 1]
                <5> HIDE DEF flatten
                <5> QED
                    BY <1>0, <2>3, <4>1
            <4>3. h[k + 1] = IF k + 1 = 1 THEN s[k + 1] ELSE h[k] \o s[k + 1]
                <5> HIDE DEF h
                <5> QED
                    BY <2>1, <4>1
            <4>4. h[k + 1] = f[k + 1]
                BY <4>1
            <4>5. k # 0 => flatten[k] = f[k] /\ h[k] = f[k]
                <5>1. k # 0 => k \in 1..m /\ k > 0
                    OBVIOUS
                <5> QED
                    BY <3>2, <5>1
            <4>6. flatten[k + 1] = f[k + 1]
                <5> HIDE DEF flatten, h
                <5>1. k = 0 \/ k # 0
                    OBVIOUS
                <5> QED
                    BY <4>2, <4>3, <4>4, <4>5, <5>1
            <4> QED
                BY <4>1, <4>6
        <3> HIDE DEF S
        <3>3. \A i \in 0..m : i \in S
            BY <3>1, <3>2, CountingUp
        <3> QED
            BY <3>3 DEF S
    <2>6. flatten[m] = f[m]
        <3>1. m \in 0..m /\ m > 0
            BY <1>8
        <3> HIDE DEF flatten
        <3> QED
            BY <2>5, <3>1
    <2> QED
        BY <1>0, <1>4, <1>6, <2>4, <2>6
<1> QED
    BY <1>7, <1>8

(* Two sequences one after the other.                                         *)
LEMMA Joined ==
    ASSUME NEW T, NEW a \in Seq(T), NEW b \in Seq(T), NEW c, c = a \o b
    PROVE  /\ c \in Seq(T) /\ Len(c) = Len(a) + Len(b)
           /\ \A t \in 1..Len(c) : c[t] = IF t <= Len(a) THEN a[t] ELSE b[t - Len(a)]
           /\ \A t \in 1..Len(a) : c[t] = a[t]
           /\ \A t \in 1..Len(b) : c[Len(a) + t] = b[t]
           /\ Len(a) \in Nat /\ Len(b) \in Nat
<1>1. Len(a) \in Nat /\ Len(b) \in Nat
    BY LenProperties
<1>2. /\ c \in Seq(T) /\ Len(c) = Len(a) + Len(b)
      /\ \A t \in 1..Len(c) : c[t] = IF t <= Len(a) THEN a[t] ELSE b[t - Len(a)]
    BY ConcatProperties
<1>3. ASSUME NEW t \in 1..Len(a) PROVE c[t] = a[t]
    BY <1>1, <1>2
<1>4. ASSUME NEW t \in 1..Len(b) PROVE c[Len(a) + t] = b[t]
    <2>1. /\ Len(a) + t \in 1..Len(c) /\ ~(Len(a) + t <= Len(a)) /\ (Len(a) + t) - Len(a) = t
        BY <1>1, <1>2
    <2> QED
        BY <1>2, <2>1
<1> QED
    BY <1>1, <1>2, <1>3, <1>4

\* Where the elements of s, sequences of T, lie when f joins them.
JoinedInOrder(T, s, f) ==
    /\ Len(s) \in Nat /\ \A k \in 0..Len(s) : Len(f[k]) \in Nat
    /\ \A k \in 1..Len(s) : /\ s[k] \in Seq(T) /\ Len(s[k]) \in Nat
                            /\ Len(f[k]) = Len(f[k - 1]) + Len(s[k])
    /\ \A j, k \in 0..Len(s) : j <= k => /\ Len(f[j]) <= Len(f[k])
                                         /\ \A t \in 1..Len(f[j]) : f[k][t] = f[j][t]
    /\ \A k \in 1..Len(s) : \A t \in 1..Len(s[k]) : f[Len(s)][Len(f[k - 1]) + t] = s[k][t]

(* The elements lie one behind the other.                                     *)
LEMMA Pieces ==
    ASSUME NEW T, NEW s \in Seq(Seq(T)), NEW f \in [0..Len(s) -> Seq(T)], Joins(s, f)
    PROVE  JoinedInOrder(T, s, f)
<1>0. PICK m \in Nat : m = Len(s) /\ s \in [1..m -> Seq(T)]
    BY LenProperties
<1>1. \A k \in 0..m : f[k] \in Seq(T) /\ Len(f[k]) \in Nat
    BY <1>0, LenProperties
<1>2. \A k \in 1..m : s[k] \in Seq(T) /\ Len(s[k]) \in Nat
    BY <1>0, LenProperties
<1>3. ASSUME NEW k \in 1..m
      PROVE  /\ Len(f[k]) = Len(f[k - 1]) + Len(s[k])
             /\ \A t \in 1..Len(f[k - 1]) : f[k][t] = f[k - 1][t]
             /\ \A t \in 1..Len(s[k]) : f[k][Len(f[k - 1]) + t] = s[k][t]
    <2>1. k - 1 \in 0..m /\ f[k] = f[k - 1] \o s[k]
        BY <1>0 DEF Joins
    <2>2. f[k - 1] \in Seq(T) /\ s[k] \in Seq(T)
        BY <1>1, <1>2, <2>1
    <2> QED
        <3> DEFINE a == f[k - 1]
                   b == s[k]
                   c == f[k]
        <3>1. a \in Seq(T) /\ b \in Seq(T) /\ c = a \o b
            BY <2>1, <2>2
        <3> HIDE DEF a, b, c
        <3>2. /\ Len(c) = Len(a) + Len(b)
              /\ \A t \in 1..Len(a) : c[t] = a[t]
              /\ \A t \in 1..Len(b) : c[Len(a) + t] = b[t]
            BY <3>1, Joined
        <3> QED
            BY <3>2, Zenon DEF a, b, c
<1>4. ASSUME NEW j \in 0..m
      PROVE  \A k \in 0..m : j <= k => /\ Len(f[j]) <= Len(f[k])
                                       /\ \A t \in 1..Len(f[j]) : f[k][t] = f[j][t]
    <2> DEFINE S == {k \in 0..m : j <= k => /\ Len(f[j]) <= Len(f[k])
                                            /\ \A t \in 1..Len(f[j]) : f[k][t] = f[j][t]}
    <2>1. 0 \in S
        <3>1. j <= 0 => j = 0
            OBVIOUS
        <3>2. 0 \in 0..m /\ Len(f[0]) \in Nat
            BY <1>1
        <3> QED
            BY <3>1, <3>2
    <2>2. ASSUME NEW k \in 0..(m - 1), k \in S PROVE k + 1 \in S
        <3>1. k + 1 \in 0..m /\ k + 1 \in 1..m /\ (k + 1) - 1 = k /\ k \in 0..m
            OBVIOUS
        <3>2. SUFFICES ASSUME j <= k + 1
                       PROVE  /\ Len(f[j]) <= Len(f[k + 1])
                              /\ \A t \in 1..Len(f[j]) : f[k + 1][t] = f[j][t]
            BY <3>1
        <3>3. CASE j = k + 1
            BY <1>1, <3>3
        <3>4. CASE j # k + 1
            <4>1. j <= k
                BY <3>1, <3>2, <3>4
            <4>2. /\ Len(f[j]) <= Len(f[k])
                  /\ \A t \in 1..Len(f[j]) : f[k][t] = f[j][t]
                BY <2>2, <4>1
            <4>3. /\ Len(f[k + 1]) = Len(f[k]) + Len(s[k + 1])
                  /\ \A t \in 1..Len(f[k]) : f[k + 1][t] = f[k][t]
                BY <1>3, <3>1
            <4>4. Len(f[j]) \in Nat /\ Len(f[k]) \in Nat /\ Len(s[k + 1]) \in Nat
                BY <1>1, <1>2, <3>1
            <4>5. PICK a \in Nat, b \in Nat, c \in Nat :
                      a = Len(f[j]) /\ b = Len(f[k]) /\ c = Len(f[k + 1]) /\ a <= b /\ b <= c
                <5> DEFINE a == Len(f[j])
                           b == Len(f[k])
                           c == Len(f[k + 1])
                           d == Len(s[k + 1])
                <5>1. a \in Nat /\ b \in Nat /\ d \in Nat /\ a <= b /\ c = b + d
                    BY <4>2, <4>3, <4>4
                <5> HIDE DEF a, b, c, d
                <5>2. c \in Nat /\ b <= c
                    BY <5>1
                <5> QED
                    BY <5>1, <5>2 DEF a, b, c
            <4>6. \A t \in 1..a : f[k + 1][t] = f[j][t]
                <5>1. \A t \in 1..a : t \in 1..b
                    BY <4>5
                <5> QED
                    BY <4>2, <4>3, <4>5, <5>1
            <4>7. a <= c
                BY <4>5
            <4> QED
                BY <4>5, <4>6, <4>7
        <3> QED
            BY <3>3, <3>4
    <2>3. \A k \in 0..m : k \in S
        <3> HIDE DEF S
        <3> QED
            BY <2>1, <2>2, CountingUp
    <2> QED
        BY <2>3
<1>5. ASSUME NEW k \in 1..m, NEW t \in 1..Len(s[k])
      PROVE  f[m][Len(f[k - 1]) + t] = s[k][t]
    <2>1. k \in 0..m /\ m \in 0..m /\ k <= m /\ k - 1 \in 0..m
        OBVIOUS
    <2>2. Len(f[k - 1]) \in Nat /\ Len(s[k]) \in Nat
        BY <1>1, <1>2, <2>1
    <2>3. Len(f[k - 1]) + t \in 1..Len(f[k])
        <3>1. PICK a \in Nat, b \in Nat, c \in Nat :
                  a = Len(f[k - 1]) /\ b = Len(s[k]) /\ c = Len(f[k]) /\ c = a + b
            BY <1>1, <1>3, <2>1, <2>2
        <3>2. t \in 1..b
            BY <3>1
        <3>3. a + t \in 1..c
            <4>1. c = a + b
                BY <3>1
            <4> QED
                BY <3>2, <4>1
        <3> QED
            BY <3>1, <3>3
    <2>4. f[k][Len(f[k - 1]) + t] = s[k][t]
        BY <1>3
    <2>5. f[m][Len(f[k - 1]) + t] = f[k][Len(f[k - 1]) + t]
        BY <1>4, <2>1, <2>3
    <2> QED
        BY <2>4, <2>5
<1> QED
    BY <1>0, <1>1, <1>2, <1>3, <1>4, <1>5 DEF JoinedInOrder

(* A beginning of s gives a beginning.                                        *)
LEMMA FlattenedPart ==
    ASSUME NEW T, NEW s \in Seq(Seq(T)), NEW f \in [0..Len(s) -> Seq(T)], Joins(s, f),
           NEW k \in 0..Len(s)
    PROVE  AnnexB!FlattenSeq(SubSeq(s, 1, k)) = f[k]
<1>0. PICK m \in Nat : m = Len(s) /\ s \in [1..m -> Seq(T)]
    BY LenProperties
<1> DEFINE p == SubSeq(s, 1, k)
<1>1. p \in Seq(Seq(T)) /\ Len(p) = k /\ \A i \in 1..k : p[i] = s[i]
    <2>1. 1 \in Int /\ k \in Int /\ \A i \in 1..k : s[i] \in Seq(T)
        BY <1>0
    <2> QED
        BY <1>0, <2>1, SubSeqProperties
<1> HIDE DEF p
<1>2. PICK g \in [0..Len(p) -> Seq(T)] : Joins(p, g) /\ AnnexB!FlattenSeq(p) = g[Len(p)]
    BY <1>1, Flattened
<1> DEFINE S == {i \in 0..k : g[i] = f[i]}
<1>3. 0 \in S
    BY <1>2 DEF Joins
<1>4. ASSUME NEW i \in 0..(k - 1), i \in S PROVE i + 1 \in S
    <2>1. i + 1 \in 1..k /\ i + 1 \in 0..k /\ i + 1 \in 1..m /\ (i + 1) - 1 = i
        BY <1>0
    <2>2. g[i + 1] = g[i] \o p[i + 1]
        BY <1>1, <1>2, <2>1 DEF Joins
    <2>3. f[i + 1] = f[i] \o s[i + 1]
        BY <1>0, <2>1 DEF Joins
    <2> QED
        BY <1>1, <1>4, <2>1, <2>2, <2>3
<1>5. k \in S
    <2>1. \A i \in 0..k : i \in S
        <3>1. k \in Nat
            BY <1>0
        <3> HIDE DEF S
        <3> QED
            BY <1>3, <1>4, <3>1, CountingUp
    <2> QED
        BY <1>0, <2>1
<1> QED
    BY <1>1, <1>2, <1>5 DEF p

-----------------------------------------------------------------------------
(* A stream is cut where its units are                                        *)

\* A start code at i.
CodeIn(s, i) == i + 2 <= Len(s) /\ s[i] = 0 /\ s[i + 1] = 0 /\ s[i + 2] = 1

(* A start code of StartCodes is 0, 0, 1.                                     *)
LEMMA CodeAt ==
    ASSUME NEW s \in Seq(Nat), NEW i \in 1..Len(s)
    PROVE  (i + 2 <= Len(s) /\ SubSeq(s, i, i + 2) = AnnexB!StartCode3) <=> CodeIn(s, i)
<1>0. PICK m \in Nat : m = Len(s)
    BY LenProperties
<1> DEFINE p == SubSeq(s, i, i + 2)
           q == AnnexB!StartCode3
<1>1. q \in Seq(Nat) /\ Len(q) = 3 /\ q[1] = 0 /\ q[2] = 0 /\ q[3] = 1
    BY DEF AnnexB!StartCode3
<1>2. ASSUME i + 2 <= m PROVE p = q <=> s[i] = 0 /\ s[i + 1] = 0 /\ s[i + 2] = 1
    <2>1. i \in Int /\ i + 2 \in Int /\ \A j \in i..(i + 2) : s[j] \in Nat
        <3>1. \A j \in i..(i + 2) : j \in 1..Len(s)
            BY <1>0, <1>2
        <3> QED
            BY <3>1, ElementOfSeq
    <2>2. /\ p \in Seq(Nat) /\ Len(p) = IF i <= i + 2 THEN i + 2 - i + 1 ELSE 0
          /\ \A j \in 1..(i + 2 - i + 1) : p[j] = s[i + j - 1]
        <3> HIDE DEF q
        <3> QED
            BY <2>1, SubSeqProperties
    <2>3. i <= i + 2 /\ i + 2 - i + 1 = 3 /\ i + 1 - 1 = i /\ i + 2 - 1 = i + 1 /\ i + 3 - 1 = i + 2
        OBVIOUS
    <2>4. p \in Seq(Nat) /\ Len(p) = 3 /\ p[1] = s[i] /\ p[2] = s[i + 1] /\ p[3] = s[i + 2]
        <3>1. 1 \in 1..3 /\ 2 \in 1..3 /\ 3 \in 1..3
            OBVIOUS
        <3> HIDE DEF p, q
        <3>2. Len(p) = 3 /\ \A j \in 1..3 : p[j] = s[i + j - 1]
            BY <2>2, <2>3
        <3> QED
            BY <2>2, <2>3, <3>1, <3>2
    <2> HIDE DEF p, q
    <2>5. ASSUME s[i] = 0, s[i + 1] = 0, s[i + 2] = 1 PROVE p = q
        <3>1. \A j \in 1..3 : j = 1 \/ j = 2 \/ j = 3
            OBVIOUS
        <3>2. \A j \in 1..3 : p[j] = q[j]
            BY <1>1, <2>4, <2>5, <3>1
        <3> QED
            BY <1>1, <2>4, <3>2, SeqEqual
    <2> QED
        BY <1>1, <2>4, <2>5
<1> QED
    BY <1>0, <1>2 DEF CodeIn

(* StartCodes goes through the stream once.                                   *)
LEMMA CodesListed ==
    ASSUME NEW s \in Seq(Nat)
    PROVE  \E f \in [0..Len(s) -> Seq(Nat)] :
               /\ f[0] = <<>> /\ AnnexB!StartCodes(s) = f[Len(s)]
               /\ \A i \in 1..Len(s) : f[i] = IF CodeIn(s, i) THEN Append(f[i - 1], i) ELSE f[i - 1]
<1>0. PICK m \in Nat : m = Len(s)
    BY LenProperties
<1> DEFINE V == Seq(Nat)
           next == [i \in 1..m |-> [v \in V |-> IF CodeIn(s, i) THEN Append(v, i) ELSE v]]
           IsCode(i) == i + 2 <= Len(s) /\ SubSeq(s, i, i + 2) = AnnexB!StartCode3
           Is(g) == g = [i \in 0..Len(s) |->
                            IF i = 0 THEN <<>>
                            ELSE IF IsCode(i) THEN Append(g[i - 1], i) ELSE g[i - 1]]
           codes == CHOOSE g : Is(g)
<1>1. next \in [1..m -> [V -> V]]
    <2>1. ASSUME NEW i \in 1..m, NEW v \in V PROVE Append(v, i) \in V
        BY AppendProperties
    <2> QED
        BY <2>1
<1>2. PICK f : Follows(m, V, <<>>, next, f)
    <2>1. <<>> \in V
        BY EmptySeq
    <2> HIDE DEF next, V
    <2> QED
        BY <1>1, <2>1, Recursion
<1>3. f \in [0..m -> V] /\ f[0] = <<>>
    BY <1>2 DEF Follows
<1>4. ASSUME NEW i \in 1..m
      PROVE  f[i] = IF CodeIn(s, i) THEN Append(f[i - 1], i) ELSE f[i - 1]
    <2>1. f[i] = next[i][f[i - 1]]
        BY <1>2 DEF Follows
    <2>2. i - 1 \in 0..m
        OBVIOUS
    <2>3. f[i - 1] \in V
        BY <1>3, <2>2
    <2> QED
        BY <2>1, <2>3
<1>5. Is(f)
    <2>1. ASSUME NEW i \in 0..m
          PROVE  f[i] = IF i = 0 THEN <<>>
                        ELSE IF IsCode(i) THEN Append(f[i - 1], i) ELSE f[i - 1]
        <3>1. CASE i = 0
            BY <1>3, <3>1
        <3>2. CASE i # 0
            <4>1. i \in 1..m /\ i \in 1..Len(s)
                BY <1>0, <3>2
            <4>2. IsCode(i) <=> CodeIn(s, i)
                BY <4>1, CodeAt
            <4> HIDE DEF IsCode
            <4> QED
                BY <1>4, <3>2, <4>1, <4>2
        <3> QED
            BY <3>1, <3>2
    <2> HIDE DEF IsCode
    <2> QED
        BY <1>0, <1>3, <2>1
<1>6. Is(codes)
    <2> HIDE DEF Is
    <2> QED
        BY <1>5
<1>7. AnnexB!StartCodes(s) = codes[m]
    BY <1>0, Zenon DEF AnnexB!StartCodes
<1>8. \A i \in 0..m : codes[i] = f[i]
    <2> DEFINE S == {i \in 0..m : codes[i] = f[i]}
    <2> HIDE DEF codes, IsCode
    <2>1. 0 \in S
        <3>1. 0 \in 0..Len(s)
            BY <1>0
        <3> QED
            BY <1>0, <1>3, <1>6, <3>1
    <2>2. ASSUME NEW k \in 0..(m - 1), k \in S PROVE k + 1 \in S
        <3>1. k + 1 \in 0..m /\ k + 1 \in 1..m /\ (k + 1) - 1 = k /\ k + 1 # 0 /\ k + 1 \in 1..Len(s)
            BY <1>0
        <3>2. codes[k + 1] = IF IsCode(k + 1) THEN Append(codes[k], k + 1) ELSE codes[k]
            BY <1>0, <1>6, <3>1
        <3>3. IsCode(k + 1) <=> CodeIn(s, k + 1)
            BY <3>1, CodeAt DEF IsCode
        <3>4. f[k + 1] = IF CodeIn(s, k + 1) THEN Append(f[k], k + 1) ELSE f[k]
            BY <1>4, <3>1
        <3> QED
            BY <2>2, <3>1, <3>2, <3>3, <3>4
    <2>3. \A i \in 0..m : i \in S
        <3> HIDE DEF S
        <3> QED
            BY <2>1, <2>2, CountingUp
    <2> QED
        BY <2>3
<1>9. m \in 0..m
    OBVIOUS
<1> HIDE DEF codes, V
<1> QED
    BY <1>0, <1>3, <1>4, <1>7, <1>8, <1>9 DEF V

\* What a unit is: bytes, the last not 0 and no start code in them.
Units ==
    {u \in Seq(Nat) :
        /\ u # <<>> /\ u[Len(u)] # 0
        /\ \A i \in 1..Len(u) : ~CodeIn(u, i)}

\* The stream s holds the units us, each behind a start code; unit k ends at e[k].
Holds(s, us, e) ==
    /\ s \in Seq(Nat) /\ us \in Seq(Units)
    /\ e \in [0..Len(us) -> Nat] /\ e[0] = 0 /\ e[Len(us)] = Len(s)
    /\ \A k \in 1..Len(us) :
          /\ e[k] - Len(us[k]) - e[k - 1] \in {3, 4}
          /\ s[e[k] - Len(us[k])] = 1
          /\ \A i \in (e[k - 1] + 1)..(e[k] - Len(us[k]) - 1) : s[i] = 0
          /\ \A t \in 1..Len(us[k]) : s[e[k] - Len(us[k]) + t] = us[k][t]

(* The zeros behind a unit are not part of it.                                *)
LEMMA Trimmed ==
    ASSUME NEW u \in Units, NEW v \in Seq(Nat), Len(u) <= Len(v),
           \A i \in 1..Len(u) : v[i] = u[i],
           \A i \in (Len(u) + 1)..Len(v) : v[i] = 0
    PROVE  AnnexB!Trim(v) = u
<1>0. PICK m \in Nat, l \in Nat : m = Len(u) /\ l = Len(v) /\ m # 0 /\ m <= l /\ u \in Seq(Nat) /\ u[m] # 0
    <2>1. u \in Seq(Nat) /\ u # <<>> /\ u[Len(u)] # 0
        BY DEF Units
    <2> QED
        BY <2>1, EmptySeq, LenProperties
<1> DEFINE Ends(x) == (x > 0 => v[x] # 0) /\ \A i \in (x + 1)..Len(v) : v[i] = 0
           x == CHOOSE y \in 0..Len(v) : Ends(y)
<1>1. Ends(m) /\ m \in 0..Len(v)
    <2>1. m \in 1..Len(u)
        BY <1>0
    <2> QED
        BY <1>0, <2>1
<1>2. x \in 0..Len(v) /\ Ends(x)
    <2> HIDE DEF Ends
    <2> QED
        BY <1>1
<1> HIDE DEF x
<1>3. x = m
    <2>1. CASE x < m
        <3>1. m \in (x + 1)..Len(v) /\ m \in 1..Len(u)
            BY <1>0, <1>2, <2>1
        <3> QED
            BY <1>0, <1>2, <3>1
    <2>2. CASE x > m
        <3>1. x \in (Len(u) + 1)..Len(v) /\ x > 0
            BY <1>0, <1>2, <2>2
        <3> QED
            BY <1>2, <3>1
    <2> QED
        BY <1>0, <1>2, <2>1, <2>2
<1>4. AnnexB!Trim(v) = SubSeq(v, 1, m)
    <2>1. AnnexB!Trim(v) = SubSeq(v, 1, x)
        BY DEF AnnexB!Trim, x
    <2> QED
        BY <1>3, <2>1
<1>5. SubSeq(v, 1, m) = u
    <2> DEFINE p == SubSeq(v, 1, m)
    <2>1. p \in Seq(Nat) /\ Len(p) = m /\ \A j \in 1..m : p[j] = v[j]
        <3>1. 1 \in Int /\ m \in Int /\ \A j \in 1..m : v[j] \in Nat
            <4>1. \A j \in 1..m : j \in 1..Len(v)
                BY <1>0
            <4> QED
                BY <4>1, ElementOfSeq
        <3> QED
            BY <1>0, <3>1, SubSeqProperties
    <2> HIDE DEF p
    <2>2. \A j \in 1..Len(p) : p[j] = u[j]
        BY <1>0, <2>1
    <2> QED
        BY <1>0, <2>1, <2>2, SeqEqual DEF p
<1> QED
    BY <1>4, <1>5

(* The units lie one behind the other.                                        *)
LEMMA UnitsInOrder ==
    ASSUME NEW s, NEW us, NEW e, Holds(s, us, e)
    PROVE  /\ Len(us) \in Nat /\ Len(s) \in Nat
           /\ \A k \in 1..Len(us) : /\ us[k] \in Units /\ Len(us[k]) \in Nat \ {0}
                                    /\ e[k] \in Nat /\ e[k - 1] \in Nat
           /\ \A j, k \in 0..Len(us) : j <= k => e[j] <= e[k]
<1>0. PICK m \in Nat : m = Len(us) /\ us \in [1..m -> Units]
    BY LenProperties DEF Holds
<1>1. \A k \in 1..m : us[k] \in Units /\ Len(us[k]) \in Nat \ {0}
    <2>1. ASSUME NEW k \in 1..m PROVE us[k] \in Units /\ Len(us[k]) \in Nat \ {0}
        <3>1. us[k] \in Units
            BY <1>0
        <3>2. us[k] \in Seq(Nat) /\ us[k] # <<>>
            BY <3>1 DEF Units
        <3> QED
            BY <3>1, <3>2, EmptySeq
    <2> QED
        BY <2>1
<1>2. e \in [0..m -> Nat]
    BY <1>0 DEF Holds
<1>3. \A k \in 1..m : e[k] \in Nat /\ e[k - 1] \in Nat /\ e[k - 1] <= e[k]
    <2>1. ASSUME NEW k \in 1..m PROVE e[k] \in Nat /\ e[k - 1] \in Nat /\ e[k - 1] <= e[k]
        <3>1. e[k] \in Nat /\ e[k - 1] \in Nat
            <4>1. k \in 0..m /\ k - 1 \in 0..m
                OBVIOUS
            <4> QED
                BY <1>2, <4>1
        <3>2. e[k] - Len(us[k]) - e[k - 1] \in {3, 4} /\ Len(us[k]) \in Nat
            BY <1>0, <1>1 DEF Holds
        <3> QED
            BY <3>1, <3>2
    <2> QED
        BY <2>1
<1>4. ASSUME NEW j \in 0..m PROVE \A k \in 0..m : j <= k => e[j] <= e[k]
    <2> DEFINE S == {k \in 0..m : j <= k => e[j] <= e[k]}
    <2>1. 0 \in S
        BY <1>2
    <2>2. ASSUME NEW k \in 0..(m - 1), k \in S PROVE k + 1 \in S
        <3>1. k + 1 \in 1..m /\ k + 1 \in 0..m /\ (k + 1) - 1 = k
            OBVIOUS
        <3>2. e[k] <= e[k + 1] /\ e[k] \in Nat /\ e[k + 1] \in Nat /\ e[j] \in Nat
            BY <1>2, <1>3, <3>1
        <3>3. CASE j = k + 1
            BY <3>1, <3>2, <3>3
        <3>4. CASE j # k + 1
            BY <2>2, <3>1, <3>2, <3>4
        <3> QED
            BY <3>3, <3>4
    <2>3. \A k \in 0..m : k \in S
        <3> HIDE DEF S
        <3> QED
            BY <2>1, <2>2, CountingUp
    <2> QED
        BY <2>3
<1>5. Len(s) \in Nat
    BY LenProperties DEF Holds
<1> QED
    BY <1>0, <1>1, <1>3, <1>4, <1>5

\* Where the start code of unit k begins.
Code(us, e, k) == e[k] - Len(us[k]) - 2

(* It is in the stream, behind the unit in front of it.                       *)
LEMMA CodeLies ==
    ASSUME NEW s, NEW us, NEW e, Holds(s, us, e), NEW k \in 1..Len(us)
    PROVE  /\ Code(us, e, k) \in 1..Len(s) /\ Code(us, e, k) > e[k - 1]
           /\ Code(us, e, k) \in {e[k - 1] + 1, e[k - 1] + 2}
           /\ e[k] = Code(us, e, k) + 2 + Len(us[k]) /\ e[k] <= Len(s)
           /\ CodeIn(s, Code(us, e, k))
<1>1. /\ Len(us) \in Nat /\ Len(s) \in Nat /\ Len(us[k]) \in Nat \ {0}
      /\ e[k] \in Nat /\ e[k - 1] \in Nat /\ e[k] <= Len(s)
    <2>1. k \in 0..Len(us) /\ Len(us) \in 0..Len(us) /\ k <= Len(us)
        BY UnitsInOrder
    <2>2. e[Len(us)] = Len(s)
        BY DEF Holds
    <2> QED
        BY <2>1, <2>2, UnitsInOrder
<1> DEFINE l == Len(us[k])
           one == e[k] - l
           c == Code(us, e, k)
<1>2. /\ one - e[k - 1] \in {3, 4} /\ s[one] = 1
      /\ \A i \in (e[k - 1] + 1)..(one - 1) : s[i] = 0
    BY DEF Holds
<1>3. c = one - 2
    BY DEF Code
<1>4. PICK a \in Nat, b \in Nat, d \in Nat, z \in Nat : a = e[k] /\ b = e[k - 1] /\ d = l /\ z = Len(s) /\ d > 0 /\ a <= z
    BY <1>1
<1>5. c = a - d - 2 /\ a - d - b \in {3, 4} /\ c \in Int
    BY <1>2, <1>3, <1>4
<1> HIDE DEF c
<1>6. c \in 1..z /\ c > b /\ c \in {b + 1, b + 2} /\ a = c + 2 + d /\ c + 2 <= z /\ c + 2 = one
    <2>1. a - d - b = 3 \/ a - d - b = 4
        BY <1>5
    <2>2. c >= b + 1 /\ (c = b + 1 \/ c = b + 2) /\ a = c + 2 + d /\ c + 2 <= z
        <3>1. c = a - d - 2 /\ c \in Int /\ d > 0 /\ a <= z
            BY <1>4, <1>5
        <3> QED
            BY <2>1, <3>1
    <2>3. c + 2 = one
        BY <1>3, <1>4, <1>5
    <2> QED
        BY <1>5, <2>2, <2>3
<1>7. s[c] = 0 /\ s[c + 1] = 0 /\ s[c + 2] = 1
    <2>1. c \in (b + 1)..(one - 1) /\ c + 1 \in (b + 1)..(one - 1)
        <3> HIDE DEF one
        <3> QED
            BY <1>6
    <2> HIDE DEF one
    <2> QED
        BY <1>2, <1>4, <1>6, <2>1
<1>8. CodeIn(s, c)
    BY <1>4, <1>6, <1>7 DEF CodeIn
<1>9. e[k] = c + 2 + l /\ c > e[k - 1] /\ c \in {e[k - 1] + 1, e[k - 1] + 2} /\ c \in 1..Len(s)
    BY <1>4, <1>6
<1> QED
    BY <1>1, <1>8, <1>9 DEF c

(* A byte of the stream belongs to a unit or to the code in front of it.      *)
LEMMA UnitOf ==
    ASSUME NEW s, NEW us, NEW e, Holds(s, us, e), NEW i \in 1..Len(s)
    PROVE  \E k \in 1..Len(us) : e[k - 1] < i /\ i <= e[k]
<1>0. PICK m \in Nat : m = Len(us)
    BY UnitsInOrder
<1> DEFINE S == {k \in 0..m : i <= e[k]}
<1>1. e \in [0..m -> Nat] /\ e[0] = 0 /\ e[m] = Len(s)
    BY <1>0 DEF Holds
<1>2. m \in S
    BY <1>1
<1>3. PICK k \in S : \A j \in S : k <= j
    <2>1. S \subseteq 0..m /\ S # {}
        BY <1>2
    <2> HIDE DEF S
    <2> QED
        BY <2>1, LeastNumber
<1>4. k # 0 /\ k \in 0..m
    BY <1>1
<1>5. k - 1 \in 0..m /\ ~(k <= k - 1) /\ k \in 1..m
    BY <1>4
<1>6. ~(i <= e[k - 1]) /\ e[k - 1] \in Nat
    BY <1>1, <1>3, <1>5
<1> QED
    BY <1>0, <1>5, <1>6

(* There is a start code where a unit has its code, and nowhere else.         *)
LEMMA CodesOfUnits ==
    ASSUME NEW s, NEW us, NEW e, Holds(s, us, e), NEW i \in 1..Len(s)
    PROVE  CodeIn(s, i) <=> \E k \in 1..Len(us) : i = Code(us, e, k)
<1>1. ASSUME NEW k \in 1..Len(us), i = Code(us, e, k) PROVE CodeIn(s, i)
    BY <1>1, CodeLies
<1>2. ASSUME CodeIn(s, i) PROVE \E k \in 1..Len(us) : i = Code(us, e, k)
    <2>1. /\ i + 2 \in 1..Len(s) /\ s[i] = 0 /\ s[i + 1] = 0 /\ s[i + 2] = 1
        BY <1>2, UnitsInOrder DEF CodeIn
    <2>2. PICK k \in 1..Len(us) : e[k - 1] < i + 2 /\ i + 2 <= e[k]
        BY <2>1, UnitOf
    <2>3. /\ Len(us) \in Nat /\ us[k] \in Units /\ Len(us[k]) \in Nat \ {0}
          /\ e[k] \in Nat /\ e[k - 1] \in Nat
        BY UnitsInOrder
    <2> DEFINE l == Len(us[k])
               one == e[k] - l
    <2>4. /\ one - e[k - 1] \in {3, 4} /\ s[one] = 1
          /\ \A j \in (e[k - 1] + 1)..(one - 1) : s[j] = 0
          /\ \A t \in 1..l : s[one + t] = us[k][t]
        BY DEF Holds
    <2>5. PICK a \in Nat, b \in Nat, o \in Nat : a = e[k] /\ b = e[k - 1] /\ o = one
        <3>1. one \in Int
            BY <2>3
        <3>2. one - e[k - 1] >= 0
            BY <2>4
        <3> HIDE DEF one
        <3>3. one \in Nat
            BY <2>3, <3>1, <3>2
        <3> QED
            BY <2>3, <3>3
    <2>6. l \in Nat \ {0} /\ a = o + l /\ b < i + 2 /\ i + 2 <= a /\ i \in Nat /\ i > 0
        BY <2>2, <2>3, <2>5
    <2> HIDE DEF l, one
    <2>7. CASE i + 2 < o
        <3>1. i + 2 \in (b + 1)..(o - 1)
            BY <2>6, <2>7
        <3> QED
            BY <2>1, <2>4, <2>5, <3>1
    <2>8. CASE i + 2 = o
        <3>1. Code(us, e, k) = one - 2
            BY DEF Code, one, l
        <3>2. Code(us, e, k) = i
            BY <2>5, <2>6, <2>8, <3>1
        <3> QED
            BY <3>2
    <2>9. CASE i + 2 = o + 1 \/ i + 2 = o + 2
        <3>1. i + 1 = o \/ i = o
            BY <2>6, <2>9
        <3> QED
            BY <2>1, <2>4, <2>5, <3>1
    <2>10. CASE i + 2 > o + 2
        <3> DEFINE t == i - o
        <3>1. t \in 1..l /\ t + 1 \in 1..l /\ t + 2 \in 1..l
            BY <2>5, <2>6, <2>10
        <3>2. o + t = i /\ o + (t + 1) = i + 1 /\ o + (t + 2) = i + 2
            BY <2>5, <2>6
        <3> HIDE DEF t
        <3>3. us[k][t] = 0 /\ us[k][t + 1] = 0 /\ us[k][t + 2] = 1
            BY <2>1, <2>4, <2>5, <3>1, <3>2
        <3>4. CodeIn(us[k], t) /\ t \in 1..Len(us[k])
            BY <3>1, <3>3 DEF CodeIn, l
        <3> QED
            BY <2>3, <3>4 DEF Units
    <2>11. i + 2 < o \/ i + 2 = o \/ (i + 2 = o + 1 \/ i + 2 = o + 2) \/ i + 2 > o + 2
        BY <2>6
    <2> QED
        BY <2>7, <2>8, <2>9, <2>10, <2>11
<1> QED
    BY <1>1, <1>2

(* Behind one unit lies the code of the next.                                 *)
LEMMA CodesRise ==
    ASSUME NEW s, NEW us, NEW e, Holds(s, us, e), NEW j \in 1..Len(us), NEW k \in 1..Len(us), j < k
    PROVE  Code(us, e, j) < Code(us, e, k)
<1>1. /\ Code(us, e, j) \in Nat /\ e[j] = Code(us, e, j) + 2 + Len(us[j]) /\ Len(us[j]) \in Nat
      /\ Code(us, e, k) > e[k - 1] /\ Code(us, e, k) \in Nat
    BY CodeLies, UnitsInOrder
<1>2. j \in 0..Len(us) /\ k - 1 \in 0..Len(us) /\ j <= k - 1
    BY UnitsInOrder
<1>3. e[j] <= e[k - 1] /\ e[j] \in Nat /\ e[k - 1] \in Nat
    BY <1>2, UnitsInOrder
<1> QED
    BY <1>1, <1>3

(* StartCodes finds the codes of the units.                                   *)
LEMMA CodesFound ==
    ASSUME NEW s, NEW us, NEW e, Holds(s, us, e)
    PROVE  /\ AnnexB!StartCodes(s) \in Seq(Nat) /\ Len(AnnexB!StartCodes(s)) = Len(us)
           /\ \A k \in 1..Len(us) : AnnexB!StartCodes(s)[k] = Code(us, e, k)
<1>0. PICK m \in Nat, l \in Nat : m = Len(us) /\ l = Len(s) /\ s \in Seq(Nat)
    BY UnitsInOrder DEF Holds
<1>1. PICK f \in [0..l -> Seq(Nat)] :
          /\ f[0] = <<>> /\ AnnexB!StartCodes(s) = f[l]
          /\ \A i \in 1..l : f[i] = IF CodeIn(s, i) THEN Append(f[i - 1], i) ELSE f[i - 1]
    BY <1>0, CodesListed
<1> DEFINE C(k) == Code(us, e, k)
           Found(i, J) == /\ f[i] \in Seq(Nat) /\ Len(f[i]) = J
                          /\ \A k \in 1..J : f[i][k] = C(k) /\ C(k) <= i
                          /\ \A k \in (J + 1)..m : C(k) > i
           S == {i \in 0..l : \E J \in 0..m : Found(i, J)}
<1>2. \A k \in 1..m : C(k) \in 1..l /\ C(k) \in Nat
    BY <1>0, CodeLies
<1>3. \A j, k \in 1..m : j < k => C(j) < C(k)
    BY <1>0, CodesRise
<1>4. \A i \in 1..l : CodeIn(s, i) <=> \E k \in 1..m : i = C(k)
    BY <1>0, CodesOfUnits
<1> HIDE DEF C
<1>5. 0 \in S
    <2>1. Len(<<>>) = 0 /\ <<>> \in Seq(Nat)
        BY EmptySeq
    <2>2. \A k \in (0 + 1)..m : C(k) > 0
        BY <1>2
    <2>3. Found(0, 0)
        BY <1>1, <2>1, <2>2
    <2>4. 0 \in 0..m /\ 0 \in 0..l
        OBVIOUS
    <2> HIDE DEF Found
    <2> QED
        BY <2>3, <2>4
<1>6. ASSUME NEW i \in 0..(l - 1), i \in S PROVE i + 1 \in S
    <2>1. PICK J \in 0..m : Found(i, J)
        BY <1>6
    <2>2. i + 1 \in 1..l /\ (i + 1) - 1 = i /\ i + 1 \in 0..l /\ i \in 0..l
        OBVIOUS
    <2>3. f[i + 1] = IF CodeIn(s, i + 1) THEN Append(f[i], i + 1) ELSE f[i]
        BY <1>1, <2>2
    <2>4. CASE CodeIn(s, i + 1)
        <3>1. PICK j \in 1..m : i + 1 = C(j)
            BY <1>4, <2>2, <2>4
        <3>2. j = J + 1
            <4>1. CASE j < J + 1
                <5>1. j \in 1..J
                    BY <4>1
                <5>2. C(j) <= i
                    BY <2>1, <5>1
                <5> QED
                    BY <3>1, <5>2
            <4>2. CASE j > J + 1
                <5>1. J + 1 \in 1..m /\ J + 1 \in (J + 1)..m
                    BY <4>2
                <5>2. C(J + 1) < C(j) /\ C(J + 1) > i /\ C(J + 1) \in Nat
                    BY <1>2, <1>3, <2>1, <4>2, <5>1
                <5> QED
                    BY <3>1, <5>2
            <4> QED
                BY <4>1, <4>2
        <3>3. /\ f[i + 1] \in Seq(Nat) /\ Len(f[i + 1]) = J + 1
              /\ f[i + 1][J + 1] = i + 1 /\ \A k \in 1..J : f[i + 1][k] = f[i][k]
            <4>1. f[i] \in Seq(Nat) /\ Len(f[i]) = J /\ i + 1 \in Nat
                BY <2>1
            <4>2. f[i + 1] = Append(f[i], i + 1)
                BY <2>3, <2>4
            <4> QED
                BY <4>1, <4>2, AppendProperties
        <3>4. ASSUME NEW k \in 1..(J + 1) PROVE f[i + 1][k] = C(k) /\ C(k) <= i + 1
            <4>1. CASE k = J + 1
                BY <3>1, <3>2, <3>3, <4>1
            <4>2. CASE k # J + 1
                <5>1. k \in 1..J /\ k \in 1..m
                    BY <4>2
                <5>2. f[i][k] = C(k) /\ C(k) <= i
                    BY <2>1, <5>1
                <5>3. C(k) \in Nat
                    BY <1>2, <5>1
                <5>4. f[i + 1][k] = f[i][k]
                    BY <3>3, <5>1
                <5>5. C(k) <= i + 1
                    <6>1. i \in Nat
                        OBVIOUS
                    <6> QED
                        BY <5>2, <5>3, <6>1
                <5> QED
                    BY <5>2, <5>4, <5>5
            <4> QED
                BY <4>1, <4>2
        <3>5. ASSUME NEW k \in ((J + 1) + 1)..m PROVE C(k) > i + 1
            <4>1. j < k /\ k \in 1..m
                BY <3>2
            <4> QED
                BY <1>3, <3>1, <4>1
        <3>6. J + 1 \in 0..m
            BY <3>2
        <3>7. Found(i + 1, J + 1)
            BY <3>3, <3>4, <3>5
        <3> HIDE DEF Found
        <3> QED
            BY <2>2, <3>6, <3>7
    <2>5. CASE ~CodeIn(s, i + 1)
        <3>1. \A k \in 1..m : C(k) # i + 1
            BY <1>4, <2>2, <2>5
        <3>2. f[i + 1] = f[i]
            BY <2>3, <2>5
        <3>3. ASSUME NEW k \in (J + 1)..m PROVE C(k) > i + 1
            <4>1. C(k) > i /\ k \in 1..m
                BY <2>1
            <4>2. C(k) \in Nat /\ C(k) # i + 1
                BY <1>2, <3>1, <4>1
            <4> QED
                BY <4>1, <4>2
        <3>4. ASSUME NEW k \in 1..J PROVE C(k) <= i + 1
            <4>1. C(k) <= i /\ k \in 1..m
                BY <2>1
            <4>2. C(k) \in Nat
                BY <1>2, <4>1
            <4> QED
                BY <4>1, <4>2
        <3>5. Found(i + 1, J)
            BY <2>1, <3>2, <3>3, <3>4
        <3> HIDE DEF Found
        <3> QED
            BY <2>2, <3>5
    <2> QED
        BY <2>4, <2>5
<1>7. l \in S
    <2>1. \A i \in 0..l : i \in S
        <3> HIDE DEF S
        <3> QED
            BY <1>5, <1>6, CountingUp
    <2>2. l \in 0..l
        OBVIOUS
    <2> HIDE DEF S
    <2> QED
        BY <2>1, <2>2
<1>8. PICK J \in 0..m : Found(l, J)
    BY <1>7
<1>9. J = m
    <2>1. ASSUME J # m PROVE FALSE
        <3>1. J + 1 \in (J + 1)..m /\ J + 1 \in 1..m
            BY <2>1
        <3>2. C(J + 1) > l /\ C(J + 1) \in 1..l
            BY <1>2, <1>8, <3>1
        <3> QED
            BY <3>2
    <2> QED
        BY <2>1
<1>10. f[l] \in Seq(Nat) /\ Len(f[l]) = m /\ \A k \in 1..m : f[l][k] = C(k)
    BY <1>8, <1>9
<1> QED
    BY <1>0, <1>1, <1>10 DEF C

(* Cut gives back the units of a stream.                                      *)
LEMMA CutIsUnits ==
    ASSUME NEW s, NEW us, NEW e, Holds(s, us, e)
    PROVE  AnnexB!Cut(s) = us
<1>0. PICK m \in Nat, l \in Nat : m = Len(us) /\ l = Len(s) /\ s \in Seq(Nat) /\ us \in [1..m -> Units]
    BY UnitsInOrder, LenProperties DEF Holds
<1> DEFINE codes == AnnexB!StartCodes(s)
           End(k) == IF k < Len(codes) THEN codes[k + 1] - 1 ELSE Len(s)
           v(k) == SubSeq(s, codes[k] + 3, End(k))
<1>1. codes \in Seq(Nat) /\ Len(codes) = m /\ \A k \in 1..m : codes[k] = Code(us, e, k)
    BY <1>0, CodesFound
<1>2. AnnexB!Cut(s) = [k \in 1..m |-> AnnexB!Trim(v(k))]
    <2>1. DOMAIN codes = 1..m
        BY <1>1, LenProperties
    <2>2. AnnexB!Cut(s) = [k \in DOMAIN codes |-> AnnexB!Trim(v(k))]
        BY Zenon DEF AnnexB!Cut
    <2> QED
        BY <2>1, <2>2, Zenon
<1> HIDE DEF codes
<1>3. \A j \in 1..Len(us) : e[j] = Code(us, e, j) + 2 + Len(us[j])
    <2>1. ASSUME NEW j \in 1..Len(us) PROVE e[j] = Code(us, e, j) + 2 + Len(us[j])
        BY CodeLies
    <2> QED
        BY <2>1
<1>4. ASSUME NEW k \in 1..m PROVE AnnexB!Trim(v(k)) = us[k]
    <2> DEFINE c == Code(us, e, k)
               d == Len(us[k])
    <2>1. /\ c \in 1..l /\ e[k] = c + 2 + d /\ e[k] <= l /\ d \in Nat \ {0} /\ us[k] \in Units
          /\ e[k] \in Nat
        BY <1>0, CodeLies, UnitsInOrder
    <2>2. \A t \in 1..d : s[c + 2 + t] = us[k][t]
        <3>1. c + 2 = e[k] - d
            BY <2>1
        <3>2. \A t \in 1..d : s[e[k] - d + t] = us[k][t]
            BY <1>0 DEF Holds
        <3> HIDE DEF c, d
        <3> QED
            BY <3>1, <3>2
    <2>3. End(k) \in {e[k], e[k] + 1} /\ End(k) <= l /\ (End(k) = e[k] + 1 => s[e[k] + 1] = 0)
        <3>1. CASE k < m
            <4>1. k + 1 \in 1..m /\ (k + 1) - 1 = k
                BY <3>1
            <4> DEFINE c1 == Code(us, e, k + 1)
            <4>2. c1 \in 1..l /\ c1 \in {e[k] + 1, e[k] + 2}
                BY <1>0, <4>1, CodeLies
            <4>3. End(k) = c1 - 1
                BY <1>1, <3>1, <4>1
            <4>4. \A i \in (e[k] + 1)..(e[k + 1] - Len(us[k + 1]) - 1) : s[i] = 0
                BY <1>0, <4>1 DEF Holds
            <4>5. e[k + 1] - Len(us[k + 1]) - 1 = c1 + 1
                <5>1. e[k + 1] = c1 + 2 + Len(us[k + 1]) /\ Len(us[k + 1]) \in Nat
                    <6>1. k + 1 \in 1..Len(us)
                        BY <1>0, <4>1
                    <6>2. e[k + 1] = Code(us, e, k + 1) + 2 + Len(us[k + 1])
                        BY <1>3, <6>1, Zenon
                    <6>3. Len(us[k + 1]) \in Nat
                        BY <6>1, UnitsInOrder
                    <6> QED
                        BY <6>2, <6>3
                <5> HIDE DEF c1
                <5> QED
                    BY <4>2, <5>1
            <4> HIDE DEF c1, End
            <4>6. e[k] + 1 \in (e[k] + 1)..(c1 + 1)
                BY <2>1, <4>2
            <4>7. s[e[k] + 1] = 0
                BY <4>4, <4>5, <4>6
            <4> QED
                BY <2>1, <4>2, <4>3, <4>7
        <3>2. CASE ~(k < m)
            <4>1. k = m
                BY <3>2
            <4>2. e[m] = l
                BY <1>0 DEF Holds
            <4>3. End(k) = l
                BY <1>0, <1>1, <3>2
            <4> QED
                BY <2>1, <4>1, <4>2, <4>3
        <3> QED
            BY <3>1, <3>2
    <2>4. codes[k] = c
        BY <1>1
    <2> DEFINE w == v(k)
               z == End(k)
    <2>5. w = SubSeq(s, c + 3, z)
        BY <2>4
    <2> HIDE DEF End, v, w, z
    <2>6. z \in Nat /\ z \in {e[k], e[k] + 1} /\ z <= l /\ (z = e[k] + 1 => s[e[k] + 1] = 0)
        BY <2>1, <2>3 DEF z
    <2> HIDE DEF c, d
    <2>7. /\ w \in Seq(Nat) /\ Len(w) = z - c - 2 /\ d <= z - c - 2
          /\ \A t \in 1..(z - c - 2) : w[t] = s[c + 2 + t]
        <3>1. c + 3 \in Int /\ z \in Int /\ \A t \in (c + 3)..z : s[t] \in Nat
            <4>1. \A t \in (c + 3)..z : t \in 1..Len(s)
                BY <1>0, <2>1, <2>6
            <4> QED
                BY <1>0, <2>1, <2>6, <4>1, ElementOfSeq
        <3>2. /\ w \in Seq(Nat) /\ Len(w) = IF c + 3 <= z THEN z - (c + 3) + 1 ELSE 0
              /\ \A t \in 1..(z - (c + 3) + 1) : w[t] = s[c + 3 + t - 1]
            BY <2>5, <3>1, SubSeqProperties
        <3>3. c + 3 <= z /\ z - (c + 3) + 1 = z - c - 2 /\ d <= z - c - 2
            BY <2>1, <2>6
        <3>4. \A t \in Int : c + 3 + t - 1 = c + 2 + t
            BY <2>1
        <3>5. Len(w) = z - c - 2
            BY <3>2, <3>3
        <3>6. ASSUME NEW t \in 1..(z - c - 2) PROVE w[t] = s[c + 2 + t]
            <4>1. w[t] = s[c + 3 + t - 1]
                BY <3>2, <3>3
            <4>2. c + 3 + t - 1 = c + 2 + t
                BY <3>4
            <4> QED
                BY <4>1, <4>2
        <3> QED
            BY <3>2, <3>3, <3>5, <3>6
    <2>8. \A t \in 1..d : w[t] = us[k][t]
        <3>1. \A t \in 1..d : t \in 1..(z - c - 2)
            BY <2>1, <2>6, <2>7
        <3> QED
            BY <2>2, <2>7, <3>1
    <2>9. \A t \in (d + 1)..Len(w) : w[t] = 0
        <3>1. ASSUME NEW t \in (d + 1)..(z - c - 2) PROVE w[t] = 0
            <4>1. t \in 1..(z - c - 2) /\ z = e[k] + 1 /\ c + 2 + t = e[k] + 1
                BY <2>1, <2>6
            <4> QED
                BY <2>6, <2>7, <4>1
        <3> QED
            BY <2>7, <3>1
    <2>10. AnnexB!Trim(w) = us[k]
        <3>1. us[k] \in Units /\ Len(us[k]) <= Len(w)
            BY <2>1, <2>7 DEF d
        <3>2. \A t \in 1..Len(us[k]) : w[t] = us[k][t]
            BY <2>8 DEF d
        <3>3. \A t \in (Len(us[k]) + 1)..Len(w) : w[t] = 0
            BY <2>9 DEF d
        <3> QED
            BY <2>7, <3>1, <3>2, <3>3, Trimmed
    <2> QED
        BY <2>10 DEF w
<1>5. us = [k \in 1..m |-> us[k]]
    BY <1>0
<1> QED
    BY <1>2, <1>4, <1>5, Zenon

(* No unit, and one.                                                          *)
LEMMA HoldsNone == \E e : Holds(<<>>, <<>>, e)
<1> DEFINE e == [k \in 0..0 |-> 0]
<1>1. /\ <<>> \in Seq(Nat) /\ <<>> \in Seq(Units) /\ Len(<<>>) = 0
    BY EmptySeq
<1>2. e \in [0..0 -> Nat] /\ e[0] = 0
    OBVIOUS
<1>3. Holds(<<>>, <<>>, e)
    BY <1>1, <1>2 DEF Holds
<1> QED
    BY <1>3

(* A unit behind a start code is a stream that holds it.                      *)
LEMMA HoldsOne ==
    ASSUME NEW u \in Units, NEW code, code \in {AnnexB!StartCode3, AnnexB!StartCode4},
           NEW s, s = code \o u
    PROVE  \E e : Holds(s, <<u>>, e)
<1>1. PICK z \in {2, 3} : /\ code \in Seq(Nat) /\ Len(code) = z + 1 /\ code[z + 1] = 1
                          /\ \A i \in 1..z : code[i] = 0
    <2>1. CASE code = AnnexB!StartCode3
        <3>1. code = <<0, 0, 1>> /\ 2 \in {2, 3}
            BY <2>1 DEF AnnexB!StartCode3
        <3>2. code \in Seq(Nat) /\ Len(code) = 2 + 1 /\ code[2 + 1] = 1 /\ code[1] = 0 /\ code[2] = 0
            BY <3>1
        <3>3. \A i \in 1..2 : i = 1 \/ i = 2
            OBVIOUS
        <3>4. \A i \in 1..2 : code[i] = 0
            BY <3>2, <3>3
        <3> QED
            BY <3>1, <3>2, <3>4
    <2>2. CASE code = AnnexB!StartCode4
        <3>1. code = <<0, 0, 0, 1>> /\ 3 \in {2, 3}
            BY <2>2 DEF AnnexB!StartCode4
        <3>2. /\ code \in Seq(Nat) /\ Len(code) = 3 + 1 /\ code[3 + 1] = 1
              /\ code[1] = 0 /\ code[2] = 0 /\ code[3] = 0
            BY <3>1
        <3>3. \A i \in 1..3 : i = 1 \/ i = 2 \/ i = 3
            OBVIOUS
        <3>4. \A i \in 1..3 : code[i] = 0
            BY <3>2, <3>3
        <3> QED
            BY <3>1, <3>2, <3>4
    <2> QED
        BY <2>1, <2>2
<1>2. PICK l \in Nat : l = Len(u) /\ u \in Seq(Nat)
    BY LenProperties DEF Units
<1>3. /\ s \in Seq(Nat) /\ Len(s) = z + 1 + l
      /\ \A t \in 1..(z + 1) : s[t] = code[t]
      /\ \A t \in 1..l : s[z + 1 + t] = u[t]
    BY <1>1, <1>2, Joined
<1> DEFINE e == [k \in 0..1 |-> IF k = 0 THEN 0 ELSE z + 1 + l]
           us == <<u>>
<1>4. us \in Seq(Units) /\ Len(us) = 1 /\ us[1] = u
    OBVIOUS
<1>5. e \in [0..1 -> Nat] /\ e[0] = 0 /\ e[1] = z + 1 + l
    BY <1>1
<1> HIDE DEF e, us
<1>6. ASSUME NEW k \in 1..1
      PROVE  /\ e[k] - Len(us[k]) - e[k - 1] \in {3, 4}
             /\ s[e[k] - Len(us[k])] = 1
             /\ \A i \in (e[k - 1] + 1)..(e[k] - Len(us[k]) - 1) : s[i] = 0
             /\ \A t \in 1..Len(us[k]) : s[e[k] - Len(us[k]) + t] = us[k][t]
    <2>1. k = 1 /\ k - 1 = 0
        OBVIOUS
    <2>2. us[k] = u /\ e[k] = z + 1 + l /\ e[k - 1] = 0
        BY <1>4, <1>5, <2>1
    <2>3. z + 1 + l - l = z + 1 /\ z + 1 - 0 \in {3, 4} /\ 0 + 1 = 1 /\ z + 1 - 1 = z /\ z \in Nat
        BY <1>1
    <2>4. e[k] - Len(us[k]) = z + 1
        BY <1>2, <2>2, <2>3
    <2>5. s[z + 1] = 1 /\ \A i \in 1..z : s[i] = 0
        <3>1. z + 1 \in 1..(z + 1) /\ \A i \in 1..z : i \in 1..(z + 1)
            BY <2>3
        <3> QED
            BY <1>1, <1>3, <3>1
    <2> QED
        BY <1>2, <1>3, <2>2, <2>3, <2>4, <2>5
<1>7. Holds(s, us, e)
    BY <1>3, <1>4, <1>5, <1>6 DEF Holds
<1> QED
    BY <1>7 DEF us

(* One stream behind another.                                                 *)
LEMMA HoldsBoth ==
    ASSUME NEW s, NEW us, NEW e, Holds(s, us, e), NEW s2, NEW us2, NEW e2, Holds(s2, us2, e2)
    PROVE  \E h : Holds(s \o s2, us \o us2, h)
<1>0. PICK m \in Nat, m2 \in Nat, l \in Nat, l2 \in Nat :
          m = Len(us) /\ m2 = Len(us2) /\ l = Len(s) /\ l2 = Len(s2)
    BY UnitsInOrder
<1> DEFINE z == s \o s2
           ws == us \o us2
           h == [k \in 0..(m + m2) |-> IF k <= m THEN e[k] ELSE l + e2[k - m]]
<1>1. /\ s \in Seq(Nat) /\ s2 \in Seq(Nat) /\ us \in Seq(Units) /\ us2 \in Seq(Units)
      /\ e \in [0..m -> Nat] /\ e[0] = 0 /\ e[m] = l
      /\ e2 \in [0..m2 -> Nat] /\ e2[0] = 0 /\ e2[m2] = l2
    BY <1>0 DEF Holds
<1>2. /\ z \in Seq(Nat) /\ Len(z) = l + l2
      /\ \A t \in 1..l : z[t] = s[t]
      /\ \A t \in 1..l2 : z[l + t] = s2[t]
    BY <1>0, <1>1, Joined
<1>3. /\ ws \in Seq(Units) /\ Len(ws) = m + m2
      /\ \A t \in 1..m : ws[t] = us[t]
      /\ \A t \in 1..m2 : ws[m + t] = us2[t]
    BY <1>0, <1>1, Joined
<1>4. h \in [0..(m + m2) -> Nat]
    <2>1. ASSUME NEW k \in 0..(m + m2), k <= m PROVE e[k] \in Nat
        <3>1. k \in 0..m
            BY <2>1
        <3> QED
            BY <1>1, <3>1
    <2>2. ASSUME NEW k \in 0..(m + m2), ~(k <= m) PROVE l + e2[k - m] \in Nat
        <3>1. k - m \in 0..m2
            BY <2>2
        <3> QED
            BY <1>1, <3>1
    <2> QED
        BY <2>1, <2>2
<1>5. \A k \in 0..m : h[k] = e[k]
    OBVIOUS
<1>6. \A k \in 0..m2 : h[m + k] = l + e2[k]
    <2>1. ASSUME NEW k \in 0..m2 PROVE h[m + k] = l + e2[k]
        <3>1. m + k \in 0..(m + m2) /\ (m + k) - m = k
            OBVIOUS
        <3>2. h[m + k] = IF m + k <= m THEN e[m + k] ELSE l + e2[k]
            BY <3>1
        <3>3. CASE k = 0
            BY <1>1, <3>2, <3>3
        <3>4. CASE k # 0
            <4>1. ~(m + k <= m)
                BY <3>4
            <4> QED
                BY <3>2, <4>1
        <3> QED
            BY <3>3, <3>4
    <2> QED
        BY <2>1
<1> HIDE DEF h, z, ws
<1>7. ASSUME NEW k \in 1..(m + m2)
      PROVE  /\ h[k] - Len(ws[k]) - h[k - 1] \in {3, 4}
             /\ z[h[k] - Len(ws[k])] = 1
             /\ \A i \in (h[k - 1] + 1)..(h[k] - Len(ws[k]) - 1) : z[i] = 0
             /\ \A t \in 1..Len(ws[k]) : z[h[k] - Len(ws[k]) + t] = ws[k][t]
    <2>1. CASE k <= m
        <3>1. k \in 1..m /\ k \in 0..m /\ k - 1 \in 0..m
            BY <2>1
        <3>2. ws[k] = us[k] /\ h[k] = e[k] /\ h[k - 1] = e[k - 1]
            BY <1>3, <1>5, <3>1
        <3>3. Len(us[k]) \in Nat \ {0} /\ e[k] \in Nat /\ e[k - 1] \in Nat /\ e[k] <= l
            <4>1. k \in 1..Len(us) /\ k \in 0..Len(us) /\ m \in 0..Len(us) /\ k <= m
                BY <1>0, <3>1
            <4> QED
                BY <1>1, <4>1, UnitsInOrder
        <3>4. /\ e[k] - Len(us[k]) - e[k - 1] \in {3, 4}
              /\ s[e[k] - Len(us[k])] = 1
              /\ \A i \in (e[k - 1] + 1)..(e[k] - Len(us[k]) - 1) : s[i] = 0
              /\ \A t \in 1..Len(us[k]) : s[e[k] - Len(us[k]) + t] = us[k][t]
            BY <1>0, <3>1 DEF Holds
        <3> DEFINE d == Len(us[k])
                   o == e[k] - d
        <3>5. PICK b \in Nat, f \in Nat : b = e[k - 1] /\ f = e[k] /\ f <= l
            BY <3>3
        <3>6. d \in Nat \ {0} /\ o = f - d /\ o - b \in {3, 4}
            BY <3>3, <3>4, <3>5
        <3> HIDE DEF d, o
        <3>7. o \in 1..l /\ \A i \in (b + 1)..(o - 1) : i \in 1..l
            <4>1. o \in Int /\ f \in Nat /\ b \in Nat /\ l \in Nat /\ f <= l
                BY <3>5, <3>6
            <4> QED
                BY <3>6, <4>1
        <3>8. \A t \in 1..d : o + t \in 1..l
            <4>1. f \in Nat /\ l \in Nat /\ f <= l
                BY <3>5
            <4> QED
                BY <3>6, <3>7, <4>1
        <3>9. /\ o - b \in {3, 4} /\ z[o] = 1
              /\ \A i \in (b + 1)..(o - 1) : z[i] = 0
              /\ \A t \in 1..d : z[o + t] = us[k][t]
            <4>1. z[o] = 1
                BY <1>2, <3>4, <3>7 DEF o, d
            <4>2. \A i \in (b + 1)..(o - 1) : z[i] = 0
                <5>1. \A i \in (b + 1)..(o - 1) : s[i] = 0
                    BY <3>4, <3>5 DEF o, d
                <5> QED
                    BY <1>2, <3>7, <5>1
            <4>3. \A t \in 1..d : z[o + t] = us[k][t]
                <5>1. \A t \in 1..d : s[o + t] = us[k][t]
                    BY <3>4 DEF o, d
                <5> QED
                    BY <1>2, <3>8, <5>1
            <4> QED
                BY <3>6, <4>1, <4>2, <4>3
        <3> QED
            BY <3>2, <3>5, <3>9 DEF o, d
    <2>2. CASE ~(k <= m)
        <3> DEFINE j == k - m
        <3>1. j \in 1..m2 /\ j \in 0..m2 /\ j - 1 \in 0..m2 /\ k = m + j /\ k - 1 = m + (j - 1)
            BY <2>2
        <3> HIDE DEF j
        <3>2. ws[k] = us2[j] /\ h[k] = l + e2[j] /\ h[k - 1] = l + e2[j - 1]
            BY <1>3, <1>6, <3>1
        <3>3. Len(us2[j]) \in Nat \ {0} /\ e2[j] \in Nat /\ e2[j - 1] \in Nat /\ e2[j] <= l2
            <4>1. j \in 1..Len(us2) /\ j \in 0..Len(us2) /\ m2 \in 0..Len(us2) /\ j <= m2
                BY <1>0, <3>1
            <4> QED
                BY <1>1, <4>1, UnitsInOrder
        <3>4. /\ e2[j] - Len(us2[j]) - e2[j - 1] \in {3, 4}
              /\ s2[e2[j] - Len(us2[j])] = 1
              /\ \A i \in (e2[j - 1] + 1)..(e2[j] - Len(us2[j]) - 1) : s2[i] = 0
              /\ \A t \in 1..Len(us2[j]) : s2[e2[j] - Len(us2[j]) + t] = us2[j][t]
            BY <1>0, <3>1 DEF Holds
        <3> DEFINE d == Len(us2[j])
                   o == e2[j] - d
        <3>5. PICK b \in Nat, f \in Nat : b = e2[j - 1] /\ f = e2[j] /\ f <= l2
            BY <3>3
        <3>6. d \in Nat \ {0} /\ o = f - d /\ o - b \in {3, 4}
            BY <3>3, <3>4, <3>5
        <3> HIDE DEF d, o
        <3>7. o \in 1..l2
            <4>1. o \in Int /\ f \in Nat /\ b \in Nat /\ l2 \in Nat /\ f <= l2
                BY <3>5, <3>6
            <4> QED
                BY <3>6, <4>1
        <3>8. \A t \in 1..d : o + t \in 1..l2
            <4>1. f \in Nat /\ l2 \in Nat /\ f <= l2
                BY <3>5
            <4> QED
                BY <3>6, <3>7, <4>1
        <3>9. z[l + o] = 1
            BY <1>2, <3>4, <3>7 DEF o, d
        <3>10. ASSUME NEW i \in ((l + b) + 1)..((l + o) - 1) PROVE z[i] = 0
            <4>1. i - l \in (b + 1)..(o - 1) /\ l + (i - l) = i
                BY <3>5, <3>7
            <4>2. i - l \in 1..l2
                BY <3>5, <3>7, <4>1
            <4>3. s2[i - l] = 0
                BY <3>4, <3>5, <4>1 DEF o, d
            <4> QED
                BY <1>2, <4>1, <4>2, <4>3
        <3>11. ASSUME NEW t \in 1..d PROVE z[(l + o) + t] = us2[j][t]
            <4>1. (l + o) + t = l + (o + t)
                BY <3>7
            <4>2. s2[o + t] = us2[j][t]
                BY <3>4 DEF o, d
            <4> QED
                BY <1>2, <3>8, <4>1, <4>2
        <3>12. /\ h[k] - Len(ws[k]) = l + o /\ h[k - 1] = l + b /\ (l + o) - (l + b) = o - b
            <4>1. h[k] = l + f /\ Len(ws[k]) = d /\ h[k - 1] = l + b
                BY <3>2, <3>5 DEF d
            <4>2. (l + f) - d = l + o /\ (l + o) - (l + b) = o - b
                BY <3>5, <3>6, <3>7
            <4> QED
                BY <4>1, <4>2
        <3>13. Len(ws[k]) = d /\ ws[k] = us2[j]
            BY <3>2 DEF d
        <3> QED
            BY <3>6, <3>9, <3>10, <3>11, <3>12, <3>13
    <2> QED
        BY <2>1, <2>2
<1>8. h[0] = 0 /\ h[m + m2] = l + l2
    <2>1. 0 \in 0..m /\ m2 \in 0..m2
        OBVIOUS
    <2> QED
        BY <1>1, <1>5, <1>6, <2>1
<1>9. Holds(z, ws, h)
    BY <1>2, <1>3, <1>4, <1>7, <1>8 DEF Holds
<1> QED
    BY <1>9 DEF z, ws

-----------------------------------------------------------------------------
(* Lengths and parameter sets                                                 *)

(* What is read at any place is a byte, behind the end too.                   *)
LEMMA AtIsByte == ASSUME NEW x \in Seq(Nat), NEW i PROVE AnnexB!At(x, i) \in Nat
<1>1. i \in 1..Len(x) => x[i] \in Nat
    BY ElementOfSeq
<1> QED
    BY <1>1 DEF AnnexB!At

\* The number in the first k of m bytes is f[k].
Numbers(x, i, m, f) ==
    /\ f \in [0..m -> Nat]
    /\ f[0] = 0 /\ AnnexB!BigEndian(x, i, m) = f[m]
    /\ \A k \in 1..m : f[k] = f[k - 1] * 256 + AnnexB!At(x, i + k - 1)

(* BigEndian takes byte after byte.                                           *)
LEMMA BytesRead ==
    ASSUME NEW x \in Seq(Nat), NEW i \in Nat, NEW m \in Nat
    PROVE  \E f : Numbers(x, i, m, f)
<1> DEFINE B(k) == AnnexB!At(x, i + k - 1)
           next == [k \in 1..m |-> [v \in Nat |-> v * 256 + B(k)]]
           Is(g) == g = [k \in 0..m |-> IF k = 0 THEN 0 ELSE g[k - 1] * 256 + AnnexB!At(x, i + k - 1)]
           number == CHOOSE g : Is(g)
<1>1. next \in [1..m -> [Nat -> Nat]]
    <2>1. ASSUME NEW k \in 1..m, NEW v \in Nat PROVE v * 256 + B(k) \in Nat
        <3>1. B(k) \in Nat
            BY AtIsByte
        <3> HIDE DEF B
        <3> QED
            BY <3>1
    <2> HIDE DEF B
    <2> QED
        BY <2>1
<1>2. PICK f : Follows(m, Nat, 0, next, f)
    <2> HIDE DEF next
    <2> QED
        BY <1>1, Recursion
<1>3. f \in [0..m -> Nat] /\ f[0] = 0
    BY <1>2 DEF Follows
<1>4. ASSUME NEW k \in 1..m PROVE f[k] = f[k - 1] * 256 + B(k)
    <2>1. f[k] = next[k][f[k - 1]]
        BY <1>2 DEF Follows
    <2>2. k - 1 \in 0..m
        OBVIOUS
    <2>3. f[k - 1] \in Nat
        BY <1>3, <2>2
    <2> HIDE DEF B
    <2> QED
        BY <2>1, <2>3
<1>5. Is(f)
    <2>1. ASSUME NEW k \in 0..m PROVE f[k] = IF k = 0 THEN 0 ELSE f[k - 1] * 256 + B(k)
        <3>1. CASE k = 0
            BY <1>3, <3>1
        <3>2. CASE k # 0
            <4>1. k \in 1..m
                BY <3>2
            <4> HIDE DEF B
            <4> QED
                BY <1>4, <3>2, <4>1
        <3> QED
            BY <3>1, <3>2
    <2>2. f = [k \in 0..m |-> IF k = 0 THEN 0 ELSE f[k - 1] * 256 + B(k)]
        <3> HIDE DEF B
        <3> QED
            BY <1>3, <2>1
    <2> QED
        BY <2>2, Zenon
<1>6. Is(number)
    <2> HIDE DEF Is
    <2> QED
        BY <1>5
<1>7. AnnexB!BigEndian(x, i, m) = number[m]
    BY Zenon DEF AnnexB!BigEndian
<1>8. number = [k \in 0..m |-> IF k = 0 THEN 0 ELSE number[k - 1] * 256 + B(k)]
    BY <1>6, Zenon
<1>9. \A k \in 0..m : number[k] = f[k]
    <2> DEFINE S == {k \in 0..m : number[k] = f[k]}
    <2> HIDE DEF number, B
    <2>1. 0 \in S
        <3>1. 0 \in 0..m
            OBVIOUS
        <3> QED
            BY <1>3, <1>8, <3>1
    <2>2. ASSUME NEW k \in 0..(m - 1), k \in S PROVE k + 1 \in S
        <3>1. k + 1 \in 0..m /\ k + 1 \in 1..m /\ (k + 1) - 1 = k /\ k + 1 # 0
            OBVIOUS
        <3>2. number[k + 1] = number[k] * 256 + B(k + 1)
            BY <1>8, <3>1
        <3>3. f[k + 1] = f[k] * 256 + B(k + 1)
            BY <1>4, <3>1
        <3> QED
            BY <2>2, <3>1, <3>2, <3>3
    <2>3. \A k \in 0..m : k \in S
        <3> HIDE DEF S
        <3> QED
            BY <2>1, <2>2, CountingUp
    <2> QED
        BY <2>3
<1>10. m \in 0..m
    OBVIOUS
<1> HIDE DEF number, B
<1>11. number[m] = f[m]
    BY <1>9, <1>10
<1> QED
    BY <1>3, <1>4, <1>7, <1>11 DEF B, Numbers

\* The bytes of b lie in x from i on.
LiesIn(b, x, i) ==
    /\ i \in Nat \ {0} /\ i + Len(b) <= Len(x) + 1
    /\ \A t \in 1..Len(b) : x[i + t - 1] = b[t]

(* A length is read as it was written.                                        *)
LEMMA TwoBytesRead ==
    ASSUME NEW l \in Nat, NEW x \in Seq(Nat), NEW i \in Nat \ {0}, i + 1 <= Len(x),
           x[i] = l \div 256, x[i + 1] = l % 256
    PROVE  AnnexB!BigEndian(x, i, 2) = l
<1>0. Len(x) \in Nat
    BY LenProperties
<1>1. PICK f : Numbers(x, i, 2, f)
    <2>1. i \in Nat /\ 2 \in Nat
        OBVIOUS
    <2> QED
        BY <2>1, BytesRead, Zenon
<1>2. f[1] = f[0] * 256 + AnnexB!At(x, i) /\ f[2] = f[1] * 256 + AnnexB!At(x, i + 1)
    <2>1. 1 \in 1..2 /\ 2 \in 1..2 /\ i + 1 - 1 = i /\ i + 2 - 1 = i + 1 /\ 1 - 1 = 0 /\ 2 - 1 = 1
        OBVIOUS
    <2> QED
        BY <1>1, <2>1 DEF Numbers
<1>3. AnnexB!At(x, i) = x[i] /\ AnnexB!At(x, i + 1) = x[i + 1]
    <2>1. i \in 1..Len(x) /\ i + 1 \in 1..Len(x)
        BY <1>0
    <2> QED
        BY <2>1 DEF AnnexB!At
<1>4. PICK a \in Nat, b \in Nat : a = l \div 256 /\ b = l % 256 /\ l = a * 256 + b
    OBVIOUS
<1>5. f[1] = a /\ f[2] = a * 256 + b
    BY <1>1, <1>2, <1>3, <1>4 DEF Numbers
<1> QED
    BY <1>1, <1>4, <1>5 DEF Numbers

(* The length that is read is the one that four bytes tell.                   *)
LEMMA FourBytesRead ==
    ASSUME NEW l \in Nat, NEW x \in Seq(Nat), NEW i, LiesIn(AnnexB!FourBytes(l), x, i)
    PROVE  AnnexB!BigEndian(x, i, 4) = l /\ Len(AnnexB!FourBytes(l)) = 4 /\ AnnexB!FourBytes(l) \in Seq(Nat)
<1>0. Len(x) \in Nat /\ i \in Nat \ {0}
    BY LenProperties DEF LiesIn
<1>1. PICK a \in Nat, b \in Nat : a = l \div 65536 /\ b = l % 65536 /\ l = a * 65536 + b
    OBVIOUS
<1>2. PICK a1 \in Nat, a2 \in Nat : a1 = a \div 256 /\ a2 = a % 256 /\ a = a1 * 256 + a2
    OBVIOUS
<1>3. PICK b1 \in Nat, b2 \in Nat : b1 = b \div 256 /\ b2 = b % 256 /\ b = b1 * 256 + b2
    OBVIOUS
<1> DEFINE q == AnnexB!FourBytes(l)
<1>4. q = <<a1, a2>> \o <<b1, b2>>
    BY <1>1, <1>2, <1>3 DEF AnnexB!FourBytes, AnnexB!TwoBytes
<1> HIDE DEF q
<1>5. q \in Seq(Nat) /\ Len(q) = 4 /\ q[1] = a1 /\ q[2] = a2 /\ q[3] = b1 /\ q[4] = b2
    BY <1>4
<1>6. i + 4 <= Len(x) + 1 /\ x[i] = a1 /\ x[i + 1] = a2 /\ x[i + 2] = b1 /\ x[i + 3] = b2
    <2>1. 1 \in 1..4 /\ 2 \in 1..4 /\ 3 \in 1..4 /\ 4 \in 1..4
        OBVIOUS
    <2>2. i + Len(q) <= Len(x) + 1 /\ \A t \in 1..4 : x[i + t - 1] = q[t]
        BY <1>5 DEF LiesIn, q
    <2>3. i + 1 - 1 = i /\ i + 2 - 1 = i + 1 /\ i + 3 - 1 = i + 2 /\ i + 4 - 1 = i + 3
        BY <1>0
    <2> QED
        BY <1>5, <2>1, <2>2, <2>3
<1>7. PICK f : Numbers(x, i, 4, f)
    <2>1. i \in Nat /\ 4 \in Nat
        BY <1>0
    <2> QED
        BY <2>1, BytesRead, Zenon
<1>8. /\ f[1] = f[0] * 256 + AnnexB!At(x, i) /\ f[2] = f[1] * 256 + AnnexB!At(x, i + 1)
      /\ f[3] = f[2] * 256 + AnnexB!At(x, i + 2) /\ f[4] = f[3] * 256 + AnnexB!At(x, i + 3)
    <2>1. /\ 1 \in 1..4 /\ 2 \in 1..4 /\ 3 \in 1..4 /\ 4 \in 1..4
          /\ i + 1 - 1 = i /\ i + 2 - 1 = i + 1 /\ i + 3 - 1 = i + 2 /\ i + 4 - 1 = i + 3
          /\ 1 - 1 = 0 /\ 2 - 1 = 1 /\ 3 - 1 = 2 /\ 4 - 1 = 3
        BY <1>0
    <2> QED
        BY <1>7, <2>1 DEF Numbers
<1>9. /\ AnnexB!At(x, i) = x[i] /\ AnnexB!At(x, i + 1) = x[i + 1]
      /\ AnnexB!At(x, i + 2) = x[i + 2] /\ AnnexB!At(x, i + 3) = x[i + 3]
    <2>1. i \in 1..Len(x) /\ i + 1 \in 1..Len(x) /\ i + 2 \in 1..Len(x) /\ i + 3 \in 1..Len(x)
        <3>1. i + 4 <= Len(x) + 1
            BY <1>6
        <3> QED
            BY <1>0, <3>1
    <2> QED
        BY <2>1 DEF AnnexB!At
<1>10. f[1] = a1 /\ f[2] = a /\ f[3] = a * 256 + b1 /\ f[4] = (a * 256 + b1) * 256 + b2
    <2>1. f[0] = 0
        BY <1>7 DEF Numbers
    <2>2. f[1] = a1 /\ f[2] = f[1] * 256 + a2 /\ f[3] = f[2] * 256 + b1 /\ f[4] = f[3] * 256 + b2
        BY <1>6, <1>8, <1>9, <2>1
    <2> QED
        BY <1>2, <2>2
<1>11. (a * 256 + b1) * 256 + b2 = l
    BY <1>1, <1>3
<1> QED
    BY <1>5, <1>7, <1>10, <1>11 DEF q, Numbers

(* Units one after the other, each behind a start code.                       *)
LEMMA SetsHold ==
    ASSUME NEW s \in Seq(Units), NEW p \in Seq(Seq(Nat)), Len(p) = Len(s),
           \A k \in 1..Len(s) : p[k] = AnnexB!StartCode4 \o s[k]
    PROVE  \E e : Holds(AnnexB!FlattenSeq(p), s, e)
<1>0. PICK m \in Nat : m = Len(s)
    BY LenProperties
<1>1. PICK g \in [0..m -> Seq(Nat)] : Joins(p, g) /\ AnnexB!FlattenSeq(p) = g[m]
    BY <1>0, Flattened
<1> DEFINE Part(k) == SubSeq(s, 1, k)
           S == {k \in 0..m : \E e : Holds(g[k], Part(k), e)}
<1>2. Part(0) = <<>>
    BY SubSeqEmpty
<1>3. \A k \in 1..m : Part(k) = Part(k - 1) \o <<s[k]>>
    <2>1. ASSUME NEW k \in 1..m PROVE Part(k) = Part(k - 1) \o <<s[k]>>
        <3>1. 1 \in 1..Len(s) /\ k \in 1..Len(s)
            BY <1>0
        <3> QED
            BY <3>1, SubSeqRecursiveSecond
    <2> QED
        BY <2>1
<1>4. Part(m) = s
    BY <1>0, SubSeqFull
<1> HIDE DEF Part
<1>5. 0 \in S
    <2>1. g[0] = <<>>
        BY <1>1 DEF Joins
    <2> QED
        BY <1>2, <2>1, HoldsNone
<1>6. ASSUME NEW k \in 0..(m - 1), k \in S PROVE k + 1 \in S
    <2>1. k + 1 \in 0..m /\ k + 1 \in 1..m /\ (k + 1) - 1 = k
        OBVIOUS
    <2>2. PICK e : Holds(g[k], Part(k), e)
        BY <1>6
    <2>3. s[k + 1] \in Units
        BY <1>0, <2>1, ElementOfSeq
    <2>4. PICK e2 : Holds(p[k + 1], <<s[k + 1]>>, e2)
        <3>1. p[k + 1] = AnnexB!StartCode4 \o s[k + 1]
            BY <1>0, <2>1
        <3> QED
            BY <2>3, <3>1, HoldsOne
    <2>5. \E h : Holds(g[k] \o p[k + 1], Part(k) \o <<s[k + 1]>>, h)
        BY <2>2, <2>4, HoldsBoth
    <2>6. g[k + 1] = g[k] \o p[k + 1]
        BY <1>0, <1>1, <2>1 DEF Joins
    <2>7. Part(k + 1) = Part(k) \o <<s[k + 1]>>
        BY <1>3, <2>1
    <2> QED
        BY <2>1, <2>5, <2>6, <2>7
<1>7. m \in S
    <2>1. \A k \in 0..m : k \in S
        <3> HIDE DEF S
        <3> QED
            BY <1>5, <1>6, CountingUp
    <2> QED
        BY <2>1
<1> QED
    BY <1>1, <1>4, <1>7

\* Parameter sets as extradata can have them.
ParameterSet == {u \in Units : Len(u) <= 65535}

\* A set as extradata has it.
Listed(s) == [k \in DOMAIN s |-> AnnexB!TwoBytes(Len(s[k])) \o s[k]]

(* The members of Listed are the sets, each behind its length.                *)
LEMMA ListedIs ==
    ASSUME NEW s \in Seq(ParameterSet)
    PROVE  /\ s \in Seq(Units) /\ Len(s) \in Nat
           /\ Listed(s) \in Seq(Seq(Nat)) /\ Len(Listed(s)) = Len(s)
           /\ \A k \in 1..Len(s) : /\ s[k] \in Seq(Nat) /\ Len(s[k]) \in Nat
                                   /\ Listed(s)[k] = AnnexB!TwoBytes(Len(s[k])) \o s[k]
<1>0. PICK m \in Nat : m = Len(s) /\ DOMAIN s = 1..m /\ s \in [1..m -> ParameterSet]
    BY LenProperties
<1>1. s \in Seq(Units)
    BY SeqMonotonic DEF ParameterSet
<1>2. ASSUME NEW k \in 1..m
      PROVE  /\ s[k] \in Seq(Nat) /\ Len(s[k]) \in Nat
             /\ Listed(s)[k] = AnnexB!TwoBytes(Len(s[k])) \o s[k]
             /\ Listed(s)[k] \in Seq(Nat)
    <2>1. s[k] \in Seq(Nat) /\ Len(s[k]) \in Nat
        BY <1>0, LenProperties DEF ParameterSet, Units
    <2>2. Listed(s)[k] = AnnexB!TwoBytes(Len(s[k])) \o s[k]
        BY <1>0 DEF Listed
    <2>3. AnnexB!TwoBytes(Len(s[k])) \in Seq(Nat)
        <3>1. ASSUME NEW l \in Nat PROVE AnnexB!TwoBytes(l) \in Seq(Nat)
            <4>1. l \div 256 \in Nat /\ l % 256 \in Nat
                OBVIOUS
            <4> QED
                BY <4>1 DEF AnnexB!TwoBytes
        <3> QED
            BY <2>1, <3>1
    <2> QED
        BY <2>1, <2>2, <2>3, ConcatProperties
<1>3. Listed(s) \in Seq(Seq(Nat)) /\ Len(Listed(s)) = m
    <2>1. Listed(s) = [k \in 1..m |-> Listed(s)[k]]
        BY <1>0 DEF Listed
    <2>2. \A k \in 1..m : Listed(s)[k] \in Seq(Nat)
        BY <1>2
    <2> HIDE DEF Listed
    <2>3. Listed(s) \in [1..m -> Seq(Nat)]
        BY <2>1, <2>2
    <2> QED
        BY <2>3
<1> QED
    BY <1>0, <1>1, <1>2, <1>3

(* What lies in x is a part of it.                                            *)
LEMMA StretchIs ==
    ASSUME NEW u \in Seq(Nat), NEW x \in Seq(Nat), NEW i, LiesIn(u, x, i),
           NEW z, z = i + Len(u) - 1
    PROVE  SubSeq(x, i, z) = u
<1>1. PICK l \in Nat, n0 \in Nat : l = Len(u) /\ n0 = Len(x)
    BY LenProperties
<1>2. i \in Nat \ {0} /\ i + l <= n0 + 1 /\ \A t \in 1..l : x[i + t - 1] = u[t]
    BY <1>1 DEF LiesIn
<1>3. z \in Int /\ i \in Int /\ z - i + 1 = l
    BY <1>1, <1>2
<1> DEFINE p == SubSeq(x, i, z)
<1>4. p \in Seq(Nat) /\ Len(p) = l /\ \A t \in 1..l : p[t] = x[i + t - 1]
    <2>1. \A t \in i..z : x[t] \in Nat
        <3>1. \A t \in i..z : t \in 1..Len(x)
            BY <1>1, <1>2, <1>3
        <3> QED
            BY <3>1, ElementOfSeq
    <2>2. /\ p \in Seq(Nat) /\ Len(p) = IF i <= z THEN z - i + 1 ELSE 0
          /\ \A t \in 1..(z - i + 1) : p[t] = x[i + t - 1]
        BY <1>3, <2>1, SubSeqProperties
    <2>3. Len(p) = l
        <3> HIDE DEF p
        <3> QED
            BY <1>1, <1>3, <2>2
    <2> HIDE DEF p
    <2> QED
        BY <1>3, <2>2, <2>3
<1> HIDE DEF p
<1>5. \A t \in 1..Len(p) : p[t] = u[t]
    BY <1>2, <1>4
<1>6. p = u
    BY <1>1, <1>4, <1>5, SeqEqual
<1> QED
    BY <1>6 DEF p

(* The two halves of what lies in x lie there.                                *)
LEMMA HalvesLie ==
    ASSUME NEW a \in Seq(Nat), NEW b \in Seq(Nat), NEW x \in Seq(Nat), NEW i, LiesIn(a \o b, x, i)
    PROVE  LiesIn(a, x, i) /\ LiesIn(b, x, i + Len(a))
<1> DEFINE c == a \o b
<1>1. PICK l \in Nat, l2 \in Nat, n0 \in Nat : l = Len(a) /\ l2 = Len(b) /\ n0 = Len(x)
    BY LenProperties
<1>2. (\A t \in 1..l : c[t] = a[t]) /\ \A t \in 1..l2 : c[l + t] = b[t]
    BY <1>1, Joined
<1>3. i \in Nat \ {0} /\ i + (l + l2) <= n0 + 1 /\ \A t \in 1..(l + l2) : x[i + t - 1] = c[t]
    <2>1. Len(c) = l + l2
        BY <1>1, Joined
    <2> HIDE DEF c
    <2> QED
        BY <1>1, <2>1 DEF LiesIn, c
<1> HIDE DEF c
<1>4. LiesIn(a, x, i)
    <2>1. \A t \in 1..l : x[i + t - 1] = a[t]
        <3>1. \A t \in 1..l : t \in 1..(l + l2)
            OBVIOUS
        <3> QED
            BY <1>2, <1>3, <3>1
    <2>2. i + l <= n0 + 1
        BY <1>3
    <2> QED
        BY <1>1, <1>3, <2>1, <2>2 DEF LiesIn
<1>5. LiesIn(b, x, i + l)
    <2>1. ASSUME NEW t \in 1..l2 PROVE x[(i + l) + t - 1] = b[t]
        <3>1. l + t \in 1..(l + l2) /\ (i + l) + t - 1 = i + (l + t) - 1
            BY <1>3
        <3> QED
            BY <1>2, <1>3, <3>1
    <2>2. i + l \in Nat \ {0} /\ (i + l) + l2 <= n0 + 1
        BY <1>3
    <2> QED
        BY <1>1, <2>1, <2>2 DEF LiesIn
<1> QED
    BY <1>1, <1>4, <1>5

(* And so does every piece of what was joined.                                *)
LEMMA PieceLies ==
    ASSUME NEW q \in Seq(Seq(Nat)), NEW f \in [0..Len(q) -> Seq(Nat)], Joins(q, f),
           NEW x \in Seq(Nat), NEW i, LiesIn(f[Len(q)], x, i), NEW k \in 1..Len(q)
    PROVE  LiesIn(q[k], x, i + Len(f[k - 1]))
<1>1. PICK m \in Nat, n0 \in Nat : m = Len(q) /\ n0 = Len(x)
    BY LenProperties
<1>2. /\ Len(q[k]) \in Nat /\ Len(f[k]) = Len(f[k - 1]) + Len(q[k])
      /\ Len(f[k]) \in Nat /\ Len(f[k - 1]) \in Nat /\ Len(f[m]) \in Nat /\ Len(f[k]) <= Len(f[m])
      /\ \A t \in 1..Len(q[k]) : f[m][Len(f[k - 1]) + t] = q[k][t]
    <2>1. k \in 0..m /\ m \in 0..m /\ k - 1 \in 0..m /\ k <= m
        BY <1>1
    <2>2. JoinedInOrder(Nat, q, f)
        BY Pieces
    <2>3. \A j \in 0..m : Len(f[j]) \in Nat
        BY <1>1, <2>2 DEF JoinedInOrder
    <2>4. \A j \in 1..m : Len(q[j]) \in Nat /\ Len(f[j]) = Len(f[j - 1]) + Len(q[j])
        BY <1>1, <2>2 DEF JoinedInOrder
    <2>5. \A j, z \in 0..m : j <= z => Len(f[j]) <= Len(f[z])
        BY <1>1, <2>2, Zenon DEF JoinedInOrder
    <2>6. k \in 1..m
        BY <1>1
    <2>7. \A t \in 1..Len(q[k]) : f[m][Len(f[k - 1]) + t] = q[k][t]
        BY <1>1, <2>2, Zenon DEF JoinedInOrder
    <2> QED
        BY <2>1, <2>3, <2>4, <2>5, <2>6, <2>7
<1>3. i \in Nat \ {0} /\ i + Len(f[m]) <= n0 + 1 /\ \A t \in 1..Len(f[m]) : x[i + t - 1] = f[m][t]
    BY <1>1 DEF LiesIn
<1>4. PICK a \in Nat, b \in Nat, z \in Nat :
          a = Len(f[k - 1]) /\ b = Len(q[k]) /\ z = Len(f[m]) /\ a + b <= z
    BY <1>2
<1>5. \A t \in 1..b : f[m][a + t] = q[k][t]
    BY <1>2, <1>4
<1>6. i + z <= n0 + 1 /\ \A t \in 1..z : x[i + t - 1] = f[m][t]
    BY <1>3, <1>4
<1>7. a + b <= z
    BY <1>4
<1>8. ASSUME NEW t \in 1..b PROVE x[(i + a) + t - 1] = q[k][t]
    <2>1. a + t \in 1..z /\ (i + a) + t - 1 = i + (a + t) - 1
        BY <1>3, <1>7
    <2> QED
        BY <1>5, <1>6, <2>1
<1>9. i + a \in Nat \ {0} /\ (i + a) + b <= n0 + 1
    BY <1>3, <1>6, <1>7
<1> QED
    BY <1>1, <1>4, <1>8, <1>9 DEF LiesIn

\* The pieces of q, one behind the other, end at the numbers a.
Ends(q, a) ==
    /\ a \in [0..Len(q) -> Nat] /\ a[0] = 0 /\ Len(q) \in Nat
    /\ \A k \in 1..Len(q) : Len(q[k]) \in Nat /\ a[k] = a[k - 1] + Len(q[k])
    /\ \A k \in 0..Len(q) : a[k] = Len(AnnexB!FlattenSeq(SubSeq(q, 1, k)))
    /\ a[Len(q)] = Len(AnnexB!FlattenSeq(q))

(* Where the pieces of what lies in x lie.                                    *)
LEMMA PiecesLie ==
    ASSUME NEW q \in Seq(Seq(Nat)), NEW x \in Seq(Nat), NEW i, LiesIn(AnnexB!FlattenSeq(q), x, i)
    PROVE  \E a : Ends(q, a) /\ \A k \in 1..Len(q) : LiesIn(q[k], x, i + a[k - 1])
<1>1. PICK f \in [0..Len(q) -> Seq(Nat)] : Joins(q, f) /\ AnnexB!FlattenSeq(q) = f[Len(q)]
    BY Flattened
<1>2. JoinedInOrder(Nat, q, f)
    BY <1>1, Pieces
<1> DEFINE a == [k \in 0..Len(q) |-> Len(f[k])]
<1>3. \A k \in 0..Len(q) : a[k] = Len(f[k])
    OBVIOUS
<1>4. a \in [0..Len(q) -> Nat] /\ Len(q) \in Nat
    BY <1>2 DEF JoinedInOrder
<1> HIDE DEF a
<1>5. \A k \in 1..Len(q) : k \in 0..Len(q) /\ k - 1 \in 0..Len(q)
    BY <1>4
<1>6. a[0] = 0
    <2>1. 0 \in 0..Len(q)
        BY <1>4
    <2> QED
        BY <1>1, <1>3, <2>1, EmptySeq DEF Joins
<1>7. ASSUME NEW k \in 1..Len(q)
      PROVE  /\ Len(q[k]) \in Nat /\ a[k] = a[k - 1] + Len(q[k])
             /\ LiesIn(q[k], x, i + a[k - 1])
    <2>1. Len(q[k]) \in Nat /\ Len(f[k]) = Len(f[k - 1]) + Len(q[k])
        BY <1>2, Zenon DEF JoinedInOrder
    <2>2. a[k] = Len(f[k]) /\ a[k - 1] = Len(f[k - 1])
        BY <1>3, <1>5
    <2>3. LiesIn(q[k], x, i + Len(f[k - 1]))
        BY <1>1, PieceLies
    <2> QED
        BY <2>1, <2>2, <2>3, Zenon
<1>8. ASSUME NEW k \in 0..Len(q) PROVE a[k] = Len(AnnexB!FlattenSeq(SubSeq(q, 1, k)))
    BY <1>1, <1>3, FlattenedPart
<1>9. a[Len(q)] = Len(AnnexB!FlattenSeq(q))
    <2>1. Len(q) \in 0..Len(q)
        BY <1>4
    <2> QED
        BY <1>1, <1>3, <2>1
<1>10. Ends(q, a)
    BY <1>4, <1>6, <1>7, <1>8, <1>9, Zenon DEF Ends
<1> QED
    BY <1>7, <1>10

\* At b in x is the set u, which with its length is w.
SetAt(u, w, x, b) ==
    /\ w \in Seq(Nat) /\ Len(w) = 2 + Len(u)
    /\ AnnexB!BigEndian(x, b, 2) = Len(u)
    /\ SubSeq(x, b + 2, b + 2 + Len(u) - 1) = u

(* A set behind its length.                                                   *)
LEMMA ListedRead ==
    ASSUME NEW u \in Seq(Nat), NEW x \in Seq(Nat), NEW b,
           NEW w, w = AnnexB!TwoBytes(Len(u)) \o u, LiesIn(w, x, b)
    PROVE  SetAt(u, w, x, b)
<1> DEFINE q == AnnexB!TwoBytes(Len(u))
<1>1. PICK l \in Nat, z \in Nat : l = Len(u) /\ z = Len(x)
    BY LenProperties
<1>2. PICK h \in Nat, o \in Nat : h = l \div 256 /\ o = l % 256
    OBVIOUS
<1>3. q = <<h, o>>
    BY <1>1, <1>2 DEF AnnexB!TwoBytes
<1>4. q \in Seq(Nat) /\ Len(q) = 2 /\ q[1] = h /\ q[2] = o
    <2> HIDE DEF q
    <2> QED
        BY <1>3
<1>5. w = q \o u
    OBVIOUS
<1> HIDE DEF q
<1>6. LiesIn(q, x, b) /\ LiesIn(u, x, b + 2)
    BY <1>4, <1>5, HalvesLie
<1>7. b \in Nat \ {0} /\ b + 1 <= z /\ x[b] = h /\ x[b + 1] = o
    <2>1. b \in Nat \ {0} /\ b + 2 <= z + 1 /\ \A t \in 1..2 : x[b + t - 1] = q[t]
        BY <1>1, <1>4, <1>6 DEF LiesIn
    <2>2. 1 \in 1..2 /\ 2 \in 1..2 /\ b + 1 - 1 = b /\ b + 2 - 1 = b + 1
        BY <2>1
    <2>3. b + 1 <= z
        BY <2>1
    <2> QED
        BY <1>4, <2>1, <2>2, <2>3
<1>8. AnnexB!BigEndian(x, b, 2) = l
    BY <1>1, <1>2, <1>7, TwoBytesRead
<1>9. SubSeq(x, b + 2, b + 2 + Len(u) - 1) = u
    BY <1>6, StretchIs
<1>10. w \in Seq(Nat) /\ Len(w) = 2 + Len(u)
    <2>1. w \in Seq(Nat) /\ Len(w) = Len(q) + Len(u)
        BY <1>4, <1>5, ConcatProperties
    <2> QED
        BY <1>4, <2>1
<1> QED
    BY <1>1, <1>8, <1>9, <1>10 DEF SetAt

(* The sets are read one after the other.                                     *)
LEMMA SetsInTurn ==
    ASSUME NEW m \in Nat, NEW x \in Seq(Nat), NEW b \in [0..m -> Nat], NEW c \in [1..m -> Nat],
           \A k \in 1..m : b[k] = b[k - 1] + (2 + c[k]),
           \A k \in 1..m : AnnexB!BigEndian(x, b[k - 1], 2) = c[k],
           b[m] <= Len(x) + 1
    PROVE  AnnexB!ParameterSets(x, b[0], m) =
               [ok |-> TRUE, next |-> b[m],
                out |-> AnnexB!FlattenSeq([k \in 1..m |->
                            AnnexB!StartCode4 \o SubSeq(x, b[k - 1] + 2, b[k] - 1)])]
<1> DEFINE Is(g) == g = [k \in 0..m |-> IF k = 0 THEN b[0]
                                      ELSE g[k - 1] + 2 + AnnexB!BigEndian(x, g[k - 1], 2)]
           next == CHOOSE g : Is(g)
           Cuts(g) == [k \in 1..m |-> AnnexB!StartCode4 \o SubSeq(x, g[k - 1] + 2, g[k] - 1)]
<1>0. PICK z \in Nat : z = Len(x)
    BY LenProperties
<1>1. ASSUME NEW k \in 1..m
      PROVE  /\ k - 1 \in 0..m /\ k \in 0..m /\ b[k - 1] \in Nat /\ b[k] \in Nat /\ c[k] \in Nat
             /\ b[k] = b[k - 1] + 2 + c[k]
    <2>1. k - 1 \in 0..m /\ k \in 0..m
        OBVIOUS
    <2>2. b[k - 1] \in Nat /\ b[k] \in Nat /\ c[k] \in Nat /\ b[k] = b[k - 1] + (2 + c[k])
        BY <2>1
    <2> QED
        BY <2>1, <2>2
<1>2. Is(b)
    <2>1. ASSUME NEW k \in 0..m
          PROVE  b[k] = IF k = 0 THEN b[0] ELSE b[k - 1] + 2 + AnnexB!BigEndian(x, b[k - 1], 2)
        <3>1. CASE k = 0
            BY <3>1
        <3>2. CASE k # 0
            <4>1. k \in 1..m
                BY <3>2
            <4>2. AnnexB!BigEndian(x, b[k - 1], 2) = c[k]
                BY <4>1
            <4> QED
                BY <1>1, <3>2, <4>1, <4>2
        <3> QED
            BY <3>1, <3>2
    <2>2. b = [k \in 0..m |-> b[k]]
        OBVIOUS
    <2> QED
        BY <2>1, <2>2
<1>3. Is(next)
    <2> HIDE DEF Is
    <2> QED
        BY <1>2
<1>4. AnnexB!ParameterSets(x, b[0], m) =
          IF m > 0 /\ next[m] > Len(x) + 1 THEN AnnexB!Failed
          ELSE [ok |-> TRUE, out |-> AnnexB!FlattenSeq(Cuts(next)), next |-> next[m]]
    BY Zenon DEF AnnexB!ParameterSets
<1>5. next = [k \in 0..m |-> IF k = 0 THEN b[0]
                             ELSE next[k - 1] + 2 + AnnexB!BigEndian(x, next[k - 1], 2)]
    <2> HIDE DEF next
    <2> QED
        BY <1>3, Zenon
<1> HIDE DEF next, Is, Cuts
<1>6. \A k \in 0..m : next[k] = b[k]
    <2> DEFINE S == {k \in 0..m : next[k] = b[k]}
    <2>1. 0 \in S
        <3>1. 0 \in 0..m
            OBVIOUS
        <3> QED
            BY <1>5, <3>1
    <2>2. ASSUME NEW k \in 0..(m - 1), k \in S PROVE k + 1 \in S
        <3>1. k + 1 \in 0..m /\ k + 1 \in 1..m /\ (k + 1) - 1 = k /\ k + 1 # 0
            OBVIOUS
        <3>2. next[k + 1] = next[k] + 2 + AnnexB!BigEndian(x, next[k], 2)
            BY <1>5, <3>1
        <3>3. AnnexB!BigEndian(x, b[k], 2) = c[k + 1]
            BY <3>1
        <3>4. b[k + 1] = b[k] + 2 + c[k + 1]
            BY <1>1, <3>1
        <3>5. next[k + 1] = b[k + 1]
            BY <2>2, <3>2, <3>3, <3>4
        <3> QED
            BY <3>1, <3>5
    <2>3. \A k \in 0..m : k \in S
        <3> HIDE DEF S
        <3> QED
            BY <2>1, <2>2, CountingUp
    <2> QED
        BY <2>3
<1>7. next = b
    <2>1. b = [k \in 0..m |-> b[k]]
        OBVIOUS
    <2>2. next = [k \in 0..m |-> next[k]]
        BY <1>5
    <2> QED
        BY <1>6, <2>1, <2>2
<1>8. ~(b[m] > Len(x) + 1)
    <2>1. m \in 0..m /\ b[m] \in Nat /\ b[m] <= z + 1
        BY <1>0
    <2> QED
        BY <1>0, <2>1
<1>9. AnnexB!ParameterSets(x, b[0], m) =
          [ok |-> TRUE, next |-> b[m], out |-> AnnexB!FlattenSeq(Cuts(b))]
    BY <1>4, <1>7, <1>8
<1> QED
    BY <1>9 DEF Cuts

(* The sets of an extradata are read as they were written.                    *)
LEMMA SetsRead ==
    ASSUME NEW s \in Seq(ParameterSet), NEW x \in Seq(Nat), NEW i,
           LiesIn(AnnexB!Sets(s), x, i)
    PROVE  \E stream : /\ AnnexB!ParameterSets(x, i, Len(s)) =
                              [ok |-> TRUE, next |-> i + Len(AnnexB!Sets(s)), out |-> stream]
                       /\ \E e : Holds(stream, s, e)
<1>0. PICK m \in Nat : m = Len(s) /\ i \in Nat \ {0}
    BY LenProperties DEF LiesIn
<1> DEFINE q == Listed(s)
<1>1. /\ s \in Seq(Units) /\ q \in Seq(Seq(Nat)) /\ Len(q) = m
      /\ \A k \in 1..m : /\ s[k] \in Seq(Nat) /\ Len(s[k]) \in Nat
                         /\ q[k] = AnnexB!TwoBytes(Len(s[k])) \o s[k]
    BY <1>0, ListedIs
<1>2. AnnexB!Sets(s) = AnnexB!FlattenSeq(q)
    BY DEF AnnexB!Sets, Listed
<1> HIDE DEF q
<1>3. PICK a : Ends(q, a) /\ \A k \in 1..m : LiesIn(q[k], x, i + a[k - 1])
    <2>1. q \in Seq(Seq(Nat)) /\ LiesIn(AnnexB!FlattenSeq(q), x, i)
        BY <1>1, <1>2
    <2>2. \E a : Ends(q, a) /\ \A k \in 1..Len(q) : LiesIn(q[k], x, i + a[k - 1])
        BY <2>1, PiecesLie
    <2> QED
        BY <1>1, <2>2
<1> DEFINE b == [k \in 0..m |-> i + a[k]]
           c == [k \in 1..m |-> Len(s[k])]
<1>4. a \in [0..m -> Nat] /\ a[0] = 0
    BY <1>1, <1>3 DEF Ends
<1>5. b \in [0..m -> Nat] /\ \A k \in 0..m : b[k] = i + a[k]
    BY <1>0, <1>4
<1>6. c \in [1..m -> Nat] /\ \A k \in 1..m : c[k] = Len(s[k])
    BY <1>1
<1> HIDE DEF b, c
<1>7. ASSUME NEW k \in 1..m
      PROVE  /\ Len(q[k]) = 2 + c[k] /\ AnnexB!BigEndian(x, b[k - 1], 2) = c[k]
             /\ SubSeq(x, b[k - 1] + 2, b[k - 1] + 2 + c[k] - 1) = s[k]
    <2>1. s[k] \in Seq(Nat) /\ q[k] = AnnexB!TwoBytes(Len(s[k])) \o s[k]
        BY <1>1
    <2>2. k - 1 \in 0..m
        OBVIOUS
    <2>3. LiesIn(q[k], x, b[k - 1])
        BY <1>3, <1>5, <2>2
    <2>4. /\ Len(q[k]) = 2 + Len(s[k]) /\ AnnexB!BigEndian(x, b[k - 1], 2) = Len(s[k])
          /\ SubSeq(x, b[k - 1] + 2, b[k - 1] + 2 + Len(s[k]) - 1) = s[k]
        <3>1. SetAt(s[k], q[k], x, b[k - 1])
            BY <2>1, <2>3, ListedRead
        <3> QED
            BY <3>1 DEF SetAt
    <2> QED
        BY <1>6, <2>4
<1>8. ASSUME NEW k \in 1..m
      PROVE  /\ b[k] = b[k - 1] + (2 + c[k])
             /\ b[k - 1] + 2 + c[k] - 1 = b[k] - 1
    <2>1. k - 1 \in 0..m /\ k \in 0..m
        OBVIOUS
    <2>2. a[k] = a[k - 1] + Len(q[k])
        BY <1>1, <1>3 DEF Ends
    <2>3. a[k] = a[k - 1] + (2 + c[k])
        BY <1>7, <2>2, Zenon
    <2>4. /\ b[k] = i + a[k] /\ b[k - 1] = i + a[k - 1]
          /\ a[k] \in Nat /\ a[k - 1] \in Nat /\ c[k] \in Nat
        BY <1>4, <1>5, <1>6, <2>1
    <2>5. PICK u \in Nat, v \in Nat, l \in Nat :
              u = a[k] /\ v = a[k - 1] /\ l = c[k] /\ u = v + (2 + l)
        BY <2>3, <2>4, Zenon
    <2>6. b[k] = i + u /\ b[k - 1] = i + v
        BY <2>4, <2>5, Zenon
    <2>7. i + u = i + v + (2 + l) /\ i + v + 2 + l - 1 = i + u - 1
        <3>1. u = v + (2 + l)
            BY <2>5
        <3> QED
            BY <1>0, <3>1
    <2> QED
        BY <1>0, <1>5, <1>6, <2>1, <2>5, <2>6, <2>7
<1>9. b[m] = i + Len(AnnexB!Sets(s)) /\ b[m] <= Len(x) + 1
    <2>1. a[m] = Len(AnnexB!Sets(s)) /\ m \in 0..m
        BY <1>1, <1>2, <1>3 DEF Ends
    <2>2. i + Len(AnnexB!Sets(s)) <= Len(x) + 1
        BY DEF LiesIn
    <2> QED
        BY <1>5, <2>1, <2>2
<1>10. b[0] = i
    <2>1. 0 \in 0..m
        OBVIOUS
    <2> QED
        BY <1>0, <1>4, <1>5, <2>1
<1> DEFINE p == [k \in 1..m |-> AnnexB!StartCode4 \o SubSeq(x, b[k - 1] + 2, b[k] - 1)]
<1>11. AnnexB!ParameterSets(x, i, m) =
           [ok |-> TRUE, next |-> b[m], out |-> AnnexB!FlattenSeq(p)]
    <2>1. \A k \in 1..m : b[k] = b[k - 1] + (2 + c[k])
        BY <1>8
    <2>2. \A k \in 1..m : AnnexB!BigEndian(x, b[k - 1], 2) = c[k]
        BY <1>7
    <2>3. AnnexB!ParameterSets(x, b[0], m) =
               [ok |-> TRUE, next |-> b[m],
                out |-> AnnexB!FlattenSeq([k \in 1..m |->
                            AnnexB!StartCode4 \o SubSeq(x, b[k - 1] + 2, b[k] - 1)])]
        <3> HIDE DEF p
        <3> QED
            BY <1>5, <1>6, <1>9, <2>1, <2>2, SetsInTurn, Zenon
    <2> QED
        BY <1>10, <2>3, Zenon
<1>12. ASSUME NEW k \in 1..m PROVE p[k] = AnnexB!StartCode4 \o s[k]
    <2>1. SubSeq(x, b[k - 1] + 2, b[k] - 1) = s[k]
        BY <1>7, <1>8, Zenon
    <2> QED
        BY <2>1, Zenon
<1>13. p \in Seq(Seq(Nat)) /\ Len(p) = m
    <2>1. p = [k \in 1..m |-> p[k]]
        OBVIOUS
    <2> HIDE DEF p
    <2>2. ASSUME NEW k \in 1..m PROVE p[k] \in Seq(Nat)
        <3>1. AnnexB!StartCode4 \in Seq(Nat)
            BY DEF AnnexB!StartCode4
        <3>2. s[k] \in Seq(Nat)
            BY <1>1
        <3> QED
            BY <1>12, <3>1, <3>2, ConcatProperties
    <2>3. p \in [1..m -> Seq(Nat)]
        BY <2>1, <2>2
    <2> QED
        BY <2>3
<1> HIDE DEF p
<1>14. \E e : Holds(AnnexB!FlattenSeq(p), s, e)
    BY <1>0, <1>1, <1>12, <1>13, SetsHold
<1> QED
    BY <1>0, <1>9, <1>11, <1>14

(* Joined sequences of bytes are bytes.                                       *)
LEMMA FlattenedType ==
    ASSUME NEW T, NEW s \in Seq(Seq(T)) PROVE AnnexB!FlattenSeq(s) \in Seq(T)
<1>1. PICK f \in [0..Len(s) -> Seq(T)] : AnnexB!FlattenSeq(s) = f[Len(s)]
    BY Flattened
<1>2. Len(s) \in 0..Len(s)
    BY LenProperties
<1> QED
    BY <1>1, <1>2

\* Lists of parameter sets that extradata has room for.
SpsLists == {s \in Seq(ParameterSet) : Len(s) <= 31}
PpsLists == {s \in Seq(ParameterSet) : Len(s) <= 255}

(* The sets of both kinds come out of the extradata they were put into.       *)
LEMMA ExtradataRead ==
    ASSUME NEW sps \in SpsLists, NEW pps \in PpsLists
    PROVE  \E stream : /\ AnnexB!h264_extradata_to_annexb(AnnexB!Extradata(sps, pps)) =
                              [ok |-> TRUE, out |-> stream]
                       /\ \E e : Holds(stream, sps \o pps, e)
<1>0. sps \in Seq(ParameterSet) /\ pps \in Seq(ParameterSet)
    BY DEF SpsLists, PpsLists
<1>1. PICK m \in Nat, m2 \in Nat : m = Len(sps) /\ m2 = Len(pps) /\ m <= 31
    <2>1. Len(sps) \in Nat /\ Len(pps) \in Nat
        BY <1>0, LenProperties
    <2> QED
        BY <2>1 DEF SpsLists
<1> DEFINE A == <<1, 66, 0, 30, 255, 224 + m>>
           B == AnnexB!Sets(sps)
           C == <<m2>>
           D == AnnexB!Sets(pps)
           x == AnnexB!Extradata(sps, pps)
<1>2. A \in Seq(Nat) /\ Len(A) = 6 /\ A[6] = 224 + m /\ C \in Seq(Nat) /\ Len(C) = 1 /\ C[1] = m2
    OBVIOUS
<1>3. B \in Seq(Nat) /\ D \in Seq(Nat)
    <2>1. ASSUME NEW s \in Seq(ParameterSet) PROVE AnnexB!Sets(s) \in Seq(Nat)
        <3>1. Listed(s) \in Seq(Seq(Nat)) /\ AnnexB!Sets(s) = AnnexB!FlattenSeq(Listed(s))
            BY ListedIs DEF AnnexB!Sets, Listed
        <3> QED
            BY <3>1, FlattenedType
    <2> QED
        BY <1>0, <2>1
<1>4. x = ((A \o B) \o C) \o D
    BY <1>1 DEF AnnexB!Extradata
<1> HIDE DEF A, B, C, D, x
<1>5. PICK l \in Nat : l = Len(B)
    BY <1>3, LenProperties
<1>6. A \o B \in Seq(Nat) /\ Len(A \o B) = 6 + l
    <2>1. A \o B \in Seq(Nat) /\ Len(A \o B) = Len(A) + Len(B)
        BY <1>2, <1>3, ConcatProperties
    <2> QED
        BY <1>2, <1>5, <2>1
<1>7. (A \o B) \o C \in Seq(Nat) /\ Len((A \o B) \o C) = (6 + l) + 1
    <2>1. (A \o B) \o C \in Seq(Nat) /\ Len((A \o B) \o C) = Len(A \o B) + Len(C)
        BY <1>2, <1>6, ConcatProperties
    <2> QED
        BY <1>2, <1>6, <2>1
<1>8. x \in Seq(Nat) /\ LiesIn(x, x, 1)
    <2>1. x \in Seq(Nat)
        BY <1>3, <1>4, <1>7, ConcatProperties
    <2>2. Len(x) \in Nat
        BY <2>1, LenProperties
    <2>3. \A t \in 1..Len(x) : x[1 + t - 1] = x[t]
        <3>1. \A t \in 1..Len(x) : 1 + t - 1 = t
            BY <2>2
        <3> QED
            BY <3>1
    <2> QED
        BY <2>1, <2>2, <2>3 DEF LiesIn
<1>9. LiesIn((A \o B) \o C, x, 1) /\ LiesIn(D, x, 1 + ((6 + l) + 1))
    <2>1. LiesIn(((A \o B) \o C) \o D, x, 1)
        BY <1>4, <1>8
    <2> QED
        BY <1>3, <1>7, <1>8, <2>1, HalvesLie
<1>10. LiesIn(A \o B, x, 1) /\ LiesIn(C, x, 1 + (6 + l))
    BY <1>2, <1>6, <1>8, <1>9, HalvesLie
<1>11. LiesIn(A, x, 1) /\ LiesIn(B, x, 1 + 6)
    BY <1>2, <1>3, <1>8, <1>10, HalvesLie
<1>12. PICK n0 \in Nat : n0 = Len(x)
    BY <1>8, LenProperties
<1>13. AnnexB!At(x, 6) % 32 = m
    <2>1. 1 + 6 <= n0 + 1 /\ \A t \in 1..6 : x[1 + t - 1] = A[t]
        BY <1>2, <1>11, <1>12 DEF LiesIn
    <2>2. 6 \in 1..6 /\ 6 \in 1..n0 /\ 1 + 6 - 1 = 6
        BY <2>1
    <2>3. AnnexB!At(x, 6) = 224 + m
        BY <1>2, <1>12, <2>1, <2>2 DEF AnnexB!At
    <2>4. (224 + m) % 32 = m
        BY <1>1
    <2> QED
        BY <2>3, <2>4
<1>14. AnnexB!At(x, 7 + l) = m2
    <2>1. 1 + (6 + l) = 7 + l
        OBVIOUS
    <2>2. 7 + l \in Nat /\ (7 + l) + 1 <= n0 + 1 /\ \A t \in 1..1 : x[(7 + l) + t - 1] = C[t]
        BY <1>2, <1>10, <1>12, <2>1 DEF LiesIn
    <2>3. 1 \in 1..1 /\ (7 + l) + 1 - 1 = 7 + l /\ 7 + l \in 1..n0
        BY <2>2
    <2>4. x[7 + l] = m2
        BY <1>2, <2>2, <2>3
    <2> QED
        BY <1>12, <2>3, <2>4 DEF AnnexB!At
<1>15. PICK s1 : /\ AnnexB!ParameterSets(x, 7, m) = [ok |-> TRUE, next |-> 7 + l, out |-> s1]
                 /\ \E e : Holds(s1, sps, e)
    <2>1. LiesIn(AnnexB!Sets(sps), x, 7)
        BY <1>11 DEF B
    <2>2. 7 + Len(AnnexB!Sets(sps)) = 7 + l
        BY <1>5 DEF B
    <2>3. \E s1 : /\ AnnexB!ParameterSets(x, 7, Len(sps)) =
                         [ok |-> TRUE, next |-> 7 + Len(AnnexB!Sets(sps)), out |-> s1]
                  /\ \E e : Holds(s1, sps, e)
        BY <1>0, <1>8, <2>1, SetsRead
    <2> QED
        BY <1>1, <2>2, <2>3
<1>16. PICK s2, z : /\ AnnexB!ParameterSets(x, (7 + l) + 1, m2) =
                           [ok |-> TRUE, next |-> z, out |-> s2]
                    /\ \E e : Holds(s2, pps, e)
    <2>1. LiesIn(AnnexB!Sets(pps), x, (7 + l) + 1)
        <3>1. 1 + ((6 + l) + 1) = (7 + l) + 1
            OBVIOUS
        <3> QED
            BY <1>9, <3>1 DEF D
    <2>2. \E s2 : /\ AnnexB!ParameterSets(x, (7 + l) + 1, Len(pps)) =
                         [ok |-> TRUE, next |-> (7 + l) + 1 + Len(AnnexB!Sets(pps)), out |-> s2]
                  /\ \E e : Holds(s2, pps, e)
        BY <1>0, <1>8, <2>1, SetsRead
    <2> QED
        BY <1>1, <2>2
<1>17. AnnexB!h264_extradata_to_annexb(x) = [ok |-> TRUE, out |-> s1 \o s2]
    <2> DEFINE p1 == AnnexB!ParameterSets(x, 7, AnnexB!At(x, 6) % 32)
               p2 == AnnexB!ParameterSets(x, p1.next + 1, AnnexB!At(x, p1.next))
    <2>1. AnnexB!h264_extradata_to_annexb(x) =
              IF ~p1.ok THEN AnnexB!Failed
              ELSE IF ~p2.ok THEN AnnexB!Failed ELSE [ok |-> TRUE, out |-> p1.out \o p2.out]
        BY Zenon DEF AnnexB!h264_extradata_to_annexb
    <2>2. p1.ok = TRUE /\ p1.next = 7 + l /\ p1.out = s1
        <3>1. p1 = AnnexB!ParameterSets(x, 7, m)
            BY <1>13, Zenon
        <3> HIDE DEF p1
        <3> QED
            BY <1>15, <3>1
    <2>3. p2.ok = TRUE /\ p2.out = s2
        <3> HIDE DEF p1
        <3>1. p2 = AnnexB!ParameterSets(x, (7 + l) + 1, m2)
            BY <1>14, <2>2, Zenon
        <3> HIDE DEF p2
        <3> QED
            BY <1>16, <3>1
    <2> HIDE DEF p1, p2
    <2> QED
        BY <2>1, <2>2, <2>3
<1>18. \E e : Holds(s1 \o s2, sps \o pps, e)
    <2>1. PICK e1, e2 : Holds(s1, sps, e1) /\ Holds(s2, pps, e2)
        BY <1>15, <1>16
    <2> QED
        BY <2>1, HoldsBoth
<1> QED
    BY <1>17, <1>18 DEF x

-----------------------------------------------------------------------------
(* The loop over the units of a packet                                        *)

\* T is what the turns of the loop leave.
Turns(x, extra, T) ==
    /\ T[0] = [ret |-> "next", buf |-> 1, out |-> <<>>]
    /\ \A k \in 1..(Len(x) + 1) :
           T[k] = IF T[k - 1].ret = "next" THEN AnnexB!NextUnit(x, extra, T[k - 1]) ELSE T[k - 1]
    /\ AnnexB!h264_mp4toannexb(x, extra) =
           IF T[Len(x) + 1].ret = "ok" THEN T[Len(x) + 1].out
           ELSE IF T[Len(x) + 1].ret = "undefined" THEN AnnexB!Undefined ELSE <<>>

(* The turns of h264_mp4toannexb exist for every packet.                      *)
LEMMA LoopTurns == ASSUME NEW x \in Seq(Nat), NEW extra PROVE \E T : Turns(x, extra, T)
<1>0. PICK m \in Nat : m = Len(x) + 1
    BY LenProperties
<1> DEFINE Step(t) == IF t.ret = "next" THEN AnnexB!NextUnit(x, extra, t) ELSE t
           Base == [ret |-> "next", buf |-> 1, out |-> <<>>]
           Is(l, g) == g = [k \in 0..l |-> IF k = 0 THEN Base ELSE Step(g[k - 1])]
           Is2(g) == g = [k \in 0..(Len(x) + 1) |->
                              IF k = 0 THEN [ret |-> "next", buf |-> 1, out |-> <<>>]
                              ELSE LET t == g[k - 1]
                                   IN  IF t.ret = "next" THEN AnnexB!NextUnit(x, extra, t) ELSE t]
           turns == CHOOSE g : Is2(g)
           S == {l \in 0..m : \E g : Is(l, g)}
<1>1. \A g : Is2(g) <=> Is(m, g)
    BY <1>0, Zenon
<1>2. AnnexB!h264_mp4toannexb(x, extra) =
          IF turns[Len(x) + 1].ret = "ok" THEN turns[Len(x) + 1].out
          ELSE IF turns[Len(x) + 1].ret = "undefined" THEN AnnexB!Undefined ELSE <<>>
    BY Zenon DEF AnnexB!h264_mp4toannexb
<1> HIDE DEF Step, Base, Is2, turns
<1>3. 0 \in S
    <2> DEFINE g == [k \in 0..0 |-> Base]
    <2>1. \A k \in 0..0 : g[k] = IF k = 0 THEN Base ELSE Step(g[k - 1])
        OBVIOUS
    <2>2. g = [k \in 0..0 |-> g[k]]
        OBVIOUS
    <2> HIDE DEF g
    <2>3. g = [k \in 0..0 |-> IF k = 0 THEN Base ELSE Step(g[k - 1])]
        BY <2>1, <2>2
    <2> QED
        BY <2>3
<1>4. ASSUME NEW l \in 0..(m - 1), l \in S PROVE l + 1 \in S
    <2>1. PICK f : f = [k \in 0..l |-> IF k = 0 THEN Base ELSE Step(f[k - 1])]
        BY <1>4
    <2> DEFINE g == [k \in 0..(l + 1) |-> IF k = l + 1 THEN Step(f[l]) ELSE f[k]]
    <2>2. ASSUME NEW k \in 0..(l + 1) PROVE g[k] = IF k = 0 THEN Base ELSE Step(g[k - 1])
        <3>1. CASE k = l + 1
            <4>1. k # 0 /\ k - 1 = l /\ k - 1 \in 0..(l + 1) /\ k - 1 # l + 1
                BY <3>1
            <4>2. g[k] = Step(f[l]) /\ g[k - 1] = f[l]
                BY <3>1, <4>1
            <4> HIDE DEF g
            <4> QED
                BY <4>1, <4>2
        <3>2. CASE k # l + 1
            <4>1. k \in 0..l
                BY <3>2
            <4>2. g[k] = f[k]
                BY <3>2
            <4>3. f[k] = IF k = 0 THEN Base ELSE Step(f[k - 1])
                BY <2>1, <4>1
            <4>4. k # 0 => g[k - 1] = f[k - 1]
                <5>1. k # 0 => k - 1 \in 0..(l + 1) /\ k - 1 # l + 1
                    BY <4>1
                <5> QED
                    BY <5>1
            <4> HIDE DEF g
            <4> QED
                BY <4>2, <4>3, <4>4
        <3> QED
            BY <3>1, <3>2
    <2>3. g = [k \in 0..(l + 1) |-> g[k]]
        OBVIOUS
    <2> HIDE DEF g
    <2>4. g = [k \in 0..(l + 1) |-> IF k = 0 THEN Base ELSE Step(g[k - 1])]
        BY <2>2, <2>3
    <2>5. l + 1 \in 0..m
        OBVIOUS
    <2> QED
        BY <2>4, <2>5
<1>5. m \in S
    <2>1. \A l \in 0..m : l \in S
        <3> HIDE DEF S
        <3> QED
            BY <1>3, <1>4, CountingUp
    <2> HIDE DEF S
    <2> QED
        BY <2>1
<1>6. Is(m, turns)
    <2>1. \E g : Is2(g)
        <3>1. \E g : Is(m, g)
            BY <1>5
        <3> HIDE DEF Is
        <3> QED
            BY <1>1, <3>1
    <2>2. Is2(turns)
        BY <2>1, Zenon DEF turns
    <2> HIDE DEF Is
    <2> QED
        BY <1>1, <2>2
<1>7. turns[0] = Base /\ \A k \in 1..m : turns[k] = Step(turns[k - 1])
    <2>1. turns = [k \in 0..m |-> IF k = 0 THEN Base ELSE Step(turns[k - 1])]
        BY <1>6
    <2>2. 0 \in 0..m /\ \A k \in 1..m : k \in 0..m /\ k # 0
        OBVIOUS
    <2> QED
        BY <2>1, <2>2
<1>8. Turns(x, extra, turns)
    BY <1>0, <1>2, <1>7, Zenon DEF Turns, Base, Step
<1> QED
    BY <1>8

(* After the last turn nothing changes.                                       *)
LEMMA LoopEnds ==
    ASSUME NEW x \in Seq(Nat), NEW extra, NEW T, Turns(x, extra, T),
           NEW k \in 0..(Len(x) + 1), T[k].ret # "next"
    PROVE  T[Len(x) + 1] = T[k]
<1>0. PICK m \in Nat : m = Len(x) + 1
    BY LenProperties
<1> DEFINE S == {j \in 0..m : j >= k => T[j] = T[k]}
<1>1. 0 \in S
    <2>1. 0 >= k => k = 0
        BY <1>0
    <2> QED
        BY <2>1
<1>2. ASSUME NEW j \in 0..(m - 1), j \in S PROVE j + 1 \in S
    <2>1. j + 1 \in 0..m /\ j + 1 \in 1..m /\ (j + 1) - 1 = j
        OBVIOUS
    <2>2. j + 1 >= k => j + 1 = k \/ j >= k
        BY <1>0
    <2>3. j >= k => T[j + 1] = T[k]
        <3>1. T[j + 1] = IF T[j].ret = "next" THEN AnnexB!NextUnit(x, extra, T[j]) ELSE T[j]
            BY <1>0, <2>1 DEF Turns
        <3> QED
            BY <1>2, <3>1
    <2> QED
        BY <2>1, <2>2, <2>3
<1>3. m \in S
    <2>1. \A j \in 0..m : j \in S
        <3> HIDE DEF S
        <3> QED
            BY <1>1, <1>2, CountingUp
    <2> QED
        BY <2>1
<1> QED
    BY <1>0, <1>3

\* A unit as a packet has it.
Measured(units) == [i \in DOMAIN units |-> AnnexB!FourBytes(Len(units[i])) \o units[i]]

(* Four bytes they are.                                                       *)
LEMMA FourBytesType ==
    ASSUME NEW l \in Nat
    PROVE  AnnexB!FourBytes(l) \in Seq(Nat) /\ Len(AnnexB!FourBytes(l)) = 4
<1>1. PICK a \in Nat, b \in Nat : a = l \div 65536 /\ b = l % 65536
    OBVIOUS
<1>2. PICK a1 \in Nat, a2 \in Nat, b1 \in Nat, b2 \in Nat :
          a1 = a \div 256 /\ a2 = a % 256 /\ b1 = b \div 256 /\ b2 = b % 256
    OBVIOUS
<1>3. AnnexB!FourBytes(l) = <<a1, a2>> \o <<b1, b2>>
    BY <1>1, <1>2 DEF AnnexB!FourBytes, AnnexB!TwoBytes
<1>4. <<a1, a2>> \o <<b1, b2>> \in Seq(Nat) /\ Len(<<a1, a2>> \o <<b1, b2>>) = 4
    OBVIOUS
<1> QED
    BY <1>3, <1>4

(* Units are bytes, at least one.                                             *)
LEMMA UnitType == ASSUME NEW u \in Units PROVE u \in Seq(Nat) /\ Len(u) \in Nat \ {0}
<1>1. u \in Seq(Nat) /\ u # <<>>
    BY DEF Units
<1> QED
    BY <1>1, EmptySeq, LenProperties

(* The members of Measured are the units, each behind its length.             *)
LEMMA MeasuredIs ==
    ASSUME NEW us \in Seq(Units)
    PROVE  /\ Len(us) \in Nat
           /\ Measured(us) \in Seq(Seq(Nat)) /\ Len(Measured(us)) = Len(us)
           /\ \A k \in 1..Len(us) : /\ us[k] \in Units
                                    /\ Measured(us)[k] = AnnexB!FourBytes(Len(us[k])) \o us[k]
<1>0. PICK m \in Nat : m = Len(us) /\ DOMAIN us = 1..m /\ us \in [1..m -> Units]
    BY LenProperties
<1>1. ASSUME NEW k \in 1..m
      PROVE  /\ us[k] \in Units /\ Measured(us)[k] = AnnexB!FourBytes(Len(us[k])) \o us[k]
             /\ Measured(us)[k] \in Seq(Nat)
    <2>1. us[k] \in Units
        BY <1>0
    <2>2. us[k] \in Seq(Nat) /\ Len(us[k]) \in Nat
        BY <2>1, UnitType
    <2>3. Measured(us)[k] = AnnexB!FourBytes(Len(us[k])) \o us[k]
        BY <1>0 DEF Measured
    <2> QED
        BY <2>1, <2>2, <2>3, FourBytesType, ConcatProperties
<1>2. Measured(us) \in Seq(Seq(Nat)) /\ Len(Measured(us)) = m
    <2>1. Measured(us) = [k \in 1..m |-> Measured(us)[k]]
        BY <1>0 DEF Measured
    <2>2. \A k \in 1..m : Measured(us)[k] \in Seq(Nat)
        BY <1>1
    <2> HIDE DEF Measured
    <2>3. Measured(us) \in [1..m -> Seq(Nat)]
        BY <2>1, <2>2
    <2> QED
        BY <2>3
<1> QED
    BY <1>0, <1>1, <1>2

\* x is a beginning of p.
Begins(x, p) == Len(x) <= Len(p) /\ \A t \in 1..Len(x) : x[t] = p[t]

(* What lies in p lies in a beginning of p that is long enough.               *)
LEMMA LiesInBeginning ==
    ASSUME NEW w \in Seq(Nat), NEW x \in Seq(Nat), NEW p \in Seq(Nat), NEW b, LiesIn(w, p, b),
           Begins(x, p), b + Len(w) <= Len(x) + 1
    PROVE  LiesIn(w, x, b)
<1>1. PICK l \in Nat, z \in Nat : l = Len(w) /\ z = Len(x)
    BY LenProperties
<1>2. b \in Nat \ {0} /\ b + l <= z + 1 /\ \A t \in 1..l : p[b + t - 1] = w[t]
    BY <1>1 DEF LiesIn
<1>3. ASSUME NEW t \in 1..l PROVE x[b + t - 1] = w[t]
    <2>1. b + t - 1 \in 1..z
        BY <1>2
    <2> QED
        BY <1>1, <1>2, <2>1 DEF Begins
<1> QED
    BY <1>1, <1>2, <1>3 DEF LiesIn

\* At b in x is the unit u behind its length.
UnitAt(u, x, b) ==
    /\ b + 4 + Len(u) <= Len(x) + 1 /\ AnnexB!BigEndian(x, b, 4) = Len(u)
    /\ AnnexB!At(x, b + 4) = u[1]
    /\ SubSeq(x, b + 4, b + 4 + Len(u) - 1) = u

(* Where a unit lies behind its length, length, kind and bytes are read.      *)
LEMMA UnitRead ==
    ASSUME NEW u \in Units, NEW x \in Seq(Nat), NEW b \in Nat \ {0},
           LiesIn(AnnexB!FourBytes(Len(u)) \o u, x, b)
    PROVE  UnitAt(u, x, b)
<1> DEFINE q == AnnexB!FourBytes(Len(u))
<1>1. PICK l \in Nat \ {0}, z \in Nat : l = Len(u) /\ z = Len(x)
    BY UnitType, LenProperties
<1>2. u \in Seq(Nat) /\ q \in Seq(Nat) /\ Len(q) = 4
    BY <1>1, UnitType, FourBytesType
<1> HIDE DEF q
<1>3. LiesIn(q, x, b) /\ LiesIn(u, x, b + 4)
    <2>1. LiesIn(q \o u, x, b)
        BY DEF q
    <2> QED
        BY <1>2, <2>1, HalvesLie
<1>4. AnnexB!BigEndian(x, b, 4) = l
    BY <1>1, <1>3, FourBytesRead DEF q
<1>5. SubSeq(x, b + 4, b + 4 + Len(u) - 1) = u
    <2> DEFINE i == b + 4
    <2>1. u \in Seq(Nat) /\ LiesIn(u, x, i)
        BY <1>2, <1>3
    <2> HIDE DEF i
    <2>2. SubSeq(x, i, i + Len(u) - 1) = u
        BY <2>1, StretchIs
    <2> QED
        BY <2>2 DEF i
<1>6. (b + 4) + l <= z + 1 /\ \A t \in 1..l : x[(b + 4) + t - 1] = u[t]
    BY <1>1, <1>3 DEF LiesIn
<1>7. AnnexB!At(x, b + 4) = u[1]
    <2>1. 1 \in 1..l /\ (b + 4) + 1 - 1 = b + 4 /\ b + 4 \in 1..z
        BY <1>6
    <2>2. x[b + 4] = u[1]
        BY <1>6, <2>1
    <2> QED
        BY <1>1, <2>1, <2>2 DEF AnnexB!At
<1> QED
    BY <1>1, <1>4, <1>5, <1>6, <1>7 DEF UnitAt

\* The parameter sets that go before u.
SetsFor(u, extra) ==
    IF u[1] % 32 = 5 THEN AnnexB!h264_extradata_to_annexb(extra).out ELSE <<>>

\* What a turn leaves of x when it finds the unit u at b.
After(u, x, extra, b, o) ==
    [ret |-> IF b + 4 + Len(u) <= Len(x) THEN "next" ELSE "ok",
     buf |-> b + 4 + Len(u),
     out |-> o \o AnnexB!alloc_and_copy(SetsFor(u, extra), u)]

(* A turn appends the unit it finds, when the parameter sets can be read.     *)
LEMMA TurnNext ==
    ASSUME NEW u \in Units, NEW x \in Seq(Nat), NEW extra, NEW b \in Nat \ {0}, NEW o,
           LiesIn(AnnexB!FourBytes(Len(u)) \o u, x, b),
           AnnexB!h264_extradata_to_annexb(extra).ok
    PROVE  AnnexB!NextUnit(x, extra, [ret |-> "next", buf |-> b, out |-> o]) =
               After(u, x, extra, b, o)
<1> DEFINE t == [ret |-> "next", buf |-> b, out |-> o]
<1>1. PICK l \in Nat, z \in Nat : l = Len(u) /\ z = Len(x)
    BY UnitType, LenProperties
<1>2. UnitAt(u, x, b)
    BY UnitRead
<1>3. /\ b + 4 + l <= z + 1 /\ AnnexB!BigEndian(x, b, 4) = l
      /\ AnnexB!At(x, b + 4) = u[1] /\ SubSeq(x, b + 4, b + 4 + l - 1) = u
    BY <1>1, <1>2 DEF UnitAt
<1>4. ~(b + 4 > z + 1 \/ l > z + 1 - (b + 4))
    BY <1>3
<1>5. t.buf = b /\ t.out = o
    OBVIOUS
<1> HIDE DEF t
<1>6. AnnexB!NextUnit(x, extra, t) =
          IF b + 4 > z + 1 \/ l > z + 1 - (b + 4)
          THEN [t EXCEPT !.ret = "fail"]
          ELSE IF u[1] % 32 = 5 /\ ~AnnexB!h264_extradata_to_annexb(extra).ok
          THEN [t EXCEPT !.ret = "undefined"]
          ELSE [ret |-> IF b + 4 + l <= z THEN "next" ELSE "ok",
                buf |-> b + 4 + l,
                out |-> o \o AnnexB!alloc_and_copy(SetsFor(u, extra), u)]
    BY <1>1, <1>3, <1>5, Zenon DEF AnnexB!NextUnit, SetsFor
<1>7. AnnexB!h264_extradata_to_annexb(extra).ok
    OBVIOUS
<1>8. AnnexB!NextUnit(x, extra, t) =
          [ret |-> IF b + 4 + l <= z THEN "next" ELSE "ok",
           buf |-> b + 4 + l,
           out |-> o \o AnnexB!alloc_and_copy(SetsFor(u, extra), u)]
    BY <1>4, <1>6, <1>7, Zenon
<1> QED
    BY <1>1, <1>8, Zenon DEF t, After

(* A turn at a unit that does not lie in x as a whole fails.                  *)
LEMMA TurnFails ==
    ASSUME NEW u \in Units, NEW x \in Seq(Nat), NEW p \in Seq(Nat), NEW extra,
           NEW b \in Nat \ {0}, NEW o, Begins(x, p),
           LiesIn(AnnexB!FourBytes(Len(u)) \o u, p, b), Len(x) + 1 < b + 4 + Len(u)
    PROVE  AnnexB!NextUnit(x, extra, [ret |-> "next", buf |-> b, out |-> o]).ret = "fail"
<1> DEFINE t == [ret |-> "next", buf |-> b, out |-> o]
           q == AnnexB!FourBytes(Len(u))
<1>1. PICK l \in Nat, z \in Nat : l = Len(u) /\ z = Len(x)
    BY UnitType, LenProperties
<1>2. u \in Seq(Nat) /\ q \in Seq(Nat) /\ Len(q) = 4
    BY <1>1, UnitType, FourBytesType
<1>3. b + 4 > z + 1 \/ AnnexB!BigEndian(x, b, 4) > z + 1 - (b + 4)
    <2>1. SUFFICES ASSUME ~(b + 4 > z + 1) PROVE AnnexB!BigEndian(x, b, 4) > z + 1 - (b + 4)
        OBVIOUS
    <2> HIDE DEF q
    <2>2. LiesIn(q, p, b)
        <3>1. LiesIn(q \o u, p, b)
            BY DEF q
        <3> QED
            BY <1>2, <3>1, HalvesLie
    <2>3. b + Len(q) <= Len(x) + 1
        BY <1>1, <1>2, <2>1
    <2>4. LiesIn(q, x, b)
        BY <1>2, <2>2, <2>3, LiesInBeginning
    <2>5. AnnexB!BigEndian(x, b, 4) = l
        BY <1>1, <2>4, FourBytesRead DEF q
    <2>6. l > z + 1 - (b + 4)
        BY <1>1
    <2> QED
        BY <2>5, <2>6
<1>4. t.buf = b /\ "ret" \in DOMAIN t
    OBVIOUS
<1> HIDE DEF t, q
<1>5. AnnexB!NextUnit(x, extra, t) = [t EXCEPT !.ret = "fail"]
    <2> DEFINE size == AnnexB!BigEndian(x, b, 4)
               Else == IF /\ AnnexB!At(x, b + 4) % 32 = 5
                          /\ ~AnnexB!h264_extradata_to_annexb(extra).ok
                       THEN [t EXCEPT !.ret = "undefined"]
                       ELSE [ret |-> IF b + 4 + size <= Len(x) THEN "next" ELSE "ok",
                             buf |-> b + 4 + size,
                             out |-> t.out \o AnnexB!alloc_and_copy(
                                         IF AnnexB!At(x, b + 4) % 32 = 5
                                         THEN AnnexB!h264_extradata_to_annexb(extra).out ELSE <<>>,
                                         SubSeq(x, b + 4, b + 4 + size - 1))]
    <2>1. AnnexB!NextUnit(x, extra, t) =
              IF b + 4 > Len(x) + 1 \/ size > Len(x) + 1 - (b + 4)
              THEN [t EXCEPT !.ret = "fail"] ELSE Else
        BY <1>4, Zenon DEF AnnexB!NextUnit
    <2> HIDE DEF Else
    <2> QED
        BY <1>1, <1>3, <2>1, Zenon
<1>6. [t EXCEPT !.ret = "fail"].ret = "fail"
    BY <1>4, Zenon
<1> QED
    BY <1>5, <1>6, Zenon DEF t

\* What is to be written for the unit u.
Group(u, sps, pps) == IF u[1] % 32 = 5 THEN sps \o pps \o <<u>> ELSE <<u>>

(* What goes before a key frame is units.                                     *)
LEMMA ParameterSetsAreUnits ==
    ASSUME NEW sps \in SpsLists, NEW pps \in PpsLists
    PROVE  sps \in Seq(Units) /\ pps \in Seq(Units)
<1>1. sps \in Seq(ParameterSet) /\ pps \in Seq(ParameterSet)
    BY DEF SpsLists, PpsLists
<1> QED
    BY <1>1, ListedIs

(* What a turn appends holds the unit, a key frame behind all sets.           *)
LEMMA TurnHolds ==
    ASSUME NEW u \in Units, NEW sps \in SpsLists, NEW pps \in PpsLists,
           NEW s, NEW us, NEW e, Holds(s, us, e)
    PROVE  \E h : Holds(s \o AnnexB!alloc_and_copy(SetsFor(u, AnnexB!Extradata(sps, pps)), u),
                        us \o Group(u, sps, pps), h)
<1> DEFINE sets == SetsFor(u, AnnexB!Extradata(sps, pps))
           code == IF sets = <<>> THEN AnnexB!StartCode3 ELSE AnnexB!StartCode4
           w == code \o u
<1>1. code \in {AnnexB!StartCode3, AnnexB!StartCode4} /\ code \in Seq(Nat)
    BY DEF AnnexB!StartCode3, AnnexB!StartCode4
<1>2. AnnexB!alloc_and_copy(sets, u) = (sets \o code) \o u
    BY Zenon DEF AnnexB!alloc_and_copy
<1>3. u \in Seq(Nat)
    BY UnitType
<1> HIDE DEF code, sets
<1>4. PICK e1 : Holds(w, <<u>>, e1)
    BY <1>1, HoldsOne
<1> HIDE DEF w
<1>5. CASE u[1] % 32 = 5
    <2>1. PICK stream, e2 : sets = stream /\ Holds(stream, sps \o pps, e2)
        <3>1. PICK stream : /\ AnnexB!h264_extradata_to_annexb(AnnexB!Extradata(sps, pps)) =
                                   [ok |-> TRUE, out |-> stream]
                            /\ \E e2 : Holds(stream, sps \o pps, e2)
            BY ExtradataRead
        <3>2. sets = AnnexB!h264_extradata_to_annexb(AnnexB!Extradata(sps, pps)).out
            BY <1>5 DEF sets, SetsFor
        <3>3. sets = stream
            BY <3>1, <3>2
        <3> QED
            BY <3>1, <3>3
    <2>2. stream \in Seq(Nat)
        BY <2>1 DEF Holds
    <2>3. (sets \o code) \o u = stream \o w
        BY <1>1, <1>3, <2>1, <2>2, ConcatAssociative DEF w
    <2>4. PICK e3 : Holds(stream \o w, (sps \o pps) \o <<u>>, e3)
        BY <1>4, <2>1, HoldsBoth
    <2>5. \E h : Holds(s \o (stream \o w), us \o ((sps \o pps) \o <<u>>), h)
        BY <2>4, HoldsBoth
    <2>6. Group(u, sps, pps) = (sps \o pps) \o <<u>>
        BY <1>5 DEF Group
    <2> QED
        BY <1>2, <2>3, <2>5, <2>6 DEF sets
<1>6. CASE ~(u[1] % 32 = 5)
    <2>1. sets = <<>> /\ Group(u, sps, pps) = <<u>>
        BY <1>6 DEF sets, SetsFor, Group
    <2>2. (sets \o code) \o u = w
        <3>1. <<>> \o code = code
            BY <1>1, ConcatEmptySeq
        <3> QED
            BY <2>1, <3>1 DEF w
    <2>3. \E h : Holds(s \o w, us \o <<u>>, h)
        BY <1>4, HoldsBoth
    <2> QED
        BY <1>2, <2>1, <2>2, <2>3 DEF sets
<1> QED
    BY <1>5, <1>6

\* The units of a packet end at the numbers a.
Laid(us, a) ==
    /\ AnnexB!Avcc(us) \in Seq(Nat) /\ Len(us) \in Nat
    /\ a \in [0..Len(us) -> Nat] /\ a[0] = 0 /\ a[Len(us)] = Len(AnnexB!Avcc(us))
    /\ \A k \in 0..Len(us) : a[k] = Len(AnnexB!Avcc(SubSeq(us, 1, k)))
    /\ \A k \in 1..Len(us) :
          /\ us[k] \in Units /\ a[k] = a[k - 1] + (4 + Len(us[k]))
          /\ LiesIn(AnnexB!FourBytes(Len(us[k])) \o us[k], AnnexB!Avcc(us), a[k - 1] + 1)

(* Every packet has places at which its units end.                            *)
LEMMA PacketLaid == ASSUME NEW us \in Seq(Units) PROVE \E a : Laid(us, a)
<1> DEFINE q == Measured(us)
           p == AnnexB!Avcc(us)
<1>1. PICK m \in Nat : m = Len(us)
    BY LenProperties
<1>2. /\ q \in Seq(Seq(Nat)) /\ Len(q) = m
      /\ \A k \in 1..m : us[k] \in Units /\ q[k] = AnnexB!FourBytes(Len(us[k])) \o us[k]
    BY <1>1, MeasuredIs
<1>3. p = AnnexB!FlattenSeq(q)
    BY DEF AnnexB!Avcc, Measured
<1>4. ASSUME NEW k \in 0..m PROVE AnnexB!Avcc(SubSeq(us, 1, k)) = AnnexB!FlattenSeq(SubSeq(q, 1, k))
    <2> DEFINE v == SubSeq(us, 1, k)
               w == SubSeq(q, 1, k)
    <2>0. 1 \in Int /\ k \in Int /\ k \in Nat
        OBVIOUS
    <2>1. v \in Seq(Units) /\ Len(v) = k /\ \A i \in 1..k : v[i] = us[i]
        <3>1. \A i \in 1..k : us[i] \in Units
            <4>1. \A i \in 1..k : i \in 1..m
                OBVIOUS
            <4> QED
                BY <1>2, <4>1, Zenon
        <3>2. /\ v \in Seq(Units) /\ Len(v) = IF 1 <= k THEN k - 1 + 1 ELSE 0
              /\ \A i \in 1..(k - 1 + 1) : v[i] = us[1 + i - 1]
            BY <2>0, <3>1, SubSeqProperties
        <3> HIDE DEF v
        <3>3. k - 1 + 1 = k /\ \A i \in 1..k : 1 + i - 1 = i
            OBVIOUS
        <3> QED
            BY <3>2, <3>3
    <2>2. w \in Seq(Seq(Nat)) /\ Len(w) = k /\ \A i \in 1..k : w[i] = q[i]
        <3>1. \A i \in 1..k : q[i] \in Seq(Nat)
            <4>1. \A i \in 1..k : i \in 1..Len(q)
                BY <1>2
            <4> HIDE DEF q
            <4> QED
                BY <1>2, <4>1, ElementOfSeq
        <3> HIDE DEF q
        <3>2. /\ w \in Seq(Seq(Nat)) /\ Len(w) = IF 1 <= k THEN k - 1 + 1 ELSE 0
              /\ \A i \in 1..(k - 1 + 1) : w[i] = q[1 + i - 1]
            BY <2>0, <3>1, SubSeqProperties
        <3> HIDE DEF w
        <3>3. k - 1 + 1 = k /\ \A i \in 1..k : 1 + i - 1 = i
            OBVIOUS
        <3> QED
            BY <3>2, <3>3
    <2> HIDE DEF v, w, q
    <2>3. Measured(v) \in Seq(Seq(Nat)) /\ Len(Measured(v)) = k
        BY <2>1, MeasuredIs
    <2>4. ASSUME NEW i \in 1..k PROVE Measured(v)[i] = w[i]
        <3>1. Measured(v)[i] = AnnexB!FourBytes(Len(v[i])) \o v[i]
            BY <2>1, MeasuredIs
        <3>2. i \in 1..m /\ v[i] = us[i] /\ w[i] = q[i]
            BY <2>1, <2>2
        <3>3. q[i] = AnnexB!FourBytes(Len(us[i])) \o us[i]
            BY <1>2, <3>2
        <3> QED
            BY <3>1, <3>2, <3>3
    <2>5. Measured(v) = w
        <3>1. \A i \in 1..Len(w) : Measured(v)[i] = w[i]
            BY <2>2, <2>4
        <3>2. Len(Measured(v)) = Len(w)
            BY <2>2, <2>3
        <3> QED
            BY <2>2, <2>3, <3>1, <3>2, SeqEqual
    <2>6. AnnexB!Avcc(v) = AnnexB!FlattenSeq(Measured(v))
        BY DEF AnnexB!Avcc, Measured
    <2> QED
        BY <2>5, <2>6 DEF v, w
<1> HIDE DEF q, p
<1>5. p \in Seq(Nat)
    BY <1>2, <1>3, FlattenedType
<1>6. LiesIn(AnnexB!FlattenSeq(q), p, 1)
    <2>1. Len(p) \in Nat
        BY <1>5, LenProperties
    <2>2. \A t \in 1..Len(p) : p[1 + t - 1] = p[t]
        <3>1. \A t \in 1..Len(p) : 1 + t - 1 = t
            BY <2>1
        <3> QED
            BY <3>1
    <2>3. LiesIn(p, p, 1)
        BY <2>1, <2>2 DEF LiesIn
    <2> QED
        BY <1>3, <2>3
<1>7. PICK a : Ends(q, a) /\ \A k \in 1..Len(q) : LiesIn(q[k], p, 1 + a[k - 1])
    BY <1>2, <1>5, <1>6, PiecesLie
<1>8. /\ a \in [0..m -> Nat] /\ a[0] = 0 /\ a[m] = Len(p)
      /\ \A k \in 0..m : a[k] = Len(AnnexB!FlattenSeq(SubSeq(q, 1, k)))
    BY <1>2, <1>3, <1>7 DEF Ends
<1>9. \A k \in 0..m : a[k] = Len(AnnexB!Avcc(SubSeq(us, 1, k)))
    BY <1>4, <1>8
<1>10. ASSUME NEW k \in 1..m
       PROVE  /\ us[k] \in Units /\ a[k] = a[k - 1] + (4 + Len(us[k]))
              /\ LiesIn(AnnexB!FourBytes(Len(us[k])) \o us[k], p, a[k - 1] + 1)
    <2>1. us[k] \in Units /\ q[k] = AnnexB!FourBytes(Len(us[k])) \o us[k]
        BY <1>2
    <2>2. us[k] \in Seq(Nat) /\ Len(us[k]) \in Nat
        BY <2>1, UnitType
    <2>3. Len(q[k]) = 4 + Len(us[k])
        <3>1. ASSUME NEW u \in Seq(Nat), NEW w \in Seq(Nat), Len(w) = 4
              PROVE  Len(w \o u) = 4 + Len(u)
            <4>1. Len(w \o u) = Len(w) + Len(u)
                BY ConcatProperties
            <4> QED
                BY <3>1, <4>1
        <3>2. AnnexB!FourBytes(Len(us[k])) \in Seq(Nat) /\ Len(AnnexB!FourBytes(Len(us[k]))) = 4
            BY <2>2, FourBytesType
        <3> QED
            BY <2>1, <2>2, <3>1, <3>2, Zenon
    <2>4. a[k] = a[k - 1] + Len(q[k]) /\ LiesIn(q[k], p, 1 + a[k - 1])
        BY <1>2, <1>7 DEF Ends
    <2>5. 1 + a[k - 1] = a[k - 1] + 1
        <3>1. k - 1 \in 0..m
            OBVIOUS
        <3> QED
            BY <1>8, <3>1
    <2>6. a[k] = a[k - 1] + (4 + Len(us[k]))
        BY <2>3, <2>4, Zenon
    <2>7. LiesIn(AnnexB!FourBytes(Len(us[k])) \o us[k], p, a[k - 1] + 1)
        BY <2>1, <2>4, <2>5, Zenon
    <2> QED
        BY <2>1, <2>6, <2>7
<1>11. Laid(us, a)
    BY <1>1, <1>5, <1>8, <1>9, <1>10, Zenon DEF Laid, p
<1> QED
    BY <1>11

\* What is to be written for each of the units.
Groups(us, sps, pps) == [i \in DOMAIN us |-> Group(us[i], sps, pps)]

\* After k turns the loop stands behind unit k, and the units of g[k] are written.
HeldAfter(a, x, T, g, k) ==
    /\ k <= a[k]
    /\ \E o : /\ T[k] = [ret |-> IF k > 0 /\ a[k] = Len(x) THEN "ok" ELSE "next",
                         buf |-> a[k] + 1, out |-> o]
              /\ \E e : Holds(o, g[k], e)

(* After a turn for every unit that lies in x these are written.              *)
LEMMA TurnsHold ==
    ASSUME NEW us \in Seq(Units), NEW sps \in SpsLists, NEW pps \in PpsLists,
           NEW a, Laid(us, a), NEW x \in Seq(Nat), Begins(x, AnnexB!Avcc(us)),
           NEW T, Turns(x, AnnexB!Extradata(sps, pps), T),
           NEW g, Joins(Groups(us, sps, pps), g), NEW k \in 0..Len(us), a[k] <= Len(x)
    PROVE  HeldAfter(a, x, T, g, k)
<1>0. PICK m \in Nat, z \in Nat : m = Len(us) /\ z = Len(x)
    BY LenProperties
<1> DEFINE Ret(j) == IF j > 0 /\ a[j] = z THEN "ok" ELSE "next"
           Done(j) == \E o : /\ T[j] = [ret |-> Ret(j), buf |-> a[j] + 1, out |-> o]
                             /\ \E e : Holds(o, g[j], e)
           S == {j \in 0..m : a[j] <= z => j <= a[j] /\ Done(j)}
           extra == AnnexB!Extradata(sps, pps)
           p == AnnexB!Avcc(us)
<1>1. a \in [0..m -> Nat] /\ a[0] = 0 /\ p \in Seq(Nat)
    BY <1>0 DEF Laid
<1>2. ASSUME NEW j \in 1..m
      PROVE  /\ us[j] \in Units /\ a[j] = a[j - 1] + (4 + Len(us[j]))
             /\ LiesIn(AnnexB!FourBytes(Len(us[j])) \o us[j], p, a[j - 1] + 1)
    BY <1>0 DEF Laid
<1>3. /\ T[0] = [ret |-> "next", buf |-> 1, out |-> <<>>]
      /\ \A j \in 1..(z + 1) :
             T[j] = IF T[j - 1].ret = "next" THEN AnnexB!NextUnit(x, extra, T[j - 1]) ELSE T[j - 1]
    BY <1>0 DEF Turns
<1>4. g[0] = <<>> /\ \A j \in 1..m : g[j] = g[j - 1] \o Group(us[j], sps, pps)
    <2>1. DOMAIN us = 1..m
        BY <1>0
    <2>2. Len(Groups(us, sps, pps)) = m
        BY <1>0, <2>1 DEF Groups
    <2>3. \A j \in 1..m : Groups(us, sps, pps)[j] = Group(us[j], sps, pps)
        BY <2>1 DEF Groups
    <2> QED
        BY <2>2, <2>3 DEF Joins
<1> HIDE DEF extra, p
<1>5. 0 \in S
    <2>1. Ret(0) = "next" /\ a[0] + 1 = 1 /\ 0 <= a[0]
        BY <1>1
    <2>2. \E e : Holds(<<>>, g[0], e)
        BY <1>4, HoldsNone
    <2> HIDE DEF Ret
    <2>3. Done(0)
        BY <1>3, <2>1, <2>2
    <2> HIDE DEF Done
    <2> QED
        BY <1>0, <2>1, <2>3
<1>6. ASSUME NEW j \in 0..(m - 1), j \in S PROVE j + 1 \in S
    <2>0. j + 1 \in 0..m /\ j + 1 \in 1..m /\ (j + 1) - 1 = j /\ j \in 0..m
        OBVIOUS
    <2> SUFFICES ASSUME a[j + 1] <= z PROVE j + 1 <= a[j + 1] /\ Done(j + 1)
        <3> HIDE DEF Done
        <3> QED
            BY <2>0
    <2> DEFINE u == us[j + 1]
               b == a[j] + 1
               w == AnnexB!FourBytes(Len(u)) \o u
    <2>1. u \in Units /\ a[j + 1] = a[j] + (4 + Len(u)) /\ LiesIn(w, p, b)
        BY <1>2, <2>0
    <2> HIDE DEF u
    <2>2. PICK l \in Nat \ {0}, c \in Nat, d \in Nat : l = Len(u) /\ c = a[j] /\ d = a[j + 1]
        BY <1>1, <2>0, <2>1, UnitType
    <2>3. d = c + (4 + l) /\ d <= z /\ b = c + 1 /\ c < z
        <3>1. d = c + (4 + l) /\ d <= z
            BY <2>1, <2>2
        <3> QED
            BY <2>2, <3>1
    <2>4. j <= c /\ Done(j)
        <3>1. a[j] <= z
            BY <2>2, <2>3
        <3> HIDE DEF Done
        <3> QED
            BY <1>6, <2>2, <3>1
    <2>5. PICK o : T[j] = [ret |-> "next", buf |-> b, out |-> o] /\ \E e : Holds(o, g[j], e)
        <3>1. Ret(j) = "next"
            BY <2>2, <2>3
        <3> HIDE DEF Ret, b
        <3> QED
            BY <2>4, <3>1 DEF b
    <2>6. T[j + 1] = AnnexB!NextUnit(x, extra, [ret |-> "next", buf |-> b, out |-> o])
        <3>1. j + 1 \in 1..(z + 1)
            BY <2>3, <2>4
        <3>2. T[j + 1] = IF T[j].ret = "next" THEN AnnexB!NextUnit(x, extra, T[j]) ELSE T[j]
            BY <1>3, <2>0, <3>1
        <3> HIDE DEF b
        <3> QED
            BY <2>5, <3>2
    <2>7. LiesIn(w, x, b)
        <3>1. u \in Seq(Nat) /\ AnnexB!FourBytes(Len(u)) \in Seq(Nat) /\ Len(AnnexB!FourBytes(Len(u))) = 4
            BY <2>1, <2>2, UnitType, FourBytesType
        <3>2. w \in Seq(Nat) /\ Len(w) = 4 + l
            <4>1. w \in Seq(Nat) /\ Len(w) = Len(AnnexB!FourBytes(Len(u))) + Len(u)
                BY <3>1, ConcatProperties
            <4> HIDE DEF w
            <4> QED
                BY <2>2, <3>1, <4>1
        <3> HIDE DEF w, b
        <3>3. b + Len(w) <= Len(x) + 1
            BY <1>0, <2>3, <3>2
        <3> QED
            BY <1>1, <2>1, <3>2, <3>3, LiesInBeginning DEF p
    <2>8. T[j + 1] = [ret |-> IF b + 4 + Len(u) <= Len(x) THEN "next" ELSE "ok",
                      buf |-> b + 4 + Len(u),
                      out |-> o \o AnnexB!alloc_and_copy(SetsFor(u, extra), u)]
        <3>1. b \in Nat \ {0}
            BY <2>3
        <3>2. AnnexB!h264_extradata_to_annexb(extra).ok
            BY ExtradataRead DEF extra
        <3> HIDE DEF b
        <3>3. T[j + 1] = After(u, x, extra, b, o)
            BY <2>1, <2>6, <2>7, <3>1, <3>2, TurnNext DEF w
        <3> QED
            BY <3>3 DEF After
    <2>9. Ret(j + 1) = (IF b + 4 + Len(u) <= Len(x) THEN "next" ELSE "ok")
        <3>1. j + 1 > 0 /\ a[j + 1] = d
            BY <2>2
        <3>2. (d = z) <=> ~(b + 4 + l <= z)
            <4> HIDE DEF b
            <4> QED
                BY <2>3
        <3> HIDE DEF b
        <3> QED
            BY <1>0, <2>2, <3>1, <3>2
    <2>10. b + 4 + Len(u) = a[j + 1] + 1
        <3> HIDE DEF b
        <3>1. b + 4 + l = d + 1
            BY <2>3
        <3> QED
            BY <2>2, <3>1
    <2>11. \E h : Holds(o \o AnnexB!alloc_and_copy(SetsFor(u, extra), u), g[j + 1], h)
        <3>1. PICK e : Holds(o, g[j], e)
            BY <2>5
        <3>2. g[j + 1] = g[j] \o Group(u, sps, pps)
            BY <1>4, <2>0 DEF u
        <3>3. \E h : Holds(o \o AnnexB!alloc_and_copy(SetsFor(u, extra), u),
                           g[j] \o Group(u, sps, pps), h)
            BY <2>1, <3>1, TurnHolds DEF extra
        <3> QED
            BY <3>2, <3>3
    <2>12. Done(j + 1)
        <3> HIDE DEF Ret, b
        <3>1. T[j + 1] = [ret |-> Ret(j + 1), buf |-> a[j + 1] + 1,
                          out |-> o \o AnnexB!alloc_and_copy(SetsFor(u, extra), u)]
            BY <2>8, <2>9, <2>10, Zenon
        <3> QED
            BY <2>11, <3>1
    <2>13. j + 1 <= a[j + 1]
        <3>1. j + 1 <= d
            BY <2>3, <2>4
        <3> QED
            BY <2>2, <3>1
    <2> QED
        BY <2>12, <2>13
<1>7. k \in S
    <2>1. \A j \in 0..m : j \in S
        <3> HIDE DEF S
        <3> QED
            BY <1>5, <1>6, CountingUp
    <2> HIDE DEF S
    <2> QED
        BY <1>0, <2>1
<1>8. k <= a[k] /\ Done(k)
    <2> HIDE DEF Done
    <2> QED
        BY <1>0, <1>7
<1> QED
    BY <1>0, <1>8 DEF HeldAfter

\* The units of a packet: as many as one likes, each of a length that four bytes tell.
PacketUnit  == {u \in Units : Len(u) < 2147483648}
PacketLists == {us \in Seq(PacketUnit) : us # <<>>}

(* The units of a packet are units, at least one.                             *)
LEMMA PacketListsAre ==
    ASSUME NEW us \in PacketLists PROVE us \in Seq(Units) /\ Len(us) \in Nat \ {0}
<1>1. us \in Seq(PacketUnit) /\ us # <<>>
    BY DEF PacketLists
<1>2. us \in Seq(Units)
    BY <1>1, SeqMonotonic DEF PacketUnit
<1> QED
    BY <1>1, <1>2, EmptySeq, LenProperties

(* There is a group of units for each unit of a packet.                       *)
LEMMA GroupsType ==
    ASSUME NEW us \in PacketLists, NEW sps \in SpsLists, NEW pps \in PpsLists
    PROVE  /\ Groups(us, sps, pps) \in Seq(Seq(Units))
           /\ Len(Groups(us, sps, pps)) = Len(us)
<1> DEFINE gs == Groups(us, sps, pps)
<1>1. us \in Seq(Units) /\ Len(us) \in Nat \ {0}
    BY PacketListsAre
<1>2. PICK m \in Nat \ {0} : m = Len(us) /\ DOMAIN us = 1..m
    BY <1>1, LenProperties
<1>3. ASSUME NEW k \in 1..m PROVE Group(us[k], sps, pps) \in Seq(Units)
    <2>1. us[k] \in Units
        BY <1>1, <1>2, ElementOfSeq
    <2>2. <<us[k]>> \in Seq(Units)
        BY <2>1
    <2>3. sps \o pps \in Seq(Units)
        BY ParameterSetsAreUnits, ConcatProperties
    <2>4. (sps \o pps) \o <<us[k]>> \in Seq(Units)
        BY <2>2, <2>3, ConcatProperties
    <2> QED
        BY <2>2, <2>4 DEF Group
<1>4. gs = [k \in 1..m |-> Group(us[k], sps, pps)]
    BY <1>2 DEF Groups
<1> HIDE DEF gs
<1>5. gs \in [1..m -> Seq(Units)]
    BY <1>3, <1>4
<1>6. gs \in Seq(Seq(Units)) /\ Len(gs) = m
    BY <1>5
<1> QED
    BY <1>2, <1>6 DEF gs

(* What is written for a whole packet.                                        *)
LEMMA PacketWritten ==
    ASSUME NEW us \in PacketLists, NEW sps \in SpsLists, NEW pps \in PpsLists
    PROVE  AnnexB!Cut(AnnexB!h264_mp4toannexb(AnnexB!Avcc(us), AnnexB!Extradata(sps, pps)))
           = AnnexB!FlattenSeq(Groups(us, sps, pps))
<1> DEFINE p == AnnexB!Avcc(us)
           extra == AnnexB!Extradata(sps, pps)
           gs == Groups(us, sps, pps)
<1>1. us \in Seq(Units) /\ Len(us) \in Nat \ {0}
    BY PacketListsAre
<1>2. PICK m \in Nat \ {0} : m = Len(us) /\ DOMAIN us = 1..m
    BY <1>1, LenProperties
<1>3. PICK a : Laid(us, a)
    BY <1>1, PacketLaid
<1>4. p \in Seq(Nat) /\ a[m] = Len(p) /\ a[m] \in Nat
    <2>1. m \in 0..m
        OBVIOUS
    <2> QED
        BY <1>2, <1>3, <2>1 DEF Laid
<1>5. gs \in Seq(Seq(Units)) /\ Len(gs) = m
    BY <1>2, GroupsType
<1> HIDE DEF gs
<1>6. PICK g : Joins(gs, g) /\ AnnexB!FlattenSeq(gs) = g[m]
    <2>1. \E g \in [0..Len(gs) -> Seq(Units)] : Joins(gs, g) /\ AnnexB!FlattenSeq(gs) = g[Len(gs)]
        BY <1>5, Flattened
    <2> QED
        BY <1>5, <2>1
<1>7. PICK T : Turns(p, extra, T)
    BY <1>4, LoopTurns
<1>8. m <= a[m] /\ \E o : /\ T[m] = [ret |-> IF m > 0 /\ a[m] = Len(p) THEN "ok" ELSE "next",
                                     buf |-> a[m] + 1, out |-> o]
                          /\ \E e : Holds(o, g[m], e)
    <2>1. Begins(p, p) /\ m \in 0..Len(us) /\ a[m] <= Len(p)
        BY <1>2, <1>4 DEF Begins
    <2> QED
        <3> HIDE DEF p, extra
        <3>1. Joins(Groups(us, sps, pps), g)
            BY <1>6 DEF gs
        <3>2. Laid(us, a) /\ Begins(p, AnnexB!Avcc(us)) /\ p \in Seq(Nat)
            BY <1>3, <1>4, <2>1 DEF p
        <3>3. Turns(p, AnnexB!Extradata(sps, pps), T)
            BY <1>7 DEF extra
        <3>4. HeldAfter(a, p, T, g, m)
            BY <1>1, <2>1, <3>1, <3>2, <3>3, TurnsHold
        <3> QED
            BY <3>4 DEF HeldAfter
<1>9. PICK o : T[m].ret = "ok" /\ T[m].out = o /\ \E e : Holds(o, g[m], e)
    BY <1>2, <1>4, <1>8
<1>10. T[Len(p) + 1] = T[m]
    <2>1. m \in 0..(Len(p) + 1)
        BY <1>4, <1>8
    <2> QED
        BY <1>4, <1>7, <1>9, <2>1, LoopEnds
<1>11. AnnexB!h264_mp4toannexb(p, extra) = o
    BY <1>7, <1>9, <1>10 DEF Turns
<1>12. AnnexB!Cut(o) = g[m]
    BY <1>9, CutIsUnits
<1> QED
    BY <1>6, <1>11, <1>12 DEF gs

(* Nothing is written for a packet that was cut off inside a unit.            *)
LEMMA NothingWritten ==
    ASSUME NEW us \in PacketLists, NEW sps \in SpsLists, NEW pps \in PpsLists,
           NEW z \in 0..Len(AnnexB!Avcc(us)),
           \A k \in DOMAIN us : z # Len(AnnexB!Avcc(SubSeq(us, 1, k)))
    PROVE  AnnexB!h264_mp4toannexb(SubSeq(AnnexB!Avcc(us), 1, z), AnnexB!Extradata(sps, pps)) = <<>>
<1> DEFINE p == AnnexB!Avcc(us)
           x == SubSeq(p, 1, z)
           extra == AnnexB!Extradata(sps, pps)
           gs == Groups(us, sps, pps)
<1>1. us \in Seq(Units) /\ Len(us) \in Nat \ {0}
    BY PacketListsAre
<1>2. PICK m \in Nat \ {0} : m = Len(us) /\ DOMAIN us = 1..m
    BY <1>1, LenProperties
<1>3. PICK a : Laid(us, a)
    BY <1>1, PacketLaid
<1>4. /\ p \in Seq(Nat) /\ a \in [0..m -> Nat] /\ a[0] = 0 /\ a[m] = Len(p)
      /\ \A k \in 1..m : a[k] # z
    <2>1. \A k \in 1..m : a[k] = Len(AnnexB!Avcc(SubSeq(us, 1, k)))
        <3>1. \A k \in 1..m : k \in 0..m
            OBVIOUS
        <3> QED
            BY <1>2, <1>3, <3>1 DEF Laid
    <2>2. \A k \in 1..m : a[k] # z
        BY <1>2, <2>1
    <2> QED
        BY <1>2, <1>3, <2>2 DEF Laid
<1>5. z \in Nat /\ z <= Len(p) /\ Len(p) \in Nat
    BY <1>4, LenProperties
<1> HIDE DEF p
<1>6. x \in Seq(Nat) /\ Len(x) = z /\ Begins(x, p)
    <2>1. \A t \in 1..z : p[t] \in Nat
        <3>1. \A t \in 1..z : t \in 1..Len(p)
            BY <1>5
        <3> QED
            BY <1>4, <3>1, ElementOfSeq
    <2>2. 1 \in Int /\ z \in Int
        BY <1>5
    <2>3. /\ x \in Seq(Nat) /\ Len(x) = IF 1 <= z THEN z - 1 + 1 ELSE 0
          /\ \A t \in 1..(z - 1 + 1) : x[t] = p[1 + t - 1]
        BY <2>1, <2>2, SubSeqProperties
    <2> HIDE DEF x
    <2>4. z - 1 + 1 = z /\ \A t \in 1..z : 1 + t - 1 = t
        BY <1>5
    <2>5. Len(x) = z /\ \A t \in 1..z : x[t] = p[t]
        BY <1>5, <2>3, <2>4
    <2> QED
        BY <1>5, <2>3, <2>5 DEF Begins
<1> HIDE DEF x
<1>7. PICK T : Turns(x, extra, T)
    BY <1>6, LoopTurns
<1> DEFINE S == {k \in 0..m : a[k] <= z}
<1>8. PICK j \in 0..(m - 1) : a[j] <= z /\ ~(a[j + 1] <= z)
    <2>1. SUFFICES ASSUME \A j \in 0..(m - 1) : a[j] <= z => a[j + 1] <= z PROVE FALSE
        OBVIOUS
    <2>2. 0 \in S
        BY <1>4, <1>5
    <2>3. ASSUME NEW k \in 0..(m - 1), k \in S PROVE k + 1 \in S
        <3>1. k + 1 \in 0..m
            OBVIOUS
        <3> QED
            BY <2>1, <2>3, <3>1
    <2>4. m \in S
        <3>1. \A k \in 0..m : k \in S
            <4>1. m \in Nat
                OBVIOUS
            <4> HIDE DEF S
            <4> QED
                BY <2>2, <2>3, <4>1, CountingUp
        <3> HIDE DEF S
        <3> QED
            BY <3>1
    <2>5. a[m] <= z /\ m \in 1..m
        BY <2>4
    <2> QED
        BY <1>4, <1>5, <2>5
<1> HIDE DEF S
<1>9. j \in 0..m /\ j + 1 \in 1..m /\ j + 1 \in 0..m /\ (j + 1) - 1 = j
    OBVIOUS
<1>10. PICK g : Joins(gs, g)
    <2>1. \E g \in [0..Len(gs) -> Seq(Units)] : Joins(gs, g)
        <3>1. gs \in Seq(Seq(Units))
            BY GroupsType
        <3> HIDE DEF gs
        <3> QED
            BY <3>1, Flattened
    <2> QED
        BY <2>1
<1>11. j <= a[j] /\ \E o : /\ T[j] = [ret |-> IF j > 0 /\ a[j] = Len(x) THEN "ok" ELSE "next",
                                      buf |-> a[j] + 1, out |-> o]
                           /\ \E e : Holds(o, g[j], e)
    <2>1. j \in 0..Len(us) /\ a[j] <= Len(x)
        BY <1>2, <1>6, <1>8, <1>9
    <2> QED
        <3> HIDE DEF extra, gs
        <3>1. Joins(Groups(us, sps, pps), g)
            BY <1>10 DEF gs
        <3>2. Laid(us, a) /\ Begins(x, AnnexB!Avcc(us)) /\ x \in Seq(Nat)
            BY <1>3, <1>6 DEF p
        <3>3. Turns(x, AnnexB!Extradata(sps, pps), T)
            BY <1>7 DEF extra
        <3>4. HeldAfter(a, x, T, g, j)
            BY <1>1, <2>1, <3>1, <3>2, <3>3, TurnsHold
        <3> QED
            BY <3>4 DEF HeldAfter
<1>12. PICK o : T[j] = [ret |-> "next", buf |-> a[j] + 1, out |-> o]
    <2>1. ~(j > 0 /\ a[j] = Len(x))
        BY <1>4, <1>6, <1>9
    <2> QED
        BY <1>11, <2>1
<1>13. T[j + 1] = AnnexB!NextUnit(x, extra, [ret |-> "next", buf |-> a[j] + 1, out |-> o])
    <2>0. a[j] \in Nat
        BY <1>4, <1>9
    <2>1. j + 1 \in 1..(Len(x) + 1)
        <3>1. j <= z
            BY <1>5, <1>8, <1>11, <2>0
        <3> QED
            BY <1>5, <1>6, <3>1
    <2>2. T[j + 1] = IF T[j].ret = "next" THEN AnnexB!NextUnit(x, extra, T[j]) ELSE T[j]
        BY <1>7, <1>9, <2>1 DEF Turns
    <2> HIDE DEF extra
    <2> QED
        BY <1>12, <2>2
<1>14. T[j + 1].ret = "fail"
    <2> DEFINE u == us[j + 1]
               b == a[j] + 1
    <2>1. /\ u \in Units /\ a[j + 1] = a[j] + (4 + Len(u))
          /\ LiesIn(AnnexB!FourBytes(Len(u)) \o u, p, b)
        BY <1>2, <1>3, <1>9 DEF Laid, p
    <2>2. a[j] \in Nat /\ a[j + 1] \in Nat /\ b \in Nat \ {0}
        BY <1>4, <1>9
    <2> HIDE DEF u
    <2>3. Len(x) + 1 < b + 4 + Len(u)
        <3>1. PICK l \in Nat, c \in Nat, d \in Nat :
                  l = Len(u) /\ c = a[j] /\ d = a[j + 1] /\ d = c + (4 + l) /\ ~(d <= z)
            BY <1>8, <2>1, <2>2, UnitType
        <3>2. d = c + (4 + l) /\ ~(d <= z)
            BY <3>1
        <3>3. z + 1 < c + 1 + 4 + l
            BY <1>5, <3>2
        <3> QED
            BY <1>6, <3>1, <3>3
    <2> HIDE DEF b, extra
    <2>4. AnnexB!NextUnit(x, extra, [ret |-> "next", buf |-> b, out |-> o]).ret = "fail"
        BY <1>4, <1>6, <2>1, <2>2, <2>3, TurnFails
    <2> QED
        BY <1>13, <2>4 DEF b
<1>15. T[Len(x) + 1] = T[j + 1]
    <2>0. a[j] \in Nat
        BY <1>4, <1>9
    <2>1. j + 1 \in 0..(Len(x) + 1) /\ T[j + 1].ret # "next"
        <3>1. j <= z
            BY <1>5, <1>8, <1>11, <2>0
        <3> QED
            BY <1>5, <1>6, <1>14, <3>1
    <2> QED
        BY <1>6, <1>7, <2>1, LoopEnds
<1>16. AnnexB!h264_mp4toannexb(x, extra) = <<>>
    BY <1>7, <1>14, <1>15 DEF Turns
<1> QED
    BY <1>16 DEF x, p

\* The places of a packet's key frames.
KeyPlaces(us) == {i \in DOMAIN us : AnnexB!KeyUnit(us[i])}

(* UnitsComeBack of Mp4ToAnnexB for every packet: any number of units of any  *)
(* length that four bytes tell, and all parameter sets that extradata can     *)
(* have.  Cut at its start codes, what h264_mp4toannexb makes of a packet is  *)
(* its units in their order, and a decoder that begins at a key frame finds   *)
(* all sets before it; of a packet that was cut off inside a unit nothing is  *)
(* made (utils.c:29-63, 67-141, 158-249).  The sets stand where the comment   *)
(* at utils.c:212 asks for them, and before further units of type 5 too.      *)
THEOREM UnitsReadBack == AnnexB!UnitsComeBack(PacketLists, SpsLists, PpsLists)
<1> SUFFICES ASSUME NEW us \in PacketLists, NEW sps \in SpsLists, NEW pps \in PpsLists
             PROVE  LET packet == AnnexB!Avcc(us)
                        extra  == AnnexB!Extradata(sps, pps)
                        Whole(l) == \E k \in DOMAIN us : l = Len(AnnexB!Avcc(SubSeq(us, 1, k)))
                    IN  /\ \E P \in SUBSET {i \in DOMAIN us : AnnexB!KeyUnit(us[i])} :
                               /\ AnnexB!WantsSets(us) \subseteq P
                               /\ AnnexB!Cut(AnnexB!h264_mp4toannexb(packet, extra)) =
                                      AnnexB!WithSets(us, P, sps \o pps)
                        /\ \A l \in 0..Len(packet) :
                               ~Whole(l) => AnnexB!h264_mp4toannexb(SubSeq(packet, 1, l), extra) = <<>>
    BY Zenon DEF AnnexB!UnitsComeBack
<1>1. Groups(us, sps, pps) = [i \in DOMAIN us |->
          IF i \in KeyPlaces(us) THEN (sps \o pps) \o <<us[i]>> ELSE <<us[i]>>]
    BY DEF Groups, Group, KeyPlaces, AnnexB!KeyUnit
<1>2. AnnexB!Cut(AnnexB!h264_mp4toannexb(AnnexB!Avcc(us), AnnexB!Extradata(sps, pps)))
      = AnnexB!FlattenSeq(Groups(us, sps, pps))
    BY PacketWritten
<1>3. ASSUME NEW l \in 0..Len(AnnexB!Avcc(us)),
             ~\E k \in DOMAIN us : l = Len(AnnexB!Avcc(SubSeq(us, 1, k)))
      PROVE  AnnexB!h264_mp4toannexb(SubSeq(AnnexB!Avcc(us), 1, l), AnnexB!Extradata(sps, pps)) = <<>>
    BY <1>3, NothingWritten
<1>4. AnnexB!Cut(AnnexB!h264_mp4toannexb(AnnexB!Avcc(us), AnnexB!Extradata(sps, pps)))
      = AnnexB!WithSets(us, KeyPlaces(us), sps \o pps)
    BY <1>1, <1>2, Zenon DEF AnnexB!WithSets
<1>5. AnnexB!WantsSets(us) \subseteq KeyPlaces(us)
    BY Zenon DEF AnnexB!WantsSets, KeyPlaces
<1>6. KeyPlaces(us) \in SUBSET {i \in DOMAIN us : AnnexB!KeyUnit(us[i])}
    BY Zenon DEF KeyPlaces
<1> QED
    BY <1>3, <1>4, <1>5, <1>6, Zenon

(* The units of the tools' run are units that a packet or extradata can have. *)
LEMMA ShortUnits ==
    /\ {<<101>>, <<65, 3>>, <<69, 0, 0, 3, 1>>, <<103>>} \subseteq PacketUnit
    /\ {<<103>>, <<104, 7>>} \subseteq ParameterSet
<1> DEFINE Short == {<<101>>, <<65, 3>>, <<69, 0, 0, 3, 1>>, <<103>>, <<104, 7>>}
<1>1. ASSUME NEW u, u \in Short
      PROVE  u \in Seq(Nat) /\ Len(u) \in 1..5 /\ u[Len(u)] # 0
    <2>1. CASE u = <<101>>
        BY <2>1
    <2>2. CASE u = <<65, 3>>
        BY <2>2
    <2>3. CASE u = <<69, 0, 0, 3, 1>>
        BY <2>3
    <2>4. CASE u = <<103>>
        BY <2>4
    <2>5. CASE u = <<104, 7>>
        BY <2>5
    <2> QED
        BY <1>1, <2>1, <2>2, <2>3, <2>4, <2>5
<1>2. ASSUME NEW u, u \in Short,
             NEW i \in 1..Len(u)
      PROVE  ~CodeIn(u, i)
    <2>1. CASE u = <<69, 0, 0, 3, 1>>
        <3>1. Len(u) = 5 /\ u[1] = 69 /\ u[2] = 0 /\ u[3] = 0 /\ u[4] = 3 /\ u[5] = 1
            BY <2>1
        <3>2. i \in {1, 2, 3, 4, 5}
            BY <3>1
        <3> QED
            BY <3>1, <3>2 DEF CodeIn
    <2>2. CASE u # <<69, 0, 0, 3, 1>>
        <3>1. Len(u) \in 1..2
            BY <1>2, <2>2
        <3> QED
            BY <3>1 DEF CodeIn
    <2> QED
        BY <2>1, <2>2
<1>3. ASSUME NEW u, u \in Short
      PROVE  u \in Units /\ Len(u) \in 1..5
    <2>1. u \in Seq(Nat) /\ Len(u) \in 1..5 /\ u[Len(u)] # 0
        BY <1>1, <1>3
    <2>2. \A i \in 1..Len(u) : ~CodeIn(u, i)
        BY <1>2, <1>3
    <2>3. u # <<>>
        BY <2>1, EmptySeq
    <2> QED
        BY <2>1, <2>2, <2>3 DEF Units
<1> QED
    BY <1>3 DEF PacketUnit, ParameterSet

(* The packets and parameter sets of the tools' runs are among those of       *)
(* UnitsReadBack; so no state of a tool makes UnitsComeBack false.            *)
THEOREM UnitsOfToolsComeBack == MCSpec => []UnitsComeBack
<1>1. UnitLists \subseteq PacketLists
    <2> SUFFICES ASSUME NEW us \in UnitLists PROVE us \in PacketLists
        OBVIOUS
    <2> DEFINE S == {<<101>>, <<65, 3>>, <<69, 0, 0, 3, 1>>, <<103>>}
    <2>1. PICK k \in 1..3 : us \in [1..k -> S]
        BY Zenon DEF UnitLists
    <2>2. S \subseteq PacketUnit
        BY ShortUnits
    <2> HIDE DEF S
    <2>3. us \in [1..k -> PacketUnit]
        BY <2>1, <2>2
    <2>4. us \in Seq(PacketUnit) /\ Len(us) = k
        BY <2>3
    <2> QED
        BY <2>4, EmptySeq DEF PacketLists
<1>2. SetLists \subseteq SpsLists /\ SetLists \subseteq PpsLists
    <2> SUFFICES ASSUME NEW s \in SetLists PROVE s \in Seq(ParameterSet) /\ Len(s) <= 2
        BY DEF SpsLists, PpsLists
    <2> DEFINE S == {<<103>>, <<104, 7>>}
    <2>1. PICK k \in 0..2 : s \in [1..k -> S]
        BY Zenon DEF SetLists
    <2>2. S \subseteq ParameterSet
        BY ShortUnits
    <2> HIDE DEF S
    <2>3. s \in [1..k -> ParameterSet]
        BY <2>1, <2>2
    <2> QED
        BY <2>3
<1>3. AnnexB!UnitsComeBack(UnitLists, SetLists, SetLists)
    <2> DEFINE Back(us, sps, pps) ==
                   LET packet == AnnexB!Avcc(us)
                       extra  == AnnexB!Extradata(sps, pps)
                       Whole(l) == \E k \in DOMAIN us : l = Len(AnnexB!Avcc(SubSeq(us, 1, k)))
                   IN  /\ \E P \in SUBSET {i \in DOMAIN us : AnnexB!KeyUnit(us[i])} :
                              /\ AnnexB!WantsSets(us) \subseteq P
                              /\ AnnexB!Cut(AnnexB!h264_mp4toannexb(packet, extra)) =
                                     AnnexB!WithSets(us, P, sps \o pps)
                       /\ \A l \in 0..Len(packet) :
                              ~Whole(l) => AnnexB!h264_mp4toannexb(SubSeq(packet, 1, l), extra) = <<>>
    <2>1. ASSUME NEW P, NEW Q, NEW R
          PROVE  AnnexB!UnitsComeBack(P, Q, R)
                 <=> \A us \in P, sps \in Q, pps \in R : Back(us, sps, pps)
        BY Zenon DEF AnnexB!UnitsComeBack
    <2>2. \A us \in PacketLists, sps \in SpsLists, pps \in PpsLists : Back(us, sps, pps)
        BY <2>1, UnitsReadBack, Zenon
    <2> HIDE DEF Back
    <2> QED
        BY <1>1, <1>2, <2>1, <2>2
<1>4. UnitsComeBack
    BY <1>3 DEF UnitsComeBack
<1> QED
    BY <1>4, PTL
==============================================================================
