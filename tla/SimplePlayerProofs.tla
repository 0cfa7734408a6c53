------------------------- MODULE SimplePlayerProofs --------------------------
(* For every set of files, and packets and calls of any size: the packet      *)
(* queue of simple_player2.cpp hands the audio thread the packets of the file *)
(* in order, each once, and never lets it sleep on one; a call is filled with *)
(* samples that follow one another; and at the end of the file every frame    *)
(* has been shown.  The players of raw files free nothing that is in use.     *)
EXTENDS MCSimplePlayer, SequenceTheorems, TLAPS

-----------------------------------------------------------------------------
(* Sequences                                                                  *)

(* A sequence is a prefix of itself and what follows it.                      *)
LEMMA PrefixOfConcat ==
    ASSUME NEW S, NEW s \in Seq(S), NEW t \in Seq(S)
    PROVE  IsPrefix(s, s \o t)
<1>1. /\ s \o t \in Seq(S)
      /\ Len(s \o t) = Len(s) + Len(t)
      /\ \A i \in 1..(Len(s) + Len(t)) :
             (s \o t)[i] = IF i <= Len(s) THEN s[i] ELSE t[i - Len(s)]
    BY ConcatProperties
<1>2. Len(s) \in Nat /\ Len(t) \in Nat
    OBVIOUS
<1>3. SubSeq(s, 1, Len(s)) = s
    OBVIOUS
<1>4. SubSeq(s \o t, 1, Len(s)) = s
    BY <1>1, <1>2
<1> QED
    BY <1>1, <1>2, <1>3, <1>4 DEF IsPrefix

(* What is handed over is followed by what is still queued, after an append   *)
(* at the end of the queue,                                                   *)
LEMMA AppendBehind ==
    ASSUME NEW S, NEW s \in Seq(S), NEW t \in Seq(S), NEW e \in S
    PROVE  s \o Append(t, e) = Append(s \o t, e)
<1>1. <<e>> \in Seq(S) /\ s \o t \in Seq(S)
    BY ConcatProperties
<1>2. Append(t, e) = t \o <<e>> /\ Append(s \o t, e) = (s \o t) \o <<e>>
    BY <1>1, AppendIsConcat
<1> QED
    BY <1>1, <1>2, ConcatAssociative

(* and after its head was taken.                                              *)
LEMMA MoveHead ==
    ASSUME NEW S, NEW s \in Seq(S), NEW t \in Seq(S), t # <<>>
    PROVE  Append(s, Head(t)) \o Tail(t) = s \o t
<1>1. /\ Head(t) \in S /\ Tail(t) \in Seq(S) /\ <<Head(t)>> \in Seq(S)
      /\ Len(Tail(t)) = Len(t) - 1
    BY HeadTailProperties
<1>2. Append(s, Head(t)) = s \o <<Head(t)>>
    BY <1>1, AppendIsConcat
<1>3. <<Head(t)>> \o Tail(t) = t
    OBVIOUS
<1> QED
    BY <1>1, <1>2, <1>3, ConcatAssociative

-----------------------------------------------------------------------------
(* The invariant                                                              *)

(* The packets are numbers, and main is somewhere.                            *)
Packets ==
    /\ queue \in Seq(Nat) /\ audio \in Seq(Nat) /\ decoded \in Seq(Nat)
    /\ main \in {"open", "read", "poll", "frames", "window", "state", "audio",
                 "exited", "crashed"}

IInv == Packets /\ PacketsHandedOver


(* Once main has deleted the queue it never comes back to it.                 *)
Deleted == main \in {"audio", "exited", "crashed"}

(* A step that leaves the packets alone keeps the invariant, if main does not *)
(* bring the queue back and the audio thread does not fall asleep.            *)
LEMMA QuietStep ==
    ASSUME IInv, UNCHANGED <<queue, audio, decoded>>,
           main' \in {"open", "read", "poll", "frames", "window", "state", "audio",
                      "exited", "crashed"},
           Deleted => Deleted',
           callback' = "wait" => callback = "wait" \/ queue = <<>>
    PROVE  IInv'
    BY DEF IInv, Packets, PacketsHandedOver, Deleted

THEOREM InitEstablishes == Init => IInv
<1> SUFFICES ASSUME Init PROVE IInv
    OBVIOUS
<1>1. /\ queue = <<>> /\ audio = <<>> /\ decoded = <<>>
      /\ main = "open" /\ callback = "off"
    BY DEF Init
<1>2. <<>> \in Seq(Nat) /\ <<>> \o <<>> = <<>>
    BY EmptySeq, ConcatEmptySeq
<1>3. IsPrefix(<<>>, <<>>)
    BY <1>2, PrefixOfConcat
<1> QED
    BY <1>1, <1>2, <1>3 DEF IInv, Packets, PacketsHandedOver

(* main appends a packet it has read, and wakes the audio thread.             *)
LEMMA EnqueuePreserves ==
    ASSUME IInv, main = "read", main' = "poll", UNCHANGED decoded,
           NEW p \in Nat, Enqueue(p)
    PROVE  IInv'
<1>1. /\ queue \in Seq(Nat) /\ audio \in Seq(Nat) /\ decoded \in Seq(Nat)
      /\ decoded \o queue = audio
    BY DEF IInv, Packets, PacketsHandedOver
<1>2. queue' = Append(queue, p) /\ audio' = Append(audio, p) /\ decoded' = decoded
    BY DEF Enqueue
<1>3. queue' \in Seq(Nat) /\ audio' \in Seq(Nat) /\ decoded' \in Seq(Nat)
    BY <1>1, <1>2, AppendProperties
<1>4. decoded' \o queue' = audio'
    <2>1. \A s, t \in Seq(Nat) : \A e \in Nat : s \o Append(t, e) = Append(s \o t, e)
        BY AppendBehind
    <2>2. decoded \o Append(queue, p) = Append(decoded \o queue, p)
        BY <1>1, <2>1
    <2> QED
        BY <1>1, <1>2, <2>2
<1>5. IsPrefix(decoded', audio')
    BY <1>3, <1>4, PrefixOfConcat
<1>6. callback' # "wait"
    BY DEF Enqueue
<1> QED
    BY <1>3, <1>4, <1>5, <1>6 DEF IInv, Packets, PacketsHandedOver

(* A packet that is not audio, and one for which there is no memory, leaves   *)
(* the queue as it is.                                                        *)
LEMMA ReadFramePreserves ==
    ASSUME IInv, ReadFrame
    PROVE  IInv'
<1>1. main = "read" /\ main' = "poll" /\ decoded' = decoded
    BY DEF ReadFrame
<1>2. \/ UNCHANGED <<queue, audio, callback>>
      \/ Enqueue(Len(audio) + 1)
    BY DEF ReadFrame
<1>3. CASE UNCHANGED <<queue, audio, callback>>
    BY <1>1, <1>3, QuietStep DEF Deleted
<1>4. CASE Enqueue(Len(audio) + 1)
    <2>1. Len(audio) + 1 \in Nat
        BY DEF IInv, Packets
    <2> QED
        BY <1>1, <1>4, <2>1, EnqueuePreserves
<1> QED
    BY <1>2, <1>3, <1>4

(* The audio thread takes the oldest packet, or sleeps because there is none. *)
LEMMA DequeuePreserves ==
    ASSUME IInv, Dequeue
    PROVE  IInv'
<1>1. ~Deleted /\ main' = main /\ audio' = audio
    BY DEF Dequeue, Alive, StateDeleted, Deleted
<1>2. /\ queue \in Seq(Nat) /\ audio \in Seq(Nat) /\ decoded \in Seq(Nat)
      /\ decoded \o queue = audio
    BY <1>1 DEF IInv, Packets, PacketsHandedOver, Deleted
<1>3. CASE queue = <<>>
    BY <1>1, <1>3, QuietStep DEF Dequeue, IInv, Packets, Deleted
<1>4. CASE queue # <<>>
    <2>1. /\ queue' = Tail(queue) /\ decoded' = Append(decoded, Head(queue))
          /\ callback' = "decode"
        BY <1>4 DEF Dequeue
    <2>2. Head(queue) \in Nat /\ Tail(queue) \in Seq(Nat)
        BY <1>2, <1>4, HeadTailProperties
    <2>3. queue' \in Seq(Nat) /\ decoded' \in Seq(Nat)
        BY <1>2, <2>1, <2>2, AppendProperties
    <2>4. decoded' \o queue' = audio'
        BY <1>1, <1>2, <1>4, <2>1, MoveHead
    <2>5. IsPrefix(decoded', audio')
        BY <2>3, <2>4, PrefixOfConcat
    <2> QED
        BY <1>1, <1>2, <2>1, <2>3, <2>4, <2>5 DEF IInv, Packets, PacketsHandedOver
<1> QED
    BY <1>3, <1>4

(* main deletes the queue: what was handed over stays a prefix.               *)
LEMMA DeleteStatePreserves ==
    ASSUME IInv, DeleteState
    PROVE  IInv'
<1>1. /\ main' = "audio" /\ queue' = <<>>
      /\ audio' = audio /\ decoded' = decoded
    BY DEF DeleteState, sound
<1>2. <<>> \in Seq(Nat)
    BY EmptySeq
<1> QED
    BY <1>1, <1>2 DEF IInv, Packets, PacketsHandedOver

(* Every step keeps the invariant.                                            *)
THEOREM StepPreserves == IInv /\ [Next]_vars => IInv'
<1> SUFFICES ASSUME IInv, [Next]_vars PROVE IInv'
    OBVIOUS
<1> USE QuietStep
<1>0. main \in {"open", "read", "poll", "frames", "window", "state", "audio",
                "exited", "crashed"}
    BY DEF IInv, Packets
<1>1. CASE Open
    BY <1>1 DEF Open, Deleted, sound
<1>2. CASE OpenFails
    BY <1>2 DEF OpenFails, Deleted, sound
<1>3. CASE ReadFrame
    BY <1>3, ReadFramePreserves
<1>4. CASE PollEvent
    BY <1>4 DEF PollEvent, Deleted, sound
<1>5. CASE EndOfFile
    BY <1>5 DEF EndOfFile, Deleted, sound
<1>6. CASE FreeFrames
    BY <1>6 DEF FreeFrames, Deleted, sound
<1>7. CASE DestroyWindow
    BY <1>7 DEF DestroyWindow, Deleted, sound
<1>8. CASE DeleteState
    BY <1>8, DeleteStatePreserves
<1>9. CASE CloseAudio
    BY <1>9 DEF CloseAudio, Deleted
<1>10. CASE Callback
    BY <1>0, <1>10 DEF Callback, Deleted
<1>11. CASE Dequeue
    BY <1>11, DequeuePreserves
<1>12. ASSUME NEW n \in {0, PacketSamples}, Decode(n) PROVE IInv'
    <2>1. callback' # "wait" /\ UNCHANGED <<main, queue, audio, decoded>>
        BY <1>12 DEF Decode
    <2> QED
        BY <1>0, <2>1 DEF Deleted
<1>13. CASE UseFreed
    BY <1>13 DEF UseFreed, Deleted, sound
<1>14. CASE UserCloses
    BY <1>0, <1>14 DEF UserCloses, Deleted, sound
<1>15. CASE UNCHANGED vars
    BY <1>0, <1>15 DEF vars, Deleted, sound
<1> QED
    BY <1>1, <1>2, <1>3, <1>4, <1>5, <1>6, <1>7, <1>8, <1>9, <1>10, <1>11, <1>12,
       <1>13, <1>14, <1>15 DEF Next, Main, AudioThread

(* The audio thread gets the packets of the file, in order and each once, and *)
(* does not sleep while there is one (simple_player2.cpp:51-57, 62-83).       *)
THEOREM HandedOver == Spec => []PacketsHandedOver
<1>1. IInv => PacketsHandedOver
    BY DEF IInv
<1> QED
    BY <1>1, InitEstablishes, StepPreserves, PTL DEF Spec

-----------------------------------------------------------------------------
(* Frames                                                                     *)

(* The frame of a packet that was given to the decoder is shown, held back or *)
(* lost with a call that failed; and none is held back once main is at its    *)
(* end, unless it was told to leave before or the flush failed.               *)
Frames ==
    /\ held \in Nat /\ rendered \in Nat /\ sent \in Nat /\ failures \in Nat
    /\ rendered + held <= sent
    /\ flush # "failed" => sent <= rendered + held + failures
    /\ main \in {"open", "read", "poll"} => flush # "failed"
    /\ main \in {"frames", "window", "state", "audio"} /\ event # "quit" /\ flush # "failed" =>
           held = 0

LEMMA InitFrames == Init => Frames
    BY DEF Init, Frames

LEMMA NextFrames == Frames /\ [Next]_vars => Frames'
<1> SUFFICES ASSUME Frames, [Next]_vars PROVE Frames'
    OBVIOUS
<1> USE DEF Frames
<1>1. CASE ReadFrame
    <2>1. main = "read" /\ main' = "poll" /\ (VideoDecode \/ UNCHANGED video)
        BY <1>1 DEF ReadFrame
    <2>2. CASE UNCHANGED video
        BY <2>1, <2>2 DEF video
    <2>3. CASE VideoDecode
        <3>1. /\ held' \in Nat /\ rendered' \in Nat
              /\ sent' \in Nat /\ failures' \in Nat
              /\ rendered' + held' <= sent' /\ flush' = flush
              /\ flush # "failed" => sent' <= rendered' + held' + failures'
            BY <2>3, PlayerAssumption DEF VideoDecode, ReceiveFails
        <3> QED
            BY <2>1, <3>1
    <2> QED
        BY <2>1, <2>2, <2>3
<1>2. CASE EndOfFile
    <2>1. /\ main = "read" /\ main' = "frames"
          /\ sent' = sent /\ failures' = failures /\ event' = event
        BY <1>2 DEF EndOfFile
    <2>2. CASE held' = 0 /\ rendered' = rendered + held /\ flush' = "done"
        BY <2>1, <2>2
    <2>3. CASE ReceiveFails(held) /\ flush' = "failed"
        <3>0. flush' = "failed"
            BY <2>3
        <3>1. PICK shown \in 0..held : /\ rendered' = rendered + shown
                                       /\ held' \in {held - shown, held - shown - 1} \cap Nat
            BY <2>3, Zenon DEF ReceiveFails
        <3>2. PICK h \in Nat, r \in Nat, s \in Nat, H \in Nat, R \in Nat :
                  /\ h = held /\ r = rendered /\ s = sent /\ r + h <= s
                  /\ H = held' /\ R = rendered'
            BY <3>1
        <3>3. R = r + shown /\ (H = h - shown \/ H = h - shown - 1)
            BY <3>1, <3>2
        <3>4. R + H <= r + h
            BY <3>3
        <3>5. R + H <= s
            <4>1. r + h <= s
                BY <3>2
            <4> HIDE DEF Frames
            <4> QED
                BY <3>4, <4>1
        <3> QED
            BY <2>1, <3>0, <3>2, <3>5
    <2> QED
        BY <1>2, <2>2, <2>3 DEF EndOfFile
<1>3. CASE PollEvent
    BY <1>3 DEF PollEvent, video
<1>4. CASE Open \/ OpenFails
    BY <1>4 DEF Open, OpenFails, video
<1>5. CASE FreeFrames \/ DestroyWindow \/ DeleteState \/ CloseAudio
    BY <1>5 DEF FreeFrames, DestroyWindow, DeleteState, CloseAudio, video
<1>6. CASE Callback \/ Dequeue \/ UseFreed \/ UserCloses
    BY <1>6 DEF Callback, Dequeue, UseFreed, UserCloses, video
<1>7. ASSUME NEW n \in {0, PacketSamples}, Decode(n) PROVE Frames'
    BY <1>7 DEF Decode, video
<1>8. CASE UNCHANGED vars
    BY <1>8 DEF vars, video
<1> QED
    BY <1>1, <1>2, <1>3, <1>4, <1>5, <1>6, <1>7, <1>8 DEF Next, Main, AudioThread

(* Whatever the decoder holds back, and whichever of its calls fail: at the   *)
(* end of the file at most one frame is missing per call that failed, unless  *)
(* the flush itself failed.                                                   *)
THEOREM FramesShown == Spec => []EveryFrameShown
<1>1. Frames => EveryFrameShown
    BY DEF Frames, EveryFrameShown
<1> QED
    BY <1>1, InitFrames, NextFrames, PTL DEF Spec

-----------------------------------------------------------------------------
(* Samples                                                                    *)

Calling == callback \in {"lock", "wait", "decode"}

SoundTypes ==
    /\ callback \in {"off", "idle", "lock", "wait", "decode"}
    /\ need \in Nat
    /\ heard \in Seq(Nat \X Nat)

(* Audio packets are numbered in the order of the file.                       *)
Numbered == \A i \in 1..Len(audio) : audio[i] = i

(* What a call has filled in and what it still needs make up the call.        *)
CallFills == Calling => need > 0 /\ Len(heard) + need = CallSamples

(* The packet being decoded is the last that was handed over.                 *)
PacketIsLast == callback = "decode" => Len(decoded) > 0 /\ packet = Len(decoded)

(* While a call goes on, the packets before the one being decoded were heard  *)
(* to their end.                                                              *)
HeardToEnd ==
    Calling /\ heard # <<>> =>
        heard[Len(heard)]
            = <<IF callback = "decode" THEN Len(decoded) - 1 ELSE Len(decoded), PacketSamples>>

SInv == SoundTypes /\ Numbered /\ CallFills /\ PacketIsLast /\ HeardToEnd /\ SoundInOrder

LEMMA InitSInv == Init => SInv
<1> SUFFICES ASSUME Init PROVE SInv
    OBVIOUS
<1>1. callback = "off" /\ need = 0 /\ heard = <<>> /\ audio = <<>>
    BY DEF Init
<1>2. <<>> \in Seq(Nat \X Nat) /\ Len(<<>>) = 0
    BY EmptySeq
<1> QED
    BY <1>1, <1>2, PlayerAssumption
    DEF SInv, SoundTypes, Numbered, CallFills, PacketIsLast, HeardToEnd, SoundInOrder, Calling

(* A step that neither decodes nor fills in, and begins no call.              *)
LEMMA QuietSound ==
    ASSUME SInv, UNCHANGED <<audio, packet, need, heard, decoded>>,
           \/ callback' = callback
           \/ callback \in {"lock", "wait"} /\ callback' \in {"lock", "wait"}
           \/ callback' \in {"off", "idle"}
    PROVE  SInv'
    BY DEF SInv, SoundTypes, Numbered, CallFills, PacketIsLast, HeardToEnd, SoundInOrder, Calling

LEMMA EnqueueSound ==
    ASSUME IInv, SInv, Enqueue(Len(audio) + 1), UNCHANGED <<packet, need, heard, decoded>>
    PROVE  SInv'
<1>1. audio \in Seq(Nat) /\ audio' = Append(audio, Len(audio) + 1)
    BY DEF IInv, Packets, Enqueue
<1>2. callback' = IF callback = "wait" THEN "lock" ELSE callback
    BY DEF Enqueue
<1>3. Numbered'
    <2>1. /\ Len(audio) \in Nat /\ Len(audio') = Len(audio) + 1
          /\ \A i \in 1..Len(audio) : audio'[i] = audio[i]
          /\ audio'[Len(audio) + 1] = Len(audio) + 1
        BY <1>1, AppendProperties, LenProperties
    <2>2. \A i \in 1..(Len(audio) + 1) : i \in 1..Len(audio) \/ i = Len(audio) + 1
        BY <2>1
    <2> QED
        BY <2>1, <2>2 DEF SInv, Numbered
<1> QED
    BY <1>2, <1>3
    DEF SInv, SoundTypes, CallFills, PacketIsLast, HeardToEnd, SoundInOrder, Calling

(* The packet that is taken is the one that follows the last.                 *)
LEMMA DequeueSound ==
    ASSUME IInv, IInv', SInv, Dequeue
    PROVE  SInv'
<1>1. UNCHANGED <<audio, need, heard>> /\ callback = "lock"
    BY DEF Dequeue
<1>2. CASE queue = <<>>
    BY <1>1, <1>2, QuietSound DEF Dequeue
<1>3. CASE queue # <<>>
    <2>1. /\ packet' = Head(queue) /\ decoded' = Append(decoded, packet')
          /\ callback' = "decode"
        BY <1>3 DEF Dequeue
    <2>2. decoded \in Seq(Nat) /\ Head(queue) \in Nat /\ decoded' \in Seq(Nat)
        BY <1>3, HeadTailProperties DEF IInv, Packets
    <2>3. /\ Len(decoded) \in Nat /\ Len(decoded') = Len(decoded) + 1
          /\ decoded'[Len(decoded) + 1] = packet'
        BY <2>1, <2>2, AppendProperties, LenProperties
    <2>4. IsPrefix(decoded', audio) /\ audio \in Seq(Nat)
        BY <1>1 DEF IInv, Packets, PacketsHandedOver
    <2>5. Len(decoded') <= Len(audio) /\ decoded' = SubSeq(audio, 1, Len(decoded'))
        BY <2>2, <2>4 DEF IsPrefix
    <2>6. Len(decoded') \in 1..Len(audio) /\ Len(audio) \in Nat
        BY <2>3, <2>4, <2>5, LenProperties
    <2>7. decoded'[Len(decoded')] = audio[Len(decoded')]
        BY <2>4, <2>5, <2>6
    <2>8. packet' = Len(decoded')
        BY <2>3, <2>6, <2>7 DEF SInv, Numbered
    <2>9. Len(decoded') - 1 = Len(decoded)
        BY <2>3
    <2>10. SoundTypes' /\ Numbered' /\ CallFills' /\ SoundInOrder'
        BY <1>1, <2>1 DEF SInv, SoundTypes, Numbered, CallFills, SoundInOrder, Calling
    <2>11. PacketIsLast'
        BY <2>3, <2>8 DEF PacketIsLast
    <2>12. HeardToEnd'
        <3>1. heard # <<>> => heard[Len(heard)] = <<Len(decoded), PacketSamples>>
            BY <1>1 DEF SInv, HeardToEnd, Calling
        <3> QED
            BY <1>1, <2>1, <2>9, <3>1 DEF HeardToEnd
    <2> QED
        BY <2>10, <2>11, <2>12 DEF SInv
<1> QED
    BY <1>2, <1>3

LEMMA CallbackSound ==
    ASSUME SInv, Callback
    PROVE  SInv'
<1>1. /\ callback' = "lock" /\ need' = CallSamples /\ heard' = <<>>
      /\ UNCHANGED <<audio, packet, decoded>>
    BY DEF Callback
<1>2. <<>> \in Seq(Nat \X Nat) /\ Len(<<>>) = 0
    BY EmptySeq
<1> QED
    BY <1>1, <1>2, PlayerAssumption
    DEF SInv, SoundTypes, Numbered, CallFills, PacketIsLast, HeardToEnd, SoundInOrder, Calling

(* The samples of a packet follow those of the packet before it.              *)
LEMMA DecodeSound ==
    ASSUME IInv, SInv, NEW n \in {0, PacketSamples}, Decode(n)
    PROVE  SInv'
<1>1. /\ callback = "decode"
      /\ heard' = heard \o [i \in 1..Fill(n) |-> <<packet, i>>]
      /\ need' = (IF n = 0 THEN 0 ELSE need - Fill(n))
      /\ callback' = (IF need' = 0 THEN "idle" ELSE "lock")
      /\ UNCHANGED <<audio, decoded>>
    BY DEF Decode
<1>2. PICK f \in Nat : f = Fill(n)
    BY PlayerAssumption DEF Fill, SInv, SoundTypes
<1>3. PICK k \in Nat : k = Len(heard)
    BY LenProperties DEF SInv, SoundTypes
<1>4. /\ need \in Nat /\ need > 0 /\ k + need = CallSamples
      /\ n \in Nat /\ PacketSamples \in Nat \ {0} /\ CallSamples \in Nat
    BY <1>1, <1>3, PlayerAssumption DEF SInv, SoundTypes, CallFills, Calling
<1>5. f <= need /\ f <= n /\ (f = n \/ f = need)
    BY <1>2, <1>4 DEF Fill
<1>6. packet \in Nat /\ packet = Len(decoded) /\ heard \in Seq(Nat \X Nat)
    BY <1>1, LenProperties DEF SInv, PacketIsLast, SoundTypes, IInv, Packets
<1> DEFINE more == [i \in 1..f |-> <<packet, i>>]
<1>7. more \in Seq(Nat \X Nat) /\ Len(more) = f /\ \A i \in 1..f : more[i] = <<packet, i>>
    <2>1. \A i \in 1..f : more[i] \in Nat \X Nat
        BY <1>6
    <2>2. more \in Seq(Nat \X Nat)
        BY <2>1, IsASeq
    <2> QED
        BY <2>2
<1>8. heard' = heard \o more
    BY <1>1, <1>2
<1> HIDE DEF more
<1>9. /\ heard' \in Seq(Nat \X Nat) /\ Len(heard') = k + f
      /\ \A i \in 1..k : heard'[i] = heard[i]
      /\ \A i \in 1..f : heard'[k + i] = <<packet, i>>
    <2>1. /\ heard' \in Seq(Nat \X Nat) /\ Len(heard') = k + f
          /\ \A i \in 1..(k + f) : heard'[i] = IF i <= k THEN heard[i] ELSE more[i - k]
        BY <1>3, <1>6, <1>7, <1>8, ConcatProperties
    <2>2. \A i \in 1..f : k + i \in 1..(k + f) /\ ~(k + i <= k) /\ (k + i) - k = i
        OBVIOUS
    <2>3. \A i \in 1..k : i \in 1..(k + f) /\ i <= k
        OBVIOUS
    <2> QED
        BY <1>7, <2>1, <2>2, <2>3
<1>10. need' \in Nat /\ (need' > 0 => n = PacketSamples /\ f = n /\ need' = need - f)
    BY <1>1, <1>2, <1>4, <1>5
<1>11. SoundTypes'
    BY <1>1, <1>9, <1>10 DEF SoundTypes
<1>12. CallFills' /\ PacketIsLast'
    <2>1. ASSUME callback' = "lock"
          PROVE  need' > 0 /\ Len(heard') + need' = CallSamples
        <3>1. need' > 0
            BY <1>1, <1>10, <2>1
        <3>2. need' = need - f /\ Len(heard') = k + f
            BY <1>9, <1>10, <3>1
        <3> QED
            BY <1>4, <3>1, <3>2
    <2> QED
        BY <1>1, <2>1 DEF CallFills, PacketIsLast, Calling
<1>13. HeardToEnd'
    <2>1. SUFFICES ASSUME callback' = "lock"
                   PROVE  heard'[Len(heard')] = <<Len(decoded), PacketSamples>>
        BY <1>1 DEF HeardToEnd, Calling
    <2>2. need' > 0
        BY <1>1, <1>10, <2>1
    <2>3. f \in 1..f /\ f = PacketSamples
        BY <1>4, <1>10, <2>2
    <2> QED
        BY <1>6, <1>9, <2>3
<1>14. SoundInOrder'
    <2>1. Len(heard') <= CallSamples
        BY <1>4, <1>5, <1>9
    <2>2. ASSUME NEW i \in 1..(Len(heard') - 1)
          PROVE  LET s == heard'[i] t == heard'[i + 1]
                 IN  t = <<s[1], s[2] + 1>> \/ (t = <<s[1] + 1, 1>> /\ s[2] = PacketSamples)
        <3>1. i \in 1..(k + f - 1)
            BY <1>9
        <3>2. CASE i < k
            <4>1. i \in 1..(Len(heard) - 1) /\ heard'[i] = heard[i] /\ heard'[i + 1] = heard[i + 1]
                <5>1. i \in 1..k /\ i + 1 \in 1..k /\ i \in 1..(k - 1)
                    BY <3>1, <3>2
                <5> QED
                    BY <1>3, <1>9, <5>1
            <4> QED
                BY <4>1 DEF SInv, SoundInOrder
        <3>3. CASE i = k
            <4>1. heard # <<>> /\ heard'[i] = heard[Len(heard)] /\ 1 \in 1..f
                BY <1>3, <1>9, <3>1, <3>3, EmptySeq
            <4>2. heard'[i] = <<Len(decoded) - 1, PacketSamples>>
                BY <1>1, <4>1 DEF SInv, HeardToEnd, Calling
            <4>3. heard'[i + 1] = <<packet, 1>>
                BY <1>9, <3>3, <4>1
            <4>4. (packet - 1) + 1 = packet
                BY <1>6
            <4> QED
                BY <1>6, <4>2, <4>3, <4>4
        <3>4. CASE i > k
            <4>1. PICK j \in 1..f : i = k + j /\ j + 1 \in 1..f
                <5>1. i - k \in 1..f /\ i = k + (i - k) /\ (i - k) + 1 \in 1..f
                    BY <3>1, <3>4
                <5> QED
                    BY <5>1
            <4>2. heard'[i] = <<packet, j>> /\ heard'[k + (j + 1)] = <<packet, j + 1>>
                BY <1>9, <4>1
            <4>3. i + 1 = k + (j + 1)
                BY <4>1
            <4> QED
                BY <4>2, <4>3
        <3> QED
            BY <3>1, <3>2, <3>3, <3>4
    <2> QED
        BY <2>1, <2>2 DEF SoundInOrder
<1>15. Numbered'
    BY <1>1 DEF SInv, Numbered
<1> QED
    BY <1>11, <1>12, <1>13, <1>14, <1>15 DEF SInv

LEMMA NextSInv ==
    ASSUME IInv, IInv', SInv, [Next]_vars
    PROVE  SInv'
<1> USE QuietSound
<1>1. CASE ReadFrame
    <2>1. /\ UNCHANGED <<packet, need, heard, decoded>>
          /\ UNCHANGED <<audio, callback>> \/ Enqueue(Len(audio) + 1)
        BY <1>1 DEF ReadFrame
    <2> QED
        BY <2>1, EnqueueSound
<1>2. CASE Open \/ OpenFails
    BY <1>2 DEF Open, OpenFails, sound, SInv, PacketIsLast
<1>3. CASE PollEvent \/ EndOfFile \/ FreeFrames \/ DestroyWindow \/ DeleteState
    BY <1>3 DEF PollEvent, EndOfFile, FreeFrames, DestroyWindow, DeleteState, sound
<1>4. CASE CloseAudio
    BY <1>4 DEF CloseAudio
<1>5. CASE UseFreed \/ UserCloses
    BY <1>5 DEF UseFreed, UserCloses, sound
<1>6. CASE UNCHANGED vars
    BY <1>6 DEF vars, sound
<1> QED
    BY <1>1, <1>2, <1>3, <1>4, <1>5, <1>6, CallbackSound, DequeueSound, DecodeSound
    DEF Next, Main, AudioThread

(* For packets and calls of any size, and packets that do not decode: within  *)
(* a call of read_audio_callback the samples follow one another.              *)
THEOREM SoundOrdered == Spec => []SoundInOrder
<1>1. SInv => SoundInOrder
    BY DEF SInv
<1> QED
    BY <1>1, InitEstablishes, StepPreserves, InitSInv, NextSInv, PTL DEF Spec

-----------------------------------------------------------------------------
(* The players of raw files                                                   *)

Kinds == {"SDL_QUIT", "REFRESH_EVENT", "THREAD_QUIT"}

RawTypes ==
    /\ program \in {"pcm", "yuv"}
    /\ loop \in {"wait", "close", "files", "exited"}
    /\ pending \in Seq(Kinds)
    /\ {blocks, clicks} \subseteq Nat

Queued(e) == \E i \in DOMAIN pending : pending[i] = e

(* pcm_player.c has no thread, and only SDL_QUIT is pushed to its main.       *)
PcmAlone ==
    program = "pcm" => ticker = "ended" /\ ~Queued("REFRESH_EVENT") /\ ~Queued("THREAD_QUIT")

(* yuv_player.c has no audio device.                                          *)
YuvSilent == program = "yuv" => device = "off" /\ loop # "close"

(* The thread says that it has ended when it has.                             *)
LastWord == Queued("THREAD_QUIT") \/ loop = "files" => ticker = "ended"

DeviceClosed == loop = "files" => device = "off"

(* While the user has not closed the player, the first SDL_QUIT is the        *)
(* callback's, at the end of the file.                                        *)
QuitAtEnd ==
    program = "pcm" /\ clicks = 0 /\ (Queued("SDL_QUIT") \/ loop \in {"close", "files"}) =>
        blocks = 0 /\ ~rest

RawInv == RawTypes /\ PcmAlone /\ YuvSilent /\ LastWord /\ DeviceClosed /\ QuitAtEnd

(* What is queued after a push and after the head was taken.                  *)
LEMMA Pushed ==
    ASSUME RawTypes, NEW e \in Kinds, Raw!SDL_PushEvent(e)
    PROVE  /\ pending' \in Seq(Kinds)
           /\ \A k : k # e => (Queued(k)' <=> Queued(k))
<1>1. pending \in Seq(Kinds) /\ Len(pending) \in Nat /\ DOMAIN pending = 1..Len(pending)
    BY LenProperties DEF RawTypes
<1>2. CASE pending' = pending
    BY <1>1, <1>2 DEF Queued
<1>3. CASE pending' = Append(pending, e)
    <2>1. /\ pending' \in Seq(Kinds) /\ Len(pending') = Len(pending) + 1
          /\ \A i \in 1..Len(pending) : pending'[i] = pending[i]
          /\ pending'[Len(pending) + 1] = e
        BY <1>1, <1>3, AppendProperties
    <2>2. DOMAIN pending' = 1..(Len(pending) + 1)
        BY <2>1, LenProperties
    <2>3. \A i \in DOMAIN pending' : i \in DOMAIN pending \/ i = Len(pending) + 1
        BY <1>1, <2>2
    <2>4. \A i \in DOMAIN pending : i \in DOMAIN pending' /\ pending'[i] = pending[i]
        BY <1>1, <2>1, <2>2
    <2>5. ASSUME NEW k, k # e PROVE Queued(k)' <=> Queued(k)
        BY <2>1, <2>3, <2>4, <2>5 DEF Queued
    <2> QED
        BY <2>1, <2>5
<1> QED
    BY <1>2, <1>3 DEF Raw!SDL_PushEvent

LEMMA Taken ==
    ASSUME RawTypes, NEW e, Raw!Event(e)
    PROVE  /\ pending' \in Seq(Kinds)
           /\ loop = "wait"
           /\ Queued(e)
           /\ \A k : Queued(k)' => Queued(k)
<1>1. pending \in Seq(Kinds) /\ pending # <<>> /\ Head(pending) = e /\ pending' = Tail(pending)
      /\ loop = "wait"
    BY DEF RawTypes, Raw!Event
<1>2. Len(pending) \in Nat \ {0} /\ DOMAIN pending = 1..Len(pending)
    BY <1>1, LenProperties, EmptySeq
<1>3. /\ pending' \in Seq(Kinds) /\ Len(pending') = Len(pending) - 1
      /\ \A i \in 1..Len(pending') : pending'[i] = pending[i + 1]
    BY <1>1, HeadTailProperties
<1>4. \A i \in DOMAIN pending' : i + 1 \in DOMAIN pending /\ pending'[i] = pending[i + 1]
    BY <1>2, <1>3, LenProperties
<1>5. 1 \in DOMAIN pending /\ pending[1] = e
    BY <1>1, <1>2
<1> QED
    BY <1>1, <1>3, <1>4, <1>5 DEF Queued

LEMMA RawInit == Raw!Init => RawInv
<1> SUFFICES ASSUME Raw!Init PROVE RawInv
    OBVIOUS
<1>1. /\ program \in {"pcm", "yuv"} /\ loop = "wait" /\ pending = <<>> /\ clicks = 0
      /\ ticker = (IF program = "yuv" THEN "test" ELSE "ended")
      /\ device = (IF program = "pcm" THEN "idle" ELSE "off")
      /\ blocks \in Nat
    BY FileAssumption DEF Raw!Init
<1>2. <<>> \in Seq(Kinds) /\ \A k : ~Queued(k)
    BY <1>1, EmptySeq DEF Queued
<1> QED
    BY <1>1, <1>2 DEF RawInv, RawTypes, PcmAlone, YuvSilent, LastWord, DeviceClosed, QuitAtEnd

LEMMA RawStep == RawInv /\ Raw!Next => RawInv'
<1> SUFFICES ASSUME RawInv, Raw!Next PROVE RawInv'
    OBVIOUS
<1> USE DEF RawInv, PcmAlone, YuvSilent, LastWord, DeviceClosed, QuitAtEnd
<1>1. CASE Raw!TickerTests
    BY <1>1 DEF Raw!TickerTests, Raw!file, RawTypes, Queued
<1>2. CASE Raw!TickerPushes
    <2>1. /\ Raw!SDL_PushEvent("REFRESH_EVENT") /\ ticker = "push" /\ ticker' = "test"
          /\ UNCHANGED <<program, blocks, rest, loop, device, clicks>>
        BY <1>2 DEF Raw!TickerPushes, Raw!file
    <2>2. pending' \in Seq(Kinds) /\ \A k : k # "REFRESH_EVENT" => (Queued(k)' <=> Queued(k))
        BY <2>1, Pushed DEF Kinds
    <2>3. Queued("THREAD_QUIT")' <=> Queued("THREAD_QUIT")
        BY <2>2
    <2> QED
        BY <2>1, <2>2, <2>3 DEF RawTypes
<1>3. CASE Raw!TickerEnds
    <2>1. /\ Raw!SDL_PushEvent("THREAD_QUIT") /\ ticker = "last" /\ ticker' = "ended"
          /\ UNCHANGED <<program, blocks, rest, loop, device, clicks>>
        BY <1>3 DEF Raw!TickerEnds, Raw!file
    <2>2. pending' \in Seq(Kinds)
        BY <2>1, Pushed DEF Kinds
    <2> QED
        BY <2>1, <2>2 DEF RawTypes
<1>4. CASE Raw!DrawFrame
    <2>1. /\ Raw!Event("REFRESH_EVENT") /\ loop' \in {"wait", "exited"}
          /\ UNCHANGED <<program, ticker, device, clicks>>
        BY <1>4 DEF Raw!DrawFrame
    <2>0. blocks' \in Nat
        BY <1>4 DEF Raw!DrawFrame, RawTypes
    <2>2. /\ pending' \in Seq(Kinds) /\ Queued("REFRESH_EVENT")
          /\ \A k : Queued(k)' => Queued(k)
        BY <2>1, Taken
    <2>3. program = "yuv"
        BY <2>2 DEF RawTypes
    <2> QED
        BY <2>1, <2>0, <2>2, <2>3 DEF RawTypes
<1>5. CASE Raw!ThreadHasQuit
    <2>1. /\ Raw!Event("THREAD_QUIT") /\ loop' = "files"
          /\ UNCHANGED <<program, blocks, rest, ticker, device, clicks>>
        BY <1>5 DEF Raw!ThreadHasQuit, Raw!file
    <2>2. /\ pending' \in Seq(Kinds) /\ Queued("THREAD_QUIT")
          /\ \A k : Queued(k)' => Queued(k)
        BY <2>1, Taken
    <2>3. program = "yuv"
        BY <2>2 DEF RawTypes
    <2> QED
        BY <2>1, <2>2, <2>3 DEF RawTypes
<1>6. CASE Raw!DeviceCalls
    BY <1>6 DEF Raw!DeviceCalls, Raw!file, RawTypes, Queued
<1>7. CASE Raw!ReadAudio
    <2>1. /\ loop # "exited" /\ device = "read" /\ device' = "idle"
          /\ UNCHANGED <<program, loop, ticker, clicks>>
        BY <1>7 DEF Raw!ReadAudio
    <2>2. program = "pcm" /\ loop # "files"
        BY <2>1 DEF RawTypes
    <2>0. blocks' \in Nat
        BY <1>7 DEF Raw!ReadAudio, Raw!file, RawTypes
    <2>3. CASE UNCHANGED pending /\ (blocks > 0 \/ rest)
        BY <2>0, <2>1, <2>2, <2>3 DEF RawTypes, Queued
    <2>4. CASE Raw!SDL_PushEvent("SDL_QUIT") /\ UNCHANGED <<blocks, rest>> /\ ~(blocks > 0) /\ ~rest
        <3>1. pending' \in Seq(Kinds) /\ \A k : k # "SDL_QUIT" => (Queued(k)' <=> Queued(k))
            BY <2>4, Pushed DEF Kinds
        <3>2. /\ Queued("REFRESH_EVENT")' <=> Queued("REFRESH_EVENT")
              /\ Queued("THREAD_QUIT")' <=> Queued("THREAD_QUIT")
            BY <3>1
        <3>3. blocks' = 0 /\ ~rest'
            BY <2>4 DEF RawTypes
        <3> QED
            BY <2>1, <2>2, <2>4, <3>1, <3>2, <3>3 DEF RawTypes
    <2> QED
        BY <1>7, <2>3, <2>4 DEF Raw!ReadAudio, Raw!file
<1>8. CASE Raw!CloseDevice
    BY <1>8 DEF Raw!CloseDevice, Raw!file, RawTypes, Queued
<1>9. CASE Raw!Quit
    <2>1. /\ Raw!Event("SDL_QUIT")
          /\ loop' = (IF program = "pcm" THEN "close" ELSE loop)
          /\ UNCHANGED <<program, blocks, rest, ticker, device, clicks>>
        BY <1>9 DEF Raw!Quit, Raw!file
    <2>2. /\ pending' \in Seq(Kinds) /\ Queued("SDL_QUIT") /\ loop = "wait"
          /\ \A k : Queued(k)' => Queued(k)
        BY <2>1, Taken
    <2> QED
        BY <2>1, <2>2 DEF RawTypes
<1>10. CASE Raw!CloseFile
    BY <1>10 DEF Raw!CloseFile, Raw!file, RawTypes, Queued
<1>11. CASE Raw!UserQuits
    <2>1. /\ Raw!SDL_PushEvent("SDL_QUIT") /\ clicks' = clicks + 1
          /\ UNCHANGED <<program, blocks, rest, loop, ticker, device>>
        BY <1>11 DEF Raw!UserQuits, Raw!file
    <2>2. pending' \in Seq(Kinds) /\ \A k : k # "SDL_QUIT" => (Queued(k)' <=> Queued(k))
        BY <2>1, Pushed DEF Kinds
    <2>3. /\ Queued("REFRESH_EVENT")' <=> Queued("REFRESH_EVENT")
          /\ Queued("THREAD_QUIT")' <=> Queued("THREAD_QUIT")
        BY <2>2
    <2> QED
        BY <2>1, <2>2, <2>3 DEF RawTypes
<1> QED
    BY <1>1, <1>2, <1>3, <1>4, <1>5, <1>6, <1>7, <1>8, <1>9, <1>10, <1>11
    DEF Raw!Next, Raw!Ticker, Raw!Device, Raw!MainLoop

LEMMA RawQuiet == RawInv /\ UNCHANGED rawVars => RawInv'
    BY DEF RawInv, RawTypes, PcmAlone, YuvSilent, LastWord, DeviceClosed, QuitAtEnd, Queued, rawVars

(* For files of any length and an event queue of any size: when main closes   *)
(* the file, the thread has ended and the device calls no more; and of a file *)
(* that the user has not closed every sample was read.                        *)
THEOREM NoneInUse == MCSpec => []OthersHaveEnded
<1>1. MCInit => RawInv
    BY RawInit DEF MCInit
<1>2. RawInv /\ [DecodingPlayer \/ RawFilePlayer]_<<raw, vars, rawVars>> => RawInv'
    BY RawStep, RawQuiet DEF DecodingPlayer, RawFilePlayer
<1>3. RawInv => OthersHaveEnded
    BY DEF RawInv, LastWord, DeviceClosed, QuitAtEnd, OthersHaveEnded, Raw!OthersHaveEnded
<1> QED
    BY <1>1, <1>2, <1>3, PTL DEF MCSpec
=============================================================================
