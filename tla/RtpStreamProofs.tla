--------------------------- MODULE RtpStreamProofs ---------------------------
(* For every payload size, width of the sequence number and set of unit       *)
(* lengths: the fragments of a unit tile it, a receiver puts together the     *)
(* units that were sent, and the packets of a stream carry numbers and times  *)
(* in order.                                                                  *)
EXTENDS RtpStream, SequenceTheorems, TLAPS

P == RTP_PAYLOAD_MAX_SIZE
W == UINT16_MAX
M == TsModulus
Programs == {"h264_tcp", "h265_tcp", "h264_udp"}

-----------------------------------------------------------------------------
(* Arithmetic                                                                 *)

(* Quotient and remainder.                                                    *)
LEMMA DivMod ==
    ASSUME NEW n \in Nat, NEW k \in Nat \ {0}
    PROVE  /\ n \div k \in Nat
           /\ n % k \in 0..(k - 1)
           /\ n = k * (n \div k) + (n % k)
    OBVIOUS

(* A number below the modulus is its own remainder.                           *)
LEMMA SmallMod ==
    ASSUME NEW k \in Nat \ {0}, NEW n \in 0..(k - 1)
    PROVE  n % k = n
    BY SMT

(* A remainder is determined by any decomposition.                            *)
LEMMA ModUnique ==
    ASSUME NEW k \in Nat \ {0}, NEW x \in Nat, NEW y \in Nat,
           NEW r \in 0..(k - 1), NEW s \in 0..(k - 1), k * x + r = k * y + s
    PROVE  r = s
<1>1. ASSUME NEW a \in Nat, NEW b \in Nat, a < b
      PROVE  k * b >= k * a + k
    <2>1. PICK d \in Nat : b = a + 1 + d
        <3>1. b - a - 1 \in Nat /\ b = a + 1 + (b - a - 1)
            BY <1>1
        <3> QED
            BY <3>1
    <2>2. k * b = k * a + k + k * d
        BY <2>1
    <2>3. k * d \in Nat /\ k * a \in Nat
        OBVIOUS
    <2> QED
        BY <2>2, <2>3
<1>2. k * x \in Nat /\ k * y \in Nat
    OBVIOUS
<1>3. CASE x < y
    BY <1>1, <1>2, <1>3
<1>4. CASE y < x
    BY <1>1, <1>2, <1>4
<1>5. CASE x = y
    BY <1>2, <1>5
<1> QED
    BY <1>3, <1>4, <1>5

(* A remainder may be taken before an addition.                               *)
LEMMA ModAdd ==
    ASSUME NEW k \in Nat \ {0}, NEW a \in Nat, NEW t \in Nat
    PROVE  ((a % k) + t) % k = (a + t) % k
<1> DEFINE r == a % k
<1>1. r \in 0..(k - 1) /\ a \div k \in Nat /\ a = k * (a \div k) + r
    BY DivMod
<1> DEFINE q == a \div k
<1> HIDE DEF r, q
<1>2. q \in Nat /\ a = k * q + r /\ r \in 0..(k - 1)
    BY <1>1 DEF q
<1>3. r + t \in Nat /\ a + t \in Nat
    BY <1>2
<1> DEFINE left  == (r + t) % k
           right == (a + t) % k
<1>4. PICK x \in Nat : r + t = k * x + left
    BY <1>3, DivMod
<1>5. PICK y \in Nat : a + t = k * y + right
    BY <1>3, DivMod
<1>6. left \in 0..(k - 1) /\ right \in 0..(k - 1)
    BY <1>3, DivMod
<1> HIDE DEF left, right
<1>7. k * (q + x) = k * q + k * x /\ k * q \in Nat /\ k * x \in Nat /\ q + x \in Nat
    BY <1>2
<1>8. k * (q + x) + left = k * y + right
    <2>1. k * q + (r + t) = a + t /\ k * y \in Nat
        BY <1>2
    <2> QED
        BY <1>2, <1>3, <1>4, <1>5, <1>6, <1>7, <2>1
<1>9. left = right
    BY <1>6, <1>7, <1>8, ModUnique
<1> QED
    BY <1>9 DEF r, left, right

(* What is cut into fragments is at least one byte.                           *)
LEMMA SomethingToCut ==
    ASSUME NEW v \in Programs, NEW len \in Nat, len > P
    PROVE  BytesToCut(v, len) \in Nat \ {0}
    BY StreamAssumption DEF BytesToCut, P, Programs

(* All fragments but the last are full, and with the last they have as many   *)
(* bytes as were to be cut.                                                   *)
LEMMA FragmentsAddUp ==
    ASSUME NEW v \in Programs, NEW len \in Nat, len > P
    PROVE  /\ fu_pack_num(v, len) \in Nat \ {0}
           /\ last_fu_pack_size(v, len) \in 1..P
           /\ P * (fu_pack_num(v, len) - 1) + last_fu_pack_size(v, len) = BytesToCut(v, len)
<1> DEFINE n == BytesToCut(v, len)
           q == n \div P
           m == n % P
<1>1. P \in Nat \ {0} /\ n \in Nat \ {0}
    BY SomethingToCut, StreamAssumption DEF P
<1> HIDE DEF n
<1>2. q \in Nat /\ m \in 0..(P - 1) /\ n = P * q + m
    BY <1>1, DivMod
<1>3. /\ fu_pack_num(v, len) = q + (IF m # 0 THEN 1 ELSE 0)
      /\ last_fu_pack_size(v, len) = IF m # 0 THEN m ELSE P
    BY DEF fu_pack_num, last_fu_pack_size, n, P
<1> HIDE DEF q, m
<1>4. CASE m # 0
    <2>1. (q + 1) - 1 = q
        BY <1>2
    <2> QED
        BY <1>1, <1>2, <1>3, <1>4, <2>1 DEF n
<1>5. CASE m = 0
    <2>1. q # 0
        BY <1>1, <1>2, <1>5
    <2>2. P * (q - 1) + P = P * q
        BY <1>1, <1>2
    <2> QED
        BY <1>1, <1>2, <1>3, <1>5, <2>1, <2>2 DEF n
<1> QED
    BY <1>2, <1>4, <1>5

(* The fragments of a unit tile it: the first begins after the unit's header, *)
(* each begins where the one before it ends, the last ends where BytesToCut   *)
(* says, the first has the start mark and, of several, only the last the end  *)
(* mark.  For the TCP server of H.264 that is the unit's end.                 *)
THEOREM FragmentsTile ==
    ASSUME NEW v \in Programs, NEW len \in Nat, ~Fits(len)
    PROVE  LET n == fu_pack_num(v, len) IN
           /\ Payload(v, len, 0).from = HeaderSize(v)
           /\ \A i \in 0..(n - 2) :
                Payload(v, len, i + 1).from = Payload(v, len, i).from + Payload(v, len, i).size
           /\ Payload(v, len, n - 1).from + Payload(v, len, n - 1).size
                = HeaderSize(v) + BytesToCut(v, len)
           /\ \A i \in 0..(n - 1) :
                /\ Payload(v, len, i).start <=> i = 0
                /\ Payload(v, len, i).end <=> i = n - 1 /\ n > 1
           /\ v = "h264_tcp" => HeaderSize(v) + BytesToCut(v, len) = len
<1> DEFINE n == fu_pack_num(v, len)
<1>1. len > P /\ P \in Nat \ {0} /\ HeaderSize(v) \in Nat
    BY StreamAssumption DEF Fits, P, HeaderSize
<1>2. /\ n \in Nat \ {0}
      /\ last_fu_pack_size(v, len) \in 1..P
      /\ P * (n - 1) + last_fu_pack_size(v, len) = BytesToCut(v, len)
    BY <1>1, FragmentsAddUp
<1>3. \A i \in Nat :
        /\ Payload(v, len, i).start <=> i = 0
        /\ Payload(v, len, i).end <=> i # 0 /\ i = n - 1
        /\ Payload(v, len, i).from = HeaderSize(v) + P * i
        /\ Payload(v, len, i).size = IF i = n - 1 THEN last_fu_pack_size(v, len) ELSE P
    BY DEF Payload, P
<1> HIDE DEF n
<1>4. Payload(v, len, 0).from = HeaderSize(v)
    BY <1>1, <1>3
<1>5. ASSUME NEW i \in 0..(n - 2)
      PROVE  Payload(v, len, i + 1).from = Payload(v, len, i).from + Payload(v, len, i).size
    <2>1. i \in Nat /\ i + 1 \in Nat /\ i # n - 1
        BY <1>2
    <2>2. P * (i + 1) = P * i + P
        BY <1>1, <2>1
    <2>3. P * i \in Nat
        BY <1>1, <2>1
    <2> QED
        BY <1>1, <1>3, <2>1, <2>2, <2>3
<1>6. Payload(v, len, n - 1).from + Payload(v, len, n - 1).size = HeaderSize(v) + BytesToCut(v, len)
    <2>1. n - 1 \in Nat /\ P * (n - 1) \in Nat
        BY <1>1, <1>2
    <2> QED
        BY <1>1, <1>2, <1>3, <2>1
<1>7. \A i \in 0..(n - 1) :
        /\ Payload(v, len, i).start <=> i = 0
        /\ Payload(v, len, i).end <=> i = n - 1 /\ n > 1
    BY <1>2, <1>3
<1>8. v = "h264_tcp" => HeaderSize(v) + BytesToCut(v, len) = len
    BY DEF HeaderSize, BytesToCut
<1> QED
    BY <1>4, <1>5, <1>6, <1>7, <1>8 DEF n

-----------------------------------------------------------------------------
(* The receiver                                                               *)

Packets ==
    [seq_no : Nat, timestamp : 0..(M - 1), unit : Nat,
     payload : {Payload(v, len, i) : v \in Programs, len \in Nat, i \in Nat}, ok : BOOLEAN]

Whole == [unit : Nat, len : Int]

(* The types that do not depend on how far the sender is.                     *)
Shapes ==
    /\ variant \in Programs
    /\ pc \in {"idle", "read", "send"}
    /\ units \in Seq(Nat)
    /\ sent \in Seq(Packets)
    /\ got \in Seq(Whole)
    /\ part \in Int
    /\ cnt = Len(units)
    /\ seq_num \in 0..W
    /\ ts_current \in 0..(M - 1)
    /\ fu_seq \in Nat
    /\ plays \in 0..MaxPlays

(* Inside h264nal2rtp_send there is a unit with bytes, and fragments of it    *)
(* are due.                                                                   *)
PacketDue ==
    pc = "send" =>
        /\ units # <<>>
        /\ Unit # 0
        /\ Fits(Unit) => fu_seq = 0
        /\ ~Fits(Unit) => fu_seq < fu_pack_num(variant, Unit)

(* Every packet is of a unit read, and none yet of one that is just begun.    *)
SentUnits ==
    \A j \in DOMAIN sent :
        /\ sent[j].unit \in 1..Len(units)
        /\ pc = "send" /\ fu_seq = 0 => sent[j].unit < Len(units)

(* The units that are behind the sender.                                      *)
Done == IF pc = "send" THEN Len(units) - 1 ELSE Len(units)

(* Unit k has come as the i-th, with the length it should have.               *)
Came(i, k) == got[i].unit = k /\ got[i].len = units[k] + Surplus(variant, units[k])

(* UnitsArrive, of the units behind the sender.                               *)
Reassembled ==
    pc # "idle" =>
        /\ \A i \in DOMAIN got : \E k \in 1..Done : Arrives(k) /\ Came(i, k)
        /\ \A k \in 1..Done : Arrives(k) => \E i \in DOMAIN got : got[i].unit = k
        /\ \A i, j \in DOMAIN got : i < j => got[i].unit < got[j].unit

(* Of the unit that is being cut the receiver has what was sent of it, or it  *)
(* knows that some of it was lost.                                            *)
Underway ==
    pc = "send" /\ fu_seq > 0 =>
        part = IF NoneLost(Len(units)) THEN HeaderSize(variant) + P * fu_seq ELSE None

RInv == Shapes /\ PacketDue /\ SentUnits /\ Reassembled /\ Underway

(* The parameters and what follows for lengths.                               *)
LEMMA Parameters ==
    /\ W \in Nat \ {0} /\ P \in Nat \ {0} /\ M \in Nat \ {0} /\ Ticks \in Nat
    /\ FirstLens \cup Lens \subseteq Nat /\ MaxPlays \in Nat
    BY StreamAssumption DEF W, P, M

(* What the bytes of a fragment reach to: the end of the unit with its        *)
(* surplus for the last, the beginning of the next for the others.            *)
LEMMA FragmentEnds ==
    ASSUME NEW v \in Programs, NEW len \in Nat \ {0}, NEW i \in Nat,
           Fits(len) => i = 0, ~Fits(len) => i < fu_pack_num(v, len)
    PROVE  LET p == Payload(v, len, i) IN
           /\ p.from = (IF Fits(len) THEN 0 ELSE HeaderSize(v) + P * i)
           /\ p.from \in Nat /\ p.size \in Nat
           /\ p.start <=> i = 0
           /\ p.end \in BOOLEAN
           /\ IsLastPacket(v, len, i) =>
                /\ p.end <=> ~OneFragment(v, len)
                /\ p.from + p.size = len + Surplus(v, len)
           /\ ~IsLastPacket(v, len, i) =>
                /\ ~Fits(len)
                /\ ~p.end
                /\ p.from + p.size = HeaderSize(v) + P * (i + 1)
<1> DEFINE p == Payload(v, len, i)
<1>0. P \in Nat \ {0} /\ HeaderSize(v) \in {1, 2}
    BY Parameters DEF HeaderSize
<1>1. CASE Fits(len)
    BY <1>1 DEF Payload, IsLastPacket, OneFragment, Surplus
<1>2. CASE ~Fits(len)
    <2> DEFINE n == fu_pack_num(v, len)
               l == last_fu_pack_size(v, len)
    <2>1. len > P
        BY <1>0, <1>2 DEF Fits, P
    <2>2. /\ n \in Nat \ {0} /\ l \in 1..P
          /\ P * (n - 1) + l = BytesToCut(v, len)
        BY <2>1, FragmentsAddUp
    <2>3. /\ p.from = HeaderSize(v) + P * i
          /\ p.size = IF i = n - 1 THEN l ELSE P
          /\ p.start = (i = 0)
          /\ p.end = (i # 0 /\ i = n - 1)
        BY <1>2 DEF Payload, P
    <2>4. IsLastPacket(v, len, i) <=> i = n - 1
        BY <1>2 DEF IsLastPacket
    <2>5. OneFragment(v, len) <=> n = 1
        BY <1>2 DEF OneFragment
    <2>6. HeaderSize(v) + BytesToCut(v, len) = len + Surplus(v, len)
        BY <1>2 DEF HeaderSize, BytesToCut, Surplus, Programs
    <2>7. P * i \in Nat /\ P * (i + 1) = P * i + P
        BY <1>0
    <2>8. BytesToCut(v, len) \in Nat
        BY <2>1, SomethingToCut
    <2> HIDE DEF p, n, l
    <2>9. p.from \in Nat /\ p.size \in Nat /\ p.end \in BOOLEAN
        BY <1>0, <2>2, <2>3, <2>7
    <2>10. CASE i = n - 1
        <3>1. p.from + p.size = len + Surplus(v, len)
            BY <1>0, <2>2, <2>3, <2>6, <2>7, <2>8, <2>10
        <3>2. i # 0 <=> n # 1
            BY <2>2, <2>10
        <3>3. p.end <=> ~OneFragment(v, len)
            BY <2>3, <2>5, <2>10, <3>2, Zenon
        <3> QED
            BY <1>2, <2>3, <2>4, <2>9, <2>10, <3>1, <3>3 DEF p
    <2>11. CASE i # n - 1
        <3>1. p.from + p.size = HeaderSize(v) + P * (i + 1)
            BY <1>0, <2>3, <2>7, <2>11
        <3> QED
            BY <1>2, <2>3, <2>4, <2>9, <2>11, <3>1 DEF p
    <2> QED
        BY <2>10, <2>11
<1> QED
    BY <1>1, <1>2

(* The next number fits the field.                                            *)
LEMMA NextSeqType ==
    ASSUME Shapes
    PROVE  NextSeq \in 0..W /\ NextSeq % W \in Nat
<1>1. W \in Nat \ {0} /\ seq_num + 1 \in Nat /\ W + 1 \in Nat \ {0}
    BY Parameters DEF Shapes
<1>2. (seq_num + 1) % (W + 1) \in 0..((W + 1) - 1)
    BY <1>1, DivMod
<1>3. NextSeq \in 0..W
    BY <1>1, <1>2 DEF NextSeq, W
<1> QED
    BY <1>1, <1>3, DivMod

(* The unit that is being sent, and the packet that is due.                   *)
LEMMA UnitDue ==
    ASSUME Shapes, PacketDue, pc = "send"
    PROVE  /\ Len(units) \in Nat \ {0}
           /\ Unit = units[Len(units)]
           /\ Unit \in Nat \ {0}
<1>1. units # <<>> /\ units \in Seq(Nat) /\ Unit # 0
    BY DEF Shapes, PacketDue
<1>2. Len(units) \in Nat \ {0}
    BY <1>1, EmptySeq, LenProperties
<1>3. Len(units) \in 1..Len(units) /\ Unit = units[Len(units)]
    BY <1>2 DEF Unit, Last
<1> QED
    BY <1>1, <1>2, <1>3, ElementOfSeq

LEMMA PacketSent ==
    ASSUME Shapes, PacketDue, NEW ok \in BOOLEAN, SendPacket(ok)
    PROVE  /\ Packet(ok) \in Packets
           /\ sent' \in Seq(Packets)
           /\ Len(sent) \in Nat
           /\ Len(sent') = Len(sent) + 1
           /\ DOMAIN sent = 1..Len(sent) /\ DOMAIN sent' = 1..(Len(sent) + 1)
           /\ \A j \in 1..Len(sent) : sent'[j] = sent[j]
           /\ sent'[Len(sent) + 1] = Packet(ok)
<1>1. pc = "send" /\ sent' = Append(sent, Packet(ok))
    BY DEF SendPacket
<1>2. Unit \in Nat /\ Len(units) \in Nat
    BY <1>1, UnitDue
<1>3. NextSeq % W \in Nat
    BY NextSeqType
<1>4. Payload(variant, Unit, fu_seq) \in {Payload(v, len, i) : v \in Programs, len \in Nat, i \in Nat}
    BY <1>2 DEF Shapes
<1>5. Packet(ok) \in Packets
    BY <1>2, <1>3, <1>4 DEF Packet, Packets, Shapes, W
<1>6. sent \in Seq(Packets)
    BY DEF Shapes
<1> QED
    BY <1>1, <1>5, <1>6, AppendProperties, LenProperties

(* Of the unit that is being sent a fragment arrives, in its place, exactly   *)
(* when none before it was lost.                                              *)
LEMMA Accepted ==
    ASSUME RInv, NEW ok \in BOOLEAN, SendPacket(ok)
    PROVE  LET p    == Payload(variant, Unit, fu_seq)
               fine == NoneLost(Len(units)) /\ ok
           IN  /\ got' = (IF fine /\ p.end
                          THEN Append(got, [unit |-> Len(units), len |-> p.from + p.size])
                          ELSE got)
               /\ part' = (IF fine /\ ~p.end THEN p.from + p.size ELSE None)
<1> DEFINE p     == Payload(variant, Unit, fu_seq)
           begun == IF p.start THEN (IF p.end THEN 0 ELSE HeaderSize(variant)) ELSE part
           K     == Len(units)
<1>1. pc = "send" /\ Receive(Packet(ok)) /\ Shapes /\ PacketDue
    BY DEF SendPacket, RInv
<1>2. Unit \in Nat \ {0} /\ variant \in Programs /\ fu_seq \in Nat /\ K \in Nat
    BY <1>1, UnitDue DEF Shapes
<1>3. /\ p.from = (IF Fits(Unit) THEN 0 ELSE HeaderSize(variant) + P * fu_seq)
      /\ p.start <=> fu_seq = 0
      /\ p.end \in BOOLEAN
      /\ p.from \in Nat
    BY <1>1, <1>2, FragmentEnds DEF PacketDue
<1>4. Fits(Unit) => p.start /\ p.end /\ fu_seq = 0
    BY <1>1 DEF Payload, PacketDue
<1>5. ~Fits(Unit) /\ fu_seq = 0 => ~p.end
    BY DEF Payload
<1>6. HeaderSize(variant) \in {1, 2} /\ P \in Nat
    BY Parameters DEF HeaderSize
<1>7. fu_seq = 0 => begun = p.from
    BY <1>2, <1>3, <1>4, <1>5, <1>6
<1>8. fu_seq = 0 => NoneLost(K)
    BY <1>1, <1>2 DEF RInv, SentUnits, NoneLost
<1>9. fu_seq > 0 => (begun = p.from <=> NoneLost(K))
    <2>1. SUFFICES ASSUME fu_seq > 0 PROVE begun = p.from <=> NoneLost(K)
        OBVIOUS
    <2>2. begun = IF NoneLost(K) THEN HeaderSize(variant) + P * fu_seq ELSE -1
        BY <1>1, <1>2, <1>3, <2>1 DEF RInv, Underway, None
    <2>3. p.from = HeaderSize(variant) + P * fu_seq
        BY <1>2, <1>3, <1>4, <2>1
    <2> HIDE DEF p, begun
    <2> QED
        BY <1>3, <2>2, <2>3
<1>10. begun = p.from <=> NoneLost(K)
    BY <1>2, <1>7, <1>8, <1>9
<1>11. /\ Packet(ok).payload = p /\ Packet(ok).unit = K /\ Packet(ok).ok = ok
    BY DEF Packet
<1>12. /\ got'  = (IF (ok /\ begun = p.from) /\ p.end
                   THEN Append(got, [unit |-> K, len |-> begun + p.size]) ELSE got)
       /\ part' = (IF (ok /\ begun = p.from) /\ ~p.end THEN begun + p.size ELSE None)
    BY <1>1, <1>11 DEF Receive
<1> HIDE DEF p, begun, K
<1>13. got' = (IF (NoneLost(K) /\ ok) /\ p.end
               THEN Append(got, [unit |-> K, len |-> p.from + p.size]) ELSE got)
    BY <1>10, <1>12
<1>14. part' = (IF (NoneLost(K) /\ ok) /\ ~p.end THEN p.from + p.size ELSE None)
    BY <1>10, <1>12
<1> QED
    BY <1>13, <1>14 DEF p, K
LEMMA InitRInv == Init => RInv
<1> SUFFICES ASSUME Init PROVE RInv
    OBVIOUS
<1>1. /\ units = <<>> /\ sent = <<>> /\ got = <<>> /\ pc = "idle" /\ fu_seq = 0
      /\ cnt = 0 /\ seq_num = 0 /\ ts_current = 0 /\ plays = 0 /\ part = -1
      /\ variant \in Programs
    BY DEF Init, None, Programs
<1>2. Len(units) = 0 /\ units \in Seq(Nat) /\ sent \in Seq(Packets) /\ got \in Seq(Whole)
    BY <1>1, EmptySeq
<1>3. Shapes
    BY <1>1, <1>2, Parameters DEF Shapes
<1>4. DOMAIN sent = {}
    BY <1>1
<1> QED
    BY <1>1, <1>3, <1>4 DEF RInv, PacketDue, SentUnits, Reassembled, Underway

(* PLAY begins with nothing read, sent or received.                           *)
LEMMA PlayRInv == RInv /\ Play => RInv'
<1> SUFFICES ASSUME RInv, Play PROVE RInv'
    OBVIOUS
<1>1. /\ units' = <<>> /\ sent' = <<>> /\ got' = <<>> /\ pc' = "read"
      /\ cnt' = 0 /\ part' = -1 /\ plays' = plays + 1 /\ plays < MaxPlays
      /\ UNCHANGED <<variant, seq_num, ts_current, fu_seq>>
    BY DEF Play, None
<1>2. Len(units') = 0 /\ units' \in Seq(Nat) /\ sent' \in Seq(Packets) /\ got' \in Seq(Whole)
    BY <1>1, EmptySeq
<1>3. Shapes'
    BY <1>1, <1>2, Parameters DEF RInv, Shapes
<1>4. DOMAIN sent' = {} /\ DOMAIN got' = {} /\ Done' = 0
    BY <1>1, <1>2 DEF Done
<1>5. Reassembled'
    BY <1>4 DEF Reassembled
<1>6. SentUnits'
    BY <1>4 DEF SentUnits
<1> QED
    BY <1>1, <1>3, <1>5, <1>6 DEF RInv, PacketDue, Underway

(* Reading a unit leaves what was said of the units before it.                *)
LEMMA ReadRInv ==
    ASSUME RInv, NEW len \in FirstLens \cup Lens, ReadUnit(len)
    PROVE  RInv'
<1>1. /\ len \in Nat /\ units' = Append(units, len) /\ pc = "read" /\ fu_seq' = 0
      /\ pc' = (IF len < 1 THEN "read" ELSE "send") /\ cnt' = cnt + 1
      /\ UNCHANGED <<variant, sent, got, part, plays>>
      /\ ts_current' = (IF ResetsClock THEN 0 ELSE (ts_current + Ticks) % M)
      /\ seq_num' = IF ResetsClock THEN 0 ELSE seq_num
    BY Parameters DEF ReadUnit, receiver, M
<1>2. Shapes /\ Len(units) \in Nat /\ units \in Seq(Nat)
    BY LenProperties DEF RInv, Shapes
<1> PICK K \in Nat : K = Len(units)
    BY <1>2
<1>3. /\ units' \in Seq(Nat)
      /\ Len(units') = K + 1
      /\ units' # <<>>
      /\ \A k \in 1..K : units'[k] = units[k]
      /\ units'[K + 1] = len
      /\ Unit' = len
    BY <1>1, <1>2, AppendProperties DEF Unit, Last
<1>4. (ts_current + Ticks) % M \in 0..(M - 1)
    BY <1>2, Parameters, DivMod DEF Shapes
<1>5. Shapes'
    <2>1. seq_num' \in 0..W /\ ts_current' \in 0..(M - 1)
        BY <1>1, <1>2, <1>4, Parameters DEF Shapes
    <2> QED
        BY <1>1, <1>2, <1>3, <2>1 DEF Shapes
<1>6. PacketDue'
    <2>1. ~Fits(len) => 0 < fu_pack_num(variant, len)
        <3>1. ~Fits(len) => len > P
            BY <1>1, Parameters DEF Fits, P
        <3> QED
            BY <1>1, <1>2, <3>1, FragmentsAddUp DEF Shapes
    <2> QED
        BY <1>1, <1>3, <2>1 DEF PacketDue
<1>7. SentUnits'
    BY <1>1, <1>2, <1>3 DEF RInv, SentUnits
<1>8. Done = K /\ Done' = (IF len < 1 THEN K + 1 ELSE K)
    BY <1>1, <1>2, <1>3 DEF Done
<1>9. \A k \in 1..K : Arrives(k)' <=> Arrives(k)
    BY <1>1, <1>3 DEF Arrives, NoneLost
<1>10. len < 1 => ~Arrives(K + 1)'
    BY <1>1, <1>3 DEF Arrives
<1>11. Reassembled'
    <2>1. \A i \in DOMAIN got : \E k \in 1..K : Arrives(k) /\ Came(i, k)
        BY <1>1, <1>8 DEF RInv, Reassembled
    <2>2. ASSUME NEW i \in DOMAIN got'
          PROVE  \E k \in 1..Done' : Arrives(k)' /\ Came(i, k)'
        <3>1. PICK k \in 1..K : Arrives(k) /\ Came(i, k)
            BY <1>1, <2>1
        <3>2. Came(i, k)'
            BY <1>1, <1>3, <3>1 DEF Came
        <3> QED
            BY <1>8, <1>9, <3>1, <3>2
    <2>3. ASSUME NEW k \in 1..Done', Arrives(k)'
          PROVE  \E i \in DOMAIN got' : got'[i].unit = k
        <3>1. k \in 1..K
            BY <1>2, <1>8, <1>10, <2>3
        <3> QED
            BY <1>1, <1>8, <1>9, <2>3, <3>1 DEF RInv, Reassembled
    <2>4. \A i, j \in DOMAIN got' : i < j => got'[i].unit < got'[j].unit
        BY <1>1 DEF RInv, Reassembled
    <2> QED
        BY <2>2, <2>3, <2>4 DEF Reassembled
<1>12. Underway'
    BY <1>1 DEF Underway
<1> QED
    BY <1>5, <1>6, <1>7, <1>11, <1>12 DEF RInv

LEMMA EndRInv == RInv /\ EndOfFile => RInv'
<1> SUFFICES ASSUME RInv, EndOfFile PROVE RInv'
    OBVIOUS
<1>1. /\ pc' = "idle"
      /\ UNCHANGED <<variant, cnt, seq_num, ts_current, fu_seq, units, sent, got, part, plays>>
    BY DEF EndOfFile, receiver
<1> QED
    BY <1>1 DEF RInv, Shapes, PacketDue, SentUnits, Reassembled, Underway

(* A packet is accepted or lost; behind the last of a unit the unit has       *)
(* arrived, or it never will.                                                 *)
LEMMA SendRInv ==
    ASSUME RInv, NEW ok \in BOOLEAN, SendPacket(ok)
    PROVE  RInv'
<1>0. Shapes /\ PacketDue /\ Len(units) \in Nat
    BY LenProperties DEF RInv, Shapes
<1> PICK K \in Nat : K = Len(units)
    BY <1>0
<1> DEFINE p    == Payload(variant, Unit, fu_seq)
           fine == NoneLost(K) /\ ok
           last == IsLastPacket(variant, Unit, fu_seq)
<1>1. /\ pc = "send" /\ seq_num' = NextSeq /\ fu_seq' = fu_seq + 1
      /\ UNCHANGED <<variant, cnt, ts_current, units, plays>>
      /\ pc' = "idle" \/ (pc' = IF last THEN "read" ELSE "send")
    BY DEF SendPacket
<1>2. K \in Nat \ {0} /\ Unit = units[K] /\ Unit \in Nat \ {0} /\ variant \in Programs
      /\ fu_seq \in Nat
    BY <1>0, <1>1, UnitDue DEF Shapes
<1>3. /\ sent' \in Seq(Packets)
      /\ Len(sent) \in Nat
      /\ DOMAIN sent = 1..Len(sent) /\ DOMAIN sent' = 1..(Len(sent) + 1)
      /\ \A j \in 1..Len(sent) : sent'[j] = sent[j]
      /\ sent'[Len(sent) + 1] = Packet(ok)
    BY <1>0, PacketSent
<1>4. /\ got' = (IF fine /\ p.end
                 THEN Append(got, [unit |-> K, len |-> p.from + p.size]) ELSE got)
      /\ part' = (IF fine /\ ~p.end THEN p.from + p.size ELSE -1)
    BY Accepted DEF None
<1>5. /\ p.from \in Nat /\ p.size \in Nat /\ p.end \in BOOLEAN
      /\ last =>
            /\ p.end <=> ~OneFragment(variant, Unit)
            /\ p.from + p.size = Unit + Surplus(variant, Unit)
      /\ ~last =>
            /\ ~Fits(Unit)
            /\ ~p.end
            /\ p.from + p.size = HeaderSize(variant) + P * (fu_seq + 1)
    BY <1>0, <1>1, <1>2, FragmentEnds DEF PacketDue
<1>6. Unit' = Unit /\ Len(units') = K
    BY <1>1 DEF Unit
<1>7. Packet(ok).unit = K /\ Packet(ok).ok = ok
    BY DEF Packet
<1>8. \A k \in 1..K : NoneLost(k)' <=> NoneLost(k) /\ (k = K => ok)
    <2>1. SUFFICES ASSUME NEW k \in 1..K
                   PROVE  NoneLost(k)' <=> NoneLost(k) /\ (k = K => ok)
        OBVIOUS
    <2>2. NoneLost(k)' <=> /\ \A j \in 1..Len(sent) : sent'[j].unit = k => sent'[j].ok
                           /\ sent'[Len(sent) + 1].unit = k => sent'[Len(sent) + 1].ok
        BY <1>3 DEF NoneLost
    <2>3. NoneLost(k) <=> \A j \in 1..Len(sent) : sent'[j].unit = k => sent'[j].ok
        BY <1>3 DEF NoneLost
    <2> QED
        BY <1>3, <1>7, <2>2, <2>3
<1>9. NoneLost(K)' <=> fine
    BY <1>2, <1>8
<1>10. Shapes'
    <2>1. seq_num' \in 0..W
        BY <1>0, <1>1, NextSeqType
    <2>2. got' \in Seq(Whole)
        <3>1. [unit |-> K, len |-> p.from + p.size] \in Whole
            BY <1>2, <1>5 DEF Whole
        <3>2. got \in Seq(Whole)
            BY <1>0 DEF Shapes
        <3> QED
            BY <1>4, <3>1, <3>2, AppendProperties
    <2>3. part' \in Int
        BY <1>4, <1>5
    <2>4. fu_seq' \in Nat /\ pc' \in {"idle", "read", "send"}
        BY <1>1, <1>2
    <2> QED
        BY <1>0, <1>1, <1>3, <2>1, <2>2, <2>3, <2>4 DEF Shapes
<1>11. PacketDue'
    <2>1. SUFFICES ASSUME pc' = "send" PROVE PacketDue'
        BY DEF PacketDue
    <2>2. ~last
        BY <1>1, <2>1
    <2>3. ~Fits(Unit) /\ fu_seq # fu_pack_num(variant, Unit) - 1
        BY <2>2 DEF IsLastPacket
    <2>4. Unit > P
        BY <1>2, <2>3, Parameters DEF Fits, P
    <2>5. fu_pack_num(variant, Unit) \in Nat
        BY <1>2, <2>4, FragmentsAddUp
    <2>6. fu_seq < fu_pack_num(variant, Unit)
        BY <1>0, <1>1, <2>3 DEF PacketDue
    <2>7. fu_seq' < fu_pack_num(variant, Unit)
        BY <1>1, <1>2, <2>3, <2>5, <2>6
    <2> QED
        BY <1>0, <1>1, <1>6, <2>3, <2>7 DEF PacketDue
<1>12. SentUnits'
    <2>1. SUFFICES ASSUME NEW j \in DOMAIN sent'
                   PROVE  sent'[j].unit \in 1..K
        BY <1>1, <1>2, <1>6 DEF SentUnits
    <2>2. CASE j \in 1..Len(sent)
        BY <1>3, <2>2 DEF RInv, SentUnits
    <2>3. CASE j = Len(sent) + 1
        BY <1>2, <1>3, <1>7, <2>3
    <2> QED
        BY <1>3, <2>1, <2>2, <2>3
<1>13. Underway'
    <2>1. SUFFICES ASSUME pc' = "send"
                   PROVE  part' = IF fine THEN HeaderSize(variant) + P * (fu_seq + 1) ELSE -1
        BY <1>1, <1>6, <1>9 DEF Underway, None
    <2>2. ~last
        BY <1>1, <2>1
    <2> QED
        BY <1>4, <1>5, <2>2
<1>14. Reassembled'
    <2>1. /\ \A i \in DOMAIN got : \E k \in 1..(K - 1) : Arrives(k) /\ Came(i, k)
          /\ \A k \in 1..(K - 1) : Arrives(k) => \E i \in DOMAIN got : got[i].unit = k
          /\ \A i, j \in DOMAIN got : i < j => got[i].unit < got[j].unit
        BY <1>1 DEF RInv, Reassembled, Done
    <2>2. \A k \in 1..(K - 1) : Arrives(k)' <=> Arrives(k)
        <3>1. \A k \in 1..(K - 1) : k \in 1..K /\ k # K
            BY <1>2
        <3> QED
            BY <1>1, <1>8, <3>1 DEF Arrives
    <2>3. got \in Seq(Whole) /\ Len(got) \in Nat /\ DOMAIN got = 1..Len(got)
        BY <1>0, LenProperties DEF Shapes
    <2>4. CASE pc' = "idle"
        BY <2>4 DEF Reassembled
    <2>5. CASE got' = got /\ pc' = "send"
        <3>1. Done' = K - 1
            BY <1>6, <2>5 DEF Done
        <3>2. \A i, k : Came(i, k)' <=> Came(i, k)
            BY <1>1, <2>5 DEF Came
        <3>3. \A i \in DOMAIN got' : \E k \in 1..(K - 1) : Arrives(k)' /\ Came(i, k)'
            BY <2>1, <2>2, <2>5, <3>2
        <3> QED
            BY <2>1, <2>2, <2>5, <3>1, <3>3 DEF Reassembled
    <2>6. CASE got' = got /\ pc' = "read" /\ ~Arrives(K)'
        <3>1. Done' = K
            BY <1>6, <2>6 DEF Done
        <3>2. \A i, k : Came(i, k)' <=> Came(i, k)
            BY <1>1, <2>6 DEF Came
        <3>3. \A k \in 1..K : k \in 1..(K - 1) \/ k = K
            BY <1>2
        <3>4. 1..(K - 1) \subseteq 1..K
            BY <1>2
        <3>5. \A i \in DOMAIN got' : \E k \in 1..K : Arrives(k)' /\ Came(i, k)'
            BY <2>1, <2>2, <2>6, <3>2, <3>4
        <3>6. \A k \in 1..K : Arrives(k)' => \E i \in DOMAIN got' : got'[i].unit = k
            BY <2>1, <2>2, <2>6, <3>3
        <3>7. \A i, j \in DOMAIN got' : i < j => got'[i].unit < got'[j].unit
            BY <2>1, <2>6
        <3> QED
            BY <3>1, <3>5, <3>6, <3>7 DEF Reassembled
    <2>7. CASE /\ got' = Append(got, [unit |-> K, len |-> Unit + Surplus(variant, Unit)])
               /\ pc' = "read" /\ Arrives(K)'
        <3> DEFINE new == [unit |-> K, len |-> Unit + Surplus(variant, Unit)]
        <3>1. Done' = K
            BY <1>6, <2>7 DEF Done
        <3>2. new \in Whole
            BY <1>2 DEF Whole, Surplus, Programs
        <3>3. /\ DOMAIN got' = 1..(Len(got) + 1)
              /\ \A i \in DOMAIN got : got'[i] = got[i]
              /\ got'[Len(got) + 1] = new
            <4>1. got' \in Seq(Whole) /\ Len(got') = Len(got) + 1
                BY <2>3, <2>7, <3>2, AppendProperties
            <4> QED
                BY <2>3, <2>7, <3>2, <4>1, AppendProperties, LenProperties
        <3>4. new.unit = K /\ new.len = units[K] + Surplus(variant, units[K])
            BY <1>2
        <3> HIDE DEF new
        <3>5. \A i \in DOMAIN got' : i \in DOMAIN got \/ i = Len(got) + 1
            BY <2>3, <3>3
        <3>6. ASSUME NEW i \in DOMAIN got'
              PROVE  \E k \in 1..K : Arrives(k)' /\ Came(i, k)'
            <4>1. CASE i \in DOMAIN got
                <5>1. PICK k \in 1..(K - 1) : Arrives(k) /\ Came(i, k)
                    BY <2>1, <4>1
                <5>2. Came(i, k)'
                    BY <1>1, <3>3, <4>1, <5>1 DEF Came
                <5>3. Arrives(k)' /\ k \in 1..K
                    BY <1>2, <2>2, <5>1
                <5> QED
                    BY <5>2, <5>3
            <4>2. CASE i = Len(got) + 1
                <5>1. Came(i, K)'
                    BY <1>1, <3>3, <3>4, <4>2 DEF Came
                <5> QED
                    BY <1>2, <2>7, <5>1
            <4> QED
                BY <3>5, <3>6, <4>1, <4>2
        <3>7. ASSUME NEW k \in 1..K, Arrives(k)'
              PROVE  \E i \in DOMAIN got' : got'[i].unit = k
            <4>1. CASE k = K
                <5>1. Len(got) + 1 \in DOMAIN got'
                    BY <2>3, <3>3
                <5> QED
                    BY <3>3, <3>4, <4>1, <5>1
            <4>2. CASE k \in 1..(K - 1)
                <5>1. PICK i \in DOMAIN got : got[i].unit = k
                    BY <2>1, <2>2, <3>7, <4>2
                <5>2. i \in DOMAIN got' /\ got'[i] = got[i]
                    BY <2>3, <3>3
                <5> QED
                    BY <5>1, <5>2
            <4> QED
                BY <1>2, <4>1, <4>2
        <3>8. ASSUME NEW i \in DOMAIN got', NEW j \in DOMAIN got', i < j
              PROVE  got'[i].unit < got'[j].unit
            <4>1. i \in DOMAIN got
                BY <2>3, <3>3, <3>8
            <4>2. CASE j \in DOMAIN got
                BY <2>1, <3>3, <3>8, <4>1, <4>2
            <4>3. CASE j = Len(got) + 1
                <5>1. got'[j].unit = K /\ got'[i] = got[i] /\ got[i].unit \in 1..(K - 1)
                    BY <2>1, <3>3, <3>4, <4>1, <4>3 DEF Came
                <5> QED
                    BY <1>2, <5>1
            <4> QED
                BY <3>5, <4>2, <4>3
        <3>9. /\ \A i \in DOMAIN got' : \E k \in 1..K : Arrives(k)' /\ Came(i, k)'
              /\ \A k \in 1..K : Arrives(k)' => \E i \in DOMAIN got' : got'[i].unit = k
              /\ \A i, j \in DOMAIN got' : i < j => got'[i].unit < got'[j].unit
            BY <3>6, <3>7, <3>8
        <3> QED
            BY <3>1, <3>9 DEF Reassembled
    <2>8. Arrives(K)' <=> ~OneFragment(variant, Unit) /\ fine
        BY <1>1, <1>2, <1>9 DEF Arrives
    <2>9. CASE pc' # "idle" /\ ~last
        <3>1. pc' = "send" /\ got' = got
            BY <1>1, <1>4, <1>5, <2>9
        <3> QED
            BY <2>5, <3>1
    <2>10. CASE pc' # "idle" /\ last
        <3>1. pc' = "read"
            BY <1>1, <2>10
        <3>2. /\ Arrives(K)' => got' = Append(got, [unit |-> K, len |-> Unit + Surplus(variant, Unit)])
              /\ ~Arrives(K)' => got' = got
            BY <1>4, <1>5, <2>8, <2>10
        <3> QED
            BY <2>6, <2>7, <3>1, <3>2
    <2> QED
        BY <2>4, <2>9, <2>10
<1> QED
    BY <1>10, <1>11, <1>12, <1>13, <1>14 DEF RInv

(* Next, with the three programs taken together.                              *)
LEMMA NextIsStep == Next => StreamStep
    BY DEF Next, H264TcpStream, H265TcpStream, H264UdpStream

LEMMA NextRInv == RInv /\ [Next]_vars => RInv'
<1> SUFFICES ASSUME RInv, [Next]_vars PROVE RInv'
    OBVIOUS
<1>1. CASE StreamStep
    BY <1>1, PlayRInv, ReadRInv, EndRInv, SendRInv DEF StreamStep
<1>2. CASE UNCHANGED vars
    BY <1>2 DEF vars, RInv, Shapes, PacketDue, SentUnits, Reassembled, Underway,
       Unit, Done, Came, Arrives, NoneLost
<1> QED
    BY <1>1, <1>2, NextIsStep

LEMMA Received == Spec => []RInv
    BY InitRInv, NextRInv, PTL DEF Spec

-----------------------------------------------------------------------------
(* The statics                                                                *)

(* Where the statics are reset, the files open with a start code of four      *)
(* bytes: their first unit is empty.                                          *)
Regular == variant = "h264_tcp" => FirstLens = {0}

(* seq_num is the number of the last packet, except after the reset: and then *)
(* no packet of the stream has left.                                          *)
Numbered ==
    pc # "idle" /\ sent # <<>> =>
        /\ sent[Len(sent)].seq_no = seq_num % W
        /\ variant = "h264_tcp" => cnt > 1

(* The only call before the reset sends nothing.                              *)
ResetBeforePackets ==
    variant = "h264_tcp" /\ pc = "send" => cnt > 1

(* Behind the reset, and before a packet, nothing is left of the streams      *)
(* before.                                                                    *)
Afresh ==
    pc # "idle" /\ variant = "h264_tcp" /\ sent = <<>> /\ cnt > 1 => seq_num = 0

(* The clock is as far from every packet as the units are.                    *)
Clocked ==
    pc # "idle" => \A i \in DOMAIN sent :
        ts_current = (sent[i].timestamp + Ticks * (Len(units) - sent[i].unit)) % M

SInv ==
    /\ Regular
    /\ Numbered
    /\ ResetBeforePackets
    /\ Afresh
    /\ Clocked
    /\ SeqInOrder
    /\ StaticsFollow

(* A stream's packets stay in order when one with the next number follows.    *)
LEMMA NextNumber ==
    ASSUME NEW x \in 0..W, x % W \in 1..(W - 2)
    PROVE  ((x + 1) % (W + 1)) % W = (x % W) + 1
<1>1. W \in Nat \ {0}
    BY Parameters
<1>2. CASE x = W
    <2>1. W % W = 0
        BY <1>1
    <2> QED
        BY <1>2, <2>1
<1>3. CASE x \in 0..(W - 1)
    <2>1. x % W = x
        BY <1>1, <1>3, SmallMod
    <2>2. x + 1 \in 0..(W - 1) /\ x + 1 \in 0..((W + 1) - 1) /\ W + 1 \in Nat \ {0}
        BY <1>1, <1>3, <2>1
    <2>3. (x + 1) % (W + 1) = x + 1
        BY <2>2, SmallMod
    <2>4. (x + 1) % W = x + 1
        BY <1>1, <2>2, SmallMod
    <2> QED
        BY <2>1, <2>3, <2>4
<1> QED
    BY <1>1, <1>2, <1>3

LEMMA InitSInv == Init /\ Regular => SInv
<1> SUFFICES ASSUME Init, Regular PROVE SInv
    OBVIOUS
<1>1. pc = "idle" /\ sent = <<>> /\ DOMAIN sent = {} /\ Len(sent) = 0
    BY EmptySeq DEF Init
<1> QED
    BY <1>1 DEF SInv, Numbered, ResetBeforePackets, Afresh, Clocked, SeqInOrder,
       StaticsFollow, TimestampsFollowUnits, StreamStartsAfresh

LEMMA PlaySInv == SInv /\ Play => SInv'
<1> SUFFICES ASSUME SInv, Play PROVE SInv'
    OBVIOUS
<1>1. pc' = "read" /\ sent' = <<>> /\ cnt' = 0 /\ variant' = variant
    BY DEF Play
<1>2. DOMAIN sent' = {} /\ Len(sent') = 0
    BY <1>1, EmptySeq
<1> QED
    BY <1>1, <1>2 DEF SInv, Regular, Numbered, ResetBeforePackets, Afresh, Clocked,
       SeqInOrder, StaticsFollow, TimestampsFollowUnits, StreamStartsAfresh

(* With every call the clock advances with the units, and what it is reset    *)
(* under is a stream without packets.                                         *)
LEMMA ReadSInv ==
    ASSUME RInv, SInv, NEW len \in FirstLens \cup Lens, ReadUnit(len)
    PROVE  SInv'
<1>1. /\ len \in Nat /\ units' = Append(units, len) /\ pc = "read"
      /\ pc' = (IF len < 1 THEN "read" ELSE "send") /\ cnt' = cnt + 1
      /\ variant' = variant /\ sent' = sent
      /\ ts_current' = (IF ResetsClock THEN 0 ELSE (ts_current + Ticks) % M)
      /\ seq_num' = (IF ResetsClock THEN 0 ELSE seq_num)
      /\ len \in (IF units = <<>> THEN FirstLens ELSE Lens)
    BY Parameters DEF ReadUnit, M
<1>2. /\ units \in Seq(Nat) /\ sent \in Seq(Packets) /\ cnt = Len(units) /\ cnt \in Nat
      /\ ts_current \in 0..(M - 1)
    BY LenProperties DEF RInv, Shapes
<1>3. Len(units') = Len(units) + 1
    BY <1>1, <1>2, AppendProperties
<1>4. Regular'
    BY <1>1 DEF SInv, Regular
<1>5. ResetsClock => sent = <<>>
    BY <1>1, <1>2 DEF SInv, Numbered, ResetsClock
<1>6. Numbered'
    BY <1>1, <1>2, <1>5 DEF SInv, Numbered
<1>7. ResetBeforePackets'
    <2>1. variant = "h264_tcp" /\ units = <<>> => len = 0
        BY <1>1 DEF SInv, Regular
    <2>2. cnt = 0 => units = <<>>
        BY <1>2, EmptySeq
    <2> QED
        BY <1>1, <1>2, <2>1, <2>2 DEF ResetBeforePackets
<1>8. Afresh'
    BY <1>1, <1>2 DEF SInv, Afresh, ResetsClock
<1>9. Clocked'
    <2>1. SUFFICES ASSUME NEW i \in DOMAIN sent
                   PROVE  ts_current' = (sent[i].timestamp
                                           + Ticks * ((Len(units) + 1) - sent[i].unit)) % M
        BY <1>1, <1>3 DEF Clocked
    <2>2. ~ResetsClock
        BY <1>5, <2>1
    <2>3. /\ sent[i].timestamp \in Nat
          /\ sent[i].unit \in 1..Len(units)
          /\ Len(units) \in Nat
        <3>1. sent[i] \in Packets
            BY <1>2, <2>1, ElementOfSeq
        <3>2. sent[i].timestamp \in 0..(M - 1)
            BY <3>1 DEF Packets
        <3>3. sent[i].unit \in 1..Len(units)
            BY <2>1 DEF RInv, SentUnits
        <3> QED
            BY <1>2, <3>2, <3>3
    <2>4. ts_current = (sent[i].timestamp + Ticks * (Len(units) - sent[i].unit)) % M
        BY <1>1, <2>1 DEF SInv, Clocked
    <2>5. PICK s \in Nat, u \in Nat, d \in Nat :
              s = sent[i].timestamp /\ u = sent[i].unit /\ d = Len(units) - u
        <3>1. Len(units) - sent[i].unit \in Nat /\ sent[i].unit \in Nat
            BY <2>3
        <3> QED
            BY <2>3, <3>1
    <2>6. (Len(units) + 1) - u = d + 1
        BY <2>3, <2>5
    <2>7. Ticks * d \in Nat /\ Ticks * (d + 1) = Ticks * d + Ticks
        BY <2>5, Parameters
    <2>8. s + Ticks * d \in Nat
        BY <2>5, <2>7
    <2>9. (((s + Ticks * d) % M) + Ticks) % M = ((s + Ticks * d) + Ticks) % M
        BY <2>8, Parameters, ModAdd
    <2>10. (s + Ticks * d) + Ticks = s + Ticks * (d + 1)
        <3>1. PICK x \in Nat : x = Ticks * d
            BY <2>7
        <3>2. Ticks * (d + 1) = x + Ticks
            BY <2>7, <3>1
        <3>3. (s + x) + Ticks = s + (x + Ticks)
            BY <3>1, Parameters
        <3> QED
            BY <3>1, <3>2, <3>3, Zenon
    <2>11. ts_current' = (s + Ticks * (d + 1)) % M
        <3>1. ts_current' = (ts_current + Ticks) % M
            BY <1>1, <2>2
        <3>2. ts_current = (s + Ticks * d) % M
            BY <2>4, <2>5
        <3> QED
            BY <2>9, <2>10, <3>1, <3>2, Zenon
    <2> QED
        BY <2>5, <2>6, <2>11
<1>10. SeqInOrder' /\ StaticsFollow'
    BY <1>1 DEF SInv, SeqInOrder, StaticsFollow, TimestampsFollowUnits, StreamStartsAfresh
<1> QED
    BY <1>4, <1>6, <1>7, <1>8, <1>9, <1>10 DEF SInv

LEMMA EndSInv == SInv /\ EndOfFile => SInv'
<1> SUFFICES ASSUME SInv, EndOfFile PROVE SInv'
    OBVIOUS
<1>1. pc' = "idle" /\ UNCHANGED <<variant, cnt, seq_num, ts_current, units, sent>>
    BY DEF EndOfFile
<1> QED
    BY <1>1 DEF SInv, Regular, Numbered, ResetBeforePackets, Afresh, Clocked,
       SeqInOrder, StaticsFollow, TimestampsFollowUnits, StreamStartsAfresh

(* A packet takes the next number and the clock as it stands.                 *)
LEMMA SendSInv ==
    ASSUME RInv, SInv, NEW ok \in BOOLEAN, SendPacket(ok)
    PROVE  SInv'
<1>0. Shapes /\ PacketDue
    BY DEF RInv
<1>1. /\ pc = "send" /\ seq_num' = NextSeq
      /\ variant' = variant /\ cnt' = cnt /\ ts_current' = ts_current /\ units' = units
    BY DEF SendPacket
<1>2. /\ sent' \in Seq(Packets)
      /\ Len(sent) \in Nat
      /\ Len(sent') = Len(sent) + 1
      /\ DOMAIN sent = 1..Len(sent) /\ DOMAIN sent' = 1..(Len(sent) + 1)
      /\ \A j \in 1..Len(sent) : sent'[j] = sent[j]
      /\ sent'[Len(sent) + 1] = Packet(ok)
    BY <1>0, PacketSent
<1>3. /\ Packet(ok).seq_no = NextSeq % W
      /\ Packet(ok).timestamp = ts_current
      /\ Packet(ok).unit = Len(units)
    BY DEF Packet, W
<1>4. /\ Len(units) \in Nat /\ ts_current \in 0..(M - 1) /\ seq_num \in 0..W
    BY <1>0, LenProperties DEF Shapes
<1>5. variant = "h264_tcp" => cnt > 1
    BY <1>1 DEF SInv, ResetBeforePackets
<1>6. Numbered' /\ ResetBeforePackets' /\ Regular'
    BY <1>1, <1>2, <1>3, <1>5 DEF SInv, Numbered, ResetBeforePackets, Regular
<1>7. sent' # <<>>
    BY <1>2, EmptySeq
<1>8. Afresh'
    BY <1>7 DEF Afresh
<1>9. Clocked'
    <2>1. SUFFICES ASSUME NEW i \in DOMAIN sent'
                   PROVE  ts_current = (sent'[i].timestamp
                                          + Ticks * (Len(units) - sent'[i].unit)) % M
        BY <1>1 DEF Clocked
    <2>2. CASE i \in 1..Len(sent)
        BY <1>1, <1>2, <2>2 DEF SInv, Clocked
    <2>3. CASE i = Len(sent) + 1
        <3>1. sent'[i].timestamp = ts_current /\ sent'[i].unit = Len(units)
            BY <1>2, <1>3, <2>3
        <3>2. Len(units) - Len(units) = 0 /\ Ticks * 0 = 0 /\ ts_current + 0 = ts_current
            BY <1>4, Parameters
        <3>3. ts_current % M = ts_current
            BY <1>4, Parameters, SmallMod
        <3> QED
            BY <3>1, <3>2, <3>3
    <2> QED
        BY <1>2, <2>1, <2>2, <2>3
<1>10. TimestampsFollowUnits'
    <2>1. SUFFICES ASSUME NEW i \in DOMAIN sent', NEW j \in DOMAIN sent', i < j
                   PROVE  sent'[j].timestamp
                            = (sent'[i].timestamp + Ticks * (sent'[j].unit - sent'[i].unit)) % M
        BY DEF TimestampsFollowUnits, M
    <2>2. i \in 1..Len(sent) /\ sent'[i] = sent[i]
        BY <1>2, <2>1
    <2>3. CASE j \in 1..Len(sent)
        BY <1>2, <2>1, <2>2, <2>3 DEF SInv, StaticsFollow, TimestampsFollowUnits, M
    <2>4. CASE j = Len(sent) + 1
        <3>1. sent'[j].timestamp = ts_current /\ sent'[j].unit = Len(units)
            BY <1>2, <1>3, <2>4
        <3> QED
            BY <1>1, <1>2, <2>2, <3>1 DEF SInv, Clocked
    <2> QED
        BY <1>2, <2>1, <2>3, <2>4
<1>11. variant' = "h264_tcp" => StreamStartsAfresh'
    <2>1. SUFFICES ASSUME variant = "h264_tcp"
                   PROVE  sent'[1].seq_no = 1 % UINT16_MAX
        BY <1>1 DEF StreamStartsAfresh
    <2>2. CASE sent = <<>>
        <3>1. Len(sent) = 0 /\ sent'[1] = Packet(ok)
            BY <1>2, <2>2, EmptySeq
        <3>2. seq_num = 0
            BY <1>1, <1>5, <2>1, <2>2 DEF SInv, Afresh
        <3>3. NextSeq = 1
            <4>1. W + 1 \in Nat \ {0} /\ 1 \in 0..((W + 1) - 1)
                BY Parameters
            <4>2. 1 % (W + 1) = 1
                BY <4>1, SmallMod
            <4> QED
                BY <3>2, <4>2 DEF NextSeq, W
        <3> QED
            BY <1>3, <3>1, <3>3 DEF W
    <2>3. CASE sent # <<>>
        <3>1. 1 \in 1..Len(sent)
            BY <1>0, <1>2, <2>3, EmptySeq DEF Shapes
        <3> QED
            BY <1>2, <2>1, <2>3, <3>1 DEF SInv, StaticsFollow, StreamStartsAfresh
    <2> QED
        BY <2>2, <2>3
<1>12. SeqInOrder'
    <2>1. SUFFICES ASSUME NEW i \in 1..(Len(sent') - 1), sent'[i].seq_no \in 1..(W - 2)
                   PROVE  sent'[i + 1].seq_no = sent'[i].seq_no + 1
        BY DEF SeqInOrder, W
    <2>2. CASE i < Len(sent)
        <3>1. i \in 1..(Len(sent) - 1) /\ sent'[i] = sent[i] /\ sent'[i + 1] = sent[i + 1]
            BY <1>2, <2>2
        <3> QED
            BY <2>1, <3>1 DEF SInv, SeqInOrder, W
    <2>3. CASE i = Len(sent)
        <3>1. sent # <<>> /\ sent'[i] = sent[i] /\ sent'[i + 1] = Packet(ok)
            BY <1>2, <2>3, EmptySeq
        <3>2. sent[i].seq_no = seq_num % W
            BY <1>1, <2>3, <3>1 DEF SInv, Numbered
        <3>3. NextSeq % W = (seq_num % W) + 1
            BY <1>4, <2>1, <3>1, <3>2, NextNumber DEF NextSeq, W
        <3> QED
            BY <1>3, <3>1, <3>2, <3>3
    <2>4. i < Len(sent) \/ i = Len(sent)
        <3>1. Len(sent) \in Nat /\ Len(sent') = Len(sent) + 1
            BY <1>2
        <3> QED
            BY <3>1
    <2> QED
        BY <2>2, <2>3, <2>4
<1> QED
    BY <1>6, <1>8, <1>9, <1>10, <1>11, <1>12 DEF SInv, StaticsFollow

LEMMA NextSInv == RInv /\ SInv /\ [Next]_vars => SInv'
<1> SUFFICES ASSUME RInv, SInv, [Next]_vars PROVE SInv'
    OBVIOUS
<1>1. CASE StreamStep
    BY <1>1, PlaySInv, ReadSInv, EndSInv, SendSInv DEF StreamStep
<1>2. CASE UNCHANGED vars
    BY <1>2 DEF vars, SInv, Regular, Numbered, ResetBeforePackets, Afresh, Clocked,
       SeqInOrder, StaticsFollow, TimestampsFollowUnits, StreamStartsAfresh
<1> QED
    BY <1>1, <1>2, NextIsStep

LEMMA Ordered == Spec /\ Regular => []SInv
    BY InitSInv, Received, NextSInv, PTL DEF Spec

-----------------------------------------------------------------------------
(* Theorems                                                                   *)

(* The 16 and 32 bits of the statics are kept, and there is always a packet   *)
(* left to send inside h264nal2rtp_send.                                      *)
THEOREM TypeCorrect == Spec => []TypeOK
<1>1. RInv => TypeOK
    BY DEF RInv, Shapes, PacketDue, TypeOK, W, M
<1> QED
    BY <1>1, Received, PTL

(* For every payload size and every mixture of lengths: between two units a   *)
(* receiver has exactly the units of which no packet was lost, save those     *)
(* that went as a single fragment.                                            *)
THEOREM UnitsReassembled == Spec => []UnitsArrive
<1>1. ASSUME RInv PROVE UnitsArrive
    <2>1. SUFFICES ASSUME pc = "read" PROVE UnitsArrive
        BY DEF UnitsArrive
    <2>2. Len(units) \in Nat /\ DOMAIN units = 1..Len(units)
        BY <1>1, LenProperties DEF RInv, Shapes
    <2>3. Done = Len(units)
        BY <2>1 DEF Done
    <2>4. /\ \A i \in DOMAIN got : \E k \in DOMAIN units : Arrives(k) /\ Came(i, k)
          /\ \A k \in DOMAIN units : Arrives(k) => \E i \in DOMAIN got : got[i].unit = k
          /\ \A i, j \in DOMAIN got : i < j => got[i].unit < got[j].unit
        BY <1>1, <2>1, <2>2, <2>3 DEF RInv, Reassembled
    <2>5. {got[i].unit : i \in DOMAIN got} = {k \in DOMAIN units : Arrives(k)}
        BY <2>4 DEF Came
    <2>6. \A i \in DOMAIN got :
              LET len == units[got[i].unit] IN got[i].len = len + Surplus(variant, len)
        BY <2>4 DEF Came
    <2> QED
        BY <2>4, <2>5, <2>6 DEF UnitsArrive
<1> QED
    BY <1>1, Received, PTL

(* Within every stream of the three programs the sequence numbers follow one  *)
(* another, although one resets them inside it: the call before the reset     *)
(* sends nothing.                                                             *)
THEOREM NumbersInOrder == Spec /\ Regular => []SeqInOrder
<1>1. SInv => SeqInOrder
    BY DEF SInv
<1> QED
    BY <1>1, Ordered, PTL

(* Time stamps are as far apart as the units, through every wrap of the clock *)
(* and over empty units; and where the statics are reset, the first packet of *)
(* every stream has the number 1.                                             *)
THEOREM StaticsInStep == Spec /\ Regular => []StaticsFollow
<1>1. SInv => StaticsFollow
    BY DEF SInv
<1> QED
    BY <1>1, Ordered, PTL
=============================================================================
