--------------------------- MODULE NalReaderProofs ---------------------------
(* For every set of files: no byte of a unit is lost, calls return only at    *)
(* start codes, both readers cut a file where its start codes are, and what a *)
(* unit holds is read as it was written.  The inductive invariant of the      *)
(* first part, IInv, adds to NothingLost that the history of the bytes read   *)
(* is as long as buffer_pos says; UnitsInv says where in the file the memory  *)
(* reader stands, BlocksInv where the block reader does.                      *)
EXTENDS MCNalReader, FiniteSetTheorems, SequenceTheorems, TLAPS

IInv ==
    /\ TypeOK
    /\ Len(seen) = buffer_pos
    /\ NothingLost

-----------------------------------------------------------------------------
(* Sequences                                                                  *)

(* n zeros are a sequence of n bytes.                                         *)
LEMMA ZerosAreBytes ==
    ASSUME NEW n \in Nat
    PROVE  Zeros(n) \in Seq(Byte) /\ Len(Zeros(n)) = n
<1>1. Zeros(n) \in [1..n -> Byte]
    BY DEF Zeros, Byte
<1>2. Zeros(n) \in Seq(Byte)
    BY <1>1, SeqDef
<1> QED
    BY <1>1, <1>2, LenProperties

(* No zeros are the empty sequence.                                           *)
LEMMA NoZeros == Zeros(0) = <<>>
<1>1. Zeros(0) \in Seq(Byte) /\ Len(Zeros(0)) = 0
    BY ZerosAreBytes
<1> QED
    BY <1>1, EmptySeq

(* One zero after n zeros makes n + 1 of them.                                *)
LEMMA OneMoreZero ==
    ASSUME NEW n \in Nat
    PROVE  Zeros(n) \o <<0>> = Zeros(n + 1)
<1> DEFINE z == <<0>>
<1>1. z \in Seq(Byte) /\ Len(z) = 1 /\ z[1] = 0
    BY DEF Byte
<1>2. Zeros(n) \in Seq(Byte) /\ Len(Zeros(n)) = n
    BY ZerosAreBytes
<1>3. Zeros(n + 1) \in Seq(Byte) /\ Len(Zeros(n + 1)) = n + 1
    BY ZerosAreBytes
<1> HIDE DEF z
<1>4. /\ Zeros(n) \o z \in Seq(Byte)
      /\ Len(Zeros(n) \o z) = n + 1
      /\ \A i \in 1..(n + 1) :
           (Zeros(n) \o z)[i] = IF i <= n THEN Zeros(n)[i] ELSE z[i - n]
    BY <1>1, <1>2, ConcatProperties
<1>5. \A i \in 1..(n + 1) : (Zeros(n) \o z)[i] = Zeros(n + 1)[i]
    <2> TAKE i \in 1..(n + 1)
    <2>1. Zeros(n + 1)[i] = 0
        BY DEF Zeros
    <2>2. CASE i <= n
        BY <1>4, <2>1, <2>2 DEF Zeros
    <2>3. CASE i = n + 1
        BY <1>1, <1>4, <2>1, <2>3
    <2>4. i <= n \/ i = n + 1
        OBVIOUS
    <2> QED
        BY <2>2, <2>3, <2>4
<1>6. Zeros(n) \o z = Zeros(n + 1)
    BY <1>3, <1>4, <1>5, SeqEqual
<1> QED
    BY <1>6 DEF z

(* What a call has read grows by the byte that is appended to the history.    *)
LEMMA ReadGrows ==
    ASSUME NEW s \in Seq(Byte), NEW c \in Byte, NEW a \in 0..Len(s)
    PROVE  SubSeq(Append(s, c), a + 1, Len(s) + 1)
             = SubSeq(s, a + 1, Len(s)) \o <<c>>
<1> DEFINE t == Append(s, c)
<1>1. /\ t \in Seq(Byte)
      /\ Len(t) = Len(s) + 1
      /\ t[Len(t)] = c
      /\ \A i \in 1..Len(s) : t[i] = s[i]
    BY AppendProperties
<1> HIDE DEF t
<1>2. Len(s) \in Nat
    BY LenProperties
<1>3. SubSeq(t, a + 1, Len(t)) = SubSeq(t, a + 1, Len(t) - 1) \o <<t[Len(t)]>>
    <2>1. a + 1 \in 1..Len(t) /\ Len(t) \in (a + 1)..Len(t)
        BY <1>1, <1>2
    <2> QED
        BY <1>1, <2>1, SubSeqRecursiveSecond
<1>4. SubSeq(t, a + 1, Len(s)) = SubSeq(s, a + 1, Len(s))
    <2> DEFINE x == SubSeq(t, a + 1, Len(s))
               y == SubSeq(s, a + 1, Len(s))
    <2>0. /\ \A i \in (a + 1)..Len(s) : t[i] \in Byte
          /\ \A i \in (a + 1)..Len(s) : s[i] \in Byte
        BY <1>1, <1>2, ElementOfSeq
    <2>1. /\ x \in Seq(Byte)
          /\ Len(x) = IF a + 1 <= Len(s) THEN Len(s) - (a + 1) + 1 ELSE 0
          /\ \A i \in 1..(Len(s) - (a + 1) + 1) : x[i] = t[a + 1 + i - 1]
        BY <1>2, <2>0, SubSeqProperties
    <2>2. /\ y \in Seq(Byte)
          /\ Len(y) = IF a + 1 <= Len(s) THEN Len(s) - (a + 1) + 1 ELSE 0
          /\ \A i \in 1..(Len(s) - (a + 1) + 1) : y[i] = s[a + 1 + i - 1]
        BY <1>2, <2>0, SubSeqProperties
    <2> HIDE DEF x, y
    <2>3. \A i \in 1..Len(x) : x[i] = y[i]
        BY <1>1, <1>2, <2>1, <2>2
    <2>4. x = y
        BY <2>1, <2>2, <2>3, SeqEqual
    <2> QED
        BY <2>4 DEF x, y
<1>5. Len(t) - 1 = Len(s)
    BY <1>1, <1>2
<1>6. SubSeq(t, a + 1, Len(s) + 1) = SubSeq(s, a + 1, Len(s)) \o <<c>>
    BY <1>1, <1>3, <1>4, <1>5
<1> QED
    BY <1>6 DEF t

-----------------------------------------------------------------------------
(* The invariant                                                              *)

(* A byte that is read keeps the types of the file, the position and the      *)
(* history, and adds itself to what the running call has read.                *)
LEMMA ConsumeStep ==
    ASSUME IInv, NEW c \in Byte, Consume(c)
    PROVE  /\ buffer' \in Files
           /\ buffer_pos' \in 0..Len(buffer')
           /\ seen' \in Seq(Byte)
           /\ Len(seen') = buffer_pos'
           /\ unit_start' \in 0..buffer_pos'
           /\ SubSeq(seen', unit_start' + 1, buffer_pos')
                = (buf \o Zeros(flag)) \o <<c>>
<1> USE DEF IInv, TypeOK, Consume, CanRead
<1>1. /\ Len(buffer) \in Nat
      /\ buffer_pos' = buffer_pos + 1
      /\ seen' = Append(seen, c)
      /\ buffer' = buffer /\ unit_start' = unit_start
    BY FilesAssumption, LenProperties
<1>2. seen' \in Seq(Byte) /\ Len(seen') = buffer_pos'
    BY <1>1
<1>3. SubSeq(seen', unit_start + 1, buffer_pos + 1)
        = SubSeq(seen, unit_start + 1, buffer_pos) \o <<c>>
    BY <1>1, ReadGrows
<1>4. SubSeq(seen, unit_start + 1, buffer_pos) = buf \o Zeros(flag)
    BY DEF NothingLost
<1>5. SubSeq(seen', unit_start' + 1, buffer_pos') = (buf \o Zeros(flag)) \o <<c>>
    BY <1>1, <1>3, <1>4
<1>6. buffer_pos' \in 0..Len(buffer') /\ unit_start' \in 0..buffer_pos'
    BY <1>1
<1> QED
    BY <1>1, <1>2, <1>5, <1>6

(* The invariant holds when the file has been opened.                         *)
LEMMA InitIInv == Init => IInv
<1> SUFFICES ASSUME Init PROVE IInv
    OBVIOUS
<1>1. Len(buffer) \in Nat
    BY FilesAssumption, LenProperties DEF Init
<1> QED
    BY <1>1 DEF Init, IInv, TypeOK, NothingLost, Byte

(* Every step keeps it.                                                       *)
LEMMA NextIInv == IInv /\ [Next]_vars => IInv'
<1> SUFFICES ASSUME IInv, [Next]_vars PROVE IInv'
    OBVIOUS
<1>0. /\ Len(buffer) \in Nat /\ Len(seen) \in Nat
      /\ buf \in Seq(Byte) /\ flag \in Nat
      /\ Zeros(flag) \in Seq(Byte)
    BY FilesAssumption, LenProperties, ZerosAreBytes DEF IInv, TypeOK
<1>1. CASE CopyNal
    <2>1. TypeOK' /\ (Len(seen) = buffer_pos)'
        BY <1>0, <1>1, EmptySeq DEF IInv, TypeOK, CopyNal
    <2>2. SubSeq(seen, buffer_pos + 1, buffer_pos) = <<>>
        BY SubSeqEmpty DEF IInv, TypeOK
    <2>3. <<>> \o Zeros(0) = <<>>
        BY NoZeros, ConcatEmptySeq, EmptySeq
    <2> QED
        BY <1>1, <2>1, <2>2, <2>3 DEF IInv, CopyNal, NothingLost
<1>2. ASSUME NEW c \in Byte, KeepByte(c) PROVE IInv'
    <2>1. <<c>> \in Seq(Byte)
        OBVIOUS
    <2>2. buf' = (buf \o Zeros(flag)) \o <<c>> /\ buf' \in Seq(Byte)
        BY <1>0, <1>2, <2>1, ConcatProperties DEF KeepByte
    <2>3. buf' \o Zeros(0) = buf'
        BY <2>2, NoZeros, ConcatEmptySeq
    <2>4. TypeOK' /\ (Len(seen) = buffer_pos)'
        BY <1>2, <2>2, ConsumeStep DEF KeepByte, IInv, TypeOK
    <2>5. NothingLost'
        BY <1>2, <2>2, <2>3, ConsumeStep DEF KeepByte, NothingLost
    <2> QED
        BY <2>4, <2>5 DEF IInv
<1>3. ASSUME NEW c \in Byte, HoldZero(c) PROVE IInv'
    <2>1. c = 0 /\ flag < 3 /\ flag' = flag + 1 /\ buf' = buf
        BY <1>3 DEF HoldZero, HoldsZero
    <2>2. <<0>> \in Seq(Byte)
        BY DEF Byte
    <2>3. (buf \o Zeros(flag)) \o <<0>> = buf \o Zeros(flag + 1)
        <3>1. (buf \o Zeros(flag)) \o <<0>> = buf \o (Zeros(flag) \o <<0>>)
            BY <1>0, <2>2, ConcatAssociative
        <3> QED
            BY <1>0, <3>1, OneMoreZero
    <2>4. Consume(c) /\ pc' = pc /\ units' = units
        BY <1>3 DEF HoldZero
    <2>5. flag' \in 0..3
        BY <2>1 DEF IInv, TypeOK
    <2>6. TypeOK' /\ (Len(seen) = buffer_pos)'
        BY <2>1, <2>4, <2>5, ConsumeStep DEF IInv, TypeOK
    <2>7. NothingLost'
        BY <2>1, <2>3, <2>4, ConsumeStep DEF NothingLost
    <2> QED
        BY <2>6, <2>7 DEF IInv
<1>4. ASSUME NEW c \in Byte, ReturnUnit(c) PROVE IInv'
    <2>1. Consume(c) /\ buf' = buf /\ flag' = 0 /\ pc' = "idle"
        BY <1>4 DEF ReturnUnit
    <2>2. units' \in Seq(Seq(Byte))
        BY <1>4 DEF ReturnUnit, IInv, TypeOK
    <2>3. buf' \in Seq(Byte) /\ flag' \in 0..3 /\ pc' \in {"idle", "scan", "ended"}
        BY <2>1 DEF IInv, TypeOK
    <2>4. /\ buffer' \in Files
          /\ buffer_pos' \in 0..Len(buffer')
          /\ seen' \in Seq(Byte)
          /\ Len(seen') = buffer_pos'
          /\ unit_start' \in 0..buffer_pos'
        BY <2>1, ConsumeStep
    <2>5. TypeOK' /\ (Len(seen) = buffer_pos)'
        BY <2>2, <2>3, <2>4 DEF TypeOK
    <2> QED
        BY <2>1, <2>5 DEF IInv, NothingLost
<1>5. CASE ReturnError
    BY <1>5 DEF IInv, TypeOK, NothingLost, ReturnError
<1>6. CASE Reset
    BY <1>0, <1>6, EmptySeq DEF IInv, TypeOK, NothingLost, Reset
<1>7. CASE UNCHANGED vars
    BY <1>7 DEF IInv, TypeOK, NothingLost, vars, Zeros
<1> QED
    BY <1>1, <1>2, <1>3, <1>4, <1>5, <1>6, <1>7 DEF Next

(* IInv holds in every state.                                                 *)
LEMMA Inductive == Spec => []IInv
    BY InitIInv, NextIInv, PTL DEF Spec

-----------------------------------------------------------------------------
(* Theorems                                                                   *)

(* Every variable keeps its type; at most three zeros are ever held back, so  *)
(* that tmpbuf[4] is enough, and the position stays within the file.          *)
THEOREM TypeCorrect == Spec => []TypeOK
    BY Inductive, PTL DEF IInv

(* For every file: what a call has collected, with the zeros it holds back,   *)
(* is what it has read.                                                       *)
THEOREM NoByteLost == Spec => []NothingLost
    BY Inductive, PTL DEF IInv

(* A step that returns a unit returns it at a start code.                     *)
LEMMA ReturnStep ==
    ASSUME IInv, [Next]_vars, units' # units, units' # <<>>
    PROVE  \E z \in {2, 3} :
             SubSeq(seen', unit_start + 1, buffer_pos')
               = units'[Len(units')] \o Zeros(z) \o <<1>>
<1>1. PICK c \in Byte : ReturnUnit(c)
    BY DEF Next, vars, CopyNal, KeepByte, HoldZero, ReturnError, Reset
<1>2. c = 1 /\ flag \in {2, 3} /\ units' = Append(units, buf) /\ unit_start' = unit_start
    BY <1>1 DEF ReturnUnit, EndsUnit, Consume
<1>3. units'[Len(units')] = buf
    BY <1>2 DEF IInv, TypeOK
<1>4. SubSeq(seen', unit_start' + 1, buffer_pos') = (buf \o Zeros(flag)) \o <<c>>
    BY <1>1, ConsumeStep DEF ReturnUnit
<1> QED
    BY <1>2, <1>3, <1>4

(* For every file: a call returns a unit only at a start code of three or     *)
(* four bytes, and keeps nothing of the code.                                 *)
THEOREM ReturnsRight == Spec => ReturnsAtStartCode
<1>1. IInv /\ [Next]_vars =>
        [units' # units /\ units' # <<>> =>
            \E z \in {2, 3} :
                SubSeq(seen', unit_start + 1, buffer_pos')
                    = units'[Len(units')] \o Zeros(z) \o <<1>>]_vars
    BY ReturnStep
<1> QED
    BY <1>1, Inductive, PTL DEF Spec, ReturnsAtStartCode

-----------------------------------------------------------------------------
(* The units of the file                                                      *)

\* What the scan has read since the call began: the unit so far and the zeros
\* that may belong to a start code, up to the byte behind buffer_pos.
Collected ==
    /\ buffer_pos = unit_start + Len(buf) + flag
    /\ \A i \in 1..Len(buf) : buf[i] = buffer[unit_start + 1 + i]
    /\ \A i \in 1..flag : buffer[unit_start + 1 + Len(buf) + i] = 0
    /\ buf # <<>> => buf[Len(buf)] # 0

\* A call begins behind the start code passed last; the first one is in the code
\* that opens the file.
BehindCode(p) == p - 1 \in Passed /\ \A i \in Passed : i <= p - 1
Opening == unit_start = 0 /\ units = <<>> /\ buf = <<>> /\ buffer_pos <= 2

Located ==
    /\ pc = "idle" => BehindCode(buffer_pos) \/ (buffer_pos = 0 /\ units = <<>>)
    /\ pc = "scan" /\ buffer_pos < Len(buffer) =>
           Collected /\ (BehindCode(unit_start) \/ Opening)
    /\ pc = "ended" => buffer_pos = Len(buffer)

\* The k-th unit returned is the one behind the (k - 1)-th start code passed.
Rank(S, i) == Cardinality({j \in S : j < i})
Returned(k) ==
    IF k = 1 THEN units[k] = <<>>
    ELSE \E i \in Passed : Rank(Passed, i) = k - 2 /\ units[k] = UnitAfter(buffer, i)
AsInFile == Len(units) = Cardinality(Passed) /\ \A k \in DOMAIN units : Returned(k)

UnitsInv == Regular(buffer) => Located /\ AsInFile

\* A stretch of a file.
LEMMA Stretch ==
    ASSUME NEW f \in Seq(Byte), NEW a \in Nat \ {0}, NEW k \in Nat, NEW b \in Nat,
           b = a + k - 1, b <= Len(f)
    PROVE  /\ SubSeq(f, a, b) \in Seq(Byte) /\ Len(SubSeq(f, a, b)) = k
           /\ \A j \in 1..k : SubSeq(f, a, b)[j] = f[a + j - 1]
<1>1. \A j \in a..b : f[j] \in Byte
    BY ElementOfSeq, LenProperties
<1>2. /\ SubSeq(f, a, b) \in Seq(Byte)
      /\ Len(SubSeq(f, a, b)) = IF a <= b THEN b - a + 1 ELSE 0
      /\ \A j \in 1..(b - a + 1) : SubSeq(f, a, b)[j] = f[a + j - 1]
    BY <1>1, SubSeqProperties
<1>3. (IF a <= b THEN b - a + 1 ELSE 0) = k /\ b - a + 1 = k
    OBVIOUS
<1> QED
    BY <1>2, <1>3

\* Which stretch of a file is a given sequence.
LEMMA StretchIs ==
    ASSUME NEW f \in Seq(Byte), NEW a \in Nat \ {0}, NEW b \in Nat,
           NEW s \in Seq(Byte), b = a + Len(s) - 1, b <= Len(f)
    PROVE  SubSeq(f, a, b) = s <=> \A j \in 1..Len(s) : f[a + j - 1] = s[j]
<1>0. PICK k \in Nat : k = Len(s)
    BY LenProperties
<1>1. PICK w \in Seq(Byte) : w = SubSeq(f, a, b)
    BY <1>0, Stretch
<1>2. Len(w) = k /\ \A j \in 1..k : w[j] = f[a + j - 1]
    BY <1>0, <1>1, Stretch
<1>3. ASSUME \A j \in 1..k : f[a + j - 1] = s[j] PROVE w = s
    <2>1. \A j \in 1..Len(w) : w[j] = s[j]
        BY <1>2, <1>3
    <2> QED
        BY <1>0, <1>2, <2>1, SeqEqual
<1>4. ASSUME w = s PROVE \A j \in 1..k : f[a + j - 1] = s[j]
    BY <1>2, <1>4
<1> QED
    BY <1>0, <1>1, <1>3, <1>4

\* Where start codes are, byte by byte.
LEMMA CodeBytes ==
    ASSUME NEW f \in Seq(Byte), NEW n \in Nat, n = Len(f), NEW i \in Int
    PROVE  i \in Codes(f) <=> i \in 1..(n - 2) /\ f[i] = 0 /\ f[i + 1] = 0 /\ f[i + 2] = 1
<1> DEFINE s == <<0, 0, 1>>
<1>0. s \in Seq(Byte) /\ Len(s) = 3 /\ s[1] = 0 /\ s[2] = 0 /\ s[3] = 1
    BY DEF Byte
<1>1. i \in Codes(f) <=> i \in 1..(n - 2) /\ SubSeq(f, i, i + 2) = s
    <2>2. n - 3 + 1 = n - 2 /\ i + 3 - 1 = i + 2
        OBVIOUS
    <2> QED
        BY <1>0, <2>2 DEF Codes, Occurs, ThreeByteCode
<1> HIDE DEF s
<1>2. ASSUME i \in 1..(n - 2)
      PROVE  SubSeq(f, i, i + 2) = s <=> f[i] = 0 /\ f[i + 1] = 0 /\ f[i + 2] = 1
    <2>1. i \in Nat \ {0} /\ i + 2 \in Nat /\ i + 2 = i + 3 - 1 /\ i + 2 <= Len(f)
        BY <1>2
    <2>2. SubSeq(f, i, i + 2) = s <=> \A j \in 1..3 : f[i + j - 1] = s[j]
        BY <1>0, <2>1, StretchIs
    <2>3. i + 1 - 1 = i /\ i + 2 - 1 = i + 1 /\ i + 3 - 1 = i + 2
        OBVIOUS
    <2>4. (\A j \in 1..3 : f[i + j - 1] = s[j])
            <=> f[i + 1 - 1] = s[1] /\ f[i + 2 - 1] = s[2] /\ f[i + 3 - 1] = s[3]
        <3>1. \A j \in 1..3 : j = 1 \/ j = 2 \/ j = 3
            OBVIOUS
        <3>2. 1 \in 1..3 /\ 2 \in 1..3 /\ 3 \in 1..3
            OBVIOUS
        <3> QED
            BY <3>1, <3>2
    <2> QED
        BY <1>0, <2>2, <2>3, <2>4
<1> QED
    BY <1>1, <1>2

\* What Regular says of the bytes.
LEMMA RegularBytes ==
    ASSUME NEW f \in Seq(Byte), Regular(f), NEW n \in Nat, n = Len(f)
    PROVE  /\ n > 4 /\ f[1] = 0 /\ f[2] = 0 /\ f[3] = 0 /\ f[4] = 1
           /\ f[n - 1] # 0 \/ f[n] # 0
           /\ \A i \in 1..(n - 3) : ~(f[i] = 0 /\ f[i + 1] = 0 /\ f[i + 2] = 0 /\ f[i + 3] = 0)
<1>1. n > 4
    BY DEF Regular
<1>2. f[1] = 0 /\ f[2] = 0 /\ f[3] = 0 /\ f[4] = 1
    <2> DEFINE s == <<0, 0, 0, 1>>
    <2>1. s \in Seq(Byte) /\ Len(s) = 4 /\ s[1] = 0 /\ s[2] = 0 /\ s[3] = 0 /\ s[4] = 1
        BY DEF Byte
    <2>2. SubSeq(f, 1, 4) = s
        BY DEF Regular
    <2> HIDE DEF s
    <2>3. 1 \in Nat \ {0} /\ 4 \in Nat /\ 4 = 1 + 4 - 1 /\ 4 <= Len(f)
        BY <1>1
    <2>4. \A j \in 1..4 : f[1 + j - 1] = s[j]
        BY <2>1, <2>2, <2>3, StretchIs
    <2>5. f[1 + 1 - 1] = s[1] /\ f[1 + 2 - 1] = s[2] /\ f[1 + 3 - 1] = s[3] /\ f[1 + 4 - 1] = s[4]
        BY <2>4
    <2> QED
        BY <2>1, <2>5
<1>3. ASSUME f[n - 1] = 0, f[n] = 0 PROVE FALSE
    <2> DEFINE s == <<0, 0>>
    <2>1. s \in Seq(Byte) /\ Len(s) = 2 /\ s[1] = 0 /\ s[2] = 0
        BY DEF Byte
    <2>2. SubSeq(f, n - 1, n) # s
        BY DEF Regular
    <2> HIDE DEF s
    <2>3. n - 1 \in Nat \ {0} /\ n = n - 1 + 2 - 1 /\ n <= Len(f)
        BY <1>1
    <2>4. \A j \in 1..2 : f[n - 1 + j - 1] = s[j]
        <3> TAKE j \in 1..2
        <3>1. j = 1 \/ j = 2
            OBVIOUS
        <3>2. n - 1 + 1 - 1 = n - 1 /\ n - 1 + 2 - 1 = n
            OBVIOUS
        <3> QED
            BY <1>3, <2>1, <3>1, <3>2
    <2> QED
        BY <2>1, <2>2, <2>3, <2>4, StretchIs
<1>4. ASSUME NEW i \in 1..(n - 3), f[i] = 0, f[i + 1] = 0, f[i + 2] = 0, f[i + 3] = 0
      PROVE  FALSE
    <2> DEFINE s == <<0, 0, 0, 0>>
    <2>1. s \in Seq(Byte) /\ Len(s) = 4 /\ s[1] = 0 /\ s[2] = 0 /\ s[3] = 0 /\ s[4] = 0
        BY DEF Byte
    <2>2. Occurs(s, f) = {}
        BY DEF Regular
    <2> HIDE DEF s
    <2>3. i \in Nat \ {0} /\ i + 3 \in Nat /\ i + 3 = i + 4 - 1 /\ i + 3 <= Len(f)
        OBVIOUS
    <2>4. \A j \in 1..4 : f[i + j - 1] = s[j]
        <3> TAKE j \in 1..4
        <3>1. j = 1 \/ j = 2 \/ j = 3 \/ j = 4
            OBVIOUS
        <3>2. i + 1 - 1 = i /\ i + 2 - 1 = i + 1 /\ i + 3 - 1 = i + 2 /\ i + 4 - 1 = i + 3
            OBVIOUS
        <3> QED
            BY <1>4, <2>1, <3>1, <3>2
    <2>5. SubSeq(f, i, i + 3) = s
        <3>1. PICK a \in Nat \ {0}, b \in Nat :
                  a = i /\ b = i + 3 /\ b = a + Len(s) - 1 /\ b <= Len(f)
            BY <2>1, <2>3
        <3>2. SubSeq(f, a, b) = s <=> \A j \in 1..Len(s) : f[a + j - 1] = s[j]
            <4>1. s \in Seq(Byte) /\ b = a + Len(s) - 1 /\ b <= Len(f)
                BY <2>1, <3>1
            <4> QED
                BY <4>1, StretchIs
        <3>3. \A j \in 1..Len(s) : f[a + j - 1] = s[j]
            BY <2>1, <2>4, <3>1
        <3> QED
            BY <3>1, <3>2, <3>3
    <2>6. i \in Occurs(s, f)
        <3>1. n - 4 + 1 = n - 3 /\ i + 4 - 1 = i + 3
            OBVIOUS
        <3> QED
            BY <2>1, <2>5, <3>1 DEF Occurs
    <2> QED
        BY <2>2, <2>6
<1> QED
    BY <1>1, <1>2, <1>3, <1>4

\* The start codes passed are finitely many positions.
LEMMA PassedPlaces ==
    ASSUME buffer \in Seq(Byte)
    PROVE  IsFiniteSet(Passed) /\ Passed \subseteq Nat /\ Cardinality(Passed) \in Nat
<1>1. PICK n \in Nat : n = Len(buffer)
    OBVIOUS
<1>2. Passed \subseteq 1..n
    <2>1. \A i \in Codes(buffer) : i \in 1..(n - 3 + 1)
        BY <1>1 DEF Codes, Occurs, ThreeByteCode
    <2> QED
        BY <2>1 DEF Passed
<1>3. IsFiniteSet(1..n)
    BY FS_Interval
<1>4. IsFiniteSet(Passed)
    BY <1>2, <1>3, FS_Subset
<1>5. Passed \subseteq Nat
    BY <1>2
<1> QED
    BY <1>4, <1>5, FS_CardinalityType

\* What is known while a call has bytes left to read, in a file the reader is
\* made for.
LEMMA Scanning ==
    ASSUME IInv, UnitsInv, Regular(buffer), pc = "scan", buffer_pos < Len(buffer)
    PROVE  /\ buffer \in Seq(Byte) /\ Len(buffer) \in Nat
           /\ buffer_pos \in Nat /\ unit_start \in Nat /\ flag \in 0..3
           /\ buf \in Seq(Byte) /\ Len(buf) \in Nat
           /\ Collected
           /\ BehindCode(unit_start) \/ Opening
    BY FilesAssumption, LenProperties DEF IInv, TypeOK, UnitsInv, Located

\* A call begins behind the last byte of a start code, or in the first one.
LEMMA CallBegins ==
    ASSUME buffer \in Seq(Byte), unit_start \in Nat, BehindCode(unit_start)
    PROVE  /\ unit_start > 1 /\ unit_start + 1 <= Len(buffer)
           /\ buffer[unit_start + 1] = 1
<1>1. PICK n \in Nat : n = Len(buffer)
    OBVIOUS
<1>2. unit_start - 1 \in Codes(buffer)
    BY DEF BehindCode, Passed
<1>3. unit_start - 1 \in 1..(n - 2) /\ buffer[unit_start - 1 + 2] = 1
    BY <1>1, <1>2, CodeBytes
<1>4. unit_start - 1 + 2 = unit_start + 1
    OBVIOUS
<1> QED
    BY <1>1, <1>3, <1>4

\* While fewer than two zeros are held back, no start code ends at the next byte.
LEMMA NoCodeYet ==
    ASSUME IInv, UnitsInv, Regular(buffer), pc = "scan", buffer_pos < Len(buffer),
           buffer_pos \in Codes(buffer)
    PROVE  flag \in {2, 3}
<1>1. PICK n \in Nat : n = Len(buffer)
    BY Scanning
<1> DEFINE p == buffer_pos
           u == unit_start
<1>2. p \in 1..(n - 2) /\ buffer[p] = 0 /\ buffer[p + 1] = 0 /\ buffer[p + 2] = 1
    BY <1>1, Scanning, CodeBytes
<1>3. /\ n > 4 /\ buffer[1] = 0 /\ buffer[2] = 0 /\ buffer[3] = 0 /\ buffer[4] = 1
    BY <1>1, Scanning, RegularBytes
<1>4. CASE Opening
    <2>1. p \in 1..2 /\ flag = p
        BY <1>2, <1>4, Scanning, EmptySeq DEF Opening, Collected
    <2> QED
        BY <1>2, <1>3, <1>4, <2>1
<1>5. CASE ~Opening
    <2>0. /\ Collected /\ Len(buf) \in Nat /\ u \in Nat /\ flag \in 0..3
          /\ u > 1 /\ buffer[u + 1] = 1
        BY <1>5, Scanning, CallBegins
    <2>1. flag # 0
        <3> SUFFICES ASSUME flag = 0 PROVE FALSE
            OBVIOUS
        <3>1. p = u + Len(buf)
            BY <2>0 DEF Collected
        <3>2. CASE Len(buf) = 0
            BY <1>2, <2>0, <3>1, <3>2
        <3>3. CASE Len(buf) > 0
            <4>1. buf[Len(buf)] = buffer[u + 1 + Len(buf)] /\ buf[Len(buf)] # 0
                BY <2>0, <3>3, EmptySeq DEF Collected
            <4> QED
                BY <1>2, <2>0, <3>1, <4>1
        <3> QED
            BY <2>0, <3>2, <3>3
    <2>2. flag # 1
        <3> SUFFICES ASSUME flag = 1 PROVE FALSE
            OBVIOUS
        <3>1. p = u + Len(buf) + 1
            BY <2>0 DEF Collected
        <3>2. CASE Len(buf) = 0
            BY <1>2, <2>0, <3>1, <3>2
        <3>3. CASE Len(buf) > 0
            <4>1. buf[Len(buf)] = buffer[u + 1 + Len(buf)] /\ buf[Len(buf)] # 0
                BY <2>0, <3>3, EmptySeq DEF Collected
            <4>2. u + 1 + Len(buf) = p
                BY <2>0, <3>1
            <4> QED
                BY <1>2, <4>1, <4>2
        <3> QED
            BY <2>0, <3>2, <3>3
    <2> QED
        BY <1>5, <2>0, <2>1, <2>2
<1> QED
    BY <1>4, <1>5

\* A byte that is read passes at most one start code: the one that ends with it.
LEMMA PassedGrows ==
    ASSUME buffer \in Seq(Byte), buffer_pos \in Nat, buffer' = buffer,
           buffer_pos' = buffer_pos + 1
    PROVE  /\ Passed' = Passed \cup (Codes(buffer) \cap {buffer_pos})
           /\ \A i \in Passed : i \in Nat /\ i < buffer_pos
<1>1. \A i \in Codes(buffer) : i \in Nat
    BY CodeBytes DEF Codes, Occurs
<1>2. \A i : i \in Passed' <=> i \in Codes(buffer) /\ i + 2 <= buffer_pos + 1 + 1
    BY DEF Passed
<1>3. \A i : i \in Passed <=> i \in Codes(buffer) /\ i + 2 <= buffer_pos + 1
    BY DEF Passed
<1>4. \A i \in Nat : i + 2 <= buffer_pos + 1 + 1 <=> i + 2 <= buffer_pos + 1 \/ i = buffer_pos
    OBVIOUS
<1> QED
    BY <1>1, <1>2, <1>3, <1>4

\* A byte that does not end a unit is no start code's last byte, and what has
\* been collected stays what the file holds.
LEMMA StaysUnits ==
    ASSUME IInv, UnitsInv, NEW c \in Byte, KeepByte(c) \/ HoldZero(c)
    PROVE  UnitsInv'
<1> SUFFICES ASSUME Regular(buffer) PROVE (Located /\ AsInFile)'
    BY DEF UnitsInv, KeepByte, HoldZero, Consume
<1> DEFINE p == buffer_pos
           u == unit_start
<1>1. PICK n \in Nat : n = Len(buffer)
    BY FilesAssumption DEF IInv, TypeOK
<1>2. /\ pc = "scan" /\ p + 1 <= n /\ c \in fread1 /\ ~EndsUnit(c)
      /\ buffer_pos' = p + 1 /\ pc' = pc /\ units' = units
      /\ buffer' = buffer /\ unit_start' = u
    BY <1>1 DEF KeepByte, HoldZero, HoldsZero, EndsUnit, Consume, CanRead
<1>3. p \in Nat /\ p < Len(buffer)
    BY <1>1, <1>2 DEF IInv, TypeOK
<1>4. /\ buffer \in Seq(Byte) /\ u \in Nat /\ flag \in 0..3
      /\ buf \in Seq(Byte) /\ Len(buf) \in Nat
      /\ p = u + Len(buf) + flag
      /\ \A i \in 1..Len(buf) : buf[i] = buffer[u + 1 + i]
      /\ \A i \in 1..flag : buffer[u + 1 + Len(buf) + i] = 0
      /\ buf # <<>> => buf[Len(buf)] # 0
      /\ BehindCode(u) \/ Opening
    BY <1>2, <1>3, Scanning DEF Collected
<1>5. p + 2 <= n => c = buffer[p + 2]
    BY <1>1, <1>2 DEF fread1
<1>6. p \notin Codes(buffer)
    <2> SUFFICES ASSUME p \in Codes(buffer) PROVE FALSE
        OBVIOUS
    <2>1. flag \in {2, 3}
        BY <1>2, <1>3, NoCodeYet
    <2>2. p \in 1..(n - 2) /\ buffer[p + 2] = 1
        BY <1>1, <1>3, <1>4, CodeBytes
    <2>3. c = 1
        BY <1>1, <1>5, <2>2
    <2> QED
        BY <1>2, <2>1, <2>3 DEF EndsUnit
<1>7. Passed' = Passed
    BY <1>2, <1>3, <1>4, <1>6, PassedGrows
<1>8. AsInFile'
    BY <1>2, <1>7 DEF AsInFile, Returned, UnitsInv
<1>9. BehindCode(u) => BehindCode(unit_start)'
    BY <1>2, <1>7 DEF BehindCode
<1>10. /\ n > 4 /\ buffer[2] = 0 /\ buffer[3] = 0 /\ buffer[4] = 1
       /\ \A i \in 1..(n - 3) : ~(buffer[i] = 0 /\ buffer[i + 1] = 0
                                  /\ buffer[i + 2] = 0 /\ buffer[i + 3] = 0)
    BY <1>1, <1>4, RegularBytes
<1>11. ASSUME KeepByte(c), p + 2 <= n PROVE Collected' /\ BehindCode(unit_start)'
    <2>1. buf' = buf \o Zeros(flag) \o <<c>> /\ flag' = 0 /\ ~HoldsZero(c)
        BY <1>11 DEF KeepByte
    <2>2. c # 0
        <3> SUFFICES ASSUME c = 0 PROVE FALSE
            OBVIOUS
        <3>1. flag = 3
            BY <1>4, <2>1 DEF HoldsZero
        <3>2. /\ buffer[u + 1 + Len(buf) + 1] = 0 /\ buffer[u + 1 + Len(buf) + 2] = 0
              /\ buffer[u + 1 + Len(buf) + 3] = 0
            BY <1>4, <3>1
        <3>3. /\ u + 1 + Len(buf) + 1 = p - 1 /\ u + 1 + Len(buf) + 2 = p - 1 + 1
              /\ u + 1 + Len(buf) + 3 = p - 1 + 2 /\ p + 2 = p - 1 + 3
              /\ p - 1 \in 1..(n - 3)
            BY <1>4, <3>1, <1>11
        <3> QED
            BY <1>5, <1>10, <1>11, <3>2, <3>3
    <2>3. BehindCode(u)
        <3> SUFFICES ASSUME Opening PROVE FALSE
            BY <1>4
        <3>1. u = 0 /\ p = flag /\ p <= 2
            BY <1>4, EmptySeq DEF Opening
        <3>2. p = 2
            BY <1>3, <1>5, <1>10, <1>11, <2>2, <3>1
        <3>3. c = 1
            BY <1>5, <1>10, <1>11, <3>2
        <3> QED
            BY <1>2, <3>1, <3>2, <3>3 DEF EndsUnit
    <2>4. PICK z \in Seq(Byte) : z = Zeros(flag) /\ Len(z) = flag
                                 /\ \A i \in 1..flag : z[i] = 0
        <3>1. \A i \in 1..flag : Zeros(flag)[i] = 0
            BY DEF Zeros
        <3> QED
            BY <1>4, <3>1, ZerosAreBytes
    <2>5. PICK l \in Nat : l = Len(buf)
        BY <1>4
    <2>6. PICK m \in Nat : m = flag
        BY <1>4
    <2>7. PICK s \in Seq(Byte) : /\ s = buf \o z /\ Len(s) = l + m
                                 /\ \A i \in 1..l : s[i] = buf[i]
                                 /\ \A i \in 1..m : s[l + i] = 0
        <3>1. /\ buf \o z \in Seq(Byte) /\ Len(buf \o z) = l + m
              /\ \A i \in 1..(l + m) : (buf \o z)[i] = IF i <= l THEN buf[i] ELSE z[i - l]
            BY <1>4, <2>4, <2>5, <2>6, ConcatProperties
        <3>2. \A i \in 1..l : (buf \o z)[i] = buf[i]
            BY <3>1
        <3>3. \A i \in 1..m : (buf \o z)[l + i] = 0
            <4> TAKE i \in 1..m
            <4>1. l + i \in 1..(l + m) /\ ~(l + i <= l) /\ l + i - l = i
                OBVIOUS
            <4> QED
                BY <2>4, <2>6, <3>1, <4>1
        <3> QED
            BY <3>1, <3>2, <3>3
    <2>8. /\ buf' \in Seq(Byte) /\ Len(buf') = l + m + 1
          /\ \A i \in 1..(l + m) : buf'[i] = s[i]
          /\ buf'[l + m + 1] = c
        <3>1. buf' = Append(s, c)
            BY <2>1, <2>4, <2>7
        <3> QED
            BY <2>7, <3>1, AppendProperties
    <2>9. \A i \in 1..(l + m + 1) : buf'[i] = buffer[u + 1 + i]
        <3> TAKE i \in 1..(l + m + 1)
        <3>1. CASE i \in 1..l
            BY <1>4, <2>5, <2>7, <2>8, <3>1
        <3>2. CASE i \in (l + 1)..(l + m)
            <4>1. PICK j \in 1..m : i = l + j
                BY <3>2
            <4>2. buf'[i] = 0
                <5>1. s[l + j] = 0
                    BY <2>7
                <5>2. i \in 1..(l + m)
                    BY <3>2
                <5> QED
                    BY <2>8, <4>1, <5>1, <5>2
            <4>3. buffer[u + 1 + l + j] = 0
                BY <1>4, <2>5, <2>6
            <4>4. u + 1 + l + j = u + 1 + i
                BY <1>4, <4>1
            <4> QED
                BY <4>2, <4>3, <4>4
        <3>3. CASE i = l + m + 1
            <4>1. u + 1 + i = p + 2
                BY <1>4, <2>5, <2>6, <3>3
            <4> QED
                BY <1>5, <1>11, <2>8, <3>3, <4>1
        <3> QED
            BY <3>1, <3>2, <3>3
    <2>10. buffer_pos' = unit_start' + Len(buf') + flag'
        BY <1>2, <1>4, <2>1, <2>5, <2>6, <2>8
    <2>11. Collected'
        BY <1>2, <2>1, <2>2, <2>8, <2>9, <2>10 DEF Collected
    <2> QED
        BY <1>9, <2>3, <2>11
<1>12. ASSUME HoldZero(c), p + 2 <= n
       PROVE  Collected' /\ (BehindCode(unit_start)' \/ Opening')
    <2>1. buf' = buf /\ flag' = flag + 1 /\ c = 0
        BY <1>12 DEF HoldZero, HoldsZero
    <2>2. \A i \in 1..(flag + 1) : buffer[u + 1 + Len(buf) + i] = 0
        <3> TAKE i \in 1..(flag + 1)
        <3>1. CASE i \in 1..flag
            BY <1>4, <3>1
        <3>2. CASE i = flag + 1
            <4>1. u + 1 + Len(buf) + i = p + 2
                BY <1>4, <3>2
            <4> QED
                BY <1>5, <1>12, <2>1, <4>1
        <3> QED
            BY <1>4, <3>1, <3>2
    <2>3. Collected'
        BY <1>2, <1>4, <2>1, <2>2 DEF Collected
    <2>4. Opening => Opening'
        <3> SUFFICES ASSUME Opening PROVE Opening'
            OBVIOUS
        <3>1. p # 2
            BY <1>5, <1>10, <1>12, <2>1
        <3> QED
            BY <1>2, <1>3, <2>1, <3>1 DEF Opening
    <2> QED
        BY <1>4, <1>9, <2>3, <2>4
<1>13. Located'
    <2>1. pc' = "scan" /\ (buffer_pos' < Len(buffer') => p + 2 <= n)
        BY <1>1, <1>2, <1>3
    <2> QED
        BY <1>11, <1>12, <2>1 DEF Located
<1> QED
    BY <1>8, <1>13

\* The byte that completes a start code: where it is, and what was collected is
\* the unit between it and the start code before.
LEMMA CutAtCode ==
    ASSUME IInv, UnitsInv, Regular(buffer), NEW c \in Byte, ReturnUnit(c)
    PROVE  /\ buffer_pos \in Codes(buffer)
           /\ BehindCode(unit_start) => buf = UnitAfter(buffer, unit_start - 1)
<1> DEFINE p == buffer_pos
           u == unit_start
<1>1. PICK n \in Nat : n = Len(buffer)
    BY FilesAssumption DEF IInv, TypeOK
<1>2. /\ pc = "scan" /\ p + 1 <= n /\ c \in fread1 /\ c = 1 /\ flag \in {2, 3}
    BY <1>1 DEF ReturnUnit, EndsUnit, Consume, CanRead
<1>3. p \in Nat /\ p < Len(buffer)
    BY <1>1, <1>2 DEF IInv, TypeOK
<1>4. /\ buffer \in Seq(Byte) /\ u \in Nat
      /\ buf \in Seq(Byte) /\ Len(buf) \in Nat
      /\ p = u + Len(buf) + flag
      /\ \A i \in 1..Len(buf) : buf[i] = buffer[u + 1 + i]
      /\ \A i \in 1..flag : buffer[u + 1 + Len(buf) + i] = 0
      /\ buf # <<>> => buf[Len(buf)] # 0
    BY <1>2, <1>3, Scanning DEF Collected
<1>5. buffer[p] = 0 /\ buffer[p + 1] = 0 /\ p > 1
    <2>1. flag - 1 \in 1..flag /\ flag \in 1..flag
        BY <1>2
    <2>2. buffer[u + 1 + Len(buf) + (flag - 1)] = 0 /\ buffer[u + 1 + Len(buf) + flag] = 0
        BY <1>4, <2>1
    <2>3. u + 1 + Len(buf) + (flag - 1) = p /\ u + 1 + Len(buf) + flag = p + 1
        BY <1>2, <1>4
    <2>4. p > 1
        BY <1>2, <1>4
    <2> QED
        BY <2>2, <2>3, <2>4
<1>6. p + 2 <= n
    <2> SUFFICES ASSUME p + 1 = n PROVE FALSE
        BY <1>2, <1>3
    <2>1. buffer[n - 1] # 0 \/ buffer[n] # 0
        BY <1>1, <1>4, RegularBytes
    <2>2. n - 1 = p
        BY <1>3
    <2> QED
        BY <1>5, <2>1, <2>2
<1>7. buffer[p + 2] = 1
    BY <1>1, <1>2, <1>6 DEF fread1
<1>8. p \in Codes(buffer)
    BY <1>1, <1>3, <1>4, <1>5, <1>6, <1>7, CodeBytes
<1>9. ASSUME BehindCode(u) PROVE buf = UnitAfter(buffer, u - 1)
    <2> DEFINE next == {j \in Codes(buffer) : j > u - 1}
    <2>1. u > 1 /\ buffer[u + 1] = 1
        BY <1>4, <1>9, CallBegins
    <2>2. p \in next
        BY <1>2, <1>4, <1>8
    <2>3. \A k \in next : p <= k
        <3> SUFFICES ASSUME NEW k \in next, ~(p <= k) PROVE FALSE
            OBVIOUS
        <3>1. k \in Codes(buffer) /\ k > u - 1
            OBVIOUS
        <3>2. k \in Nat
            BY <3>1, <1>1, <1>4, CodeBytes DEF Codes, Occurs
        <3>3. k \in Passed
            BY <3>1, <3>2, <1>3 DEF Passed
        <3>4. k <= u - 1
            BY <1>9, <3>3 DEF BehindCode
        <3> QED
            BY <1>4, <3>1, <3>2, <3>4
    <2>4. \A j \in next : j \in Nat
        BY <1>1, <1>4, CodeBytes DEF Codes, Occurs
    <2> HIDE DEF next
    <2>5. (CHOOSE j \in next : \A k \in next : j <= k) = p
        <3>1. \A j \in next : (\A k \in next : j <= k) => j = p
            BY <1>3, <2>2, <2>3, <2>4
        <3> QED
            BY <2>2, <2>3, <3>1
    <2> DEFINE e == IF buffer[p - 1] = 0 THEN p - 2 ELSE p - 1
               first == CHOOSE j \in next : \A k \in next : j <= k
    <2>6. UnitAfter(buffer, u - 1) = SubSeq(buffer, u - 1 + 3, e)
        <3>1. UnitAfter(buffer, u - 1)
                = SubSeq(buffer, u - 1 + 3,
                         IF buffer[first - 1] = 0 THEN first - 2 ELSE first - 1)
            BY DEF UnitAfter, next
        <3>2. first = p
            BY <2>5
        <3> HIDE DEF first
        <3> QED
            BY <3>1, <3>2
    <2>7. e = u + 1 + Len(buf)
        <3>1. CASE flag = 3
            <4>1. buffer[u + 1 + Len(buf) + 1] = 0
                BY <1>4, <3>1
            <4>2. u + 1 + Len(buf) + 1 = p - 1
                BY <1>4, <3>1
            <4> QED
                BY <1>4, <3>1, <4>1, <4>2
        <3>2. CASE flag = 2 /\ Len(buf) = 0
            <4>1. p - 1 = u + 1
                BY <1>4, <3>2
            <4> QED
                BY <1>4, <2>1, <3>2, <4>1
        <3>3. CASE flag = 2 /\ Len(buf) > 0
            <4>1. buf[Len(buf)] # 0 /\ buf[Len(buf)] = buffer[u + 1 + Len(buf)]
                BY <1>4, <3>3, EmptySeq
            <4>2. u + 1 + Len(buf) = p - 1
                BY <1>4, <3>3
            <4> QED
                BY <4>1, <4>2
        <3> QED
            BY <1>2, <1>4, <3>1, <3>2, <3>3
    <2> HIDE DEF e
    <2>8. PICK k \in Nat : k = Len(buf)
        BY <1>4
    <2>9. /\ u - 1 + 3 \in Nat \ {0} /\ e \in Nat /\ e = u - 1 + 3 + k - 1 /\ e <= Len(buffer)
        BY <1>1, <1>2, <1>4, <1>6, <2>7, <2>8
    <2>10. \A j \in 1..k : buffer[u - 1 + 3 + j - 1] = buf[j]
        <3> TAKE j \in 1..k
        <3>1. u - 1 + 3 + j - 1 = u + 1 + j
            BY <1>4
        <3> QED
            BY <1>4, <2>8, <3>1
    <2>11. SubSeq(buffer, u - 1 + 3, e) = buf
        <3>1. SubSeq(buffer, u - 1 + 3, e) = buf
                <=> \A j \in 1..k : buffer[u - 1 + 3 + j - 1] = buf[j]
            BY <1>4, <2>8, <2>9, StretchIs
        <3> QED
            BY <2>10, <3>1
    <2> QED
        BY <2>6, <2>11
<1> QED
    BY <1>8, <1>9

\* A call that returns adds the unit of the start code passed before.
LEMMA ReturnUnits ==
    ASSUME IInv, UnitsInv, NEW c \in Byte, ReturnUnit(c)
    PROVE  UnitsInv'
<1> SUFFICES ASSUME Regular(buffer) PROVE (Located /\ AsInFile)'
    BY DEF UnitsInv, ReturnUnit, Consume
<1> DEFINE p == buffer_pos
           u == unit_start
           P == Passed
<1>1. /\ buffer \in Seq(Byte) /\ p \in Nat /\ u \in Nat /\ pc = "scan" /\ p < Len(buffer)
    BY FilesAssumption DEF IInv, TypeOK, ReturnUnit, Consume, CanRead
<1>2. /\ buffer' = buffer /\ buffer_pos' = p + 1 /\ pc' = "idle"
      /\ units' = Append(units, buf)
    BY DEF ReturnUnit, Consume
<1>3. p \in Codes(buffer) /\ (BehindCode(u) => buf = UnitAfter(buffer, u - 1))
    BY CutAtCode
<1>4. Passed' = P \cup {p} /\ \A i \in P : i \in Nat /\ i < p
    BY <1>1, <1>2, <1>3, PassedGrows
<1>5. IsFiniteSet(P) /\ Cardinality(P) \in Nat
    BY <1>1, PassedPlaces
<1>6. BehindCode(buffer_pos)'
    BY <1>1, <1>2, <1>4 DEF BehindCode
<1>7. Located'
    BY <1>2, <1>6 DEF Located
<1>8. Len(units) = Cardinality(P) /\ \A k \in DOMAIN units : Returned(k)
    BY DEF UnitsInv, AsInFile
<1>9. PICK m \in Nat : m = Len(units) /\ m = Cardinality(P)
    BY <1>5, <1>8
<1>10. /\ Len(units') = m + 1 /\ DOMAIN units' = 1..(m + 1) /\ units'[m + 1] = buf
       /\ \A k \in 1..m : units'[k] = units[k] /\ k \in DOMAIN units
    <2>1. units \in Seq(Seq(Byte)) /\ buf \in Seq(Byte)
        BY DEF IInv, TypeOK
    <2>2. PICK U, r : U = units /\ r = units' /\ U \in Seq(Seq(Byte)) /\ r = Append(U, buf)
        BY <1>2, <2>1
    <2>3. /\ r \in Seq(Seq(Byte)) /\ Len(r) = Len(U) + 1 /\ r[Len(U) + 1] = buf
          /\ \A k \in 1..Len(U) : r[k] = U[k]
        BY <2>1, <2>2, AppendProperties
    <2>4. Len(U) = m /\ DOMAIN U = 1..m /\ DOMAIN r = 1..Len(r)
        BY <1>9, <2>2, <2>3, LenProperties
    <2> QED
        BY <2>2, <2>3, <2>4
<1>11. Cardinality(Passed') = m + 1
    <2>1. p \notin P
        BY <1>1, <1>4
    <2> QED
        BY <1>4, <1>5, <1>9, <2>1, FS_AddElement
<1>12. \A i \in P : Rank(Passed', i) = Rank(P, i)
    <2> TAKE i \in P
    <2>1. {j \in Passed' : j < i} = {j \in P : j < i}
        BY <1>1, <1>4
    <2> QED
        BY <2>1 DEF Rank
<1>13. ASSUME NEW k \in 1..m PROVE Returned(k)'
    <2>1. Returned(k) /\ units'[k] = units[k]
        BY <1>8, <1>10
    <2>2. CASE k = 1
        BY <2>1, <2>2 DEF Returned
    <2>3. CASE k # 1
        <3>1. PICK i \in P : Rank(P, i) = k - 2 /\ units[k] = UnitAfter(buffer, i)
            BY <2>1, <2>3 DEF Returned
        <3>2. i \in Passed' /\ Rank(Passed', i) = k - 2 /\ units'[k] = UnitAfter(buffer', i)
            BY <1>2, <1>4, <1>12, <2>1, <3>1
        <3> QED
            BY <2>3, <3>2 DEF Returned
    <2> QED
        BY <2>2, <2>3
<1>14. BehindCode(u) \/ Opening
    BY <1>1, Scanning
<1>15. CASE m = 0
    <2>1. P = {}
        BY <1>5, <1>9, <1>15, FS_EmptySet
    <2>2. Opening
        BY <1>14, <2>1 DEF BehindCode
    <2>3. units'[m + 1] = <<>>
        BY <1>10, <2>2 DEF Opening
    <2>4. \A k \in 1..(m + 1) : Returned(k)'
        BY <1>15, <2>3 DEF Returned
    <2> QED
        BY <1>2, <1>7, <1>10, <1>11, <2>4 DEF AsInFile
<1>16. CASE m > 0
    <2>1. BehindCode(u)
        <3> SUFFICES ASSUME Opening PROVE FALSE
            BY <1>14
        <3>1. Len(units) = 0
            BY EmptySeq DEF Opening
        <3>2. m = 0
            BY <1>9, <3>1
        <3> QED
            BY <1>16, <3>2
    <2>2. u - 1 \in P /\ \A i \in P : i <= u - 1
        BY <2>1 DEF BehindCode
    <2>3. {j \in Passed' : j < u - 1} = P \ {u - 1}
        <3>1. \A j \in P : j < u - 1 <=> j # u - 1
            BY <1>1, <1>4, <2>2
        <3>2. ~(p < u - 1)
            BY <1>1, <1>4, <2>2
        <3> QED
            BY <1>4, <3>1, <3>2
    <2>4. Cardinality(P \ {u - 1}) = m + 1 - 2
        <3>1. Cardinality(P \ {u - 1}) = Cardinality(P) - 1
            BY <1>5, <2>2, FS_RemoveElement
        <3> QED
            BY <1>9, <3>1
    <2>5. units'[m + 1] = UnitAfter(buffer, u - 1)
        BY <1>3, <1>10, <2>1
    <2>6. Returned(m + 1)'
        <3>1. u - 1 \in Passed' /\ Rank(Passed', u - 1) = m + 1 - 2
            BY <1>4, <2>2, <2>3, <2>4 DEF Rank
        <3>2. m + 1 # 1
            BY <1>16
        <3> QED
            BY <1>2, <2>5, <3>1, <3>2 DEF Returned
    <2>7. \A k \in 1..(m + 1) : Returned(k)'
        <3> TAKE k \in 1..(m + 1)
        <3>1. k \in 1..m \/ k = m + 1
            OBVIOUS
        <3> QED
            BY <1>13, <2>6, <3>1
    <2> QED
        BY <1>2, <1>7, <1>10, <1>11, <2>7 DEF AsInFile
<1> QED
    BY <1>15, <1>16

\* Where the reader stands and what it has returned, in every step.
LEMMA NextUnits == IInv /\ UnitsInv /\ [Next]_vars => UnitsInv'
<1> SUFFICES ASSUME IInv, UnitsInv, [Next]_vars PROVE UnitsInv'
    OBVIOUS
<1>1. CASE CopyNal
    <2> SUFFICES ASSUME Regular(buffer) PROVE (Located /\ AsInFile)'
        BY <1>1 DEF CopyNal, UnitsInv
    <2>1. /\ buffer' = buffer /\ buffer_pos' = buffer_pos /\ units' = units
          /\ pc' = "scan" /\ flag' = 0 /\ buf' = <<>> /\ unit_start' = buffer_pos
        BY <1>1 DEF CopyNal
    <2>2. Passed' = Passed /\ AsInFile'
        <3>1. Passed' = Passed
            BY <2>1 DEF Passed
        <3> QED
            BY <2>1, <3>1 DEF UnitsInv, AsInFile, Returned
    <2>3. buffer_pos \in Nat /\ Len(buf') = 0 /\ Len(buffer) \in Nat
        BY <2>1, FilesAssumption, EmptySeq DEF IInv, TypeOK
    <2>4. Collected'
        BY <2>1, <2>3 DEF Collected
    <2>5. CASE pc = "idle"
        <3>1. BehindCode(buffer_pos) => BehindCode(unit_start)'
            BY <2>1, <2>2 DEF BehindCode
        <3>2. buffer_pos = 0 /\ units = <<>> => Opening'
            BY <2>1 DEF Opening
        <3> QED
            BY <2>1, <2>2, <2>4, <2>5, <3>1, <3>2 DEF UnitsInv, Located
    <2>6. CASE pc = "ended"
        BY <2>1, <2>2, <2>3, <2>6 DEF UnitsInv, Located
    <2> QED
        BY <1>1, <2>5, <2>6 DEF CopyNal
<1>2. ASSUME NEW c \in Byte, KeepByte(c) \/ HoldZero(c) PROVE UnitsInv'
    BY <1>2, StaysUnits
<1>3. ASSUME NEW c \in Byte, ReturnUnit(c) PROVE UnitsInv'
    BY <1>3, ReturnUnits
<1>4. CASE ReturnError
    <2>1. buffer_pos = Len(buffer)
        BY <1>4, FilesAssumption DEF ReturnError, CanRead, IInv, TypeOK
    <2>2. Passed' = Passed
        BY <1>4 DEF ReturnError, Passed
    <2> QED
        BY <1>4, <2>1, <2>2 DEF ReturnError, UnitsInv, Located, AsInFile, Returned
<1>5. CASE Reset
    <2>1. buffer \in Seq(Byte)
        BY FilesAssumption DEF IInv, TypeOK
    <2>2. Passed' = {}
        <3>1. \A i \in Codes(buffer) : i \in Nat
            BY <2>1, CodeBytes DEF Codes, Occurs
        <3> QED
            BY <1>5, <3>1 DEF Reset, Passed
    <2>3. Cardinality({}) = 0
        BY FS_EmptySet
    <2> QED
        BY <1>5, <2>2, <2>3, EmptySeq DEF Reset, UnitsInv, Located, AsInFile
<1>6. CASE UNCHANGED vars
    <2>1. Passed' = Passed
        BY <1>6 DEF vars, Passed
    <2> QED
        BY <1>6, <2>1 DEF vars, UnitsInv, Located, AsInFile, Returned, Collected,
                          BehindCode, Opening
<1> QED
    BY <1>1, <1>2, <1>3, <1>4, <1>5, <1>6 DEF Next

\* No byte has been read when the file is opened.
LEMMA InitUnits == Init => UnitsInv
<1> SUFFICES ASSUME Init PROVE UnitsInv
    OBVIOUS
<1>1. buffer \in Seq(Byte)
    BY FilesAssumption DEF Init
<1>2. Passed = {}
    <2>1. \A i \in Codes(buffer) : i \in Nat
        BY <1>1, CodeBytes DEF Codes, Occurs
    <2> QED
        BY <2>1 DEF Init, Passed
<1>3. Cardinality({}) = 0
    BY FS_EmptySet
<1> QED
    BY <1>2, <1>3, EmptySeq DEF Init, UnitsInv, Located, AsInFile

(* For every file the reader is made for: the calls return an empty unit and  *)
(* then the file's units in order, although fread1 reads one byte ahead of    *)
(* the position and start codes overlap the zeros that are held back.         *)
THEOREM UnitsCut == Spec => []UnitsAreTheFile
<1>1. UnitsInv => UnitsAreTheFile
    BY DEF UnitsInv, AsInFile, Returned, Rank, UnitsAreTheFile
<1>2. Spec => []UnitsInv
    BY InitUnits, NextUnits, Inductive, PTL DEF Spec
<1> QED
    BY <1>1, <1>2, PTL

(* Whichever reader runs, the memory reader's own steps are those of its      *)
(* specification, so that the theorems above hold with the other beside it.   *)
THEOREM BesideAnnexB == MCSpec => Spec
<1>1. MCInit => Init
    BY DEF MCInit
<1>2. [MCNext]_<<vars, annexb, reader>> => [Next]_vars
    BY DEF MCNext, ReadFromMemory, ReadInBlocks, vars, AnnexB!Read, AnnexB!ReadNalu,
           AnnexB!ReadFromFile, AnnexB!ReadLastNalu, AnnexB!Parse
<1> QED
    BY <1>1, <1>2, PTL DEF MCSpec, Spec

-----------------------------------------------------------------------------
(* AnnexBReader                                                               *)

\* The two forms of a start code at position c of s.
Three(s, c) == c \in 1..(Len(s) - 2) /\ s[c] = 0 /\ s[c + 1] = 0 /\ s[c + 2] = 1
Four(s, c) == c \in 1..(Len(s) - 3) /\ s[c] = 0 /\ s[c + 1] = 0 /\ s[c + 2] = 0 /\ s[c + 3] = 1

\* CheckStartCode finds either form.
LEMMA CheckFinds ==
    ASSUME NEW b \in Seq(Byte)
    PROVE  AnnexB!CheckStartCode(b)
             = IF Three(b, 1) THEN 3 ELSE IF Four(b, 1) THEN 4 ELSE 0
<1> DEFINE s == <<0, 0, 1>>
           t == <<0, 0, 0, 1>>
<1>1. /\ s \in Seq(Byte) /\ Len(s) = 3 /\ s[1] = 0 /\ s[2] = 0 /\ s[3] = 1
      /\ t \in Seq(Byte) /\ Len(t) = 4 /\ t[1] = 0 /\ t[2] = 0 /\ t[3] = 0 /\ t[4] = 1
    BY DEF Byte
<1>2. PICK n \in Nat : n = Len(b)
    OBVIOUS
<1>3. AnnexB!CheckStartCode(b)
        = IF n >= 3 /\ SubSeq(b, 1, 3) = s THEN 3
          ELSE IF n >= 4 /\ SubSeq(b, 1, 4) = t THEN 4 ELSE 0
    BY <1>2 DEF AnnexB!CheckStartCode
<1> HIDE DEF s, t
<1>4. n >= 3 /\ SubSeq(b, 1, 3) = s <=> Three(b, 1)
    <2>1. CASE n >= 3
        <3>1. SubSeq(b, 1, 3) = s <=> \A j \in 1..3 : b[1 + j - 1] = s[j]
            <4>1. 1 \in Nat \ {0} /\ 3 \in Nat /\ 3 = 1 + 3 - 1 /\ 3 <= Len(b)
                BY <1>2, <2>1
            <4> QED
                BY <1>1, <4>1, StretchIs
        <3>2. (\A j \in 1..3 : b[1 + j - 1] = s[j])
                <=> b[1 + 1 - 1] = s[1] /\ b[1 + 2 - 1] = s[2] /\ b[1 + 3 - 1] = s[3]
            <4>1. \A j \in 1..3 : j = 1 \/ j = 2 \/ j = 3
                OBVIOUS
            <4>2. 1 \in 1..3 /\ 2 \in 1..3 /\ 3 \in 1..3
                OBVIOUS
            <4> QED
                BY <4>1, <4>2
        <3>3. 1 \in 1..(Len(b) - 2)
            BY <1>2, <2>1
        <3> QED
            BY <1>1, <2>1, <3>1, <3>2, <3>3 DEF Three
    <2>2. CASE ~(n >= 3)
        BY <1>2, <2>2 DEF Three
    <2> QED
        BY <2>1, <2>2
<1>5. n >= 4 /\ SubSeq(b, 1, 4) = t <=> Four(b, 1)
    <2>1. CASE n >= 4
        <3>1. SubSeq(b, 1, 4) = t <=> \A j \in 1..4 : b[1 + j - 1] = t[j]
            <4>1. 1 \in Nat \ {0} /\ 4 \in Nat /\ 4 = 1 + 4 - 1 /\ 4 <= Len(b)
                BY <1>2, <2>1
            <4> QED
                BY <1>1, <4>1, StretchIs
        <3>2. (\A j \in 1..4 : b[1 + j - 1] = t[j])
                <=> /\ b[1 + 1 - 1] = t[1] /\ b[1 + 2 - 1] = t[2]
                    /\ b[1 + 3 - 1] = t[3] /\ b[1 + 4 - 1] = t[4]
            <4>1. \A j \in 1..4 : j = 1 \/ j = 2 \/ j = 3 \/ j = 4
                OBVIOUS
            <4>2. 1 \in 1..4 /\ 2 \in 1..4 /\ 3 \in 1..4 /\ 4 \in 1..4
                OBVIOUS
            <4> QED
                BY <4>1, <4>2
        <3>3. 1 \in 1..(Len(b) - 3)
            BY <1>2, <2>1
        <3> QED
            BY <1>1, <2>1, <3>1, <3>2, <3>3 DEF Four
    <2>2. CASE ~(n >= 4)
        BY <1>2, <2>2 DEF Four
    <2> QED
        BY <2>1, <2>2
<1> QED
    BY <1>3, <1>4, <1>5

\* What is left of a buffer behind i bytes.
LEMMA Rests ==
    ASSUME NEW b \in Seq(Byte), NEW n \in Nat, n = Len(b), NEW i \in 0..n
    PROVE  /\ AnnexB!From(b, i) \in Seq(Byte) /\ Len(AnnexB!From(b, i)) = n - i
           /\ \A j \in 1..(n - i) : AnnexB!From(b, i)[j] = b[i + j]
<1>1. i + 1 \in Nat \ {0} /\ n - i \in Nat /\ n = i + 1 + (n - i) - 1 /\ n <= Len(b)
    OBVIOUS
<1>2. /\ SubSeq(b, i + 1, n) \in Seq(Byte) /\ Len(SubSeq(b, i + 1, n)) = n - i
      /\ \A j \in 1..(n - i) : SubSeq(b, i + 1, n)[j] = b[i + 1 + j - 1]
    BY <1>1, Stretch
<1>3. \A j \in 1..(n - i) : i + 1 + j - 1 = i + j
    OBVIOUS
<1> QED
    BY <1>2, <1>3 DEF AnnexB!From

\* A start code is found behind i bytes if one of the two forms is there.
LEMMA CheckBehind ==
    ASSUME NEW b \in Seq(Byte), NEW n \in Nat, n = Len(b), NEW i \in 0..n
    PROVE  AnnexB!CheckStartCode(AnnexB!From(b, i)) # 0
             <=> Three(b, i + 1) \/ Four(b, i + 1)
<1>1. PICK w \in Seq(Byte) : w = AnnexB!From(b, i) /\ Len(w) = n - i
    BY Rests
<1>2. \A j \in 1..(n - i) : w[j] = b[i + j]
    BY <1>1, Rests
<1>3. Three(w, 1) <=> Three(b, i + 1)
    <2>1. 1 \in 1..(Len(w) - 2) <=> i + 1 \in 1..(Len(b) - 2)
        BY <1>1
    <2>2. i + 1 + 1 = i + 2 /\ i + 1 + 2 = i + 3 /\ 1 + 1 = 2 /\ 1 + 2 = 3
        OBVIOUS
    <2>3. n - i >= 3 => w[1] = b[i + 1] /\ w[2] = b[i + 2] /\ w[3] = b[i + 3]
        BY <1>2
    <2> QED
        BY <1>1, <2>1, <2>2, <2>3 DEF Three
<1>4. Four(w, 1) <=> Four(b, i + 1)
    <2>1. 1 \in 1..(Len(w) - 3) <=> i + 1 \in 1..(Len(b) - 3)
        BY <1>1
    <2>2. i + 1 + 1 = i + 2 /\ i + 1 + 2 = i + 3 /\ i + 1 + 3 = i + 4
          /\ 1 + 1 = 2 /\ 1 + 2 = 3 /\ 1 + 3 = 4
        OBVIOUS
    <2>3. n - i >= 4 => /\ w[1] = b[i + 1] /\ w[2] = b[i + 2] /\ w[3] = b[i + 3]
                        /\ w[4] = b[i + 4]
        BY <1>2
    <2> QED
        BY <1>1, <2>1, <2>2, <2>3 DEF Four
<1>5. AnnexB!CheckStartCode(w) = IF Three(w, 1) THEN 3 ELSE IF Four(w, 1) THEN 4 ELSE 0
    BY CheckFinds
<1> QED
    BY <1>1, <1>3, <1>4, <1>5

\* Where a file is cut: at a start code of three bytes that no zero precedes, and
\* at one of four.
LEMMA CutPlaces ==
    ASSUME NEW f \in Seq(Byte), NEW c \in Nat \ {0}
    PROVE  c \in AnnexB!CutsOf(f)
             <=> (Three(f, c) /\ ~(c > 1 /\ f[c - 1] = 0)) \/ Four(f, c)
<1>1. PICK n \in Nat : n = Len(f)
    OBVIOUS
<1>2. \A i \in Int : i \in AnnexB!Occurs(<<0, 0, 1>>, f) <=> Three(f, i)
    <2>1. AnnexB!Occurs(<<0, 0, 1>>, f) = Codes(f)
        BY DEF AnnexB!Occurs, Codes, Occurs, ThreeByteCode
    <2>2. \A i \in Int : i \in Codes(f) <=> i \in 1..(n - 2) /\ f[i] = 0 /\ f[i + 1] = 0 /\ f[i + 2] = 1
        BY <1>1, CodeBytes
    <2> QED
        BY <1>1, <2>1, <2>2 DEF Three
<1>3. \A i \in AnnexB!Occurs(<<0, 0, 1>>, f) : i \in Int
    BY <1>1 DEF AnnexB!Occurs
<1>4. c \in AnnexB!CutsOf(f)
        <=> \E i \in Int : Three(f, i) /\ c = IF i > 1 /\ f[i - 1] = 0 THEN i - 1 ELSE i
    BY <1>2, <1>3 DEF AnnexB!CutsOf
<1>5. ASSUME NEW i \in Int, Three(f, i), c = IF i > 1 /\ f[i - 1] = 0 THEN i - 1 ELSE i
      PROVE  (Three(f, c) /\ ~(c > 1 /\ f[c - 1] = 0)) \/ Four(f, c)
    <2>1. CASE i > 1 /\ f[i - 1] = 0
        <3>1. c = i - 1 /\ c + 1 = i /\ c + 2 = i + 1 /\ c + 3 = i + 2
            BY <1>5, <2>1
        <3>2. c \in 1..(Len(f) - 3)
            BY <1>1, <1>5, <2>1, <3>1 DEF Three
        <3> QED
            BY <1>5, <2>1, <3>1, <3>2 DEF Three, Four
    <2>2. CASE ~(i > 1 /\ f[i - 1] = 0)
        BY <1>5, <2>2
    <2> QED
        BY <2>1, <2>2
<1>6. ASSUME Three(f, c), ~(c > 1 /\ f[c - 1] = 0)
      PROVE  \E i \in Int : Three(f, i) /\ c = IF i > 1 /\ f[i - 1] = 0 THEN i - 1 ELSE i
    BY <1>6
<1>7. ASSUME Four(f, c)
      PROVE  \E i \in Int : Three(f, i) /\ c = IF i > 1 /\ f[i - 1] = 0 THEN i - 1 ELSE i
    <2>1. c + 1 \in 1..(Len(f) - 2) /\ c + 1 + 1 = c + 2 /\ c + 1 + 2 = c + 3
          /\ c + 1 - 1 = c /\ c + 1 > 1
        BY <1>1, <1>7 DEF Four
    <2>2. Three(f, c + 1) /\ c = IF c + 1 > 1 /\ f[c + 1 - 1] = 0 THEN c + 1 - 1 ELSE c + 1
        BY <1>7, <2>1 DEF Three, Four
    <2> QED
        BY <2>2
<1> QED
    BY <1>4, <1>5, <1>6, <1>7

\* What has been returned and what is left are the bytes read; units ended exactly
\* where the file is to be cut; and what is left begins with a start code.
CutsRight ==
    \A c \in 2..Len(buffer) :
        c - 1 \in ends <=> c \in AnnexB!CutsOf(buffer) /\ c <= Len(returned) + 1

BlocksInv ==
    /\ buffer \in Files /\ rest \in Seq(Byte) /\ returned \in Seq(Byte)
    /\ at \in 0..Len(buffer) /\ Len(returned) + Len(rest) = at
    /\ \A i \in 1..Len(returned) : returned[i] = buffer[i]
    /\ \A i \in 1..Len(rest) : rest[i] = buffer[Len(returned) + i]
    /\ CutsRight
    /\ step = "read" \/ (step = "parse" /\ ~nalu.last) =>
           Len(returned) = 0 \/ AnnexB!CheckStartCode(rest) # 0

\* The lengths involved.
LEMMA Lengths ==
    ASSUME BlocksInv
    PROVE  /\ buffer \in Seq(Byte) /\ rest \in Seq(Byte) /\ returned \in Seq(Byte)
           /\ Len(buffer) \in Nat /\ Len(rest) \in Nat /\ Len(returned) \in Nat
           /\ Len(returned) + Len(rest) <= Len(buffer)
    BY FilesAssumption, LenProperties DEF BlocksInv

\* Start codes in what is left are start codes of the file, and the other way
\* round if they have been read to their end.
LEMMA SameCodes ==
    ASSUME BlocksInv, NEW i \in Nat
    PROVE  /\ Three(rest, i + 1)
                <=> Three(buffer, Len(returned) + i + 1) /\ i + 3 <= Len(rest)
           /\ Four(rest, i + 1)
                <=> Four(buffer, Len(returned) + i + 1) /\ i + 4 <= Len(rest)
<1>1. PICK R \in Nat, L \in Nat, n \in Nat :
          R = Len(returned) /\ L = Len(rest) /\ n = Len(buffer) /\ R + L <= n
    BY Lengths
<1>2. \A j \in 1..L : rest[j] = buffer[R + j]
    BY <1>1 DEF BlocksInv
<1>3. /\ i + 1 + 1 = i + 2 /\ i + 1 + 2 = i + 3 /\ i + 1 + 3 = i + 4
      /\ R + i + 1 + 1 = R + i + 2 /\ R + i + 1 + 2 = R + i + 3 /\ R + i + 1 + 3 = R + i + 4
      /\ R + (i + 1) = R + i + 1 /\ R + (i + 2) = R + i + 2
      /\ R + (i + 3) = R + i + 3 /\ R + (i + 4) = R + i + 4
    OBVIOUS
<1>4. i + 3 <= L => rest[i + 1] = buffer[R + i + 1] /\ rest[i + 2] = buffer[R + i + 2]
                    /\ rest[i + 3] = buffer[R + i + 3]
    BY <1>2, <1>3
<1>5. i + 4 <= L => rest[i + 4] = buffer[R + i + 4]
    BY <1>2, <1>3
<1>6. /\ i + 1 \in 1..(L - 2) <=> i + 3 <= L
      /\ i + 1 \in 1..(L - 3) <=> i + 4 <= L
      /\ i + 3 <= L => R + i + 1 \in 1..(n - 2)
      /\ i + 4 <= L => R + i + 1 \in 1..(n - 3) /\ i + 3 <= L
    BY <1>1
<1>7. Three(rest, i + 1) <=> Three(buffer, R + i + 1) /\ i + 3 <= L
    BY <1>1, <1>3, <1>4, <1>6 DEF Three
<1>8. Four(rest, i + 1) <=> Four(buffer, R + i + 1) /\ i + 4 <= L
    BY <1>1, <1>3, <1>4, <1>5, <1>6 DEF Four
<1> QED
    BY <1>1, <1>7, <1>8

\* A set of numbers up to n that is not empty has a least one.
LEMMA LeastNumber ==
    ASSUME NEW n \in Nat, NEW S, S \subseteq 0..n, S # {}
    PROVE  \E m \in S : \A k \in S : m <= k
<1> DEFINE Below(x) == {y \in S : y < x}
           F == {Below(x) : x \in S}
<1>1. IsFiniteSet(S)
    <2>1. IsFiniteSet(0..n)
        BY FS_Interval
    <2> QED
        BY <2>1, FS_Subset
<1>2. F \subseteq FiniteSubsetsOf(S) /\ F # {}
    <2>1. F \subseteq SUBSET S /\ F # {}
        OBVIOUS
    <2> HIDE DEF F
    <2> QED
        BY <1>1, <2>1, FS_FiniteSubsetsOfFinite
<1>3. PICK M \in F : \A N \in F : ~(<<N, M>> \in StrictSubsetOrdering(S))
    <2> HIDE DEF F
    <2> QED
        BY <1>2, FS_StrictSubsetOrderingWellFounded, WFMin
<1>4. PICK m \in S : M = Below(m)
    BY <1>3
<1>5. ASSUME NEW k \in S, ~(m <= k) PROVE FALSE
    <2>1. k < m /\ \A y \in S : y < k => y < m
        <3>1. \A y \in S : y \in Nat
            OBVIOUS
        <3> QED
            BY <1>5, <3>1
    <2>2. k \in Below(m) /\ k \notin Below(k) /\ Below(k) \subseteq Below(m)
        <3>1. ~(k < k)
            OBVIOUS
        <3> QED
            BY <2>1, <3>1
    <2>3. <<Below(k), M>> \in StrictSubsetOrdering(S)
        BY <1>4, <2>2 DEF StrictSubsetOrdering
    <2>4. Below(k) \in F
        OBVIOUS
    <2> QED
        BY <1>3, <2>3, <2>4
<1> QED
    BY <1>5

\* A place to cut is found once the start code there has been read.
LEMMA CutsFound ==
    ASSUME BlocksInv, NEW i \in 1..(Len(rest) - 1),
           Len(returned) + i + 1 \in AnnexB!CutsOf(buffer),
           i + 4 <= Len(rest) \/ Len(returned) + Len(rest) = Len(buffer)
    PROVE  i \in AnnexB!EndPositions
<1>1. PICK R \in Nat, L \in Nat, n \in Nat :
          R = Len(returned) /\ L = Len(rest) /\ n = Len(buffer) /\ R + L <= n
    BY Lengths
<1>2. rest \in Seq(Byte) /\ buffer \in Seq(Byte) /\ i \in Nat /\ i >= 1 /\ i < L
    BY <1>1, Lengths
<1>3. \/ Three(buffer, R + i + 1) /\ ~(R + i + 1 > 1 /\ buffer[R + i + 1 - 1] = 0)
      \/ Four(buffer, R + i + 1)
    <2>1. R + i + 1 \in Nat \ {0}
        BY <1>2
    <2> QED
        BY <1>1, <1>2, <2>1, CutPlaces
<1>4. \A j \in 1..L : rest[j] = buffer[R + j]
    BY <1>1 DEF BlocksInv
<1>5. \/ Three(rest, i + 1) /\ rest[i] # 0
      \/ Four(rest, i + 1)
    <2>1. CASE Three(buffer, R + i + 1) /\ ~(R + i + 1 > 1 /\ buffer[R + i + 1 - 1] = 0)
        <3>1. R + i + 1 - 1 = R + i /\ R + i + 1 > 1 /\ i \in 1..L
            BY <1>2
        <3>2. rest[i] # 0
            BY <1>4, <2>1, <3>1
        <3>3. i + 3 <= L
            <4>1. R + i + 1 <= n - 2
                BY <1>1, <2>1 DEF Three
            <4> QED
                BY <1>1, <1>2, <4>1
        <3> QED
            BY <1>1, <1>2, <2>1, <3>2, <3>3, SameCodes
    <2>2. CASE Four(buffer, R + i + 1)
        <3>1. i + 4 <= L
            <4>1. R + i + 1 <= n - 3
                BY <1>1, <2>2 DEF Four
            <4> QED
                BY <1>1, <1>2, <4>1
        <3> QED
            BY <1>1, <1>2, <2>2, <3>1, SameCodes
    <2> QED
        BY <1>3, <2>1, <2>2
<1>6. AnnexB!CheckStartCode(AnnexB!From(rest, i)) # 0
    <2>1. i \in 0..L
        BY <1>2
    <2> QED
        BY <1>1, <1>2, <1>5, <2>1, CheckBehind
<1>7. AnnexB!CheckStartCode(rest)
        = IF Three(rest, 1) THEN 3 ELSE IF Four(rest, 1) THEN 4 ELSE 0
    BY <1>2, CheckFinds
<1>8. rest[i + 1] = 0 /\ (rest[i + 2] = 0)
    <2>1. i + 1 + 1 = i + 2
        OBVIOUS
    <2> QED
        BY <1>5, <2>1 DEF Three, Four
<1>9. AnnexB!CheckStartCode(rest) <= i
    <2>1. CASE Three(rest, 1)
        <3>1. rest[3] = 1
            BY <2>1 DEF Three
        <3>2. i # 1 /\ i # 2
            BY <1>8, <3>1
        <3> QED
            BY <1>2, <1>7, <2>1, <3>2
    <2>2. CASE ~Three(rest, 1) /\ Four(rest, 1)
        <3>1. rest[1] = 0 /\ rest[4] = 1
            BY <2>2 DEF Four
        <3>2. i # 2 /\ i # 3
            BY <1>8, <3>1
        <3>3. i # 1
            <4> SUFFICES ASSUME i = 1 PROVE FALSE
                OBVIOUS
            <4>1. Four(rest, 2)
                BY <1>5, <3>1
            <4>2. rest[2 + 2] = 0
                BY <4>1 DEF Four
            <4> QED
                BY <3>1, <4>2
        <3> QED
            BY <1>2, <1>7, <2>2, <3>2, <3>3
    <2>3. CASE ~Three(rest, 1) /\ ~Four(rest, 1)
        BY <1>2, <1>7, <2>3
    <2> QED
        BY <2>1, <2>2, <2>3
<1>10. AnnexB!CheckStartCode(rest) \in Nat
    BY <1>7
<1> QED
    BY <1>1, <1>2, <1>6, <1>9, <1>10 DEF AnnexB!EndPositions

\* The first start code found behind the present one is a place to cut.
LEMMA FirstIsCut ==
    ASSUME BlocksInv, step = "read", AnnexB!EndPositions # {}
    PROVE  /\ AnnexB!endPos \in AnnexB!EndPositions
           /\ \A j \in AnnexB!EndPositions : AnnexB!endPos <= j
           /\ AnnexB!endPos \in 1..(Len(rest) - 3)
           /\ Len(returned) + AnnexB!endPos + 1 \in AnnexB!CutsOf(buffer)
<1>1. PICK R \in Nat, L \in Nat, n \in Nat :
          R = Len(returned) /\ L = Len(rest) /\ n = Len(buffer) /\ R + L <= n
    BY Lengths
<1>2. rest \in Seq(Byte) /\ buffer \in Seq(Byte)
    BY Lengths
<1>3. AnnexB!CheckStartCode(rest)
        = IF Three(rest, 1) THEN 3 ELSE IF Four(rest, 1) THEN 4 ELSE 0
    BY <1>2, CheckFinds
<1>4. PICK s \in Nat : s = AnnexB!CheckStartCode(rest)
    BY <1>3
<1> DEFINE E == AnnexB!EndPositions
<1>5. \A i : i \in E <=> i \in s..(L - 1) /\ AnnexB!CheckStartCode(AnnexB!From(rest, i)) # 0
    BY <1>1, <1>4 DEF AnnexB!EndPositions
<1>6. \A i \in E : i \in Nat /\ i \in 0..L
    BY <1>4, <1>5
<1> HIDE DEF E
<1>7. PICK e \in E : \A j \in E : e <= j
    <2>1. E \subseteq 0..L /\ E # {}
        BY <1>6 DEF E
    <2> QED
        BY <2>1, LeastNumber
<1>8. AnnexB!endPos = e
    <2>1. \A i \in E : (\A j \in E : i <= j) => i = e
        BY <1>6, <1>7
    <2>2. (CHOOSE i \in E : \A j \in E : i <= j) = e
        BY <1>7, <2>1
    <2> QED
        BY <2>2 DEF E, AnnexB!endPos
<1>9. e \in s..(L - 1) /\ e \in Nat /\ (Three(rest, e + 1) \/ Four(rest, e + 1))
    BY <1>1, <1>2, <1>5, <1>6, <1>7, CheckBehind
<1>10. e + 3 <= L
    <2>1. e + 1 <= L - 2
        BY <1>1, <1>9 DEF Three, Four
    <2> QED
        BY <1>9, <2>1
<1>11. e > 0
    <2> SUFFICES ASSUME e = 0 PROVE FALSE
        BY <1>9
    <2>1. s = 0 /\ (Three(rest, 1) \/ Four(rest, 1))
        BY <1>4, <1>9
    <2> QED
        BY <1>3, <1>4, <2>1
<1>12. R + e + 1 \in AnnexB!CutsOf(buffer)
    <2>0. R + e + 1 \in Nat \ {0}
        BY <1>9
    <2>1. CASE Four(rest, e + 1)
        BY <1>1, <1>2, <1>9, <2>0, <2>1, SameCodes, CutPlaces
    <2>2. CASE Three(rest, e + 1)
        <3>1. Three(buffer, R + e + 1)
            BY <1>1, <1>9, <2>2, SameCodes
        <3>2. rest[e] = buffer[R + e] /\ R + e + 1 - 1 = R + e
            BY <1>1, <1>9, <1>11 DEF BlocksInv
        <3>3. rest[e] # 0
            <4> SUFFICES ASSUME rest[e] = 0 PROVE FALSE
                OBVIOUS
            <4>1. CASE e = s
                <5>1. s > 0
                    BY <1>11, <4>1
                <5>2. CASE Three(rest, 1)
                    BY <1>3, <1>4, <4>1, <5>2 DEF Three
                <5>3. CASE ~Three(rest, 1) /\ Four(rest, 1)
                    BY <1>3, <1>4, <4>1, <5>3 DEF Four
                <5> QED
                    BY <1>3, <1>4, <5>1, <5>2, <5>3
            <4>2. CASE e > s
                <5>1. PICK d \in Nat : e = d + 1
                    <6>1. e - 1 \in Nat /\ e = e - 1 + 1
                        BY <1>9, <1>11
                    <6> QED
                        BY <6>1
                <5>2. Four(rest, d + 1)
                    <6>1. d + 1 + 1 = e + 1 /\ d + 1 + 2 = e + 2 /\ d + 1 + 3 = e + 3
                          /\ e + 1 + 1 = e + 2 /\ e + 1 + 2 = e + 3
                          /\ d + 1 \in 1..(L - 3)
                        BY <1>10, <5>1
                    <6> QED
                        BY <1>1, <2>2, <5>1, <6>1 DEF Three, Four
                <5>3. d \in 0..L /\ d \in s..(L - 1)
                    BY <1>9, <4>2, <5>1
                <5>4. d \in E
                    BY <1>1, <1>2, <1>5, <5>2, <5>3, CheckBehind
                <5> QED
                    BY <1>7, <5>1, <5>4
            <4> QED
                BY <1>4, <1>9, <4>1, <4>2
        <3>4. ~(R + e + 1 > 1 /\ buffer[R + e + 1 - 1] = 0)
            BY <3>2, <3>3
        <3>5. PICK c \in Nat \ {0} : c = R + e + 1
            BY <2>0
        <3>6. Three(buffer, c) /\ ~(c > 1 /\ buffer[c - 1] = 0)
            BY <1>9, <3>1, <3>4, <3>5
        <3>7. c \in AnnexB!CutsOf(buffer)
                <=> (Three(buffer, c) /\ ~(c > 1 /\ buffer[c - 1] = 0)) \/ Four(buffer, c)
            BY <1>2, CutPlaces
        <3> QED
            BY <3>5, <3>6, <3>7
    <2> QED
        BY <1>9, <2>1, <2>2
<1> QED
    BY <1>1, <1>7, <1>8, <1>9, <1>10, <1>11, <1>12 DEF E

\* No byte has been read when the file is opened.
LEMMA InitBlocks == MCInit => BlocksInv
<1> SUFFICES ASSUME MCInit PROVE BlocksInv
    OBVIOUS
<1>1. /\ buffer \in Files /\ Len(buffer) \in Nat /\ buffer \in Seq(Byte)
      /\ rest = <<>> /\ returned = <<>> /\ ends = {} /\ at = 0
    BY FilesAssumption DEF MCInit, Init, AnnexB!Start
<1>2. CutsRight
    <2> SUFFICES ASSUME NEW c \in 2..Len(buffer) PROVE ~(c <= Len(returned) + 1)
        BY <1>1 DEF CutsRight
    <2> QED
        BY <1>1, EmptySeq
<1> QED
    BY <1>1, <1>2, EmptySeq DEF BlocksInv

\* A unit that ends where the next start code is found.
LEMMA NextCut ==
    ASSUME BlocksInv, AnnexB!ReadNalu
    PROVE  BlocksInv'
<1>1. PICK R \in Nat, L \in Nat, n \in Nat :
          R = Len(returned) /\ L = Len(rest) /\ n = Len(buffer) /\ R + L <= n /\ R + L = at
    BY Lengths DEF BlocksInv
<1>2. /\ buffer \in Seq(Byte) /\ rest \in Seq(Byte) /\ returned \in Seq(Byte)
      /\ step = "read" /\ AnnexB!EndPositions # {}
    BY Lengths DEF AnnexB!ReadNalu
<1>3. PICK e \in 1..(L - 3) :
          /\ e = AnnexB!endPos /\ e \in AnnexB!EndPositions
          /\ \A j \in AnnexB!EndPositions : e <= j
          /\ R + e + 1 \in AnnexB!CutsOf(buffer)
    BY <1>1, <1>2, FirstIsCut
<1>4. PICK u \in Seq(Byte) : /\ u = SubSeq(rest, 1, e) /\ Len(u) = e
                             /\ \A j \in 1..e : u[j] = rest[j]
    <2>1. 1 \in Nat \ {0} /\ e \in Nat /\ e = 1 + e - 1 /\ e <= Len(rest)
        BY <1>1, <1>3
    <2>2. /\ SubSeq(rest, 1, e) \in Seq(Byte) /\ Len(SubSeq(rest, 1, e)) = e
          /\ \A j \in 1..e : SubSeq(rest, 1, e)[j] = rest[1 + j - 1]
        BY <1>2, <2>1, Stretch
    <2>3. \A j \in 1..e : 1 + j - 1 = j
        OBVIOUS
    <2> QED
        BY <2>2, <2>3
<1>5. /\ nalu'.buf = u /\ nalu'.last = FALSE
      /\ returned' = returned \o u /\ ends' = ends \cup {Len(returned')}
      /\ rest' = AnnexB!From(rest, e) /\ step' = "parse"
      /\ buffer' = buffer /\ at' = at
    BY <1>3, <1>4 DEF AnnexB!ReadNalu
<1>6. /\ returned' \in Seq(Byte) /\ Len(returned') = R + e
      /\ \A i \in 1..(R + e) : returned'[i] = IF i <= R THEN returned[i] ELSE u[i - R]
    BY <1>1, <1>2, <1>3, <1>4, <1>5, ConcatProperties
<1>7. \A i \in 1..(R + e) : returned'[i] = buffer[i]
    <2> TAKE i \in 1..(R + e)
    <2>1. CASE i <= R
        BY <1>1, <1>6, <2>1 DEF BlocksInv
    <2>2. CASE i > R
        <3>1. PICK j \in 1..e : j = i - R /\ i = R + j /\ j \in 1..L
            <4>1. i - R \in 1..e /\ i = R + (i - R) /\ i - R \in 1..L
                BY <1>1, <1>3, <2>2
            <4> QED
                BY <4>1
        <3>2. returned'[i] = rest[j]
            BY <1>4, <1>6, <2>2, <3>1
        <3>3. rest[j] = buffer[R + j]
            BY <1>1, <3>1 DEF BlocksInv
        <3> QED
            BY <3>1, <3>2, <3>3
    <2> QED
        BY <2>1, <2>2
<1>8. /\ rest' \in Seq(Byte) /\ Len(rest') = L - e
      /\ \A j \in 1..(L - e) : rest'[j] = rest[e + j]
    <2>1. e \in 0..L
        BY <1>3
    <2> QED
        BY <1>1, <1>2, <1>5, <2>1, Rests
<1>9. \A j \in 1..(L - e) : rest'[j] = buffer[R + e + j]
    <2> TAKE j \in 1..(L - e)
    <2>1. rest[e + j] = buffer[R + (e + j)]
        <3>1. e + j \in 1..L
            BY <1>3
        <3> QED
            BY <1>1, <3>1 DEF BlocksInv
    <2>2. R + (e + j) = R + e + j
        BY <1>3
    <2> QED
        BY <1>8, <2>1, <2>2
<1>10. AnnexB!CheckStartCode(rest') # 0
    BY <1>3, <1>5 DEF AnnexB!EndPositions
<1>11. ASSUME NEW c \in 2..n
       PROVE  c - 1 \in ends' <=> c \in AnnexB!CutsOf(buffer) /\ c <= R + e + 1
    <2>1. c - 1 \in ends <=> c \in AnnexB!CutsOf(buffer) /\ c <= R + 1
        BY <1>1 DEF BlocksInv, CutsRight
    <2>2. c - 1 \in ends' <=> c - 1 \in ends \/ c - 1 = R + e
        BY <1>5, <1>6
    <2>3. CASE c <= R + 1
        BY <1>3, <2>1, <2>2, <2>3
    <2>4. CASE c = R + e + 1
        BY <1>3, <2>2, <2>4
    <2>5. CASE c > R + e + 1
        BY <1>3, <2>1, <2>2, <2>5
    <2>6. CASE c > R + 1 /\ c < R + e + 1
        <3>1. PICK i \in 1..(e - 1) : c = R + i + 1
            <4>1. c - R - 1 \in 1..(e - 1) /\ c = R + (c - R - 1) + 1
                BY <1>3, <2>6
            <4> QED
                BY <4>1
        <3>2. c \notin AnnexB!CutsOf(buffer)
            <4> SUFFICES ASSUME c \in AnnexB!CutsOf(buffer) PROVE FALSE
                OBVIOUS
            <4>1. i \in 1..(Len(rest) - 1) /\ i + 4 <= Len(rest)
                BY <1>1, <1>3, <3>1
            <4>2. Len(returned) + i + 1 \in AnnexB!CutsOf(buffer)
                BY <1>1, <3>1
            <4>3. i \in AnnexB!EndPositions
                BY <4>1, <4>2, CutsFound
            <4>4. e <= i
                BY <1>3, <4>3
            <4> QED
                BY <1>3, <3>1, <4>4
        <3>3. c - 1 # R + e /\ ~(c <= R + 1)
            BY <1>3, <2>6
        <3> QED
            BY <2>1, <2>2, <3>2, <3>3
    <2> QED
        BY <1>3, <2>3, <2>4, <2>5, <2>6
<1>12. CutsRight'
    BY <1>1, <1>5, <1>6, <1>11 DEF CutsRight
<1>13. Len(returned') + Len(rest') = at'
    BY <1>1, <1>3, <1>5, <1>6, <1>8
<1> QED
    BY <1>1, <1>5, <1>6, <1>7, <1>8, <1>9, <1>10, <1>12, <1>13 DEF BlocksInv

\* A block that is read leaves every place to cut to be found.
LEMMA NextBlock ==
    ASSUME BlocksInv, AnnexB!ReadFromFile
    PROVE  BlocksInv'
<1>1. PICK R \in Nat, L \in Nat, n \in Nat, a \in Nat :
          /\ R = Len(returned) /\ L = Len(rest) /\ n = Len(buffer) /\ a = at
          /\ R + L = a /\ a <= n
    BY Lengths DEF BlocksInv
<1>2. /\ buffer \in Seq(Byte) /\ rest \in Seq(Byte) /\ returned \in Seq(Byte)
      /\ step = "read" /\ a < n
    BY <1>1, Lengths DEF AnnexB!ReadFromFile
<1>3. PICK m \in Nat : /\ a + m <= n
                       /\ rest' = rest \o SubSeq(buffer, a + 1, a + m)
                       /\ at' = a + m
    <2> DEFINE k == IF n - a < Block THEN n - a ELSE Block
    <2>1. k \in Nat /\ a + k <= n
        BY <1>1, BlockAssumption
    <2>2. rest' = rest \o SubSeq(buffer, a + 1, a + k) /\ at' = a + k
        BY <1>1 DEF AnnexB!ReadFromFile
    <2> QED
        BY <2>1, <2>2
<1>4. /\ buffer' = buffer /\ step' = step /\ nalu' = nalu
      /\ returned' = returned /\ ends' = ends
    BY DEF AnnexB!ReadFromFile
<1>5. PICK x \in Seq(Byte) : /\ x = SubSeq(buffer, a + 1, a + m) /\ Len(x) = m
                             /\ \A j \in 1..m : x[j] = buffer[a + j]
    <2>1. a + 1 \in Nat \ {0} /\ a + m \in Nat /\ a + m = a + 1 + m - 1 /\ a + m <= Len(buffer)
        BY <1>1, <1>3
    <2>2. /\ SubSeq(buffer, a + 1, a + m) \in Seq(Byte)
          /\ Len(SubSeq(buffer, a + 1, a + m)) = m
          /\ \A j \in 1..m : SubSeq(buffer, a + 1, a + m)[j] = buffer[a + 1 + j - 1]
        BY <1>2, <2>1, Stretch
    <2>3. \A j \in 1..m : a + 1 + j - 1 = a + j
        OBVIOUS
    <2> QED
        BY <2>2, <2>3
<1>6. /\ rest' \in Seq(Byte) /\ Len(rest') = L + m
      /\ \A i \in 1..(L + m) : rest'[i] = IF i <= L THEN rest[i] ELSE x[i - L]
    <2>1. rest' = rest \o x
        BY <1>3, <1>5
    <2> QED
        BY <1>1, <1>2, <1>5, <2>1, ConcatProperties
<1>7. \A i \in 1..(L + m) : rest'[i] = buffer[R + i]
    <2> TAKE i \in 1..(L + m)
    <2>1. CASE i <= L
        BY <1>1, <1>6, <2>1 DEF BlocksInv
    <2>2. CASE i > L
        <3>1. PICK j \in 1..m : j = i - L /\ R + i = a + j
            <4>1. i - L \in 1..m /\ R + i = a + (i - L)
                BY <1>1, <2>2
            <4> QED
                BY <4>1
        <3>2. ~(i <= L)
            BY <2>2
        <3>3. rest'[i] = x[j]
            BY <1>6, <3>1, <3>2
        <3> QED
            BY <1>5, <3>1, <3>3
    <2> QED
        BY <2>1, <2>2
<1>8. AnnexB!CheckStartCode(rest) # 0 => AnnexB!CheckStartCode(rest') # 0
    <2>1. \A i \in 1..L : rest'[i] = rest[i]
        BY <1>6
    <2>2. Three(rest, 1) => Three(rest', 1)
        <3> SUFFICES ASSUME Three(rest, 1) PROVE Three(rest', 1)
            OBVIOUS
        <3>1. L >= 3 /\ rest[1] = 0 /\ rest[1 + 1] = 0 /\ rest[1 + 2] = 1
            BY <1>1 DEF Three
        <3>2. rest'[1] = 0 /\ rest'[1 + 1] = 0 /\ rest'[1 + 2] = 1
            BY <2>1, <3>1
        <3>3. 1 \in 1..(Len(rest') - 2)
            BY <1>6, <3>1
        <3> QED
            BY <3>2, <3>3 DEF Three
    <2>3. Four(rest, 1) => Four(rest', 1)
        <3> SUFFICES ASSUME Four(rest, 1) PROVE Four(rest', 1)
            OBVIOUS
        <3>1. L >= 4 /\ rest[1] = 0 /\ rest[1 + 1] = 0 /\ rest[1 + 2] = 0 /\ rest[1 + 3] = 1
            BY <1>1 DEF Four
        <3>2. rest'[1] = 0 /\ rest'[1 + 1] = 0 /\ rest'[1 + 2] = 0 /\ rest'[1 + 3] = 1
            BY <2>1, <3>1
        <3>3. 1 \in 1..(Len(rest') - 3)
            BY <1>6, <3>1
        <3> QED
            BY <3>2, <3>3 DEF Four
    <2>4. AnnexB!CheckStartCode(rest)
            = IF Three(rest, 1) THEN 3 ELSE IF Four(rest, 1) THEN 4 ELSE 0
        BY <1>2, CheckFinds
    <2>5. AnnexB!CheckStartCode(rest')
            = IF Three(rest', 1) THEN 3 ELSE IF Four(rest', 1) THEN 4 ELSE 0
        BY <1>6, CheckFinds
    <2> QED
        BY <2>2, <2>3, <2>4, <2>5
<1>9. CutsRight'
    BY <1>4 DEF CutsRight, BlocksInv
<1>10. Len(returned') + Len(rest') = at'
    <2>1. Len(returned') = R /\ Len(rest') = L + m /\ at' = a + m
        BY <1>1, <1>3, <1>4, <1>6
    <2>2. R + (L + m) = a + m
        BY <1>1
    <2> QED
        BY <2>1, <2>2
<1>11. at' \in 0..Len(buffer')
    BY <1>1, <1>3, <1>4
<1> QED
    BY <1>1, <1>2, <1>4, <1>6, <1>7, <1>8, <1>9, <1>10, <1>11 DEF BlocksInv

\* At the end of the file no place to cut is left.
LEMMA LastCut ==
    ASSUME BlocksInv, AnnexB!ReadLastNalu
    PROVE  BlocksInv'
<1>1. PICK R \in Nat, L \in Nat, n \in Nat :
          R = Len(returned) /\ L = Len(rest) /\ n = Len(buffer) /\ R + L = n /\ at = n
    BY Lengths DEF BlocksInv, AnnexB!ReadLastNalu
<1>2. /\ buffer \in Seq(Byte) /\ rest \in Seq(Byte) /\ returned \in Seq(Byte)
      /\ AnnexB!EndPositions = {}
    BY Lengths DEF AnnexB!ReadLastNalu
<1>3. /\ nalu'.last = TRUE /\ returned' = returned \o rest
      /\ ends' = ends \cup {Len(returned')} /\ rest' = <<>> /\ step' = "parse"
      /\ buffer' = buffer /\ at' = at
    BY DEF AnnexB!ReadLastNalu
<1>4. /\ returned' \in Seq(Byte) /\ Len(returned') = n
      /\ \A i \in 1..n : returned'[i] = IF i <= R THEN returned[i] ELSE rest[i - R]
    BY <1>1, <1>2, <1>3, ConcatProperties
<1>5. \A i \in 1..n : returned'[i] = buffer[i]
    <2> TAKE i \in 1..n
    <2>1. CASE i <= R
        BY <1>1, <1>4, <2>1 DEF BlocksInv
    <2>2. CASE i > R
        <3>1. PICK j \in 1..L : j = i - R /\ i = R + j
            BY <1>1, <2>2
        <3>2. rest[j] = buffer[R + j]
            BY <1>1, <3>1 DEF BlocksInv
        <3> QED
            BY <1>4, <2>2, <3>1, <3>2
    <2> QED
        BY <2>1, <2>2
<1>6. ASSUME NEW c \in 2..n
      PROVE  c - 1 \in ends' <=> c \in AnnexB!CutsOf(buffer) /\ c <= n + 1
    <2>1. c - 1 \in ends <=> c \in AnnexB!CutsOf(buffer) /\ c <= R + 1
        BY <1>1 DEF BlocksInv, CutsRight
    <2>2. c - 1 \in ends' <=> c - 1 \in ends
        BY <1>1, <1>3, <1>4
    <2>3. CASE c <= R + 1
        BY <1>1, <2>1, <2>2, <2>3
    <2>4. CASE c > R + 1
        <3>1. PICK i \in 1..(L - 1) : c = R + i + 1
            <4>1. c - R - 1 \in 1..(L - 1) /\ c = R + (c - R - 1) + 1
                BY <1>1, <2>4
            <4> QED
                BY <4>1
        <3>2. c \notin AnnexB!CutsOf(buffer)
            <4> SUFFICES ASSUME c \in AnnexB!CutsOf(buffer) PROVE FALSE
                OBVIOUS
            <4>1. i \in 1..(Len(rest) - 1) /\ Len(returned) + Len(rest) = Len(buffer)
                BY <1>1
            <4>2. Len(returned) + i + 1 \in AnnexB!CutsOf(buffer)
                BY <1>1, <3>1
            <4>3. i \in AnnexB!EndPositions
                BY <4>1, <4>2, CutsFound
            <4> QED
                BY <1>2, <4>3
        <3>3. ~(c <= R + 1)
            BY <2>4
        <3> QED
            BY <2>1, <2>2, <3>2, <3>3
    <2> QED
        BY <2>3, <2>4
<1>7. CutsRight'
    BY <1>1, <1>3, <1>4, <1>6 DEF CutsRight
<1>8. /\ Len(returned') + Len(rest') = at' /\ at' \in 0..Len(buffer')
      /\ rest' \in Seq(Byte) /\ \A i \in 1..Len(rest') : rest'[i] = buffer'[Len(returned') + i]
    BY <1>1, <1>3, <1>4, EmptySeq
<1> QED
    BY <1>1, <1>3, <1>4, <1>5, <1>7, <1>8 DEF BlocksInv

\* Every step of either reader keeps what is known of the blocks.
LEMMA NextBlocks == BlocksInv /\ [MCNext]_<<vars, annexb, reader>> => BlocksInv'
<1> SUFFICES ASSUME BlocksInv, [MCNext]_<<vars, annexb, reader>> PROVE BlocksInv'
    OBVIOUS
<1>1. CASE ReadInBlocks
    <2>1. CASE AnnexB!ReadNalu
        BY <2>1, NextCut
    <2>2. CASE AnnexB!ReadFromFile
        BY <2>2, NextBlock
    <2>3. CASE AnnexB!ReadLastNalu
        BY <2>3, LastCut
    <2>4. CASE AnnexB!Parse
        <3>1. /\ UNCHANGED <<buffer, at, rest, nalu, returned, ends>>
              /\ step = "parse" /\ (step' = "read" => ~nalu.last) /\ step' # "parse"
            BY <2>4 DEF AnnexB!Parse
        <3> QED
            BY <3>1 DEF BlocksInv, CutsRight
    <2> QED
        BY <1>1, <2>1, <2>2, <2>3, <2>4 DEF ReadInBlocks, AnnexB!Read
<1>2. CASE ReadFromMemory
    <2>1. buffer' = buffer /\ annexb' = annexb
        BY <1>2 DEF ReadFromMemory, Next, CopyNal, KeepByte, HoldZero, ReturnUnit,
                    ReturnError, Reset, Consume
    <2> QED
        BY <2>1 DEF BlocksInv, CutsRight, annexb
<1>3. CASE UNCHANGED <<vars, annexb, reader>>
    BY <1>3 DEF BlocksInv, CutsRight, vars, annexb
<1> QED
    BY <1>1, <1>2, <1>3 DEF MCNext

(* For every file and every size of a block: the units that ReadNalu returns  *)
(* are the file, cut where its start codes begin and nowhere else, whether    *)
(* or not a start code lies across two blocks.                                *)
THEOREM CutsPlaced == MCSpec => []CutAtStartCodes
<1>1. BlocksInv => CutAtStartCodes
    <2> SUFFICES ASSUME BlocksInv PROVE AnnexB!CutAtStartCodes
        BY DEF CutAtStartCodes
    <2>1. PICK R \in Nat, L \in Nat, n \in Nat :
              R = Len(returned) /\ L = Len(rest) /\ n = Len(buffer) /\ R + L = at /\ at <= n
        BY Lengths DEF BlocksInv
    <2>2. buffer \in Seq(Byte) /\ rest \in Seq(Byte) /\ returned \in Seq(Byte)
        BY Lengths
    <2>3. returned \o rest = SubSeq(buffer, 1, at)
        <3>1. /\ returned \o rest \in Seq(Byte) /\ Len(returned \o rest) = at
              /\ \A i \in 1..at : (returned \o rest)[i]
                                    = IF i <= R THEN returned[i] ELSE rest[i - R]
            BY <2>1, <2>2, ConcatProperties
        <3>2. \A i \in 1..at : buffer[1 + i - 1] = (returned \o rest)[i]
            <4> TAKE i \in 1..at
            <4>1. 1 + i - 1 = i
                BY <2>1
            <4>2. CASE i <= R
                BY <2>1, <3>1, <4>1, <4>2 DEF BlocksInv
            <4>3. CASE i > R
                <5>1. PICK j \in 1..L : j = i - R /\ i = R + j
                    <6>1. i - R \in 1..L /\ i = R + (i - R)
                        BY <2>1, <4>3
                    <6> QED
                        BY <6>1
                <5>2. rest[j] = buffer[R + j]
                    BY <2>1, <5>1 DEF BlocksInv
                <5> QED
                    BY <3>1, <4>1, <4>3, <5>1, <5>2
            <4> QED
                BY <2>1, <4>2, <4>3
        <3>3. 1 \in Nat \ {0} /\ at \in Nat /\ at = 1 + at - 1 /\ at <= Len(buffer)
            BY <2>1
        <3> DEFINE w == returned \o rest
        <3> HIDE DEF w
        <3>4. w \in Seq(Byte) /\ Len(w) = at /\ \A i \in 1..at : buffer[1 + i - 1] = w[i]
            BY <3>1, <3>2 DEF w
        <3>5. PICK a \in Nat \ {0}, b \in Nat :
                  a = 1 /\ b = at /\ b = a + Len(w) - 1 /\ b <= Len(buffer)
            BY <3>3, <3>4
        <3>6. SubSeq(buffer, a, b) = w <=> \A i \in 1..Len(w) : buffer[a + i - 1] = w[i]
            BY <2>2, <3>4, <3>5, StretchIs
        <3>7. \A i \in 1..Len(w) : buffer[a + i - 1] = w[i]
            BY <3>4, <3>5
        <3>8. SubSeq(buffer, 1, at) = w
            BY <3>5, <3>6, <3>7
        <3> QED
            BY <3>8 DEF w
    <2>4. \A c \in AnnexB!CutsOf(buffer) : c \in Nat /\ c <= n
        BY <2>1 DEF AnnexB!CutsOf, AnnexB!Occurs
    <2>5. \A c \in 2..n : c - 1 \in ends <=> c \in AnnexB!CutsOf(buffer) /\ c <= R + 1
        BY <2>1 DEF BlocksInv, CutsRight
    <2>6. {e + 1 : e \in ends \cap 1..(n - 1)}
            = {c \in AnnexB!CutsOf(buffer) : c > 1 /\ c <= R + 1}
        <3>1. \A c : c \in {e + 1 : e \in ends \cap 1..(n - 1)} <=> c \in 2..n /\ c - 1 \in ends
            <4>1. \A e \in 1..(n - 1) : e + 1 \in 2..n /\ e + 1 - 1 = e
                BY <2>1
            <4>2. \A c \in 2..n : c - 1 \in 1..(n - 1) /\ c = c - 1 + 1
                BY <2>1
            <4> QED
                BY <4>1, <4>2
        <3>2. \A c : c \in {d \in AnnexB!CutsOf(buffer) : d > 1 /\ d <= R + 1}
                       <=> c \in 2..n /\ c \in AnnexB!CutsOf(buffer) /\ c <= R + 1
            BY <2>1, <2>4
        <3> QED
            BY <2>5, <3>1, <3>2
    <2> QED
        BY <2>1, <2>3, <2>6 DEF AnnexB!CutAtStartCodes
<1>2. MCSpec => []BlocksInv
    BY InitBlocks, NextBlocks, PTL DEF MCSpec
<1> QED
    BY <1>1, <1>2, PTL

-----------------------------------------------------------------------------
(* What a unit holds: GetRBSP                                                 *)

(* Induction up to n.                                                         *)
LEMMA CountingUp ==
    ASSUME NEW n \in Nat, NEW S, 0 \in S, \A k \in 0..(n - 1) : k \in S => k + 1 \in S
    PROVE  \A k \in 0..n : k \in S
<1> SUFFICES ASSUME NEW x \in 0..n, x \notin S PROVE FALSE
    OBVIOUS
<1> DEFINE T == {k \in 0..n : k \notin S}
<1>1. PICK m \in T : \A k \in T : m <= k
    <2>1. T \subseteq 0..n /\ T # {}
        OBVIOUS
    <2> HIDE DEF T
    <2> QED
        BY <2>1, LeastNumber
<1>2. m \in 0..n /\ m \notin S /\ m # 0
    OBVIOUS
<1>3. m - 1 \in 0..(n - 1) /\ m - 1 \in 0..n /\ ~(m <= m - 1) /\ (m - 1) + 1 = m
    BY <1>2
<1>4. m - 1 \in S
    BY <1>1, <1>3
<1> QED
    BY <1>2, <1>3, <1>4

\* A function that is base at 0 and comes from each number to the next by next.
Follows(n, V, base, next, f) ==
    /\ f \in [0..n -> V] /\ f[0] = base
    /\ \A k \in 1..n : f[k] = next[k][f[k - 1]]

(* There is one.                                                              *)
LEMMA Recursion ==
    ASSUME NEW n \in Nat, NEW V, NEW base \in V, NEW next \in [1..n -> [V -> V]]
    PROVE  \E f : Follows(n, V, base, next, f)
<1> DEFINE Reaches(k, f) == Follows(k, V, base, next, f)
           S == {k \in 0..n : \E f : Reaches(k, f)}
<1>1. 0 \in S
    <2>1. Reaches(0, [i \in 0..0 |-> base])
        BY DEF Follows
    <2>2. \E f : Reaches(0, f)
        BY <2>1
    <2> HIDE DEF Reaches
    <2>3. 0 \in 0..n
        OBVIOUS
    <2> QED
        BY <2>2, <2>3
<1>2. ASSUME NEW k \in 0..(n - 1), k \in S PROVE k + 1 \in S
    <2>1. PICK f : Reaches(k, f)
        BY <1>2
    <2> DEFINE g == [i \in 0..(k + 1) |-> IF i = k + 1 THEN next[k + 1][f[k]] ELSE f[i]]
    <2>2. k + 1 \in 1..n /\ k \in 0..k /\ k + 1 \in 0..n
        OBVIOUS
    <2>3. f[k] \in V
        BY <2>1, <2>2 DEF Follows
    <2>4. next[k + 1][f[k]] \in V
        <3>1. next[k + 1] \in [V -> V]
            BY <2>2
        <3> QED
            BY <2>3, <3>1
    <2>5. g \in [0..(k + 1) -> V]
        BY <2>1, <2>4 DEF Follows
    <2>6. g[0] = base
        BY <2>1 DEF Follows
    <2>7. ASSUME NEW i \in 1..(k + 1) PROVE g[i] = next[i][g[i - 1]]
        <3>1. CASE i = k + 1
            <4>1. g[k + 1] = next[k + 1][f[k]] /\ g[k] = f[k] /\ i - 1 = k
                BY <2>2, <3>1
            <4> QED
                BY <3>1, <4>1
        <3>2. CASE i # k + 1
            <4>1. i \in 1..k /\ g[i] = f[i] /\ g[i - 1] = f[i - 1]
                BY <3>2
            <4> QED
                BY <2>1, <4>1 DEF Follows
        <3> QED
            BY <3>1, <3>2
    <2> HIDE DEF g
    <2>8. Reaches(k + 1, g)
        BY <2>5, <2>6, <2>7 DEF Follows
    <2> QED
        BY <2>2, <2>8
<1>3. \A k \in 0..n : k \in S
    <2> HIDE DEF S
    <2> QED
        BY <1>1, <1>2, CountingUp
<1>4. n \in S
    BY <1>3
<1> QED
    BY <1>4

\* The bytes that GetRBSP has copied when it has seen the first i of b.
Copies(b, c) ==
    /\ c[0] = <<>>
    /\ \A i \in 1..Len(b) :
           c[i] = IF AnnexB!Skipped(b, i) THEN c[i - 1] ELSE Append(c[i - 1], b[i])

(* GetRBSP copies byte by byte.                                               *)
LEMMA GetRBSPCopies ==
    ASSUME NEW b \in Seq(Nat)
    PROVE  \E c : Copies(b, c) /\ AnnexB!GetRBSP(b) = c[Len(b)]
<1> DEFINE n == Len(b)
           V == Seq(Nat)
           next == [i \in 1..n |-> [s \in V |-> IF AnnexB!Skipped(b, i) THEN s ELSE Append(s, b[i])]]
           Is(f) == f = [i \in 0..n |->
                            IF i = 0 THEN <<>>
                            ELSE IF AnnexB!Skipped(b, i) THEN f[i - 1] ELSE Append(f[i - 1], b[i])]
           copied == CHOOSE f : Is(f)
<1>1. n \in Nat
    BY LenProperties
<1>2. next \in [1..n -> [V -> V]]
    <2>1. ASSUME NEW i \in 1..n, NEW s \in V PROVE Append(s, b[i]) \in V
        <3>1. b[i] \in Nat
            BY ElementOfSeq
        <3> QED
            BY <3>1
    <2> QED
        BY <2>1
<1>3. \A i \in 1..n : \A s \in V :
          next[i][s] = IF AnnexB!Skipped(b, i) THEN s ELSE Append(s, b[i])
    OBVIOUS
<1>4. <<>> \in V
    BY EmptySeq
<1>5. PICK f : /\ f \in [0..n -> V] /\ f[0] = <<>>
               /\ \A k \in 1..n : f[k] = next[k][f[k - 1]]
    <2>1. \E f : Follows(n, V, <<>>, next, f)
        <3> HIDE DEF next, n, V
        <3> QED
            BY <1>1, <1>2, <1>4, Recursion
    <2> QED
        BY <2>1 DEF Follows
<1>6. Is(f)
    <2>1. ASSUME NEW i \in 0..n
          PROVE  f[i] = IF i = 0 THEN <<>>
                        ELSE IF AnnexB!Skipped(b, i) THEN f[i - 1] ELSE Append(f[i - 1], b[i])
        <3>1. CASE i = 0
            BY <1>5, <3>1
        <3>2. CASE i # 0
            <4>1. i \in 1..n /\ i - 1 \in 0..n
                BY <1>1, <3>2
            <4>2. f[i - 1] \in V
                BY <1>5, <4>1
            <4> HIDE DEF next, n, V
            <4> QED
                BY <1>3, <1>5, <3>2, <4>1, <4>2
        <3> QED
            BY <3>1, <3>2
    <2> QED
        BY <1>5, <2>1
<1>7. Is(copied)
    <2> HIDE DEF Is
    <2> QED
        BY <1>6
<1>8. AnnexB!GetRBSP(b) = copied[n]
    BY Zenon DEF AnnexB!GetRBSP
<1>9. Copies(b, copied)
    <2> HIDE DEF copied
    <2>1. 0 \in 0..n /\ copied[0] = <<>>
        BY <1>1, <1>7
    <2>2. ASSUME NEW i \in 1..n
          PROVE  copied[i] = IF AnnexB!Skipped(b, i) THEN copied[i - 1]
                             ELSE Append(copied[i - 1], b[i])
        <3>1. i \in 0..n /\ i # 0
            BY <1>1
        <3> QED
            BY <1>7, <3>1
    <2> QED
        BY <2>1, <2>2 DEF Copies
<1> QED
    BY <1>8, <1>9

\* What Escape makes of e and the next byte.
Escaped(e, x) ==
    IF Len(e) >= 2 /\ e[Len(e)] = 0 /\ e[Len(e) - 1] = 0 /\ x <= 3
    THEN e \o <<3, x>> ELSE Append(e, x)

(* Two bytes more, or one.                                                    *)
LEMMA OneOrTwoMore ==
    ASSUME NEW e \in Seq(Nat), NEW x \in Nat
    PROVE  /\ Append(e, x) \in Seq(Nat) /\ Len(Append(e, x)) = Len(e) + 1
           /\ Append(e, x)[Len(e) + 1] = x
           /\ \A i \in 1..Len(e) : Append(e, x)[i] = e[i]
           /\ e \o <<3, x>> \in Seq(Nat) /\ Len(e \o <<3, x>>) = Len(e) + 2
           /\ (e \o <<3, x>>)[Len(e) + 1] = 3 /\ (e \o <<3, x>>)[Len(e) + 2] = x
           /\ \A i \in 1..Len(e) : (e \o <<3, x>>)[i] = e[i]
<1>1. Len(e) \in Nat
    BY LenProperties
<1>2. /\ Append(e, x) \in Seq(Nat) /\ Len(Append(e, x)) = Len(e) + 1
      /\ Append(e, x)[Len(e) + 1] = x
      /\ \A i \in 1..Len(e) : Append(e, x)[i] = e[i]
    BY AppendProperties
<1> DEFINE t == <<3, x>>
<1>3. t \in Seq(Nat) /\ Len(t) = 2 /\ t[1] = 3 /\ t[2] = x
    OBVIOUS
<1>4. /\ e \o t \in Seq(Nat) /\ Len(e \o t) = Len(e) + 2
      /\ \A i \in 1..(Len(e) + 2) : (e \o t)[i] = IF i <= Len(e) THEN e[i] ELSE t[i - Len(e)]
    <2> HIDE DEF t
    <2>1. /\ e \o t \in Seq(Nat) /\ Len(e \o t) = Len(e) + Len(t)
          /\ \A i \in 1..(Len(e) + Len(t)) :
                 (e \o t)[i] = IF i <= Len(e) THEN e[i] ELSE t[i - Len(e)]
        BY <1>3, ConcatProperties
    <2> QED
        BY <1>3, <2>1
<1>5. (e \o t)[Len(e) + 1] = 3 /\ (e \o t)[Len(e) + 2] = x
    <2>1. /\ Len(e) + 1 \in 1..(Len(e) + 2) /\ ~(Len(e) + 1 <= Len(e)) /\ Len(e) + 1 - Len(e) = 1
          /\ Len(e) + 2 \in 1..(Len(e) + 2) /\ ~(Len(e) + 2 <= Len(e)) /\ Len(e) + 2 - Len(e) = 2
        BY <1>1
    <2> HIDE DEF t
    <2> QED
        BY <1>3, <1>4, <2>1
<1>6. \A i \in 1..Len(e) : (e \o t)[i] = e[i]
    <2>1. \A i \in 1..Len(e) : i \in 1..(Len(e) + 2) /\ i <= Len(e)
        BY <1>1
    <2> QED
        BY <1>4, <2>1
<1> QED
    BY <1>2, <1>3, <1>4, <1>5, <1>6

(* They are bytes, too.                                                       *)
LEMMA EscapedBytes ==
    ASSUME NEW e \in Seq(Nat), NEW x \in Nat
    PROVE  Escaped(e, x) \in Seq(Nat)
    BY OneOrTwoMore DEF Escaped

\* What Escape has made of the first i bytes of p.
Escapes(p, e) ==
    /\ e[0] = <<>>
    /\ \A i \in 1..Len(p) : e[i] = Escaped(e[i - 1], p[i])

(* Escape goes byte by byte.                                                  *)
LEMMA EscapeEscapes ==
    ASSUME NEW p \in Seq(Nat)
    PROVE  \E e : Escapes(p, e) /\ AnnexB!Escape(p) = e[Len(p)]
<1> DEFINE n == Len(p)
           V == Seq(Nat)
           next == [i \in 1..n |-> [s \in V |-> Escaped(s, p[i])]]
           Is(f) == f = [i \in 0..n |-> IF i = 0 THEN <<>> ELSE Escaped(f[i - 1], p[i])]
           escaped == CHOOSE f : Is(f)
<1>1. n \in Nat
    BY LenProperties
<1>2. next \in [1..n -> [V -> V]]
    <2>1. ASSUME NEW i \in 1..n, NEW s \in V PROVE Escaped(s, p[i]) \in V
        BY ElementOfSeq, EscapedBytes
    <2> QED
        BY <2>1
<1>3. \A i \in 1..n : \A s \in V : next[i][s] = Escaped(s, p[i])
    OBVIOUS
<1>4. <<>> \in V
    BY EmptySeq
<1>5. PICK f : /\ f \in [0..n -> V] /\ f[0] = <<>>
               /\ \A k \in 1..n : f[k] = next[k][f[k - 1]]
    <2>1. \E f : Follows(n, V, <<>>, next, f)
        <3> HIDE DEF next, n, V
        <3> QED
            BY <1>1, <1>2, <1>4, Recursion
    <2> QED
        BY <2>1 DEF Follows
<1>6. Is(f)
    <2>1. ASSUME NEW i \in 0..n
          PROVE  f[i] = IF i = 0 THEN <<>> ELSE Escaped(f[i - 1], p[i])
        <3>1. CASE i = 0
            BY <1>5, <3>1
        <3>2. CASE i # 0
            <4>1. i \in 1..n /\ i - 1 \in 0..n
                BY <1>1, <3>2
            <4>2. f[i - 1] \in V
                BY <1>5, <4>1
            <4> HIDE DEF next, n, V
            <4> QED
                BY <1>3, <1>5, <3>2, <4>1, <4>2
        <3> QED
            BY <3>1, <3>2
    <2> QED
        BY <1>5, <2>1
<1>7. Is(escaped)
    <2> HIDE DEF Is
    <2> QED
        BY <1>6
<1>8. AnnexB!Escape(p) = escaped[n]
    BY Zenon DEF AnnexB!Escape, Escaped
<1>9. Escapes(p, escaped)
    <2> HIDE DEF escaped
    <2>1. 0 \in 0..n /\ escaped[0] = <<>>
        BY <1>1, <1>7
    <2>2. ASSUME NEW i \in 1..n
          PROVE  escaped[i] = Escaped(escaped[i - 1], p[i])
        <3>1. i \in 0..n /\ i # 0
            BY <1>1
        <3> QED
            BY <1>7, <3>1
    <2> QED
        BY <2>1, <2>2 DEF Escapes
<1> QED
    BY <1>8, <1>9

\* b begins with e, and the last byte of e is not left out of it.
Extends(e, b) ==
    /\ e \in Seq(Nat) /\ b \in Seq(Nat) /\ Len(e) <= Len(b)
    /\ \A i \in 1..Len(e) : b[i] = e[i]
    /\ Len(e) # 0 => ~AnnexB!Skipped(b, Len(e))

(* Then what is copied of b up to the end of e is what is copied of e: only   *)
(* the last byte depends on what follows, and alone it would be copied.       *)
LEMMA CopiesOn ==
    ASSUME NEW e, NEW b, Extends(e, b), NEW c, Copies(b, c)
    PROVE  c[Len(e)] = AnnexB!GetRBSP(e)
<1>1. PICK d : Copies(e, d) /\ AnnexB!GetRBSP(e) = d[Len(e)]
    BY GetRBSPCopies DEF Extends
<1>2. Len(e) \in Nat /\ Len(b) \in Nat /\ Len(e) <= Len(b)
    BY LenProperties DEF Extends
<1>3. ASSUME NEW i \in 1..Len(e) PROVE AnnexB!Skipped(e, i) = AnnexB!Skipped(b, i)
    <2>1. CASE i = Len(e)
        <3>1. ~AnnexB!Skipped(e, i)
            BY <1>2, <2>1 DEF AnnexB!Skipped
        <3>2. ~AnnexB!Skipped(b, i)
            BY <1>2, <2>1 DEF Extends
        <3> QED
            BY <3>1, <3>2 DEF AnnexB!Skipped
    <2>2. CASE i # Len(e)
        <3>1. i < Len(e) /\ i < Len(b) /\ i + 1 \in 1..Len(e) /\ i \in Nat
            BY <1>2, <2>2
        <3>2. b[i] = e[i] /\ b[i + 1] = e[i + 1]
            BY <3>1 DEF Extends
        <3>3. i > 2 => b[i - 1] = e[i - 1] /\ b[i - 2] = e[i - 2]
            <4> SUFFICES ASSUME i > 2 PROVE b[i - 1] = e[i - 1] /\ b[i - 2] = e[i - 2]
                OBVIOUS
            <4>1. i - 1 \in 1..Len(e) /\ i - 2 \in 1..Len(e)
                BY <3>1
            <4> QED
                BY <4>1 DEF Extends
        <3> QED
            BY <3>1, <3>2, <3>3 DEF AnnexB!Skipped
    <2> QED
        BY <2>1, <2>2
<1> DEFINE S == {k \in 0..Len(e) : c[k] = d[k]}
<1>4. 0 \in S
    BY <1>1, <1>2 DEF Copies
<1>5. ASSUME NEW k \in 0..(Len(e) - 1), k \in S PROVE k + 1 \in S
    <2>1. k + 1 \in 1..Len(e) /\ k + 1 \in 1..Len(b) /\ (k + 1) - 1 = k /\ k + 1 \in 0..Len(e)
        BY <1>2
    <2>2. b[k + 1] = e[k + 1] /\ AnnexB!Skipped(e, k + 1) = AnnexB!Skipped(b, k + 1)
        BY <1>3, <2>1 DEF Extends
    <2>3. c[k + 1] = IF AnnexB!Skipped(b, k + 1) THEN c[k] ELSE Append(c[k], b[k + 1])
        BY <2>1 DEF Copies
    <2>4. d[k + 1] = IF AnnexB!Skipped(e, k + 1) THEN d[k] ELSE Append(d[k], e[k + 1])
        BY <1>1, <2>1 DEF Copies
    <2>5. c[k] = d[k]
        BY <1>5
    <2> QED
        BY <2>1, <2>2, <2>3, <2>4, <2>5
<1>6. \A k \in 0..Len(e) : k \in S
    <2> HIDE DEF S
    <2> QED
        BY <1>2, <1>4, <1>5, CountingUp
<1>7. Len(e) \in S
    BY <1>2, <1>6
<1> QED
    BY <1>1, <1>7

\* A 3 that stands behind two zeros at the end, as it never does in what Escape makes.
EndsInThree(e) ==
    Len(e) >= 3 /\ e[Len(e)] = 3 /\ e[Len(e) - 1] = 0 /\ e[Len(e) - 2] = 0

(* The next byte is copied behind what was.                                   *)
LEMMA NextByteCopied ==
    ASSUME NEW e \in Seq(Nat), NEW x \in Nat, ~EndsInThree(e)
    PROVE  /\ AnnexB!GetRBSP(Escaped(e, x)) = Append(AnnexB!GetRBSP(e), x)
           /\ ~EndsInThree(Escaped(e, x))
<1> DEFINE n == Len(e)
           a == Append(e, x)
           t == e \o <<3, x>>
<1>1. n \in Nat
    BY LenProperties
<1>2. /\ a \in Seq(Nat) /\ Len(a) = n + 1 /\ a[n + 1] = x
      /\ \A i \in 1..n : a[i] = e[i]
      /\ t \in Seq(Nat) /\ Len(t) = n + 2 /\ t[n + 1] = 3 /\ t[n + 2] = x
      /\ \A i \in 1..n : t[i] = e[i]
    BY OneOrTwoMore
<1> DEFINE zeros == n >= 2 /\ e[n] = 0 /\ e[n - 1] = 0
<1> HIDE DEF a, t
<1>3. CASE zeros /\ x <= 3
    <2>1. Escaped(e, x) = t
        BY <1>3 DEF Escaped, t
    <2>2. t[n] = 0 /\ t[n - 1] = 0 /\ n >= 2
        <3>1. n \in 1..n /\ n - 1 \in 1..n
            BY <1>1, <1>3
        <3> QED
            BY <1>2, <1>3, <3>1
    <2> HIDE DEF n
    <2>3. ~AnnexB!Skipped(t, n)
        BY <2>2 DEF AnnexB!Skipped
    <2>4. AnnexB!Skipped(t, n + 1)
        <3>1. (n + 1) - 1 = n /\ (n + 1) - 2 = n - 1 /\ (n + 1) + 1 = n + 2 /\ n + 1 > 2 /\ n + 1 < n + 2
            BY <1>1, <2>2
        <3> QED
            BY <1>2, <1>3, <2>2, <3>1 DEF AnnexB!Skipped
    <2>5. ~AnnexB!Skipped(t, n + 2)
        <3>1. ~(n + 2 < Len(t))
            BY <1>1, <1>2
        <3> QED
            BY <3>1 DEF AnnexB!Skipped
    <2>6. PICK c : Copies(t, c) /\ AnnexB!GetRBSP(t) = c[Len(t)]
        BY <1>2, GetRBSPCopies
    <2>7. Extends(e, t)
        <3>1. n <= Len(t)
            BY <1>1, <1>2
        <3> QED
            BY <1>2, <2>3, <3>1 DEF Extends, n
    <2>8. c[n] = AnnexB!GetRBSP(e)
        BY <2>6, <2>7, CopiesOn DEF n
    <2>9. c[n + 1] = c[n] /\ c[n + 2] = Append(c[n + 1], x)
        <3>1. n + 1 \in 1..Len(t) /\ n + 2 \in 1..Len(t) /\ (n + 1) - 1 = n /\ (n + 2) - 1 = n + 1
            BY <1>1, <1>2
        <3> QED
            BY <1>2, <2>4, <2>5, <2>6, <3>1 DEF Copies
    <2>10. ~EndsInThree(t)
        <3>1. (n + 2) - 1 = n + 1
            BY <1>1
        <3> QED
            BY <1>2, <3>1 DEF EndsInThree
    <2> QED
        BY <1>2, <2>1, <2>6, <2>8, <2>9, <2>10
<1>4. CASE ~(zeros /\ x <= 3)
    <2>1. Escaped(e, x) = a
        BY <1>4 DEF Escaped, a
    <2>2. n # 0 => ~AnnexB!Skipped(a, n)
        <3> SUFFICES ASSUME AnnexB!Skipped(a, n), n # 0 PROVE FALSE
            OBVIOUS
        <3>1. n > 2 /\ a[n] = 3 /\ a[n - 1] = 0 /\ a[n - 2] = 0
            BY DEF AnnexB!Skipped
        <3>2. n \in 1..n /\ n - 1 \in 1..n /\ n - 2 \in 1..n /\ n >= 3
            BY <1>1, <3>1
        <3> QED
            BY <1>2, <3>1, <3>2 DEF EndsInThree
    <2>3. ~AnnexB!Skipped(a, n + 1)
        <3>1. ~(n + 1 < Len(a))
            BY <1>1, <1>2
        <3> QED
            BY <3>1 DEF AnnexB!Skipped
    <2>4. PICK c : Copies(a, c) /\ AnnexB!GetRBSP(a) = c[Len(a)]
        BY <1>2, GetRBSPCopies
    <2>5. Extends(e, a)
        <3>1. n <= Len(a)
            BY <1>1, <1>2
        <3> QED
            BY <1>2, <2>2, <3>1 DEF Extends
    <2>6. c[n] = AnnexB!GetRBSP(e)
        BY <2>4, <2>5, CopiesOn
    <2>7. c[n + 1] = Append(c[n], x)
        <3>1. n + 1 \in 1..Len(a) /\ (n + 1) - 1 = n
            BY <1>1, <1>2
        <3> QED
            BY <1>2, <2>3, <2>4, <3>1 DEF Copies
    <2>8. ~EndsInThree(a)
        <3> SUFFICES ASSUME EndsInThree(a) PROVE FALSE
            OBVIOUS
        <3>1. n + 1 >= 3 /\ x = 3 /\ a[(n + 1) - 1] = 0 /\ a[(n + 1) - 2] = 0
            BY <1>2 DEF EndsInThree
        <3>2. (n + 1) - 1 = n /\ (n + 1) - 2 = n - 1 /\ n \in 1..n /\ n - 1 \in 1..n /\ n >= 2
            BY <1>1, <3>1
        <3>3. a[n] = 0 /\ a[n - 1] = 0
            BY <3>1, <3>2
        <3>4. e[n] = 0 /\ e[n - 1] = 0
            BY <1>2, <3>2, <3>3
        <3>5. x <= 3
            BY <3>1
        <3> QED
            BY <1>4, <3>2, <3>4, <3>5
    <2> QED
        BY <1>2, <2>1, <2>4, <2>6, <2>7, <2>8
<1> QED
    BY <1>3, <1>4

(* Every payload is read back.                                                *)
LEMMA BytesBack == AnnexB!BytesReadBack(Seq(Nat))
<1> SUFFICES ASSUME NEW p \in Seq(Nat) PROVE AnnexB!GetRBSP(AnnexB!Escape(p)) = p
    BY DEF AnnexB!BytesReadBack
<1>1. PICK e : Escapes(p, e) /\ AnnexB!Escape(p) = e[Len(p)]
    BY EscapeEscapes
<1> DEFINE Back(k) == /\ e[k] \in Seq(Nat) /\ ~EndsInThree(e[k])
                      /\ AnnexB!GetRBSP(e[k]) = SubSeq(p, 1, k)
           S == {k \in 0..Len(p) : Back(k)}
<1>2. Len(p) \in Nat
    BY LenProperties
<1>3. Back(0)
    <2>1. e[0] = <<>>
        BY <1>1 DEF Escapes
    <2> DEFINE none == <<>>
    <2>2. none \in Seq(Nat) /\ Len(none) = 0
        OBVIOUS
    <2>3. ~EndsInThree(none)
        BY <2>2 DEF EndsInThree
    <2>4. AnnexB!GetRBSP(none) = <<>>
        <3>1. PICK c : Copies(none, c) /\ AnnexB!GetRBSP(none) = c[Len(none)]
            BY <2>2, GetRBSPCopies
        <3> QED
            BY <2>2, <3>1 DEF Copies
    <2>5. SubSeq(p, 1, 0) = <<>>
        BY SubSeqEmpty
    <2> QED
        BY <2>1, <2>2, <2>3, <2>4, <2>5
<1>4. ASSUME NEW k \in 0..(Len(p) - 1), k \in S PROVE k + 1 \in S
    <2>1. k + 1 \in 1..Len(p) /\ (k + 1) - 1 = k /\ k + 1 \in 0..Len(p) /\ 1 \in 1..Len(p)
          /\ k + 1 \in 1..Len(p)
        BY <1>2
    <2>2. p[k + 1] \in Nat /\ Back(k)
        BY <1>4, <2>1, ElementOfSeq
    <2>3. e[k + 1] = Escaped(e[k], p[k + 1])
        BY <1>1, <2>1 DEF Escapes
    <2>4. /\ e[k + 1] \in Seq(Nat) /\ ~EndsInThree(e[k + 1])
          /\ AnnexB!GetRBSP(e[k + 1]) = Append(SubSeq(p, 1, k), p[k + 1])
        BY <2>2, <2>3, EscapedBytes, NextByteCopied
    <2>5. Append(SubSeq(p, 1, k), p[k + 1]) = SubSeq(p, 1, k + 1)
        BY <2>1, <1>2
    <2> QED
        BY <2>1, <2>4, <2>5
<1>5. \A k \in 0..Len(p) : k \in S
    <2>1. 0 \in S
        BY <1>2, <1>3
    <2> HIDE DEF S
    <2> QED
        BY <1>2, <1>4, <2>1, CountingUp
<1>6. Back(Len(p))
    BY <1>2, <1>5
<1> QED
    BY <1>1, <1>6, SubSeqFull

-----------------------------------------------------------------------------
(* What a unit holds: the numbers of BitStream                                *)

(* 1 << k doubles with k.                                                     *)
LEMMA Doubling ==
    AnnexB!Bit[0] = 1 /\ \A k \in 1..31 : AnnexB!Bit[k] = 2 * AnnexB!Bit[k - 1]
<1> DEFINE next == [k \in 1..31 |-> [x \in Nat |-> 2 * x]]
           Is(f) == f = [k \in 0..31 |-> IF k = 0 THEN 1 ELSE 2 * f[k - 1]]
           bit == CHOOSE f : Is(f)
<1>1. next \in [1..31 -> [Nat -> Nat]] /\ \A k \in 1..31 : \A x \in Nat : next[k][x] = 2 * x
    OBVIOUS
<1>2. PICK f : /\ f \in [0..31 -> Nat] /\ f[0] = 1
               /\ \A k \in 1..31 : f[k] = next[k][f[k - 1]]
    <2>1. \E f : Follows(31, Nat, 1, next, f)
        <3> HIDE DEF next
        <3> QED
            BY <1>1, Recursion
    <2> QED
        BY <2>1 DEF Follows
<1>3. Is(f)
    <2>1. ASSUME NEW k \in 0..31 PROVE f[k] = IF k = 0 THEN 1 ELSE 2 * f[k - 1]
        <3>1. CASE k = 0
            BY <1>2, <3>1
        <3>2. CASE k # 0
            <4>1. k \in 1..31 /\ k - 1 \in 0..31
                BY <3>2
            <4>2. f[k - 1] \in Nat
                BY <1>2, <4>1
            <4> HIDE DEF next
            <4> QED
                BY <1>1, <1>2, <3>2, <4>1, <4>2
        <3> QED
            BY <3>1, <3>2
    <2> QED
        BY <1>2, <2>1
<1>4. Is(bit)
    <2> HIDE DEF Is
    <2> QED
        BY <1>3
<1>5. AnnexB!Bit = bit
    BY Zenon DEF AnnexB!Bit
<1> HIDE DEF bit
<1>6. 0 \in 0..31 /\ bit[0] = 1
    BY <1>4
<1>7. ASSUME NEW k \in 1..31 PROVE bit[k] = 2 * bit[k - 1]
    <2>1. k \in 0..31 /\ k # 0
        OBVIOUS
    <2> QED
        BY <1>4, <2>1
<1> QED
    BY <1>5, <1>6, <1>7

(* All 32 are positive.                                                       *)
LEMMA BitsPositive == \A k \in 0..31 : AnnexB!Bit[k] \in Nat \ {0}
<1> DEFINE S == {k \in 0..31 : AnnexB!Bit[k] \in Nat \ {0}}
<1>1. 0 \in S
    BY Doubling
<1>2. ASSUME NEW k \in 0..30, k \in S PROVE k + 1 \in S
    <2>1. k + 1 \in 1..31 /\ (k + 1) - 1 = k /\ k + 1 \in 0..31
        OBVIOUS
    <2>2. AnnexB!Bit[k + 1] = 2 * AnnexB!Bit[k]
        BY <2>1, Doubling
    <2> QED
        BY <1>2, <2>1, <2>2
<1>3. \A k \in 0..31 : k \in S
    <2>1. 31 \in Nat /\ 31 - 1 = 30
        OBVIOUS
    <2> HIDE DEF S
    <2> QED
        BY <1>1, <1>2, <2>1, CountingUp
<1> QED
    BY <1>3

(* The numbers of an int lie below the 31st.                                  *)
LEMMA LargestBit == AnnexB!Bit[31] = 2147483648
<1> DEFINE B == AnnexB!Bit
<1> HIDE DEF B
<1>1. B[0] = 1 /\ \A k \in 1..31 : B[k] = 2 * B[k - 1]
    BY Doubling DEF B
<1>2. B[1] = 2 /\ B[2] = 4 /\ B[3] = 8 /\ B[4] = 16
    BY <1>1
<1>3. B[5] = 32 /\ B[6] = 64 /\ B[7] = 128 /\ B[8] = 256
    BY <1>1, <1>2
<1>4. B[9] = 512 /\ B[10] = 1024 /\ B[11] = 2048 /\ B[12] = 4096
    BY <1>1, <1>3
<1>5. B[13] = 8192 /\ B[14] = 16384 /\ B[15] = 32768 /\ B[16] = 65536
    BY <1>1, <1>4
<1>6. B[17] = 131072 /\ B[18] = 262144 /\ B[19] = 524288 /\ B[20] = 1048576
    BY <1>1, <1>5
<1>7. B[21] = 2097152 /\ B[22] = 4194304 /\ B[23] = 8388608 /\ B[24] = 16777216
    BY <1>1, <1>6
<1>8. B[25] = 33554432 /\ B[26] = 67108864 /\ B[27] = 134217728 /\ B[28] = 268435456
    BY <1>1, <1>7
<1>9. B[29] = 536870912 /\ B[30] = 1073741824 /\ B[31] = 2147483648
    BY <1>1, <1>8
<1> QED
    BY <1>9 DEF B

(* So do the numbers read here, and the next.                                 *)
LEMMA NumbersFit ==
    MaxNumber \in Nat /\ AnnexB!Bit[31] \in Nat /\ MaxNumber + 1 < AnnexB!Bit[31]
    BY LargestBit, SMT DEF MaxNumber

\* The value of the first i of the bits from p on.
Values(bits, p, n, r) ==
    r[0] = 0 /\ \A i \in 1..n : r[i] = 2 * r[i - 1] + bits[p + i - 1]

(* ReadU goes bit by bit.                                                     *)
LEMMA ReadUValues ==
    ASSUME NEW n \in Nat, NEW p \in Nat, NEW bits, \A i \in 1..n : bits[p + i - 1] \in Nat
    PROVE  \E r : Values(bits, p, n, r) /\ AnnexB!ReadU(bits, p, n) = r[n]
<1> DEFINE next == [i \in 1..n |-> [x \in Nat |-> 2 * x + bits[p + i - 1]]]
           Is(f) == f = [i \in 0..n |-> IF i = 0 THEN 0 ELSE 2 * f[i - 1] + bits[p + i - 1]]
           value == CHOOSE f : Is(f)
<1>1. next \in [1..n -> [Nat -> Nat]]
    <2>1. ASSUME NEW i \in 1..n, NEW x \in Nat PROVE 2 * x + bits[p + i - 1] \in Nat
        <3>1. bits[p + i - 1] \in Nat
            OBVIOUS
        <3> QED
            BY <3>1
    <2> QED
        BY <2>1
<1>2. \A i \in 1..n : \A x \in Nat : next[i][x] = 2 * x + bits[p + i - 1]
    OBVIOUS
<1>3. PICK f : /\ f \in [0..n -> Nat] /\ f[0] = 0
               /\ \A k \in 1..n : f[k] = next[k][f[k - 1]]
    <2>1. \E f : Follows(n, Nat, 0, next, f)
        <3>1. 0 \in Nat
            OBVIOUS
        <3> HIDE DEF next
        <3> QED
            BY <1>1, <3>1, Recursion
    <2> QED
        BY <2>1 DEF Follows
<1>4. Is(f)
    <2>1. ASSUME NEW i \in 0..n
          PROVE  f[i] = IF i = 0 THEN 0 ELSE 2 * f[i - 1] + bits[p + i - 1]
        <3>1. CASE i = 0
            BY <1>3, <3>1
        <3>2. CASE i # 0
            <4>1. i \in 1..n /\ i - 1 \in 0..n
                BY <3>2
            <4>2. f[i - 1] \in Nat
                BY <1>3, <4>1
            <4> HIDE DEF next
            <4> QED
                BY <1>2, <1>3, <3>2, <4>1, <4>2
        <3> QED
            BY <3>1, <3>2
    <2> QED
        BY <1>3, <2>1
<1>5. Is(value)
    <2> HIDE DEF Is
    <2> QED
        BY <1>4
<1>6. AnnexB!ReadU(bits, p, n) = value[n]
    BY Zenon DEF AnnexB!ReadU
<1>7. Values(bits, p, n, value)
    <2> HIDE DEF value
    <2>1. 0 \in 0..n /\ value[0] = 0
        BY <1>5
    <2>2. ASSUME NEW i \in 1..n PROVE value[i] = 2 * value[i - 1] + bits[p + i - 1]
        <3>1. i \in 0..n /\ i # 0
            OBVIOUS
        <3> QED
            BY <1>5, <3>1
    <2> QED
        BY <2>1, <2>2 DEF Values
<1> QED
    BY <1>6, <1>7

(* A quotient is determined by any decomposition.                             *)
LEMMA QuotientUnique ==
    ASSUME NEW d \in Nat \ {0}, NEW x \in Nat, NEW y \in Nat,
           NEW r \in 0..(d - 1), NEW s \in 0..(d - 1), d * x + r = d * y + s
    PROVE  x = y
<1>1. ASSUME NEW a \in Nat, NEW b \in Nat, a < b
      PROVE  d * b >= d * a + d
    <2>1. PICK c \in Nat : b = a + 1 + c
        <3>1. b - a - 1 \in Nat /\ b = a + 1 + (b - a - 1)
            BY <1>1
        <3> QED
            BY <3>1
    <2>2. d * b = d * a + d + d * c
        BY <2>1
    <2>3. d * c \in Nat /\ d * a \in Nat
        OBVIOUS
    <2> QED
        BY <2>2, <2>3
<1>2. d * x \in Nat /\ d * y \in Nat
    OBVIOUS
<1>3. CASE x < y
    BY <1>1, <1>2, <1>3
<1>4. CASE y < x
    BY <1>1, <1>2, <1>4
<1> QED
    BY <1>3, <1>4

(* To divide by twice as much is to halve the quotient.                       *)
LEMMA Halves ==
    ASSUME NEW x \in Nat, NEW d \in Nat \ {0}
    PROVE  x \div (2 * d) \in Nat /\ x \div d = 2 * (x \div (2 * d)) + ((x \div d) % 2)
<1> DEFINE q == x \div d
           r == x % d
           k == x \div (2 * d)
           s == x % (2 * d)
<1>1. q \in Nat /\ r \in 0..(d - 1) /\ x = d * q + r
    OBVIOUS
<1>2. 2 * d \in Nat \ {0}
    OBVIOUS
<1>3. k \in Nat /\ s \in 0..(2 * d - 1) /\ x = (2 * d) * k + s
    <2> DEFINE e == 2 * d
    <2> HIDE DEF e
    <2>1. e \in Nat \ {0}
        BY <1>2 DEF e
    <2>2. x \div e \in Nat /\ x % e \in 0..(e - 1) /\ x = e * (x \div e) + (x % e)
        BY <2>1
    <2> QED
        BY <2>2 DEF e
<1> HIDE DEF q, r, k, s
<1>4. (2 * d) * k = d * (2 * k)
    BY <1>3
<1>5. CASE s < d
    <2>1. d * q + r = d * (2 * k) + s
        BY <1>1, <1>3, <1>4
    <2>2. q = 2 * k
        BY <1>1, <1>3, <1>5, <2>1, QuotientUnique
    <2>3. q % 2 = 0
        BY <1>3, <2>2
    <2> QED
        BY <1>3, <2>2, <2>3 DEF q, k
<1>6. CASE ~(s < d)
    <2>1. s - d \in 0..(d - 1)
        BY <1>3, <1>6
    <2>2. d * (2 * k) + d = d * (2 * k + 1)
        BY <1>3
    <2>3. d * q + r = d * (2 * k + 1) + (s - d)
        <3>1. d * (2 * k) \in Nat /\ d * (2 * k + 1) \in Nat /\ d * q \in Nat
            BY <1>1, <1>3
        <3> QED
            BY <1>1, <1>3, <1>4, <2>2, <3>1
    <2>4. q = 2 * k + 1
        BY <1>1, <1>3, <2>1, <2>3, QuotientUnique
    <2>5. q % 2 = 1
        BY <1>3, <2>4
    <2> QED
        BY <1>3, <2>4, <2>5 DEF q, k
<1> QED
    BY <1>5, <1>6

(* A number has a highest bit, and its code is the zeros, then its bits.      *)
LEMMA GolombIs ==
    ASSUME NEW v \in 0..MaxNumber
    PROVE  \E n \in 0..30 :
               /\ AnnexB!Bit[n] <= v + 1 /\ v + 1 < AnnexB!Bit[n + 1]
               /\ AnnexB!Golomb(v)
                    = [i \in 1..(2 * n + 1) |->
                          IF i <= n THEN 0 ELSE ((v + 1) \div AnnexB!Bit[2 * n + 1 - i]) % 2]
<1> DEFINE Highest(k) == AnnexB!Bit[k] <= v + 1 /\ v + 1 < AnnexB!Bit[k + 1]
           n == CHOOSE k \in 0..30 : Highest(k)
           S == {k \in 0..30 : v + 1 < AnnexB!Bit[k + 1]}
<1>1. PICK m \in S : \A k \in S : m <= k
    <2>1. 30 + 1 = 31 /\ v + 1 < AnnexB!Bit[31]
        BY NumbersFit
    <2>2. S \subseteq 0..30 /\ 30 \in S /\ 30 \in Nat
        BY <2>1
    <2> HIDE DEF S
    <2> QED
        BY <2>2, LeastNumber
<1>2. m \in 0..30 /\ v + 1 < AnnexB!Bit[m + 1]
    OBVIOUS
<1>3. AnnexB!Bit[m] <= v + 1
    <2>1. CASE m = 0
        BY <2>1, Doubling
    <2>2. CASE m # 0
        <3>1. m - 1 \in 0..30 /\ (m - 1) + 1 = m /\ ~(m <= m - 1)
            BY <1>2, <2>2
        <3>2. ~(v + 1 < AnnexB!Bit[m])
            BY <1>1, <3>1
        <3>3. AnnexB!Bit[m] \in Nat
            BY <1>2, BitsPositive
        <3> QED
            BY <3>2, <3>3
    <2> QED
        BY <2>1, <2>2
<1>4. n \in 0..30 /\ Highest(n)
    <2>1. \E k \in 0..30 : Highest(k)
        BY <1>2, <1>3
    <2> HIDE DEF Highest
    <2> QED
        BY <2>1
<1>5. AnnexB!Golomb(v)
          = [i \in 1..(2 * n + 1) |->
                IF i <= n THEN 0 ELSE ((v + 1) \div AnnexB!Bit[2 * n + 1 - i]) % 2]
    BY Zenon DEF AnnexB!Golomb
<1> HIDE DEF n
<1> QED
    BY <1>4, <1>5

\* The code g of v, with n zeros.
Code(v, n, g) ==
    /\ g \in Seq(Nat) /\ Len(g) = 2 * n + 1
    /\ \A i \in 1..n : g[i] = 0
    /\ g[n + 1] = 1
    /\ \A j \in 1..n : g[n + 1 + j] = ((v + 1) \div AnnexB!Bit[n - j]) % 2

(* The same bit by bit: the zeros, a one, then each bit is a quotient's last. *)
LEMMA GolombCode ==
    ASSUME NEW v \in 0..MaxNumber
    PROVE  \E n \in 0..30 :
               /\ (v + 1) \div AnnexB!Bit[n] = 1
               /\ Code(v, n, AnnexB!Golomb(v))
<1> DEFINE g == AnnexB!Golomb(v)
           B == AnnexB!Bit
<1>1. PICK n \in 0..30 :
          /\ B[n] <= v + 1 /\ v + 1 < B[n + 1]
          /\ g = [i \in 1..(2 * n + 1) |->
                     IF i <= n THEN 0 ELSE ((v + 1) \div B[2 * n + 1 - i]) % 2]
    BY GolombIs
<1> HIDE DEF g
<1>2. v + 1 \in Nat /\ \A k \in 0..31 : B[k] \in Nat \ {0}
    BY BitsPositive
<1>3. (v + 1) \div B[n] = 1
    <2>1. n \in 0..31 /\ n + 1 \in 1..31 /\ (n + 1) - 1 = n
        OBVIOUS
    <2>2. B[n + 1] = 2 * B[n] /\ B[n] \in Nat \ {0}
        BY <1>2, <2>1, Doubling
    <2> DEFINE d == B[n]
               q == (v + 1) \div d
               r == (v + 1) % d
    <2> HIDE DEF d
    <2>3. d \in Nat \ {0} /\ d <= v + 1 /\ v + 1 < 2 * d
        BY <1>1, <2>2 DEF d
    <2>4. q \in Nat /\ r \in 0..(d - 1) /\ v + 1 = d * q + r
        BY <1>2, <2>3
    <2> HIDE DEF q, r
    <2>5. v + 1 - d \in 0..(d - 1) /\ d * q + r = d * 1 + (v + 1 - d)
        BY <2>3, <2>4
    <2>6. q = 1
        BY <2>3, <2>4, <2>5, QuotientUnique
    <2> QED
        BY <2>6 DEF q, d
<1>4. \A i \in 1..(2 * n + 1) :
          g[i] = IF i <= n THEN 0 ELSE ((v + 1) \div B[2 * n + 1 - i]) % 2
    BY <1>1
<1>5. g \in Seq(Nat) /\ Len(g) = 2 * n + 1
    <2>1. ASSUME NEW i \in 1..(2 * n + 1)
          PROVE  (IF i <= n THEN 0 ELSE ((v + 1) \div B[2 * n + 1 - i]) % 2) \in Nat
        <3>1. CASE i <= n
            BY <3>1
        <3>2. CASE ~(i <= n)
            <4>1. 2 * n + 1 - i \in 0..31
                BY <3>2
            <4>2. (v + 1) \div B[2 * n + 1 - i] \in Nat
                <5> DEFINE d == B[2 * n + 1 - i]
                <5>1. d \in Nat \ {0}
                    BY <1>2, <4>1
                <5> HIDE DEF d
                <5>2. (v + 1) \div d \in Nat
                    BY <1>2, <5>1
                <5> QED
                    BY <5>2 DEF d
            <4> QED
                BY <3>2, <4>2
        <3> QED
            BY <3>1, <3>2
    <2>2. g \in [1..(2 * n + 1) -> Nat]
        BY <1>1, <2>1
    <2>3. 2 * n + 1 \in Nat
        OBVIOUS
    <2>4. g \in Seq(Nat)
        BY <2>2, <2>3, SeqDef
    <2> QED
        BY <2>2, <2>3, <2>4, LenProperties
<1>6. \A i \in 1..n : g[i] = 0
    <2>1. \A i \in 1..n : i \in 1..(2 * n + 1) /\ i <= n
        OBVIOUS
    <2> QED
        BY <1>4, <2>1
<1>7. g[n + 1] = 1
    <2>1. n + 1 \in 1..(2 * n + 1) /\ ~(n + 1 <= n) /\ 2 * n + 1 - (n + 1) = n
        OBVIOUS
    <2>2. g[n + 1] = ((v + 1) \div B[n]) % 2
        BY <1>4, <2>1
    <2> QED
        BY <1>3, <2>2
<1>8. ASSUME NEW j \in 1..n PROVE g[n + 1 + j] = ((v + 1) \div B[n - j]) % 2
    <2>1. n + 1 + j \in 1..(2 * n + 1) /\ ~(n + 1 + j <= n) /\ 2 * n + 1 - (n + 1 + j) = n - j
        OBVIOUS
    <2> QED
        BY <1>4, <2>1
<1> QED
    BY <1>3, <1>5, <1>6, <1>7, <1>8 DEF Code, g

\* The code g lies in bits from p on.
LiesAt(g, bits, p) ==
    /\ p \in Nat \ {0} /\ p + Len(g) - 1 <= Len(bits)
    /\ \A i \in 1..Len(g) : bits[p + i - 1] = g[i]

(* Behind the one, ReadU finds the number without its highest bit: what is    *)
(* read so far and the highest bit are the first bits of the number.          *)
LEMMA RestIsRead ==
    ASSUME NEW v \in 0..MaxNumber, NEW n \in 0..30, (v + 1) \div AnnexB!Bit[n] = 1,
           NEW p \in Nat, NEW bits,
           \A j \in 1..n : bits[p + j - 1] = ((v + 1) \div AnnexB!Bit[n - j]) % 2
    PROVE  AnnexB!ReadU(bits, p, n) + AnnexB!Bit[n] - 1 = v
<1> DEFINE B == AnnexB!Bit
           Q(j) == (v + 1) \div B[n - j]
<1>1. v + 1 \in Nat /\ \A k \in 0..31 : B[k] \in Nat \ {0}
    BY BitsPositive
<1>2. ASSUME NEW j \in 0..n PROVE Q(j) \in Nat
    <2> DEFINE d == B[n - j]
    <2>1. n - j \in 0..31
        OBVIOUS
    <2>2. d \in Nat \ {0}
        BY <1>1, <2>1
    <2> HIDE DEF d
    <2>3. (v + 1) \div d \in Nat
        BY <1>1, <2>2
    <2> QED
        BY <2>3 DEF d
<1>3. ASSUME NEW j \in 1..n PROVE Q(j) = 2 * Q(j - 1) + (Q(j) % 2)
    <2>1. n - j \in 0..31 /\ n - j + 1 \in 1..31 /\ (n - j + 1) - 1 = n - j /\ n - (j - 1) = n - j + 1
        OBVIOUS
    <2>2. B[n - (j - 1)] = 2 * B[n - j]
        BY <2>1, Doubling
    <2>3. B[n - j] \in Nat \ {0}
        BY <1>1, <2>1
    <2> DEFINE d == B[n - j]
    <2> HIDE DEF d
    <2>4. d \in Nat \ {0}
        BY <2>3 DEF d
    <2>5. (v + 1) \div d = 2 * ((v + 1) \div (2 * d)) + (((v + 1) \div d) % 2)
        BY <1>1, <2>4, Halves
    <2> QED
        BY <2>2, <2>5 DEF d
<1>4. ASSUME NEW j \in 1..n PROVE bits[p + j - 1] = Q(j) % 2 /\ bits[p + j - 1] \in Nat
    <2>1. bits[p + j - 1] = Q(j) % 2
        OBVIOUS
    <2>2. Q(j) \in Nat
        BY <1>2
    <2> HIDE DEF Q
    <2> QED
        BY <2>1, <2>2
<1>5. PICK r : Values(bits, p, n, r) /\ AnnexB!ReadU(bits, p, n) = r[n]
    <2>1. n \in Nat
        OBVIOUS
    <2> HIDE DEF Q
    <2> QED
        BY <1>4, <2>1, ReadUValues
<1> DEFINE S == {j \in 0..n : r[j] \in Nat /\ Q(j) = B[j] + r[j]}
<1>6. 0 \in S
    <2>1. r[0] = 0 /\ B[0] = 1
        BY <1>5, Doubling DEF Values
    <2>2. Q(0) = 1 /\ 0 \in 0..n
        <3>1. n - 0 = n
            OBVIOUS
        <3> QED
            BY <3>1
    <2> HIDE DEF Q, B
    <2> QED
        BY <2>1, <2>2
<1>7. ASSUME NEW k \in 0..(n - 1), k \in S PROVE k + 1 \in S
    <2>1. k + 1 \in 1..n /\ k + 1 \in 0..n /\ (k + 1) - 1 = k /\ k + 1 \in 1..31
          /\ p + (k + 1) - 1 = p + k
        OBVIOUS
    <2>2. r[k] \in Nat /\ Q(k) = B[k] + r[k]
        BY <1>7
    <2>3. B[k + 1] = 2 * B[k]
        BY <2>1, Doubling
    <2> HIDE DEF Q, B
    <2>4. r[k + 1] = 2 * r[k] + bits[p + (k + 1) - 1]
        BY <1>5, <2>1 DEF Values
    <2>5. bits[p + (k + 1) - 1] = Q(k + 1) % 2 /\ bits[p + (k + 1) - 1] \in Nat
        BY <1>4, <2>1
    <2>6. Q(k + 1) = 2 * Q(k) + (Q(k + 1) % 2)
        BY <1>3, <2>1
    <2>7. B[k] \in Nat
        <3>1. k \in 0..31
            OBVIOUS
        <3> QED
            BY <1>1, <3>1
    <2>8. r[k + 1] \in Nat
        BY <2>2, <2>4, <2>5
    <2>9. Q(k + 1) = B[k + 1] + r[k + 1]
        <3> DEFINE b == bits[p + (k + 1) - 1]
        <3>1. b \in Nat /\ Q(k + 1) = 2 * Q(k) + b /\ r[k + 1] = 2 * r[k] + b
            BY <2>4, <2>5, <2>6
        <3> HIDE DEF b
        <3> QED
            BY <2>2, <2>3, <2>7, <3>1
    <2> QED
        BY <2>1, <2>8, <2>9
<1>8. n \in S
    <2>1. n \in Nat /\ n \in 0..n
        OBVIOUS
    <2>2. \A k \in 0..n : k \in S
        <3> HIDE DEF S
        <3> QED
            BY <1>6, <1>7, <2>1, CountingUp
    <2> QED
        BY <2>1, <2>2
<1>9. Q(n) = v + 1
    <2>1. n - n = 0 /\ B[0] = 1
        BY Doubling
    <2> QED
        BY <1>1, <2>1
<1>10. r[n] \in Nat /\ Q(n) = B[n] + r[n]
    BY <1>8
<1>11. B[n] \in Nat
    <2>1. n \in 0..31
        OBVIOUS
    <2> QED
        BY <1>1, <2>1
<1> HIDE DEF Q
<1> QED
    BY <1>5, <1>9, <1>10, <1>11

(* A code is read as its number, whatever stands around it.                   *)
LEMMA CodeIsRead ==
    ASSUME NEW v \in 0..MaxNumber, NEW bits \in Seq(Nat), NEW p,
           LiesAt(AnnexB!Golomb(v), bits, p)
    PROVE  AnnexB!ReadUE(bits, p) = v
<1> DEFINE g == AnnexB!Golomb(v)
           First(i) == bits[i] = 1 /\ \A j \in p..(i - 1) : bits[j] = 0
           one == CHOOSE i \in p..Len(bits) : First(i)
<1>1. PICK n \in 0..30 : (v + 1) \div AnnexB!Bit[n] = 1 /\ Code(v, n, g)
    BY GolombCode
<1> HIDE DEF g
<1>2. /\ p \in Nat \ {0} /\ p + (2 * n + 1) - 1 <= Len(bits) /\ Len(bits) \in Nat
      /\ \A i \in 1..(2 * n + 1) : bits[p + i - 1] = g[i]
    BY <1>1, LenProperties DEF LiesAt, Code, g
<1>3. p + n \in p..Len(bits) /\ First(p + n)
    <2>1. p + n \in p..Len(bits) /\ n + 1 \in 1..(2 * n + 1) /\ p + (n + 1) - 1 = p + n
        BY <1>2
    <2>2. bits[p + n] = 1
        BY <1>1, <1>2, <2>1 DEF Code
    <2>3. ASSUME NEW j \in p..((p + n) - 1) PROVE bits[j] = 0
        <3>1. j - p + 1 \in 1..n /\ j - p + 1 \in 1..(2 * n + 1) /\ p + (j - p + 1) - 1 = j
            BY <1>2
        <3>2. g[j - p + 1] = 0
            BY <1>1, <3>1 DEF Code
        <3> QED
            BY <1>2, <3>1, <3>2
    <2> QED
        BY <2>1, <2>2, <2>3
<1>4. one = p + n
    <2>1. one \in p..Len(bits) /\ First(one)
        <3> HIDE DEF First
        <3> QED
            BY <1>3
    <2> HIDE DEF one
    <2>2. ~(one < p + n)
        <3> SUFFICES ASSUME one < p + n PROVE FALSE
            OBVIOUS
        <3>1. one \in p..((p + n) - 1)
            BY <1>2, <2>1
        <3> QED
            BY <1>3, <2>1, <3>1
    <2>3. ~(p + n < one)
        <3> SUFFICES ASSUME p + n < one PROVE FALSE
            OBVIOUS
        <3>1. p + n \in p..(one - 1)
            BY <1>2, <2>1
        <3> QED
            BY <1>3, <2>1, <3>1
    <2> QED
        BY <1>2, <2>1, <2>2, <2>3
<1>5. AnnexB!ReadUE(bits, p)
          = IF one - p >= 32 THEN -1
            ELSE AnnexB!ReadU(bits, one + 1, one - p) + AnnexB!Bit[one - p] - 1
    BY Zenon DEF AnnexB!ReadUE
<1> HIDE DEF one
<1>6. one - p = n /\ one + 1 = p + n + 1 /\ ~(n >= 32)
    BY <1>2, <1>4
<1>7. AnnexB!ReadUE(bits, p) = AnnexB!ReadU(bits, p + n + 1, n) + AnnexB!Bit[n] - 1
    BY <1>5, <1>6
<1>8. ASSUME NEW j \in 1..n
      PROVE  bits[(p + n + 1) + j - 1] = ((v + 1) \div AnnexB!Bit[n - j]) % 2
    <2>1. n + 1 + j \in 1..(2 * n + 1) /\ p + (n + 1 + j) - 1 = (p + n + 1) + j - 1
        BY <1>2
    <2>2. bits[p + (n + 1 + j) - 1] = g[n + 1 + j]
        BY <1>2, <2>1
    <2>3. g[n + 1 + j] = ((v + 1) \div AnnexB!Bit[n - j]) % 2
        BY <1>1 DEF Code
    <2> QED
        BY <2>1, <2>2, <2>3
<1>9. p + n + 1 \in Nat
    BY <1>2
<1>10. AnnexB!ReadU(bits, p + n + 1, n) + AnnexB!Bit[n] - 1 = v
    BY <1>1, <1>8, <1>9, RestIsRead
<1> QED
    BY <1>7, <1>10

(* A code is a sequence of bits, at least one.                                *)
LEMMA GolombBits ==
    ASSUME NEW v \in 0..MaxNumber
    PROVE  AnnexB!Golomb(v) \in Seq(Nat) /\ Len(AnnexB!Golomb(v)) \in Nat \ {0}
<1>1. PICK n \in 0..30 : Code(v, n, AnnexB!Golomb(v))
    BY GolombCode
<1> QED
    BY <1>1 DEF Code

(* Two codes behind a bit that is neither's.                                  *)
TwoCodes(v, w) == <<1>> \o AnnexB!Golomb(v) \o AnnexB!Golomb(w)

(* Every number is read back, and the next one behind it.                     *)
LEMMA NumbersBack == AnnexB!NumbersReadBack(0..MaxNumber)
<1> SUFFICES ASSUME NEW v \in 0..MaxNumber, NEW w \in 0..MaxNumber,
                    NEW bits, bits = TwoCodes(v, w)
             PROVE  /\ AnnexB!ReadUE(bits, 2) = v
                    /\ AnnexB!ReadUE(bits, 2 + Len(AnnexB!Golomb(v))) = w
                    /\ LET s == AnnexB!ReadSE(bits, 2) IN v = IF s > 0 THEN 2 * s - 1 ELSE -2 * s
    BY Zenon DEF AnnexB!NumbersReadBack, TwoCodes
<1> DEFINE g == AnnexB!Golomb(v)
           h == AnnexB!Golomb(w)
           u == <<1>>
<1>1. /\ u \in Seq(Nat) /\ Len(u) = 1
      /\ g \in Seq(Nat) /\ Len(g) \in Nat \ {0} /\ h \in Seq(Nat) /\ Len(h) \in Nat \ {0}
    BY GolombBits
<1>2. bits = (u \o g) \o h
    BY DEF TwoCodes
<1> HIDE DEF g, h, u
<1>3. /\ u \o g \in Seq(Nat) /\ Len(u \o g) = Len(u) + Len(g)
      /\ \A i \in 1..(Len(u) + Len(g)) : (u \o g)[i] = IF i <= Len(u) THEN u[i] ELSE g[i - Len(u)]
    BY <1>1, ConcatProperties
<1>4. /\ bits \in Seq(Nat) /\ Len(bits) = Len(u \o g) + Len(h)
      /\ \A i \in 1..(Len(u \o g) + Len(h)) :
             bits[i] = IF i <= Len(u \o g) THEN (u \o g)[i] ELSE h[i - Len(u \o g)]
    <2> DEFINE a == u \o g
    <2> HIDE DEF a
    <2>1. a \in Seq(Nat) /\ bits = a \o h
        BY <1>2, <1>3 DEF a
    <2>2. /\ a \o h \in Seq(Nat) /\ Len(a \o h) = Len(a) + Len(h)
          /\ \A i \in 1..(Len(a) + Len(h)) :
                 (a \o h)[i] = IF i <= Len(a) THEN a[i] ELSE h[i - Len(a)]
        BY <1>1, <2>1, ConcatProperties
    <2> QED
        BY <2>1, <2>2 DEF a
<1>5. LiesAt(g, bits, 2)
    <2>1. ASSUME NEW i \in 1..Len(g) PROVE bits[2 + i - 1] = g[i]
        <3>1. /\ 2 + i - 1 \in 1..(Len(u \o g) + Len(h)) /\ 2 + i - 1 <= Len(u \o g)
              /\ 2 + i - 1 \in 1..(Len(u) + Len(g)) /\ ~(2 + i - 1 <= Len(u)) /\ (2 + i - 1) - Len(u) = i
            BY <1>1, <1>3
        <3>2. bits[2 + i - 1] = (u \o g)[2 + i - 1]
            BY <1>4, <3>1
        <3>3. (u \o g)[2 + i - 1] = g[i]
            BY <1>3, <3>1
        <3> QED
            BY <3>2, <3>3
    <2>2. 2 + Len(g) - 1 <= Len(bits)
        BY <1>1, <1>3, <1>4
    <2> QED
        BY <2>1, <2>2 DEF LiesAt
<1>6. LiesAt(h, bits, 2 + Len(g))
    <2>1. ASSUME NEW i \in 1..Len(h) PROVE bits[(2 + Len(g)) + i - 1] = h[i]
        <3>1. /\ (2 + Len(g)) + i - 1 \in 1..(Len(u \o g) + Len(h))
              /\ ~((2 + Len(g)) + i - 1 <= Len(u \o g))
              /\ ((2 + Len(g)) + i - 1) - Len(u \o g) = i
            BY <1>1, <1>3
        <3> QED
            BY <1>4, <3>1
    <2>2. (2 + Len(g)) + Len(h) - 1 <= Len(bits) /\ 2 + Len(g) \in Nat \ {0}
        BY <1>1, <1>3, <1>4
    <2> QED
        BY <2>1, <2>2 DEF LiesAt
<1>7. AnnexB!ReadUE(bits, 2) = v
    BY <1>4, <1>5, CodeIsRead DEF g
<1>8. AnnexB!ReadUE(bits, 2 + Len(g)) = w
    BY <1>4, <1>6, CodeIsRead DEF h
<1>9. AnnexB!ReadSE(bits, 2) = IF v % 2 = 1 THEN (v + 1) \div 2 ELSE -(v \div 2)
    BY <1>7, Zenon DEF AnnexB!ReadSE
<1>10. v \in Nat
    OBVIOUS
<1> HIDE DEF g
<1>11. ASSUME NEW s, s = AnnexB!ReadSE(bits, 2) PROVE v = IF s > 0 THEN 2 * s - 1 ELSE -2 * s
    <2>1. CASE v % 2 = 1
        <3>1. s = (v + 1) \div 2
            BY <1>9, <1>11, <2>1
        <3>2. 2 * s = v + 1 /\ s \in Nat
            <4>1. PICK k \in Nat : v = 2 * k + 1
                <5>1. v \div 2 \in Nat /\ v = 2 * (v \div 2) + 1
                    BY <1>10, <2>1
                <5> QED
                    BY <5>1
            <4>2. (v + 1) \div 2 = k + 1
                BY <4>1
            <4> QED
                BY <3>1, <4>1, <4>2
        <3> QED
            BY <1>10, <3>2
    <2>2. CASE v % 2 # 1
        <3>1. s = -(v \div 2)
            BY <1>9, <1>11, <2>2
        <3> DEFINE q == v \div 2
        <3>2. 2 * q = v /\ q \in Nat
            BY <1>10, <2>2
        <3> HIDE DEF q
        <3>3. s = -q
            BY <3>1 DEF q
        <3> QED
            BY <1>10, <3>2, <3>3
    <2> QED
        BY <2>1, <2>2
<1> QED
    BY <1>7, <1>8, <1>11 DEF g

(* For every payload, whatever bytes it holds, and every pair of numbers of   *)
(* up to 31 bits, signed and unsigned: what EBSP and BitStream read is what   *)
(* was written.                                                               *)
THEOREM ReadsBack == AnnexB!PayloadReadsBack(Seq(Nat), 0..MaxNumber)
    BY BytesBack, NumbersBack DEF AnnexB!PayloadReadsBack

(* PayloadReadsBack of the nal_reader run, for any payloads and numbers.      *)
THEOREM PayloadsBack == MCSpec => []PayloadReadsBack
<1>1. AnnexB!BytesReadBack(Payloads)
    <2>1. \A p \in Seq(Nat) : AnnexB!GetRBSP(AnnexB!Escape(p)) = p
        BY BytesBack DEF AnnexB!BytesReadBack
    <2> QED
        BY <2>1, PayloadAssumption DEF AnnexB!BytesReadBack
<1>2. AnnexB!NumbersReadBack(Numbers)
    <2>1. \A v \in Numbers : v \in 0..MaxNumber
        BY PayloadAssumption
    <2> QED
        BY <2>1, NumbersBack, Zenon DEF AnnexB!NumbersReadBack
<1>3. PayloadReadsBack
    BY <1>1, <1>2 DEF PayloadReadsBack, AnnexB!PayloadReadsBack
<1> QED
    BY <1>3, PTL
=============================================================================
