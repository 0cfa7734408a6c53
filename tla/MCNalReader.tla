----------------------------- MODULE MCNalReader -----------------------------
(* The two readers of H.264 files, RTSPSource and AnnexBReader, on the same   *)
(* files: every one up to a length, and a telling family.  Which reader runs  *)
(* is chosen at the start.                                                    *)
EXTENDS NalReader

Upto(n) == UNION {[1..k -> Byte] : k \in 0..n}

\* Every file of at most eight bytes.
ShortFiles == Upto(8)

\* The same after a start code of four bytes, so that longer regular files occur.
OpenedFiles == {<<0, 0, 0, 1>> \o f : f \in Upto(6)}

AllFiles == ShortFiles \cup OpenedFiles

CONSTANTS
    Block,
    Payloads,       \* what a unit may hold
    Numbers         \* what may be written in Exp-Golomb

ASSUME BlockAssumption == Block \in Nat \ {0}

\* The largest number whose code has 30 zeros: with 31, 1 << zero_cnt leaves an int.
MaxNumber == 2147483646

ASSUME PayloadAssumption ==
    /\ Payloads \subseteq Seq(Nat)
    /\ Numbers \subseteq 0..MaxNumber

VARIABLES reader, at, rest, step, nalu, returned, ends

annexb == <<at, rest, step, nalu, returned, ends>>

AnnexB == INSTANCE AnnexBReader WITH file <- buffer, buffer <- rest

MCInit ==
    /\ Init
    /\ AnnexB!Start
    /\ reader \in {"RTSPSource", "AnnexBReader"}

\* The calls of copy_nal_from_file and Reset.
ReadFromMemory ==
    /\ reader = "RTSPSource"
    /\ Next
    /\ UNCHANGED <<reader, annexb>>

\* The loop of h264_decoder_main.
ReadInBlocks ==
    /\ reader = "AnnexBReader"
    /\ AnnexB!Read
    /\ UNCHANGED <<reader, buffer_pos, pc, flag, buf, seen, unit_start, units>>

MCNext == ReadFromMemory \/ ReadInBlocks

MCSpec == MCInit /\ [][MCNext]_<<vars, annexb, reader>>

-----------------------------------------------------------------------------
(* Properties: those of NalReader, and                                        *)

(* CutAtStartCodes of AnnexBReader: blocks leave no trace in the units.       *)
CutAtStartCodes == AnnexB!CutAtStartCodes

\* Payloads of up to six bytes that do not end in a zero.
MCPayloads == {p \in UNION {[1..k -> {0, 1, 3, 4}] : k \in 1..6} : p[Len(p)] # 0}

\* Numbers of up to six bits.
MCNumbers == 0..62

(* PayloadReadsBack of AnnexBReader.  It does not depend on the file and is   *)
(* evaluated with the empty one.                                              *)
PayloadReadsBack == buffer = <<>> => AnnexB!PayloadReadsBack(Payloads, Numbers)
=============================================================================
