------------------------------- MODULE MCTools -------------------------------
(* The tools that copy packets, Remux, and those that encode or decode,       *)
(* Transcode.  Which of them runs is chosen at the start.                     *)
EXTENDS MCRemux

CONSTANTS Sources, Delays, Frames, MaxErrors

ASSUME CodingAssumption ==
    /\ \A s \in Sources : s \in Seq([stream : Nat, frames : Nat])
    /\ Delays \subseteq Nat /\ Frames \in Nat /\ MaxErrors \in Nat

VARIABLES coding, coder, source, delay, pc, n, taken, dec, enc, emptying, buf, content,
          pos, coded, failures, broken

codecVars == <<coder, source, delay, pc, n, taken, dec, enc, emptying, buf, content, pos,
               coded, failures, broken>>

Codec == INSTANCE Transcode WITH tool <- coder, out <- coded, MaxFailures <- MaxErrors

\* Stream 0 is sound.
AllPackets == {[stream |-> s, frames |-> k] : s \in 1..2, k \in 0..2}
                  \cup {[stream |-> 0, frames |-> 1]}

\* All short files, and longer ones of one stream.
AllSources ==
    UNION {[1..k -> AllPackets] : k \in 0..2}
    \cup [1..3 -> {[stream |-> 1, frames |-> 1], [stream |-> 1, frames |-> 2]}]
    \cup {[i \in 1..4 |-> [stream |-> 1, frames |-> 1]]}

MCInit ==
    /\ \/ coding = TRUE /\ tool = "remuxing" /\ files = <<Closed>>
       \/ coding = FALSE /\ coder = Codec!audioEncoder /\ delay = 0 /\ source = <<>>
    /\ Init /\ Codec!Init

CopyingTool == ~coding /\ Next /\ UNCHANGED <<coding, codecVars>>

CodingTool == coding /\ Codec!Next /\ UNCHANGED <<coding, vars>>

MCSpec ==
    /\ MCInit
    /\ [][CopyingTool \/ CodingTool]_<<coding, vars, codecVars>>
    /\ WF_<<vars, codecVars>>(CodingTool)

-----------------------------------------------------------------------------
(* Properties: those of MCRemux, and those of Transcode when one of its tools *)
(* runs                                                                       *)

(* NothingHeldBack of Transcode.                                              *)
NothingHeldBack == Codec!NothingHeldBack

(* EncodedAsMade of Transcode.                                                *)
EncodedAsMade == Codec!EncodedAsMade

(* ToolsEnd of Transcode.                                                     *)
ToolsEnd == coding => Codec!ToolsEnd
=============================================================================
