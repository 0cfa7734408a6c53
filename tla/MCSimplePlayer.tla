---------------------------- MODULE MCSimplePlayer ---------------------------
(* The players without threads of their own: the two that decode, and the two *)
(* of raw files.  Which of them runs is chosen at the start.                  *)
EXTENDS SimplePlayer

AllFiles == UNION {[1..n -> {"video", "audio", "other"}] : n \in 0..3}
              \cup {<<"audio">> \o f : f \in [1..3 -> {"video", "audio"}]}

CONSTANTS MaxBlocks, MaxEvents

ASSUME FileAssumption == {MaxBlocks, MaxEvents} \subseteq Nat

VARIABLES raw, program, blocks, rest, loop, pending, isWorking, ticker, device, lost, clicks

rawVars == <<program, blocks, rest, loop, pending, isWorking, ticker, device, lost, clicks>>

Raw == INSTANCE FilePlayer

MCInit ==
    /\ Init /\ Raw!Init
    /\ raw \in BOOLEAN
    /\ raw => player = "simple_player" /\ file = <<>> /\ event = "other"
    /\ ~raw => program = "pcm" /\ blocks = 0 /\ rest = FALSE

DecodingPlayer == ~raw /\ Next /\ UNCHANGED <<raw, rawVars>>

RawFilePlayer == raw /\ Raw!Next /\ UNCHANGED <<raw, vars>>

MCSpec ==
    /\ MCInit
    /\ [][DecodingPlayer \/ RawFilePlayer]_<<raw, vars, rawVars>>
    /\ WF_vars(~raw /\ Main /\ UNCHANGED <<raw, rawVars>>)
    /\ WF_vars(~raw /\ AudioThread /\ UNCHANGED <<raw, rawVars>>)
    /\ WF_rawVars(raw /\ Raw!Ticker /\ UNCHANGED <<raw, vars>>)
    /\ WF_rawVars(raw /\ Raw!Device /\ UNCHANGED <<raw, vars>>)
    /\ WF_rawVars(raw /\ Raw!MainLoop /\ UNCHANGED <<raw, vars>>)

-----------------------------------------------------------------------------
(* Properties: those of SimplePlayer, and                                     *)

(* OthersHaveEnded of FilePlayer, when one of its players runs.               *)
OthersHaveEnded == raw => Raw!OthersHaveEnded

(* PlayerEnds of the player that runs.                                        *)
PlayersEnd == (raw => Raw!PlayerEnds) /\ (~raw => PlayerEnds)
=============================================================================
