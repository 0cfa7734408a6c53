---------------------------- MODULE MCRtspRelay ------------------------------
(* The streams and the file TLC plays.                                        *)
EXTENDS RtspRelay

\* A unit with number k; its last byte may look like the beginning of another.
MCUnit(k, last) == <<Dollar, 3, k, 0, last>>
MCText == <<1, 1>>

MCStreams ==
    { <<MCText, MCUnit(1, 0), MCUnit(2, Dollar), MCUnit(3, 0)>>,
      <<MCUnit(1, 0), MCText, MCUnit(2, 0), MCUnit(3, 0)>>,
      <<<<Dollar, 3, 1, Dollar, 200>>, MCUnit(2, Dollar), MCUnit(3, 0)>> }

\* One unit that fits, one of two fragments, one of a single fragment.
MCFileLens == <<2, 7, 3>>
=============================================================================
