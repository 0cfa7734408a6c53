------------------------------- MODULE MCRemux -------------------------------
EXTENDS Remux

\* The packets of a file whose streams have these types, in this order of streams;
\* with reordered, the pictures of a video are shown in another order than stored.
PacketsOf(types, order, reordered) ==
    [n \in DOMAIN order |->
        LET count == Cardinality({m \in 1..(n - 1) : order[m] = order[n]})
            swap  == reordered /\ types[order[n]] = "video"
        IN  [stream |-> order[n],
             dts |-> IF swap THEN count - 1 ELSE count,
             pts |-> IF swap THEN <<0, 2, 1, 3>>[count + 1] ELSE count]]

\* Time bases over the output's: one that the output is finer than, and one that it
\* is coarser than, so that times merge.
Bases == {<<3, 2>>, <<1, 2>>}

FilesOf(types, lengths, base) ==
    {[types |-> types, opens |-> TRUE, packets |-> PacketsOf(types, order, r),
      num |-> base[1], den |-> base[2]] :
        order \in UNION {[1..n -> DOMAIN types] : n \in lengths}, r \in BOOLEAN}

Closed == [types |-> <<"video">>, opens |-> FALSE, packets |-> <<>>, num |-> 1, den |-> 1]

Layouts == {<<"video", "audio">>, <<"audio", "video">>, <<"other", "audio", "video">>,
            <<"video", "other", "audio">>, <<"video">>, <<"other">>}

\* Files of one input that a coarser output merges the times of.
Merging == FilesOf(<<"video", "audio">>, {3}, <<1, 2>>) \cup FilesOf(<<"video">>, {3}, <<1, 2>>)

Singles ==
    {Closed} \cup Merging
    \cup UNION {FilesOf(t, 0..3, <<3, 2>>) : t \in Layouts}
    \cup FilesOf(<<"video", "audio">>, {4}, <<3, 2>>)
    \cup FilesOf(<<"video", "audio", "other", "other", "audio">>, {1}, <<3, 2>>)
Raw     == {Closed} \cup UNION {FilesOf(<<"video">>, 0..4, b) : b \in Bases}
Devices == {Closed} \cup FilesOf(<<"video">>, {0, 1, 4}, <<3, 2>>)
Tracks(b) == {Closed} \cup FilesOf(<<"video">>, {0, 2}, b)
                      \cup FilesOf(<<"audio">>, {1, 3}, b)
                      \cup FilesOf(<<"video", "audio">>, {2}, b)
ShortTracks(b) == FilesOf(<<"video">>, {0, 2}, b) \cup FilesOf(<<"audio">>, {3}, b)
Parts(b)  == {Closed} \cup FilesOf(<<"video", "audio">>, {0, 1, 3}, b)
                      \cup FilesOf(<<"other", "audio", "video">>, {2}, b)
ShortParts(b) == FilesOf(<<"video", "audio">>, {2}, b)

\* Concatenations of files with the finer output, and of short ones with either.
Concatenations ==
    {<<f, g>> : f, g \in Parts(<<3, 2>>)}
    \cup UNION {{<<f, g>> : f \in ShortParts(b), g \in ShortParts(c)} : b, c \in Bases}

With(tools, inputs) == {[tool |-> t, files |-> f] : t \in tools, f \in inputs}

MCCases ==
    With({"remuxing", "cutVideo", "remuxing-from-memory", "extractAudio", "extractVideo",
          "split"}, {<<f>> : f \in Singles})
    \cup With({"remuxing-h264"}, {<<f>> : f \in Raw})
    \cup With({"record_audio", "record_video"}, {<<f>> : f \in Devices})
    \cup With({"concat"}, Concatenations)
    \cup With({"merge"}, {<<f, g, h>> : f, g, h \in Tracks(<<3, 2>>)}
                             \cup {<<f, g, h>> : f, g, h \in ShortTracks(<<1, 2>>)})

-----------------------------------------------------------------------------
(* Mp4ToAnnexB, which extractVideo calls for each packet                      *)

AnnexB == INSTANCE Mp4ToAnnexB

\* Units of key and of other pictures, and a parameter set among them.
UnitLists == UNION {[1..k -> {<<101>>, <<65, 3>>, <<69, 0, 0, 3, 1>>, <<103>>}] : k \in 1..3}
SetLists  == UNION {[1..k -> {<<103>>, <<104, 7>>}] : k \in 0..2}

(* UnitsComeBack of Mp4ToAnnexB for short packets; it does not depend on the  *)
(* state and is evaluated with a file that does not open.                     *)
UnitsComeBack ==
    tool = "extractVideo" /\ ~files[1].opens /\ phase = "open" =>
        AnnexB!UnitsComeBack(UnitLists, SetLists, SetLists)
=============================================================================
