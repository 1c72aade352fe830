---------------------------- MODULE MCAtlasWalk ----------------------------
(* The instance of AtlasWalk that TLC checks. *)
EXTENDS AtlasWalk

CONSTANTS k1

\* A serial phase, then two chains at once, one of two stages.  The symbols are
\* described in two tables.  Of three calls, which an earlier run asked in one request,
\* two are written alike.
FilesThenChains == << << <<"files">> >>, << <<"symbols">>, <<"api", "boundaries">> >> >>

StageTables ==
    [s \in {"files", "symbols", "api", "boundaries"} |->
        CASE s = "files" -> <<"file">>
          [] s = "symbols" -> <<"function", "type">>
          [] s = "api" -> <<"call">>
          [] s = "boundaries" -> <<"boundary">>]

RowBases ==
    [t \in {"file", "function", "type", "call", "boundary"} |->
        CASE t = "file" -> <<"f">>
          [] t = "function" -> <<"g">>
          [] t = "type" -> <<"t">>
          [] t = "call" -> <<"c", "d", "c">>
          [] t = "boundary" -> <<"b">>]

CallsRemembered ==
    [b \in {"f", "g", "t", "c", "d", "b"} |-> IF b \in {"c", "d"} THEN k1 ELSE Unknown]
=============================================================================
