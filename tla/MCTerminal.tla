----------------------------- MODULE MCTerminal -----------------------------
(***************************************************************************)
(* Instance of SharedTerminal for TLC: two c-bots in one directory and the *)
(* two agents of a server.                                                 *)
(***************************************************************************)
EXTENDS SharedTerminal, TLC

MCTop      == <<"t", "o", "p">>
MCListings == <<"l", "i", "s", "t", "i", "n", "g", "s">>
MCGlobal   == <<"g", "l", "o", "b", "a", "l">>
MCData     == <<"d", "a", "t", "a">>
MCGarbage  == <<"x", "x", "x", "x">>
EOL        == <<"\n">>

MCLines == {
  MCTop, MCTop \o EOL, MCListings \o EOL, MCGlobal \o EOL,
  MCGlobal \o <<" ">> \o MCData \o EOL,
  <<" ", " ", "x">> \o EOL, <<"x", " ", " ", " ", "x">> \o EOL}

Symmetry == Permutations(Sessions)
=============================================================================
