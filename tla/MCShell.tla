------------------------------- MODULE MCShell -------------------------------
(* Every command, upload with its option, the words that need quotes, and those *)
(* that begin alike.                                                            *)
EXTENDS Shell

MCSymbols == STRING

U == <<"upload">>
P == <<"pin">>
X == <<"x">>
H == <<"help">>
C == <<"?">>
N == <<"-", "n", "ostart">>
O == <<"-", "o">>
A == <<"a", " ", "\"">>
B == <<"\\">>
F == <<"f">>
G == <<"f", "g">>
Slash == <<"/">>

All == <<"all">>
MCFirmwareNames == {F, G, <<"all", "r">>}
MCPathNames == {Slash, G}
MCNumbers == {<<"0">>, <<"1">>}

\* The user: every command, with all that may go wrong behind it.
MCLines ==
  {<<w>> : w \in Words \cup {A}} \cup {<<w, B>> : w \in Words} \cup {<<C, A>>, <<C, U>>}
    \cup {<<U>> \o s : s \in SeqOf({N, O, B, <<>>, EndOfOptions}, 3)}
    \cup {<<P>> \o s : s \in SeqOf({N, A, B}, 3)}

MCHalfLines ==
  [words : {<<w>> : w \in {A, H, C, U, P, <<"get">>, <<"cache">>, <<"device">>}},
   text : {<<>>, F, Slash, <<"-">>, <<"help">>}]
    \cup [words : {<<P, F>>} \cup {<<U>> \o s : s \in SeqOf({N, A, EndOfOptions}, 3)},
          text : {<<>>, F}]
    \cup [words : {<<<<"get">>>>}, text : {All}]

MCHalfCommands == {<<>>, <<"q">>, <<"device">>, <<"a">>}

MCAnswers == {<<>>, A, U}

MCBatches == SeqOf({U, P, H, N, A}, 5) \cup SeqOf({U, X, N, O, EndOfOptions}, 5)

MCNothing == {<<>>}

MCFlags == {"D", "h", "o"}
MCProgramOptions ==
  {<<>>, <<EndOfOptions>>, <<<<"-", "o">>, <<"-", "d">>, A>>,
   <<<<"-", "o", "d", "a">>, EndOfOptions>>}
=============================================================================
