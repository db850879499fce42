----------------------------- MODULE MCCommands -----------------------------
(* A small instance of Commands for TLC. *)
EXTENDS Commands, TLC

\* The paths of the lines; "x" and the commands are no absolute paths.
SomePieces ==
  "/" :> <<"">> @@ "/d//" :> <<"d", "", "">> @@ "/d/" :> <<"d", "">>
    @@ "/d/p" :> <<"d", "p">> @@ "/f" :> <<"f">> @@ "/d//g" :> <<"d", "", "g">>

\* One program, in a directory that the image tool has to create.
OneProgram == << << <<"d", "p">>, <<"text", "word">> >> >>

SomeLines ==
  { <<"ls", "/d/", ">", "/d/p">>, <<"ls", "/f">>, <<"mkdir", "/d//">>,
    <<"cat", "/d/p">>, <<"cat", "/f", ">", "/f">>, <<"cat", "/">>,
    <<"echo">>, <<"echo", ">", "/d//g">>,
    <<"echo", ">", "/f", "<", "x">>, <<"/d/p", "<", "/d/p">>,
    <<"/d/p", "<", "/">> }

Shells == Permutations(Shell)
=============================================================================
