----------------------------- MODULE MCTextInput -----------------------------
(* Texts for the run of TextInput: answers of up to seven tokens of body, and  *)
(* files made of the lines that an editor or another system would leave.       *)
EXTENDS TextInput

CONSTANT MaxBody   \* bound: tokens of the object an answer carries

MCNumbers == {"200", "503"}

MCHeads == {<<"v", " ", "200", " ", "a", "end">>, <<"v", " ", "503", " ", "a", "end">>,
            <<"v", " ", "200", "end">>, <<"v", " ", "200", "a">>}

MCBodies ==
    {lead \o object \o trail :
        lead \in {<<>>, <<" ">>}, trail \in {<<>>, <<" ">>},
        object \in {s \in SeqOf({"{", "}", "q", "a"}, MaxBody) : s = <<>> \/ IsObject(s)}}

MCLines ==
    {<<>>, <<" ", "r">>,
     <<"[", "s", "]">>, <<" ", "[", " ", "s", "]", "r">>, <<"[", "t", "]">>, <<"[", "s">>,
     <<"k", "=", "v">>, <<" ", "k", " ", "=", " ", "v", "=", "w", "r">>, <<"k", "=">>,
     <<"#", "k", "=", "v">>, <<" ", "#", "k", "=", "v">>, <<"j", "=", "w">>, <<"k">>}

MCSection == <<"s">>
MCKey     == <<"k">>

=============================================================================
