------------------------------ MODULE MCFileJob ------------------------------
(***************************************************************************)
(* Instances of FileJob: the files.                                        *)
(***************************************************************************)
EXTENDS FileJob

Files == {<<"move", "tool", "m30">>, <<"plain", "bad", "move">>, <<"move", "m2">>,
          <<"move", "probe", "plain">>, <<"plain", "move">>}
WithJog == {<<"jog", "move">>}
Calling == {<<"plain">>, <<"run", "plain">>}
Endless == {<<"plain">>}
=============================================================================
