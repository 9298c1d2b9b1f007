---------------------------- MODULE MCLineInput -----------------------------
(***************************************************************************)
(* Instances of LineInput: the lines of the sender and their terminator.   *)
(***************************************************************************)
EXTENDS LineInput

Lines == {<<"G">>, <<"$", "X">>, <<"G", "BS">>, <<>>, <<"X", "G", "X">>}
Jogs == {<<"G", "X">>, <<"$", "X">>}
Edited == {<<"G", "X", "X", "BS", "X">>}
Lf == <<"LF">>
CrLf == <<"CR", "LF">>
=============================================================================
