----------------------------- MODULE MCTaskPool -----------------------------
(***************************************************************************)
(* Instances of TaskPool: which of three tasks are added to which list by  *)
(* the main thread and which by interrupts.                                *)
(***************************************************************************)
EXTENDS TaskPool

\* a machine that is up: immediate, delayed and systick tasks
RunPosts == {}
RunIsrPosts == {<<"immediate", "a">>, <<"delayed", "b">>}

\* start-up and resets
BootPosts == {<<"booted", "a">>, <<"booted", "c">>, <<"systick", "a">>, <<"reset", "b">>}
BootIsrPosts == {}
=============================================================================
