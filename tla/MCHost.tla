------------------------------- MODULE MCHost -------------------------------
(* One app with a directory and a place below it.                            *)
EXTENDS Host

MCPlace == {"dir", "below"}
MCBelow == {<<"below", "dir">>}
=============================================================================
