--------------------------- MODULE MCNativeLoader ---------------------------
(***************************************************************************)
(* Two module directories with two manifest lines each, the second line of *)
(* B a 32-bit library.  One native process is matched by all lines: by its *)
(* name and by its path, which are more targets than the kernel's table    *)
(* takes here.                                                             *)
(***************************************************************************)
EXTENDS NativeLoader

CONSTANTS A, B, p, name, path

MCLine == {<<A, 1>>, <<A, 2>>, <<B, 1>>, <<B, 2>>}
MCCompat == {<<B, 2>>}
MCWithCompanion == {<<A, 1>>}
MCSnapshot == {<<A, 2>>}
MCTarget == [l \in Line |-> IF l[1] = B THEN path ELSE name]
MCExe == [q \in Proc |-> {name, path}]

\* Bounds: once the native process is injected, no app is followed beside it,
\* the zygisk list, which it never asks for, is read in full, and edits,
\* reloads and faults share a budget.
SharedMax == 2
Apart ==
    (\E q \in Proc : pc[q] # "none") =>
        /\ apps = {} /\ connected = {} /\ "modules" \notin missed
        /\ edits + reloads + faults <= SharedMax
=============================================================================
