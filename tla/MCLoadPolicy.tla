---------------------------- MODULE MCLoadPolicy ----------------------------
(***************************************************************************)
(* Small instance of LoadPolicy: one file key and one process key of a     *)
(* zygote domain, one permission each; the process key may be shared.      *)
(***************************************************************************)
EXTENDS LoadPolicy, TLC

ClientSymmetry ==
    Permutations(Holder) \cup Permutations(Task) \cup Permutations(Caller)

MCKey == {"file", "process"}
MCPerm == {"x"}
MCBase == [k \in MCKey |-> {}]
MCSlotOrder == [k \in MCKey |-> IF k = "file" THEN 1 ELSE 2]
MCFileReq == { [k \in MCKey |-> IF k = "file" THEN {"x"} ELSE {}] }
MCExecReq == { [k \in MCKey |-> IF k = "process" THEN {"x"} ELSE {}] }

(* For the run of the full table: three keys for two rules, and a policy     *)
(* that already grants reading.                                              *)
FullKey == {"file", "tmpfs", "process"}
FullPerm == {"read", "exec"}
FullSlotOrder ==
    [k \in FullKey |-> CASE k = "file" -> 1 [] k = "tmpfs" -> 2 [] k = "process" -> 3]
FullBase == [k \in FullKey |-> IF k = "file" THEN {"read"} ELSE {}]
FullFileReq ==
    { [k \in FullKey |-> IF k \in f THEN {"read", "exec"} ELSE {}] :
        f \in {{"file"}, {"file", "tmpfs"}} }
FullExecReq == { [k \in FullKey |-> IF k = "process" THEN {"exec"} ELSE {}] }
=============================================================================
