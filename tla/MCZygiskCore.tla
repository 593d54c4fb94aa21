---------------------------- MODULE MCZygiskCore ----------------------------
(* Two modules, of which the second is too old for exemptFd; an app uid and  *)
(* an isolated one.                                                          *)
EXTENDS ZygiskCore

MCUid == {"app", "isolated"}
MCIsolated == {"isolated"}
MCVersion == <<5, 1>>
MCBorrowable == {"pointer"}
On(f, s, v) == [m \in Method |->
                   CASE m = "fork" -> f [] m = "specialize" -> s [] OTHER -> v]
\* Natives hooked in their body, through the table, or missing.
MCPlatform == {On("inline", "inline", "inline"), On("table", "absent", "inline")}
=============================================================================
