------------------------------ MODULE MCBrowser -----------------------------
\* Instance of module Browser for TLC: one page signs out everywhere, another
\* revokes single sessions, this one among them, or signs out.
EXTENDS Browser, TLC

CONSTANTS c1, c2

MCOps == c1 :> {"use", "logout_all"} @@ c2 :> {"use", "revoke", "logout"}
=============================================================================
