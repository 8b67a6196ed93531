------------------------------ MODULE Browser ------------------------------
(***************************************************************************)
(* A tab of the browser: its calls of the API, which a dialog keeps signed *)
(* in (module SignIn), and its chat window (module ChatWindow).  They      *)
(* share no state but the session, so a behaviour exercises one of the two.*)
(***************************************************************************)
EXTENDS SignIn, ChatWindow

\* What the behaviour exercises: the pages of the account, or the chat.
VARIABLE route

BrowserInit ==
  /\ route \in {"account", "chat"}
  /\ Init
  /\ WindowInit

AccountStep ==
  /\ route = "account"
  /\ Next
  /\ UNCHANGED <<route, windowVars>>

ChatStep ==
  /\ route = "chat"
  /\ WindowNext
  /\ UNCHANGED <<route, vars>>

BrowserSpec == BrowserInit /\ [][AccountStep \/ ChatStep]_<<route, vars, windowVars>>

-----------------------------------------------------------------------------
\* The session, the dialog and the chat window have their types, and what the
\* window refers to, its turns and its readers, exists.
BrowserTypeOK == SignInTypeOK /\ WindowTypeOK

=============================================================================
