------------------------------- MODULE SignIn -------------------------------
(***************************************************************************)
(* A tab of the browser on top of module Sessions: calls of authFetch that *)
(* are refused wait together for one sign-in dialog, and are sent again    *)
(* when the user has signed in.                                            *)
(***************************************************************************)
EXTENDS Sessions

CONSTANTS
  Dialog,   \* the request that the sign-in dialog makes, beside calls of authFetch
  Ops       \* what each of the calls may ask for

ASSUME DialogAssumption == Dialog \in Requests
ASSUME OpsAssumption ==
  Ops \in [Requests \ {Dialog} -> SUBSET {"use", "logout", "logout_all", "revoke"}]

VARIABLES
  cookie,    \* the session cookie, 0 when cleared
  tab,       \* what each call of the tab is doing, and the request it repeats
  isOpen     \* reauthState.isOpen: the dialog is shown

vars == <<serverVars, cookie, tab, isOpen>>
tabVars == <<cookie, tab, isOpen>>
Calls == Requests \ {Dialog}
AtRest == [stage |-> "idle", op |-> "use"]

Init ==
  /\ ServerInit
  /\ cookie = 1
  /\ tab = [c \in Calls |-> AtRest]
  /\ isOpen = FALSE

\* authFetch, for the first time; authState.logout does without it.
Send(c, op) ==
  /\ tab[c] = AtRest
  /\ tab' = [tab EXCEPT ![c] = [stage |-> IF op = "logout" THEN "leaving" ELSE "sent", op |-> op]]
  /\ Ask(c, cookie, op)
  /\ UNCHANGED <<cookie, isOpen>>

\* authFetch, after the dialog: the same request with the new cookies.
SendAgain(c) ==
  /\ tab[c].stage = "replay"
  /\ tab' = [tab EXCEPT ![c].stage = "sent_again"]
  /\ Ask(c, cookie, tab[c].op)
  /\ UNCHANGED <<cookie, isOpen>>

\* The browser stores the cookie that a response sets.
Read(q) ==
  /\ answer[q] # NoAnswer
  /\ answer' = [answer EXCEPT ![q] = NoAnswer]
  /\ cookie' = IF answer[q].cookie = Keep THEN cookie ELSE answer[q].cookie
  /\ UNCHANGED <<now, rows, queue, work, served, signedOut>>

\* triggerReauth: open the dialog or join those who wait for it.
Refused(c) ==
  /\ answer[c].says = "unauthorised" /\ tab[c].stage = "sent"
  /\ Read(c)
  /\ tab' = [tab EXCEPT ![c].stage = "waiting"]
  /\ isOpen' = TRUE

Done(c) ==
  /\ ~ (answer[c].says = "unauthorised" /\ tab[c].stage = "sent")
  /\ Read(c)
  /\ tab' = [tab EXCEPT ![c] = AtRest]
  /\ UNCHANGED isOpen

\* The user's address, which signing out forgets, is taken as known.
Submit ==
  /\ isOpen
  /\ Login(Dialog)
  /\ UNCHANGED tabVars

\* A mutant: the call that opened the dialog goes on, the others are forgotten.
ResumeOne(next) ==
  LET waiting == {c \in Calls : tab[c].stage = "waiting"}
  IN  tab' = IF waiting = {} THEN tab
             ELSE LET c == CHOOSE c \in waiting : TRUE IN [tab EXCEPT ![c] = next[c]]

\* reauthResolve and reauthReject: all who wait go on.
Resume(next) ==
  tab' = [c \in Calls |-> IF tab[c].stage = "waiting" THEN next[c] ELSE tab[c]]

SignedIn ==
  /\ answer[Dialog].says = "ok"
  /\ Read(Dialog)
  /\ isOpen' = FALSE
  /\ Resume([c \in Calls |-> [tab[c] EXCEPT !.stage = "replay"]])

SignInFails ==
  /\ answer[Dialog].says \in {"unauthorised", "error"}
  /\ Read(Dialog)
  /\ UNCHANGED <<tab, isOpen>>

\* The user closes the dialog, possibly while it signs in, and the calls
\* return their 401.
Cancel ==
  /\ isOpen
  /\ isOpen' = FALSE
  /\ Resume([c \in Calls |-> AtRest])
  /\ UNCHANGED <<serverVars, cookie>>

-----------------------------------------------------------------------------
Server(q) == (ServerStep(q) \/ Rollback(q)) /\ UNCHANGED tabVars

Next ==
  \/ Tick /\ UNCHANGED tabVars
  \/ \E q \in Requests : Server(q)
  \/ \E c \in Calls : \E op \in Ops[c] : Send(c, op)
  \/ \E c \in Calls : SendAgain(c) \/ Refused(c) \/ Done(c)
  \/ Submit \/ SignedIn \/ SignInFails \/ Cancel

Spec == Init /\ [][Next]_vars

-----------------------------------------------------------------------------
SignInTypeOK ==
  /\ SessionsTypeOK
  /\ cookie \in 0 .. MaxRows
  /\ tab \in [Calls -> [stage : {"idle", "sent", "sent_again", "waiting", "replay", "leaving"},
                        op : {"use", "logout", "logout_all", "revoke"}]]
  /\ isOpen \in BOOLEAN

\* A call waits only while there is a dialog that can let it go: whoever joins,
\* cancels, fails to sign in or is refused late.
WaitersHaveDialog == (\E c \in Calls : tab[c].stage = "waiting") => isOpen

=============================================================================
