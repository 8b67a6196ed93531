------------------------------ MODULE Accounts ------------------------------
(***************************************************************************)
(* Accounts of the application: signup requests and their approval, users, *)
(* administrators, roles and the links that set a password.                *)
(*                                                                         *)
(* Every HTTP request and every command of app/cli.py is one transaction   *)
(* of the database at READ COMMITTED.  A request reads and checks when it  *)
(* begins, and what it decided to write takes effect when it commits;      *)
(* nothing is locked in between, only the constraints of the tables are    *)
(* enforced.  Requests may overlap, fail or be cut off.                    *)
(***************************************************************************)
EXTENDS Integers, Sequences, FiniteSets

CONSTANTS
  Emails,       \* e-mail addresses: an account or a signup is known by one
  FirstAdmins,  \* the administrators the installation starts with
  Roles,        \* names of roles
  Builtin,      \* the roles seeded by the migration
  FirstRoles,   \* the roles the installation starts with
  None,         \* no e-mail, no role
  Requests,     \* transactions that may be under way at once
  MaxTokens,    \* bound: password links ever issued
  MaxBegun      \* bound: transactions ever begun

ASSUME EmailsAssumption == /\ FirstAdmins \subseteq Emails
                           /\ FirstAdmins # {}
                           /\ IsFiniteSet(Emails)
                           /\ None \notin Emails
ASSUME RolesAssumption == /\ Builtin \subseteq FirstRoles /\ FirstRoles \subseteq Roles
                        /\ None \notin Roles
ASSUME BoundsAssumption == MaxTokens \in Nat /\ MaxBegun \in Nat

VARIABLES
  users,      \* table users; "invited" remembers that an invite made the account
  signups,    \* table signup_requests
  roles,      \* table roles
  tokens,     \* table setup_tokens; "uses" counts the passwords a link has set
  doing,      \* what each transaction under way will write
  contended,  \* history: rows that two transactions under way would both write
  begun       \* number of transactions begun

vars == <<users, signups, roles, tokens, doing, contended, begun>>
tables == <<users, signups, roles, tokens>>

Statuses == {"none", "pending", "approved", "rejected", "registered"}
Changes == {"promote", "demote", "enable", "disable", "role"}
Operations == {"idle", "submit", "approve", "approve_new_role", "reject",
               "register", "issue", "consume", "create_admin", "change",
               "create_role", "delete_role"}

User == [known: BOOLEAN, admin: BOOLEAN, active: BOOLEAN, password: BOOLEAN,
         role: Roles \cup {None}, invited: BOOLEAN]
Signup == [status: Statuses, role: Roles \cup {None}, expired: BOOLEAN]
SetupToken == [user: Emails, used: BOOLEAN, expired: BOOLEAN, uses: Nat]
Transaction == [op: Operations, on: Emails \cup {None}, role: Roles \cup {None},
                token: 0 .. MaxTokens, set: SUBSET Changes]

NoUser == [known |-> FALSE, admin |-> FALSE, active |-> FALSE,
           password |-> FALSE, role |-> None, invited |-> FALSE]
\* create_admin_shell: an active administrator without a password.
AdminShell == [NoUser EXCEPT !.known = TRUE, !.admin = TRUE, !.active = TRUE]
NoSignup == [status |-> "none", role |-> None, expired |-> FALSE]

Work(op, email, role) ==
  [op |-> op, on |-> email, role |-> role, token |-> 0, set |-> {}]
Idle == Work("idle", None, None)

Init ==
  /\ users = [e \in Emails |-> IF e \in FirstAdmins
                               THEN [AdminShell EXCEPT !.password = TRUE]
                               ELSE NoUser]
  /\ signups = [e \in Emails |-> NoSignup]
  /\ roles = FirstRoles
  /\ tokens = <<>>
  /\ doing = [q \in Requests |-> Idle]
  /\ contended = {}
  /\ begun = 0

-----------------------------------------------------------------------------
Admins == {e \in Emails : users[e].admin}
\* require_admin: who may use the endpoints of administrators.
ActingAdmins == {a \in Admins : users[a].active}

\* The rows whose later value depends on what a transaction has read.
Touches(x) ==
     {<<"signup", x.on>> : op \in {x.op} \cap {"approve", "approve_new_role",
                                              "reject", "register"}}
  \cup {<<"role", x.role>> : op \in {x.op} \cap {"approve", "register", "change",
                                                "delete_role"}}
  \cup {<<"token", x.token>> : op \in {x.op} \cap {"consume"}}
  \cup {<<"admins", None>> : c \in x.set \cap {"demote"}}

Begin(q, x) ==
  /\ doing[q] = Idle
  /\ begun < MaxBegun
  /\ begun' = begun + 1
  /\ doing' = [doing EXCEPT ![q] = x]
  /\ contended' = contended \cup
       (Touches(x) \cap UNION {Touches(doing[p]) : p \in Requests \ {q}})
  /\ UNCHANGED tables

End(q) ==
  /\ doing' = [doing EXCEPT ![q] = Idle]
  /\ UNCHANGED <<contended, begun>>

\* The handler raises, a constraint is violated, the client or the process
\* goes away: nothing of the transaction remains.
Rollback(q) ==
  /\ doing[q] # Idle
  /\ End(q)
  /\ UNCHANGED tables

-----------------------------------------------------------------------------
(* Signup requests and invites *)

SubmitSignup(q, e) ==
  /\ signups[e].status \notin {"pending", "approved"}
  /\ ~ users[e].known
  /\ Begin(q, Work("submit", e, None))

\* The address is unique in signup_requests, whatever its status.
CommitSubmit(q) ==
  /\ doing[q].op = "submit"
  /\ signups[doing[q].on].status = "none"
  /\ signups' = [signups EXCEPT ![doing[q].on].status = "pending"]
  /\ End(q)
  /\ UNCHANGED <<users, roles, tokens>>

ApproveSignup(q, e, r) ==
  /\ ActingAdmins # {}
  /\ signups[e].status = "pending"
  /\ Begin(q, Work(IF r \in roles THEN "approve" ELSE "approve_new_role", e, r))

CommitApprove(q) ==
  LET x == doing[q] IN
  /\ \/ x.op = "approve" /\ x.role \in roles /\ UNCHANGED roles
     \/ x.op = "approve_new_role" /\ x.role \notin roles /\ roles' = roles \cup {x.role}
  /\ signups' = [signups EXCEPT ![x.on] =
                   [status |-> "approved", role |-> x.role, expired |-> FALSE]]
  /\ End(q)
  /\ UNCHANGED <<users, tokens>>

RejectSignup(q, e) ==
  /\ ActingAdmins # {}
  /\ signups[e].status = "pending"
  /\ Begin(q, Work("reject", e, None))

CommitReject(q) ==
  /\ doing[q].op = "reject"
  /\ signups' = [signups EXCEPT ![doing[q].on].status = "rejected"]
  /\ End(q)
  /\ UNCHANGED <<users, roles, tokens>>

ExpireInvite(e) ==
  /\ signups[e].status = "approved" /\ ~ signups[e].expired
  /\ signups' = [signups EXCEPT ![e].expired = TRUE]
  /\ UNCHANGED <<users, roles, tokens, doing, contended, begun>>

\* complete_registration: the role is the one read with the signup.
Register(q, e) ==
  /\ signups[e].status = "approved"
  /\ ~ signups[e].expired
  /\ ~ users[e].known
  /\ Begin(q, Work("register", e, signups[e].role))

\* A mutant: the signup stays approved.
CommitRegisterOnly(q) ==
  LET x == doing[q] IN
  /\ x.op = "register"
  /\ ~ users[x.on].known
  /\ x.role \in roles \cup {None}
  /\ users' = [users EXCEPT ![x.on] =
                 [known |-> TRUE, admin |-> FALSE, active |-> TRUE,
                  password |-> TRUE, role |-> x.role, invited |-> TRUE]]
  /\ End(q)
  /\ UNCHANGED <<signups, roles, tokens>>

\* The address is unique in users, and a role that was deleted since violates
\* the foreign key.
CommitRegister(q) ==
  LET x == doing[q] IN
  /\ x.op = "register"
  /\ ~ users[x.on].known
  /\ x.role \in roles \cup {None}
  /\ users' = [users EXCEPT ![x.on] =
                 [known |-> TRUE, admin |-> FALSE, active |-> TRUE,
                  password |-> TRUE, role |-> x.role, invited |-> TRUE]]
  /\ signups' = [signups EXCEPT ![x.on].status = "registered"]
  /\ End(q)
  /\ UNCHANGED <<roles, tokens>>

-----------------------------------------------------------------------------
(* Password links *)

NewToken(e) == [user |-> e, used |-> FALSE, expired |-> FALSE, uses |-> 0]

\* A mutant: the user is not looked up.
IssueToAnyone(q, e) == Begin(q, Work("issue", e, None))

\* Asked for by the user, an administrator or the command line.
IssueToken(q, e) ==
  /\ users[e].known
  /\ Begin(q, Work("issue", e, None))

CommitIssue(q) ==
  /\ doing[q].op = "issue"
  /\ Len(tokens) < MaxTokens
  /\ tokens' = Append(tokens, NewToken(doing[q].on))
  /\ End(q)
  /\ UNCHANGED <<users, signups, roles>>

ExpireToken(k) ==
  /\ ~ tokens[k].used /\ ~ tokens[k].expired
  /\ tokens' = [tokens EXCEPT ![k].expired = TRUE]
  /\ UNCHANGED <<users, signups, roles, doing, contended, begun>>

\* validate_token: unused, not expired, its user active.
ConsumeToken(q, k) ==
  /\ ~ tokens[k].used
  /\ ~ tokens[k].expired
  /\ users[tokens[k].user].active
  /\ Begin(q, [Work("consume", tokens[k].user, None) EXCEPT !.token = k])

\* A mutant: the link is not marked as used.
CommitConsumeUnmarked(q) ==
  LET x == doing[q] IN
  /\ x.op = "consume"
  /\ users' = [users EXCEPT ![x.on].password = TRUE]
  /\ tokens' = [tokens EXCEPT ![x.token].uses = @ + 1]
  /\ End(q)
  /\ UNCHANGED <<signups, roles>>

\* consume_token does not look at used_at again.
CommitConsume(q) ==
  LET x == doing[q] IN
  /\ x.op = "consume"
  /\ users' = [users EXCEPT ![x.on].password = TRUE]
  /\ tokens' = [tokens EXCEPT ![x.token].used = TRUE, ![x.token].uses = @ + 1]
  /\ End(q)
  /\ UNCHANGED <<signups, roles>>

-----------------------------------------------------------------------------
(* Administrators and other changes to a user *)

\* The command create-admin, the only way to the first administrator.
CreateAdmin(q, e) ==
  /\ ~ users[e].known
  /\ Begin(q, Work("create_admin", e, None))

CommitCreateAdmin(q) ==
  LET x == doing[q] IN
  /\ x.op = "create_admin"
  /\ ~ users[x.on].known
  /\ Len(tokens) < MaxTokens
  /\ users' = [users EXCEPT ![x.on] = AdminShell]
  /\ tokens' = Append(tokens, NewToken(x.on))
  /\ End(q)
  /\ UNCHANGED <<signups, roles>>

\* The columns that differ from what was read: only they are written.
Dirty(e, wish, role) ==
  {c \in wish : \/ c = "promote" /\ ~ users[e].admin
                \/ c = "demote" /\ users[e].admin
                \/ c = "enable" /\ ~ users[e].active
                \/ c = "disable" /\ users[e].active
                \/ c = "role" /\ users[e].role # role}

\* A mutant: the last administrator may be demoted.
SetAdminUnguarded(e, wish) == TRUE

\* set_admin: inactive administrators count as well.
SetAdminAllowed(e, wish) ==
  "demote" \in wish /\ users[e].admin => Cardinality(Admins) > 1

\* set_active, called after set_admin.
SetActiveAllowed(e, wish) ==
  LET after == IF "promote" \in wish THEN Admins \cup {e}
               ELSE IF "demote" \in wish THEN Admins \ {e} ELSE Admins
  IN  "disable" \in wish /\ e \in after => Cardinality(after) > 1

\* One call sets is_admin at most one way and is_active at most one way.
Wishes == {w \in SUBSET Changes : /\ w # {}
                                  /\ ~ {"promote", "demote"} \subseteq w
                                  /\ ~ {"enable", "disable"} \subseteq w}

Change(q, e, wish, role) ==
  /\ users[e].known
  /\ SetAdminAllowed(e, wish)
  /\ SetActiveAllowed(e, wish)
  /\ Dirty(e, wish, role) # {}
  /\ Begin(q, [Work("change", e, role) EXCEPT !.set = Dirty(e, wish, role)])

\* PATCH on a user by an administrator, who cannot demote himself.
UpdateUser(q, e, wish, role) ==
  /\ ActingAdmins \ (IF "demote" \in wish THEN {e} ELSE {}) # {}
  /\ Change(q, e, wish, role)

\* The commands promote and demote.
CommandLine(q, e, wish) ==
  /\ Change(q, e, wish, None)

CommitChange(q) ==
  LET x == doing[q]
      u == users[x.on]
  IN
  /\ x.op = "change"
  /\ "role" \in x.set => x.role \in roles \cup {None}
  /\ users' = [users EXCEPT ![x.on] =
       [u EXCEPT !.admin = (u.admin \/ "promote" \in x.set) /\ "demote" \notin x.set,
                 !.active = (u.active \/ "enable" \in x.set) /\ "disable" \notin x.set,
                 !.role = IF "role" \in x.set THEN x.role ELSE u.role]]
  /\ End(q)
  /\ UNCHANGED <<signups, roles, tokens>>

-----------------------------------------------------------------------------
(* Roles *)

CreateRole(q, r) ==
  /\ ActingAdmins # {}
  /\ r \notin roles
  /\ Begin(q, Work("create_role", None, r))

CommitCreateRole(q) ==
  /\ doing[q].op = "create_role"
  /\ doing[q].role \notin roles
  /\ roles' = roles \cup {doing[q].role}
  /\ End(q)
  /\ UNCHANGED <<users, signups, tokens>>

\* A mutant: whether users hold the role is not asked.
DeleteRoleInUse(q, r) ==
  /\ ActingAdmins # {}
  /\ r \in roles \ Builtin
  /\ Begin(q, Work("delete_role", None, r))

\* Users are asked about, signups that name the role are not.
DeleteRole(q, r) ==
  /\ ActingAdmins # {}
  /\ r \in roles \ Builtin
  /\ \A e \in Emails : users[e].role # r
  /\ Begin(q, Work("delete_role", None, r))

\* ON DELETE SET NULL in users and in signup_requests.
CommitDeleteRole(q) ==
  LET r == doing[q].role IN
  /\ doing[q].op = "delete_role"
  /\ roles' = roles \ {r}
  /\ users' = [e \in Emails |-> IF users[e].role = r
                                THEN [users[e] EXCEPT !.role = None] ELSE users[e]]
  /\ signups' = [e \in Emails |-> IF signups[e].role = r
                                  THEN [signups[e] EXCEPT !.role = None] ELSE signups[e]]
  /\ End(q)
  /\ UNCHANGED tokens

-----------------------------------------------------------------------------
BeginSome(q) ==
  \/ \E e \in Emails : \/ SubmitSignup(q, e) \/ RejectSignup(q, e) \/ Register(q, e)
                       \/ IssueToken(q, e) \/ CreateAdmin(q, e)
  \/ \E e \in Emails, r \in Roles : ApproveSignup(q, e, r)
  \/ \E k \in 1 .. Len(tokens) : ConsumeToken(q, k)
  \/ \E e \in Emails, w \in Wishes :
       \E r \in IF "role" \in w THEN roles \cup {None} ELSE {None} : UpdateUser(q, e, w, r)
  \/ \E e \in Emails, w \in {{"promote"}, {"demote"}} : CommandLine(q, e, w)
  \/ \E r \in Roles : CreateRole(q, r) \/ DeleteRole(q, r)

CommitSome(q) ==
  \/ CommitSubmit(q) \/ CommitApprove(q) \/ CommitReject(q) \/ CommitRegister(q)
  \/ CommitIssue(q) \/ CommitConsume(q) \/ CommitCreateAdmin(q) \/ CommitChange(q)
  \/ CommitCreateRole(q) \/ CommitDeleteRole(q)

Next ==
  \/ \E q \in Requests : BeginSome(q) \/ CommitSome(q) \/ Rollback(q)
  \/ \E e \in Emails : ExpireInvite(e)
  \/ \E k \in 1 .. Len(tokens) : ExpireToken(k)

Spec == Init /\ [][Next]_vars

-----------------------------------------------------------------------------
\* The tables hold rows of their types, a row that is not there says nothing,
\* and a link belongs to an account.
AccountsTypeOK ==
  /\ users \in [Emails -> User]
  /\ signups \in [Emails -> Signup]
  /\ roles \subseteq Roles
  /\ tokens \in Seq(SetupToken) /\ Len(tokens) <= MaxTokens
  /\ doing \in [Requests -> Transaction]
  /\ begun \in 0 .. MaxBegun
  /\ \A e \in Emails : ~ users[e].known => users[e] = NoUser
  /\ \A k \in 1 .. Len(tokens) : users[tokens[k].user].known

\* The guards of set_admin keep an administrator, for as long as no two
\* demotions are under way at once: whatever is promoted, demoted, created,
\* enabled or disabled in between, by the command line or by administrators.
AdminsRemain == <<"admins", None>> \notin contended => Admins # {}

\* A link sets one password, however often it is opened, unless two requests
\* redeem it at the same time.
TokenUsedOnce ==
  \A k \in 1 .. Len(tokens) :
    <<"token", k>> \notin contended => tokens[k].uses <= 1

\* Once an invite has made an account its signup stays registered: it is not
\* approved, rejected or asked for again, unless a decision about it is taken
\* while another one, or the registration, is under way.
RegistrationIsFinal ==
  \A e \in Emails :
    users[e].invited /\ <<"signup", e>> \notin contended
      => signups[e].status = "registered"

\* What delete_role has found is true until it commits: no user loses a role
\* by its deletion, unless the role was being given to somebody, to a user or
\* with an invite, at the same time.
RoleInUseStays ==
  \A q \in Requests, e \in Emails :
    LET r == doing[q].role
    IN  doing[q].op = "delete_role" /\ <<"role", r>> \notin contended
          => users[e].role # r

=============================================================================
