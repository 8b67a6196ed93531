--------------------------- MODULE Accounts_proofs ---------------------------
(***************************************************************************)
(* Proofs about accounts: for any number of addresses, roles, links and    *)
(* transactions that overlap and fail, what the checks of a transaction    *)
(* guarantee although nothing is locked between its reads and its commit.  *)
(***************************************************************************)
EXTENDS Accounts, FiniteSetTheorems, TLAPS

\* What a transaction under way names exists, and stays.
Sound(x) ==
  /\ x.op \notin {"idle", "create_role", "delete_role"} => x.on \in Emails
  /\ x.op \in {"issue", "consume", "change"} => users[x.on].known
  /\ x.op = "consume" => x.token \in 1 .. Len(tokens)
  /\ x.op \in {"approve", "approve_new_role", "create_role", "delete_role"} => x.role \in Roles
  /\ x.set # {} => x.op = "change"

\* Two transactions under way that would write one row have been noticed.
Separate ==
  \A p, q \in Requests : p # q => Touches(doing[p]) \cap Touches(doing[q]) \subseteq contended

TypeInv == /\ AccountsTypeOK
           /\ \A q \in Requests : Sound(doing[q])
           /\ Separate

\* A demotion under way leaves another administrator.
AdminsInv ==
  <<"admins", None>> \notin contended =>
    /\ Admins # {}
    /\ \A q \in Requests : "demote" \in doing[q].set => Admins \ {doing[q].on} # {}

\* A link that is being redeemed is unused, and an unused one has set nothing.
TokenInv ==
  \A k \in 1 .. Len(tokens) :
    /\ ~ tokens[k].used => tokens[k].uses = 0
    /\ <<"token", k>> \notin contended =>
         /\ tokens[k].uses <= 1
         /\ \A q \in Requests : doing[q].op = "consume" /\ doing[q].token = k => ~ tokens[k].used

\* A signup is still what the decision about it under way has found.
SignupInv ==
  \A e \in Emails : <<"signup", e>> \notin contended =>
    /\ users[e].invited => signups[e].status = "registered"
    /\ \A q \in Requests : doing[q].on = e =>
         /\ doing[q].op \in {"approve", "approve_new_role", "reject"} => signups[e].status = "pending"
         /\ doing[q].op = "register" => signups[e].status = "approved"

AccountsInv == TypeInv /\ AdminsInv /\ TokenInv /\ SignupInv /\ RoleInUseStays

\* How a transaction begins: it is sound, and has found what it depends on.
Starts(q, x) ==
  /\ Begin(q, x)
  /\ x \in Transaction /\ Sound(x)
  /\ "demote" \in x.set => Admins \ {x.on} # {}
  /\ x.op = "consume" => ~ tokens[x.token].used
  /\ x.op \in {"approve", "approve_new_role", "reject"} => signups[x.on].status = "pending"
  /\ x.op = "register" => signups[x.on].status = "approved"
  /\ x.op = "delete_role" => \A e \in Emails : users[e].role # x.role

-----------------------------------------------------------------------------
(* What a transaction touches *)

LEMMA TouchesDemote ==
  ASSUME NEW x \in Transaction
  PROVE  <<"admins", None>> \in Touches(x) <=> "demote" \in x.set
  BY DEF Touches

LEMMA TouchesToken ==
  ASSUME NEW x \in Transaction, NEW k \in Nat
  PROVE  <<"token", k>> \in Touches(x) <=> x.op = "consume" /\ x.token = k
  BY DEF Touches, Transaction

LEMMA TouchesSignup ==
  ASSUME NEW x \in Transaction, NEW e \in Emails
  PROVE  <<"signup", e>> \in Touches(x) <=>
           x.on = e /\ x.op \in {"approve", "approve_new_role", "reject", "register"}
  BY DEF Touches, Transaction

LEMMA TouchesRole ==
  ASSUME NEW x \in Transaction, NEW r \in Roles
  PROVE  <<"role", r>> \in Touches(x) <=>
           x.role = r /\ x.op \in {"approve", "register", "change", "delete_role"}
  BY DEF Touches, Transaction

LEMMA IdleTouchesNothing ==
  /\ Touches(Idle) = {} /\ Idle \in Transaction
  /\ Idle.op = "idle" /\ Idle.set = {}
  BY BoundsAssumption DEF Touches, Idle, Work, Transaction, Operations

LEMMA WorkType ==
  ASSUME NEW op \in Operations, NEW e \in Emails \cup {None}, NEW r \in Roles \cup {None}
  PROVE  /\ Work(op, e, r) \in Transaction
         /\ Work(op, e, r).op = op /\ Work(op, e, r).on = e /\ Work(op, e, r).role = r
         /\ Work(op, e, r).set = {}
  BY BoundsAssumption DEF Work, Transaction

-----------------------------------------------------------------------------
(* A transaction begins *)

\* Where two administrators are counted, one remains without the other.
LEMMA AnotherAdmin ==
  ASSUME NEW e \in Emails, Cardinality(Admins) > 1
  PROVE  Admins \ {e} # {}
<1>1. Admins \ {e} = {} => Admins = {} \/ Admins = {e}
    OBVIOUS
<1>2. Cardinality({}) = 0 /\ Cardinality({e}) = 1
    BY FS_EmptySet, FS_Singleton
<1> QED BY <1>1, <1>2

LEMMA ChangeStarts ==
  ASSUME TypeInv, NEW q \in Requests, NEW e \in Emails, NEW wish \in SUBSET Changes,
         NEW role \in Roles \cup {None}, Change(q, e, wish, role)
  PROVE  \E x : Starts(q, x)
<1> DEFINE x == [Work("change", e, role) EXCEPT !.set = Dirty(e, wish, role)]
<1>1. Dirty(e, wish, role) \in SUBSET Changes
    BY DEF Dirty
<1>2. /\ x \in Transaction /\ x.op = "change" /\ x.on = e
      /\ x.set = Dirty(e, wish, role)
    BY <1>1, BoundsAssumption DEF Work, Transaction, Operations
<1>3. Sound(x)
  <2> HIDE DEF x
  <2> QED BY <1>2 DEF Sound, Change
<1>4. "demote" \in x.set => Admins \ {x.on} # {}
  <2>1. "demote" \in Dirty(e, wish, role) => "demote" \in wish /\ users[e].admin
      BY DEF Dirty
  <2>2. "demote" \in wish /\ users[e].admin => Cardinality(Admins) > 1
      BY DEF Change, SetAdminAllowed
  <2> HIDE DEF x
  <2> QED BY <1>2, <2>1, <2>2, AnotherAdmin
<1>5. Begin(q, x)
    BY DEF Change
<1> HIDE DEF x
<1> QED BY <1>2, <1>3, <1>4, <1>5 DEF Starts

LEMMA BeginsWell ==
  ASSUME TypeInv, NEW q \in Requests, BeginSome(q)
  PROVE  \E x : Starts(q, x)
<1>0. \A e \in Emails : signups[e] \in Signup /\ users[e] \in User
    BY DEF TypeInv, AccountsTypeOK
<1>1. ASSUME NEW e \in Emails, SubmitSignup(q, e)
      PROVE  \E x : Starts(q, x)
  <2> DEFINE x == Work("submit", e, None)
  <2>1. x \in Transaction /\ x.op = "submit" /\ x.on = e /\ x.set = {}
      BY WorkType DEF Operations
  <2>2. Begin(q, x)
      BY <1>1 DEF SubmitSignup
  <2> HIDE DEF x
  <2> QED BY <2>1, <2>2 DEF Starts, Sound
<1>2. ASSUME NEW e \in Emails, NEW r \in Roles, ApproveSignup(q, e, r)
      PROVE  \E x : Starts(q, x)
  <2> DEFINE x == Work(IF r \in roles THEN "approve" ELSE "approve_new_role", e, r)
  <2>1. /\ x \in Transaction /\ x.op \in {"approve", "approve_new_role"} /\ x.on = e
        /\ x.role = r /\ x.set = {}
      BY WorkType DEF Operations
  <2>2. Begin(q, x) /\ signups[e].status = "pending"
      BY <1>2 DEF ApproveSignup
  <2> HIDE DEF x
  <2> QED BY <2>1, <2>2 DEF Starts, Sound
<1>3. ASSUME NEW e \in Emails, RejectSignup(q, e)
      PROVE  \E x : Starts(q, x)
  <2> DEFINE x == Work("reject", e, None)
  <2>1. x \in Transaction /\ x.op = "reject" /\ x.on = e /\ x.set = {}
      BY WorkType DEF Operations
  <2>2. Begin(q, x) /\ signups[e].status = "pending"
      BY <1>3 DEF RejectSignup
  <2> HIDE DEF x
  <2> QED BY <2>1, <2>2 DEF Starts, Sound
<1>4. ASSUME NEW e \in Emails, Register(q, e)
      PROVE  \E x : Starts(q, x)
  <2> DEFINE x == Work("register", e, signups[e].role)
  <2>1. signups[e].role \in Roles \cup {None}
      BY <1>0 DEF Signup
  <2>2. x \in Transaction /\ x.op = "register" /\ x.on = e /\ x.set = {}
      BY <2>1, WorkType DEF Operations
  <2>3. Begin(q, x) /\ signups[e].status = "approved"
      BY <1>4 DEF Register
  <2> HIDE DEF x
  <2> QED BY <2>2, <2>3 DEF Starts, Sound
<1>5. ASSUME NEW e \in Emails, IssueToken(q, e) \/ CreateAdmin(q, e)
      PROVE  \E x : Starts(q, x)
  <2>1. PICK op \in {"issue", "create_admin"} :
          Begin(q, Work(op, e, None)) /\ (op = "issue" => users[e].known)
      BY <1>5 DEF IssueToken, CreateAdmin
  <2> DEFINE x == Work(op, e, None)
  <2>2. x \in Transaction /\ x.op = op /\ x.on = e /\ x.set = {}
      BY WorkType DEF Operations
  <2>3. Begin(q, x)
      BY <2>1
  <2> HIDE DEF x
  <2> QED BY <2>1, <2>2, <2>3 DEF Starts, Sound
<1>6. ASSUME NEW k \in 1 .. Len(tokens), ConsumeToken(q, k)
      PROVE  \E x : Starts(q, x)
  <2>1. tokens[k] \in SetupToken /\ Len(tokens) <= MaxTokens /\ Len(tokens) \in Nat
        /\ users[tokens[k].user].known
      BY DEF TypeInv, AccountsTypeOK
  <2> DEFINE e == tokens[k].user
             x == [Work("consume", e, None) EXCEPT !.token = k]
  <2>2. e \in Emails /\ k \in 0 .. MaxTokens
      BY <2>1, BoundsAssumption DEF SetupToken
  <2> HIDE DEF e
  <2>3. x \in Transaction /\ x.op = "consume" /\ x.on = e /\ x.set = {} /\ x.token = k
      BY <2>2 DEF Work, Transaction, Operations
  <2>4. Begin(q, x) /\ ~ tokens[k].used
      BY <1>6 DEF ConsumeToken, e
  <2>5. users[e].known
      BY <2>1 DEF e
  <2> HIDE DEF x
  <2> QED BY <2>2, <2>3, <2>4, <2>5 DEF Starts, Sound
<1>7. ASSUME NEW e \in Emails, NEW w \in Wishes,
             NEW r \in IF "role" \in w THEN roles \cup {None} ELSE {None}, UpdateUser(q, e, w, r)
      PROVE  \E x : Starts(q, x)
  <2>1. w \in SUBSET Changes
      BY DEF Wishes
  <2>2. r \in Roles \cup {None}
      BY DEF TypeInv, AccountsTypeOK
  <2> QED BY <1>7, <2>1, <2>2, ChangeStarts DEF UpdateUser
<1>8. ASSUME NEW e \in Emails, NEW w \in {{"promote"}, {"demote"}}, CommandLine(q, e, w)
      PROVE  \E x : Starts(q, x)
  <2>1. w \in SUBSET Changes
      BY DEF Changes
  <2> QED BY <1>8, <2>1, ChangeStarts DEF CommandLine
<1>9. ASSUME NEW r \in Roles, CreateRole(q, r) \/ DeleteRole(q, r)
      PROVE  \E x : Starts(q, x)
  <2>1. PICK op \in {"create_role", "delete_role"} :
          /\ Begin(q, Work(op, None, r))
          /\ op = "delete_role" => \A e \in Emails : users[e].role # r
      BY <1>9 DEF CreateRole, DeleteRole
  <2> DEFINE x == Work(op, None, r)
  <2>2. x \in Transaction /\ x.op = op /\ x.role = r /\ x.set = {}
      BY WorkType DEF Operations
  <2>3. Begin(q, x)
      BY <2>1
  <2> HIDE DEF x
  <2> QED BY <2>1, <2>2, <2>3 DEF Starts, Sound
<1> QED BY <1>1, <1>2, <1>3, <1>4, <1>5, <1>6, <1>7, <1>8, <1>9 DEF BeginSome

LEMMA BeginKeeps ==
  ASSUME AccountsInv, NEW q \in Requests, NEW x, Starts(q, x)
  PROVE  AccountsInv'
<1>1. /\ x \in Transaction /\ Sound(x)
      /\ UNCHANGED <<users, signups, roles, tokens>>
      /\ contended \subseteq contended'
    BY DEF Starts, Begin, tables
<1>2. /\ doing \in [Requests -> Transaction] /\ doing' \in [Requests -> Transaction]
      /\ \A p \in Requests : doing'[p] = IF p = q THEN x ELSE doing[p]
    BY <1>1 DEF Starts, Begin, AccountsInv, TypeInv, AccountsTypeOK
<1>3. AccountsTypeOK'
  <2>1. begun' \in 0 .. MaxBegun
      BY BoundsAssumption DEF Starts, Begin, AccountsInv, TypeInv, AccountsTypeOK
  <2> QED BY <1>1, <1>2, <2>1 DEF AccountsInv, TypeInv, AccountsTypeOK
<1>4. \A p \in Requests : Sound(doing[p])'
    BY <1>1, <1>2 DEF AccountsInv, TypeInv, Sound
<1>5. \A p \in Requests \ {q} : Touches(x) \cap Touches(doing[p]) \subseteq contended'
    BY DEF Starts, Begin
<1>6. Separate'
    BY <1>1, <1>2, <1>5 DEF AccountsInv, TypeInv, Separate
<1>7. AdminsInv'
    BY <1>1, <1>2 DEF Starts, AccountsInv, AdminsInv, Admins
<1>8. TokenInv'
    BY <1>1, <1>2, ZenonT(60) DEF Starts, AccountsInv, TokenInv
<1>9. SignupInv'
    BY <1>1, <1>2 DEF Starts, AccountsInv, SignupInv
<1>10. RoleInUseStays'
    BY <1>1, <1>2 DEF Starts, AccountsInv, RoleInUseStays
<1> QED BY <1>3, <1>4, <1>6, <1>7, <1>8, <1>9, <1>10 DEF AccountsInv, TypeInv

-----------------------------------------------------------------------------
(* A transaction ends *)

\* Those that go on name what is still there.
LEMMA EndKeeps ==
  ASSUME TypeInv, NEW q \in Requests, End(q),
         \A e \in Emails : users[e].known => users'[e].known,
         Len(tokens) <= Len(tokens'), Len(tokens') \in Nat
  PROVE  /\ doing' \in [Requests -> Transaction]
         /\ \A p \in Requests : doing'[p] = IF p = q THEN Idle ELSE doing[p]
         /\ \A p \in Requests : Sound(doing[p])'
         /\ Separate'
         /\ contended' = contended /\ begun' \in 0 .. MaxBegun
<1>1. doing \in [Requests -> Transaction] /\ Len(tokens) \in Nat
    BY DEF TypeInv, AccountsTypeOK
<1>2. /\ doing' \in [Requests -> Transaction]
      /\ \A p \in Requests : doing'[p] = IF p = q THEN Idle ELSE doing[p]
    BY <1>1, IdleTouchesNothing DEF End
<1>3. \A p \in Requests : Sound(doing[p])'
    BY <1>1, <1>2, IdleTouchesNothing DEF TypeInv, Sound
<1>4. contended' = contended /\ begun' \in 0 .. MaxBegun
    BY DEF End, TypeInv, AccountsTypeOK
<1>5. Separate'
  <2> SUFFICES ASSUME NEW p \in Requests, NEW r \in Requests, p # r
               PROVE  Touches(doing'[p]) \cap Touches(doing'[r]) \subseteq contended
      BY <1>4 DEF Separate, Touches
  <2>1. Touches(doing[p]) \cap Touches(doing[r]) \subseteq contended
      BY DEF TypeInv, Separate
  <2>2. doing'[p] \in {Idle, doing[p]} /\ doing'[r] \in {Idle, doing[r]}
      BY <1>2
  <2> QED BY <2>1, <2>2, IdleTouchesNothing
<1> QED BY <1>2, <1>3, <1>4, <1>5

\* Two transactions touch one row only if that has been noticed.
LEMMA Alone ==
  ASSUME TypeInv, NEW p \in Requests, NEW q \in Requests, NEW row,
         row \in Touches(doing[p]), row \in Touches(doing[q]), row \notin contended
  PROVE  p = q
  BY DEF TypeInv, Separate

LEMMA RollbackKeeps ==
  ASSUME AccountsInv, NEW q \in Requests, Rollback(q)
  PROVE  AccountsInv'
<1>1. UNCHANGED <<users, signups, roles, tokens>> /\ End(q)
    BY DEF Rollback, tables
<1>2. Len(tokens) \in Nat
    BY DEF AccountsInv, TypeInv, AccountsTypeOK
<1>3. /\ doing' \in [Requests -> Transaction]
      /\ \A p \in Requests : doing'[p] = IF p = q THEN Idle ELSE doing[p]
      /\ \A p \in Requests : Sound(doing[p])'
      /\ Separate'
      /\ contended' = contended /\ begun' \in 0 .. MaxBegun
    BY <1>1, <1>2, EndKeeps DEF AccountsInv
<1>4. AccountsTypeOK'
    BY <1>1, <1>3 DEF AccountsInv, TypeInv, AccountsTypeOK
<1>5. AdminsInv' /\ TokenInv' /\ SignupInv' /\ RoleInUseStays'
    BY <1>1, <1>3, IdleTouchesNothing
       DEF AccountsInv, AdminsInv, Admins, TokenInv, SignupInv, RoleInUseStays
<1> QED BY <1>3, <1>4, <1>5 DEF AccountsInv, TypeInv

-----------------------------------------------------------------------------
(* What a commit leaves alone stays as it was *)

LEMMA AdminsStay ==
  ASSUME AccountsInv, NEW q \in Requests, End(q), Admins \subseteq Admins'
  PROVE  AdminsInv'
<1>1. /\ contended' = contended
      /\ \A p \in Requests : doing'[p] \in {Idle, doing[p]}
    BY DEF End, AccountsInv, TypeInv, AccountsTypeOK
<1> QED BY <1>1, IdleTouchesNothing DEF AccountsInv, AdminsInv

LEMMA TokensStay ==
  ASSUME AccountsInv, NEW q \in Requests, End(q), UNCHANGED tokens
  PROVE  TokenInv'
<1>1. /\ contended' = contended
      /\ \A p \in Requests : doing'[p] \in {Idle, doing[p]}
    BY DEF End, AccountsInv, TypeInv, AccountsTypeOK
<1> QED BY <1>1, IdleTouchesNothing, ZenonT(60) DEF AccountsInv, TokenInv

LEMMA SignupsStay ==
  ASSUME AccountsInv, NEW q \in Requests, End(q),
         \A e \in Emails : /\ signups'[e].status = signups[e].status
                           /\ users'[e].invited => users[e].invited
  PROVE  SignupInv'
<1>1. /\ contended' = contended
      /\ \A p \in Requests : doing'[p] \in {Idle, doing[p]}
    BY DEF End, AccountsInv, TypeInv, AccountsTypeOK
<1> QED BY <1>1, IdleTouchesNothing DEF AccountsInv, SignupInv

LEMMA RolesStay ==
  ASSUME AccountsInv, NEW q \in Requests, End(q),
         \A e \in Emails : users'[e].role \in {users[e].role, None}
  PROVE  RoleInUseStays'
<1>1. /\ contended' = contended
      /\ \A p \in Requests : doing'[p] \in {Idle, doing[p]}
    BY DEF End, AccountsInv, TypeInv, AccountsTypeOK
<1>2. \A p \in Requests : doing[p].op = "delete_role" => doing[p].role # None
    BY RolesAssumption DEF AccountsInv, TypeInv, Sound
<1> QED BY <1>1, <1>2, IdleTouchesNothing DEF AccountsInv, RoleInUseStays

\* A new link is unused, and no request redeems it yet.
LEMMA AppendKeeps ==
  ASSUME AccountsInv, NEW q \in Requests, End(q), NEW e \in Emails,
         Len(tokens) < MaxTokens, tokens' = Append(tokens, NewToken(e))
  PROVE  /\ tokens' \in Seq(SetupToken) /\ Len(tokens') = Len(tokens) + 1
         /\ Len(tokens) \in Nat /\ Len(tokens') <= MaxTokens
         /\ \A k \in 1 .. Len(tokens) : tokens'[k] = tokens[k]
         /\ tokens'[Len(tokens')].user = e
         /\ TokenInv'
<1>1. tokens \in Seq(SetupToken) /\ NewToken(e) \in SetupToken
    BY DEF AccountsInv, TypeInv, AccountsTypeOK, NewToken, SetupToken
<1>2. /\ tokens' \in Seq(SetupToken) /\ Len(tokens') = Len(tokens) + 1
      /\ Len(tokens) \in Nat /\ Len(tokens') <= MaxTokens
      /\ \A k \in 1 .. Len(tokens) : tokens'[k] = tokens[k]
      /\ tokens'[Len(tokens) + 1] = NewToken(e)
    BY <1>1, BoundsAssumption
<1>3. ~ NewToken(e).used /\ NewToken(e).uses = 0 /\ NewToken(e).user = e
    BY DEF NewToken
<1>4. /\ contended' = contended
      /\ \A p \in Requests : doing'[p] \in {Idle, doing[p]}
    BY DEF End, AccountsInv, TypeInv, AccountsTypeOK
<1>5. TokenInv'
  <2>1. ASSUME NEW k \in 1 .. Len(tokens)
        PROVE  /\ ~ tokens'[k].used => tokens'[k].uses = 0
               /\ <<"token", k>> \notin contended' =>
                    /\ tokens'[k].uses <= 1
                    /\ \A p \in Requests :
                         doing'[p].op = "consume" /\ doing'[p].token = k => ~ tokens'[k].used
      BY <1>2, <1>4, IdleTouchesNothing DEF AccountsInv, TokenInv
  <2>2. ASSUME NEW k \in 1 .. Len(tokens'), k \notin 1 .. Len(tokens)
        PROVE  ~ tokens'[k].used /\ tokens'[k].uses = 0
    <3>1. tokens'[k] = NewToken(e)
        BY <1>2, <2>2
    <3> QED BY <1>3, <3>1
  <2> SUFFICES ASSUME NEW k \in 1 .. Len(tokens')
               PROVE  /\ ~ tokens'[k].used => tokens'[k].uses = 0
                      /\ <<"token", k>> \notin contended' =>
                           /\ tokens'[k].uses <= 1
                           /\ \A p \in Requests :
                                doing'[p].op = "consume" /\ doing'[p].token = k => ~ tokens'[k].used
      BY DEF TokenInv
  <2>3. CASE k \in 1 .. Len(tokens)
      BY <2>1, <2>3
  <2>4. CASE k \notin 1 .. Len(tokens)
      BY <2>2, <2>4
  <2> QED BY <2>3, <2>4
<1> QED BY <1>2, <1>3, <1>5

-----------------------------------------------------------------------------
(* Signup requests and invites *)

\* The types after a commit that leaves accounts and links alone.
LEMMA SignupTypes ==
  ASSUME AccountsInv, NEW q \in Requests, End(q), UNCHANGED <<users, tokens>>,
         signups' \in [Emails -> Signup], roles' \subseteq Roles
  PROVE  TypeInv' /\ AdminsInv' /\ TokenInv' /\ RoleInUseStays'
<1>1. Len(tokens) \in Nat
    BY DEF AccountsInv, TypeInv, AccountsTypeOK
<1>2. /\ doing' \in [Requests -> Transaction]
      /\ \A p \in Requests : Sound(doing[p])'
      /\ Separate' /\ begun' \in 0 .. MaxBegun
    BY <1>1, EndKeeps DEF AccountsInv
<1>3. AccountsTypeOK'
    BY <1>2 DEF AccountsInv, TypeInv, AccountsTypeOK
<1>4. AdminsInv'
    BY AdminsStay DEF Admins
<1>5. TokenInv' /\ RoleInUseStays'
    BY TokensStay, RolesStay
<1> QED BY <1>2, <1>3, <1>4, <1>5 DEF TypeInv

LEMMA CommitSubmitKeeps ==
  ASSUME AccountsInv, NEW q \in Requests, CommitSubmit(q)
  PROVE  AccountsInv'
<1> DEFINE e == doing[q].on
<1>1. /\ e \in Emails /\ signups[e].status = "none" /\ End(q)
      /\ UNCHANGED <<users, roles, tokens>>
      /\ signups' = [signups EXCEPT ![e].status = "pending"]
    BY DEF CommitSubmit, AccountsInv, TypeInv, Sound
<1> HIDE DEF e
<1>2. /\ signups' \in [Emails -> Signup]
      /\ \A f \in Emails : signups'[f].status = IF f = e THEN "pending" ELSE signups[f].status
    BY <1>1 DEF AccountsInv, TypeInv, AccountsTypeOK, Signup, Statuses
<1>3. TypeInv' /\ AdminsInv' /\ TokenInv' /\ RoleInUseStays'
    BY <1>1, <1>2, SignupTypes DEF AccountsInv, TypeInv, AccountsTypeOK
<1>4. /\ contended' = contended
      /\ \A p \in Requests : doing'[p] \in {Idle, doing[p]}
    BY <1>1 DEF End, AccountsInv, TypeInv, AccountsTypeOK
<1>5. SignupInv'
    BY <1>1, <1>2, <1>4, IdleTouchesNothing DEF AccountsInv, SignupInv
<1> QED BY <1>3, <1>5 DEF AccountsInv

\* A decision about a signup is the only one under way.
LEMMA DecisionKeeps ==
  ASSUME AccountsInv, NEW q \in Requests, End(q),
         doing[q].op \in {"approve", "approve_new_role", "reject", "register"},
         NEW status \in Statuses, doing[q].on \in Emails,
         \A e \in Emails : signups'[e].status =
           IF e = doing[q].on THEN status ELSE signups[e].status,
         \A e \in Emails : users'[e].invited => users[e].invited \/ e = doing[q].on,
         doing[q].op = "register" => status = "registered",
         doing[q].op # "register" => UNCHANGED users
  PROVE  SignupInv'
<1>1. /\ contended' = contended /\ doing \in [Requests -> Transaction]
      /\ \A p \in Requests : doing'[p] = IF p = q THEN Idle ELSE doing[p]
    BY DEF End, AccountsInv, TypeInv, AccountsTypeOK
<1> SUFFICES ASSUME NEW e \in Emails, <<"signup", e>> \notin contended
             PROVE  /\ users'[e].invited => signups'[e].status = "registered"
                    /\ \A p \in Requests : doing'[p].on = e =>
                         /\ doing'[p].op \in {"approve", "approve_new_role", "reject"}
                              => signups'[e].status = "pending"
                         /\ doing'[p].op = "register" => signups'[e].status = "approved"
    BY <1>1 DEF SignupInv
<1>2. CASE e # doing[q].on
    BY <1>1, <1>2, IdleTouchesNothing DEF AccountsInv, SignupInv
<1>3. CASE e = doing[q].on
  <2>1. <<"signup", e>> \in Touches(doing[q])
      BY <1>1, <1>3, TouchesSignup
  <2>2. ASSUME NEW p \in Requests, doing'[p].on = e,
               doing'[p].op \in {"approve", "approve_new_role", "reject", "register"}
        PROVE  FALSE
    <3>1. p # q /\ doing[p] = doing'[p]
        BY <1>1, <2>2, IdleTouchesNothing
    <3>2. <<"signup", e>> \in Touches(doing[p])
        BY <1>1, <2>2, <3>1, TouchesSignup
    <3> QED BY <2>1, <3>1, <3>2, Alone DEF AccountsInv
  <2>3. users'[e].invited => signups'[e].status = "registered"
    <3>1. CASE doing[q].op = "register"
        BY <1>3, <3>1
    <3>2. CASE doing[q].op # "register"
        BY <1>3, <3>2 DEF AccountsInv, SignupInv
    <3> QED BY <3>1, <3>2
  <2> QED BY <2>2, <2>3
<1> QED BY <1>2, <1>3

LEMMA CommitApproveKeeps ==
  ASSUME AccountsInv, NEW q \in Requests, CommitApprove(q)
  PROVE  AccountsInv'
<1> DEFINE x == doing[q]
           row == [status |-> "approved", role |-> x.role, expired |-> FALSE]
<1>1. /\ x \in Transaction /\ Sound(x)
      /\ x.op \in {"approve", "approve_new_role"} /\ End(q)
      /\ roles' \in {roles, roles \cup {x.role}}
      /\ UNCHANGED <<users, tokens>>
      /\ signups' = [signups EXCEPT ![x.on] = row]
    BY DEF CommitApprove, AccountsInv, TypeInv, AccountsTypeOK
<1>2. x.on \in Emails /\ x.role \in Roles
    BY <1>1 DEF Sound
<1>3. row \in Signup /\ row.status = "approved"
    BY <1>2 DEF Signup, Statuses
<1> HIDE DEF row
<1>4. /\ signups' \in [Emails -> Signup]
      /\ \A e \in Emails : signups'[e].status = IF e = x.on THEN "approved" ELSE signups[e].status
    BY <1>1, <1>2, <1>3 DEF AccountsInv, TypeInv, AccountsTypeOK
<1>5. roles' \subseteq Roles
    BY <1>1, <1>2 DEF AccountsInv, TypeInv, AccountsTypeOK
<1>6. TypeInv' /\ AdminsInv' /\ TokenInv' /\ RoleInUseStays'
    BY <1>1, <1>4, <1>5, SignupTypes
<1>7. SignupInv'
    BY <1>1, <1>2, <1>4, DecisionKeeps DEF Statuses
<1> QED BY <1>6, <1>7 DEF AccountsInv

LEMMA CommitRejectKeeps ==
  ASSUME AccountsInv, NEW q \in Requests, CommitReject(q)
  PROVE  AccountsInv'
<1> DEFINE e == doing[q].on
<1>1. /\ e \in Emails /\ doing[q].op = "reject" /\ End(q)
      /\ UNCHANGED <<users, roles, tokens>>
      /\ signups' = [signups EXCEPT ![e].status = "rejected"]
    BY DEF CommitReject, AccountsInv, TypeInv, Sound
<1>2. /\ signups' \in [Emails -> Signup]
      /\ \A f \in Emails : signups'[f].status = IF f = e THEN "rejected" ELSE signups[f].status
  <2> HIDE DEF e
  <2> QED BY <1>1 DEF AccountsInv, TypeInv, AccountsTypeOK, Signup, Statuses
<1>3. TypeInv' /\ AdminsInv' /\ TokenInv' /\ RoleInUseStays'
    BY <1>1, <1>2, SignupTypes DEF AccountsInv, TypeInv, AccountsTypeOK
<1>4. SignupInv'
    BY <1>1, <1>2, DecisionKeeps DEF Statuses
<1> QED BY <1>3, <1>4 DEF AccountsInv

LEMMA ExpireInviteKeeps ==
  ASSUME AccountsInv, NEW e \in Emails, ExpireInvite(e)
  PROVE  AccountsInv'
<1>1. /\ signups' = [signups EXCEPT ![e].expired = TRUE]
      /\ UNCHANGED <<users, roles, tokens, doing, contended, begun>>
    BY DEF ExpireInvite
<1>2. /\ signups' \in [Emails -> Signup]
      /\ \A f \in Emails : signups'[f].status = signups[f].status
    BY <1>1 DEF AccountsInv, TypeInv, AccountsTypeOK, Signup
<1> QED BY <1>1, <1>2
        DEF AccountsInv, TypeInv, AccountsTypeOK, Sound, Separate, Touches, AdminsInv, Admins,
            TokenInv, SignupInv, RoleInUseStays

\* A role that is being given to somebody is not deleted at the same time,
\* or that has been noticed.
LEMMA GivenRoleStays ==
  ASSUME AccountsInv, NEW q \in Requests, End(q),
         doing[q].op \in {"register", "change"},
         \A e \in Emails : users'[e].role \in {users[e].role, doing[q].role, None}
  PROVE  RoleInUseStays'
<1>1. /\ contended' = contended /\ doing \in [Requests -> Transaction]
      /\ \A p \in Requests : doing'[p] = IF p = q THEN Idle ELSE doing[p]
    BY DEF End, AccountsInv, TypeInv, AccountsTypeOK
<1> SUFFICES ASSUME NEW p \in Requests, NEW e \in Emails, doing'[p].op = "delete_role",
                    <<"role", doing'[p].role>> \notin contended
             PROVE  users'[e].role # doing'[p].role
    BY <1>1 DEF RoleInUseStays
<1>2. p # q /\ doing'[p] = doing[p]
    BY <1>1, IdleTouchesNothing
<1> DEFINE r == doing[p].role
<1>3. r \in Roles /\ r # None /\ <<"role", r>> \in Touches(doing[p])
    BY <1>1, <1>2, RolesAssumption, TouchesRole DEF AccountsInv, TypeInv, Sound
<1>4. users[e].role # r
    BY <1>1, <1>2 DEF AccountsInv, RoleInUseStays
<1>5. doing[q].role # r
  <2>1. doing[q].role = r => <<"role", r>> \in Touches(doing[q])
      BY <1>1, <1>3, TouchesRole
  <2> QED BY <1>2, <1>3, <2>1, Alone DEF AccountsInv
<1> QED BY <1>2, <1>3, <1>4, <1>5

-----------------------------------------------------------------------------
(* Accounts and links *)

\* The types after a commit: what there was of accounts and links remains.
LEMMA TypesAfter ==
  ASSUME AccountsInv, NEW q \in Requests, End(q),
         users' \in [Emails -> User], signups' \in [Emails -> Signup],
         roles' \subseteq Roles, tokens' \in Seq(SetupToken),
         Len(tokens) <= Len(tokens'), Len(tokens') <= MaxTokens,
         \A e \in Emails : users[e].known => users'[e].known,
         \A e \in Emails : ~ users'[e].known => users'[e] = NoUser,
         \A k \in 1 .. Len(tokens') : users'[tokens'[k].user].known
  PROVE  TypeInv'
<1>1. Len(tokens') \in Nat
    OBVIOUS
<1>2. /\ doing' \in [Requests -> Transaction]
      /\ \A p \in Requests : Sound(doing[p])'
      /\ Separate' /\ begun' \in 0 .. MaxBegun
    BY <1>1, EndKeeps DEF AccountsInv
<1> QED BY <1>2 DEF TypeInv, AccountsTypeOK

\* A link belongs to an account.
LEMMA LinksBelong ==
  ASSUME TypeInv
  PROVE  /\ Len(tokens) \in Nat /\ Len(tokens) <= MaxTokens /\ tokens \in Seq(SetupToken)
         /\ \A k \in 1 .. Len(tokens) : /\ tokens[k] \in SetupToken
                                        /\ tokens[k].user \in Emails
                                        /\ users[tokens[k].user].known
<1>1. tokens \in Seq(SetupToken) /\ Len(tokens) <= MaxTokens
      /\ \A k \in 1 .. Len(tokens) : users[tokens[k].user].known
    BY DEF TypeInv, AccountsTypeOK
<1>2. Len(tokens) \in Nat /\ \A k \in 1 .. Len(tokens) : tokens[k] \in SetupToken
    BY <1>1
<1>3. \A k \in 1 .. Len(tokens) : tokens[k].user \in Emails
    BY <1>2 DEF SetupToken
<1> QED BY <1>1, <1>2, <1>3

\* One link changes, the others and their number do not.
LEMMA LinkChanges ==
  ASSUME NEW s \in Seq(SetupToken), NEW k \in 1 .. Len(s), NEW t \in SetupToken,
         NEW n, n = [s EXCEPT ![k] = t]
  PROVE  /\ n \in Seq(SetupToken) /\ Len(n) = Len(s) /\ n[k] = t
         /\ \A j \in 1 .. Len(s) : j # k => n[j] = s[j]
  OBVIOUS

LEMMA LinkRedeemed ==
  ASSUME NEW l \in SetupToken, NEW t, t = [l EXCEPT !.used = TRUE, !.uses = @ + 1]
  PROVE  t \in SetupToken /\ t.used /\ t.uses = l.uses + 1 /\ t.user = l.user
<1>1. l.uses \in Nat /\ l.uses + 1 \in Nat
    BY DEF SetupToken
<1> DEFINE n == l.uses + 1
<1>2. t = [l EXCEPT !.used = TRUE, !.uses = n] /\ n \in Nat
    BY <1>1
<1> HIDE DEF n
<1>3. t \in SetupToken /\ t.used /\ t.uses = n /\ t.user = l.user
    BY ONLY <1>2, l \in SetupToken DEF SetupToken
<1> QED BY <1>3 DEF n

LEMMA CommitRegisterKeeps ==
  ASSUME AccountsInv, NEW q \in Requests, CommitRegister(q)
  PROVE  AccountsInv'
<1> DEFINE x == doing[q]
           row == [known |-> TRUE, admin |-> FALSE, active |-> TRUE,
                   password |-> TRUE, role |-> x.role, invited |-> TRUE]
<1>1. /\ x \in Transaction /\ x.op = "register" /\ x.on \in Emails /\ End(q)
      /\ ~ users[x.on].known /\ x.role \in roles \cup {None}
      /\ UNCHANGED <<roles, tokens>>
      /\ users' = [users EXCEPT ![x.on] = row]
      /\ signups' = [signups EXCEPT ![x.on].status = "registered"]
    BY DEF CommitRegister, AccountsInv, TypeInv, AccountsTypeOK, Sound
<1>2. /\ row \in User /\ row.known /\ ~ row.admin /\ row.role = x.role
    BY <1>1 DEF User, AccountsInv, TypeInv, AccountsTypeOK
<1> HIDE DEF row
<1>3. /\ users' \in [Emails -> User]
      /\ \A e \in Emails : users'[e] = IF e = x.on THEN row ELSE users[e]
    BY <1>1, <1>2 DEF AccountsInv, TypeInv, AccountsTypeOK
<1>4. /\ signups' \in [Emails -> Signup]
      /\ \A e \in Emails : signups'[e].status =
           IF e = x.on THEN "registered" ELSE signups[e].status
  <2>1. x.on \in Emails
      BY <1>1
  <2> HIDE DEF x
  <2> QED BY <1>1, <2>1 DEF AccountsInv, TypeInv, AccountsTypeOK, Signup, Statuses
<1>5. TypeInv'
  <2>1. \A k \in 1 .. Len(tokens) : tokens[k].user \in Emails /\ users[tokens[k].user].known
      BY LinksBelong DEF AccountsInv
  <2>2. \A k \in 1 .. Len(tokens) : users'[tokens[k].user].known
      BY <1>2, <1>3, <2>1
  <2> QED BY <1>1, <1>2, <1>3, <1>4, <2>2, TypesAfter DEF AccountsInv, TypeInv, AccountsTypeOK
<1>6. Admins \subseteq Admins'
  <2>1. ~ users[x.on].admin
      BY <1>1 DEF AccountsInv, TypeInv, AccountsTypeOK, NoUser
  <2> QED BY <1>3, <2>1 DEF Admins
<1>7. AdminsInv' /\ TokenInv'
    BY <1>1, <1>6, AdminsStay, TokensStay
<1>8. SignupInv'
    BY <1>1, <1>3, <1>4, DecisionKeeps DEF Statuses
<1>9. RoleInUseStays'
    BY <1>1, <1>2, <1>3, GivenRoleStays
<1> QED BY <1>5, <1>7, <1>8, <1>9 DEF AccountsInv

LEMMA CommitIssueKeeps ==
  ASSUME AccountsInv, NEW q \in Requests, CommitIssue(q)
  PROVE  AccountsInv'
<1> DEFINE e == doing[q].on
<1>1. /\ e \in Emails /\ users[e].known /\ End(q) /\ Len(tokens) < MaxTokens
      /\ tokens' = Append(tokens, NewToken(e))
      /\ UNCHANGED <<users, signups, roles>>
    BY DEF CommitIssue, AccountsInv, TypeInv, Sound
<1> HIDE DEF e
<1>2. /\ tokens' \in Seq(SetupToken) /\ Len(tokens') = Len(tokens) + 1
      /\ Len(tokens) \in Nat /\ Len(tokens') <= MaxTokens
      /\ \A k \in 1 .. Len(tokens) : tokens'[k] = tokens[k]
      /\ tokens'[Len(tokens')].user = e
      /\ TokenInv'
    BY <1>1, AppendKeeps
<1>3. \A k \in 1 .. Len(tokens') : users'[tokens'[k].user].known
  <2>1. \A k \in 1 .. Len(tokens) : users[tokens[k].user].known
      BY DEF AccountsInv, TypeInv, AccountsTypeOK
  <2>2. \A k \in 1 .. Len(tokens') : k \in 1 .. Len(tokens) \/ k = Len(tokens')
      BY <1>2
  <2> QED BY <1>1, <1>2, <2>1, <2>2
<1>4. TypeInv'
  <2>1. Len(tokens) <= Len(tokens')
      BY <1>2
  <2> QED BY <1>1, <1>2, <1>3, <2>1, TypesAfter DEF AccountsInv, TypeInv, AccountsTypeOK
<1>5. AdminsInv' /\ SignupInv' /\ RoleInUseStays'
    BY <1>1, AdminsStay, SignupsStay, RolesStay DEF Admins
<1> QED BY <1>2, <1>4, <1>5 DEF AccountsInv

LEMMA CommitCreateAdminKeeps ==
  ASSUME AccountsInv, NEW q \in Requests, CommitCreateAdmin(q)
  PROVE  AccountsInv'
<1> DEFINE e == doing[q].on
<1>1. /\ e \in Emails /\ ~ users[e].known /\ End(q) /\ Len(tokens) < MaxTokens
      /\ users' = [users EXCEPT ![e] = AdminShell]
      /\ tokens' = Append(tokens, NewToken(e))
      /\ UNCHANGED <<signups, roles>>
    BY DEF CommitCreateAdmin, AccountsInv, TypeInv, Sound
<1> HIDE DEF e
<1>2. AdminShell \in User /\ AdminShell.known /\ AdminShell.admin
      /\ ~ AdminShell.invited /\ AdminShell.role = None
    BY DEF AdminShell, NoUser, User
<1>3. /\ users' \in [Emails -> User]
      /\ \A f \in Emails : users'[f] = IF f = e THEN AdminShell ELSE users[f]
    BY <1>1, <1>2 DEF AccountsInv, TypeInv, AccountsTypeOK
<1>4. /\ tokens' \in Seq(SetupToken) /\ Len(tokens') = Len(tokens) + 1
      /\ Len(tokens) \in Nat /\ Len(tokens') <= MaxTokens
      /\ \A k \in 1 .. Len(tokens) : tokens'[k] = tokens[k]
      /\ tokens'[Len(tokens')].user = e
      /\ TokenInv'
    BY <1>1, AppendKeeps
<1>5. \A k \in 1 .. Len(tokens') : users'[tokens'[k].user].known
  <2>1. \A k \in 1 .. Len(tokens) : tokens[k].user \in Emails /\ users[tokens[k].user].known
      BY LinksBelong DEF AccountsInv
  <2>2. \A k \in 1 .. Len(tokens') : k \in 1 .. Len(tokens) \/ k = Len(tokens')
      BY <1>4
  <2> QED BY <1>1, <1>2, <1>3, <1>4, <2>1, <2>2
<1>6. TypeInv'
  <2>1. Len(tokens) <= Len(tokens')
      BY <1>4
  <2> QED BY <1>1, <1>2, <1>3, <1>4, <1>5, <2>1, TypesAfter
          DEF AccountsInv, TypeInv, AccountsTypeOK
<1>7. AdminsInv' /\ SignupInv' /\ RoleInUseStays'
    BY <1>1, <1>2, <1>3, AdminsStay, SignupsStay, RolesStay DEF Admins
<1> QED BY <1>4, <1>6, <1>7 DEF AccountsInv

\* A link that is redeemed alone has not been used.
LEMMA CommitConsumeKeeps ==
  ASSUME AccountsInv, NEW q \in Requests, CommitConsume(q)
  PROVE  AccountsInv'
<1> DEFINE e == doing[q].on
           k == doing[q].token
<1>1. /\ doing \in [Requests -> Transaction] /\ doing[q].op = "consume"
      /\ e \in Emails /\ k \in 1 .. Len(tokens) /\ End(q)
      /\ users' = [users EXCEPT ![e].password = TRUE]
      /\ tokens' = [tokens EXCEPT ![k].used = TRUE, ![k].uses = @ + 1]
      /\ UNCHANGED <<signups, roles>>
      /\ users[e].known
    BY DEF CommitConsume, AccountsInv, TypeInv, AccountsTypeOK, Sound
<1>2. /\ users \in [Emails -> User] /\ tokens \in Seq(SetupToken) /\ Len(tokens) \in Nat
      /\ Len(tokens) <= MaxTokens
      /\ \A j \in 1 .. Len(tokens) : users[tokens[j].user].known /\ tokens[j].user \in Emails
    BY LinksBelong DEF AccountsInv, TypeInv, AccountsTypeOK
<1>3. /\ users' \in [Emails -> User]
      /\ \A f \in Emails : /\ users'[f].known = users[f].known
                           /\ users'[f].admin = users[f].admin
                           /\ users'[f].role = users[f].role
                           /\ users'[f].invited = users[f].invited
      /\ \A f \in Emails : f # e => users'[f] = users[f]
  <2> HIDE DEF e, k
  <2> QED BY <1>1, <1>2 DEF User
<1>4. /\ tokens' \in Seq(SetupToken) /\ Len(tokens') = Len(tokens)
      /\ \A j \in 1 .. Len(tokens) : tokens'[j].user = tokens[j].user
      /\ \A j \in 1 .. Len(tokens) : j # k => tokens'[j] = tokens[j]
      /\ tokens'[k].used /\ tokens'[k].uses = tokens[k].uses + 1
  <2> DEFINE t == [tokens[k] EXCEPT !.used = TRUE, !.uses = @ + 1]
  <2>1. tokens[k] \in SetupToken
      BY <1>1, LinksBelong DEF AccountsInv
  <2> HIDE DEF e, k
  <2>2. /\ t \in SetupToken /\ t.used /\ t.uses = tokens[k].uses + 1
        /\ t.user = tokens[k].user
      BY <2>1, LinkRedeemed
  <2>3. tokens' = [tokens EXCEPT ![k] = t]
      BY <1>1, <1>2
  <2> HIDE DEF t
  <2>4. /\ tokens' \in Seq(SetupToken) /\ Len(tokens') = Len(tokens) /\ tokens'[k] = t
        /\ \A j \in 1 .. Len(tokens) : j # k => tokens'[j] = tokens[j]
    <3>1. t \in SetupToken /\ tokens \in Seq(SetupToken) /\ k \in 1 .. Len(tokens)
        BY <1>1, <1>2, <2>2
    <3> QED BY <2>3, <3>1, LinkChanges
  <2> QED BY <2>2, <2>4
<1>5. TypeInv'
  <2>1. \A f \in Emails : ~ users'[f].known => users'[f] = NoUser
      BY <1>1, <1>3 DEF AccountsInv, TypeInv, AccountsTypeOK
  <2>2. \A j \in 1 .. Len(tokens') : users'[tokens'[j].user].known
      BY <1>2, <1>3, <1>4
  <2>3. /\ signups' \in [Emails -> Signup] /\ roles' \subseteq Roles
        /\ Len(tokens) <= Len(tokens') /\ Len(tokens') <= MaxTokens
        /\ \A f \in Emails : users[f].known => users'[f].known
      BY <1>1, <1>2, <1>3, <1>4 DEF AccountsInv, TypeInv, AccountsTypeOK
  <2> HIDE DEF e, k
  <2> QED BY <1>1, <1>3, <1>4, <2>1, <2>2, <2>3, TypesAfter
<1>6. AdminsInv' /\ SignupInv' /\ RoleInUseStays'
    BY <1>1, <1>3, AdminsStay, SignupsStay, RolesStay DEF Admins
<1>7. /\ contended' = contended
      /\ \A p \in Requests : doing'[p] = IF p = q THEN Idle ELSE doing[p]
    BY <1>1 DEF End
<1>8. ASSUME NEW j \in 1 .. Len(tokens), j # k
      PROVE  /\ ~ tokens'[j].used => tokens'[j].uses = 0
             /\ <<"token", j>> \notin contended =>
                  /\ tokens'[j].uses <= 1
                  /\ \A p \in Requests :
                       doing'[p].op = "consume" /\ doing'[p].token = j => ~ tokens'[j].used
    BY <1>4, <1>7, <1>8, IdleTouchesNothing DEF AccountsInv, TokenInv
<1>9. ASSUME <<"token", k>> \notin contended
      PROVE  /\ tokens'[k].uses <= 1
             /\ \A p \in Requests : ~ (doing'[p].op = "consume" /\ doing'[p].token = k)
  <2>1. ~ tokens[k].used /\ tokens[k].uses = 0
      BY <1>1, <1>9 DEF AccountsInv, TokenInv
  <2>2. k \in Nat /\ <<"token", k>> \in Touches(doing[q])
      BY <1>1, <1>2, TouchesToken
  <2>3. ASSUME NEW p \in Requests, doing'[p].op = "consume", doing'[p].token = k
        PROVE  FALSE
    <3>1. p # q /\ doing[p] = doing'[p]
        BY <1>7, <2>3, IdleTouchesNothing
    <3>2. <<"token", k>> \in Touches(doing[p])
        BY <1>1, <2>2, <2>3, <3>1, TouchesToken
    <3> QED BY <1>9, <2>2, <3>1, <3>2, Alone DEF AccountsInv
  <2> QED BY <1>4, <2>1, <2>3
<1>10. TokenInv'
  <2> HIDE DEF k
  <2> SUFFICES ASSUME NEW j \in 1 .. Len(tokens)
               PROVE  /\ ~ tokens'[j].used => tokens'[j].uses = 0
                      /\ <<"token", j>> \notin contended =>
                           /\ tokens'[j].uses <= 1
                           /\ \A p \in Requests :
                                doing'[p].op = "consume" /\ doing'[p].token = j => ~ tokens'[j].used
      BY <1>4, <1>7 DEF TokenInv
  <2>1. CASE j # k
      BY <1>8, <2>1
  <2>2. CASE j = k
      BY <1>4, <1>9, <2>2
  <2> QED BY <2>1, <2>2
<1> QED BY <1>5, <1>6, <1>10 DEF AccountsInv

LEMMA ExpireTokenKeeps ==
  ASSUME AccountsInv, NEW k \in 1 .. Len(tokens), ExpireToken(k)
  PROVE  AccountsInv'
<1>1. /\ tokens \in Seq(SetupToken) /\ Len(tokens) \in Nat
      /\ tokens' = [tokens EXCEPT ![k].expired = TRUE]
      /\ UNCHANGED <<users, signups, roles, doing, contended, begun>>
    BY DEF ExpireToken, AccountsInv, TypeInv, AccountsTypeOK
<1>2. /\ tokens' \in Seq(SetupToken) /\ Len(tokens') = Len(tokens)
      /\ \A j \in 1 .. Len(tokens) : /\ tokens'[j].user = tokens[j].user
                                     /\ tokens'[j].used = tokens[j].used
                                     /\ tokens'[j].uses = tokens[j].uses
  <2> DEFINE t == [tokens[k] EXCEPT !.expired = TRUE]
  <2>1. tokens[k] \in SetupToken
      BY LinksBelong DEF AccountsInv
  <2>2. /\ t \in SetupToken /\ t.used = tokens[k].used /\ t.uses = tokens[k].uses
        /\ t.user = tokens[k].user
      BY <2>1 DEF SetupToken
  <2>3. tokens' = [tokens EXCEPT ![k] = t]
      BY <1>1
  <2> HIDE DEF t
  <2>4. /\ tokens' \in Seq(SetupToken) /\ Len(tokens') = Len(tokens) /\ tokens'[k] = t
        /\ \A j \in 1 .. Len(tokens) : j # k => tokens'[j] = tokens[j]
    <3>1. t \in SetupToken /\ tokens \in Seq(SetupToken) /\ k \in 1 .. Len(tokens)
        BY <1>1, <2>2
    <3> QED BY <2>3, <3>1, LinkChanges
  <2> QED BY <2>2, <2>4
<1>3. TypeInv'
    BY <1>1, <1>2 DEF AccountsInv, TypeInv, AccountsTypeOK, Sound, Separate, Touches
<1>4. TokenInv'
    BY <1>1, <1>2 DEF AccountsInv, TokenInv
<1>5. AdminsInv' /\ SignupInv' /\ RoleInUseStays'
    BY <1>1 DEF AccountsInv, AdminsInv, Admins, SignupInv, RoleInUseStays
<1> QED BY <1>3, <1>4, <1>5 DEF AccountsInv

-----------------------------------------------------------------------------
(* Administrators and roles *)

\* A demotion that is under way alone leaves the administrator it has found.
LEMMA DemotionKeeps ==
  ASSUME AccountsInv, NEW q \in Requests, End(q), Admins \ {doing[q].on} \subseteq Admins',
         "demote" \notin doing[q].set => Admins \subseteq Admins'
  PROVE  AdminsInv'
<1>1. CASE "demote" \notin doing[q].set
    BY <1>1, AdminsStay
<1>2. CASE "demote" \in doing[q].set
  <2>1. /\ contended' = contended /\ doing \in [Requests -> Transaction]
        /\ \A p \in Requests : doing'[p] = IF p = q THEN Idle ELSE doing[p]
      BY DEF End, AccountsInv, TypeInv, AccountsTypeOK
  <2> SUFFICES ASSUME <<"admins", None>> \notin contended
               PROVE  Admins' # {} /\ \A p \in Requests : "demote" \notin doing'[p].set
      BY <2>1 DEF AdminsInv
  <2>2. Admins \ {doing[q].on} # {}
      BY <1>2 DEF AccountsInv, AdminsInv
  <2>3. <<"admins", None>> \in Touches(doing[q])
      BY <1>2, <2>1, TouchesDemote
  <2>4. ASSUME NEW p \in Requests, "demote" \in doing'[p].set
        PROVE  FALSE
    <3>1. p # q /\ doing[p] = doing'[p]
        BY <2>1, <2>4, IdleTouchesNothing
    <3>2. <<"admins", None>> \in Touches(doing[p])
        BY <2>1, <2>4, <3>1, TouchesDemote
    <3> QED BY <2>3, <3>1, <3>2, Alone DEF AccountsInv
  <2> QED BY <2>2, <2>4
<1> QED BY <1>1, <1>2

LEMMA CommitChangeKeeps ==
  ASSUME AccountsInv, NEW q \in Requests, CommitChange(q)
  PROVE  AccountsInv'
<1> DEFINE x == doing[q]
           e == x.on
           admin == (users[e].admin \/ "promote" \in x.set) /\ "demote" \notin x.set
           active == (users[e].active \/ "enable" \in x.set) /\ "disable" \notin x.set
           role == IF "role" \in x.set THEN x.role ELSE users[e].role
           row == [users[e] EXCEPT !.admin = admin, !.active = active, !.role = role]
<1>1. /\ x \in Transaction /\ x.op = "change" /\ e \in Emails /\ End(q)
      /\ users[e].known
      /\ "role" \in x.set => x.role \in roles \cup {None}
      /\ UNCHANGED <<signups, roles, tokens>>
    BY DEF CommitChange, AccountsInv, TypeInv, AccountsTypeOK, Sound
<1>2. users' = [users EXCEPT ![e] = row]
    BY DEF CommitChange
<1>3. users[e] \in User /\ users \in [Emails -> User] /\ roles \subseteq Roles
    BY <1>1 DEF AccountsInv, TypeInv, AccountsTypeOK
<1>4. /\ admin \in BOOLEAN /\ active \in BOOLEAN
      /\ admin => users[e].admin \/ "promote" \in x.set
      /\ "demote" \notin x.set /\ users[e].admin => admin
    OBVIOUS
<1>5. role \in Roles \cup {None} /\ role \in {users[e].role, x.role}
    BY <1>1, <1>3 DEF User
<1>6. /\ row \in User /\ row.known = users[e].known /\ row.admin = admin
      /\ row.role = role /\ row.invited = users[e].invited
  <2> HIDE DEF admin, active, role, e
  <2> QED BY <1>3, <1>4, <1>5 DEF User
<1> HIDE DEF row, role, active
<1>7. /\ users' \in [Emails -> User]
      /\ \A f \in Emails : users'[f] = IF f = e THEN row ELSE users[f]
    BY <1>1, <1>2, <1>3, <1>6
<1>8. TypeInv'
  <2>1. \A k \in 1 .. Len(tokens) : users'[tokens[k].user].known
      BY <1>1, <1>6, <1>7, LinksBelong DEF AccountsInv
  <2>2. \A f \in Emails : ~ users'[f].known => users'[f] = NoUser
      BY <1>1, <1>6, <1>7 DEF AccountsInv, TypeInv, AccountsTypeOK
  <2>3. \A f \in Emails : users[f].known => users'[f].known
      BY <1>6, <1>7
  <2>4. /\ signups' \in [Emails -> Signup] /\ roles' \subseteq Roles
        /\ tokens' \in Seq(SetupToken) /\ Len(tokens) <= Len(tokens')
        /\ Len(tokens') <= MaxTokens /\ tokens' = tokens
      BY <1>1, LinksBelong DEF AccountsInv, TypeInv, AccountsTypeOK
  <2> QED BY <1>1, <1>7, <2>1, <2>2, <2>3, <2>4, TypesAfter
<1>9. AdminsInv'
  <2>1. Admins \ {e} \subseteq Admins'
      BY <1>7 DEF Admins
  <2>2. "demote" \notin x.set => Admins \subseteq Admins'
    <3>1. ASSUME "demote" \notin x.set, NEW f \in Admins
          PROVE  f \in Admins'
      <4>1. CASE f = e
          BY <1>1, <1>4, <1>6, <1>7, <3>1, <4>1 DEF Admins
      <4>2. CASE f # e
          BY <2>1, <4>2
      <4> QED BY <4>1, <4>2
    <3> QED BY <3>1
  <2> QED BY <1>1, <2>1, <2>2, DemotionKeeps
<1>10. TokenInv' /\ SignupInv'
  <2>1. \A f \in Emails : users'[f].invited => users[f].invited
      BY <1>6, <1>7
  <2> QED BY <1>1, <2>1, TokensStay, SignupsStay
<1>11. RoleInUseStays'
  <2>1. \A f \in Emails : users'[f].role \in {users[f].role, x.role, None}
      BY <1>5, <1>6, <1>7
  <2> QED BY <1>1, <2>1, GivenRoleStays
<1> QED BY <1>8, <1>9, <1>10, <1>11 DEF AccountsInv

LEMMA CommitCreateRoleKeeps ==
  ASSUME AccountsInv, NEW q \in Requests, CommitCreateRole(q)
  PROVE  AccountsInv'
<1>1. /\ doing[q].role \in Roles /\ End(q) /\ roles' = roles \cup {doing[q].role}
      /\ UNCHANGED <<users, signups, tokens>>
    BY DEF CommitCreateRole, AccountsInv, TypeInv, Sound
<1>2. roles' \subseteq Roles /\ signups' \in [Emails -> Signup]
    BY <1>1 DEF AccountsInv, TypeInv, AccountsTypeOK
<1>3. TypeInv' /\ AdminsInv' /\ TokenInv' /\ RoleInUseStays'
    BY <1>1, <1>2, SignupTypes
<1>4. SignupInv'
    BY <1>1, SignupsStay
<1> QED BY <1>3, <1>4 DEF AccountsInv

LEMMA CommitDeleteRoleKeeps ==
  ASSUME AccountsInv, NEW q \in Requests, CommitDeleteRole(q)
  PROVE  AccountsInv'
<1> DEFINE r == doing[q].role
<1>1. /\ End(q) /\ roles' = roles \ {r} /\ UNCHANGED tokens /\ r \in Roles
      /\ users' = [e \in Emails |-> IF users[e].role = r
                                    THEN [users[e] EXCEPT !.role = None] ELSE users[e]]
      /\ signups' = [e \in Emails |-> IF signups[e].role = r
                                      THEN [signups[e] EXCEPT !.role = None] ELSE signups[e]]
    BY DEF CommitDeleteRole, AccountsInv, TypeInv, Sound
<1> HIDE DEF r
<1>2. \A e \in Emails : users[e] \in User /\ signups[e] \in Signup
    BY DEF AccountsInv, TypeInv, AccountsTypeOK
<1>3. ASSUME NEW e \in Emails
      PROVE  /\ users'[e] \in User /\ users'[e].known = users[e].known
             /\ users'[e].admin = users[e].admin /\ users'[e].invited = users[e].invited
             /\ users'[e].role \in {users[e].role, None}
             /\ users[e].role = None => users'[e] = users[e]
    BY <1>1, <1>2, RolesAssumption DEF User
<1>4. ASSUME NEW e \in Emails
      PROVE  signups'[e] \in Signup /\ signups'[e].status = signups[e].status
    BY <1>1, <1>2 DEF Signup
<1>5. TypeInv'
  <2>1. users' \in [Emails -> User] /\ signups' \in [Emails -> Signup]
      BY <1>1, <1>3, <1>4
  <2>2. \A k \in 1 .. Len(tokens) : users'[tokens[k].user].known
      BY <1>3, LinksBelong DEF AccountsInv
  <2>3. \A e \in Emails : ~ users'[e].known => users'[e] = NoUser
    <3>1. NoUser.role = None
        BY DEF NoUser
    <3> QED BY <1>3, <3>1 DEF AccountsInv, TypeInv, AccountsTypeOK
  <2>4. \A e \in Emails : users[e].known => users'[e].known
      BY <1>3
  <2>5. /\ roles' \subseteq Roles
        /\ tokens' \in Seq(SetupToken) /\ Len(tokens) <= Len(tokens')
        /\ Len(tokens') <= MaxTokens /\ tokens' = tokens
      BY <1>1, LinksBelong DEF AccountsInv, TypeInv, AccountsTypeOK
  <2> QED BY <1>1, <2>1, <2>2, <2>3, <2>4, <2>5, TypesAfter
<1>6. Admins \subseteq Admins'
    BY <1>3 DEF Admins
<1>7. AdminsInv' /\ TokenInv' /\ SignupInv' /\ RoleInUseStays'
    BY <1>1, <1>3, <1>4, <1>6, AdminsStay, TokensStay, SignupsStay, RolesStay
<1> QED BY <1>5, <1>7 DEF AccountsInv

-----------------------------------------------------------------------------
(* The specification *)

LEMMA InitInv ==
  ASSUME Init
  PROVE  AccountsInv
<1>1. /\ AdminShell.known /\ AdminShell.admin /\ ~ AdminShell.invited
      /\ [AdminShell EXCEPT !.password = TRUE] \in User /\ NoUser \in User
      /\ [AdminShell EXCEPT !.password = TRUE].known
      /\ [AdminShell EXCEPT !.password = TRUE].admin
      /\ ~ [AdminShell EXCEPT !.password = TRUE].invited
      /\ ~ NoUser.invited
    BY DEF AdminShell, NoUser, User
<1>2. NoSignup \in Signup
    BY DEF NoSignup, Signup, Statuses
<1>3. AccountsTypeOK
  <2>1. users \in [Emails -> User] /\ signups \in [Emails -> Signup]
      BY <1>1, <1>2 DEF Init
  <2>2. \A e \in Emails : ~ users[e].known => users[e] = NoUser
      BY <1>1 DEF Init
  <2>3. tokens \in Seq(SetupToken) /\ Len(tokens) = 0 /\ Len(tokens) <= MaxTokens
      BY BoundsAssumption DEF Init
  <2>4. doing \in [Requests -> Transaction] /\ begun \in 0 .. MaxBegun /\ roles \subseteq Roles
      BY IdleTouchesNothing, RolesAssumption, BoundsAssumption DEF Init
  <2> QED BY <2>1, <2>2, <2>3, <2>4 DEF AccountsTypeOK
<1>4. \A q \in Requests : doing[q] = Idle
    BY DEF Init
<1>5. TypeInv
    BY <1>3, <1>4, IdleTouchesNothing DEF TypeInv, Sound, Separate
<1>6. AdminsInv
  <2>1. PICK e \in FirstAdmins : TRUE
      BY EmailsAssumption
  <2>2. e \in Admins
      BY <1>1, <2>1, EmailsAssumption DEF Init, Admins
  <2> QED BY <1>4, <2>2, IdleTouchesNothing DEF AdminsInv
<1>7. TokenInv
    BY DEF Init, TokenInv
<1>8. SignupInv
    BY <1>1, <1>4, IdleTouchesNothing DEF Init, SignupInv
<1>9. RoleInUseStays
    BY <1>4, IdleTouchesNothing DEF RoleInUseStays
<1> QED BY <1>5, <1>6, <1>7, <1>8, <1>9 DEF AccountsInv

LEMMA CommitKeeps ==
  ASSUME AccountsInv, NEW q \in Requests, CommitSome(q)
  PROVE  AccountsInv'
  BY CommitSubmitKeeps, CommitApproveKeeps, CommitRejectKeeps, CommitRegisterKeeps,
     CommitIssueKeeps, CommitConsumeKeeps, CommitCreateAdminKeeps, CommitChangeKeeps,
     CommitCreateRoleKeeps, CommitDeleteRoleKeeps DEF CommitSome

LEMMA StepInv ==
  ASSUME AccountsInv, [Next]_vars
  PROVE  AccountsInv'
<1>1. CASE Next
  <2>1. ASSUME NEW q \in Requests, BeginSome(q)
        PROVE  AccountsInv'
      BY <2>1, BeginsWell, BeginKeeps DEF AccountsInv
  <2>2. ASSUME NEW q \in Requests, CommitSome(q)
        PROVE  AccountsInv'
      BY <2>2, CommitKeeps
  <2>3. ASSUME NEW q \in Requests, Rollback(q)
        PROVE  AccountsInv'
      BY <2>3, RollbackKeeps
  <2> QED BY <1>1, <2>1, <2>2, <2>3, ExpireInviteKeeps, ExpireTokenKeeps DEF Next
<1>2. CASE UNCHANGED vars
    BY <1>2 DEF vars, AccountsInv, TypeInv, AccountsTypeOK, Sound, Separate, Touches,
                AdminsInv, Admins, TokenInv, SignupInv, RoleInUseStays
<1> QED BY <1>1, <1>2

LEMMA AlwaysInv == Spec => []AccountsInv
<1>1. Init => AccountsInv
    BY InitInv
<1>2. AccountsInv /\ [Next]_vars => AccountsInv'
    BY StepInv
<1> QED BY <1>1, <1>2, PTL DEF Spec

\* The tables keep rows of their types, an address without an account says
\* nothing, and a link belongs to an account, whatever requests overlap.
THEOREM AccountsKeepTypes == Spec => []AccountsTypeOK
<1>1. AccountsInv => AccountsTypeOK
    BY DEF AccountsInv, TypeInv
<1> QED BY <1>1, AlwaysInv, PTL

\* However administrators are made, demoted, enabled and disabled, by the
\* command line or by each other, set_admin leaves one, as long as no two
\* demotions are under way at once.
THEOREM AnAdministratorRemains == Spec => []AdminsRemain
<1>1. AccountsInv => AdminsRemain
    BY DEF AccountsInv, AdminsInv, AdminsRemain
<1> QED BY <1>1, AlwaysInv, PTL

\* A link sets at most one password, unless two requests redeem it at once:
\* consume_token does not look at used_at again.
THEOREM ALinkIsRedeemedOnce == Spec => []TokenUsedOnce
<1>1. AccountsInv => TokenUsedOnce
    BY DEF AccountsInv, TokenInv, TokenUsedOnce
<1> QED BY <1>1, AlwaysInv, PTL

\* A signup that has become an account is never decided about again, unless
\* a decision was under way while the invite was accepted or decided.
THEOREM AnInviteIsAcceptedOnce == Spec => []RegistrationIsFinal
<1>1. AccountsInv => RegistrationIsFinal
    BY DEF AccountsInv, SignupInv, RegistrationIsFinal
<1> QED BY <1>1, AlwaysInv, PTL

\* A role that delete_role has found unused is still unused when it goes,
\* unless it was being given to somebody at the same time.
THEOREM ADeletedRoleIsUnused == Spec => []RoleInUseStays
<1>1. AccountsInv => RoleInUseStays
    BY DEF AccountsInv
<1> QED BY <1>1, AlwaysInv, PTL

=============================================================================
