------------------------------ MODULE Sessions ------------------------------
(***************************************************************************)
(* One account: its password, its tokens, its roles and its deletion       *)
(* (apps/users/views.py, serializers.py, models.py, admin.py).  A request  *)
(* loads the account, checks what it must, and writes single columns or,   *)
(* for PATCH /users/me/ and the admin's forms, the whole copy.  Every save *)
(* of an account gives it back the role of its legacy column, and a        *)
(* reviewer's verdict grants or takes a provider role beside all that.     *)
(***************************************************************************)
EXTENDS Integers

CONSTANTS
  Accesses,      \* requests that can be under way at the same time
  MaxPasswords   \* bound: passwords ever set

ASSUME SessionsAssumption == MaxPasswords \in Nat \ {0}

VARIABLES
  account,       \* the row
  roles,         \* its roles
  tokens,        \* live tokens, each as the password it was obtained under
  access,        \* [Accesses -> what the request has read and does next]
  lastPassword,  \* history: the password set last (they are numbered)
  byAdmin,       \* history: what administrators have done that no request of the owner does
  overran        \* history: a request has written after its reading was out of date

sessionsVars == <<account, roles, tokens, access, lastPassword, byAdmin, overran>>

\* named: e-mail, names and telephone are those of a person; password 0 is unusable; FAMILY is
\* the legacy column's default, PROVIDER a role that a verification grants.
Passwords == 0..MaxPasswords
Roles == {"FAMILY", "PROVIDER"}
AccountRows == [password: Passwords, active: BOOLEAN, deleted: BOOLEAN, named: BOOLEAN]
AccessSteps == {"idle", "login", "token", "change", "reset", "confirm", "profile", "delete", "admin"}
NewAccount == [password |-> 1, active |-> TRUE, deleted |-> FALSE, named |-> TRUE]
AccessStates == [step: AccessSteps, copy: AccountRows, stale: BOOLEAN]
NoAccess == [step |-> "idle", copy |-> NewAccount, stale |-> FALSE]

\* RegisterVerifyView creates the account with the role FAMILY and a first token.
SessionsInit ==
  /\ account = NewAccount
  /\ roles = {"FAMILY"}
  /\ tokens = {1}
  /\ access = [a \in Accesses |-> NoAccess]
  /\ lastPassword = 1
  /\ byAdmin = {}
  /\ overran = FALSE

Access(a, state, changed) ==
  access' = [b \in Accesses |->
    IF b = a THEN state
    ELSE IF changed /\ access[b].step # "idle" THEN [access[b] EXCEPT !.stale = TRUE] ELSE access[b]]

(***************************************************************************)
(* Loading the account.  Knox refuses tokens of inactive accounts.         *)
(***************************************************************************)
SignedIn == tokens # {} /\ account.active

Open(a, s) ==
  /\ access[a].step = "idle"
  /\ Access(a, [NoAccess EXCEPT !.step = s, !.copy = account], FALSE)
  /\ UNCHANGED <<account, roles, tokens, lastPassword, byAdmin, overran>>

\* authenticate() refuses inactive accounts, and nothing matches an unusable password.
HasPassword == account.active /\ account.password # 0

StartLogin(a) == HasPassword /\ Open(a, "login")

\* The current password is asked for and checked.
StartChangePassword(a) == SignedIn /\ HasPassword /\ Open(a, "change")
StartDeleteMe(a) == SignedIn /\ HasPassword /\ Open(a, "delete")

\* The code from the e-mail has been verified.
StartReset(a) == account.active /\ Open(a, "reset")
StartConfirmChange(a) == SignedIn /\ Open(a, "confirm")

StartProfile(a) == SignedIn /\ Open(a, "profile")
StartAdminForm(a) == Open(a, "admin")

(***************************************************************************)
(* Writing it.  CustomUser.save adds the legacy role again.                *)
(***************************************************************************)
WriteAccount(a, row, state) ==
  /\ account' = row
  /\ Access(a, state, TRUE)
  /\ overran' = (overran \/ access[a].stale)

NewPassword == lastPassword + 1

\* login() saves last_login ...
SaveLogin(a) ==
  /\ access[a].step = "login"
  /\ roles' = roles \cup {"FAMILY"}
  /\ Access(a, [access[a] EXCEPT !.step = "token"], FALSE)
  /\ overran' = (overran \/ access[a].stale)
  /\ UNCHANGED <<account, tokens, lastPassword, byAdmin>>

\* ... and Knox creates a token; its signal saves last_login again.
CreateToken(a) ==
  /\ access[a].step = "token"
  /\ tokens' = tokens \cup {access[a].copy.password}
  /\ roles' = roles \cup {"FAMILY"}
  /\ Access(a, NoAccess, FALSE)
  /\ overran' = (overran \/ access[a].stale)
  /\ UNCHANGED <<account, lastPassword, byAdmin>>

\* Mutation: the sessions stay.
TokensAfterPasswordKept == tokens

TokensAfterPassword == {}

\* ChangePasswordView and ForgotPasswordConfirmView: one column, and the tokens go.
SetPassword(a) ==
  /\ access[a].step \in {"change", "reset"}
  /\ NewPassword \in Passwords
  /\ WriteAccount(a, [account EXCEPT !.password = NewPassword], NoAccess)
  /\ lastPassword' = NewPassword
  /\ roles' = roles \cup {"FAMILY"}
  /\ tokens' = TokensAfterPassword
  /\ UNCHANGED byAdmin

ConfirmedRow(withPassword, withMail) ==
  [account EXCEPT !.password = IF withPassword THEN NewPassword ELSE @,
                  !.named = @ \/ withMail]

\* PersonalInformationConfirmView: the columns that were asked to change.
ConfirmChange(a) ==
  /\ access[a].step = "confirm"
  /\ \E withPassword \in BOOLEAN, withMail \in BOOLEAN :
       /\ withPassword => NewPassword \in Passwords
       /\ WriteAccount(a, ConfirmedRow(withPassword, withMail), NoAccess)
       /\ lastPassword' = IF withPassword THEN NewPassword ELSE lastPassword
       /\ tokens' = IF withPassword THEN TokensAfterPassword ELSE tokens
  /\ roles' = roles \cup {"FAMILY"}
  /\ UNCHANGED byAdmin

\* PATCH and PUT /users/me/ save the whole copy.
SaveProfile(a) ==
  /\ access[a].step = "profile"
  /\ WriteAccount(a, access[a].copy, NoAccess)
  /\ roles' = roles \cup {"FAMILY"}
  /\ UNCHANGED <<tokens, lastPassword, byAdmin>>

\* DeleteMeView: one transaction, the roles cleared after the save that adds one.
DeleteMe(a) ==
  /\ access[a].step = "delete"
  /\ WriteAccount(a, [password |-> 0, active |-> FALSE, deleted |-> TRUE, named |-> FALSE], NoAccess)
  /\ roles' = {}
  /\ tokens' = {}
  /\ UNCHANGED <<lastPassword, byAdmin>>

\* The admin's password form saves the copy it loads and keeps the tokens ...
SaveAdminPassword(a) ==
  /\ access[a].step = "admin"
  /\ NewPassword \in Passwords
  /\ WriteAccount(a, [access[a].copy EXCEPT !.password = NewPassword], NoAccess)
  /\ lastPassword' = NewPassword
  /\ byAdmin' = byAdmin \cup {"password"}
  /\ roles' = roles \cup {"FAMILY"}
  /\ UNCHANGED tokens

\* ... and so does the change form, which may also change the columns and the roles it shows; an
\* e-mail it insists on.
SaveAdminForm(a) ==
  /\ access[a].step = "admin"
  /\ LET copy == access[a].copy IN
     /\ \E active \in BOOLEAN, named \in {TRUE, copy.named} :
          WriteAccount(a, [copy EXCEPT !.active = active, !.named = named], NoAccess)
     /\ byAdmin' = IF copy.deleted THEN byAdmin \cup {"deleted"} ELSE byAdmin
  /\ roles' \in SUBSET Roles
  /\ UNCHANGED <<tokens, lastPassword>>

\* apply_verification_outcome: the verification outlives the account it is about.
ApplyOutcome(approved) ==
  /\ roles' = IF approved THEN roles \cup {"PROVIDER"} ELSE roles \ {"PROVIDER"}
  /\ byAdmin' = IF approved /\ account.deleted THEN byAdmin \cup {"granted"} ELSE byAdmin
  /\ UNCHANGED <<account, tokens, access, lastPassword, overran>>

\* Logging out, and the tokens' time to live.
TokenEnds ==
  /\ \E t \in tokens : tokens' = tokens \ {t}
  /\ UNCHANGED <<account, roles, access, lastPassword, byAdmin, overran>>

\* A refused or killed request.
AccessEnds(a) ==
  /\ access[a].step # "idle"
  /\ Access(a, NoAccess, FALSE)
  /\ UNCHANGED <<account, roles, tokens, lastPassword, byAdmin, overran>>

SessionsNext ==
  \/ \E a \in Accesses :
       \/ StartLogin(a) \/ StartChangePassword(a) \/ StartDeleteMe(a) \/ StartReset(a)
       \/ StartConfirmChange(a) \/ StartProfile(a) \/ StartAdminForm(a)
       \/ SaveLogin(a) \/ CreateToken(a) \/ SetPassword(a) \/ ConfirmChange(a)
       \/ SaveProfile(a) \/ DeleteMe(a) \/ SaveAdminPassword(a) \/ SaveAdminForm(a) \/ AccessEnds(a)
  \/ \E approved \in BOOLEAN : ApplyOutcome(approved)
  \/ TokenEnds

SessionsSpec == SessionsInit /\ [][SessionsNext]_sessionsVars

(***************************************************************************)
(* Properties.                                                             *)
(***************************************************************************)
\* Row, tokens and requests are well-formed, and no session was opened without a password.
SessionsTypeOK ==
  /\ account \in AccountRows
  /\ tokens \subseteq Passwords \ {0}
  /\ access \in [Accesses -> AccessStates]
  /\ lastPassword \in Passwords
  /\ roles \subseteq Roles /\ byAdmin \subseteq {"password", "deleted", "granted"}
  /\ overran \in BOOLEAN

\* No session outlives the password it was opened with ("a stolen or previously issued session
\* must not survive a reset", views.py), unless a login or a save overlapped the change or the
\* admin site made it.  docs/MOBILE_INTEGRATION.md says the contrary: "Password changes do not
\* invalidate tokens."
SessionsUseLastPassword == tokens \subseteq {account.password} \/ overran \/ "password" \in byAdmin

\* The password in force is the one set last: no update of other columns brings an older one
\* back, unless it overlapped.
LastPasswordInForce == account.password = lastPassword \/ account.deleted \/ overran

AdminSaved == "password" \in byAdmin \/ "deleted" \in byAdmin

\* A deleted account keeps nothing: it is inactive and anonymous, without tokens or password, and
\* without roles but one that a verdict has granted since, unless a request under way during the
\* deletion wrote it afterwards or the admin's forms saved it in spite of it.
DeletedKeepsNothing ==
  account.deleted =>
    \/ /\ ~account.active /\ ~account.named /\ account.password = 0 /\ tokens = {}
       /\ roles \subseteq IF "granted" \in byAdmin THEN {"PROVIDER"} ELSE {}
    \/ overran \/ AdminSaved

\* What an account, its password and its tokens promise of every state.
SessionsSound ==
  /\ SessionsTypeOK
  /\ SessionsUseLastPassword
  /\ LastPasswordInForce
  /\ DeletedKeepsNothing
=============================================================================
