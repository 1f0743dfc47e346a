---------------------------- MODULE Registrations ----------------------------
(***************************************************************************)
(* Who has which e-mail address (apps/users/views.py, serializers.py).     *)
(* Addresses are looked up without regard to case when a registration or a *)
(* change of address is asked for; minutes later, when the code is         *)
(* confirmed, only the database looks, and it compares them exactly.       *)
(***************************************************************************)
EXTENDS Integers, FiniteSets

CONSTANTS
  Persons,        \* ids of accounts
  Mailboxes,
  AdminCreates    \* the admin API creates accounts

\* The words for who is asking, and for addresses that are none, are no ids or mailboxes.
ASSUME RegistrationsAssumption ==
  /\ AdminCreates \in BOOLEAN
  /\ {"nobody", "somebody"} \cap Persons = {}
  /\ {"nobody", "deleted"} \cap Mailboxes = {}

VARIABLES
  mailOf,         \* [Persons -> address of the account]
  signup,         \* [Mailboxes -> the pending registration in the cache]
  change,         \* [Persons -> the pending change of address in the cache]
  asking,         \* the request between its check and its entry in the cache
  created,        \* history: the admin API created an account
  outrun          \* history: an address was confirmed whose mailbox somebody had taken meanwhile

registrationsVars == <<mailOf, signup, change, asking, created, outrun>>

\* An address is a mailbox and a spelling.
Addresses == Mailboxes \X {"lower", "Upper"}
NoMail == <<"nobody", "lower">>
GoneMail == <<"deleted", "lower">>
Checks == {"none", "current", "outdated"}
NoChange == [to |-> NoMail, check |-> "none"]
Changes == [to: Addresses \cup {NoMail}, check: Checks]
NoAsking == [who |-> "nobody", to |-> NoMail, check |-> "none"]

RegistrationsInit ==
  /\ mailOf = [p \in Persons |-> NoMail]
  /\ signup = [m \in Mailboxes |-> "none"]
  /\ change = [p \in Persons |-> NoChange]
  /\ asking = NoAsking
  /\ created = FALSE /\ outrun = FALSE

\* email__iexact
TakenAddress(m, others) == \E p \in others : mailOf[p][1] = m

\* Once p has an address of mailbox m, every check that found m free is out of date.
Overtake(check, own) == IF ~own /\ check = "current" THEN "outdated" ELSE check
Moved(p, mail, signups, changes, ask) ==
  /\ mailOf' = [mailOf EXCEPT ![p] = mail]
  /\ signup' = [m \in Mailboxes |-> Overtake(signups[m], m # mail[1])]
  /\ change' = [q \in Persons |->
       [changes[q] EXCEPT !.check = Overtake(@, q = p \/ changes[q].to[1] # mail[1])]]
  /\ asking' = [ask EXCEPT !.check = Overtake(@, ask.who = p \/ ask.to[1] # mail[1])]

(***************************************************************************)
(* Registration.                                                           *)
(***************************************************************************)
\* RegistrationRequestSerializer.validate_email
FreeToRegister(mail) == ~TakenAddress(mail[1], Persons)

AskRegistration(mail) ==
  /\ asking = NoAsking
  /\ FreeToRegister(mail)
  /\ asking' = [who |-> "somebody", to |-> mail, check |-> "current"]
  /\ UNCHANGED <<mailOf, signup, change, created, outrun>>

\* start_pending_registration: one entry per mailbox, the last one stays.
StashRegistration ==
  /\ asking.who = "somebody"
  /\ signup' = [signup EXCEPT ![asking.to[1]] = asking.check]
  /\ asking' = NoAsking
  /\ UNCHANGED <<mailOf, change, created, outrun>>

\* The unique constraint on the column.
SpelledTheSame(mail, others) == \E p \in others : mailOf[p] = mail

\* RegisterVerifyView pops the entry and creates the account under the address of this request,
\* which may be spelled otherwise; the unique constraint refuses an address spelled the same.
VerifyRegistration(mail) ==
  /\ signup[mail[1]] # "none"
  /\ LET popped == [signup EXCEPT ![mail[1]] = "none"] IN
     IF SpelledTheSame(mail, Persons)
     THEN signup' = popped /\ UNCHANGED <<mailOf, change, asking, outrun>>
     ELSE /\ \E p \in Persons : mailOf[p] = NoMail /\ Moved(p, mail, popped, change, asking)
          /\ outrun' = (outrun \/ signup[mail[1]] = "outdated")
  /\ UNCHANGED created

(***************************************************************************)
(* Change of address.                                                      *)
(***************************************************************************)
\* Mutation: the address is not looked up.
FreeToMoveAnyway(p, mail) == mail # mailOf[p]

\* PersonalInformationRequestSerializer.validate_new_email, and validate: another spelling of
\* the own address is no change.
FreeToMove(p, mail) == ~TakenAddress(mail[1], Persons \ {p}) /\ mail[1] # mailOf[p][1]

HasAccount(p) == mailOf[p] \in Addresses

AskChange(p, mail) ==
  /\ asking = NoAsking
  /\ HasAccount(p)
  /\ FreeToMove(p, mail)
  /\ asking' = [who |-> p, to |-> mail, check |-> "current"]
  /\ UNCHANGED <<mailOf, signup, change, created, outrun>>

StashChange(p) ==
  /\ asking.who = p
  /\ change' = [change EXCEPT ![p] = [to |-> asking.to, check |-> asking.check]]
  /\ asking' = NoAsking
  /\ UNCHANGED <<mailOf, signup, created, outrun>>

\* PersonalInformationConfirmView
ConfirmAddress(p) ==
  /\ HasAccount(p) /\ change[p] # NoChange
  /\ LET mail == change[p].to
         popped == [change EXCEPT ![p] = NoChange]
     IN
     IF SpelledTheSame(mail, Persons \ {p})
     THEN change' = popped /\ UNCHANGED <<mailOf, signup, asking, outrun>>
     ELSE /\ Moved(p, mail, signup, popped, asking)
          /\ outrun' = (outrun \/ change[p].check = "outdated")
  /\ UNCHANGED created

(***************************************************************************)
(* Everything else.                                                        *)
(***************************************************************************)
\* CreateUserView: only the exact address is looked up.
CreateAccount(mail) ==
  /\ AdminCreates
  /\ ~SpelledTheSame(mail, Persons)
  /\ \E p \in Persons : mailOf[p] = NoMail /\ Moved(p, mail, signup, change, asking)
  /\ created' = TRUE
  /\ UNCHANGED outrun

\* DeleteMeView frees the address.
DeleteAccount(p) ==
  /\ HasAccount(p)
  /\ mailOf' = [mailOf EXCEPT ![p] = GoneMail]
  /\ UNCHANGED <<signup, change, asking, created, outrun>>

\* Cache entries expire, requests die.
PendingEnds ==
  /\ \/ \E m \in Mailboxes : signup[m] # "none" /\ signup' = [signup EXCEPT ![m] = "none"]
                            /\ UNCHANGED <<change, asking>>
     \/ \E p \in Persons : change[p] # NoChange /\ change' = [change EXCEPT ![p] = NoChange]
                          /\ UNCHANGED <<signup, asking>>
     \/ asking # NoAsking /\ asking' = NoAsking /\ UNCHANGED <<signup, change>>
  /\ UNCHANGED <<mailOf, created, outrun>>

RegistrationsNext ==
  \/ \E mail \in Addresses : AskRegistration(mail) \/ VerifyRegistration(mail) \/ CreateAccount(mail)
  \/ \E p \in Persons, mail \in Addresses : AskChange(p, mail)
  \/ \E p \in Persons : StashChange(p) \/ ConfirmAddress(p) \/ DeleteAccount(p)
  \/ StashRegistration \/ PendingEnds

RegistrationsSpec == RegistrationsInit /\ [][RegistrationsNext]_registrationsVars

(***************************************************************************)
(* Properties.                                                             *)
(***************************************************************************)
\* Accounts and pending entries are well-formed, and no two accounts have the same address.
RegistrationsTypeOK ==
  /\ mailOf \in [Persons -> Addresses \cup {NoMail, GoneMail}]
  /\ signup \in [Mailboxes -> Checks]
  /\ change \in [Persons -> Changes]
  /\ asking.check \in Checks /\ asking.to \in Addresses \cup {NoMail}
  /\ \A p, q \in Persons : HasAccount(p) /\ mailOf[p] = mailOf[q] => p = q
  /\ created \in BOOLEAN /\ outrun \in BOOLEAN

\* Two accounts share a mailbox only if it was taken between the check and the confirmation of
\* one of them, or the admin API created an account: no sequence of registrations, changes and
\* deletions does it otherwise.
OneAccountPerMailbox ==
  \/ \A p, q \in Persons : HasAccount(p) /\ mailOf[p][1] = mailOf[q][1] => p = q
  \/ outrun \/ created

\* What the addresses of accounts promise of every state.
AddressesSound ==
  /\ RegistrationsTypeOK
  /\ OneAccountPerMailbox
=============================================================================
