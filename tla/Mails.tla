------------------------------- MODULE Mails -------------------------------
(***************************************************************************)
(* Mails to the owner of one account (apps/users/tasks.py and the views    *)
(* that delay them): one-time codes for a change of personal information,  *)
(* and the notice that the password was changed.  A view stores its code   *)
(* or commits its change first and hands the task to the broker then; the  *)
(* tasks retry, so mails can be lost, repeated and overtaken.  The codes   *)
(* of a reset and of a registration are stored and mailed in the same way, *)
(* under an address instead of the account.                                *)
(***************************************************************************)
EXTENDS Integers, FiniteSets

CONSTANTS
  Places,       \* addresses the account can have
  Posts,        \* requests that can be under way at the same time
  MaxLetters,   \* bound: tasks handed to the broker
  MaxIssued,    \* bound: codes stored
  MaxMoves      \* bound: changes of address by the admin

\* An account has an address.
ASSUME MailsAssumption ==
  /\ MaxLetters \in Nat /\ MaxIssued \in Nat /\ MaxMoves \in Nat
  /\ Places # {} /\ IsFiniteSet(Posts)

VARIABLES
  address,      \* of the account
  held,         \* the entry in the cache: the code and what it is going to change
  post,         \* [Posts -> what the request has read and does next]
  letters,      \* [LetterIds -> mail task]
  inbox,        \* [Places -> code in the mail that arrived there last; 0: none]
  codesIssued,  \* codes stored so far; they are numbered
  moves,        \* changes of address by the admin so far
  entangled,    \* history: codes stored while the mail of an older one was under way
  owed          \* history: password changes committed, less those whose notice was dropped

mailsVars == <<address, held, post, letters, inbox, codesIssued, moves, entangled, owed>>

Issued == 1..MaxIssued
LetterIds == 1..MaxLetters
Stay == "stay"
Payloads == [code: 0..MaxIssued, place: Places \cup {Stay}, password: BOOLEAN]
NothingHeld == [code |-> 0, place |-> Stay, password |-> FALSE]

\* loaded: the address of the account as the request has read it; former: the one it had when
\* the password was changed; excused: the address changed under the request, or by it.
PostStates == [step: {"idle", "open", "stored", "changed"}, loaded: Places, former: Places,
               code: 0..MaxIssued, excused: BOOLEAN]
FirstPlace == CHOOSE a \in Places : TRUE
NoPost == [step |-> "idle", loaded |-> FirstPlace, former |-> FirstPlace, code |-> 0, excused |-> FALSE]

\* A task with a code is a mail of that code, one without is a notice.
Letter == [state: {"unused", "queued", "arrived", "lost"}, to: Places, former: Places,
           code: 0..MaxIssued, excused: BOOLEAN]
Unused == [state |-> "unused", to |-> FirstPlace, former |-> FirstPlace, code |-> 0, excused |-> FALSE]

MailsInit ==
  /\ address = FirstPlace
  /\ held = NothingHeld
  /\ post = [p \in Posts |-> NoPost]
  /\ letters = [l \in LetterIds |-> Unused]
  /\ inbox = [a \in Places |-> 0]
  /\ codesIssued = 0 /\ moves = 0 /\ entangled = {} /\ owed = 0

UnderWay(l) == letters[l].state = "queued"

\* Authentication loads the account.
OpenPost(p) ==
  /\ post[p].step = "idle"
  /\ post' = [post EXCEPT ![p] = [NoPost EXCEPT !.step = "open", !.loaded = address]]
  /\ UNCHANGED <<address, held, letters, inbox, codesIssued, moves, entangled, owed>>

\* Mail of an older code can still arrive: its task is under way or about to be.
OlderUnderWay ==
  \/ \E p \in Posts : post[p].step = "stored"
  \/ \E l \in LetterIds : UnderWay(l) /\ letters[l].code # 0

\* PersonalInformationRequestView: an address that is the loaded one already counts as none,
\* and something has to change; a new name is neither address nor password.
StoreCode(p) ==
  /\ post[p].step = "open"
  /\ codesIssued < MaxIssued
  /\ \E place \in (Places \ {post[p].loaded}) \cup {Stay}, password \in BOOLEAN :
       held' = [code |-> codesIssued + 1, place |-> place, password |-> password]
  /\ codesIssued' = codesIssued + 1
  /\ post' = [post EXCEPT ![p].step = "stored", ![p].code = codesIssued + 1]
  /\ entangled' = IF OlderUnderWay THEN entangled \cup {codesIssued + 1} ELSE entangled
  /\ UNCHANGED <<address, letters, inbox, moves, owed>>

NextLetter(l) == letters[l].state = "unused" /\ \A k \in 1..(l - 1) : letters[k].state # "unused"

\* delay: the code goes to the address that was loaded, not to the new one.
DelayCode(p) ==
  /\ post[p].step = "stored"
  /\ \E l \in LetterIds :
       /\ NextLetter(l)
       /\ letters' = [letters EXCEPT ![l] =
            [Unused EXCEPT !.state = "queued", !.to = post[p].loaded, !.code = post[p].code]]
  /\ post' = [post EXCEPT ![p] = NoPost]
  /\ UNCHANGED <<address, held, inbox, codesIssued, moves, entangled, owed>>

\* A change of address by one request comes under all others.
Moving(others) ==
  [p \in Posts |-> IF p \in others /\ post[p].step = "open" THEN [post[p] EXCEPT !.excused = TRUE]
                   ELSE post[p]]

Destination == IF held.place = Stay THEN address ELSE held.place

\* PersonalInformationConfirmView with the code of a mail that has arrived: the entry goes, then
\* the change is committed, the account's notice to be delayed to its address as it is then.
ConfirmPost(p) ==
  /\ post[p].step = "open"
  /\ held.code # 0
  /\ \E a \in Places : inbox[a] = held.code
  /\ held' = NothingHeld
  /\ address' = Destination
  /\ post' = [Moving(IF Destination = address THEN {} ELSE Posts \ {p}) EXCEPT ![p] =
       IF ~held.password THEN NoPost
       ELSE [step |-> "changed", code |-> 0, former |-> address,
             loaded |-> IF held.place = Stay THEN post[p].loaded ELSE held.place,
             excused |-> post[p].excused \/ held.place # Stay]]
  /\ owed' = IF held.password THEN owed + 1 ELSE owed
  /\ UNCHANGED <<letters, inbox, codesIssued, moves, entangled>>

\* Mutation: the notice is delayed although the transaction is rolled back.
NoticeAnyway(p) == IF held.password THEN [post[p] EXCEPT !.step = "changed"] ELSE NoPost

AfterRollback(p) == NoPost

\* The new address has been taken in the meantime: IntegrityError, the transaction is rolled
\* back, and its on_commit forgotten; the code is gone.
ConfirmTaken(p) ==
  /\ post[p].step = "open"
  /\ held.place # Stay
  /\ \E a \in Places : inbox[a] = held.code
  /\ held' = NothingHeld
  /\ post' = [post EXCEPT ![p] = AfterRollback(p)]
  /\ UNCHANGED <<address, letters, inbox, codesIssued, moves, entangled, owed>>

\* ChangePasswordView.  (A reset, ForgotPasswordConfirmView, sends no notice.)
ChangePost(p) ==
  /\ post[p].step = "open"
  /\ post' = [post EXCEPT ![p].step = "changed", ![p].former = address]
  /\ owed' = owed + 1
  /\ UNCHANGED <<address, held, letters, inbox, codesIssued, moves, entangled>>

\* on_commit.
DelayNotice(p) ==
  /\ post[p].step = "changed"
  /\ \E l \in LetterIds :
       /\ NextLetter(l)
       /\ letters' = [letters EXCEPT ![l] =
            [state |-> "queued", to |-> post[p].loaded, former |-> post[p].former, code |-> 0,
             excused |-> post[p].excused]]
  /\ post' = [post EXCEPT ![p] = NoPost]
  /\ UNCHANGED <<address, held, inbox, codesIssued, moves, entangled, owed>>

\* The broker refuses the task, or the process dies first: what was stored or committed stays.
PostDies(p) ==
  /\ post[p].step # "idle"
  /\ owed' = IF post[p].step = "changed" THEN owed - 1 ELSE owed
  /\ post' = [post EXCEPT ![p] = NoPost]
  /\ UNCHANGED <<address, held, letters, inbox, codesIssued, moves, entangled>>

\* The admin's form.
MoveByHand ==
  /\ moves < MaxMoves
  /\ \E a \in Places \ {address} : address' = a
  /\ moves' = moves + 1
  /\ post' = Moving(Posts)
  /\ UNCHANGED <<held, letters, inbox, codesIssued, entangled, owed>>

ExpireHeld ==
  /\ held # NothingHeld
  /\ held' = NothingHeld
  /\ UNCHANGED <<address, post, letters, inbox, codesIssued, moves, entangled, owed>>

\* The mail that arrives is the newest in the mailbox, whichever task it is of.
Delivered(l) == IF letters[l].code = 0 THEN inbox ELSE [inbox EXCEPT ![letters[l].to] = letters[l].code]

Ended(l, state) == letters' = [letters EXCEPT ![l].state = state]

\* A worker takes the task and send_mail returns, or raises, even after the server has accepted
\* the mail: the task is then tried again, and given up at last (max_retries is not counted).
SendLetter(l) ==
  /\ UnderWay(l)
  /\ \/ Ended(l, "arrived") /\ inbox' = Delivered(l)
     \/ inbox' \in {inbox, Delivered(l)} /\ (Ended(l, "lost") \/ UNCHANGED letters)
  /\ UNCHANGED <<address, held, post, codesIssued, moves, entangled, owed>>

\* The worker dies before or after the server has accepted the mail; the broker has forgotten the
\* task when the worker took it.
SenderDies(l) ==
  /\ UnderWay(l)
  /\ Ended(l, "lost")
  /\ inbox' \in {inbox, Delivered(l)}
  /\ UNCHANGED <<address, held, post, codesIssued, moves, entangled, owed>>

MailsNext ==
  \/ MoveByHand \/ ExpireHeld
  \/ \E p \in Posts : OpenPost(p) \/ StoreCode(p) \/ DelayCode(p) \/ ConfirmPost(p) \/ ConfirmTaken(p)
                     \/ ChangePost(p) \/ DelayNotice(p) \/ PostDies(p)
  \/ \E l \in LetterIds : SendLetter(l) \/ SenderDies(l)

MailsSpec == MailsInit /\ [][MailsNext]_mailsVars

(***************************************************************************)
(* Properties.                                                             *)
(***************************************************************************)
\* Entry, requests and tasks are well-formed.
MailsTypeOK ==
  /\ address \in Places /\ held \in Payloads
  /\ post \in [Posts -> PostStates] /\ letters \in [LetterIds -> Letter]
  /\ inbox \in [Places -> 0..MaxIssued] /\ codesIssued \in 0..MaxIssued /\ moves \in 0..MaxMoves
  /\ entangled \subseteq Issued /\ owed \in 0..(MaxLetters + Cardinality(Posts))

\* The code that is in force is the one in the newest mail, once its mail has arrived: a mail of
\* an older code arrives after it only when the older one was still under way.
NewestMailCounts ==
  \A l \in LetterIds :
    (letters[l].state = "arrived" /\ letters[l].code = held.code /\ held.code # 0)
      => inbox[letters[l].to] = held.code \/ held.code \in entangled

\* There is one notice, sent or about to be, for every password change that was committed and
\* whose request has not been cut off, and none for one that was rolled back.
NoticePerChange ==
  owed = Cardinality({p \in Posts : post[p].step = "changed"})
       + Cardinality({l \in LetterIds : letters[l].state # "unused" /\ letters[l].code = 0})

\* The notice goes to the address that the account had when its password was changed, unless
\* the address was changed with it or under it.
NoticeToHolder ==
  \A l \in LetterIds :
    (letters[l].state # "unused" /\ letters[l].code = 0)
      => letters[l].to = letters[l].former \/ letters[l].excused

\* What the mails promise of every state.
MailsSound ==
  /\ MailsTypeOK
  /\ NewestMailCounts
  /\ NoticePerChange
  /\ NoticeToHolder
=============================================================================
