----------------------------- MODULE Throttles -----------------------------
(***************************************************************************)
(* The budgets of calls (apps/users/throttles.py, the scopes and rates of  *)
(* the settings).  A scope counts per mailbox, per person or per account;  *)
(* the framework keeps the times of admitted calls of one key as a list in *)
(* the cache, and reads, trims, extends and stores that list without a     *)
(* lock.  Every scope has one rate here; the clock counts in units of      *)
(* which Window make up the minute or the hour of the rate.                *)
(***************************************************************************)
EXTENDS Integers, Sequences, FiniteSets

CONSTANTS
  Scopes,       \* scopes of the instance, of those named below
  Inboxes,      \* mailboxes that calls name
  Hosts,        \* IP addresses
  Signed,       \* accounts that callers are signed in as
  Calls,        \* calls that can be under way at the same time
  Rate, Window,
  MaxClock,     \* bound: the time
  MaxCalls      \* bound: calls admitted of one key

ASSUME ThrottlesAssumption ==
  /\ Rate \in Nat /\ Window \in Nat /\ MaxClock \in Nat /\ MaxCalls \in Nat

MailboxScopes == {"register_request", "password_reset_request"}
PersonScopes == {"user_login", "register_verify", "password_reset_confirm", "change_password",
                 "personal_information_change_confirm", "delete_account"}
AccountScopes == {"personal_information_change_request"}

ASSUME ScopesAssumption == Scopes \subseteq MailboxScopes \cup PersonScopes \cup AccountScopes

VARIABLES
  clock,
  budget,       \* the cache: [ThrottleKeys -> times of admitted calls, the newest first]
  call,         \* [Calls -> the call and what it has read]
  admitted,     \* history: times of admitted calls of each key, the oldest first
  unsure,       \* history: keys that the cache dropped, or of which an outdated list was stored
  baseless      \* history: keys of which a call was refused within the rate

throttlesVars == <<clock, budget, call, admitted, unsure, baseless>>

Blank == "blank"
Unsigned == "unsigned"
Letters == {"as stored", "other"}

\* A mailbox is written in two ways that differ in case or in spaces around it.
Typed == (Inboxes \X Letters) \cup {Blank}

\* Only the view of personal information lets nobody as far as its throttle who is not signed in.
Callers ==
  {c \in [scope: Scopes, typed: Typed, account: Signed \cup {Unsigned}, host: Hosts] :
     c.scope \in AccountScopes => c.account # Unsigned}

\* What a key can name: a mailbox, a mailbox as it is written, an account, a host.
Idents == Inboxes \cup (Inboxes \X Letters) \cup Signed \cup Hosts
ThrottleKeys == Scopes \X Idents
NoKey == Blank

\* What the rate is meant to limit: the mailbox, the account signed in, or else the host.
Subject(c) ==
  CASE c.scope \in MailboxScopes -> IF c.typed = Blank THEN Blank ELSE c.typed[1]
    [] c.scope \in PersonScopes -> IF c.account = Unsigned THEN c.host ELSE c.account
    [] c.scope \in AccountScopes -> c.account

\* Mutation: the spelling counts.
IdentAsTyped(c) == IF c.scope \in MailboxScopes THEN c.typed ELSE Subject(c)

Ident(c) == Subject(c)

KeyOfCall(c) == IF Ident(c) = Blank THEN NoKey ELSE <<c.scope, Ident(c)>>

Unclaimed == [step |-> "idle"]

ThrottlesInit ==
  /\ clock = 0
  /\ budget = [k \in ThrottleKeys |-> <<>>]
  /\ call = [s \in Calls |-> Unclaimed]
  /\ admitted = [k \in Scopes \X (Inboxes \cup Signed \cup Hosts) |-> <<>>]
  /\ unsure = {} /\ baseless = {}

\* The oldest entries are at the end; they are popped one by one while they are out of the window.
StillCounts(times, n) ==
  /\ n = 0 \/ times[n] > clock - Window
  /\ \A i \in (n + 1)..Len(times) : times[i] <= clock - Window
Recent(times) == SubSeq(times, 1, CHOOSE n \in 0..Len(times) : StillCounts(times, n))

\* The entries of a list that are times of an interval.
Within(times, from, to) == {i \in 1..Len(times) : times[i] \in from..to}

\* allow_request: without a key the call passes uncounted, and nothing is remembered of it.
Admit(s) ==
  \E c \in Callers :
    /\ call[s].step = "idle"
    /\ KeyOfCall(c) # NoKey
    /\ Len(Recent(budget[KeyOfCall(c)])) < Rate
    /\ Len(admitted[<<c.scope, Subject(c)>>]) < MaxCalls
    /\ call' = [call EXCEPT ![s] =
         [step |-> "admit", key |-> KeyOfCall(c), subject |-> <<c.scope, Subject(c)>>,
          at |-> clock, copy |-> Recent(budget[KeyOfCall(c)]), stale |-> FALSE]]
    /\ UNCHANGED <<clock, budget, admitted, unsure, baseless>>

Spent(subject) ==
  Cardinality(Within(admitted[subject], clock - Window + 1, clock)) >= Rate

\* throttle_failure: a refused call is not counted.
Refuse ==
  \E c \in Callers :
    /\ KeyOfCall(c) # NoKey
    /\ Len(Recent(budget[KeyOfCall(c)])) >= Rate
    /\ baseless' = IF Spent(<<c.scope, Subject(c)>>) THEN baseless
                   ELSE baseless \cup {<<c.scope, Subject(c)>>}
    /\ UNCHANGED <<clock, budget, call, admitted, unsure>>

\* Every other call that has read the list of the key is out of date.
Outdated(k, others) ==
  [r \in Calls |-> IF call[r].step = "admit" /\ call[r].key = k /\ r \in others
                   THEN [call[r] EXCEPT !.stale = TRUE] ELSE call[r]]

\* throttle_success: the list as it was read, with this call, replaces the one in the cache.
Count(s) ==
  /\ call[s].step = "admit"
  /\ budget' = [budget EXCEPT ![call[s].key] = <<call[s].at>> \o call[s].copy]
  /\ admitted' = [admitted EXCEPT ![call[s].subject] = Append(@, call[s].at)]
  /\ unsure' = IF call[s].stale THEN unsure \cup {call[s].subject} ELSE unsure
  /\ call' = [Outdated(call[s].key, Calls \ {s}) EXCEPT ![s] = Unclaimed]
  /\ UNCHANGED <<clock, baseless>>

CallDies(s) ==
  /\ call[s].step = "admit"
  /\ call' = [call EXCEPT ![s] = Unclaimed]
  /\ UNCHANGED <<clock, budget, admitted, unsure, baseless>>

\* The cache is cleared, or drops a key to make room.
DropBudget ==
  \E c \in Callers :
    /\ KeyOfCall(c) # NoKey
    /\ budget[KeyOfCall(c)] # <<>>
    /\ budget' = [budget EXCEPT ![KeyOfCall(c)] = <<>>]
    /\ unsure' = unsure \cup {<<c.scope, Subject(c)>>}
    /\ call' = Outdated(KeyOfCall(c), Calls)
    /\ UNCHANGED <<clock, admitted, baseless>>

\* The list of a key lives as long as the window after it was stored; its entries are all out
\* of the window by then.
Pass ==
  /\ clock < MaxClock
  /\ clock' = clock + 1
  /\ UNCHANGED <<budget, call, admitted, unsure, baseless>>

ThrottlesNext ==
  \/ Pass \/ Refuse \/ DropBudget
  \/ \E s \in Calls : Admit(s) \/ Count(s) \/ CallDies(s)

ThrottlesSpec == ThrottlesInit /\ [][ThrottlesNext]_throttlesVars

(***************************************************************************)
(* Properties.                                                             *)
(***************************************************************************)
\* The lists hold times that have been; the newest entry comes first, so that trimming from the
\* end drops the outdated ones.
ThrottlesTypeOK ==
  /\ clock \in 0..MaxClock
  /\ \A k \in ThrottleKeys :
       /\ \A i \in 1..Len(budget[k]) : budget[k][i] \in 0..clock
       /\ \A i \in 1..(Len(budget[k]) - 1) : budget[k][i] >= budget[k][i + 1]
  /\ unsure \cup baseless \subseteq DOMAIN admitted

\* No mailbox, person or account has more than Rate calls of a scope admitted in any window,
\* however its address is written and whoever calls, unless calls overlapped or the cache
\* lost the list.
ThrottleBudget ==
  \A k \in DOMAIN admitted \ unsure :
    \A from \in 0..clock : Cardinality(Within(admitted[k], from, from + Window - 1)) <= Rate

\* A call is refused only when Rate calls of the same mailbox, person or account were admitted
\* within the window: whatever overlaps or is lost, calls in another scope or for somebody
\* else use up nothing.
RefusedForReason == baseless = {}

\* What the throttles promise of every state.
ThrottlesSound ==
  /\ ThrottlesTypeOK
  /\ ThrottleBudget
  /\ RefusedForReason
=============================================================================
