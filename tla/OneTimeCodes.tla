---------------------------- MODULE OneTimeCodes ----------------------------
(***************************************************************************)
(* One-time codes in the cache (apps/users/otp.py): one entry per address  *)
(* or account, holding the code and the number of wrong guesses.  A guess  *)
(* reads the entry, compares, and writes the entry back or deletes it, in  *)
(* separate cache operations without a lock, so guesses and requests for a *)
(* new code can come in between.  The flows (registration, password reset, *)
(* change of personal information) share this protocol; a set with no time *)
(* left deletes the entry, as the reset does itself.                       *)
(***************************************************************************)
EXTENDS Integers

CONSTANTS
  Guesses,      \* guesses that can be under way at the same time
  MaxCodes,     \* bound: codes issued
  MaxAttempts   \* MAX_ATTEMPTS

ASSUME CodesAssumption == MaxCodes \in Nat /\ MaxAttempts \in Nat

VARIABLES
  entry,        \* the cache entry
  guess,        \* [Guesses -> what the guess has read and does next]
  lastCode,     \* history: the code issued last (they are numbered); 0: none
  wrong,        \* history: [Codes -> wrong guesses answered, up to one too many]
  accepted,     \* history: [Codes -> guesses accepted, 2 standing for more]
  outdated,     \* history: a code was accepted that a newer one had replaced
  mixed         \* history: a guess has written after its reading was out of date

codesVars == <<entry, guess, lastCode, wrong, accepted, outdated, mixed>>

Codes == 1..MaxCodes
Entries == [code: 0..MaxCodes, attempts: 0..MaxAttempts]
NoEntry == [code |-> 0, attempts |-> 0]
GuessStates == [step: {"idle", "ttl", "store", "last", "drop", "consume"}, copy: Entries, stale: BOOLEAN]
NoGuess == [step |-> "idle", copy |-> NoEntry, stale |-> FALSE]

CodesInit ==
  /\ entry = NoEntry
  /\ guess = [g \in Guesses |-> NoGuess]
  /\ lastCode = 0
  /\ wrong = [c \in Codes |-> 0]
  /\ accepted = [c \in Codes |-> 0]
  /\ outdated = FALSE
  /\ mixed = FALSE

\* Every other reading of the entry is out of date once it was written.
Written(others) ==
  [g \in Guesses |-> IF guess[g].step # "idle" /\ g \in others THEN [guess[g] EXCEPT !.stale = TRUE]
                     ELSE guess[g]]

\* start_pending_registration, start_password_reset, start_information_change.
IssueCode ==
  /\ lastCode < MaxCodes
  /\ entry' = [code |-> lastCode + 1, attempts |-> 0]
  /\ lastCode' = lastCode + 1
  /\ guess' = Written(Guesses)
  /\ UNCHANGED <<wrong, accepted, outdated, mixed>>

\* The time to live.
ExpireCode ==
  /\ entry # NoEntry
  /\ entry' = NoEntry
  /\ guess' = Written(Guesses)
  /\ UNCHANGED <<lastCode, wrong, accepted, outdated, mixed>>

UsedUp(e) == e.attempts >= MaxAttempts

\* cache.get and what follows from it; without an entry the answer is "expired".
ReadEntry(g) ==
  /\ guess[g].step = "idle"
  /\ entry # NoEntry
  /\ \E right \in BOOLEAN :
       guess' = [guess EXCEPT ![g] =
         [step |-> IF UsedUp(entry) THEN "drop" ELSE IF right THEN "consume" ELSE "ttl",
          copy |-> entry, stale |-> FALSE]]
  /\ UNCHANGED <<entry, lastCode, wrong, accepted, outdated, mixed>>

\* cache.ttl counts seconds: in the last one, and without an entry, what follows deletes
\* instead of storing.
ReadTtl(g) ==
  /\ guess[g].step = "ttl"
  /\ \E timeLeft \in BOOLEAN :
       /\ timeLeft => entry # NoEntry
       /\ guess' = [guess EXCEPT ![g].step = IF timeLeft THEN "store" ELSE "last"]
  /\ UNCHANGED <<entry, lastCode, wrong, accepted, outdated, mixed>>

CountUpTo(n, limit) == IF n < limit THEN n + 1 ELSE n

\* The answer "invalid".
Wrong(g) == wrong' = [wrong EXCEPT ![guess[g].copy.code] = CountUpTo(@, MaxAttempts + 1)]

Finish(g, e) ==
  /\ entry' = e
  /\ guess' = [Written(Guesses \ {g}) EXCEPT ![g] = NoGuess]
  /\ mixed' = (mixed \/ guess[g].stale)

\* Mutation: the count starts again.
CountedAfresh(copy) == [copy EXCEPT !.attempts = 1]

Counted(copy) == [copy EXCEPT !.attempts = @ + 1]

\* cache.set puts the whole entry back as it was read, counted up.
StoreGuess(g) ==
  /\ guess[g].step = "store"
  /\ Finish(g, Counted(guess[g].copy))
  /\ Wrong(g)
  /\ UNCHANGED <<lastCode, accepted, outdated>>

\* No time left: the entry goes; the reset answers "expired", the other flows "invalid".
DropLast(g) ==
  /\ guess[g].step = "last"
  /\ Finish(g, NoEntry)
  /\ Wrong(g)
  /\ UNCHANGED <<lastCode, accepted, outdated>>

\* Too many attempts.
DropCode(g) ==
  /\ guess[g].step = "drop"
  /\ Finish(g, NoEntry)
  /\ UNCHANGED <<lastCode, wrong, accepted, outdated>>

AfterUse(g) == NoEntry

\* The right code: the entry is deleted, whichever it is by now, and the guess accepted.
ConsumeCode(g) ==
  /\ guess[g].step = "consume"
  /\ Finish(g, AfterUse(g))
  /\ accepted' = [accepted EXCEPT ![guess[g].copy.code] = CountUpTo(@, 2)]
  /\ outdated' = (outdated \/ guess[g].copy.code # lastCode)
  /\ UNCHANGED <<lastCode, wrong>>

\* The process dies; what was read is forgotten.
GuessDies(g) ==
  /\ guess[g].step # "idle"
  /\ guess' = [guess EXCEPT ![g] = NoGuess]
  /\ UNCHANGED <<entry, lastCode, wrong, accepted, outdated, mixed>>

CodesNext ==
  \/ IssueCode \/ ExpireCode
  \/ \E g \in Guesses : ReadEntry(g) \/ ReadTtl(g) \/ StoreGuess(g) \/ DropLast(g) \/ DropCode(g)
                       \/ ConsumeCode(g) \/ GuessDies(g)

CodesSpec == CodesInit /\ [][CodesNext]_codesVars

(***************************************************************************)
(* Properties.                                                             *)
(***************************************************************************)
\* Entry, guesses and histories are well-formed; no entry, not even one that a late guess puts
\* back, counts more than MAX_ATTEMPTS.
CodesTypeOK ==
  /\ entry \in Entries
  /\ guess \in [Guesses -> GuessStates]
  /\ lastCode \in 0..MaxCodes
  /\ wrong \in [Codes -> 0..(MaxAttempts + 1)] /\ accepted \in [Codes -> 0..2]
  /\ outdated \in BOOLEAN /\ mixed \in BOOLEAN

\* A code is guessed wrong at most MAX_ATTEMPTS times, as long as no two operations on the
\* entry overlap: then the counter in the entry is the number of wrong guesses.
GuessBudget == \A c \in Codes : wrong[c] > MaxAttempts => mixed

\* A code is single-use, unless operations on its entry overlap (two right guesses, or a wrong
\* one that stores back what a right one has just deleted).
UsedOnce == \A c \in Codes : accepted[c] > 1 => mixed

\* Only the newest code is accepted, unless operations overlap.
NewestAccepted == outdated => mixed

\* What a one-time code promises of every state.
CodesSound ==
  /\ CodesTypeOK
  /\ GuessBudget
  /\ UsedOnce
  /\ NewestAccepted
=============================================================================
