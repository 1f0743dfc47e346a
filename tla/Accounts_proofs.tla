-------------------------- MODULE Accounts_proofs --------------------------
(***************************************************************************)
(* Proofs about the components around an account, one section each, for    *)
(* every value of their constants.  At the end: a behaviour of the small   *)
(* instances MCAccounts is, for each component, a behaviour of it.         *)
(***************************************************************************)
EXTENDS MCAccounts, FiniteSetTheorems, TLAPS

-----------------------------------------------------------------------------
(***************************************************************************)
(* OneTimeCodes.  Until a guess writes after its reading was out of date,  *)
(* the entry tells the truth about the newest code (InStep), because a     *)
(* guess whose reading is not out of date writes what the entry still is   *)
(* (FreshGuesses), counted up.                                             *)
(***************************************************************************)

\* What a guess carries between its cache operations.
GuessCarries(s) ==
  /\ s.step # "idle" => s.copy.code \in Codes
  /\ s.step \in {"ttl", "store", "last"} => s.copy.attempts < MaxAttempts

GuessesCarry == \A g \in Guesses : GuessCarries(guess[g])

\* A reading that is not out of date is what the entry is.
FreshGuesses ==
  \A g \in Guesses : guess[g].step # "idle" /\ ~guess[g].stale => guess[g].copy = entry

EntryNamed == entry = NoEntry \/ entry.code \in Codes

\* The entry is of the newest code, counts its wrong guesses, and it was never accepted; codes
\* are within their budget, accepted at most once and not before they are issued.
InStep ==
  ~mixed =>
    /\ entry # NoEntry => /\ entry.code = lastCode
                          /\ wrong[entry.code] = entry.attempts
                          /\ accepted[entry.code] = 0
    /\ \A c \in Codes : /\ wrong[c] <= MaxAttempts /\ accepted[c] <= 1
                        /\ c > lastCode => wrong[c] = 0 /\ accepted[c] = 0
    /\ ~outdated

CodesInv == CodesTypeOK /\ GuessesCarry /\ FreshGuesses /\ EntryNamed /\ InStep

USE CodesAssumption

-----------------------------------------------------------------------------
\* The guess that is not made.
LEMMA NoGuessType ==
  /\ NoEntry \in Entries /\ NoEntry.code = 0 /\ NoEntry.attempts = 0
  /\ NoGuess \in GuessStates /\ NoGuess.step = "idle"
BY DEF NoEntry, Entries, NoGuess, GuessStates

\* Before any code is issued, no guess is on its way.
LEMMA CodesInitHolds == CodesInit => CodesInv
<1> SUFFICES ASSUME CodesInit PROVE CodesInv
  OBVIOUS
<1>1. CodesTypeOK
  <2>1. lastCode \in 0..MaxCodes
    BY DEF CodesInit
  <2>2. wrong \in [Codes -> 0..(MaxAttempts + 1)] /\ accepted \in [Codes -> 0..2]
    BY DEF CodesInit
  <2>3. outdated \in BOOLEAN /\ mixed \in BOOLEAN
    BY DEF CodesInit
  <2>4. entry \in Entries /\ guess \in [Guesses -> GuessStates]
    BY NoGuessType DEF CodesInit
  <2> QED BY <2>1, <2>2, <2>3, <2>4 DEF CodesTypeOK
<1>2. GuessesCarry /\ FreshGuesses /\ EntryNamed
  BY NoGuessType DEF CodesInit, GuessesCarry, GuessCarries, FreshGuesses, EntryNamed
<1>3. InStep
  BY DEF CodesInit, InStep, Codes
<1> QED BY <1>1, <1>2, <1>3 DEF CodesInv

\* Everything the properties ask for is in the induction.
LEMMA CodesInvImplies == CodesInv => CodesSound
<1> SUFFICES ASSUME CodesInv PROVE CodesSound
  OBVIOUS
<1>1. CodesTypeOK
  BY DEF CodesInv
<1>2. GuessBudget
  BY <1>1 DEF CodesInv, InStep, GuessBudget, CodesTypeOK
<1>3. UsedOnce
  BY <1>1 DEF CodesInv, InStep, UsedOnce, CodesTypeOK
<1>4. NewestAccepted
  BY DEF CodesInv, InStep, NewestAccepted
<1> QED BY <1>1, <1>2, <1>3, <1>4 DEF CodesSound

-----------------------------------------------------------------------------
\* The entry is written: every guess that had read it is out of date.
LEMMA WrittenType ==
  ASSUME CodesInv, NEW others \in SUBSET Guesses
  PROVE  /\ Written(others) \in [Guesses -> GuessStates]
         /\ \A g \in Guesses : GuessCarries(Written(others)[g])
         /\ \A g \in others : Written(others)[g].step # "idle" => Written(others)[g].stale
<1>1. \A g \in Guesses : guess[g] \in GuessStates
  BY DEF CodesInv, CodesTypeOK
<1>2. \A g \in Guesses : LET s == [guess[g] EXCEPT !.stale = TRUE]
                         IN  s \in GuessStates /\ s.step = guess[g].step /\ s.copy = guess[g].copy
                             /\ s.stale = TRUE
  BY <1>1 DEF GuessStates
<1> QED BY <1>1, <1>2 DEF Written, CodesInv, GuessesCarry, GuessCarries

\* A guess that is answered leaves the others as they were.
LEMMA FinishType ==
  ASSUME CodesInv, NEW g \in Guesses, NEW e \in Entries, Finish(g, e)
  PROVE  /\ guess' \in [Guesses -> GuessStates] /\ GuessesCarry' /\ FreshGuesses'
         /\ entry' = e /\ mixed' \in BOOLEAN
         /\ ~mixed' => ~mixed /\ ~guess[g].stale
<1> DEFINE w == Written(Guesses \ {g})
<1>1. /\ w \in [Guesses -> GuessStates] /\ \A d \in Guesses : GuessCarries(w[d])
      /\ \A d \in Guesses \ {g} : w[d].step # "idle" => w[d].stale
  BY WrittenType
<1>2. guess' = [w EXCEPT ![g] = NoGuess] /\ entry' = e /\ mixed' = (mixed \/ guess[g].stale)
  BY DEF Finish
<1>3. guess[g].stale \in BOOLEAN /\ mixed \in BOOLEAN
  BY DEF CodesInv, CodesTypeOK, GuessStates
<1> HIDE DEF w
<1>4. /\ guess' \in [Guesses -> GuessStates] /\ guess'[g] = NoGuess
      /\ \A d \in Guesses \ {g} : guess'[d] = w[d]
  BY <1>1, <1>2, NoGuessType
<1>5. GuessesCarry'
  BY <1>1, <1>4, NoGuessType DEF GuessesCarry, GuessCarries
<1>6. FreshGuesses'
  BY <1>1, <1>4, NoGuessType DEF FreshGuesses
<1>7. mixed' \in BOOLEAN /\ (~mixed' => ~mixed /\ ~guess[g].stale)
  BY <1>2, <1>3
<1> QED BY <1>2, <1>4, <1>5, <1>6, <1>7

\* What a guess that is under way knows of its code.
LEMMA CopyKnown ==
  ASSUME CodesInv, NEW g \in Guesses, guess[g].step # "idle"
  PROVE  /\ guess[g].copy \in Entries /\ guess[g].copy.code \in Codes
         /\ ~guess[g].stale /\ ~mixed =>
              /\ guess[g].copy = entry /\ entry # NoEntry /\ entry.code = lastCode
              /\ wrong[entry.code] = entry.attempts /\ accepted[entry.code] = 0
<1>1. guess[g].copy \in Entries /\ guess[g].copy.code \in Codes
  BY DEF CodesInv, CodesTypeOK, GuessStates, GuessesCarry, GuessCarries
<1>2. guess[g].copy # NoEntry
  BY <1>1, NoGuessType DEF Codes
<1> QED BY <1>1, <1>2 DEF CodesInv, FreshGuesses, InStep

-----------------------------------------------------------------------------
\* A new code replaces the entry, and every reading of the old one is out of date.
LEMMA IssueHolds ==
  ASSUME CodesInv, IssueCode PROVE CodesInv'
<1>1. /\ entry' \in Entries /\ entry'.code = lastCode + 1 /\ entry'.attempts = 0
      /\ lastCode' = lastCode + 1 /\ lastCode' \in Codes
  BY DEF IssueCode, Entries, CodesInv, CodesTypeOK, Codes
<1>2. UNCHANGED <<wrong, accepted, outdated, mixed>> /\ guess' = Written(Guesses)
  BY DEF IssueCode
<1>3. CodesTypeOK'
  BY <1>1, <1>2, WrittenType DEF CodesInv, CodesTypeOK, Codes
<1>4. GuessesCarry' /\ FreshGuesses' /\ EntryNamed'
  BY <1>1, <1>2, WrittenType DEF GuessesCarry, FreshGuesses, EntryNamed
<1>5. InStep'
  BY <1>1, <1>2 DEF CodesInv, InStep, CodesTypeOK, Codes
<1> QED BY <1>3, <1>4, <1>5 DEF CodesInv

\* The entry expires, and every reading of it is out of date.
LEMMA ExpireHolds ==
  ASSUME CodesInv, ExpireCode PROVE CodesInv'
<1>1. /\ entry' = NoEntry /\ guess' = Written(Guesses)
      /\ UNCHANGED <<lastCode, wrong, accepted, outdated, mixed>>
  BY DEF ExpireCode
<1>2. CodesTypeOK' /\ GuessesCarry' /\ FreshGuesses' /\ EntryNamed'
  BY <1>1, WrittenType, NoGuessType
     DEF CodesInv, CodesTypeOK, GuessesCarry, FreshGuesses, EntryNamed
<1>3. InStep'
  BY <1>1 DEF CodesInv, InStep
<1> QED BY <1>2, <1>3 DEF CodesInv

\* A step that changes what one guess does next, and nothing else.
LEMMA GuessHolds ==
  ASSUME CodesInv, NEW g \in Guesses, NEW s \in GuessStates, GuessCarries(s),
         s.step # "idle" /\ ~s.stale => s.copy = entry,
         guess' = [guess EXCEPT ![g] = s],
         UNCHANGED <<entry, lastCode, wrong, accepted, outdated, mixed>>
  PROVE  CodesInv'
<1>1. CodesTypeOK'
  BY DEF CodesInv, CodesTypeOK
<1>2. GuessesCarry' /\ FreshGuesses' /\ EntryNamed'
  BY DEF CodesInv, CodesTypeOK, GuessesCarry, FreshGuesses, EntryNamed
<1>3. InStep'
  BY DEF CodesInv, InStep
<1> QED BY <1>1, <1>2, <1>3 DEF CodesInv

\* A guess reads the entry; from here on its reading is what the entry is.
LEMMA ReadEntryHolds ==
  ASSUME CodesInv, NEW g \in Guesses, ReadEntry(g) PROVE CodesInv'
<1>1. entry \in Entries /\ entry.code \in Codes
  BY DEF ReadEntry, CodesInv, CodesTypeOK, EntryNamed
<1>2. PICK right \in BOOLEAN :
        guess' = [guess EXCEPT ![g] =
          [step |-> IF UsedUp(entry) THEN "drop" ELSE IF right THEN "consume" ELSE "ttl",
           copy |-> entry, stale |-> FALSE]]
  BY DEF ReadEntry
<1> DEFINE step == IF UsedUp(entry) THEN "drop" ELSE IF right THEN "consume" ELSE "ttl"
           s == [step |-> step, copy |-> entry, stale |-> FALSE]
<1>3. step \in {"drop", "consume", "ttl"} /\ (step = "ttl" => entry.attempts < MaxAttempts)
  BY <1>1 DEF UsedUp, Entries
<1>4. /\ guess' = [guess EXCEPT ![g] = s]
      /\ UNCHANGED <<entry, lastCode, wrong, accepted, outdated, mixed>>
  BY <1>2 DEF ReadEntry
<1> HIDE DEF step
<1>5. s \in GuessStates /\ GuessCarries(s) /\ s.copy = entry
  BY <1>1, <1>3 DEF GuessStates, GuessCarries
<1> HIDE DEF s
<1> QED BY <1>4, <1>5, GuessHolds

\* A guess reads how long the entry has left.
LEMMA ReadTtlHolds ==
  ASSUME CodesInv, NEW g \in Guesses, ReadTtl(g) PROVE CodesInv'
<1>1. PICK step \in {"store", "last"} : guess' = [guess EXCEPT ![g].step = step]
  BY DEF ReadTtl
<1> DEFINE s == [guess[g] EXCEPT !.step = step]
<1>2. guess[g] \in GuessStates /\ guess[g].step = "ttl" /\ GuessCarries(guess[g])
  BY DEF ReadTtl, CodesInv, CodesTypeOK, GuessesCarry
<1>3. s \in GuessStates /\ s.step = step /\ s.copy = guess[g].copy /\ s.stale = guess[g].stale
  BY <1>2 DEF GuessStates
<1>4. /\ guess' = [guess EXCEPT ![g] = s]
      /\ UNCHANGED <<entry, lastCode, wrong, accepted, outdated, mixed>>
  BY <1>1 DEF ReadTtl
<1> HIDE DEF s
<1>5. GuessCarries(s) /\ (~s.stale => s.copy = entry)
  BY <1>2, <1>3 DEF GuessCarries, CodesInv, FreshGuesses
<1> QED BY <1>3, <1>4, <1>5, GuessHolds

\* A guess that dies changes nothing.
LEMMA DiesHolds ==
  ASSUME CodesInv, NEW g \in Guesses, GuessDies(g) PROVE CodesInv'
<1>1. GuessCarries(NoGuess)
  BY NoGuessType DEF GuessCarries
<1> QED BY <1>1, NoGuessType, GuessHolds DEF GuessDies

\* A wrong guess counts once for its code, within the budget if it wrote in time.
LEMMA WrongCounts ==
  ASSUME CodesInv, NEW g \in Guesses, guess[g].step \in {"store", "last"}, Wrong(g)
  PROVE  /\ wrong' \in [Codes -> 0..(MaxAttempts + 1)]
         /\ \A c \in Codes \ {guess[g].copy.code} : wrong'[c] = wrong[c]
         /\ ~mixed /\ ~guess[g].stale =>
              wrong'[guess[g].copy.code] = entry.attempts + 1 /\ entry.attempts < MaxAttempts
<1> DEFINE k == guess[g].copy.code
<1>1. k \in Codes /\ guess[g].copy \in Entries /\ guess[g].copy.attempts < MaxAttempts
  BY CopyKnown DEF CodesInv, GuessesCarry, GuessCarries
<1>2. wrong \in [Codes -> 0..(MaxAttempts + 1)] /\ wrong[k] \in 0..(MaxAttempts + 1)
  BY <1>1 DEF CodesInv, CodesTypeOK
<1>3. wrong' = [wrong EXCEPT ![k] = CountUpTo(wrong[k], MaxAttempts + 1)]
  BY DEF Wrong
<1>4. CountUpTo(wrong[k], MaxAttempts + 1) \in 0..(MaxAttempts + 1)
  BY <1>2 DEF CountUpTo
<1>5. ASSUME ~mixed, ~guess[g].stale
      PROVE  wrong'[k] = entry.attempts + 1 /\ entry.attempts < MaxAttempts
  <2>1. guess[g].copy = entry /\ wrong[k] = entry.attempts
    BY <1>5, CopyKnown
  <2> QED BY <1>1, <1>2, <1>3, <2>1 DEF CountUpTo, Entries
<1> HIDE DEF k
<1>6. /\ wrong' \in [Codes -> 0..(MaxAttempts + 1)]
      /\ \A c \in Codes \ {k} : wrong'[c] = wrong[c]
  BY <1>1, <1>2, <1>3, <1>4
<1> QED BY <1>5, <1>6 DEF k

\* A wrong guess stores the entry as it was read, counted up.
LEMMA StoreHolds ==
  ASSUME CodesInv, NEW g \in Guesses, StoreGuess(g) PROVE CodesInv'
<1> DEFINE e == Counted(guess[g].copy)
<1>1. /\ guess[g].step = "store" /\ UNCHANGED <<lastCode, accepted, outdated>>
      /\ Wrong(g) /\ Finish(g, e)
  BY DEF StoreGuess
<1>2. /\ guess[g].copy \in Entries /\ guess[g].copy.code \in Codes
      /\ guess[g].copy.attempts < MaxAttempts
  BY <1>1, CopyKnown DEF CodesInv, GuessesCarry, GuessCarries
<1>3. e \in Entries /\ e.code = guess[g].copy.code /\ e.attempts = guess[g].copy.attempts + 1
  BY <1>2 DEF Counted, Entries
<1> HIDE DEF e
<1>4. /\ guess' \in [Guesses -> GuessStates] /\ GuessesCarry' /\ FreshGuesses'
      /\ entry' = e /\ mixed' \in BOOLEAN
      /\ ~mixed' => ~mixed /\ ~guess[g].stale
  BY <1>1, <1>3, FinishType
<1>5. CodesTypeOK'
  BY <1>1, <1>3, <1>4, WrongCounts DEF CodesInv, CodesTypeOK
<1>6. EntryNamed'
  BY <1>2, <1>3, <1>4 DEF EntryNamed
<1>7. InStep'
  <2> SUFFICES ASSUME ~mixed' PROVE InStep'
    BY DEF InStep
  <2>1. /\ ~mixed /\ ~guess[g].stale /\ guess[g].copy = entry /\ entry.code = lastCode
        /\ accepted[entry.code] = 0
    BY <1>1, <1>4, CopyKnown
  <2>2. wrong'[e.code] = e.attempts /\ e.attempts <= MaxAttempts /\ e.code \in Codes
        /\ \A c \in Codes \ {e.code} : wrong'[c] = wrong[c]
    BY <1>1, <1>2, <1>3, <2>1, WrongCounts DEF Entries
  <2>3. e.code = lastCode' /\ accepted'[e.code] = 0
    BY <1>1, <1>3, <2>1
  <2> QED BY <1>1, <1>4, <2>1, <2>2, <2>3 DEF CodesInv, InStep, CodesTypeOK, Codes
<1> QED BY <1>4, <1>5, <1>6, <1>7 DEF CodesInv

\* The entry goes, and with it nothing is left to count.
LEMMA DropHolds ==
  ASSUME CodesInv, NEW g \in Guesses, DropLast(g) \/ DropCode(g) PROVE CodesInv'
<1>1. guess[g].step # "idle" /\ Finish(g, NoEntry) /\ UNCHANGED <<lastCode, accepted, outdated>>
  BY DEF DropLast, DropCode
<1>2. /\ guess' \in [Guesses -> GuessStates] /\ GuessesCarry' /\ FreshGuesses'
      /\ entry' = NoEntry /\ mixed' \in BOOLEAN
      /\ ~mixed' => ~mixed /\ ~guess[g].stale
  BY <1>1, NoGuessType, FinishType
<1>3. CASE wrong' = wrong
  <2>1. CodesTypeOK' /\ EntryNamed'
    BY <1>1, <1>2, <1>3, NoGuessType DEF CodesInv, CodesTypeOK, EntryNamed
  <2>2. InStep'
    BY <1>1, <1>2, <1>3 DEF CodesInv, InStep
  <2> QED BY <1>2, <2>1, <2>2 DEF CodesInv
<1>4. CASE DropLast(g)
  <2>1. guess[g].step = "last" /\ Wrong(g)
    BY <1>4 DEF DropLast
  <2>2. CodesTypeOK' /\ EntryNamed'
    BY <1>1, <1>2, <2>1, WrongCounts, NoGuessType DEF CodesInv, CodesTypeOK, EntryNamed
  <2>3. InStep'
    <3> SUFFICES ASSUME ~mixed' PROVE InStep'
      BY DEF InStep
    <3>1. /\ ~mixed /\ ~guess[g].stale /\ guess[g].copy = entry /\ entry.code = lastCode
          /\ entry.code \in Codes /\ entry \in Entries
      BY <1>1, <1>2, CopyKnown
    <3>2. wrong'[lastCode] <= MaxAttempts /\ \A c \in Codes \ {lastCode} : wrong'[c] = wrong[c]
      BY <2>1, <3>1, WrongCounts DEF Entries
    <3> QED BY <1>1, <1>2, <3>1, <3>2 DEF CodesInv, InStep, CodesTypeOK, Codes
  <2> QED BY <1>2, <2>2, <2>3 DEF CodesInv
<1> QED BY <1>3, <1>4 DEF DropCode

\* A guess that is right, or the last wrong one, deletes the entry.
LEMMA ConsumeHolds ==
  ASSUME CodesInv, NEW g \in Guesses, ConsumeCode(g) PROVE CodesInv'
<1> DEFINE k == guess[g].copy.code
<1>1. guess[g].step = "consume" /\ Finish(g, NoEntry) /\ UNCHANGED <<lastCode, wrong>>
  BY DEF ConsumeCode, AfterUse
<1>2. /\ guess' \in [Guesses -> GuessStates] /\ GuessesCarry' /\ FreshGuesses'
      /\ entry' = NoEntry /\ mixed' \in BOOLEAN
      /\ ~mixed' => ~mixed /\ ~guess[g].stale
  BY <1>1, NoGuessType, FinishType
<1>3. k \in Codes /\ accepted \in [Codes -> 0..2] /\ outdated \in BOOLEAN
  BY <1>1, CopyKnown DEF CodesInv, CodesTypeOK
<1>4. /\ accepted' = [accepted EXCEPT ![k] = CountUpTo(accepted[k], 2)]
      /\ outdated' = (outdated \/ k # lastCode)
  BY DEF ConsumeCode
<1> HIDE DEF k
<1>5. accepted' \in [Codes -> 0..2]
  BY <1>3, <1>4 DEF CountUpTo
<1>6. CodesTypeOK' /\ EntryNamed'
  BY <1>1, <1>2, <1>3, <1>4, <1>5, NoGuessType DEF CodesInv, CodesTypeOK, EntryNamed
<1>7. InStep'
  <2> SUFFICES ASSUME ~mixed' PROVE InStep'
    BY DEF InStep
  <2>1. ~mixed /\ k = lastCode /\ accepted[k] = 0
    BY <1>1, <1>2, CopyKnown DEF k
  <2>2. accepted'[k] = 1 /\ \A c \in Codes \ {k} : accepted'[c] = accepted[c]
    BY <1>3, <1>4, <2>1 DEF CountUpTo
  <2>3. ~outdated'
    BY <1>4, <2>1 DEF CodesInv, InStep
  <2> QED BY <1>1, <1>2, <1>3, <2>1, <2>2, <2>3 DEF CodesInv, InStep, CodesTypeOK, Codes
<1> QED BY <1>2, <1>6, <1>7 DEF CodesInv

\* Every step of codes and guesses keeps the invariant.
LEMMA CodesNextHolds ==
  ASSUME CodesInv, [CodesNext]_codesVars PROVE CodesInv'
<1>1. CASE UNCHANGED codesVars
  BY <1>1 DEF codesVars, CodesInv, CodesTypeOK, GuessesCarry, FreshGuesses, EntryNamed, InStep
<1>2. CASE IssueCode \/ ExpireCode
  BY <1>2, IssueHolds, ExpireHolds
<1>3. ASSUME NEW g \in Guesses,
             \/ ReadEntry(g) \/ ReadTtl(g) \/ StoreGuess(g) \/ DropLast(g) \/ DropCode(g)
             \/ ConsumeCode(g) \/ GuessDies(g)
      PROVE  CodesInv'
  BY <1>3, ReadEntryHolds, ReadTtlHolds, StoreHolds, DropHolds, ConsumeHolds, DiesHolds
<1> QED BY <1>1, <1>2, <1>3 DEF CodesNext

\* For any number of guesses at the same time and any MAX_ATTEMPTS: the budget of a code is
\* exceeded, a code used twice or an overtaken one accepted only when a guess has written after
\* its reading was out of date (verify_pending_code, verify_password_reset_code,
\* verify_information_change_code).
THEOREM CodesKeepTheirWord == CodesSpec => []CodesSound
<1>1. CodesInv /\ [CodesNext]_codesVars => CodesInv'
  BY CodesNextHolds
<1> QED BY CodesInitHolds, <1>1, CodesInvImplies, PTL DEF CodesSpec
HIDE CodesAssumption

-----------------------------------------------------------------------------
(***************************************************************************)
(* Sessions.  A request whose reading is not out of date holds the account *)
(* as it is, and only the admin's forms open on an inactive one: so until  *)
(* a request overruns, what it writes keeps password, tokens and deletion  *)
(* in step.                                                                *)
(***************************************************************************)
HoldsAccount(q) ==
  /\ q.step # "idle" /\ ~q.stale => q.copy = account
  /\ q.step \in {"login", "token"} => q.copy.password # 0
  /\ q.step \notin {"idle", "admin"} => q.copy.active

SessionsInv == SessionsSound /\ \A a \in Accesses : HoldsAccount(access[a])

\* The records the requests start from are well-formed.
LEMMA NoAccessType ==
  ASSUME SessionsAssumption
  PROVE  /\ NewAccount \in AccountRows /\ NoAccess \in AccessStates /\ NoAccess.step = "idle"
         /\ NewAccount.active /\ ~NewAccount.deleted /\ NewAccount.password = 1
BY DEF SessionsAssumption, NewAccount, NoAccess, AccountRows, AccessStates, AccessSteps, Passwords

\* A new account satisfies the invariant.
LEMMA SessionsInitHolds == SessionsAssumption /\ SessionsInit => SessionsInv
<1> SUFFICES ASSUME SessionsAssumption, SessionsInit PROVE SessionsInv
  OBVIOUS
<1>1. 1 \in Passwords /\ {1} \subseteq Passwords \ {0}
  BY DEF SessionsAssumption, Passwords
<1>2. SessionsTypeOK
  BY <1>1, NoAccessType DEF SessionsInit, SessionsTypeOK, Roles
<1>3. SessionsUseLastPassword /\ LastPasswordInForce /\ DeletedKeepsNothing
  BY NoAccessType
     DEF SessionsInit, SessionsUseLastPassword, LastPasswordInForce, DeletedKeepsNothing, AdminSaved
<1>4. \A a \in Accesses : HoldsAccount(access[a])
  BY NoAccessType DEF SessionsInit, HoldsAccount
<1> QED BY <1>2, <1>3, <1>4 DEF SessionsInv, SessionsSound

\* One request moves on; the others keep what they have read, and are out of date if the
\* account has changed.
LEMMA AccessMoves ==
  ASSUME access \in [Accesses -> AccessStates], NEW a \in Accesses, NEW q \in AccessStates,
         NEW changed \in BOOLEAN, Access(a, q, changed)
  PROVE  /\ access' \in [Accesses -> AccessStates]
         /\ access'[a] = q
         /\ \A b \in Accesses \ {a} :
              /\ access'[b].step = access[b].step /\ access'[b].copy = access[b].copy
              /\ access'[b].stale = access[b].stale \/ access'[b].stale = TRUE
              /\ changed /\ access[b].step # "idle" => access'[b].stale
BY DEF Access, AccessStates

\* What is known of the requests after one that leaves the account alone moves on ...
LEMMA RequestsKeep ==
  ASSUME SessionsInv, NEW a \in Accesses, NEW q \in AccessStates, HoldsAccount(q),
         Access(a, q, FALSE), account' = account
  PROVE  /\ access' \in [Accesses -> AccessStates]
         /\ \A b \in Accesses : HoldsAccount(access[b])'
<1>1. access \in [Accesses -> AccessStates]
  BY DEF SessionsInv, SessionsSound, SessionsTypeOK
<1>2. /\ access' \in [Accesses -> AccessStates] /\ access'[a] = q
      /\ \A b \in Accesses \ {a} : access'[b] = access[b]
  BY <1>1 DEF Access
<1> QED BY <1>2 DEF SessionsInv, HoldsAccount

\* ... and after one that has written it ends.
LEMMA RequestsLearn ==
  ASSUME SessionsAssumption, SessionsInv, NEW a \in Accesses, Access(a, NoAccess, TRUE)
  PROVE  /\ access' \in [Accesses -> AccessStates]
         /\ \A b \in Accesses : HoldsAccount(access[b])'
<1>1. access \in [Accesses -> AccessStates]
  BY DEF SessionsInv, SessionsSound, SessionsTypeOK
<1>2. /\ access' \in [Accesses -> AccessStates] /\ access'[a] = NoAccess
      /\ \A b \in Accesses \ {a} :
           /\ access'[b].step = access[b].step /\ access'[b].copy = access[b].copy
           /\ access[b].step # "idle" => access'[b].stale
  BY <1>1, NoAccessType, AccessMoves
<1>3. ASSUME NEW b \in Accesses PROVE HoldsAccount(access[b])'
  BY <1>2, NoAccessType DEF SessionsInv, HoldsAccount
<1> QED BY <1>2, <1>3

\* Opening a request: it holds the account it has loaded.
LEMMA OpenHolds ==
  ASSUME SessionsInv, NEW a \in Accesses, NEW s \in AccessSteps, Open(a, s),
         s \in {"login", "token"} => account.password # 0,
         s # "admin" => account.active
  PROVE  SessionsInv'
<1> DEFINE q == [NoAccess EXCEPT !.step = s, !.copy = account]
<1>1. q \in AccessStates /\ q.step = s /\ q.copy = account
  BY DEF SessionsInv, SessionsSound, SessionsTypeOK, NoAccess, AccessStates
<1> HIDE DEF q
<1>2. HoldsAccount(q) /\ Access(a, q, FALSE)
      /\ UNCHANGED <<account, roles, tokens, lastPassword, byAdmin, overran>>
  BY <1>1 DEF Open, HoldsAccount, q
<1>3. access' \in [Accesses -> AccessStates] /\ \A b \in Accesses : HoldsAccount(access[b])'
  BY <1>1, <1>2, RequestsKeep
<1> QED BY <1>2, <1>3
     DEF SessionsInv, SessionsSound, SessionsTypeOK, Roles, SessionsUseLastPassword,
         LastPasswordInForce, DeletedKeepsNothing, AdminSaved

\* Every way to open a request meets what OpenHolds asks.
LEMMA StartHolds ==
  ASSUME SessionsInv, NEW a \in Accesses,
         \/ StartLogin(a) \/ StartChangePassword(a) \/ StartDeleteMe(a) \/ StartReset(a)
         \/ StartConfirmChange(a) \/ StartProfile(a) \/ StartAdminForm(a)
  PROVE  SessionsInv'
BY OpenHolds DEF StartLogin, StartChangePassword, StartDeleteMe, StartReset, StartConfirmChange,
     StartProfile, StartAdminForm, HasPassword, SignedIn, AccessSteps

\* A login gives the role back and goes on to its token.
LEMMA SaveLoginHolds ==
  ASSUME SessionsInv, NEW a \in Accesses, SaveLogin(a)
  PROVE  SessionsInv'
<1> DEFINE q == [access[a] EXCEPT !.step = "token"]
<1>0. access[a] \in AccessStates /\ access[a].step = "login" /\ HoldsAccount(access[a])
  BY DEF SaveLogin, SessionsInv, SessionsSound, SessionsTypeOK
<1>1. q \in AccessStates /\ q.step = "token" /\ q.copy = access[a].copy /\ q.stale = access[a].stale
  BY <1>0 DEF AccessStates, AccessSteps
<1> HIDE DEF q
<1>2. Access(a, q, FALSE) /\ HoldsAccount(q)
  BY <1>0, <1>1 DEF SaveLogin, HoldsAccount, q
<1>3. access' \in [Accesses -> AccessStates] /\ \A b \in Accesses : HoldsAccount(access[b])'
  BY <1>1, <1>2, RequestsKeep DEF SaveLogin
<1>4. access[a].stale \in BOOLEAN /\ overran \in BOOLEAN
  BY <1>0 DEF SessionsInv, SessionsSound, SessionsTypeOK, AccessStates
<1>5. overran' \/ ~account.deleted \/ AdminSaved
  BY <1>0, <1>4
     DEF SaveLogin, SessionsInv, SessionsSound, DeletedKeepsNothing, AdminSaved, HoldsAccount
<1> QED BY <1>3, <1>4, <1>5
     DEF SaveLogin, SessionsInv, SessionsSound, SessionsTypeOK, Roles, SessionsUseLastPassword,
         LastPasswordInForce, DeletedKeepsNothing, AdminSaved

\* A token is obtained under the password that was checked.
LEMMA CreateTokenHolds ==
  ASSUME SessionsAssumption, SessionsInv, NEW a \in Accesses, CreateToken(a)
  PROVE  SessionsInv'
<1>0. access[a] \in AccessStates /\ access[a].step = "token" /\ HoldsAccount(access[a])
  BY DEF CreateToken, SessionsInv, SessionsSound, SessionsTypeOK
<1>1. HoldsAccount(NoAccess)
  BY NoAccessType DEF HoldsAccount
<1>2. access' \in [Accesses -> AccessStates] /\ \A b \in Accesses : HoldsAccount(access[b])'
  BY <1>1, NoAccessType, RequestsKeep DEF CreateToken
<1>3. /\ access[a].stale \in BOOLEAN /\ overran \in BOOLEAN
      /\ access[a].copy.password \in Passwords \ {0}
  BY <1>0 DEF SessionsInv, SessionsSound, SessionsTypeOK, AccessStates, AccountRows, HoldsAccount
<1>4. overran' \/ ~account.deleted \/ AdminSaved
  BY <1>0, <1>3
     DEF CreateToken, SessionsInv, SessionsSound, DeletedKeepsNothing, AdminSaved, HoldsAccount
<1>5. overran' \/ access[a].copy.password = account.password
  BY <1>0, <1>3 DEF CreateToken, HoldsAccount
<1> QED BY <1>2, <1>3, <1>4, <1>5
     DEF CreateToken, SessionsInv, SessionsSound, SessionsTypeOK, Roles, SessionsUseLastPassword,
         LastPasswordInForce, DeletedKeepsNothing, AdminSaved

\* What a request that is not out of date writes over.
LEMMA WriterIsFresh ==
  ASSUME SessionsInv, NEW a \in Accesses, NEW row, NEW q, access[a].step # "idle",
         WriteAccount(a, row, q)
  PROVE  /\ access[a] \in AccessStates
         /\ overran' \in BOOLEAN /\ (overran => overran')
         /\ overran' \/ access[a].copy = account
         /\ overran' \/ AdminSaved \/ access[a].step = "admin" \/ ~account.deleted
<1>1. access[a] \in AccessStates /\ access[a].stale \in BOOLEAN /\ overran \in BOOLEAN
  BY DEF SessionsInv, SessionsSound, SessionsTypeOK, AccessStates
<1>2. overran' = (overran \/ access[a].stale)
  BY DEF WriteAccount
<1>3. overran' \/ access[a].copy = account
  BY <1>1, <1>2 DEF SessionsInv, HoldsAccount
<1>4. overran' \/ AdminSaved \/ access[a].step = "admin" \/ ~account.deleted
  BY <1>1, <1>2, <1>3 DEF SessionsInv, SessionsSound, DeletedKeepsNothing, AdminSaved, HoldsAccount
<1> QED BY <1>1, <1>2, <1>3, <1>4

\* A new password ends every session.
LEMMA SetPasswordHolds ==
  ASSUME SessionsAssumption, SessionsInv, NEW a \in Accesses, SetPassword(a)
  PROVE  SessionsInv'
<1> DEFINE row == [account EXCEPT !.password = NewPassword]
<1>0. access[a].step \in {"change", "reset"} /\ WriteAccount(a, row, NoAccess)
  BY DEF SetPassword
<1>1. /\ account' = row /\ row \in AccountRows /\ NewPassword \in Passwords
      /\ row.password = NewPassword /\ row.deleted = account.deleted
  BY <1>0 DEF SetPassword, WriteAccount, SessionsInv, SessionsSound, SessionsTypeOK, AccountRows
<1> HIDE DEF row
<1>2. access' \in [Accesses -> AccessStates] /\ \A b \in Accesses : HoldsAccount(access[b])'
  BY <1>0, RequestsLearn DEF WriteAccount
<1>3. overran' \in BOOLEAN /\ (overran' \/ AdminSaved \/ ~account.deleted)
  BY <1>0, WriterIsFresh
<1> QED BY <1>1, <1>2, <1>3
     DEF SetPassword, TokensAfterPassword, SessionsInv, SessionsSound, SessionsTypeOK, Roles,
         SessionsUseLastPassword, LastPasswordInForce, DeletedKeepsNothing, AdminSaved

\* So does one that a confirmed change sets; a change without one leaves password and tokens.
LEMMA ConfirmChangeHolds ==
  ASSUME SessionsAssumption, SessionsInv, NEW a \in Accesses, ConfirmChange(a)
  PROVE  SessionsInv'
<1>0. PICK withPassword \in BOOLEAN, withMail \in BOOLEAN :
        /\ withPassword => NewPassword \in Passwords
        /\ WriteAccount(a, ConfirmedRow(withPassword, withMail), NoAccess)
        /\ lastPassword' = IF withPassword THEN NewPassword ELSE lastPassword
        /\ tokens' = IF withPassword THEN TokensAfterPassword ELSE tokens
  BY DEF ConfirmChange
<1> DEFINE row == ConfirmedRow(withPassword, withMail)
<1>1. /\ account' = row /\ row \in AccountRows /\ row.deleted = account.deleted
      /\ row.password = IF withPassword THEN NewPassword ELSE account.password
  BY <1>0 DEF WriteAccount, ConfirmedRow, SessionsInv, SessionsSound, SessionsTypeOK, AccountRows
<1> HIDE DEF row
<1>2. access' \in [Accesses -> AccessStates] /\ \A b \in Accesses : HoldsAccount(access[b])'
  BY <1>0, RequestsLearn DEF WriteAccount
<1>3. /\ overran' \in BOOLEAN /\ (overran => overran')
      /\ overran' \/ AdminSaved \/ ~account.deleted
  BY <1>0, WriterIsFresh DEF ConfirmChange
<1> QED BY <1>0, <1>1, <1>2, <1>3
     DEF ConfirmChange, TokensAfterPassword, SessionsInv, SessionsSound, SessionsTypeOK, Roles,
         SessionsUseLastPassword, LastPasswordInForce, DeletedKeepsNothing, AdminSaved

\* A profile save that did not overlap writes back what the row holds.
LEMMA SaveProfileHolds ==
  ASSUME SessionsAssumption, SessionsInv, NEW a \in Accesses, SaveProfile(a)
  PROVE  SessionsInv'
<1>0. access[a].step = "profile" /\ WriteAccount(a, access[a].copy, NoAccess)
      /\ account' = access[a].copy
  BY DEF SaveProfile, WriteAccount
<1>1. access' \in [Accesses -> AccessStates] /\ \A b \in Accesses : HoldsAccount(access[b])'
  BY <1>0, RequestsLearn DEF WriteAccount
<1>2. /\ access[a] \in AccessStates /\ overran' \in BOOLEAN /\ (overran => overran')
      /\ overran' \/ access[a].copy = account
      /\ overran' \/ AdminSaved \/ ~account.deleted
  BY <1>0, WriterIsFresh
<1> QED BY <1>0, <1>1, <1>2
     DEF SaveProfile, SessionsInv, SessionsSound, SessionsTypeOK, Roles, AccessStates,
         SessionsUseLastPassword, LastPasswordInForce, DeletedKeepsNothing, AdminSaved

\* A deletion clears password, tokens and roles together.
LEMMA DeleteMeHolds ==
  ASSUME SessionsAssumption, SessionsInv, NEW a \in Accesses, DeleteMe(a)
  PROVE  SessionsInv'
<1> DEFINE row == [password |-> 0, active |-> FALSE, deleted |-> TRUE, named |-> FALSE]
<1>0. access[a].step = "delete" /\ WriteAccount(a, row, NoAccess)
  BY DEF DeleteMe
<1>1. /\ account' = row /\ row \in AccountRows /\ row.password = 0 /\ row.deleted
      /\ ~row.active /\ ~row.named
  BY <1>0 DEF WriteAccount, AccountRows, Passwords, SessionsAssumption
<1> HIDE DEF row
<1>2. access' \in [Accesses -> AccessStates] /\ \A b \in Accesses : HoldsAccount(access[b])'
  BY <1>0, RequestsLearn DEF WriteAccount
<1>3. overran' \in BOOLEAN
  BY <1>0, WriterIsFresh
<1> QED BY <1>1, <1>2, <1>3
     DEF DeleteMe, SessionsInv, SessionsSound, SessionsTypeOK, Roles,
         SessionsUseLastPassword, LastPasswordInForce, DeletedKeepsNothing, AdminSaved

\* The admin's password form is remembered, since it keeps the tokens.
LEMMA SaveAdminPasswordHolds ==
  ASSUME SessionsAssumption, SessionsInv, NEW a \in Accesses, SaveAdminPassword(a)
  PROVE  SessionsInv'
<1> DEFINE row == [access[a].copy EXCEPT !.password = NewPassword]
<1>0. access[a].step = "admin" /\ WriteAccount(a, row, NoAccess)
  BY DEF SaveAdminPassword
<1>1. access[a] \in AccessStates /\ overran' \in BOOLEAN
  BY <1>0, WriterIsFresh
<1>2. account' = row /\ row \in AccountRows /\ row.password = NewPassword
      /\ NewPassword \in Passwords
  BY <1>0, <1>1 DEF SaveAdminPassword, WriteAccount, AccessStates, AccountRows
<1> HIDE DEF row
<1>3. access' \in [Accesses -> AccessStates] /\ \A b \in Accesses : HoldsAccount(access[b])'
  BY <1>0, RequestsLearn DEF WriteAccount
<1> QED BY <1>1, <1>2, <1>3
     DEF SaveAdminPassword, SessionsInv, SessionsSound, SessionsTypeOK, Roles,
         SessionsUseLastPassword, LastPasswordInForce, DeletedKeepsNothing, AdminSaved

\* The admin's change form keeps the password it has loaded.
LEMMA SaveAdminFormHolds ==
  ASSUME SessionsAssumption, SessionsInv, NEW a \in Accesses, SaveAdminForm(a)
  PROVE  SessionsInv'
<1>0. PICK active \in BOOLEAN, named \in {TRUE, access[a].copy.named} :
        WriteAccount(a, [access[a].copy EXCEPT !.active = active, !.named = named], NoAccess)
  BY DEF SaveAdminForm
<1> DEFINE row == [access[a].copy EXCEPT !.active = active, !.named = named]
<1>1. /\ access[a] \in AccessStates /\ overran' \in BOOLEAN /\ (overran => overran')
      /\ overran' \/ access[a].copy = account
  BY <1>0, WriterIsFresh DEF SaveAdminForm
<1>2. /\ account' = row /\ row \in AccountRows
      /\ row.password = access[a].copy.password /\ row.deleted = access[a].copy.deleted
  BY <1>0, <1>1 DEF WriteAccount, AccessStates, AccountRows
<1> HIDE DEF row
<1>3. access' \in [Accesses -> AccessStates] /\ \A b \in Accesses : HoldsAccount(access[b])'
  BY <1>0, RequestsLearn DEF WriteAccount
<1>4. byAdmin \subseteq byAdmin' /\ byAdmin' \subseteq {"password", "deleted", "granted"}
  BY <1>2 DEF SaveAdminForm, SessionsInv, SessionsSound, SessionsTypeOK, Roles
<1>5. row.deleted => AdminSaved'
  BY <1>2 DEF SaveAdminForm, AdminSaved
<1> QED BY <1>1, <1>2, <1>3, <1>4, <1>5
     DEF SaveAdminForm, SessionsInv, SessionsSound, SessionsTypeOK, Roles,
         SessionsUseLastPassword, LastPasswordInForce, DeletedKeepsNothing, AdminSaved

\* A verdict touches one role; on a deleted account it is remembered.
LEMMA ApplyOutcomeHolds ==
  ASSUME SessionsInv, NEW approved \in BOOLEAN, ApplyOutcome(approved)
  PROVE  SessionsInv'
<1>1. roles' \subseteq Roles /\ byAdmin' \subseteq {"password", "deleted", "granted"}
  BY DEF ApplyOutcome, Roles, SessionsInv, SessionsSound, SessionsTypeOK
<1>2. UNCHANGED <<account, tokens, access, lastPassword, overran>> /\ (AdminSaved => AdminSaved')
  BY DEF ApplyOutcome, AdminSaved
<1>3. DeletedKeepsNothing'
  BY <1>2 DEF ApplyOutcome, SessionsInv, SessionsSound, DeletedKeepsNothing
<1> QED BY <1>1, <1>2, <1>3
     DEF SessionsInv, SessionsSound, SessionsTypeOK, Roles, SessionsUseLastPassword,
         LastPasswordInForce, HoldsAccount, ApplyOutcome

\* Tokens and requests that end take nothing else with them.
LEMMA EndsHold ==
  ASSUME SessionsAssumption, SessionsInv,
         TokenEnds \/ (\E a \in Accesses : AccessEnds(a)) \/ UNCHANGED sessionsVars
  PROVE  SessionsInv'
<1>1. CASE TokenEnds
  BY <1>1 DEF TokenEnds, SessionsInv, SessionsSound, SessionsTypeOK, Roles, SessionsUseLastPassword,
              LastPasswordInForce, DeletedKeepsNothing, AdminSaved, HoldsAccount
<1>2. ASSUME NEW a \in Accesses, AccessEnds(a) PROVE SessionsInv'
  <2>1. HoldsAccount(NoAccess)
    BY NoAccessType DEF HoldsAccount
  <2>2. access' \in [Accesses -> AccessStates] /\ \A b \in Accesses : HoldsAccount(access[b])'
    BY <1>2, <2>1, NoAccessType, RequestsKeep DEF AccessEnds
  <2> QED BY <1>2, <2>2
       DEF AccessEnds, SessionsInv, SessionsSound, SessionsTypeOK, Roles, SessionsUseLastPassword,
           LastPasswordInForce, DeletedKeepsNothing, AdminSaved
<1>3. CASE UNCHANGED sessionsVars
  BY <1>3 DEF sessionsVars, SessionsInv, SessionsSound, SessionsTypeOK, Roles,
              SessionsUseLastPassword, LastPasswordInForce, DeletedKeepsNothing, AdminSaved,
              HoldsAccount
<1> QED BY <1>1, <1>2, <1>3

\* Until a request overruns or the admin site steps in, the password set last is in force, every
\* session was opened under it, and a deleted account keeps nothing and gets no role but by a
\* verdict (apps/users/views.py, apps/providers/services.py).
THEOREM SessionsKeepTheirWord == SessionsSpec => []SessionsSound
<1>1. SessionsInit => SessionsInv
  BY SessionsAssumption, SessionsInitHolds
<1>2. SessionsInv /\ [SessionsNext]_sessionsVars => SessionsInv'
  BY SessionsAssumption, StartHolds, SaveLoginHolds, CreateTokenHolds, SetPasswordHolds,
     ConfirmChangeHolds, SaveProfileHolds, DeleteMeHolds, SaveAdminPasswordHolds,
     SaveAdminFormHolds, ApplyOutcomeHolds, EndsHold
     DEF SessionsNext
<1>3. SessionsInv => SessionsSound
  BY DEF SessionsInv
<1> QED BY <1>1, <1>2, <1>3, PTL DEF SessionsSpec

-----------------------------------------------------------------------------
(***************************************************************************)
(* ReadFlags.  As long as no submission has written over a newer row, a    *)
(* notification that was stamped is still read; and a copy the form holds  *)
(* is a row that was there.                                                *)
(***************************************************************************)
ReadFlagsInv ==
  /\ StampedOnce
  /\ stamps \in 0..MaxReads /\ savedOver \in BOOLEAN
  /\ noteForms \subseteq {n \in Notes : n.read <=> n.at > 0}
  /\ stamps > 0 => note.read \/ savedOver

\* A notification is stamped once, unless the admin's form has put an older row back
\* (apps/notifications/views.py: read, read_all).
THEOREM ReadFlagsKeepTheirWord == ReadFlagsSpec => []StampedOnce
<1>1. ReadFlagsInit => ReadFlagsInv
  <2> SUFFICES ASSUME ReadFlagsInit PROVE ReadFlagsInv
    OBVIOUS
  <2>1. note \in Notes /\ ~note.read /\ note.at = 0
    BY ReadFlagsAssumption DEF ReadFlagsInit, Notes
  <2>2. stamps = 0 /\ noteForms = {} /\ savedOver = FALSE
    BY DEF ReadFlagsInit
  <2>3. savedOver \in BOOLEAN
    BY <2>2
  <2>4. StampedOnce
    BY <2>1, <2>2 DEF StampedOnce
  <2>5. stamps \in 0..MaxReads /\ ~(stamps > 0)
    BY <2>2, ReadFlagsAssumption
  <2> QED BY <2>2, <2>3, <2>4, <2>5 DEF ReadFlagsInv
<1>2. ReadFlagsInv /\ [ReadFlagsNext]_readFlagsVars => ReadFlagsInv'
  <2> SUFFICES ASSUME ReadFlagsInv, [ReadFlagsNext]_readFlagsVars PROVE ReadFlagsInv'
    OBVIOUS
  <2>1. CASE MarkRead
    BY <2>1, ReadFlagsAssumption DEF MarkRead, Unread, ReadFlagsInv, StampedOnce, Notes
  <2>2. CASE OpenNoteForm
    BY <2>2 DEF OpenNoteForm, ReadFlagsInv, StampedOnce, Notes
  <2>3. CASE SaveNoteForm
    <3>1. PICK copy \in noteForms : note' = copy /\ savedOver' = (savedOver \/ copy # note)
      BY <2>3 DEF SaveNoteForm
    <3> QED BY <2>3, <3>1 DEF SaveNoteForm, ReadFlagsInv, StampedOnce
  <2>4. CASE UNCHANGED readFlagsVars
    BY <2>4 DEF readFlagsVars, ReadFlagsInv, StampedOnce
  <2> QED BY <2>1, <2>2, <2>3, <2>4 DEF ReadFlagsNext
<1>3. ReadFlagsInv => StampedOnce
  BY DEF ReadFlagsInv
<1> QED BY <1>1, <1>2, <1>3, PTL DEF ReadFlagsSpec

-----------------------------------------------------------------------------
(***************************************************************************)
(* Favorites.  What the module promises is inductive as it stands: the     *)
(* constraints of the database are in the guards of the single statements. *)
(***************************************************************************)
\* The states of a request are told apart by their steps.
LEMMA TapKinds ==
  ASSUME NEW s \in TapStates
  PROVE  /\ s.step = "mark" => s.fan \in Fans
         /\ s.step = "unmark" => s.fan \in Fans /\ s.id \in FavoriteIds
         /\ NoTap \in TapStates
BY DEF TapStates, NoTap

\* A mark takes the next id.
LEMMA InsertMarkHolds ==
  ASSUME FavoritesSound, NEW t \in Taps, InsertMark(t)
  PROVE  FavoritesSound'
<1>1. tap[t].fan \in Fans /\ NoTap \in TapStates
  BY TapKinds DEF InsertMark, FavoritesSound, FavoritesTypeOK
<1>2. FavoritesTypeOK'
  BY <1>1, FavoritesAssumption DEF InsertMark, FavoritesSound, FavoritesTypeOK
<1> QED BY <1>2 DEF InsertMark, FavoritesSound, FavoriteOfListing, NewMarkStays

\* An unmarking deletes the favorite it has loaded, or none.
LEMMA DeleteMarkHolds ==
  ASSUME FavoritesSound, NEW t \in Taps, DeleteMark(t)
  PROVE  FavoritesSound'
<1>1. tap[t].fan \in Fans /\ tap[t].id \in FavoriteIds /\ NoTap \in TapStates
  BY TapKinds DEF DeleteMark, FavoritesSound, FavoritesTypeOK
<1>2. /\ favorite' = [favorite EXCEPT ![tap[t].fan] = IF @ = tap[t].id THEN 0 ELSE @]
      /\ marks' = marks /\ marks \in Nat /\ favorite \in [Fans -> 0..marks]
  BY FavoritesAssumption DEF DeleteMark, Removed, FavoritesSound, FavoritesTypeOK
<1>3. favorite' # favorite => favorite[tap[t].fan] = tap[t].id
  BY <1>1, <1>2
<1>4. mislaid' = {}
  BY <1>3 DEF DeleteMark, FavoritesSound, NewMarkStays
<1>5. /\ favorite' \in [Fans -> 0..marks]
      /\ \A f \in Fans : favorite'[f] = favorite[f] \/ favorite'[f] = 0
  BY <1>1, <1>2
<1> QED BY <1>1, <1>2, <1>4, <1>5
     DEF DeleteMark, FavoritesSound, FavoritesTypeOK, FavoriteOfListing, NewMarkStays

\* Requests that start, are refused or die write nothing.
LEMMA TapsHold ==
  ASSUME FavoritesSound, NEW t \in Taps,
         \/ RefuseMark(t) \/ TapDies(t)
         \/ \E f \in Fans : StartMark(t, f) \/ StartUnmark(t, f)
  PROVE  FavoritesSound'
<1>1. tap' \in [Taps -> TapStates]
  BY FavoritesAssumption
     DEF RefuseMark, TapDies, StartMark, StartUnmark, FavoritesSound, FavoritesTypeOK, TapStates,
         FavoriteIds
<1> QED BY <1>1
     DEF RefuseMark, TapDies, StartMark, StartUnmark, FavoritesSound, FavoritesTypeOK,
         FavoriteOfListing, NewMarkStays

\* The listing goes without favorites or with them.
LEMMA ListingGoesHolds ==
  ASSUME FavoritesSound,
         DeleteListing \/ RemoveListing \/ \E clean \in BOOLEAN : ImportListing(clean)
  PROVE  FavoritesSound'
<1>1. /\ favorite' = favorite \/ favorite' = [f \in Fans |-> 0]
      /\ listingThere' \in BOOLEAN /\ UNCHANGED <<tap, marks, mislaid>>
  BY DEF DeleteListing, RemoveListing, ImportListing, FavoritesSound, FavoritesTypeOK
<1>2. FavoritesTypeOK'
  BY <1>1, FavoritesAssumption DEF FavoritesSound, FavoritesTypeOK
<1>3. FavoriteOfListing'
  BY <1>1 DEF DeleteListing, RemoveListing, ImportListing, FavoritesSound, FavoritesTypeOK,
              FavoriteOfListing
<1> QED BY <1>1, <1>2, <1>3 DEF FavoritesSound, NewMarkStays

\* Favorites are of listings that exist, and a slow request removes no newer one
\* (apps/favorites/views.py).
THEOREM FavoritesKeepTheirWord == FavoritesSpec => []FavoritesSound
<1>1. FavoritesInit => FavoritesSound
  BY FavoritesAssumption
     DEF FavoritesInit, FavoritesSound, FavoritesTypeOK, FavoriteOfListing, NewMarkStays, TapStates
<1>2. FavoritesSound /\ [FavoritesNext]_favoritesVars => FavoritesSound'
  <2>1. FavoritesSound /\ UNCHANGED favoritesVars => FavoritesSound'
    BY DEF favoritesVars, FavoritesSound, FavoritesTypeOK, FavoriteOfListing, NewMarkStays
  <2> QED BY <2>1, InsertMarkHolds, DeleteMarkHolds, TapsHold, ListingGoesHolds DEF FavoritesNext
<1> QED BY <1>1, <1>2, PTL DEF FavoritesSpec

-----------------------------------------------------------------------------
(***************************************************************************)
(* Suggestions.  A page that is not older than the row displays the status *)
(* chosen last and the notes written last, so what it posts back keeps     *)
(* them.                                                                   *)
(***************************************************************************)
SuggestionsInv ==
  /\ SuggestionsSound
  /\ desk \in [Desks -> Suggested \cup {NoDesk}]
  /\ pastedOver \in BOOLEAN

\* Nothing is no suggestion.
LEMMA NoSuggestionApart == NoSuggestion \notin Suggested /\ NoDesk = NoSuggestion
<1>1. \A s \in Suggested : s.status \in SuggestionStatus
  BY DEF Suggested
<1> QED BY <1>1 DEF NoSuggestion, NoDesk, SuggestionStatus

\* A submitted page writes status and notes, and leaves a suggestion.
LEMMA SaveDeskHolds ==
  ASSUME SuggestionsInv, NEW d \in Desks, SaveDesk(d)
  PROVE  SuggestionsInv'
<1>1. PICK s \in SuggestionStatus, remark \in BOOLEAN :
        LET notes == IF remark THEN remarks + 1 ELSE desk[d].notes
        IN  /\ notes <= MaxRemarks
            /\ suggestion' = [suggestion EXCEPT !.status = s, !.notes = notes]
            /\ remarks' = IF remark THEN remarks + 1 ELSE remarks
            /\ resolved' = IF s # desk[d].status THEN s ELSE resolved
            /\ remarked' = IF remark THEN notes ELSE remarked
  BY DEF SaveDesk
<1> DEFINE notes == IF remark THEN remarks + 1 ELSE desk[d].notes
<1>2. /\ desk[d] \in Suggested /\ suggestion \in Suggested /\ suggestion.family \in suggesters
      /\ remarks \in 0..MaxRemarks
  BY DEF SaveDesk, SuggestionsInv, SuggestionsSound, SuggestionsTypeOK
<1>3. notes \in 0..MaxRemarks
  BY <1>1, <1>2, SuggestionsAssumption DEF Suggested
<1>4. suggestion' = [suggestion EXCEPT !.status = s, !.notes = notes]
  BY <1>1
<1> HIDE DEF notes
<1>5. /\ suggestion' \in Suggested /\ suggestion'.family = suggestion.family
      /\ suggestion'.status = s /\ suggestion'.notes = notes
  BY <1>2, <1>3, <1>4 DEF Suggested
<1>6. /\ pastedOver' \in BOOLEAN
      /\ ~pastedOver' => ~pastedOver /\ desk[d] = suggestion
  BY DEF SaveDesk, SuggestionsInv
<1>7. remarks' \in 0..MaxRemarks
  BY <1>1, <1>2, SuggestionsAssumption
<1>8. desk' \in [Desks -> Suggested \cup {NoDesk}] /\ SuggestionsTypeOK'
  <2>1. desk' \in [Desks -> Suggested \cup {NoDesk}]
    BY DEF SaveDesk, SuggestionsInv
  <2> QED BY <1>2, <1>5, <1>7, <2>1
       DEF SaveDesk, SuggestionsInv, SuggestionsSound, SuggestionsTypeOK
<1>9. LastWordStands'
  BY <1>1, <1>5, <1>6, NoSuggestionApart
     DEF SaveDesk, SuggestionsInv, SuggestionsSound, LastWordStands, notes
<1> QED BY <1>6, <1>8, <1>9 DEF SuggestionsInv, SuggestionsSound

\* A suggestion is made, marked in bulk or deleted.
LEMMA SuggestionMovesHold ==
  ASSUME SuggestionsInv,
         \/ DropSuggestion
         \/ \E f \in Suggesters : Suggest(f) \/ RemoveSuggester(f)
         \/ \E s \in SuggestionStatus : Mark(s)
  PROVE  SuggestionsInv'
<1>1. CASE DropSuggestion
  BY <1>1, NoSuggestionApart
     DEF DropSuggestion, SuggestionsInv, SuggestionsSound, SuggestionsTypeOK, LastWordStands
<1>2. ASSUME NEW f \in Suggesters, Suggest(f) PROVE SuggestionsInv'
  BY <1>2, SuggestionsAssumption, NoSuggestionApart
     DEF Suggest, SuggestionsInv, SuggestionsSound, SuggestionsTypeOK, LastWordStands, Suggested,
         SuggestionStatus
<1>3. ASSUME NEW f \in Suggesters, RemoveSuggester(f) PROVE SuggestionsInv'
  BY <1>3 DEF RemoveSuggester, SuggestionsInv, SuggestionsSound, SuggestionsTypeOK, LastWordStands
<1>4. ASSUME NEW s \in SuggestionStatus, Mark(s) PROVE SuggestionsInv'
  <2>1. /\ suggestion' \in Suggested /\ suggestion'.family = suggestion.family
        /\ suggestion'.status = s /\ suggestion'.notes = suggestion.notes
    BY <1>4 DEF Mark, Marked, SuggestionsInv, SuggestionsSound, SuggestionsTypeOK, Suggested
  <2> QED BY <1>4, <2>1
       DEF Mark, SuggestionsInv, SuggestionsSound, SuggestionsTypeOK, LastWordStands
<1> QED BY <1>1, <1>2, <1>3, <1>4

\* Pages that open or are left write nothing.
LEMMA DesksHold ==
  ASSUME SuggestionsInv, NEW d \in Desks, OpenDesk(d) \/ LeaveDesk(d)
  PROVE  SuggestionsInv'
<1>1. desk' \in [Desks -> Suggested \cup {NoDesk}]
  BY NoSuggestionApart DEF OpenDesk, LeaveDesk, SuggestionsInv, SuggestionsSound, SuggestionsTypeOK
<1> QED BY <1>1, NoSuggestionApart
     DEF OpenDesk, LeaveDesk, SuggestionsInv, SuggestionsSound, SuggestionsTypeOK, LastWordStands

\* The last word of the admins stands, unless a page older than the row was submitted
\* (apps/suggestions/admin.py).
THEOREM SuggestionsKeepTheirWord == SuggestionsSpec => []SuggestionsSound
<1>1. SuggestionsInit => SuggestionsInv
  <2> SUFFICES ASSUME SuggestionsInit PROVE SuggestionsInv
    OBVIOUS
  <2>1. /\ suggesters = Suggesters /\ suggestion = NoSuggestion /\ remarks = 0
        /\ desk = [d \in Desks |-> NoDesk] /\ pastedOver = FALSE
    BY DEF SuggestionsInit
  <2>2. pastedOver \in BOOLEAN
    BY <2>1
  <2>3. SuggestionsTypeOK
    BY <2>1, NoSuggestionApart, SuggestionsAssumption DEF SuggestionsTypeOK
  <2>4. LastWordStands
    BY <2>1 DEF LastWordStands
  <2> QED BY <2>1, <2>2, <2>3, <2>4 DEF SuggestionsInv, SuggestionsSound
<1>2. SuggestionsInv /\ [SuggestionsNext]_suggestionsVars => SuggestionsInv'
  <2>1. SuggestionsInv /\ UNCHANGED suggestionsVars => SuggestionsInv'
    BY DEF suggestionsVars, SuggestionsInv, SuggestionsSound, SuggestionsTypeOK, LastWordStands
  <2> QED BY <2>1, SaveDeskHolds, SuggestionMovesHold, DesksHold DEF SuggestionsNext
<1>3. SuggestionsInv => SuggestionsSound
  BY DEF SuggestionsInv
<1> QED BY <1>1, <1>2, <1>3, PTL DEF SuggestionsSpec

-----------------------------------------------------------------------------
(***************************************************************************)
(* Devices.  Unless a row or a phone changes while a push or a form holds  *)
(* it, what a push has read stays true of the phones the service can       *)
(* reach: they are used by its addressee (Reach), and what it is told of   *)
(* the others stays true as well (dead tokens are not installed).          *)
(***************************************************************************)
\* The active rows of phones the service reaches are of the accounts using them.
ActiveRowsInUse ==
  \A t \in installed : device[t].active => using[t] = device[t].user

Reach ==
  \A p \in Pushes : \A t \in push[p].tokens \cap installed : using[t] = push[p].to

FormHolds == \A t \in deviceForm.phones : device[t] = deviceForm.copy

DeadAreGone == \A p \in Pushes : push[p].dead \cap installed = {}

DevicesInv ==
  /\ DevicesSound
  /\ \A t \in Phones : using[t] # Nobody => t \in installed
  /\ \A p \in Pushes : push[p].dead \subseteq push[p].tokens
  /\ ~swapped => FormHolds /\ DeadAreGone
  /\ ~swapped /\ ~flaggedByHand => ActiveRowsInUse /\ Reach

\* A row and a push at rest are well-formed.
LEMMA NoDeviceType ==
  /\ NoDevice \in DeviceRows /\ ~NoDevice.active
  /\ NoPush \in PushStates /\ NoPush.step = "idle" /\ NoPush.tokens = {} /\ NoPush.dead = {}
  /\ NoDeviceForm \in FormStates /\ NoDeviceForm.phones = {}
BY DEF NoDevice, NoPush, NoDeviceForm, DeviceRows, PushStates, FormStates

\* No rows, no pushes: the invariant holds.
LEMMA DevicesInitHolds == DevicesInit => DevicesInv
<1> SUFFICES ASSUME DevicesInit PROVE DevicesInv
  OBVIOUS
<1>1. swapped \in BOOLEAN /\ misdirected \in BOOLEAN /\ flaggedByHand \in BOOLEAN /\ ~misdirected
  BY DEF DevicesInit
<1>2. /\ device = [t \in Phones |-> NoDevice] /\ using = [t \in Phones |-> Nobody]
      /\ installed = Phones /\ push = [p \in Pushes |-> NoPush] /\ deviceForm = NoDeviceForm
  BY DEF DevicesInit
<1>3. DevicesTypeOK
  BY <1>1, <1>2, NoDeviceType DEF DevicesTypeOK
<1>4. PushesReachTheirOwner /\ PhonesInUseAreActive
  BY <1>1, <1>2 DEF PushesReachTheirOwner, PhonesInUseAreActive
<1>5. FormHolds /\ DeadAreGone /\ ActiveRowsInUse /\ Reach
  BY <1>2, NoDeviceType DEF FormHolds, DeadAreGone, ActiveRowsInUse, Reach
<1> QED BY <1>2, <1>3, <1>4, <1>5, NoDeviceType DEF DevicesInv, DevicesSound

\* A phone is registered: no push and no form holds it, or they are out of date.
LEMMA RegisterDeviceHolds ==
  ASSUME DevicesInv, NEW t \in Phones, NEW u \in Owners, RegisterDevice(t, u)
  PROVE  DevicesInv'
<1>1. /\ device' = [device EXCEPT ![t] = Registered(t, u)] /\ using' = [using EXCEPT ![t] = u]
      /\ installed' = installed \cup {t} /\ swapped' = (swapped \/ Held(t))
      /\ UNCHANGED <<push, deviceForm, misdirected, flaggedByHand>>
  BY DEF RegisterDevice
<1>2. /\ Registered(t, u) \in DeviceRows /\ Registered(t, u).user = u
      /\ Registered(t, u) = [user |-> u, active |-> TRUE]
  BY DEF Registered, DeviceRows
<1>3. swapped' \in BOOLEAN /\ (swapped => swapped') /\ (~swapped' => ~Held(t))
  BY <1>1 DEF DevicesInv, DevicesSound, DevicesTypeOK
<1>4. DevicesTypeOK'
  BY <1>1, <1>2, <1>3 DEF DevicesInv, DevicesSound, DevicesTypeOK
<1>5. PushesReachTheirOwner' /\ PhonesInUseAreActive'
  BY <1>1, <1>2, <1>3
     DEF DevicesInv, DevicesSound, DevicesTypeOK, PushesReachTheirOwner, PhonesInUseAreActive
<1>6. ~swapped' => FormHolds' /\ DeadAreGone'
  BY <1>1, <1>3 DEF DevicesInv, DevicesSound, DevicesTypeOK, FormHolds, DeadAreGone, Held
<1>7. ~swapped' /\ ~flaggedByHand' => ActiveRowsInUse' /\ Reach'
  BY <1>1, <1>2, <1>3 DEF DevicesInv, DevicesSound, DevicesTypeOK, ActiveRowsInUse, Reach, Held
<1> QED BY <1>1, <1>4, <1>5, <1>6, <1>7
     DEF DevicesInv, DevicesSound, DevicesTypeOK

\* A phone is signed out or its app removed: nobody uses it, and its row goes or its token.
LEMMA PhoneLeavesHolds ==
  ASSUME DevicesInv, NEW t \in Phones,
         UninstallApp(t) \/ \E u \in Owners : UnregisterDevice(t, u)
  PROVE  DevicesInv'
<1>0. device \in [Phones -> DeviceRows] /\ using \in [Phones -> Owners \cup {Nobody}]
      /\ swapped \in BOOLEAN
  BY DEF DevicesInv, DevicesSound, DevicesTypeOK
<1>1. UNCHANGED <<push, deviceForm, misdirected, flaggedByHand>>
  BY DEF UninstallApp, UnregisterDevice
<1>2. swapped' \in BOOLEAN /\ (swapped => swapped') /\ (~swapped' => ~Held(t))
  BY <1>0 DEF UninstallApp, UnregisterDevice
<1>3. /\ device' \in [Phones -> DeviceRows] /\ using' \in [Phones -> Owners \cup {Nobody}]
      /\ installed' \subseteq installed
      /\ \A s \in Phones \ {t} : /\ device'[s] = device[s] /\ using'[s] = using[s]
                                 /\ s \in installed' <=> s \in installed
      /\ using'[t] \in {Nobody, using[t]}
      /\ t \notin installed' \/ ~device'[t].active
      /\ t \notin installed' => using'[t] = Nobody \/ t \notin installed
  <2>1. ASSUME UninstallApp(t)
        PROVE  /\ device' = device /\ installed' = installed \ {t}
               /\ using' = [using EXCEPT ![t] = Nobody]
    BY <2>1 DEF UninstallApp
  <2>2. ASSUME NEW u \in Owners, UnregisterDevice(t, u)
        PROVE  /\ device' = [device EXCEPT ![t].active = FALSE] /\ installed' = installed
               /\ using' = [using EXCEPT ![t] = IF @ = u THEN Nobody ELSE @]
    BY <2>2 DEF UnregisterDevice
  <2>3. CASE UninstallApp(t)
    BY <1>0, <2>1, <2>3
  <2>4. ASSUME NEW u \in Owners, UnregisterDevice(t, u)
        PROVE  <1>3!:
    <3>1. device' \in [Phones -> DeviceRows] /\ ~device'[t].active
      <4>1. device' = [device EXCEPT ![t].active = FALSE]
        BY <2>2, <2>4
      <4>2. [device[t] EXCEPT !.active = FALSE] \in DeviceRows
        BY <1>0 DEF DeviceRows
      <4> QED
        BY <1>0, <4>1, <4>2
    <3>2. /\ using' \in [Phones -> Owners \cup {Nobody}]
          /\ using'[t] \in {Nobody, using[t]}
      BY <1>0, <2>2, <2>4
    <3>3. \A s \in Phones \ {t} : device'[s] = device[s] /\ using'[s] = using[s]
      BY <1>0, <2>2, <2>4
    <3>4. installed' = installed
      BY <2>2, <2>4
    <3> QED
      BY <3>1, <3>2, <3>3, <3>4
  <2> QED
    BY <2>3, <2>4
<1>4. using'[t] # Nobody => swapped \/ flaggedByHand
  <2>1. CASE UninstallApp(t)
    BY <1>0, <2>1 DEF UninstallApp
  <2>2. ASSUME NEW u \in Owners, UnregisterDevice(t, u), using'[t] # Nobody
        PROVE  swapped \/ flaggedByHand
    <3>1. device[t].user = u /\ using[t] # u /\ using[t] # Nobody
      BY <1>0, <2>2 DEF UnregisterDevice, OwnDevice
    <3>2. device[t] = [user |-> using[t], active |-> TRUE] \/ swapped \/ flaggedByHand
      BY <3>1 DEF DevicesInv, DevicesSound, PhonesInUseAreActive
    <3>3. device[t] # [user |-> using[t], active |-> TRUE]
      BY <3>1
    <3> QED BY <3>2, <3>3
  <2> QED BY <2>1, <2>2
<1>5. DevicesTypeOK'
  BY <1>1, <1>2, <1>3 DEF DevicesInv, DevicesSound, DevicesTypeOK
<1>6. PushesReachTheirOwner' /\ PhonesInUseAreActive'
  BY <1>1, <1>2, <1>3, <1>4
     DEF DevicesInv, DevicesSound, PushesReachTheirOwner, PhonesInUseAreActive
<1>7. ~swapped' => FormHolds' /\ DeadAreGone'
  <2>1. deviceForm.phones \subseteq Phones
    BY DEF DevicesInv, DevicesSound, DevicesTypeOK, FormStates
  <2> QED BY <1>1, <1>2, <1>3, <2>1 DEF DevicesInv, FormHolds, DeadAreGone, Held
<1>8. ~swapped' /\ ~flaggedByHand' => ActiveRowsInUse' /\ Reach'
  <2>1. installed \subseteq Phones
    BY DEF DevicesInv, DevicesSound, DevicesTypeOK
  <2> QED BY <1>1, <1>2, <1>3, <2>1 DEF DevicesInv, ActiveRowsInUse, Reach, Held
<1>9. \A s \in Phones : using'[s] # Nobody => s \in installed'
  BY <1>3 DEF DevicesInv
<1> QED BY <1>1, <1>5, <1>6, <1>7, <1>8, <1>9 DEF DevicesInv, DevicesSound

\* A push reads the active tokens of its addressee.
LEMMA ReadTokensHolds ==
  ASSUME DevicesInv, NEW p \in Pushes, NEW u \in Owners, ReadTokens(p, u)
  PROVE  DevicesInv'
<1> DEFINE q == [step |-> "send", to |-> u, tokens |-> AddressedTokens(u), dead |-> {}]
<1>1. /\ q \in PushStates /\ q.step = "send" /\ q.tokens = AddressedTokens(u) /\ q.tokens # {}
      /\ q.dead = {} /\ q.to = u
  BY DEF ReadTokens, PushStates, AddressedTokens
<1>2. push' = [push EXCEPT ![p] = q]
      /\ UNCHANGED <<device, using, installed, deviceForm, swapped, misdirected, flaggedByHand>>
  BY DEF ReadTokens
<1> HIDE DEF q
<1>3. push' \in [Pushes -> PushStates] /\ push'[p] = q
      /\ \A r \in Pushes \ {p} : push'[r] = push[r]
  BY <1>1, <1>2 DEF DevicesInv, DevicesSound, DevicesTypeOK
<1>4. DevicesTypeOK' /\ PushesReachTheirOwner' /\ PhonesInUseAreActive'
  BY <1>1, <1>2, <1>3
     DEF DevicesInv, DevicesSound, DevicesTypeOK, PushesReachTheirOwner, PhonesInUseAreActive
<1>5. FormHolds' = FormHolds /\ ActiveRowsInUse' = ActiveRowsInUse
  BY <1>2 DEF FormHolds, ActiveRowsInUse
<1>6. DeadAreGone => DeadAreGone'
  BY <1>1, <1>2, <1>3 DEF DeadAreGone
<1>7. ActiveRowsInUse /\ Reach => Reach'
  BY <1>1, <1>2, <1>3 DEF ActiveRowsInUse, Reach, AddressedTokens
<1> QED BY <1>1, <1>2, <1>3, <1>4, <1>5, <1>6, <1>7 DEF DevicesInv, DevicesSound

\* The service delivers to phones its addressee uses, and names those that are not installed.
LEMMA SendPushHolds ==
  ASSUME DevicesInv, NEW p \in Pushes, SendPush(p)
  PROVE  DevicesInv'
<1> DEFINE q == [push[p] EXCEPT !.step = "answer", !.dead = push[p].tokens \ installed]
<1>0. push \in [Pushes -> PushStates] /\ push[p].step = "send" /\ push[p].tokens # {}
  BY DEF SendPush, DevicesInv, DevicesSound, DevicesTypeOK
<1>1. /\ q \in PushStates /\ q.step = "answer" /\ q.tokens = push[p].tokens /\ q.tokens # {}
      /\ q.dead = push[p].tokens \ installed /\ q.to = push[p].to
  BY <1>0 DEF PushStates
<1>2. push' = [push EXCEPT ![p] = q]
      /\ UNCHANGED <<device, using, installed, deviceForm, swapped, flaggedByHand>>
  BY <1>0 DEF SendPush
<1> HIDE DEF q
<1>3. push' \in [Pushes -> PushStates] /\ push'[p] = q
      /\ \A r \in Pushes \ {p} : push'[r] = push[r]
  BY <1>0, <1>1, <1>2
<1>4. PICK reached \in SUBSET (push[p].tokens \cap installed) :
        misdirected' = (misdirected \/ \E t \in reached : using[t] # push[p].to)
  BY DEF SendPush
<1>5. misdirected' \in BOOLEAN
  BY <1>4 DEF DevicesInv, DevicesSound, DevicesTypeOK
<1>6. PushesReachTheirOwner'
  BY <1>2, <1>4 DEF DevicesInv, DevicesSound, PushesReachTheirOwner, Reach
<1>7. DevicesTypeOK' /\ PhonesInUseAreActive'
  BY <1>1, <1>2, <1>3, <1>5 DEF DevicesInv, DevicesSound, DevicesTypeOK, PhonesInUseAreActive
<1>8. FormHolds' = FormHolds /\ ActiveRowsInUse' = ActiveRowsInUse
  BY <1>2 DEF FormHolds, ActiveRowsInUse
<1>9. (DeadAreGone => DeadAreGone') /\ (Reach => Reach')
  BY <1>1, <1>2, <1>3 DEF DeadAreGone, Reach
<1> QED BY <1>1, <1>2, <1>3, <1>6, <1>7, <1>8, <1>9 DEF DevicesInv, DevicesSound

\* A push ends, and deactivates the rows of the tokens it was told are dead.
LEMMA PushEndsHolds ==
  ASSUME DevicesInv, NEW p \in Pushes, DeactivateDead(p) \/ PushDies(p)
  PROVE  DevicesInv'
<1>0. /\ push \in [Pushes -> PushStates] /\ device \in [Phones -> DeviceRows]
      /\ swapped \in BOOLEAN /\ push[p].dead \subseteq Phones /\ deviceForm.phones \subseteq Phones
      /\ installed \subseteq Phones
  BY DEF DevicesInv, DevicesSound, DevicesTypeOK, PushStates, FormStates
<1>1. push' = [push EXCEPT ![p] = NoPush]
      /\ UNCHANGED <<using, installed, deviceForm, misdirected, flaggedByHand>>
  BY DEF DeactivateDead, PushDies
<1>2. push' \in [Pushes -> PushStates] /\ push'[p] = NoPush
      /\ \A r \in Pushes \ {p} : push'[r] = push[r]
  BY <1>0, <1>1, NoDeviceType
<1>3. /\ device' \in [Phones -> DeviceRows]
      /\ \A t \in Phones : /\ device'[t].user = device[t].user
                           /\ device'[t].active => device[t].active
                           /\ t \notin push[p].dead => device'[t] = device[t]
  <2>1. CASE DeactivateDead(p)
    BY <1>0, <2>1 DEF DeactivateDead, DeadTokens, DeviceRows
  <2>2. CASE PushDies(p)
    <3>1. device' = device
      BY <2>2 DEF PushDies
    <3> QED BY <1>0, <3>1
  <2> QED BY <2>1, <2>2
<1>4. /\ swapped' \in BOOLEAN /\ (swapped => swapped')
      /\ ~swapped' => \A t \in deviceForm.phones : device'[t] = device[t]
  BY <1>0, <1>3 DEF DeactivateDead, PushDies, DeadTokens
<1>5. DevicesTypeOK'
  BY <1>1, <1>2, <1>3, <1>4, NoDeviceType DEF DevicesInv, DevicesSound, DevicesTypeOK
<1>6. PushesReachTheirOwner' /\ PhonesInUseAreActive'
  BY <1>1, <1>3, <1>4
     DEF DevicesInv, DevicesSound, PushesReachTheirOwner, PhonesInUseAreActive, DeadAreGone
<1>7. ~swapped' => FormHolds' /\ DeadAreGone'
  BY <1>1, <1>2, <1>4, NoDeviceType DEF DevicesInv, FormHolds, DeadAreGone
<1>8. ~swapped' /\ ~flaggedByHand' => ActiveRowsInUse' /\ Reach'
  BY <1>0, <1>1, <1>2, <1>3, <1>4, NoDeviceType DEF DevicesInv, ActiveRowsInUse, Reach
<1> QED BY <1>1, <1>2, <1>5, <1>6, <1>7, <1>8, NoDeviceType DEF DevicesInv, DevicesSound

\* The form holds the row it has loaded, and saves it as it is or with its flag changed.
LEMMA DeviceFormHolds ==
  ASSUME DevicesInv, NEW t \in Phones, OpenDeviceForm(t) \/ SaveDeviceForm(t)
  PROVE  DevicesInv'
<1>0. /\ device \in [Phones -> DeviceRows] /\ deviceForm \in FormStates
      /\ swapped \in BOOLEAN /\ flaggedByHand \in BOOLEAN
  BY DEF DevicesInv, DevicesSound, DevicesTypeOK
<1>1. UNCHANGED <<using, installed, push, misdirected>>
  BY DEF OpenDeviceForm, SaveDeviceForm
<1>2. CASE OpenDeviceForm(t)
  <2>1. deviceForm' \in FormStates /\ deviceForm'.phones = {t} /\ deviceForm'.copy = device[t]
    BY <1>0, <1>2 DEF OpenDeviceForm, FormStates
  <2>2. UNCHANGED <<device, swapped, flaggedByHand>>
    BY <1>2 DEF OpenDeviceForm
  <2>3. DevicesTypeOK' /\ PushesReachTheirOwner' /\ PhonesInUseAreActive'
    BY <1>1, <2>1, <2>2
       DEF DevicesInv, DevicesSound, DevicesTypeOK, PushesReachTheirOwner, PhonesInUseAreActive
  <2> QED BY <1>1, <2>1, <2>2, <2>3
       DEF DevicesInv, DevicesSound, FormHolds, DeadAreGone, ActiveRowsInUse, Reach
<1>3. CASE SaveDeviceForm(t)
  <2>1. PICK active \in BOOLEAN :
          /\ device' = [device EXCEPT ![t] = [deviceForm.copy EXCEPT !.active = active]]
          /\ flaggedByHand' = (flaggedByHand \/ active # deviceForm.copy.active)
    BY <1>3 DEF SaveDeviceForm
  <2>2. deviceForm.copy \in DeviceRows /\ [deviceForm.copy EXCEPT !.active = active] \in DeviceRows
    BY <1>0 DEF FormStates, DeviceRows
  <2>3. /\ flaggedByHand' \in BOOLEAN /\ (flaggedByHand => flaggedByHand')
        /\ ~flaggedByHand' => [deviceForm.copy EXCEPT !.active = active] = deviceForm.copy
    BY <1>0, <2>1, <2>2 DEF DeviceRows
  <2>4. swapped' \in BOOLEAN /\ (swapped => swapped') /\ deviceForm' = NoDeviceForm
    BY <1>0, <1>3 DEF SaveDeviceForm
  <2>5. device' \in [Phones -> DeviceRows]
        /\ (~swapped /\ ~flaggedByHand' => device' = device)
    BY <1>0, <1>3, <2>1, <2>2, <2>3 DEF SaveDeviceForm, DevicesInv, FormHolds
  <2>6. DevicesTypeOK'
    BY <1>1, <2>3, <2>4, <2>5, NoDeviceType DEF DevicesInv, DevicesSound, DevicesTypeOK
  <2>7. PushesReachTheirOwner' /\ PhonesInUseAreActive'
    BY <1>1, <2>3, <2>4, <2>5
       DEF DevicesInv, DevicesSound, PushesReachTheirOwner, PhonesInUseAreActive
  <2>8. ~swapped' => FormHolds' /\ DeadAreGone'
    BY <1>1, <2>4, NoDeviceType DEF DevicesInv, FormHolds, DeadAreGone
  <2>9. ~swapped' /\ ~flaggedByHand' => ActiveRowsInUse' /\ Reach'
    BY <1>1, <2>3, <2>4, <2>5 DEF DevicesInv, ActiveRowsInUse, Reach
  <2> QED BY <1>1, <2>6, <2>7, <2>8, <2>9 DEF DevicesInv, DevicesSound
<1> QED BY <1>2, <1>3

\* Pushes are shown to their addressees only and phones in use stay reachable, unless a row
\* changed under a push or form that held it or the admin set a flag (apps/notifications).
THEOREM DevicesKeepTheirWord == DevicesSpec => []DevicesSound
<1>1. DevicesInv /\ [DevicesNext]_devicesVars => DevicesInv'
  <2>1. DevicesInv /\ UNCHANGED devicesVars => DevicesInv'
    BY DEF devicesVars, DevicesInv, DevicesSound, DevicesTypeOK, PushesReachTheirOwner,
           PhonesInUseAreActive, FormHolds, DeadAreGone, ActiveRowsInUse, Reach
  <2> QED BY <2>1, RegisterDeviceHolds, PhoneLeavesHolds, ReadTokensHolds, SendPushHolds,
             PushEndsHolds, DeviceFormHolds DEF DevicesNext
<1>2. DevicesInv => DevicesSound
  BY DEF DevicesInv
<1> QED BY <1>1, <1>2, DevicesInitHolds, PTL DEF DevicesSpec

-----------------------------------------------------------------------------
(***************************************************************************)
(* Registrations.  A check that is not out of date still finds the mailbox *)
(* free (Free): whoever takes a mailbox overtakes every other check of it. *)
(***************************************************************************)
Askings == [who: Persons \cup {"nobody", "somebody"}, to: Addresses \cup {NoMail}, check: Checks]

Free(asked, signups, changes) ==
  /\ \A m \in Mailboxes : signups[m] = "current" => ~TakenAddress(m, Persons)
  /\ \A p \in Persons :
       changes[p].check = "current" => ~TakenAddress(changes[p].to[1], Persons \ {p})
  /\ asked.check = "current" => ~TakenAddress(asked.to[1], Persons \ {asked.who})

PendingNamed(asked, changes) ==
  /\ asked.who # "nobody" => asked.to \in Addresses /\ asked.check # "none"
  /\ asked.check = "current" => asked.who # "nobody"
  /\ \A p \in Persons : changes[p] # NoChange =>
       changes[p].to \in Addresses /\ changes[p].check # "none"

\* No two accounts have one mailbox.
Apart == \A p, q \in Persons : HasAccount(p) /\ mailOf[p][1] = mailOf[q][1] => p = q

RegistrationsInv ==
  /\ AddressesSound
  /\ asking \in Askings
  /\ PendingNamed(asking, change)
  /\ Free(asking, signup, change)

\* Addresses have mailboxes; the words for no address are none.
LEMMA AddressKinds ==
  /\ \A a \in Addresses : a[1] \in Mailboxes
  /\ NoMail \notin Addresses /\ GoneMail \notin Addresses
  /\ NoMail[1] \notin Mailboxes /\ GoneMail[1] \notin Mailboxes
  /\ NoChange \in Changes /\ NoChange.check = "none" /\ NoChange.to = NoMail
  /\ NoAsking \in Askings /\ NoAsking.who = "nobody" /\ NoAsking.check = "none"
BY RegistrationsAssumption
   DEF Addresses, NoMail, GoneMail, NoChange, NoAsking, Changes, Checks, Askings

\* Nobody has an address, nothing is pending.
LEMMA RegistrationsInitHolds == RegistrationsInit => RegistrationsInv
<1> SUFFICES ASSUME RegistrationsInit PROVE RegistrationsInv
  OBVIOUS
<1>1. created \in BOOLEAN /\ outrun \in BOOLEAN
  BY DEF RegistrationsInit
<1>2. /\ mailOf = [p \in Persons |-> NoMail] /\ signup = [m \in Mailboxes |-> "none"]
      /\ change = [p \in Persons |-> NoChange] /\ asking = NoAsking
  BY DEF RegistrationsInit
<1>3. \A p \in Persons : ~HasAccount(p)
  BY <1>2, AddressKinds DEF HasAccount
<1>4. AddressesSound
  BY <1>1, <1>2, <1>3, AddressKinds
     DEF AddressesSound, RegistrationsTypeOK, OneAccountPerMailbox, Checks, NoAsking
<1>5. PendingNamed(asking, change) /\ Free(asking, signup, change)
  BY <1>2, AddressKinds DEF PendingNamed, Free
<1> QED BY <1>2, <1>4, <1>5, AddressKinds DEF RegistrationsInv

\* Whoever takes a mailbox overtakes the checks of it, whatever has been popped before.
LEMMA MoveOvertakes ==
  ASSUME RegistrationsInv, NEW p \in Persons, NEW mail \in Addresses,
         NEW signups \in [Mailboxes -> Checks], NEW changes \in [Persons -> Changes],
         Free(asking, signups, changes), PendingNamed(asking, changes),
         Moved(p, mail, signups, changes, asking)
  PROVE  /\ mailOf' = [mailOf EXCEPT ![p] = mail]
         /\ signup' \in [Mailboxes -> Checks] /\ change' \in [Persons -> Changes]
         /\ asking' \in Askings /\ PendingNamed(asking, change)' /\ Free(asking, signup, change)'
<1> DEFINE own(q) == q = p \/ changes[q].to[1] # mail[1]
           ask == asking.who = p \/ asking.to[1] # mail[1]
<1>1. /\ mailOf' = [mailOf EXCEPT ![p] = mail]
      /\ signup' = [m \in Mailboxes |-> Overtake(signups[m], m # mail[1])]
      /\ change' = [q \in Persons |-> [changes[q] EXCEPT !.check = Overtake(@, own(q))]]
      /\ asking' = [asking EXCEPT !.check = Overtake(@, ask)]
  BY DEF Moved
<1>2. mailOf \in [Persons -> Addresses \cup {NoMail, GoneMail}] /\ asking \in Askings
  BY DEF RegistrationsInv, AddressesSound, RegistrationsTypeOK
<1>3. \A c \in Checks, o \in BOOLEAN :
        /\ Overtake(c, o) \in Checks
        /\ Overtake(c, o) = "current" => c = "current" /\ o
        /\ Overtake(c, o) = "none" => c = "none"
  BY DEF Overtake, Checks
<1>4. signup' \in [Mailboxes -> Checks]
  BY <1>1, <1>3
<1>5. /\ change' \in [Persons -> Changes]
      /\ \A q \in Persons : /\ change'[q].to = changes[q].to
                            /\ change'[q].check = Overtake(changes[q].check, own(q))
  <2>1. \A q \in Persons : changes[q] \in Changes /\ changes[q].check \in Checks
    BY DEF Changes
  <2> QED BY <1>1, <1>3, <2>1 DEF Changes
<1>6. /\ asking' \in Askings /\ asking'.to = asking.to /\ asking'.who = asking.who
      /\ asking'.check = Overtake(asking.check, ask) /\ asking.check \in Checks
  <2>1. asking.check \in Checks
    BY <1>2 DEF Askings
  <2>2. Overtake(asking.check, ask) \in Checks
    BY <1>3, <2>1
  <2> QED BY <1>1, <1>2, <2>1, <2>2 DEF Askings
<1>7. \A m, others : others \subseteq Persons =>
        (TakenAddress(m, others)' => TakenAddress(m, others) \/ (p \in others /\ m = mail[1]))
  BY <1>1, <1>2 DEF TakenAddress
<1>8. Free(asking, signup, change)'
  <2>1. ASSUME NEW m \in Mailboxes, signup'[m] = "current"
        PROVE  ~TakenAddress(m, Persons)'
    <3>1. signups[m] = "current" /\ m # mail[1]
      BY <1>1, <1>3, <2>1
    <3> QED BY <1>7, <3>1 DEF Free
  <2>2. ASSUME NEW q \in Persons, change'[q].check = "current"
        PROVE  ~TakenAddress(change[q].to[1], Persons \ {q})'
    <3>1. changes[q].check = "current" /\ own(q)
      BY <1>5, <2>2 DEF Overtake
    <3>2. ~TakenAddress(changes[q].to[1], Persons \ {q})
      BY <3>1 DEF Free
    <3> QED BY <1>5, <1>7, <3>1, <3>2
  <2>3. ASSUME asking'.check = "current"
        PROVE  ~TakenAddress(asking.to[1], Persons \ {asking.who})'
    <3>1. asking.check = "current" /\ ask
      BY <1>6, <2>3 DEF Overtake
    <3>2. ~TakenAddress(asking.to[1], Persons \ {asking.who})
      BY <3>1 DEF Free
    <3> QED BY <1>6, <1>7, <3>1, <3>2
  <2> QED BY <2>1, <2>2, <2>3 DEF Free
<1>9. PendingNamed(asking, change)'
  <2>1. /\ asking'.who # "nobody" => asking'.to \in Addresses /\ asking'.check # "none"
        /\ asking'.check = "current" => asking'.who # "nobody"
    BY <1>3, <1>6 DEF PendingNamed
  <2>2. ASSUME NEW q \in Persons, change'[q] # NoChange
        PROVE  change'[q].to \in Addresses /\ change'[q].check # "none"
    <3>1. changes[q] \in Changes /\ changes[q].check \in Checks
      BY DEF Changes
    <3>2. changes[q] # NoChange
      <4>1. SUFFICES ASSUME changes[q] = NoChange PROVE FALSE
        OBVIOUS
      <4>2. change'[q].to = NoMail /\ change'[q].check = "none"
        BY <1>5, <4>1, AddressKinds DEF Overtake
      <4> QED BY <1>5, <2>2, <4>2 DEF Changes, NoChange
    <3>3. changes[q].to \in Addresses /\ changes[q].check # "none"
      BY <1>3, <3>2 DEF PendingNamed
    <3>4. /\ change'[q].to = changes[q].to
          /\ change'[q].check = Overtake(changes[q].check, own(q))
      BY <1>5
    <3>5. own(q) \in BOOLEAN
      OBVIOUS
    <3>6. Overtake(changes[q].check, own(q)) # "none"
      BY <1>3, <3>1, <3>3, <3>5
    <3> QED BY <3>3, <3>4, <3>6
  <2> QED BY <2>1, <2>2 DEF PendingNamed
<1> QED BY <1>1, <1>4, <1>5, <1>6, <1>8, <1>9

\* An address that nobody has keeps exact addresses apart, a mailbox that is free keeps
\* mailboxes apart.
LEMMA MoveKeepsApart ==
  ASSUME RegistrationsInv, NEW p \in Persons, NEW mail \in Addresses,
         mailOf' = [mailOf EXCEPT ![p] = mail], ~SpelledTheSame(mail, Persons \ {p})
  PROVE  /\ mailOf' \in [Persons -> Addresses \cup {NoMail, GoneMail}]
         /\ \A r, q \in Persons : HasAccount(r)' /\ mailOf'[r] = mailOf'[q] => r = q
         /\ Apart /\ ~TakenAddress(mail[1], Persons \ {p}) => Apart'
<1>1. mailOf \in [Persons -> Addresses \cup {NoMail, GoneMail}]
  BY DEF RegistrationsInv, AddressesSound, RegistrationsTypeOK
<1>2. \A r, q \in Persons : HasAccount(r) /\ mailOf[r] = mailOf[q] => r = q
  BY DEF RegistrationsInv, AddressesSound, RegistrationsTypeOK
<1>3. \A r, q \in Persons : HasAccount(r)' /\ mailOf'[r] = mailOf'[q] => r = q
  BY <1>1, <1>2 DEF SpelledTheSame, HasAccount
<1>4. Apart /\ ~TakenAddress(mail[1], Persons \ {p}) => Apart'
  BY <1>1 DEF Apart, TakenAddress, HasAccount
<1> QED BY <1>1, <1>3, <1>4

\* A step that moves no address keeps who has which.
LEMMA AddressesStay ==
  ASSUME RegistrationsInv, UNCHANGED <<mailOf, created, outrun>>,
         signup' \in [Mailboxes -> Checks], change' \in [Persons -> Changes], asking' \in Askings
  PROVE  /\ AddressesSound'
         /\ \A m, others : TakenAddress(m, others)' <=> TakenAddress(m, others)
<1>1. AddressesSound'
  BY DEF RegistrationsInv, AddressesSound, RegistrationsTypeOK, OneAccountPerMailbox, HasAccount,
         Askings
<1>2. \A m, others : TakenAddress(m, others)' <=> TakenAddress(m, others)
  BY DEF TakenAddress
<1> QED BY <1>1, <1>2

\* Asking: the mailbox is free as far as it was looked at.
LEMMA AskHolds ==
  ASSUME RegistrationsInv, NEW mail \in Addresses,
         AskRegistration(mail) \/ \E p \in Persons : AskChange(p, mail)
  PROVE  RegistrationsInv'
<1>1. PICK who \in Persons \cup {"somebody"} :
        /\ asking' = [who |-> who, to |-> mail, check |-> "current"]
        /\ ~TakenAddress(mail[1], Persons \ {who})
        /\ UNCHANGED <<mailOf, signup, change, created, outrun>>
  <2>1. Persons \ {"somebody"} = Persons
    BY RegistrationsAssumption
  <2> QED BY <2>1 DEF AskRegistration, AskChange, FreeToRegister, FreeToMove
<1>2. /\ asking' \in Askings /\ asking'.who = who /\ asking'.to = mail
      /\ asking'.check = "current"
  BY <1>1 DEF Askings, Checks
<1>3. signup' \in [Mailboxes -> Checks] /\ change' \in [Persons -> Changes]
  BY <1>1 DEF RegistrationsInv, AddressesSound, RegistrationsTypeOK
<1>4. AddressesSound' /\ \A m, others : TakenAddress(m, others)' <=> TakenAddress(m, others)
  BY <1>1, <1>2, <1>3, AddressesStay
<1>5. PendingNamed(asking, change)'
  BY <1>1, <1>2, RegistrationsAssumption DEF RegistrationsInv, PendingNamed
<1>6. Free(asking, signup, change)'
  BY <1>1, <1>2, <1>4 DEF RegistrationsInv, Free
<1> QED BY <1>2, <1>4, <1>5, <1>6 DEF RegistrationsInv

\* The request leaves its entry with the check it made.
LEMMA StashHolds ==
  ASSUME RegistrationsInv, StashRegistration \/ \E p \in Persons : StashChange(p)
  PROVE  RegistrationsInv'
<1>0. /\ asking \in Askings /\ asking.check \in Checks
      /\ signup \in [Mailboxes -> Checks] /\ change \in [Persons -> Changes]
  BY DEF RegistrationsInv, AddressesSound, RegistrationsTypeOK, Askings
<1>1. asking.to \in Addresses /\ asking.to[1] \in Mailboxes /\ asking.check # "none"
  BY RegistrationsAssumption, AddressKinds
     DEF StashRegistration, StashChange, RegistrationsInv, PendingNamed
<1>2. asking' = NoAsking /\ UNCHANGED <<mailOf, created, outrun>>
  BY DEF StashRegistration, StashChange
<1>3. CASE StashRegistration
  <2>1. signup' = [signup EXCEPT ![asking.to[1]] = asking.check] /\ change' = change
        /\ asking.who = "somebody"
    BY <1>3 DEF StashRegistration
  <2>2. signup' \in [Mailboxes -> Checks]
    BY <1>0, <2>1
  <2>3. AddressesSound' /\ \A m, others : TakenAddress(m, others)' <=> TakenAddress(m, others)
    BY <1>0, <1>2, <2>1, <2>2, AddressKinds, AddressesStay
  <2>4. PendingNamed(asking, change)'
    BY <1>2, <2>1, AddressKinds DEF RegistrationsInv, PendingNamed
  <2>5. Persons \ {asking.who} = Persons
    BY <2>1, RegistrationsAssumption
  <2>6. Free(asking, signup, change)'
    BY <1>0, <1>1, <1>2, <2>1, <2>3, <2>5, AddressKinds DEF RegistrationsInv, Free
  <2> QED BY <1>2, <2>3, <2>4, <2>6, AddressKinds DEF RegistrationsInv
<1>4. ASSUME NEW p \in Persons, StashChange(p) PROVE RegistrationsInv'
  <2> DEFINE c == [to |-> asking.to, check |-> asking.check]
  <2>1. change' = [change EXCEPT ![p] = c] /\ signup' = signup /\ asking.who = p
    BY <1>4 DEF StashChange
  <2>2. c \in Changes /\ c.to = asking.to /\ c.check = asking.check
    BY <1>0, <1>1 DEF Changes
  <2> HIDE DEF c
  <2>3. change' \in [Persons -> Changes]
    BY <1>0, <2>1, <2>2
  <2>4. AddressesSound' /\ \A m, others : TakenAddress(m, others)' <=> TakenAddress(m, others)
    BY <1>0, <1>2, <2>1, <2>3, AddressKinds, AddressesStay
  <2>5. PendingNamed(asking, change)'
    BY <1>0, <1>1, <1>2, <2>1, <2>2, AddressKinds DEF RegistrationsInv, PendingNamed
  <2>6. Free(asking, signup, change)'
    BY <1>0, <1>2, <2>1, <2>2, <2>4, AddressKinds DEF RegistrationsInv, Free
  <2> QED BY <1>2, <2>4, <2>5, <2>6, AddressKinds DEF RegistrationsInv
<1> QED BY <1>3, <1>4

\* An account moves to an address nobody else has; the mailbox is free, or that is remembered.
LEMMA MoveHolds ==
  ASSUME RegistrationsInv, NEW p \in Persons, NEW mail \in Addresses,
         NEW signups \in [Mailboxes -> Checks], NEW changes \in [Persons -> Changes],
         Free(asking, signups, changes), PendingNamed(asking, changes),
         Moved(p, mail, signups, changes, asking), ~SpelledTheSame(mail, Persons \ {p}),
         created' \in BOOLEAN, outrun' \in BOOLEAN, created => created', outrun => outrun',
         created' \/ outrun' \/ ~TakenAddress(mail[1], Persons \ {p})
  PROVE  RegistrationsInv'
<1>1. /\ mailOf' = [mailOf EXCEPT ![p] = mail]
      /\ signup' \in [Mailboxes -> Checks] /\ change' \in [Persons -> Changes]
      /\ asking' \in Askings /\ PendingNamed(asking, change)' /\ Free(asking, signup, change)'
  BY MoveOvertakes
<1>2. /\ mailOf' \in [Persons -> Addresses \cup {NoMail, GoneMail}]
      /\ \A r, q \in Persons : HasAccount(r)' /\ mailOf'[r] = mailOf'[q] => r = q
      /\ Apart /\ ~TakenAddress(mail[1], Persons \ {p}) => Apart'
  BY <1>1, MoveKeepsApart
<1>3. asking'.check \in Checks /\ asking'.to \in Addresses \cup {NoMail}
  BY <1>1 DEF Askings
<1>4. Apart' \/ outrun' \/ created'
  BY <1>2 DEF RegistrationsInv, AddressesSound, OneAccountPerMailbox, Apart
<1>5. AddressesSound'
  BY <1>1, <1>2, <1>3, <1>4
     DEF AddressesSound, RegistrationsTypeOK, OneAccountPerMailbox, Apart
<1> QED BY <1>1, <1>5 DEF RegistrationsInv

\* What expires or is popped leaves the other entries as they were.
LEMMA PoppedEntries ==
  ASSUME RegistrationsInv
  PROVE  /\ signup \in [Mailboxes -> Checks] /\ change \in [Persons -> Changes]
         /\ \A m \in Mailboxes :
              LET popped == [signup EXCEPT ![m] = "none"]
              IN  popped \in [Mailboxes -> Checks] /\ Free(asking, popped, change)
         /\ \A p \in Persons :
              LET popped == [change EXCEPT ![p] = NoChange]
              IN  /\ popped \in [Persons -> Changes] /\ Free(asking, signup, popped)
                  /\ PendingNamed(asking, popped)
<1>1. signup \in [Mailboxes -> Checks] /\ change \in [Persons -> Changes]
  BY DEF RegistrationsInv, AddressesSound, RegistrationsTypeOK
<1>2. ASSUME NEW m \in Mailboxes
      PROVE  LET popped == [signup EXCEPT ![m] = "none"]
             IN  popped \in [Mailboxes -> Checks] /\ Free(asking, popped, change)
  BY <1>1 DEF RegistrationsInv, Free, Checks
<1>3. ASSUME NEW p \in Persons
      PROVE  LET popped == [change EXCEPT ![p] = NoChange]
             IN  /\ popped \in [Persons -> Changes] /\ Free(asking, signup, popped)
                 /\ PendingNamed(asking, popped)
  BY <1>1, AddressKinds DEF RegistrationsInv, Free, PendingNamed
<1> QED BY <1>1, <1>2, <1>3

\* Pending that go leave everything else as it was.
LEMMA EntriesGoHold ==
  ASSUME RegistrationsInv, UNCHANGED <<mailOf, created, outrun>>,
         \/ \E m \in Mailboxes : /\ signup' = [signup EXCEPT ![m] = "none"]
                                 /\ UNCHANGED <<change, asking>>
         \/ \E p \in Persons : /\ change' = [change EXCEPT ![p] = NoChange]
                               /\ UNCHANGED <<signup, asking>>
         \/ asking' = NoAsking /\ UNCHANGED <<signup, change>>
         \/ UNCHANGED <<signup, change, asking>>
  PROVE  RegistrationsInv'
<1> DEFINE Pending ==
             /\ signup' \in [Mailboxes -> Checks] /\ change' \in [Persons -> Changes]
             /\ asking' \in Askings
             /\ Free(asking', signup', change') /\ PendingNamed(asking', change')
<1>1. Pending
  <2>1. ASSUME NEW m \in Mailboxes, signup' = [signup EXCEPT ![m] = "none"],
               UNCHANGED <<change, asking>>
        PROVE  Pending
    BY <2>1, PoppedEntries DEF RegistrationsInv
  <2>2. ASSUME NEW p \in Persons, change' = [change EXCEPT ![p] = NoChange],
               UNCHANGED <<signup, asking>>
        PROVE  Pending
    BY <2>2, PoppedEntries DEF RegistrationsInv
  <2>3. CASE asking' = NoAsking /\ UNCHANGED <<signup, change>>
    BY <2>3, PoppedEntries, AddressKinds DEF RegistrationsInv, Free, PendingNamed
  <2>4. CASE UNCHANGED <<signup, change, asking>>
    BY <2>4, PoppedEntries DEF RegistrationsInv
  <2> QED BY <2>1, <2>2, <2>3, <2>4
<1>2. AddressesSound' /\ \A m, others : TakenAddress(m, others)' <=> TakenAddress(m, others)
  BY <1>1, AddressesStay
<1>3. Free(asking, signup, change)' /\ PendingNamed(asking, change)'
  BY <1>1, <1>2 DEF Free, PendingNamed
<1> QED BY <1>1, <1>2, <1>3 DEF RegistrationsInv

\* A registration is confirmed: its entry is popped, and the account created if nobody has the
\* address; unless the check is out of date nobody has the mailbox.
LEMMA VerifyHolds ==
  ASSUME RegistrationsInv, NEW mail \in Addresses, VerifyRegistration(mail)
  PROVE  RegistrationsInv'
<1> DEFINE popped == [signup EXCEPT ![mail[1]] = "none"]
<1>0. mail[1] \in Mailboxes /\ created' = created
  BY AddressKinds DEF VerifyRegistration
<1>1. CASE SpelledTheSame(mail, Persons)
  BY <1>0, <1>1, EntriesGoHold DEF VerifyRegistration
<1>2. CASE ~SpelledTheSame(mail, Persons)
  <2>1. PICK p \in Persons : mailOf[p] = NoMail /\ Moved(p, mail, popped, change, asking)
    BY <1>2 DEF VerifyRegistration
  <2>2. popped \in [Mailboxes -> Checks] /\ Free(asking, popped, change)
        /\ change \in [Persons -> Changes] /\ PendingNamed(asking, change)
    BY <1>0, PoppedEntries DEF RegistrationsInv
  <2>3. ~SpelledTheSame(mail, Persons \ {p})
    BY <1>2 DEF SpelledTheSame
  <2>4. /\ created \in BOOLEAN /\ outrun \in BOOLEAN
        /\ signup[mail[1]] \in Checks /\ signup[mail[1]] # "none"
        /\ outrun' = (outrun \/ signup[mail[1]] = "outdated")
    BY <1>0, <1>2 DEF VerifyRegistration, RegistrationsInv, AddressesSound, RegistrationsTypeOK
  <2>5. created' \in BOOLEAN /\ outrun' \in BOOLEAN /\ (created => created') /\ (outrun => outrun')
    BY <1>0, <2>4
  <2>6. outrun' \/ ~TakenAddress(mail[1], Persons \ {p})
    BY <1>0, <2>4 DEF Checks, RegistrationsInv, Free, TakenAddress
  <2> QED BY <2>1, <2>2, <2>3, <2>5, <2>6, MoveHolds
<1> QED BY <1>1, <1>2

\* A change of address is confirmed: likewise.
LEMMA ConfirmHolds ==
  ASSUME RegistrationsInv, NEW p \in Persons, ConfirmAddress(p)
  PROVE  RegistrationsInv'
<1> DEFINE mail == change[p].to
           popped == [change EXCEPT ![p] = NoChange]
<1>0. mail \in Addresses /\ change[p].check \in {"current", "outdated"} /\ created' = created
  BY DEF ConfirmAddress, RegistrationsInv, PendingNamed, AddressesSound, RegistrationsTypeOK,
         Changes, Checks
<1>1. CASE SpelledTheSame(mail, Persons \ {p})
  BY <1>0, <1>1, EntriesGoHold DEF ConfirmAddress
<1>2. CASE ~SpelledTheSame(mail, Persons \ {p})
  <2>1. /\ Moved(p, mail, signup, popped, asking)
        /\ outrun' = (outrun \/ change[p].check = "outdated")
    BY <1>2 DEF ConfirmAddress
  <2>2. /\ popped \in [Persons -> Changes] /\ Free(asking, signup, popped)
        /\ signup \in [Mailboxes -> Checks] /\ PendingNamed(asking, popped)
    BY PoppedEntries
  <2>3. created \in BOOLEAN /\ outrun \in BOOLEAN
    BY DEF RegistrationsInv, AddressesSound, RegistrationsTypeOK
  <2>4. created' \in BOOLEAN /\ outrun' \in BOOLEAN /\ (created => created') /\ (outrun => outrun')
    BY <1>0, <2>1, <2>3
  <2>5. outrun' \/ ~TakenAddress(mail[1], Persons \ {p})
    BY <1>0, <2>1, <2>3 DEF RegistrationsInv, Free
  <2> HIDE DEF mail, popped
  <2> QED BY <1>0, <1>2, <2>1, <2>2, <2>4, <2>5, MoveHolds
<1> QED BY <1>1, <1>2

\* The admin API looks at the exact address only, which is remembered.
LEMMA CreateAccountHolds ==
  ASSUME RegistrationsInv, NEW mail \in Addresses, CreateAccount(mail)
  PROVE  RegistrationsInv'
<1>1. PICK p \in Persons : mailOf[p] = NoMail /\ Moved(p, mail, signup, change, asking)
  BY DEF CreateAccount
<1>2. /\ ~SpelledTheSame(mail, Persons \ {p})
      /\ created' = TRUE /\ outrun' = outrun
  BY DEF CreateAccount, SpelledTheSame
<1>3. created' \in BOOLEAN /\ outrun' \in BOOLEAN
  BY <1>2 DEF RegistrationsInv, AddressesSound, RegistrationsTypeOK
<1>4. /\ signup \in [Mailboxes -> Checks] /\ change \in [Persons -> Changes]
      /\ Free(asking, signup, change) /\ PendingNamed(asking, change)
  BY PoppedEntries DEF RegistrationsInv
<1> QED BY <1>1, <1>2, <1>3, <1>4, MoveHolds

\* A deletion frees an address and takes none.
LEMMA DeleteAccountHolds ==
  ASSUME RegistrationsInv, NEW p \in Persons, DeleteAccount(p)
  PROVE  RegistrationsInv'
<1>1. /\ mailOf' = [mailOf EXCEPT ![p] = GoneMail]
      /\ UNCHANGED <<signup, change, asking, created, outrun>>
  BY DEF DeleteAccount
<1>2. mailOf \in [Persons -> Addresses \cup {NoMail, GoneMail}]
  BY DEF RegistrationsInv, AddressesSound, RegistrationsTypeOK
<1>3. /\ \A q \in Persons : mailOf'[q] = mailOf[q] \/ (q = p /\ mailOf'[q] = GoneMail)
      /\ \A q \in Persons : HasAccount(q)' => HasAccount(q) /\ mailOf'[q] = mailOf[q]
  BY <1>1, <1>2, AddressKinds DEF HasAccount
<1>4. \A q \in Persons : mailOf[q] \in Addresses => mailOf[q][1] \in Mailboxes
  BY AddressKinds
<1>5. AddressesSound'
  <2>1. RegistrationsTypeOK'
    BY <1>1, <1>2, <1>3, AddressKinds
       DEF RegistrationsInv, AddressesSound, RegistrationsTypeOK, HasAccount
  <2>2. Apart => Apart'
    BY <1>3, <1>4, AddressKinds DEF Apart, HasAccount
  <2> QED BY <1>1, <2>1, <2>2
       DEF RegistrationsInv, AddressesSound, OneAccountPerMailbox, Apart
<1>6. \A m \in Mailboxes, others \in SUBSET Persons :
        TakenAddress(m, others)' => TakenAddress(m, others)
  BY <1>3, AddressKinds DEF TakenAddress
<1>7. Free(asking, signup, change)'
  <2>1. \A q \in Persons : change[q].check = "current" => change[q].to[1] \in Mailboxes
    BY AddressKinds DEF RegistrationsInv, PendingNamed
  <2>2. asking.check = "current" => asking.to[1] \in Mailboxes
    BY AddressKinds DEF RegistrationsInv, PendingNamed, Askings
  <2> QED BY <1>1, <1>6, <2>1, <2>2 DEF RegistrationsInv, Free
<1> QED BY <1>1, <1>5, <1>7 DEF RegistrationsInv, PendingNamed

\* Two accounts share a mailbox only if it was taken under a check, or the admin API created one
\* (apps/users/serializers.py: validate_email, validate_new_email).
THEOREM AddressesKeepTheirWord == RegistrationsSpec => []AddressesSound
<1>1. RegistrationsInv /\ [RegistrationsNext]_registrationsVars => RegistrationsInv'
  <2>1. RegistrationsInv /\ (PendingEnds \/ UNCHANGED registrationsVars) => RegistrationsInv'
    BY EntriesGoHold DEF PendingEnds, registrationsVars
  <2> QED BY <2>1, AskHolds, StashHolds, VerifyHolds, ConfirmHolds, CreateAccountHolds,
             DeleteAccountHolds DEF RegistrationsNext
<1>2. RegistrationsInv => AddressesSound
  BY DEF RegistrationsInv
<1> QED BY <1>1, <1>2, RegistrationsInitHolds, PTL DEF RegistrationsSpec

(***************************************************************************)
(* Screening.  A row that is QUEUED has never been marked, so no call has  *)
(* been made for it (Untouched); of a row no two deliveries of which were  *)
(* found QUEUED one worker at most is in charge (OneScreener).             *)
(***************************************************************************)
\* A request between row and task holds the only thing that will ever wait for its row.
AskersInHand ==
  \A a \in Askers :
    /\ asker[a].step # "delay" => asker[a].row = 0
    /\ asker[a].step = "delay" => asker[a].row \in 1..issued /\ tasks[asker[a].row] = 0
    /\ \A b \in Askers : asker[a].row # 0 /\ asker[a].row = asker[b].row => a = b

\* Workers and tasks are about rows that exist.
ScreenersInHand ==
  /\ \A w \in Screeners :
       /\ screener[w].step = "idle" => screener[w].row = 0
       /\ screener[w].step # "idle" => screener[w].row \in 1..issued
       /\ screener[w].step = "save" => screener[w].status \in ClosedStatuses
  /\ \A i \in Screenings : tasks[i] > 0 \/ calls[i] > 0 => i <= issued

Untouched ==
  \A i \in Screenings : screening[i].status = "QUEUED" =>
    calls[i] = 0 /\ \A w \in Screeners : screener[w].row = i => screener[w].step = "mark"

OneScreener ==
  \A i \in Screenings \ doubled :
    /\ calls[i] <= 1
    /\ \A w \in Screeners : screener[w].row = i =>
         /\ screener[w].step # "save" => calls[i] = 0
         /\ \A v \in Screeners : screener[v].row = i => v = w

MarkedIsInHand ==
  \A i \in Screenings : screening[i].status = "PROCESSING" => Busy(i) \/ i \in lost

CreateIsDue == unasked \/ \E a \in Askers : asker[a].step = "create"

\* Who screens the newest row has read the CV that the application has.
ReadIsCurrent ==
  \A w \in Screeners : screener[w].row # 0 /\ screener[w].row = issued =>
    screener[w].of = cv \/ CreateIsDue

ScreeningInv ==
  /\ ScreeningSound
  /\ AskersInHand
  /\ ScreenersInHand
  /\ Untouched
  /\ OneScreener
  /\ MarkedIsInHand
  /\ ReadIsCurrent

\* The null records are records of their kinds, and no row has number 0.
LEMMA ScreeningRecords ==
  /\ NoAsker \in AskerStates /\ NoAsker.step = "idle" /\ NoAsker.row = 0
  /\ NoScreener \in ScreenerStates /\ NoScreener.step = "idle" /\ NoScreener.row = 0
  /\ NoScreening \in ScreeningRows /\ NoScreening.status = "none"
  /\ \A i \in Screenings : i \in Nat \ {0} /\ i \in 0..MaxScreenings
  /\ MaxDeliveries \in Nat \ {0} /\ MaxCvs \in Nat /\ MaxScreenings \in Nat
BY ScreeningAssumption
   DEF NoAsker, AskerStates, NoScreener, ScreenerStates, NoScreening, ScreeningRows, Screenings, Cvs

\* The variables' kinds.
LEMMA ScreeningKinds ==
  ASSUME ScreeningInv
  PROVE  /\ cv \in Cvs /\ issued \in 0..MaxScreenings
         /\ asker \in [Askers -> AskerStates]
         /\ screening \in [Screenings -> ScreeningRows]
         /\ tasks \in [Screenings -> 0..MaxDeliveries]
         /\ screener \in [Screeners -> ScreenerStates]
         /\ calls \in [Screenings -> 0..2]
         /\ lost \subseteq Screenings /\ unasked \in BOOLEAN /\ doubled \subseteq Screenings
         /\ \A i \in Screenings : screening[i].status = "none" <=> i > issued
         /\ 1..issued \subseteq Screenings
BY ScreeningRecords DEF ScreeningInv, ScreeningSound, ScreeningTypeOK, Screenings

\* Nothing has been handed in.
LEMMA ScreeningInitHolds == ScreeningInit => ScreeningInv
<1> SUFFICES ASSUME ScreeningInit PROVE ScreeningInv
  OBVIOUS
<1>1. /\ cv = 0 /\ issued = 0 /\ lost = {} /\ doubled = {}
      /\ asker = [a \in Askers |-> NoAsker] /\ screening = [i \in Screenings |-> NoScreening]
      /\ tasks = [i \in Screenings |-> 0] /\ screener = [w \in Screeners |-> NoScreener]
      /\ calls = [i \in Screenings |-> 0]
  BY DEF ScreeningInit
<1>2. unasked \in BOOLEAN
  BY DEF ScreeningInit
<1>3. ScreeningTypeOK
  BY <1>1, <1>2, ScreeningRecords DEF ScreeningTypeOK, Cvs
<1>4. ScreenedOnce /\ OpenIsUnderWay /\ ShownVerdictIsCurrent
  BY <1>1, ScreeningRecords DEF ScreenedOnce, OpenIsUnderWay, ShownVerdictIsCurrent, OpenStatuses
<1>5. AskersInHand /\ ScreenersInHand
  BY <1>1, ScreeningRecords DEF AskersInHand, ScreenersInHand
<1>6. Untouched /\ OneScreener /\ MarkedIsInHand /\ ReadIsCurrent
  BY <1>1, ScreeningRecords DEF Untouched, OneScreener, MarkedIsInHand, ReadIsCurrent
<1> QED BY <1>3, <1>4, <1>5, <1>6 DEF ScreeningInv, ScreeningSound

\* A request that takes or gives up work before its row exists: whoever goes leaves a mark.
LEMMA AskerTurns ==
  ASSUME ScreeningInv, NEW a \in Askers, NEW new \in AskerStates,
         asker[a].step # "delay", new.row = 0, new.step # "delay",
         asker' = [asker EXCEPT ![a] = new],
         asker[a].step = "create" => new.step = "create" \/ unasked',
         cv' \in Cvs, unasked' \in BOOLEAN, unasked => unasked',
         cv' # cv => new.step = "create",
         UNCHANGED <<screening, issued, tasks, screener, calls, lost, doubled>>
  PROVE  ScreeningInv'
<1>1. asker' \in [Askers -> AskerStates] /\ asker'[a] = new
      /\ \A b \in Askers \ {a} : asker'[b] = asker[b]
  BY ScreeningKinds
<1>2. asker[a].row = 0
  BY DEF ScreeningInv, AskersInHand
<1>3. CreateIsDue => CreateIsDue'
  BY <1>1 DEF CreateIsDue
<1>4. cv' # cv => CreateIsDue'
  BY <1>1 DEF CreateIsDue
<1>5. ScreeningTypeOK'
  BY <1>1, ScreeningKinds DEF ScreeningTypeOK
<1>6. AskersInHand' /\ ScreenersInHand'
  BY <1>1, <1>2 DEF ScreeningInv, AskersInHand, ScreenersInHand
<1>7. Untouched' /\ OneScreener' /\ MarkedIsInHand'
  BY DEF ScreeningInv, Untouched, OneScreener, MarkedIsInHand, Busy
<1>8. ReadIsCurrent'
  BY <1>3, <1>4 DEF ScreeningInv, ReadIsCurrent
<1>9. ScreenedOnce' /\ OpenIsUnderWay'
  <2>1. \A i \in Screenings, b \in Askers : asker[b].row = i => asker'[b].row = i
    BY <1>1, <1>2, ScreeningRecords
  <2> QED BY <2>1 DEF ScreeningInv, ScreeningSound, ScreenedOnce, OpenIsUnderWay, Busy
<1>10. ShownVerdictIsCurrent'
  BY <1>3, <1>4 DEF ScreeningInv, ScreeningSound, ShownVerdictIsCurrent, CreateIsDue, Shown
<1> QED BY <1>5, <1>6, <1>7, <1>8, <1>9, <1>10 DEF ScreeningInv, ScreeningSound

\* Handing in and asking again: a row is due.
LEMMA HandInHolds ==
  ASSUME ScreeningInv, NEW a \in Askers, HandIn(a) \/ ScreenAgain(a)
  PROVE  ScreeningInv'
<1> DEFINE new == [asker[a] EXCEPT !.step = "create"]
<1>1. asker' = [asker EXCEPT ![a] = new] /\ asker[a].step = "idle"
      /\ UNCHANGED <<screening, issued, tasks, screener, calls, lost, doubled, unasked>>
  BY ScreeningKinds DEF HandIn, ScreenAgain
<1>2. new \in AskerStates /\ new.row = 0 /\ new.step = "create"
  BY <1>1, ScreeningKinds DEF AskerStates, ScreeningInv, AskersInHand
<1>3. cv' \in Cvs
  BY ScreeningKinds, ScreeningRecords DEF HandIn, ScreenAgain, Cvs
<1>4. unasked' \in BOOLEAN /\ (unasked => unasked')
  BY <1>1, ScreeningKinds
<1> HIDE DEF new
<1> QED BY <1>1, <1>2, <1>3, <1>4, AskerTurns

\* The new row is the newest, and nobody has it in hand but the request.
LEMMA CreateScreeningHolds ==
  ASSUME ScreeningInv, NEW a \in Askers, CreateScreening(a)
  PROVE  ScreeningInv'
<1> DEFINE n == issued + 1
           new == [step |-> "delay", row |-> n]
           row == [screening[n] EXCEPT !.status = "QUEUED"]
<1>1. /\ asker[a].step = "create" /\ issued' = n
      /\ asker' = [asker EXCEPT ![a] = new]
      /\ screening' = [screening EXCEPT ![n] = row]
      /\ UNCHANGED <<cv, tasks, screener, calls, lost, unasked, doubled>>
  BY ScreeningKinds DEF CreateScreening
<1>2. n \in Screenings /\ n \in 0..MaxScreenings /\ n = issued + 1 /\ issued \in Nat
  BY ScreeningKinds, ScreeningRecords DEF CreateScreening, Screenings
<1>3. new \in AskerStates /\ new.step = "delay" /\ new.row = n
  BY <1>2 DEF AskerStates
<1>4. row \in ScreeningRows /\ row.status = "QUEUED"
  BY <1>2, ScreeningKinds DEF ScreeningRows, OpenStatuses
<1> HIDE DEF n, new, row
<1>5. asker' \in [Askers -> AskerStates] /\ asker'[a] = new
      /\ \A b \in Askers \ {a} : asker'[b] = asker[b]
  BY <1>1, <1>3, ScreeningKinds
<1>6. screening' \in [Screenings -> ScreeningRows] /\ screening'[n] = row
      /\ \A i \in Screenings \ {n} : screening'[i] = screening[i]
  BY <1>1, <1>2, <1>4, ScreeningKinds
<1>7. /\ \A w \in Screeners : screener[w].row # n
      /\ \A b \in Askers : asker[b].row # n
      /\ tasks[n] = 0 /\ calls[n] = 0 /\ asker[a].row = 0
  BY <1>1, <1>2, ScreeningKinds DEF ScreeningInv, ScreenersInHand, AskersInHand
<1>8. ScreeningTypeOK'
  <2>1. \A i \in Screenings : screening'[i].status = "none" <=> i > issued'
    BY <1>1, <1>2, <1>4, <1>6, ScreeningKinds DEF Screenings
  <2> QED BY <1>1, <1>2, <1>5, <1>6, <2>1, ScreeningKinds DEF ScreeningTypeOK
<1>9. AskersInHand'
  BY <1>1, <1>2, <1>3, <1>5, <1>7, ScreeningKinds DEF ScreeningInv, AskersInHand
<1>10. ScreenersInHand'
  BY <1>1, <1>2, ScreeningKinds DEF ScreeningInv, ScreenersInHand, Screenings
<1>11. Untouched' /\ OneScreener'
  BY <1>1, <1>6, <1>7 DEF ScreeningInv, Untouched, OneScreener
<1>12. MarkedIsInHand'
  BY <1>1, <1>4, <1>6 DEF ScreeningInv, MarkedIsInHand, Busy
<1>13. ReadIsCurrent'
  BY <1>1, <1>7 DEF ReadIsCurrent
<1>14. ScreenedOnce'
  BY <1>1 DEF ScreeningInv, ScreeningSound, ScreenedOnce
<1>15. OpenIsUnderWay'
  <2>1. asker'[a].row = n
    BY <1>3, <1>5
  <2>2. \A i \in Screenings, b \in Askers : asker[b].row = i => asker'[b].row = i
    BY <1>5, <1>7, ScreeningRecords
  <2> QED BY <1>1, <1>6, <2>1, <2>2 DEF ScreeningInv, ScreeningSound, OpenIsUnderWay, Busy
<1>16. ShownVerdictIsCurrent'
  BY <1>1, <1>4, <1>6 DEF ShownVerdictIsCurrent, Shown
<1> QED BY <1>8, <1>9, <1>10, <1>11, <1>12, <1>13, <1>14, <1>15, <1>16
     DEF ScreeningInv, ScreeningSound

\* The task of the row, and the request is done.
LEMMA DelayScreeningHolds ==
  ASSUME ScreeningInv, NEW a \in Askers, DelayScreening(a)
  PROVE  ScreeningInv'
<1> DEFINE n == asker[a].row
<1>1. /\ asker[a].step = "delay" /\ asker' = [asker EXCEPT ![a] = NoAsker]
      /\ tasks' = [tasks EXCEPT ![n] = @ + 1]
      /\ UNCHANGED <<cv, screening, issued, screener, calls, lost, unasked, doubled>>
  BY DEF DelayScreening
<1>2. n \in Screenings /\ n \in 1..issued /\ tasks[n] = 0
      /\ \A b \in Askers : asker[b].row = n => b = a
  BY <1>1, ScreeningKinds DEF ScreeningInv, AskersInHand
<1>3. asker' \in [Askers -> AskerStates] /\ asker'[a] = NoAsker
      /\ \A b \in Askers \ {a} : asker'[b] = asker[b]
  BY <1>1, ScreeningRecords, ScreeningKinds
<1>4. tasks' \in [Screenings -> 0..MaxDeliveries] /\ tasks'[n] = 1
      /\ \A i \in Screenings \ {n} : tasks'[i] = tasks[i]
  BY <1>1, <1>2, ScreeningRecords, ScreeningKinds
<1> HIDE DEF n
<1>5. ScreeningTypeOK'
  BY <1>1, <1>3, <1>4, ScreeningKinds DEF ScreeningTypeOK
<1>6. AskersInHand'
  BY <1>1, <1>2, <1>3, <1>4, ScreeningRecords, ScreeningKinds DEF ScreeningInv, AskersInHand, n
<1>7. ScreenersInHand'
  BY <1>1, <1>2, <1>4, ScreeningKinds DEF ScreeningInv, ScreenersInHand, Screenings
<1>8. Untouched' /\ OneScreener' /\ MarkedIsInHand'
  BY <1>1 DEF ScreeningInv, Untouched, OneScreener, MarkedIsInHand, Busy
<1>9. CreateIsDue => CreateIsDue'
  BY <1>1, <1>3 DEF CreateIsDue
<1>10. ReadIsCurrent'
  BY <1>1, <1>9 DEF ScreeningInv, ReadIsCurrent
<1>11. ScreenedOnce'
  BY <1>1 DEF ScreeningInv, ScreeningSound, ScreenedOnce
<1>12. OpenIsUnderWay'
  <2>1. ASSUME NEW i \in Screenings, screening[i].status \in OpenStatuses
        PROVE  tasks'[i] > 0 \/ Busy(i)' \/ (\E b \in Askers : asker'[b].row = i) \/ i \in lost'
    BY <1>1, <1>2, <1>3, <1>4, <2>1, ScreeningRecords
       DEF ScreeningInv, ScreeningSound, OpenIsUnderWay, Busy, n
  <2> QED BY <1>1, <2>1 DEF OpenIsUnderWay
<1>13. ShownVerdictIsCurrent'
  BY <1>1, <1>9 DEF ScreeningInv, ScreeningSound, ShownVerdictIsCurrent, CreateIsDue, Shown
<1> QED BY <1>5, <1>6, <1>7, <1>8, <1>10, <1>11, <1>12, <1>13 DEF ScreeningInv, ScreeningSound

\* A request that dies leaves its row, or the row it owes, marked.
LEMMA AskerDiesHolds ==
  ASSUME ScreeningInv, NEW a \in Askers, AskerDies(a)
  PROVE  ScreeningInv'
<1>1. /\ asker[a].step # "idle" /\ asker' = [asker EXCEPT ![a] = NoAsker]
      /\ UNCHANGED <<cv, screening, issued, tasks, screener, calls, doubled>>
  BY DEF AskerDies
<1>2. CASE asker[a].step # "delay"
  <2>1. unasked' = TRUE /\ lost' = lost
    BY <1>2 DEF AskerDies
  <2>2. unasked' \in BOOLEAN /\ (unasked => unasked')
    BY <2>1
  <2> QED BY <1>1, <1>2, <2>1, <2>2, ScreeningRecords, ScreeningKinds, AskerTurns
<1>3. CASE asker[a].step = "delay"
  <2> DEFINE n == asker[a].row
  <2>1. lost' = lost \cup {n} /\ unasked' = unasked
    BY <1>3 DEF AskerDies
  <2>2. n \in Screenings /\ \A b \in Askers : asker[b].row = n => b = a
    BY <1>3, ScreeningKinds DEF ScreeningInv, AskersInHand
  <2>3. asker' \in [Askers -> AskerStates] /\ asker'[a] = NoAsker
        /\ \A b \in Askers \ {a} : asker'[b] = asker[b]
    BY <1>1, ScreeningRecords, ScreeningKinds
  <2> HIDE DEF n
  <2>4. CreateIsDue => CreateIsDue'
    BY <1>3, <2>1, <2>3 DEF CreateIsDue
  <2>5. ScreeningTypeOK'
    BY <1>1, <2>1, <2>2, <2>3, ScreeningKinds DEF ScreeningTypeOK
  <2>6. AskersInHand' /\ ScreenersInHand'
    BY <1>1, <2>3, ScreeningRecords DEF ScreeningInv, AskersInHand, ScreenersInHand
  <2>7. Untouched' /\ OneScreener' /\ MarkedIsInHand'
    BY <1>1, <2>1 DEF ScreeningInv, Untouched, OneScreener, MarkedIsInHand, Busy
  <2>8. ReadIsCurrent'
    BY <1>1, <2>4 DEF ScreeningInv, ReadIsCurrent
  <2>9. ScreenedOnce'
    BY <1>1 DEF ScreeningInv, ScreeningSound, ScreenedOnce
  <2>10. OpenIsUnderWay'
    <3>1. ASSUME NEW i \in Screenings, screening[i].status \in OpenStatuses
          PROVE  tasks[i] > 0 \/ Busy(i) \/ (\E b \in Askers : asker'[b].row = i) \/ i \in lost'
      BY <1>1, <2>1, <2>2, <2>3, <3>1, ScreeningRecords
         DEF ScreeningInv, ScreeningSound, OpenIsUnderWay, n
    <3> QED BY <1>1, <3>1 DEF OpenIsUnderWay, Busy
  <2>11. ShownVerdictIsCurrent'
    BY <1>1, <2>4 DEF ScreeningInv, ScreeningSound, ShownVerdictIsCurrent, CreateIsDue, Shown
  <2> QED BY <2>5, <2>6, <2>7, <2>8, <2>9, <2>10, <2>11 DEF ScreeningInv, ScreeningSound
<1> QED BY <1>2, <1>3

\* A task is delivered twice.
LEMMA RedeliverHolds ==
  ASSUME ScreeningInv, NEW i \in Screenings, Redeliver(i)
  PROVE  ScreeningInv'
<1>1. /\ tasks[i] \in 1..(MaxDeliveries - 1) /\ tasks' = [tasks EXCEPT ![i] = @ + 1]
      /\ UNCHANGED <<cv, asker, screening, issued, screener, calls, lost, unasked, doubled>>
  BY DEF Redeliver
<1>2. tasks' \in [Screenings -> 0..MaxDeliveries] /\ tasks'[i] > 0
      /\ \A j \in Screenings \ {i} : tasks'[j] = tasks[j]
  BY <1>1, ScreeningRecords, ScreeningKinds
<1>3. ScreeningTypeOK'
  BY <1>1, <1>2, ScreeningKinds DEF ScreeningTypeOK
<1>4. AskersInHand'
  BY <1>1, <1>2, ScreeningKinds DEF ScreeningInv, AskersInHand
<1>5. ScreenersInHand'
  BY <1>1, <1>2, ScreeningKinds DEF ScreeningInv, ScreenersInHand
<1>6. Untouched' /\ OneScreener' /\ MarkedIsInHand' /\ ReadIsCurrent'
  BY <1>1 DEF ScreeningInv, Untouched, OneScreener, MarkedIsInHand, ReadIsCurrent, Busy,
              CreateIsDue
<1>7. ScreenedOnce' /\ OpenIsUnderWay' /\ ShownVerdictIsCurrent'
  BY <1>1, <1>2 DEF ScreeningInv, ScreeningSound, ScreenedOnce, OpenIsUnderWay, Busy,
                    ShownVerdictIsCurrent, Shown
<1> QED BY <1>3, <1>4, <1>5, <1>6, <1>7 DEF ScreeningInv, ScreeningSound

\* A worker takes one delivery; the second one of a QUEUED row is remembered.
LEMMA TakeScreeningHolds ==
  ASSUME ScreeningInv, NEW w \in Screeners, NEW i \in Screenings, TakeScreening(w, i)
  PROVE  ScreeningInv'
<1> DEFINE new == [step |-> "mark", row |-> i, of |-> cv, status |-> "QUEUED"]
<1>1. /\ screener[w].step = "idle" /\ tasks[i] > 0 /\ tasks' = [tasks EXCEPT ![i] = @ - 1]
      /\ UNCHANGED <<cv, asker, screening, issued, calls, lost, unasked>>
  BY DEF TakeScreening
<1>2. /\ tasks' \in [Screenings -> 0..MaxDeliveries]
      /\ \A j \in Screenings : tasks'[j] > 0 => tasks[j] > 0
      /\ \A j \in Screenings \ {i} : tasks'[j] = tasks[j]
  BY <1>1, ScreeningRecords, ScreeningKinds
<1>3. i \in 1..issued /\ screening[i].status # "none" /\ screener[w].row = 0
      /\ \A a \in Askers : asker[a].row # i
  <2>1. i <= issued /\ screener[w].row = 0
    BY <1>1 DEF ScreeningInv, ScreenersInHand
  <2>2. \A a \in Askers : asker[a].row # i
    BY <1>1, ScreeningRecords, ScreeningKinds DEF ScreeningInv, AskersInHand
  <2> QED BY <2>1, <2>2, ScreeningRecords, ScreeningKinds DEF Screenings
<1>4. CASE ToScreen(i)
  <2>1. /\ screener' = [screener EXCEPT ![w] = new]
        /\ doubled' = IF Busy(i) /\ screening[i].status = "QUEUED" THEN doubled \cup {i}
                      ELSE doubled
    BY <1>4 DEF TakeScreening
  <2>2. new \in ScreenerStates /\ new.step = "mark" /\ new.row = i /\ new.of = cv
    BY <1>3, ScreeningRecords, ScreeningKinds DEF ScreenerStates
  <2> HIDE DEF new
  <2>3. screener' \in [Screeners -> ScreenerStates] /\ screener'[w] = new
        /\ \A v \in Screeners \ {w} : screener'[v] = screener[v]
    BY <2>1, <2>2, ScreeningKinds
  <2>4. /\ screening[i].status = "QUEUED" /\ calls[i] = 0
        /\ doubled' \subseteq Screenings /\ doubled \subseteq doubled'
        /\ Busy(i) => i \in doubled'
    BY <1>4, <2>1, ScreeningKinds DEF ToScreen, ScreeningInv, Untouched
  <2>5. ScreeningTypeOK'
    BY <1>1, <1>2, <2>3, <2>4, ScreeningKinds DEF ScreeningTypeOK
  <2>6. AskersInHand'
    BY <1>1, <1>2, ScreeningKinds DEF ScreeningInv, AskersInHand, Screenings
  <2>7. ScreenersInHand'
    BY <1>1, <1>2, <1>3, <2>2, <2>3, ScreeningKinds DEF ScreeningInv, ScreenersInHand
  <2>8. Untouched'
    BY <1>1, <2>2, <2>3, <2>4 DEF ScreeningInv, Untouched
  <2>9. OneScreener'
    BY <1>1, <2>2, <2>3, <2>4 DEF ScreeningInv, OneScreener, Busy
  <2>10. \A j \in Screenings : Busy(j) => Busy(j)'
    BY <1>3, <2>3, ScreeningRecords DEF Busy
  <2>11. MarkedIsInHand'
    BY <1>1, <2>10 DEF ScreeningInv, MarkedIsInHand
  <2>12. ReadIsCurrent'
    BY <1>1, <2>2, <2>3 DEF ScreeningInv, ReadIsCurrent, CreateIsDue
  <2>13. ScreenedOnce'
    BY <1>1, <2>4 DEF ScreeningInv, ScreeningSound, ScreenedOnce
  <2>14. Busy(i)'
    BY <2>2, <2>3 DEF Busy
  <2>15. OpenIsUnderWay'
    BY <1>1, <1>2, <2>10, <2>14 DEF ScreeningInv, ScreeningSound, OpenIsUnderWay
  <2>16. ShownVerdictIsCurrent'
    BY <1>1 DEF ScreeningInv, ScreeningSound, ShownVerdictIsCurrent, Shown
  <2> QED BY <2>5, <2>6, <2>7, <2>8, <2>9, <2>11, <2>12, <2>13, <2>15, <2>16
       DEF ScreeningInv, ScreeningSound
<1>5. CASE ~ToScreen(i)
  <2>1. UNCHANGED <<screener, doubled>>
    BY <1>5 DEF TakeScreening
  <2>2. screening[i].status # "QUEUED"
    BY <1>5 DEF ToScreen
  <2>3. ScreeningTypeOK'
    BY <1>1, <1>2, <2>1, ScreeningKinds DEF ScreeningTypeOK
  <2>4. AskersInHand'
    BY <1>1, <1>2, ScreeningKinds DEF ScreeningInv, AskersInHand, Screenings
  <2>5. ScreenersInHand'
    BY <1>1, <1>2, <2>1, ScreeningKinds DEF ScreeningInv, ScreenersInHand
  <2>6. Untouched' /\ OneScreener' /\ MarkedIsInHand' /\ ReadIsCurrent'
    BY <1>1, <2>1 DEF ScreeningInv, Untouched, OneScreener, MarkedIsInHand, ReadIsCurrent, Busy,
                      CreateIsDue
  <2>7. OpenIsUnderWay'
    <3>1. screening[i].status \in OpenStatuses => Busy(i) \/ i \in lost
      BY <2>2 DEF OpenStatuses, ScreeningInv, MarkedIsInHand
    <3> QED BY <1>1, <1>2, <2>1, <3>1
         DEF ScreeningInv, ScreeningSound, OpenIsUnderWay, Busy
  <2>8. ScreenedOnce' /\ ShownVerdictIsCurrent'
    BY <1>1, <2>1 DEF ScreeningInv, ScreeningSound, ScreenedOnce, ShownVerdictIsCurrent, Shown
  <2> QED BY <2>3, <2>4, <2>5, <2>6, <2>7, <2>8 DEF ScreeningInv, ScreeningSound
<1> QED BY <1>4, <1>5

\* The row is PROCESSING, and the worker has it.
LEMMA MarkProcessingHolds ==
  ASSUME ScreeningInv, NEW w \in Screeners, MarkProcessing(w)
  PROVE  ScreeningInv'
<1> DEFINE n == screener[w].row
           new == [screener[w] EXCEPT !.step = "call"]
           row == [screening[n] EXCEPT !.status = "PROCESSING"]
<1>1. /\ screener[w].step = "mark" /\ screener' = [screener EXCEPT ![w] = new]
      /\ screening' = [screening EXCEPT ![n] = row]
      /\ UNCHANGED <<cv, asker, issued, tasks, calls, lost, unasked, doubled>>
  BY ScreeningKinds DEF MarkProcessing
<1>2. n \in Screenings /\ n \in 1..issued /\ n = screener[w].row
  BY <1>1, ScreeningKinds DEF ScreeningInv, ScreenersInHand
<1>3. new \in ScreenerStates /\ new.step = "call" /\ new.row = n /\ new.of = screener[w].of
  BY ScreeningKinds DEF ScreenerStates
<1>4. row \in ScreeningRows /\ row.status = "PROCESSING"
  BY <1>2, ScreeningKinds DEF ScreeningRows, OpenStatuses
<1> HIDE DEF n, new, row
<1>5. screener' \in [Screeners -> ScreenerStates] /\ screener'[w] = new
      /\ \A v \in Screeners \ {w} : screener'[v] = screener[v]
  BY <1>1, <1>3, ScreeningKinds
<1>6. screening' \in [Screenings -> ScreeningRows] /\ screening'[n] = row
      /\ \A i \in Screenings \ {n} : screening'[i] = screening[i]
  BY <1>1, <1>2, <1>4, ScreeningKinds
<1>7. \A v \in Screeners : screener'[v].row = screener[v].row /\ screener'[v].of = screener[v].of
  BY <1>2, <1>3, <1>5
<1>8. ScreeningTypeOK'
  <2>1. \A i \in Screenings : screening'[i].status = "none" <=> i > issued'
    BY <1>1, <1>2, <1>4, <1>6, ScreeningKinds DEF Screenings
  <2> QED BY <1>1, <1>5, <1>6, <2>1, ScreeningKinds DEF ScreeningTypeOK
<1>9. AskersInHand'
  BY <1>1 DEF ScreeningInv, AskersInHand
<1>10. ScreenersInHand'
  BY <1>1, <1>2, <1>3, <1>5 DEF ScreeningInv, ScreenersInHand
<1>11. Untouched'
  BY <1>1, <1>3, <1>4, <1>5, <1>6 DEF ScreeningInv, Untouched
<1>12. OneScreener'
  BY <1>1, <1>2, <1>3, <1>5, <1>7 DEF ScreeningInv, OneScreener
<1>13. \A i \in Screenings : (Busy(i) <=> Busy(i)') /\ (i = n => Busy(i))
  BY <1>2, <1>7 DEF Busy
<1>14. MarkedIsInHand'
  BY <1>1, <1>6, <1>13 DEF ScreeningInv, MarkedIsInHand
<1>15. ReadIsCurrent'
  BY <1>1, <1>7 DEF ScreeningInv, ReadIsCurrent, CreateIsDue
<1>16. ScreenedOnce' /\ OpenIsUnderWay'
  BY <1>1, <1>6, <1>13 DEF ScreeningInv, ScreeningSound, ScreenedOnce, OpenIsUnderWay
<1>17. ShownVerdictIsCurrent'
  BY <1>1, <1>2, <1>4, <1>6, ScreeningKinds
     DEF ScreeningInv, ScreeningSound, ShownVerdictIsCurrent, Shown, Screenings
<1> QED BY <1>8, <1>9, <1>10, <1>11, <1>12, <1>14, <1>15, <1>16, <1>17
     DEF ScreeningInv, ScreeningSound

\* The worker in charge makes the one call of its row.
LEMMA CallServiceHolds ==
  ASSUME ScreeningInv, NEW w \in Screeners, CallService(w)
  PROVE  ScreeningInv'
<1> DEFINE n == screener[w].row
<1>1. PICK status \in ClosedStatuses :
        screener' = [screener EXCEPT ![w] = AfterCall(w, status)]
  BY DEF CallService
<1> DEFINE new == [screener[w] EXCEPT !.step = "save", !.status = status]
<1>2. /\ screener[w].step = "call" /\ screener' = [screener EXCEPT ![w] = new]
      /\ calls' = [calls EXCEPT ![n] = IF @ < 2 THEN @ + 1 ELSE @]
      /\ UNCHANGED <<cv, asker, screening, issued, tasks, lost, unasked, doubled>>
  BY <1>1 DEF CallService, AfterCall
<1>3. n \in Screenings /\ n \in 1..issued /\ n = screener[w].row
  BY <1>2, ScreeningKinds DEF ScreeningInv, ScreenersInHand
<1>4. new \in ScreenerStates /\ new.step = "save" /\ new.row = n /\ new.of = screener[w].of
      /\ new.status \in ClosedStatuses
  BY ScreeningKinds DEF ScreenerStates
<1> HIDE DEF n, new
<1>5. screener' \in [Screeners -> ScreenerStates] /\ screener'[w] = new
      /\ \A v \in Screeners \ {w} : screener'[v] = screener[v]
  BY <1>2, <1>4, ScreeningKinds
<1>6. calls' \in [Screenings -> 0..2] /\ (calls[n] = 0 => calls'[n] = 1)
      /\ \A i \in Screenings \ {n} : calls'[i] = calls[i]
  BY <1>2, <1>3, ScreeningKinds
<1>7. \A v \in Screeners : screener'[v].row = screener[v].row /\ screener'[v].of = screener[v].of
  BY <1>3, <1>4, <1>5
<1>8. screening[n].status # "QUEUED"
  BY <1>2, <1>3 DEF ScreeningInv, Untouched
<1>9. ScreeningTypeOK'
  BY <1>2, <1>5, <1>6, ScreeningKinds DEF ScreeningTypeOK
<1>10. AskersInHand'
  BY <1>2 DEF ScreeningInv, AskersInHand
<1>11. ScreenersInHand'
  BY <1>2, <1>3, <1>4, <1>5, <1>6, ScreeningKinds DEF ScreeningInv, ScreenersInHand, Screenings
<1>12. Untouched'
  BY <1>2, <1>3, <1>4, <1>5, <1>6, <1>8 DEF ScreeningInv, Untouched
<1>13. OneScreener'
  <2>1. ASSUME NEW i \in Screenings \ doubled, i = n
        PROVE  /\ calls'[i] <= 1
               /\ \A v \in Screeners : screener'[v].row = i =>
                    v = w /\ screener'[v].step = "save"
    BY <1>2, <1>3, <1>4, <1>5, <1>6, <1>7, <2>1 DEF ScreeningInv, OneScreener
  <2>2. ASSUME NEW i \in Screenings \ doubled, i # n
        PROVE  /\ calls'[i] <= 1
               /\ \A v \in Screeners : screener'[v].row = i =>
                    v # w /\ screener'[v] = screener[v]
    BY <1>3, <1>5, <1>6, <1>7, <2>2 DEF ScreeningInv, OneScreener
  <2> QED BY <1>2, <1>6, <2>1, <2>2 DEF ScreeningInv, OneScreener
<1>14. \A i \in Screenings : Busy(i) <=> Busy(i)'
  BY <1>7 DEF Busy
<1>15. MarkedIsInHand' /\ ReadIsCurrent'
  BY <1>2, <1>7, <1>14 DEF ScreeningInv, MarkedIsInHand, ReadIsCurrent, CreateIsDue
<1>16. ScreenedOnce'
  BY <1>2, <1>13, ScreeningKinds, <1>6 DEF OneScreener, ScreenedOnce
<1>17. OpenIsUnderWay' /\ ShownVerdictIsCurrent'
  BY <1>2, <1>14 DEF ScreeningInv, ScreeningSound, OpenIsUnderWay, ShownVerdictIsCurrent, Shown
<1> QED BY <1>9, <1>10, <1>11, <1>12, <1>13, <1>15, <1>16, <1>17 DEF ScreeningInv, ScreeningSound

\* A worker that is done, or dies, is in charge of nothing.
LEMMA ScreenerLeaves ==
  ASSUME ScreeningInv, NEW w \in Screeners, screener[w].step # "idle",
         screener' = [screener EXCEPT ![w] = NoScreener],
         UNCHANGED <<cv, asker, issued, tasks, calls, unasked, doubled>>
  PROVE  /\ screener[w].row \in Screenings /\ screener[w].row \in 1..issued
         /\ screener' \in [Screeners -> ScreenerStates]
         /\ AskersInHand' /\ ScreenersInHand' /\ OneScreener' /\ ReadIsCurrent' /\ ScreenedOnce'
         /\ \A v \in Screeners : screener'[v].row # 0 => screener'[v] = screener[v]
         /\ \A i \in Screenings : i # screener[w].row => (Busy(i) <=> Busy(i)')
<1>1. screener' \in [Screeners -> ScreenerStates] /\ screener'[w] = NoScreener
      /\ \A v \in Screeners \ {w} : screener'[v] = screener[v]
  BY ScreeningRecords, ScreeningKinds
<1>2. screener[w].row \in 1..issued /\ screener[w].row \in Screenings
  BY ScreeningKinds DEF ScreeningInv, ScreenersInHand
<1>3. \A v \in Screeners : screener'[v].row # 0 => screener'[v] = screener[v]
  BY <1>1, ScreeningRecords
<1>4. AskersInHand' /\ ScreenersInHand' /\ ScreenedOnce'
  BY <1>1, ScreeningRecords
     DEF ScreeningInv, AskersInHand, ScreenersInHand, ScreeningSound, ScreenedOnce
<1>5. OneScreener' /\ ReadIsCurrent'
  BY <1>3, ScreeningRecords DEF ScreeningInv, OneScreener, ReadIsCurrent, CreateIsDue
<1>6. \A i \in Screenings : i # screener[w].row => (Busy(i) <=> Busy(i)')
  BY <1>1, ScreeningRecords DEF Busy
<1> QED BY <1>1, <1>2, <1>3, <1>4, <1>5, <1>6

\* The answer, about the CV that was read.
LEMMA SaveScreeningHolds ==
  ASSUME ScreeningInv, NEW w \in Screeners, SaveScreening(w)
  PROVE  ScreeningInv'
<1> DEFINE n == screener[w].row
           row == [status |-> screener[w].status,
                   of |-> IF screener[w].status = "VERDICT" THEN screener[w].of ELSE 0]
<1>1. /\ screener[w].step = "save" /\ screener' = [screener EXCEPT ![w] = NoScreener]
      /\ screening' = [screening EXCEPT ![n] = row]
      /\ UNCHANGED <<cv, asker, issued, tasks, calls, lost, unasked, doubled>>
  BY DEF SaveScreening
<1>2. /\ n \in Screenings /\ n \in 1..issued
      /\ screener' \in [Screeners -> ScreenerStates]
      /\ AskersInHand' /\ ScreenersInHand' /\ OneScreener' /\ ReadIsCurrent' /\ ScreenedOnce'
      /\ \A v \in Screeners : screener'[v].row # 0 => screener'[v] = screener[v]
      /\ \A i \in Screenings : i # n => (Busy(i) <=> Busy(i)')
  BY <1>1, ScreenerLeaves
<1>3. /\ row \in ScreeningRows /\ row.status \in ClosedStatuses
      /\ row.status = "VERDICT" => row.of = screener[w].of
  BY <1>1, ScreeningKinds, ScreeningRecords
     DEF ScreeningInv, ScreenersInHand, ScreenerStates, ScreeningRows, Cvs, OpenStatuses
<1>4. n = issued => screener[w].of = cv \/ CreateIsDue
  BY <1>2, ScreeningRecords DEF ScreeningInv, ReadIsCurrent
<1> HIDE DEF n, row
<1>5. screening' \in [Screenings -> ScreeningRows] /\ screening'[n] = row
      /\ \A i \in Screenings \ {n} : screening'[i] = screening[i]
  BY <1>1, <1>2, <1>3, ScreeningKinds
<1>6. row.status # "none" /\ row.status \notin OpenStatuses
  BY <1>3 DEF ClosedStatuses, OpenStatuses
<1>7. ScreeningTypeOK'
  <2>1. \A i \in Screenings : screening'[i].status = "none" <=> i > issued'
    BY <1>1, <1>2, <1>5, <1>6, ScreeningKinds DEF Screenings
  <2> QED BY <1>1, <1>2, <1>5, <2>1, ScreeningKinds DEF ScreeningTypeOK
<1>8. Untouched'
  BY <1>1, <1>2, <1>5, <1>6, ScreeningRecords DEF ScreeningInv, Untouched, OpenStatuses
<1>9. MarkedIsInHand'
  BY <1>1, <1>2, <1>5, <1>6 DEF ScreeningInv, MarkedIsInHand, OpenStatuses
<1>10. OpenIsUnderWay'
  BY <1>1, <1>2, <1>5, <1>6 DEF ScreeningInv, ScreeningSound, OpenIsUnderWay
<1>11. ShownVerdictIsCurrent'
  <2>1. CASE n = issued
    BY <1>1, <1>3, <1>4, <1>5, <2>1 DEF ShownVerdictIsCurrent, Shown, CreateIsDue
  <2>2. CASE n # issued
    BY <1>1, <1>5, <2>2, ScreeningKinds
       DEF ScreeningInv, ScreeningSound, ShownVerdictIsCurrent, Shown, Screenings
  <2> QED BY <2>1, <2>2
<1> QED BY <1>2, <1>7, <1>8, <1>9, <1>10, <1>11 DEF ScreeningInv, ScreeningSound

\* A worker that dies leaves its row marked.
LEMMA ScreenerDiesHolds ==
  ASSUME ScreeningInv, NEW w \in Screeners, ScreenerDies(w)
  PROVE  ScreeningInv'
<1> DEFINE n == screener[w].row
<1>1. /\ screener[w].step # "idle" /\ screener' = [screener EXCEPT ![w] = NoScreener]
      /\ lost' = lost \cup {n}
      /\ UNCHANGED <<cv, asker, screening, issued, tasks, calls, unasked, doubled>>
  BY DEF ScreenerDies
<1>2. /\ n \in Screenings /\ screener' \in [Screeners -> ScreenerStates]
      /\ AskersInHand' /\ ScreenersInHand' /\ OneScreener' /\ ReadIsCurrent' /\ ScreenedOnce'
      /\ \A v \in Screeners : screener'[v].row # 0 => screener'[v] = screener[v]
      /\ \A i \in Screenings : i # n => (Busy(i) <=> Busy(i)')
  BY <1>1, ScreenerLeaves
<1> HIDE DEF n
<1>3. ScreeningTypeOK'
  BY <1>1, <1>2, ScreeningKinds DEF ScreeningTypeOK
<1>4. Untouched'
  BY <1>1, <1>2, ScreeningRecords DEF ScreeningInv, Untouched
<1>5. MarkedIsInHand' /\ OpenIsUnderWay'
  BY <1>1, <1>2 DEF ScreeningInv, ScreeningSound, MarkedIsInHand, OpenIsUnderWay
<1>6. ShownVerdictIsCurrent'
  BY <1>1 DEF ScreeningInv, ScreeningSound, ShownVerdictIsCurrent, Shown
<1> QED BY <1>2, <1>3, <1>4, <1>5, <1>6 DEF ScreeningInv, ScreeningSound

\* What every step keeps.
LEMMA ScreeningNextHolds == ScreeningInv /\ [ScreeningNext]_screeningVars => ScreeningInv'
<1> SUFFICES ASSUME ScreeningInv, [ScreeningNext]_screeningVars PROVE ScreeningInv'
  OBVIOUS
<1>1. CASE ScreeningNext
  BY <1>1, HandInHolds, CreateScreeningHolds, DelayScreeningHolds, AskerDiesHolds, RedeliverHolds,
     TakeScreeningHolds, MarkProcessingHolds, CallServiceHolds, SaveScreeningHolds,
     ScreenerDiesHolds
     DEF ScreeningNext
<1>2. CASE UNCHANGED screeningVars
  <2>1. UNCHANGED <<cv, asker, screening, issued, tasks, screener, calls, lost, unasked, doubled>>
    BY <1>2 DEF screeningVars
  <2>2. ScreeningTypeOK' /\ AskersInHand' /\ ScreenersInHand'
    BY <2>1 DEF ScreeningInv, ScreeningSound, ScreeningTypeOK, AskersInHand, ScreenersInHand
  <2>3. Untouched' /\ OneScreener' /\ MarkedIsInHand' /\ ReadIsCurrent'
    BY <2>1 DEF ScreeningInv, Untouched, OneScreener, MarkedIsInHand, ReadIsCurrent, Busy,
                CreateIsDue
  <2>4. ScreenedOnce' /\ OpenIsUnderWay' /\ ShownVerdictIsCurrent'
    BY <2>1 DEF ScreeningInv, ScreeningSound, ScreenedOnce, OpenIsUnderWay, Busy,
                ShownVerdictIsCurrent, Shown
  <2> QED BY <2>2, <2>3, <2>4 DEF ScreeningInv, ScreeningSound
<1> QED BY <1>1, <1>2

\* For every number of requests, workers, rows and deliveries: a CV is sent to the service once
\* for each row, an open row is in somebody's hands, and the verdict shown is about the CV the
\* application has, but for the interruptions that the history variables name.
THEOREM ScreeningKeepsItsWord == ScreeningSpec => []ScreeningSound
<1>1. ScreeningInv => ScreeningSound
  BY DEF ScreeningInv
<1> QED BY <1>1, ScreeningInitHolds, ScreeningNextHolds, PTL DEF ScreeningSpec

(***************************************************************************)
(* Mails.  While the code in force is not entangled, the only mail of a    *)
(* code still under way is its own (OnlyItsMail): so no older one arrives  *)
(* after it.  A request that is open has loaded the account's address, or  *)
(* that changed under it (LoadedIsCurrent).                                *)
(***************************************************************************)
ChangedPosts == {p \in Posts : post[p].step = "changed"}
NoticeLetters == {l \in LetterIds : letters[l].state # "unused" /\ letters[l].code = 0}

CodesNumbered ==
  /\ held.code \in {0, codesIssued}
  /\ \A p \in Posts : post[p].step = "stored" => post[p].code \in 1..codesIssued
  /\ \A l \in LetterIds : letters[l].code <= codesIssued

OnlyItsMail ==
  held.code # 0 /\ held.code \notin entangled =>
    /\ \A p \in Posts : post[p].step = "stored" => post[p].code = held.code
    /\ \A l \in LetterIds : UnderWay(l) /\ letters[l].code # 0 => letters[l].code = held.code

LoadedIsCurrent ==
  \A p \in Posts :
    /\ post[p].step = "open" => post[p].loaded = address \/ post[p].excused
    /\ post[p].step = "changed" => post[p].loaded = post[p].former \/ post[p].excused

MailsInv ==
  /\ MailsSound
  /\ CodesNumbered
  /\ OnlyItsMail
  /\ LoadedIsCurrent

\* The null records are records of their kinds.
LEMMA MailRecords ==
  /\ FirstPlace \in Places /\ MaxIssued \in Nat /\ MaxLetters \in Nat /\ MaxMoves \in Nat
  /\ NoPost \in PostStates /\ NoPost.step = "idle" /\ NoPost.code = 0 /\ ~NoPost.excused
  /\ Unused \in Letter /\ Unused.state = "unused" /\ Unused.code = 0
  /\ NothingHeld \in Payloads /\ NothingHeld.code = 0
BY MailsAssumption
   DEF FirstPlace, NoPost, PostStates, Unused, Letter, NothingHeld, Payloads

\* The variables' kinds.
LEMMA MailKinds ==
  ASSUME MailsInv
  PROVE  /\ address \in Places /\ held \in Payloads
         /\ post \in [Posts -> PostStates] /\ letters \in [LetterIds -> Letter]
         /\ inbox \in [Places -> 0..MaxIssued] /\ codesIssued \in 0..MaxIssued
         /\ moves \in 0..MaxMoves /\ entangled \subseteq Issued /\ owed \in Nat
<1>1. /\ owed = Cardinality(ChangedPosts) + Cardinality(NoticeLetters)
      /\ ChangedPosts \subseteq Posts /\ NoticeLetters \subseteq LetterIds
  BY DEF MailsInv, MailsSound, NoticePerChange, ChangedPosts, NoticeLetters
<1>2. IsFiniteSet(Posts) /\ IsFiniteSet(LetterIds)
  BY MailsAssumption, FS_Interval DEF LetterIds
<1>3. Cardinality(ChangedPosts) \in Nat /\ Cardinality(NoticeLetters) \in Nat
  BY <1>1, <1>2, FS_Subset, FS_CardinalityType
<1>4. owed \in Nat
  BY <1>1, <1>3
<1> QED BY <1>4 DEF MailsInv, MailsSound, MailsTypeOK

\* The count of changes and of notices: their sets are finite and within their bounds.
LEMMA NoticesCounted ==
  ASSUME NEW P \in SUBSET Posts, NEW L \in SUBSET LetterIds
  PROVE  /\ IsFiniteSet(P) /\ IsFiniteSet(L)
         /\ Cardinality(P) \in Nat /\ Cardinality(L) \in Nat
         /\ Cardinality(P) + Cardinality(L) \in 0..(MaxLetters + Cardinality(Posts))
<1>1. IsFiniteSet(Posts) /\ IsFiniteSet(LetterIds) /\ Cardinality(LetterIds) = MaxLetters
  BY MailsAssumption, FS_Interval DEF LetterIds
<1>2. /\ IsFiniteSet(P) /\ Cardinality(P) <= Cardinality(Posts)
      /\ IsFiniteSet(L) /\ Cardinality(L) <= Cardinality(LetterIds)
  BY <1>1, FS_Subset
<1>3. Cardinality(P) \in Nat /\ Cardinality(L) \in Nat /\ Cardinality(Posts) \in Nat
  BY <1>1, <1>2, FS_CardinalityType
<1> QED BY <1>1, <1>2, <1>3, MailsAssumption

\* No mail, no code.
LEMMA MailsInitHolds == MailsInit => MailsInv
<1> SUFFICES ASSUME MailsInit PROVE MailsInv
  OBVIOUS
<1>1. /\ address = FirstPlace /\ held = NothingHeld /\ post = [p \in Posts |-> NoPost]
      /\ letters = [l \in LetterIds |-> Unused] /\ inbox = [a \in Places |-> 0]
      /\ codesIssued = 0 /\ moves = 0 /\ entangled = {} /\ owed = 0
  BY DEF MailsInit
<1>2. ChangedPosts = {} /\ NoticeLetters = {}
  BY <1>1, MailRecords DEF ChangedPosts, NoticeLetters
<1>3. NoticePerChange
  BY <1>1, <1>2, FS_EmptySet DEF NoticePerChange, ChangedPosts, NoticeLetters
<1>4. owed \in 0..(MaxLetters + Cardinality(Posts))
  BY <1>1, NoticesCounted, FS_EmptySet, MailsAssumption, FS_CardinalityType
<1>5. MailsTypeOK
  BY <1>1, <1>4, MailRecords DEF MailsTypeOK
<1>6. NewestMailCounts /\ NoticeToHolder
  BY <1>1, MailRecords DEF NewestMailCounts, NoticeToHolder
<1>7. CodesNumbered /\ OnlyItsMail /\ LoadedIsCurrent
  BY <1>1, MailRecords DEF CodesNumbered, OnlyItsMail, LoadedIsCurrent, UnderWay
<1> QED BY <1>3, <1>5, <1>6, <1>7 DEF MailsInv, MailsSound

\* What a step has to keep.
LEMMA MailsHold ==
  ASSUME address' \in Places, held' \in Payloads, post' \in [Posts -> PostStates],
         letters' \in [LetterIds -> Letter], inbox' \in [Places -> 0..MaxIssued],
         codesIssued' \in 0..MaxIssued, moves' \in 0..MaxMoves, entangled' \subseteq Issued,
         owed' = Cardinality(ChangedPosts') + Cardinality(NoticeLetters'),
         NewestMailCounts', NoticeToHolder', CodesNumbered', OnlyItsMail', LoadedIsCurrent'
  PROVE  MailsInv'
<1>1. ChangedPosts' \in SUBSET Posts /\ NoticeLetters' \in SUBSET LetterIds
  BY DEF ChangedPosts, NoticeLetters
<1>2. owed' \in 0..(MaxLetters + Cardinality(Posts))
  BY <1>1, NoticesCounted
<1>3. MailsTypeOK'
  BY <1>2 DEF MailsTypeOK
<1>4. NoticePerChange'
  BY DEF NoticePerChange, ChangedPosts, NoticeLetters
<1> QED BY <1>3, <1>4 DEF MailsInv, MailsSound

\* A step of one request changes the count of changes by what it does to that request.
LEMMA ChangesCounted ==
  ASSUME MailsInv, NEW p \in Posts, \A q \in Posts \ {p} : post'[q].step = post[q].step
  PROVE  /\ (post'[p].step = "changed" <=> post[p].step = "changed") => ChangedPosts' = ChangedPosts
         /\ post'[p].step = "changed" /\ post[p].step # "changed" =>
              Cardinality(ChangedPosts') = Cardinality(ChangedPosts) + 1
         /\ post'[p].step # "changed" /\ post[p].step = "changed" =>
              Cardinality(ChangedPosts') = Cardinality(ChangedPosts) - 1
<1>1. IsFiniteSet(ChangedPosts)
  BY NoticesCounted DEF ChangedPosts
<1>2. ASSUME post'[p].step = "changed" <=> post[p].step = "changed"
      PROVE  ChangedPosts' = ChangedPosts
  BY <1>2 DEF ChangedPosts
<1>3. ASSUME post'[p].step = "changed", post[p].step # "changed"
      PROVE  Cardinality(ChangedPosts') = Cardinality(ChangedPosts) + 1
  <2>1. ChangedPosts' = ChangedPosts \cup {p} /\ p \notin ChangedPosts
    BY <1>3 DEF ChangedPosts
  <2> QED BY <1>1, <2>1, FS_AddElement
<1>4. ASSUME post'[p].step # "changed", post[p].step = "changed"
      PROVE  Cardinality(ChangedPosts') = Cardinality(ChangedPosts) - 1
  <2>1. ChangedPosts' = ChangedPosts \ {p} /\ p \in ChangedPosts
    BY <1>4 DEF ChangedPosts
  <2> QED BY <1>1, <2>1, FS_RemoveElement
<1> QED BY <1>2, <1>3, <1>4

\* A new task counts as a notice if it carries no code, and no other task is touched.
LEMMA NewLetter ==
  ASSUME MailsInv, NEW l \in LetterIds, letters[l].state = "unused", NEW new \in Letter,
         new.state = "queued", letters' = [letters EXCEPT ![l] = new]
  PROVE  /\ letters' \in [LetterIds -> Letter] /\ letters'[l] = new
         /\ \A k \in LetterIds \ {l} : letters'[k] = letters[k]
         /\ new.code # 0 => NoticeLetters' = NoticeLetters
         /\ new.code = 0 => Cardinality(NoticeLetters') = Cardinality(NoticeLetters) + 1
<1>1. /\ letters' \in [LetterIds -> Letter] /\ letters'[l] = new
      /\ \A k \in LetterIds \ {l} : letters'[k] = letters[k]
  BY MailKinds
<1>2. ASSUME new.code # 0 PROVE NoticeLetters' = NoticeLetters
  BY <1>1, <1>2 DEF NoticeLetters
<1>3. ASSUME new.code = 0
      PROVE  Cardinality(NoticeLetters') = Cardinality(NoticeLetters) + 1
  <2>1. NoticeLetters' = NoticeLetters \cup {l} /\ l \notin NoticeLetters
    BY <1>1, <1>3 DEF NoticeLetters
  <2>2. IsFiniteSet(NoticeLetters)
    BY NoticesCounted DEF NoticeLetters
  <2> QED BY <2>1, <2>2, FS_AddElement
<1> QED BY <1>1, <1>2, <1>3

\* A step of one request that touches neither code nor mail: it is done, or has loaded the
\* address, or has changed the password.
LEMMA PostTurns ==
  ASSUME MailsInv, NEW p \in Posts, NEW new \in PostStates,
         post' = [post EXCEPT ![p] = new],
         new.step # "stored",
         new.step \in {"open", "changed"} =>
           \/ new.excused
           \/ new.loaded = IF new.step = "open" THEN address ELSE new.former,
         owed' = CASE new.step = "changed" /\ post[p].step # "changed" -> owed + 1
                   [] new.step # "changed" /\ post[p].step = "changed" -> owed - 1
                   [] OTHER -> owed,
         UNCHANGED <<address, held, letters, inbox, codesIssued, moves, entangled>>
  PROVE  MailsInv'
<1>1. post' \in [Posts -> PostStates] /\ post'[p] = new
      /\ \A q \in Posts \ {p} : post'[q] = post[q]
  BY MailKinds
<1>2. NoticeLetters' = NoticeLetters
  BY DEF NoticeLetters
<1>3. owed' = Cardinality(ChangedPosts') + Cardinality(NoticeLetters')
  <2>1. owed = Cardinality(ChangedPosts) + Cardinality(NoticeLetters)
    BY DEF MailsInv, MailsSound, NoticePerChange, ChangedPosts, NoticeLetters
  <2>2. Cardinality(ChangedPosts) \in Nat /\ Cardinality(NoticeLetters) \in Nat
    BY NoticesCounted DEF ChangedPosts, NoticeLetters
  <2>3. CASE new.step = "changed" /\ post[p].step # "changed"
    BY <1>1, <1>2, <2>1, <2>2, <2>3, ChangesCounted
  <2>4. CASE new.step # "changed" /\ post[p].step = "changed"
    BY <1>1, <1>2, <2>1, <2>2, <2>4, ChangesCounted
  <2>5. CASE new.step = "changed" <=> post[p].step = "changed"
    BY <1>1, <1>2, <2>1, <2>2, <2>5, ChangesCounted
  <2> QED BY <2>3, <2>4, <2>5
<1>4. NewestMailCounts' /\ NoticeToHolder'
  BY DEF MailsInv, MailsSound, NewestMailCounts, NoticeToHolder
<1>5. CodesNumbered' /\ OnlyItsMail'
  BY <1>1 DEF MailsInv, CodesNumbered, OnlyItsMail, UnderWay
<1>6. LoadedIsCurrent'
  BY <1>1 DEF MailsInv, LoadedIsCurrent
<1> QED BY <1>1, <1>3, <1>4, <1>5, <1>6, MailKinds, MailsHold

\* Authentication, a new password, and the end of a request.
LEMMA PostsHold ==
  ASSUME MailsInv, NEW p \in Posts, OpenPost(p) \/ ChangePost(p) \/ PostDies(p)
  PROVE  MailsInv'
<1>1. CASE OpenPost(p)
  <2> DEFINE new == [NoPost EXCEPT !.step = "open", !.loaded = address]
  <2>1. new \in PostStates /\ new.step = "open" /\ new.loaded = address
    BY MailRecords, MailKinds DEF NoPost, PostStates
  <2>2. /\ post[p].step = "idle" /\ post' = [post EXCEPT ![p] = new]
        /\ UNCHANGED <<address, held, letters, inbox, codesIssued, moves, entangled, owed>>
    BY <1>1 DEF OpenPost
  <2> HIDE DEF new
  <2> QED BY <2>1, <2>2, PostTurns
<1>2. CASE ChangePost(p)
  <2> DEFINE new == [post[p] EXCEPT !.step = "changed", !.former = address]
  <2>1. /\ new \in PostStates /\ new.step = "changed" /\ new.former = address
        /\ new.loaded = post[p].loaded /\ new.excused = post[p].excused
    BY MailKinds DEF PostStates
  <2>2. /\ post[p].step = "open" /\ post' = [post EXCEPT ![p] = new] /\ owed' = owed + 1
        /\ UNCHANGED <<address, held, letters, inbox, codesIssued, moves, entangled>>
    BY <1>2, MailKinds DEF ChangePost
  <2>3. new.excused \/ new.loaded = new.former
    BY <2>1, <2>2 DEF MailsInv, LoadedIsCurrent
  <2> HIDE DEF new
  <2> QED BY <2>1, <2>2, <2>3, PostTurns
<1>3. CASE PostDies(p)
  BY <1>3, MailRecords, PostTurns DEF PostDies
<1> QED BY <1>1, <1>2, <1>3

\* A new code is in force; it is entangled if mail of an older one can still arrive.
LEMMA StoreCodeHolds ==
  ASSUME MailsInv, NEW p \in Posts, StoreCode(p)
  PROVE  MailsInv'
<1> DEFINE n == codesIssued + 1
           new == [post[p] EXCEPT !.step = "stored", !.code = n]
<1>1. /\ post[p].step = "open" /\ codesIssued' = n /\ post' = [post EXCEPT ![p] = new]
      /\ entangled' = IF OlderUnderWay THEN entangled \cup {n} ELSE entangled
      /\ UNCHANGED <<address, letters, inbox, moves, owed>>
  BY MailKinds DEF StoreCode
<1>2. n \in Issued /\ n \in 0..MaxIssued /\ n = codesIssued + 1 /\ codesIssued \in Nat /\ n # 0
  BY MailKinds, MailRecords DEF StoreCode, Issued
<1>3. held' \in Payloads /\ held'.code = n
  <2>1. PICK place \in (Places \ {post[p].loaded}) \cup {Stay}, password \in BOOLEAN :
          held' = [code |-> n, place |-> place, password |-> password]
    BY DEF StoreCode
  <2> QED BY <1>2, <2>1 DEF Payloads
<1>4. new \in PostStates /\ new.step = "stored" /\ new.code = n
  BY <1>2, MailKinds DEF PostStates
<1> HIDE DEF n, new
<1>5. post' \in [Posts -> PostStates] /\ post'[p] = new
      /\ \A q \in Posts \ {p} : post'[q] = post[q]
  BY <1>1, <1>4, MailKinds
<1>6. owed' = Cardinality(ChangedPosts') + Cardinality(NoticeLetters')
  <2>1. owed = Cardinality(ChangedPosts) + Cardinality(NoticeLetters)
    BY DEF MailsInv, MailsSound, NoticePerChange, ChangedPosts, NoticeLetters
  <2>2. ChangedPosts' = ChangedPosts
    BY <1>1, <1>4, <1>5, ChangesCounted
  <2>3. NoticeLetters' = NoticeLetters
    BY <1>1 DEF NoticeLetters
  <2> QED BY <1>1, <2>1, <2>2, <2>3
<1>7. \A l \in LetterIds : letters[l].code \in Nat /\ letters[l].code # n
  <2>1. ASSUME NEW l \in LetterIds PROVE letters[l].code \in Nat /\ letters[l].code <= codesIssued
    BY MailKinds DEF MailsInv, CodesNumbered, Letter
  <2> QED BY <1>2, <2>1
<1>8. NewestMailCounts' /\ NoticeToHolder'
  BY <1>1, <1>3, <1>7 DEF MailsInv, MailsSound, NewestMailCounts, NoticeToHolder
<1>9. CodesNumbered'
  <2>1. ASSUME NEW q \in Posts, post'[q].step = "stored" PROVE post'[q].code \in 1..n
    <3>1. CASE q = p
      BY <1>2, <1>4, <1>5, <3>1
    <3>2. CASE q # p
      BY <1>2, <1>5, <2>1, <3>2 DEF MailsInv, CodesNumbered
    <3> QED BY <3>1, <3>2
  <2>2. \A l \in LetterIds : letters[l].code <= n
    BY <1>2, <1>7 DEF MailsInv, CodesNumbered
  <2> QED BY <1>1, <1>3, <2>1, <2>2 DEF CodesNumbered
<1>10. OnlyItsMail'
  <2>1. SUFFICES ASSUME n \notin entangled'
        PROVE  /\ \A q \in Posts : post'[q].step = "stored" => post'[q].code = n
               /\ \A l \in LetterIds : ~(UnderWay(l)' /\ letters'[l].code # 0)
    BY <1>3 DEF OnlyItsMail
  <2>2. ~OlderUnderWay
    BY <1>1, <2>1
  <2> QED BY <1>1, <1>4, <1>5, <2>2 DEF OlderUnderWay, UnderWay
<1>11. LoadedIsCurrent'
  BY <1>1, <1>4, <1>5 DEF MailsInv, LoadedIsCurrent
<1>12. entangled' \subseteq Issued
  BY <1>1, <1>2, MailKinds
<1> QED BY <1>1, <1>2, <1>3, <1>5, <1>6, <1>8, <1>9, <1>10, <1>11, <1>12, MailKinds, MailsHold

\* The code goes to the broker.
LEMMA DelayCodeHolds ==
  ASSUME MailsInv, NEW p \in Posts, DelayCode(p)
  PROVE  MailsInv'
<1> DEFINE new == [Unused EXCEPT !.state = "queued", !.to = post[p].loaded, !.code = post[p].code]
<1>1. PICK l \in LetterIds : NextLetter(l) /\ letters' = [letters EXCEPT ![l] = new]
  BY DEF DelayCode
<1>2. /\ post[p].step = "stored" /\ post' = [post EXCEPT ![p] = NoPost]
      /\ UNCHANGED <<address, held, inbox, codesIssued, moves, entangled, owed>>
  BY DEF DelayCode
<1>3. post[p].code \in 1..codesIssued /\ codesIssued \in Nat
  BY <1>2, MailKinds DEF MailsInv, CodesNumbered
<1>4. new \in Letter /\ new.state = "queued" /\ new.code = post[p].code /\ new.code # 0
      /\ new.code <= codesIssued
  <2>1. post[p].loaded \in Places /\ post[p].code \in 0..MaxIssued
    BY MailKinds DEF PostStates
  <2>2. Unused \in Letter
    BY MailRecords
  <2>3. new \in Letter /\ new.state = "queued" /\ new.code = post[p].code
    BY <2>1, <2>2 DEF Letter
  <2> HIDE DEF new
  <2> QED BY <1>3, <2>3
<1> HIDE DEF new
<1>5. /\ letters' \in [LetterIds -> Letter] /\ letters'[l] = new
      /\ \A k \in LetterIds \ {l} : letters'[k] = letters[k]
      /\ NoticeLetters' = NoticeLetters
  BY <1>1, <1>4, NewLetter DEF NextLetter
<1>6. post' \in [Posts -> PostStates] /\ post'[p] = NoPost
      /\ \A q \in Posts \ {p} : post'[q] = post[q]
  BY <1>2, MailRecords, MailKinds
<1>7. owed' = Cardinality(ChangedPosts') + Cardinality(NoticeLetters')
  <2>1. owed = Cardinality(ChangedPosts) + Cardinality(NoticeLetters)
    BY DEF MailsInv, MailsSound, NoticePerChange, ChangedPosts, NoticeLetters
  <2>2. ChangedPosts' = ChangedPosts
    BY <1>2, <1>6, MailRecords, ChangesCounted
  <2> QED BY <1>2, <1>5, <2>1, <2>2
<1>8. NewestMailCounts' /\ NoticeToHolder'
  BY <1>2, <1>4, <1>5 DEF MailsInv, MailsSound, NewestMailCounts, NoticeToHolder
<1>9. CodesNumbered'
  BY <1>2, <1>4, <1>5, <1>6, MailRecords DEF MailsInv, CodesNumbered
<1>10. OnlyItsMail'
  BY <1>2, <1>4, <1>5, <1>6, MailRecords DEF MailsInv, OnlyItsMail, UnderWay
<1>11. LoadedIsCurrent'
  BY <1>2, <1>6, MailRecords DEF MailsInv, LoadedIsCurrent
<1> QED BY <1>2, <1>5, <1>6, <1>7, <1>8, <1>9, <1>10, <1>11, MailKinds, MailsHold

\* The notice goes to the broker.
LEMMA DelayNoticeHolds ==
  ASSUME MailsInv, NEW p \in Posts, DelayNotice(p)
  PROVE  MailsInv'
<1> DEFINE new == [state |-> "queued", to |-> post[p].loaded, former |-> post[p].former, code |-> 0,
                   excused |-> post[p].excused]
<1>1. PICK l \in LetterIds : NextLetter(l) /\ letters' = [letters EXCEPT ![l] = new]
  BY DEF DelayNotice
<1>2. /\ post[p].step = "changed" /\ post' = [post EXCEPT ![p] = NoPost]
      /\ UNCHANGED <<address, held, inbox, codesIssued, moves, entangled, owed>>
  BY DEF DelayNotice
<1>3. new \in Letter /\ new.state = "queued" /\ new.code = 0 /\ (new.to = new.former \/ new.excused)
  BY <1>2, MailRecords, MailKinds DEF Letter, PostStates, MailsInv, LoadedIsCurrent
<1> HIDE DEF new
<1>4. /\ letters' \in [LetterIds -> Letter] /\ letters'[l] = new
      /\ \A k \in LetterIds \ {l} : letters'[k] = letters[k]
      /\ Cardinality(NoticeLetters') = Cardinality(NoticeLetters) + 1
  BY <1>1, <1>3, NewLetter DEF NextLetter
<1>5. post' \in [Posts -> PostStates] /\ post'[p] = NoPost
      /\ \A q \in Posts \ {p} : post'[q] = post[q]
  BY <1>2, MailRecords, MailKinds
<1>6. owed' = Cardinality(ChangedPosts') + Cardinality(NoticeLetters')
  <2>1. owed = Cardinality(ChangedPosts) + Cardinality(NoticeLetters)
    BY DEF MailsInv, MailsSound, NoticePerChange, ChangedPosts, NoticeLetters
  <2>2. Cardinality(ChangedPosts') = Cardinality(ChangedPosts) - 1
    BY <1>2, <1>5, MailRecords, ChangesCounted
  <2>3. Cardinality(ChangedPosts) \in Nat /\ Cardinality(NoticeLetters) \in Nat
    BY NoticesCounted DEF ChangedPosts, NoticeLetters
  <2> QED BY <1>2, <1>4, <2>1, <2>2, <2>3
<1>7. NewestMailCounts' /\ NoticeToHolder'
  BY <1>2, <1>3, <1>4 DEF MailsInv, MailsSound, NewestMailCounts, NoticeToHolder
<1>8. CodesNumbered'
  <2>1. codesIssued \in Nat
    BY MailKinds
  <2> QED BY <1>2, <1>3, <1>4, <1>5, <2>1, MailRecords DEF MailsInv, CodesNumbered
<1>9. OnlyItsMail'
  BY <1>2, <1>3, <1>4, <1>5, MailRecords DEF MailsInv, OnlyItsMail, UnderWay
<1>10. LoadedIsCurrent'
  BY <1>2, <1>5, MailRecords DEF MailsInv, LoadedIsCurrent
<1> QED BY <1>2, <1>4, <1>5, <1>6, <1>7, <1>8, <1>9, <1>10, MailKinds, MailsHold

\* A change of address comes under the requests that are open.
LEMMA MovingExcuses ==
  ASSUME MailsInv, NEW others \in SUBSET Posts
  PROVE  /\ Moving(others) \in [Posts -> PostStates]
         /\ \A q \in Posts : /\ Moving(others)[q].step = post[q].step
                             /\ Moving(others)[q].code = post[q].code
                             /\ Moving(others)[q].loaded = post[q].loaded
                             /\ Moving(others)[q].former = post[q].former
                             /\ post[q].excused => Moving(others)[q].excused
                             /\ q \in others /\ post[q].step = "open" => Moving(others)[q].excused
<1> DEFINE new(q) == IF q \in others /\ post[q].step = "open" THEN [post[q] EXCEPT !.excused = TRUE]
                     ELSE post[q]
<1>1. ASSUME NEW q \in Posts
      PROVE  /\ new(q) \in PostStates /\ new(q).step = post[q].step /\ new(q).code = post[q].code
             /\ new(q).loaded = post[q].loaded /\ new(q).former = post[q].former
             /\ post[q].excused => new(q).excused
             /\ q \in others /\ post[q].step = "open" => new(q).excused
  <2>1. post[q] \in PostStates
    BY MailKinds
  <2>2. CASE q \in others /\ post[q].step = "open"
    BY <2>1, <2>2 DEF PostStates
  <2>3. CASE ~(q \in others /\ post[q].step = "open")
    BY <2>1, <2>3
  <2> QED BY <2>2, <2>3
<1>2. Moving(others) = [q \in Posts |-> new(q)]
  BY DEF Moving
<1> HIDE DEF new
<1> QED BY <1>1, <1>2

\* The admin moves the account under everybody.
LEMMA MoveByHandHolds == ASSUME MailsInv, MoveByHand PROVE MailsInv'
<1>1. /\ address' \in Places /\ moves' = moves + 1 /\ moves < MaxMoves /\ post' = Moving(Posts)
      /\ UNCHANGED <<held, letters, inbox, codesIssued, entangled, owed>>
  BY DEF MoveByHand
<1>2. /\ post' \in [Posts -> PostStates]
      /\ \A q \in Posts : /\ post'[q].step = post[q].step /\ post'[q].code = post[q].code
                          /\ post'[q].loaded = post[q].loaded /\ post'[q].former = post[q].former
                          /\ post[q].excused => post'[q].excused
                          /\ post[q].step = "open" => post'[q].excused
  BY <1>1, MovingExcuses
<1>3. owed' = Cardinality(ChangedPosts') + Cardinality(NoticeLetters')
  <2>1. ChangedPosts' = ChangedPosts /\ NoticeLetters' = NoticeLetters
    BY <1>1, <1>2 DEF ChangedPosts, NoticeLetters
  <2> QED BY <1>1, <2>1 DEF MailsInv, MailsSound, NoticePerChange, ChangedPosts, NoticeLetters
<1>4. NewestMailCounts' /\ NoticeToHolder'
  BY <1>1 DEF MailsInv, MailsSound, NewestMailCounts, NoticeToHolder
<1>5. CodesNumbered' /\ OnlyItsMail'
  BY <1>1, <1>2 DEF MailsInv, CodesNumbered, OnlyItsMail, UnderWay
<1>6. LoadedIsCurrent'
  BY <1>2 DEF MailsInv, LoadedIsCurrent
<1>7. moves' \in 0..MaxMoves
  BY <1>1, MailKinds, MailRecords
<1> QED BY <1>1, <1>2, <1>3, <1>4, <1>5, <1>6, <1>7, MailKinds, MailsHold

\* An entry that goes leaves no code in force.
LEMMA ExpireHeldHolds == ASSUME MailsInv, ExpireHeld PROVE MailsInv'
<1>1. /\ held' = NothingHeld
      /\ UNCHANGED <<address, post, letters, inbox, codesIssued, moves, entangled, owed>>
  BY DEF ExpireHeld
<1>2. owed' = Cardinality(ChangedPosts') + Cardinality(NoticeLetters')
  BY <1>1 DEF MailsInv, MailsSound, NoticePerChange, ChangedPosts, NoticeLetters
<1>3. NewestMailCounts' /\ NoticeToHolder'
  BY <1>1, MailRecords DEF MailsInv, MailsSound, NewestMailCounts, NoticeToHolder
<1>4. CodesNumbered' /\ OnlyItsMail' /\ LoadedIsCurrent'
  BY <1>1, MailRecords DEF MailsInv, CodesNumbered, OnlyItsMail, LoadedIsCurrent
<1> QED BY <1>1, <1>2, <1>3, <1>4, MailRecords, MailKinds, MailsHold

\* The change of the new address is rolled back, and the notice with it.
LEMMA ConfirmTakenHolds ==
  ASSUME MailsInv, NEW p \in Posts, ConfirmTaken(p)
  PROVE  MailsInv'
<1>1. /\ post[p].step = "open" /\ held' = NothingHeld /\ post' = [post EXCEPT ![p] = NoPost]
      /\ UNCHANGED <<address, letters, inbox, codesIssued, moves, entangled, owed>>
  BY DEF ConfirmTaken, AfterRollback
<1>2. post' \in [Posts -> PostStates] /\ post'[p] = NoPost
      /\ \A q \in Posts \ {p} : post'[q] = post[q]
  BY <1>1, MailRecords, MailKinds
<1>3. owed' = Cardinality(ChangedPosts') + Cardinality(NoticeLetters')
  <2>1. ChangedPosts' = ChangedPosts
    BY <1>1, <1>2, MailRecords, ChangesCounted
  <2>2. NoticeLetters' = NoticeLetters
    BY <1>1 DEF NoticeLetters
  <2> QED BY <1>1, <2>1, <2>2
       DEF MailsInv, MailsSound, NoticePerChange, ChangedPosts, NoticeLetters
<1>4. NewestMailCounts' /\ NoticeToHolder'
  BY <1>1, MailRecords DEF MailsInv, MailsSound, NewestMailCounts, NoticeToHolder
<1>5. CodesNumbered' /\ OnlyItsMail' /\ LoadedIsCurrent'
  BY <1>1, <1>2, MailRecords DEF MailsInv, CodesNumbered, OnlyItsMail, LoadedIsCurrent
<1> QED BY <1>1, <1>2, <1>3, <1>4, <1>5, MailRecords, MailKinds, MailsHold

\* A change is committed: the notice of a new password is owed to the address as it was, unless
\* the address goes with it or went before.
LEMMA ConfirmPostHolds ==
  ASSUME MailsInv, NEW p \in Posts, ConfirmPost(p)
  PROVE  MailsInv'
<1> DEFINE others == IF Destination = address THEN {} ELSE Posts \ {p}
           changed == [step |-> "changed", code |-> 0, former |-> address,
                       loaded |-> IF held.place = Stay THEN post[p].loaded ELSE held.place,
                       excused |-> post[p].excused \/ held.place # Stay]
           new == IF ~held.password THEN NoPost ELSE changed
<1>1. /\ post[p].step = "open" /\ held' = NothingHeld /\ address' = Destination
      /\ post' = [Moving(others) EXCEPT ![p] = new]
      /\ owed' = IF held.password THEN owed + 1 ELSE owed
      /\ UNCHANGED <<letters, inbox, codesIssued, moves, entangled>>
  BY DEF ConfirmPost
<1>2. held.place \in Places \cup {Stay} /\ held.password \in BOOLEAN /\ address' \in Places
  BY <1>1, MailKinds DEF Payloads, Destination
<1>3. changed \in PostStates /\ changed.step = "changed"
      /\ (changed.excused \/ changed.loaded = changed.former)
  <2>1. post[p].excused \in BOOLEAN /\ post[p].loaded \in Places
    BY MailKinds DEF PostStates
  <2>2. (post[p].excused \/ held.place # Stay) \in BOOLEAN
    BY <2>1
  <2>3. post[p].excused \/ post[p].loaded = address
    BY <1>1 DEF MailsInv, LoadedIsCurrent
  <2> QED BY <1>2, <2>1, <2>2, <2>3, MailKinds, MailRecords DEF PostStates
<1> HIDE DEF changed
<1>4. /\ new \in PostStates /\ new.step \in {"idle", "changed"}
      /\ new.step = "changed" <=> held.password
      /\ new.step = "changed" => new.excused \/ new.loaded = new.former
  BY <1>2, <1>3, MailRecords
<1> HIDE DEF new
<1>5. /\ Moving(others) \in [Posts -> PostStates]
      /\ \A q \in Posts : /\ Moving(others)[q].step = post[q].step
                          /\ Moving(others)[q].code = post[q].code
                          /\ Moving(others)[q].loaded = post[q].loaded
                          /\ Moving(others)[q].former = post[q].former
                          /\ post[q].excused => Moving(others)[q].excused
                          /\ q \in others /\ post[q].step = "open" => Moving(others)[q].excused
  BY MovingExcuses
<1>6. /\ post' \in [Posts -> PostStates] /\ post'[p] = new
      /\ \A q \in Posts \ {p} : post'[q] = Moving(others)[q]
  BY <1>1, <1>4, <1>5
<1>7. owed' = Cardinality(ChangedPosts') + Cardinality(NoticeLetters')
  <2>1. NoticeLetters' = NoticeLetters
    BY <1>1 DEF NoticeLetters
  <2>2. \A q \in Posts \ {p} : post'[q].step = post[q].step
    BY <1>5, <1>6
  <2>3. owed = Cardinality(ChangedPosts) + Cardinality(NoticeLetters)
    BY DEF MailsInv, MailsSound, NoticePerChange, ChangedPosts, NoticeLetters
  <2>4. Cardinality(ChangedPosts) \in Nat /\ Cardinality(NoticeLetters) \in Nat
    BY NoticesCounted DEF ChangedPosts, NoticeLetters
  <2>5. CASE held.password
    <3>1. post'[p].step = "changed" /\ post[p].step # "changed"
      BY <1>1, <1>4, <1>6, <2>5
    <3>2. Cardinality(ChangedPosts') = Cardinality(ChangedPosts) + 1
      BY <2>2, <3>1, ChangesCounted
    <3> QED BY <1>1, <2>1, <2>3, <2>4, <2>5, <3>2
  <2>6. CASE ~held.password
    BY <1>1, <1>4, <1>6, <2>1, <2>2, <2>3, <2>6, ChangesCounted
  <2> QED BY <2>5, <2>6
<1>8. NewestMailCounts' /\ NoticeToHolder'
  BY <1>1, MailRecords DEF MailsInv, MailsSound, NewestMailCounts, NoticeToHolder
<1>9. CodesNumbered' /\ OnlyItsMail'
  BY <1>1, <1>4, <1>5, <1>6, MailRecords DEF MailsInv, CodesNumbered, OnlyItsMail
<1>10. LoadedIsCurrent'
  <2>1. ASSUME NEW q \in Posts \ {p}
        PROVE  /\ post'[q].step = "open" => post'[q].loaded = address' \/ post'[q].excused
               /\ post'[q].step = "changed" => post'[q].loaded = post'[q].former \/ post'[q].excused
    <3>1. /\ post'[q].step = post[q].step /\ post'[q].loaded = post[q].loaded
          /\ post'[q].former = post[q].former /\ (post[q].excused => post'[q].excused)
          /\ q \in others /\ post[q].step = "open" => post'[q].excused
      BY <1>5, <1>6
    <3>2. /\ post[q].step = "open" => post[q].loaded = address \/ post[q].excused
          /\ post[q].step = "changed" => post[q].loaded = post[q].former \/ post[q].excused
      BY DEF MailsInv, LoadedIsCurrent
    <3>3. address' = address \/ q \in others
      BY <1>1
    <3> HIDE DEF others
    <3> QED BY <3>1, <3>2, <3>3
  <2> QED BY <1>4, <1>6, <2>1 DEF LoadedIsCurrent
<1> QED BY <1>1, <1>2, <1>6, <1>7, <1>8, <1>9, <1>10, MailRecords, MailKinds, MailsHold

\* Whatever becomes of a task, its mail arrives as the newest of its mailbox or not at all.
LEMMA LettersHold ==
  ASSUME MailsInv, NEW l \in LetterIds, SendLetter(l) \/ SenderDies(l)
  PROVE  MailsInv'
<1>1. /\ UnderWay(l)
      /\ UNCHANGED <<address, held, post, codesIssued, moves, entangled, owed>>
  BY DEF SendLetter, SenderDies
<1>2. \/ \E s \in {"arrived", "lost"} : letters' = [letters EXCEPT ![l].state = s]
      \/ letters' = letters
  BY DEF SendLetter, SenderDies, Ended
<1>3. \/ inbox' = Delivered(l)
      \/ inbox' = inbox /\ letters'[l].state # "arrived"
  <2>1. letters[l] \in Letter /\ letters[l].state = "queued"
    BY <1>1, MailKinds DEF UnderWay
  <2> QED BY <2>1, MailKinds DEF SendLetter, SenderDies, Ended, Letter
<1>4. /\ letters' \in [LetterIds -> Letter]
      /\ \A k \in LetterIds :
           /\ letters'[k].to = letters[k].to /\ letters'[k].code = letters[k].code
           /\ letters'[k].former = letters[k].former
           /\ letters'[k].excused = letters[k].excused
           /\ k # l => letters'[k] = letters[k]
      /\ letters'[l].state # "unused" /\ letters[l].state = "queued"
  <2>1. letters \in [LetterIds -> Letter] /\ letters[l].state = "queued"
    BY <1>1, MailKinds DEF UnderWay
  <2>2. CASE letters' = letters
    BY <2>1, <2>2
  <2>3. ASSUME NEW s \in {"arrived", "lost"}, letters' = [letters EXCEPT ![l].state = s]
        PROVE  <1>4!1 /\ <1>4!2 /\ <1>4!3
    BY <2>1, <2>3 DEF Letter
  <2> QED BY <1>2, <2>2, <2>3
<1>5. /\ inbox' \in [Places -> 0..MaxIssued]
      /\ inbox' = inbox \/ (letters[l].code # 0 /\ inbox'[letters[l].to] = letters[l].code
                            /\ \A a \in Places : a # letters[l].to => inbox'[a] = inbox[a])
  <2>1. letters[l].to \in Places /\ letters[l].code \in 0..MaxIssued
    BY MailKinds DEF Letter
  <2> QED BY <1>3, <2>1, MailKinds DEF Delivered
<1>6. owed' = Cardinality(ChangedPosts') + Cardinality(NoticeLetters')
  <2>1. ChangedPosts' = ChangedPosts
    BY <1>1 DEF ChangedPosts
  <2>2. NoticeLetters' = NoticeLetters
    BY <1>4 DEF NoticeLetters
  <2> QED BY <1>1, <2>1, <2>2
       DEF MailsInv, MailsSound, NoticePerChange, ChangedPosts, NoticeLetters
<1>7. NewestMailCounts'
  <2>1. SUFFICES ASSUME NEW k \in LetterIds, letters'[k].state = "arrived",
                        letters[k].code = held.code, held.code # 0, held.code \notin entangled
                 PROVE  inbox'[letters[k].to] = held.code
    BY <1>1, <1>4 DEF NewestMailCounts
  <2>2. letters[k].to \in Places
    BY MailKinds DEF Letter
  <2>3. CASE k = l
    BY <1>3, <1>4, <2>1, <2>2, <2>3, MailKinds DEF Delivered
  <2>4. CASE k # l
    <3>1. inbox[letters[k].to] = held.code
      BY <1>4, <2>1, <2>4 DEF MailsInv, MailsSound, NewestMailCounts
    <3>2. letters[l].code # 0 => letters[l].code = held.code
      BY <1>1, <2>1 DEF MailsInv, OnlyItsMail
    <3> QED BY <1>5, <2>2, <3>1, <3>2
  <2> QED BY <2>3, <2>4
<1>8. NoticeToHolder'
  BY <1>4 DEF MailsInv, MailsSound, NoticeToHolder
<1>9. CodesNumbered' /\ OnlyItsMail'
  BY <1>1, <1>4 DEF MailsInv, CodesNumbered, OnlyItsMail, UnderWay
<1>10. LoadedIsCurrent'
  BY <1>1 DEF MailsInv, LoadedIsCurrent
<1> QED BY <1>1, <1>4, <1>5, <1>6, <1>7, <1>8, <1>9, <1>10, MailKinds, MailsHold

\* What every step keeps.
LEMMA MailsNextHolds == MailsInv /\ [MailsNext]_mailsVars => MailsInv'
<1> SUFFICES ASSUME MailsInv, [MailsNext]_mailsVars PROVE MailsInv'
  OBVIOUS
<1>1. CASE MailsNext
  BY <1>1, MoveByHandHolds, ExpireHeldHolds, PostsHold, StoreCodeHolds, DelayCodeHolds,
     ConfirmPostHolds, ConfirmTakenHolds, DelayNoticeHolds, LettersHold
     DEF MailsNext
<1>2. CASE UNCHANGED mailsVars
  <2>1. UNCHANGED <<address, held, post, letters, inbox, codesIssued, moves, entangled, owed>>
    BY <1>2 DEF mailsVars
  <2>2. MailsTypeOK' /\ NewestMailCounts' /\ NoticePerChange' /\ NoticeToHolder'
    BY <2>1 DEF MailsInv, MailsSound, MailsTypeOK, NewestMailCounts, NoticePerChange,
                NoticeToHolder
  <2>3. CodesNumbered' /\ OnlyItsMail' /\ LoadedIsCurrent'
    BY <2>1 DEF MailsInv, CodesNumbered, OnlyItsMail, LoadedIsCurrent, UnderWay
  <2> QED BY <2>2, <2>3 DEF MailsInv, MailsSound
<1> QED BY <1>1, <1>2

\* For every number of requests, tasks and codes: the code in force is the one in the newest
\* mail once that has arrived, there is one notice for each new password that was committed,
\* and it goes to the address the account had, but for what the history variables name.
THEOREM MailsKeepTheirWord == MailsSpec => []MailsSound
<1>1. MailsInv => MailsSound
  BY DEF MailsInv
<1> QED BY <1>1, MailsInitHolds, MailsNextHolds, PTL DEF MailsSpec

(***************************************************************************)
(* Throttles.  Of a key that is not unsure, the list in the cache mirrors  *)
(* the end of the admitted calls, and so does the copy of a call that is   *)
(* not stale: what it lacks was out of the window when it was read.  A     *)
(* call is admitted on a copy shorter than Rate, so that calls Rate apart  *)
(* are a window apart (Spaced).  Of any key, the list is of calls that     *)
(* were admitted, each once (Named).                                       *)
(***************************************************************************)
BudgetKeys == Scopes \X (Inboxes \cup Signed \cup Hosts)
AdmittedCalls == [step: {"admit"}, key: BudgetKeys, subject: BudgetKeys, at: Nat, copy: Seq(Nat),
                  stale: BOOLEAN]

\* The list of length n has the newest first, and none later than a time.
Ordered(list, n, until) ==
  /\ \A i \in 1..n : list[i] \in Nat /\ list[i] <= until
  /\ \A i, j \in 1..n : i < j => list[i] >= list[j]

\* The list is the end of the m times, backwards; what it lacks was out of the window.
Mirrors(list, n, times, m, until) ==
  /\ n <= m
  /\ \A i \in 1..n : list[i] = times[m + 1 - i]
  /\ \A i \in 1..(m - n) : times[i] <= until - Window
  /\ \A i \in 1..m : times[i] <= until

\* Each entry of the list is one of the times, and no two are the same.
Named(list, n, times, m) ==
  \E f \in [1..n -> 1..m] :
    /\ \A i, j \in 1..n : f[i] = f[j] => i = j
    /\ \A i \in 1..n : times[f[i]] = list[i]

Spaced(times, m) ==
  \A i, j \in 1..m :
    /\ i < j => times[i] <= times[j]
    /\ i + Rate <= j => times[i] + Window <= times[j]

CallReads(c) ==
  LET times == admitted[c.subject]
  IN  /\ c.key = c.subject /\ c.at <= clock
      /\ Len(c.copy) < Rate /\ Ordered(c.copy, Len(c.copy), c.at)
      /\ Named(c.copy, Len(c.copy), times, Len(times))
      /\ ~c.stale /\ c.subject \notin unsure =>
           Mirrors(c.copy, Len(c.copy), times, Len(times), c.at)

BudgetStands(k) ==
  LET list == budget[k]
      times == admitted[k]
  IN  /\ Ordered(list, Len(list), clock)
      /\ Named(list, Len(list), times, Len(times))
      /\ k \notin unsure => /\ Mirrors(list, Len(list), times, Len(times), clock)
                            /\ Spaced(times, Len(times))

ThrottlesKinds ==
  /\ clock \in 0..MaxClock
  /\ budget \in [ThrottleKeys -> Seq(Nat)]
  /\ admitted \in [BudgetKeys -> Seq(Nat)]
  /\ call \in [Calls -> {Unclaimed} \cup AdmittedCalls]
  /\ unsure \subseteq BudgetKeys /\ baseless = {}
  /\ \A k \in ThrottleKeys \ BudgetKeys : budget[k] = <<>>

ThrottlesInv ==
  /\ ThrottlesKinds
  /\ \A k \in BudgetKeys : BudgetStands(k)
  /\ \A s \in Calls : call[s].step = "admit" => CallReads(call[s])

Less == {pair \in Nat \X Nat : pair[1] < pair[2]}

\* Every set of naturals has a least one.
LEMMA LeastNumber ==
  ASSUME NEW T, T \subseteq Nat, T # {}
  PROVE  \E m \in T : \A k \in T : m <= k
<1>1. IsWellFoundedOn(Less, Nat)
  BY NatLessThanWellFounded DEF OpToRel, Less
<1>2. \A a, b \in Nat : a < b => <<a, b>> \in Less
  BY DEF Less
<1>3. PICK m \in T : \A k \in T : ~(<<k, m>> \in Less)
  BY <1>1, WFMin
<1>4. \A k \in T : m \in Nat /\ k \in Nat
  OBVIOUS
<1>5. \A k \in T : ~(k < m)
  BY <1>2, <1>3, <1>4
<1> QED BY <1>3, <1>4, <1>5

\* The popping ends: there is a shortest beginning of the list behind which all is out of the
\* window.
LEMMA PoppingEnds ==
  ASSUME clock \in Nat, NEW times, NEW m \in Nat, \A i \in 1..m : times[i] \in Nat
  PROVE  \E n \in 0..m : /\ n = 0 \/ times[n] > clock - Window
                         /\ \A i \in (n + 1)..m : times[i] <= clock - Window
<1> DEFINE T == {n \in 0..m : \A i \in (n + 1)..m : times[i] <= clock - Window}
<1>1. T \subseteq Nat /\ m \in T
  OBVIOUS
<1>2. PICK n \in T : \A k \in T : n <= k
  <2> HIDE DEF T
  <2> QED BY <1>1, LeastNumber
<1>3. ASSUME n > 0, ~(times[n] > clock - Window) PROVE FALSE
  <2>1. times[n] <= clock - Window /\ n \in 1..m
    BY <1>2, <1>3, ThrottlesAssumption
  <2>2. n - 1 \in T
    BY <1>2, <1>3, <2>1
  <2> HIDE DEF T
  <2>3. n \in Nat /\ n <= n - 1
    BY <1>1, <1>2, <2>2
  <2> QED BY <2>3
<1> QED BY <1>2, <1>3

\* What is left after the popping: the beginning of the list, up to the last entry in the window.
LEMMA RecentList ==
  ASSUME clock \in Nat, NEW times \in Seq(Nat)
  PROVE  /\ Recent(times) \in Seq(Nat) /\ Len(Recent(times)) <= Len(times)
         /\ StillCounts(times, Len(Recent(times)))
         /\ \A i \in 1..Len(Recent(times)) : Recent(times)[i] = times[i]
<1> DEFINE n == CHOOSE n \in 0..Len(times) : StillCounts(times, n)
<1>1. Len(times) \in Nat /\ \A i \in 1..Len(times) : times[i] \in Nat
  OBVIOUS
<1>2. \E k \in 0..Len(times) : StillCounts(times, k)
  BY <1>1, PoppingEnds DEF StillCounts
<1>3. n \in 0..Len(times) /\ StillCounts(times, n)
  BY <1>2
<1>4. Recent(times) = SubSeq(times, 1, n)
  BY DEF Recent
<1> HIDE DEF n
<1>5. /\ Recent(times) \in Seq(Nat) /\ Len(Recent(times)) = n
      /\ \A i \in 1..n : Recent(times)[i] = times[i]
  BY <1>3, <1>4
<1> QED BY <1>3, <1>5

\* What is true of a list is true of what is left of it.
LEMMA BeginningStands ==
  ASSUME clock \in Nat, NEW list, NEW n \in Nat, NEW times, NEW m \in Nat, NEW rest, NEW k \in Nat,
         k <= n, \A i \in 1..k : rest[i] = list[i],
         \A i \in (k + 1)..n : list[i] <= clock - Window
  PROVE  /\ Ordered(list, n, clock) => Ordered(rest, k, clock)
         /\ Named(list, n, times, m) => Named(rest, k, times, m)
         /\ Mirrors(list, n, times, m, clock) => Mirrors(rest, k, times, m, clock)
<1>1. \A i \in 1..k : i \in 1..n
  OBVIOUS
<1>2. Ordered(list, n, clock) => Ordered(rest, k, clock)
  BY <1>1 DEF Ordered
<1>3. ASSUME Named(list, n, times, m) PROVE Named(rest, k, times, m)
  <2>1. PICK f \in [1..n -> 1..m] :
          /\ \A i, j \in 1..n : f[i] = f[j] => i = j
          /\ \A i \in 1..n : times[f[i]] = list[i]
    BY <1>3 DEF Named
  <2> DEFINE g == [i \in 1..k |-> f[i]]
  <2>2. /\ g \in [1..k -> 1..m]
        /\ \A i, j \in 1..k : g[i] = g[j] => i = j
        /\ \A i \in 1..k : times[g[i]] = rest[i]
    BY <1>1, <2>1
  <2> QED BY <2>2 DEF Named
<1>4. ASSUME Mirrors(list, n, times, m, clock) PROVE Mirrors(rest, k, times, m, clock)
  <2>1. /\ n <= m /\ \A i \in 1..n : list[i] = times[m + 1 - i]
        /\ \A i \in 1..(m - n) : times[i] <= clock - Window
        /\ \A i \in 1..m : times[i] <= clock
    BY <1>4 DEF Mirrors
  <2>2. ASSUME NEW i \in 1..(m - k) PROVE times[i] <= clock - Window
    <3>1. CASE i <= m - n
      BY <2>1, <3>1
    <3>2. CASE i > m - n
      <4>1. PICK j \in (k + 1)..n : i = m + 1 - j /\ j \in 1..n
        <5>1. m + 1 - i \in (k + 1)..n /\ m + 1 - i \in 1..n /\ i = m + 1 - (m + 1 - i)
          BY <2>1, <3>2
        <5> QED BY <5>1
      <4> QED BY <2>1, <4>1
    <3> QED BY <3>1, <3>2
  <2> QED BY <1>1, <2>1, <2>2 DEF Mirrors
<1> QED BY <1>2, <1>3, <1>4

\* What is true of a list is true of what the popping leaves of it.
LEMMA RecentStands ==
  ASSUME clock \in Nat, NEW list \in Seq(Nat), NEW times, NEW m \in Nat
  PROVE  LET rest == Recent(list)
         IN  /\ Ordered(list, Len(list), clock) => Ordered(rest, Len(rest), clock)
             /\ Named(list, Len(list), times, m) => Named(rest, Len(rest), times, m)
             /\ Mirrors(list, Len(list), times, m, clock) =>
                  Mirrors(rest, Len(rest), times, m, clock)
<1>1. /\ Recent(list) \in Seq(Nat) /\ Len(Recent(list)) <= Len(list)
      /\ \A i \in 1..Len(Recent(list)) : Recent(list)[i] = list[i]
      /\ \A i \in (Len(Recent(list)) + 1)..Len(list) : list[i] <= clock - Window
  BY RecentList DEF StillCounts
<1>2. Len(Recent(list)) \in Nat /\ Len(list) \in Nat
  BY <1>1
<1> QED BY <1>1, <1>2, BeginningStands

\* The n times of copy with one more in front of them are list, and the m of times with the
\* same one behind them are more.
OneMore(copy, n, times, m, at, list, more) ==
  /\ n \in Nat /\ m \in Nat /\ at \in Nat
  /\ \A i \in 1..m : times[i] \in Nat
  /\ list[1] = at /\ \A i \in 1..n : list[i + 1] = copy[i]
  /\ more[m + 1] = at /\ \A i \in 1..m : more[i] = times[i]
  /\ Ordered(copy, n, at) /\ Named(copy, n, times, m)

\* One more call: at the front of the list, at the end of the times.
LEMMA OneMoreEntry ==
  ASSUME NEW copy, NEW n, NEW times, NEW m, NEW at, NEW list, NEW more,
         OneMore(copy, n, times, m, at, list, more)
  PROVE  /\ Ordered(list, n + 1, at) /\ Named(list, n + 1, more, m + 1)
         /\ Mirrors(copy, n, times, m, at) => Mirrors(list, n + 1, more, m + 1, at)
         /\ Mirrors(copy, n, times, m, at) /\ n < Rate /\ Spaced(times, m) => Spaced(more, m + 1)
<1>0. /\ n \in Nat /\ m \in Nat /\ at \in Nat
      /\ \A i \in 1..m : times[i] \in Nat
      /\ list[1] = at /\ \A i \in 1..n : list[i + 1] = copy[i]
      /\ more[m + 1] = at /\ \A i \in 1..m : more[i] = times[i]
      /\ Ordered(copy, n, at) /\ Named(copy, n, times, m)
  BY DEF OneMore
<1> USE <1>0
<1>1. \A i \in 1..(n + 1) : i = 1 \/ \E j \in 1..n : i = j + 1
  <2>1. \A i \in 1..(n + 1) : i # 1 => i - 1 \in 1..n /\ i = (i - 1) + 1
    OBVIOUS
  <2> QED BY <2>1
<1>2. Ordered(list, n + 1, at)
  <2>1. ASSUME NEW i \in 1..(n + 1) PROVE list[i] \in Nat /\ list[i] <= at
    <3>1. CASE i = 1
      BY <3>1
    <3>2. ASSUME NEW k \in 1..n, i = k + 1 PROVE list[i] \in Nat /\ list[i] <= at
      <4>1. list[i] = copy[k]
        BY <3>2
      <4> QED BY <4>1 DEF Ordered
    <3> QED BY <1>1, <3>1, <3>2
  <2>2. ASSUME NEW i \in 1..(n + 1), NEW j \in 1..(n + 1), i < j PROVE list[i] >= list[j]
    <3>1. PICK l \in 1..n : j = l + 1
      BY <1>1, <2>2
    <3>2. CASE i = 1
      BY <2>1, <3>1, <3>2
    <3>3. ASSUME NEW k \in 1..n, i = k + 1 PROVE list[i] >= list[j]
      <4>1. k < l
        BY <2>2, <3>1, <3>3
      <4>2. copy[k] >= copy[l]
        BY <4>1 DEF Ordered
      <4>3. list[i] = copy[k] /\ list[j] = copy[l]
        BY <3>1, <3>3
      <4> QED BY <4>2, <4>3
    <3> QED BY <1>1, <3>2, <3>3
  <2> QED BY <2>1, <2>2 DEF Ordered
<1>3. Named(list, n + 1, more, m + 1)
  <2>1. PICK f \in [1..n -> 1..m] :
          /\ \A i, j \in 1..n : f[i] = f[j] => i = j
          /\ \A i \in 1..n : times[f[i]] = copy[i]
    BY DEF Named
  <2> DEFINE g == [i \in 1..(n + 1) |-> IF i = 1 THEN m + 1 ELSE f[i - 1]]
  <2>2. g[1] = m + 1
    OBVIOUS
  <2>3. ASSUME NEW k \in 1..n PROVE g[k + 1] = f[k] /\ f[k] \in 1..m
    <3>1. k + 1 \in 1..(n + 1) /\ k + 1 # 1 /\ (k + 1) - 1 = k
      OBVIOUS
    <3> QED BY <2>1, <3>1
  <2>4. g \in [1..(n + 1) -> 1..(m + 1)]
    <3>1. \A i \in 1..(n + 1) : (IF i = 1 THEN m + 1 ELSE f[i - 1]) \in 1..(m + 1)
      <4>1. \A i \in 1..(n + 1) : i # 1 => i - 1 \in 1..n
        OBVIOUS
      <4>2. m + 1 \in 1..(m + 1) /\ \A x \in 1..m : x \in 1..(m + 1)
        OBVIOUS
      <4> QED BY <2>1, <4>1, <4>2
    <3> QED BY <3>1
  <2> HIDE DEF g
  <2>5. ASSUME NEW i \in 1..(n + 1), NEW j \in 1..(n + 1), g[i] = g[j] PROVE i = j
    <3>1. CASE i = 1 /\ j = 1
      BY <3>1
    <3>2. ASSUME NEW k \in 1..n, i = k + 1, j = 1 PROVE FALSE
      <4>1. g[i] = f[k] /\ f[k] \in 1..m
        BY <2>3, <3>2
      <4> QED BY <2>2, <2>5, <3>2, <4>1
    <3>3. ASSUME NEW k \in 1..n, j = k + 1, i = 1 PROVE FALSE
      <4>1. g[j] = f[k] /\ f[k] \in 1..m
        BY <2>3, <3>3
      <4> QED BY <2>2, <2>5, <3>3, <4>1
    <3>4. ASSUME NEW k \in 1..n, NEW l \in 1..n, i = k + 1, j = l + 1 PROVE i = j
      <4>1. g[i] = f[k] /\ g[j] = f[l]
        BY <2>3, <3>4
      <4>2. f[k] = f[l]
        BY <2>5, <4>1
      <4>3. k = l
        BY <2>1, <4>2
      <4> QED BY <3>4, <4>3
    <3> QED BY <1>1, <3>1, <3>2, <3>3, <3>4
  <2>6. ASSUME NEW i \in 1..(n + 1) PROVE more[g[i]] = list[i]
    <3>1. CASE i = 1
      BY <2>2, <3>1
    <3>2. ASSUME NEW k \in 1..n, i = k + 1 PROVE more[g[i]] = list[i]
      <4>1. g[i] = f[k] /\ f[k] \in 1..m
        BY <2>3, <3>2
      <4>2. more[f[k]] = times[f[k]] /\ times[f[k]] = copy[k]
        BY <2>1, <4>1
      <4>3. list[i] = copy[k]
        BY <3>2
      <4> QED BY <4>1, <4>2, <4>3
    <3> QED BY <1>1, <3>1, <3>2
  <2> QED BY <2>4, <2>5, <2>6 DEF Named
<1>4. ASSUME Mirrors(copy, n, times, m, at) PROVE Mirrors(list, n + 1, more, m + 1, at)
  <2>0. /\ n <= m /\ \A i \in 1..n : copy[i] = times[m + 1 - i]
        /\ \A i \in 1..(m - n) : times[i] <= at - Window
        /\ \A i \in 1..m : times[i] <= at
    BY <1>4 DEF Mirrors
  <2>1. ASSUME NEW i \in 1..(n + 1) PROVE list[i] = more[(m + 1) + 1 - i]
    <3>1. CASE i = 1
      BY <3>1
    <3>2. ASSUME NEW k \in 1..n, i = k + 1 PROVE list[i] = more[(m + 1) + 1 - i]
      <4>1. (m + 1) + 1 - i = m + 1 - k /\ m + 1 - k \in 1..m
        BY <2>0, <3>2
      <4> QED BY <2>0, <3>2, <4>1
    <3> QED BY <1>1, <3>1, <3>2
  <2>2. \A i \in 1..((m + 1) - (n + 1)) : i \in 1..m /\ i \in 1..(m - n)
    BY <2>0
  <2>3. \A i \in 1..(m + 1) : more[i] <= at
    BY <2>0
  <2>4. n + 1 <= m + 1 /\ \A i \in 1..((m + 1) - (n + 1)) : more[i] <= at - Window
    BY <2>0, <2>2
  <2> QED BY <2>1, <2>3, <2>4 DEF Mirrors
<1>5. ASSUME Mirrors(copy, n, times, m, at), n < Rate, Spaced(times, m) PROVE Spaced(more, m + 1)
  <2>1. SUFFICES ASSUME NEW i \in 1..(m + 1), NEW j \in 1..(m + 1)
                 PROVE  /\ i < j => more[i] <= more[j]
                        /\ i + Rate <= j => more[i] + Window <= more[j]
    BY DEF Spaced
  <2>2. Rate \in Nat /\ Window \in Nat
    BY ThrottlesAssumption
  <2>3. CASE j # m + 1
    <3>1. j \in 1..m /\ (i < j \/ i + Rate <= j => i \in 1..m)
      BY <2>2, <2>3
    <3> QED BY <1>5, <2>2, <3>1 DEF Spaced
  <2>4. CASE j = m + 1
    <3>1. ASSUME i < j PROVE more[i] <= more[j]
      BY <1>5, <2>4, <3>1 DEF Mirrors
    <3>2. ASSUME i + Rate <= j PROVE more[i] + Window <= more[j]
      <4>1. i \in 1..(m - n) /\ i \in 1..m
        BY <1>5, <2>2, <2>4, <3>2 DEF Mirrors
      <4>2. times[i] <= at - Window /\ times[i] \in Nat
        BY <1>5, <4>1 DEF Mirrors
      <4> QED BY <2>2, <2>4, <4>1, <4>2
    <3> QED BY <3>1, <3>2
  <2> QED BY <2>3, <2>4
<1> QED BY <1>2, <1>3, <1>4, <1>5

\* One more call, of the lists as they are stored.
LEMMA OneMoreCall ==
  ASSUME NEW copy \in Seq(Nat), NEW times \in Seq(Nat), NEW at \in Nat,
         Ordered(copy, Len(copy), at), Named(copy, Len(copy), times, Len(times))
  PROVE  LET list == <<at>> \o copy
             more == Append(times, at)
         IN  /\ Ordered(list, Len(list), at) /\ Named(list, Len(list), more, Len(more))
             /\ Mirrors(copy, Len(copy), times, Len(times), at) =>
                  Mirrors(list, Len(list), more, Len(more), at)
             /\ /\ Mirrors(copy, Len(copy), times, Len(times), at)
                /\ Len(copy) < Rate /\ Spaced(times, Len(times))
                => Spaced(more, Len(more))
<1> DEFINE list == <<at>> \o copy
           more == Append(times, at)
<1>1. /\ Len(list) = Len(copy) + 1 /\ list[1] = at
      /\ \A i \in 1..Len(copy) : list[i + 1] = copy[i]
  OBVIOUS
<1>2. /\ Len(more) = Len(times) + 1 /\ more[Len(times) + 1] = at
      /\ \A i \in 1..Len(times) : more[i] = times[i]
  OBVIOUS
<1>3. /\ Len(copy) \in Nat /\ Len(times) \in Nat
      /\ \A i \in 1..Len(times) : times[i] \in Nat
  OBVIOUS
<1>4. /\ Ordered(copy, Len(copy), at) /\ Named(copy, Len(copy), times, Len(times))
  OBVIOUS
<1> DEFINE n == Len(copy)
           m == Len(times)
<1>5. /\ n \in Nat /\ m \in Nat /\ \A i \in 1..m : times[i] \in Nat
      /\ list[1] = at /\ \A i \in 1..n : list[i + 1] = copy[i]
      /\ more[m + 1] = at /\ \A i \in 1..m : more[i] = times[i]
      /\ Ordered(copy, n, at) /\ Named(copy, n, times, m)
  BY <1>1, <1>2, <1>3, <1>4
<1> HIDE DEF list, more, n, m
<1>6. /\ Ordered(list, n + 1, at) /\ Named(list, n + 1, more, m + 1)
      /\ Mirrors(copy, n, times, m, at) => Mirrors(list, n + 1, more, m + 1, at)
      /\ Mirrors(copy, n, times, m, at) /\ n < Rate /\ Spaced(times, m) => Spaced(more, m + 1)
  <2>1. OneMore(copy, n, times, m, at, list, more)
    BY <1>5 DEF OneMore
  <2> QED BY <2>1, OneMoreEntry
<1>7. /\ Ordered(list, Len(list), at) /\ Named(list, Len(list), more, Len(more))
      /\ Mirrors(copy, Len(copy), times, Len(times), at) =>
           Mirrors(list, Len(list), more, Len(more), at)
      /\ /\ Mirrors(copy, Len(copy), times, Len(times), at)
         /\ Len(copy) < Rate /\ Spaced(times, Len(times))
         => Spaced(more, Len(more))
  BY <1>1, <1>2, <1>6 DEF n, m
<1> QED BY <1>7 DEF list, more

\* A list that names entries of the times names entries of longer times.
LEMMA StillNamed ==
  ASSUME NEW list, NEW n \in Nat, NEW times \in Seq(Nat), NEW at \in Nat,
         Named(list, n, times, Len(times))
  PROVE  Named(list, n, Append(times, at), Len(Append(times, at)))
<1> DEFINE more == Append(times, at)
<1>1. /\ Len(more) = Len(times) + 1 /\ Len(times) \in Nat
      /\ \A i \in 1..Len(times) : more[i] = times[i] /\ i \in 1..(Len(times) + 1)
  OBVIOUS
<1>2. PICK f \in [1..n -> 1..Len(times)] :
        /\ \A i, j \in 1..n : f[i] = f[j] => i = j
        /\ \A i \in 1..n : times[f[i]] = list[i]
  BY DEF Named
<1> HIDE DEF more
<1>3. /\ f \in [1..n -> 1..Len(more)]
      /\ \A i \in 1..n : more[f[i]] = list[i]
  BY <1>1, <1>2
<1>4. Named(list, n, more, Len(more))
  BY <1>2, <1>3 DEF Named
<1> QED BY <1>4 DEF more

\* Calls that are spaced fill no window.
LEMMA WindowHolds ==
  ASSUME NEW times \in Seq(Nat), Spaced(times, Len(times)), NEW from \in Nat
  PROVE  Cardinality(Within(times, from, from + Window - 1)) <= Rate
<1> DEFINE W == Within(times, from, from + Window - 1)
           m == Len(times)
<1>1. m \in Nat /\ \A i \in 1..m : times[i] \in Nat
  OBVIOUS
<1>2. Rate \in Nat /\ Window \in Nat
  BY ThrottlesAssumption
<1>3. /\ W \subseteq 1..m
      /\ \A i \in W : times[i] >= from /\ times[i] < from + Window
  BY <1>1, <1>2 DEF Within
<1>4. \A i, j \in 1..m : i + Rate <= j => times[i] + Window <= times[j]
  BY DEF Spaced
<1> HIDE DEF W, m
<1>5. CASE W = {}
  <2>1. Cardinality(W) = 0
    BY <1>5, FS_EmptySet
  <2> QED BY <1>2, <2>1 DEF W
<1>6. CASE W # {}
  <2>1. PICK first \in W : \A k \in W : first <= k
    <3>1. W \subseteq Nat
      BY <1>1, <1>3
    <3> QED BY <1>6, <3>1, LeastNumber
  <2>2. first \in 1..m /\ first \in Nat
    BY <1>1, <1>3, <2>1
  <2>3. ASSUME NEW k \in W PROVE k \in first..(first + Rate - 1)
    <3>1. k \in 1..m /\ k \in Nat /\ first <= k
      BY <1>1, <1>3, <2>1
    <3>2. times[first] >= from /\ times[k] < from + Window
      BY <1>3, <2>1
    <3>3. times[first] \in Nat /\ times[k] \in Nat
      BY <1>1, <2>2, <3>1
    <3>4. ~(first + Rate <= k)
      BY <1>2, <1>4, <2>2, <3>1, <3>2, <3>3
    <3> QED BY <1>2, <2>2, <3>1, <3>4
  <2>4. /\ IsFiniteSet(first..(first + Rate - 1))
        /\ Cardinality(first..(first + Rate - 1)) = Rate
    <3>1. first \in Int /\ first + Rate - 1 \in Int
      BY <1>2, <2>2
    <3>2. IF first > first + Rate - 1 THEN Rate = 0 ELSE (first + Rate - 1) - first + 1 = Rate
      BY <1>2, <2>2
    <3> QED BY <1>2, <2>2, <3>1, <3>2, FS_Interval
  <2>5. W \subseteq first..(first + Rate - 1)
    BY <2>3
  <2>6. PICK S : S = first..(first + Rate - 1)
    OBVIOUS
  <2>7. W \in SUBSET S /\ IsFiniteSet(S) /\ Cardinality(S) = Rate
    BY <2>4, <2>5, <2>6
  <2>8. Cardinality(W) <= Rate
    BY <2>7, FS_Subset
  <2> QED BY <2>8 DEF W
<1> QED BY <1>5, <1>6

\* What is left of a list was admitted within the window.
LEMMA RecentWereAdmitted ==
  ASSUME clock \in Nat, NEW list \in Seq(Nat), NEW times \in Seq(Nat),
         Ordered(list, Len(list), clock), Named(list, Len(list), times, Len(times))
  PROVE  Len(Recent(list)) <= Cardinality(Within(times, clock - Window + 1, clock))
<1> DEFINE rest == Recent(list)
           n == Len(rest)
           m == Len(times)
           W == Within(times, clock - Window + 1, clock)
<1>1. rest \in Seq(Nat) /\ n \in Nat /\ m \in Nat
  BY RecentList
<1>2. Ordered(rest, n, clock) /\ Named(rest, n, times, m)
  BY RecentStands
<1>3. n = 0 \/ list[n] > clock - Window
  BY RecentList DEF StillCounts
<1>4. n # 0 => rest[n] = list[n]
  <2>1. n # 0 => n \in 1..n
    BY <1>1
  <2> QED BY <2>1, RecentList
<1>5. W = {i \in 1..m : times[i] \in (clock - Window + 1)..clock}
  BY DEF Within
<1>6. Window \in Nat
  BY ThrottlesAssumption
<1> HIDE DEF rest, n, m, W
<1>7. ASSUME NEW i \in 1..n
      PROVE  rest[i] \in Nat /\ rest[i] <= clock /\ rest[i] >= clock - Window + 1
  <2>1. n # 0 /\ n \in 1..n /\ (i < n \/ i = n)
    BY <1>1, <1>7
  <2>2. rest[i] \in Nat /\ rest[i] <= clock /\ rest[n] \in Nat /\ rest[i] >= rest[n]
    BY <1>2, <2>1 DEF Ordered
  <2>3. rest[n] > clock - Window
    BY <1>3, <1>4, <2>1
  <2>4. PICK x \in Nat, y \in Nat, c \in Nat, w \in Nat :
          x = rest[i] /\ y = rest[n] /\ c = clock /\ w = Window
    BY <1>6, <2>2
  <2>5. x <= c /\ x >= y /\ y > c - w
    BY <2>2, <2>3, <2>4
  <2>6. x >= c - w + 1
    BY <2>5
  <2> QED BY <2>2, <2>4, <2>6
<1>8. PICK f \in [1..n -> 1..m] :
        /\ \A i, j \in 1..n : f[i] = f[j] => i = j
        /\ \A i \in 1..n : times[f[i]] = rest[i]
  BY <1>2 DEF Named
<1>9. f \in [1..n -> W]
  <2>1. ASSUME NEW i \in 1..n PROVE f[i] \in W
    <3>1. f[i] \in 1..m /\ times[f[i]] = rest[i]
      BY <1>8
    <3>2. rest[i] \in (clock - Window + 1)..clock
      BY <1>6, <1>7
    <3> QED BY <1>5, <3>1, <3>2
  <2> QED BY <1>8, <2>1
<1>10. f \in Injection(1..n, W)
  BY <1>8, <1>9 DEF Injection, IsInjective
<1>11. IsFiniteSet(W)
  <2>1. W \subseteq 1..m /\ IsFiniteSet(1..m)
    BY <1>1, <1>5, FS_Interval
  <2> QED BY <2>1, FS_Subset
<1>12. Cardinality(1..n) = n
  BY <1>1, FS_Interval
<1>13. Cardinality(1..n) <= Cardinality(W)
  BY <1>10, <1>11, FS_Injection
<1> QED BY <1>12, <1>13 DEF n, rest, W

\* What stood until a time stands until a later one.
LEMMA StandsLater ==
  ASSUME NEW list, NEW n \in Nat, NEW times, NEW m \in Nat, NEW at \in Nat, NEW later \in Nat,
         at <= later, \A i \in 1..m : times[i] \in Nat
  PROVE  /\ Ordered(list, n, at) => Ordered(list, n, later)
         /\ Mirrors(list, n, times, m, at) => Mirrors(list, n, times, m, later)
<1>1. Window \in Nat
  BY ThrottlesAssumption
<1>2. Ordered(list, n, at) => Ordered(list, n, later)
  BY DEF Ordered
<1>3. ASSUME Mirrors(list, n, times, m, at) PROVE Mirrors(list, n, times, m, later)
  <2>1. \A i \in 1..m : times[i] <= later
    BY <1>3 DEF Mirrors
  <2>2. \A i \in 1..(m - n) : i \in 1..m
    BY <1>3 DEF Mirrors
  <2>3. \A i \in 1..(m - n) : times[i] <= later - Window
    BY <1>1, <1>3, <2>2 DEF Mirrors
  <2> QED BY <1>3, <2>1, <2>3 DEF Mirrors
<1> QED BY <1>2, <1>3

\* An empty list is in order and names nothing.
LEMMA NothingStands ==
  ASSUME NEW times, NEW m \in Nat, NEW until
  PROVE  Ordered(<<>>, 0, until) /\ Named(<<>>, 0, times, m)
<1>1. 1..0 = {}
  OBVIOUS
<1>2. [i \in 1..0 |-> 1] \in [1..0 -> 1..m]
  BY <1>1
<1>3. Named(<<>>, 0, times, m)
  BY <1>1, <1>2 DEF Named
<1> QED BY <1>1, <1>3 DEF Ordered

\* A call that has a key is counted for its mailbox, its person, its account or its host.
LEMMA KeyNamesSubject ==
  ASSUME NEW c \in Callers, KeyOfCall(c) # NoKey
  PROVE  /\ KeyOfCall(c) = <<c.scope, Subject(c)>>
         /\ <<c.scope, Subject(c)>> \in BudgetKeys
<1>1. /\ c.scope \in MailboxScopes \cup PersonScopes \cup AccountScopes
      /\ c.scope \in Scopes /\ c.typed \in Typed /\ c.account \in Signed \cup {Unsigned}
      /\ c.host \in Hosts /\ (c.scope \in AccountScopes => c.account # Unsigned)
  BY ScopesAssumption DEF Callers
<1>2. Subject(c) # Blank /\ KeyOfCall(c) = <<c.scope, Subject(c)>>
  BY DEF KeyOfCall, Ident, NoKey
<1>3. CASE c.scope \in MailboxScopes
  <2>1. Subject(c) = IF c.typed = Blank THEN Blank ELSE c.typed[1]
    BY <1>3 DEF Subject, MailboxScopes, PersonScopes, AccountScopes
  <2>2. c.typed \in Inboxes \X Letters /\ Subject(c) = c.typed[1]
    BY <1>1, <1>2, <2>1 DEF Typed
  <2> QED BY <1>1, <1>2, <2>2 DEF BudgetKeys
<1>4. CASE c.scope \in PersonScopes
  <2>1. Subject(c) = IF c.account = Unsigned THEN c.host ELSE c.account
    BY <1>4 DEF Subject, MailboxScopes, PersonScopes, AccountScopes
  <2> QED BY <1>1, <1>2, <2>1 DEF BudgetKeys
<1>5. CASE c.scope \in AccountScopes
  <2>1. Subject(c) = c.account
    BY <1>5 DEF Subject, MailboxScopes, PersonScopes, AccountScopes
  <2> QED BY <1>1, <1>2, <1>5, <2>1 DEF BudgetKeys
<1> QED BY <1>1, <1>3, <1>4, <1>5

\* Every mailbox, person, account or host that is counted has a key.
LEMMA BudgetKeysAreKeys == BudgetKeys \subseteq ThrottleKeys
BY DEF BudgetKeys, ThrottleKeys, Idents

\* What the kinds say of one key.
LEMMA KeyKinds ==
  ASSUME ThrottlesKinds, NEW k \in BudgetKeys
  PROVE  /\ budget[k] \in Seq(Nat) /\ admitted[k] \in Seq(Nat) /\ clock \in Nat
         /\ Len(budget[k]) \in Nat /\ Len(admitted[k]) \in Nat
         /\ \A i \in 1..Len(admitted[k]) : admitted[k][i] \in Nat
<1>1. budget[k] \in Seq(Nat) /\ admitted[k] \in Seq(Nat)
  BY BudgetKeysAreKeys DEF ThrottlesKinds
<1>2. clock \in Nat
  BY ThrottlesAssumption DEF ThrottlesKinds
<1> QED BY <1>1, <1>2

\* What an admitted call carries.
LEMMA CallKinds ==
  ASSUME ThrottlesKinds, NEW s \in Calls, call[s].step = "admit"
  PROVE  /\ call[s] \in AdmittedCalls /\ call[s].key \in BudgetKeys
         /\ call[s].subject \in BudgetKeys
         /\ call[s].at \in Nat /\ call[s].copy \in Seq(Nat) /\ Len(call[s].copy) \in Nat
<1>1. call[s] \in {Unclaimed} \cup AdmittedCalls
  BY DEF ThrottlesKinds
<1>2. call[s] # Unclaimed
  BY DEF Unclaimed
<1>3. call[s] \in AdmittedCalls
  BY <1>1, <1>2
<1>4. call[s].copy \in Seq(Nat)
  BY <1>3 DEF AdmittedCalls
<1> QED BY <1>3, <1>4 DEF AdmittedCalls

\* Before any call, every list is empty.
LEMMA ThrottlesInitHolds == ThrottlesInit => ThrottlesInv
<1> SUFFICES ASSUME ThrottlesInit PROVE ThrottlesInv
  OBVIOUS
<1>1. ThrottlesKinds
  BY ThrottlesAssumption DEF ThrottlesInit, ThrottlesKinds, BudgetKeys
<1>2. ASSUME NEW k \in BudgetKeys PROVE BudgetStands(k)
  <2>1. budget[k] = <<>> /\ admitted[k] = <<>>
    BY <1>2, BudgetKeysAreKeys DEF ThrottlesInit, BudgetKeys
  <2>2. Len(<<>>) = 0
    OBVIOUS
  <2>3. Ordered(<<>>, 0, clock) /\ Named(<<>>, 0, <<>>, 0)
    BY NothingStands
  <2>4. Mirrors(<<>>, 0, <<>>, 0, clock) /\ Spaced(<<>>, 0)
    BY DEF Mirrors, Spaced
  <2> QED BY <2>1, <2>2, <2>3, <2>4 DEF BudgetStands
<1>3. \A s \in Calls : call[s].step # "admit"
  BY DEF ThrottlesInit, Unclaimed
<1> QED BY <1>1, <1>2, <1>3 DEF ThrottlesInv

\* What a step leaves alone still stands.
LEMMA BudgetUntouched ==
  ASSUME ThrottlesInv, NEW k \in BudgetKeys, budget'[k] = budget[k], admitted'[k] = admitted[k],
         unsure \subseteq unsure', clock' = clock
  PROVE  BudgetStands(k)'
BY DEF ThrottlesInv, BudgetStands

\* A call that a step leaves alone has read what it had read.
LEMMA CallUntouched ==
  ASSUME ThrottlesInv, NEW s \in Calls, call'[s] = call[s], admitted' = admitted,
         unsure \subseteq unsure', clock' = clock, call[s].step = "admit"
  PROVE  CallReads(call[s])'
BY DEF ThrottlesInv, CallReads

\* A call is admitted on what is left of the list.
LEMMA AdmitKeeps == ASSUME ThrottlesInv, NEW s \in Calls, Admit(s) PROVE ThrottlesInv'
<1>1. PICK c \in Callers :
        /\ KeyOfCall(c) # NoKey
        /\ Len(Recent(budget[KeyOfCall(c)])) < Rate
        /\ call' = [call EXCEPT ![s] =
             [step |-> "admit", key |-> KeyOfCall(c), subject |-> <<c.scope, Subject(c)>>,
              at |-> clock, copy |-> Recent(budget[KeyOfCall(c)]), stale |-> FALSE]]
  BY DEF Admit
<1>2. UNCHANGED <<clock, budget, admitted, unsure, baseless>>
  BY DEF Admit
<1>3. ThrottlesKinds
  BY DEF ThrottlesInv
<1> DEFINE k == <<c.scope, Subject(c)>>
           new == [step |-> "admit", key |-> k, subject |-> k, at |-> clock,
                   copy |-> Recent(budget[k]), stale |-> FALSE]
<1>4. k \in BudgetKeys /\ KeyOfCall(c) = k
  BY <1>1, KeyNamesSubject
<1>5. Len(Recent(budget[k])) < Rate /\ call' = [call EXCEPT ![s] = new]
  BY <1>1, <1>4
<1> HIDE DEF k
<1>6. /\ budget[k] \in Seq(Nat) /\ clock \in Nat /\ Len(admitted[k]) \in Nat
  BY <1>3, <1>4, KeyKinds
<1>7. Recent(budget[k]) \in Seq(Nat)
  BY <1>6, RecentList
<1>8. new \in AdmittedCalls
  BY <1>4, <1>6, <1>7 DEF AdmittedCalls
<1>9. call'[s] = new /\ \A r \in Calls \ {s} : call'[r] = call[r]
  BY <1>3, <1>5 DEF ThrottlesKinds
<1>10. /\ call'[s].key = k /\ call'[s].subject = k /\ call'[s].at = clock
       /\ call'[s].copy = Recent(budget[k])
  BY <1>9
<1> HIDE DEF new
<1>11. ThrottlesKinds'
  BY <1>2, <1>3, <1>5, <1>8 DEF ThrottlesKinds
<1>12. ASSUME NEW q \in BudgetKeys PROVE BudgetStands(q)'
  BY <1>2, BudgetUntouched
<1>13. CallReads(call[s])'
  <2>1. /\ Ordered(budget[k], Len(budget[k]), clock)
        /\ Named(budget[k], Len(budget[k]), admitted[k], Len(admitted[k]))
        /\ k \notin unsure =>
             Mirrors(budget[k], Len(budget[k]), admitted[k], Len(admitted[k]), clock)
    BY <1>4 DEF ThrottlesInv, BudgetStands
  <2>2. LET rest == Recent(budget[k])
        IN  /\ Ordered(rest, Len(rest), clock)
            /\ Named(rest, Len(rest), admitted[k], Len(admitted[k]))
            /\ k \notin unsure => Mirrors(rest, Len(rest), admitted[k], Len(admitted[k]), clock)
    BY <1>6, <2>1, RecentStands
  <2> QED BY <1>2, <1>5, <1>6, <1>10, <2>2 DEF CallReads
<1>14. ASSUME NEW r \in Calls, r # s, (call[r].step = "admit")' PROVE CallReads(call[r])'
  BY <1>2, <1>9, <1>14 DEF ThrottlesInv, CallReads
<1> QED BY <1>11, <1>12, <1>13, <1>14 DEF ThrottlesInv

\* A call is refused only when the rate was admitted within the window.
LEMMA RefuseKeeps == ASSUME ThrottlesInv, Refuse PROVE ThrottlesInv'
<1>1. PICK c \in Callers :
        /\ KeyOfCall(c) # NoKey
        /\ Len(Recent(budget[KeyOfCall(c)])) >= Rate
        /\ baseless' = IF Spent(<<c.scope, Subject(c)>>) THEN baseless
                       ELSE baseless \cup {<<c.scope, Subject(c)>>}
  BY DEF Refuse
<1>2. UNCHANGED <<clock, budget, call, admitted, unsure>>
  BY DEF Refuse
<1>3. ThrottlesKinds
  BY DEF ThrottlesInv
<1> DEFINE k == <<c.scope, Subject(c)>>
           W == Within(admitted[k], clock - Window + 1, clock)
<1>4. k \in BudgetKeys /\ KeyOfCall(c) = k
  BY <1>1, KeyNamesSubject
<1>5. Len(Recent(budget[k])) >= Rate
  BY <1>1, <1>4
<1> HIDE DEF k
<1>6. /\ budget[k] \in Seq(Nat) /\ admitted[k] \in Seq(Nat) /\ clock \in Nat
      /\ Len(admitted[k]) \in Nat
  BY <1>3, <1>4, KeyKinds
<1>7. /\ Ordered(budget[k], Len(budget[k]), clock)
      /\ Named(budget[k], Len(budget[k]), admitted[k], Len(admitted[k]))
  BY <1>4 DEF ThrottlesInv, BudgetStands
<1>8. Len(Recent(budget[k])) <= Cardinality(W)
  BY <1>6, <1>7, RecentWereAdmitted
<1>9. Len(Recent(budget[k])) \in Nat
  BY <1>6, RecentList
<1>10. Cardinality(W) \in Nat
  <2>1. W \subseteq 1..Len(admitted[k])
    BY DEF Within
  <2>2. IsFiniteSet(1..Len(admitted[k]))
    BY <1>6, FS_Interval
  <2> HIDE DEF W
  <2> QED BY <2>1, <2>2, FS_Subset, FS_CardinalityType
<1> HIDE DEF W
<1>11. Cardinality(W) >= Rate
  BY <1>5, <1>8, <1>9, <1>10, ThrottlesAssumption
<1>12. Spent(k)
  BY <1>11 DEF Spent, W
<1>13. baseless' = baseless
  BY <1>1, <1>12 DEF k
<1>14. ThrottlesKinds'
  BY <1>2, <1>3, <1>13 DEF ThrottlesKinds
<1>15. ASSUME NEW q \in BudgetKeys PROVE BudgetStands(q)'
  BY <1>2, BudgetUntouched
<1>16. ASSUME NEW r \in Calls, (call[r].step = "admit")' PROVE CallReads(call[r])'
  BY <1>2, <1>16, CallUntouched
<1> QED BY <1>14, <1>15, <1>16 DEF ThrottlesInv

\* The times of a call that is out of date stay those of calls that were admitted.
LEMMA CountKeeps == ASSUME ThrottlesInv, NEW s \in Calls, Count(s) PROVE ThrottlesInv'
<1> DEFINE c == call[s]
           k == call[s].key
           list == <<c.at>> \o c.copy
           more == Append(admitted[k], c.at)
<1>1. /\ c.step = "admit" /\ clock' = clock /\ baseless' = baseless
      /\ budget' = [budget EXCEPT ![k] = list]
      /\ admitted' = [admitted EXCEPT ![c.subject] = Append(@, c.at)]
      /\ unsure' = IF c.stale THEN unsure \cup {c.subject} ELSE unsure
      /\ call' = [Outdated(k, Calls \ {s}) EXCEPT ![s] = Unclaimed]
  BY DEF Count
<1>2. ThrottlesKinds /\ CallReads(c) /\ \A q \in BudgetKeys : BudgetStands(q)
  BY <1>1 DEF ThrottlesInv
<1>3. /\ c \in AdmittedCalls /\ k \in BudgetKeys /\ c.subject = k /\ k \in ThrottleKeys
      /\ c.at \in Nat /\ c.copy \in Seq(Nat) /\ c.at <= clock
  BY <1>1, <1>2, CallKinds, BudgetKeysAreKeys DEF CallReads
<1>4. /\ admitted[k] \in Seq(Nat) /\ clock \in Nat
  BY <1>2, <1>3, KeyKinds
<1>5. /\ list \in Seq(Nat) /\ more \in Seq(Nat)
      /\ Len(list) \in Nat /\ Len(more) \in Nat /\ \A i \in 1..Len(more) : more[i] \in Nat
  <2>1. list \in Seq(Nat) /\ more \in Seq(Nat)
    BY <1>3, <1>4
  <2> HIDE DEF list, more
  <2> QED BY <2>1
<1>6. /\ budget'[k] = list /\ admitted'[k] = more
      /\ \A q \in BudgetKeys \ {k} : budget'[q] = budget[q] /\ admitted'[q] = admitted[q]
      /\ \A q \in ThrottleKeys \ {k} : budget'[q] = budget[q]
  BY <1>1, <1>2, <1>3, BudgetKeysAreKeys DEF ThrottlesKinds
<1>7. /\ unsure \subseteq unsure' /\ unsure' \subseteq BudgetKeys
      /\ k \notin unsure' => k \notin unsure /\ ~c.stale
  BY <1>1, <1>2, <1>3 DEF ThrottlesKinds
<1>8. /\ call'[s] = Unclaimed
      /\ \A r \in Calls \ {s} :
           IF call[r].step = "admit" /\ call[r].key = k
           THEN call'[r] = [call[r] EXCEPT !.stale = TRUE] ELSE call'[r] = call[r]
  BY <1>1 DEF Outdated
<1>9. ASSUME NEW r \in Calls \ {s}, call[r].step = "admit", call[r].key = k
      PROVE  /\ call'[r] \in AdmittedCalls /\ call'[r].stale
             /\ call'[r].key = call[r].key /\ call'[r].subject = call[r].subject
             /\ call'[r].at = call[r].at /\ call'[r].copy = call[r].copy
  <2>1. call'[r] = [call[r] EXCEPT !.stale = TRUE]
    BY <1>8, <1>9
  <2>2. call[r] \in AdmittedCalls
    BY <1>2, <1>9, CallKinds
  <2> QED BY <2>1, <2>2 DEF AdmittedCalls
<1>10. call' \in [Calls -> {Unclaimed} \cup AdmittedCalls]
  <2>1. call' = [r \in Calls |-> call'[r]]
    BY <1>1 DEF Outdated
  <2>2. ASSUME NEW r \in Calls PROVE call'[r] \in {Unclaimed} \cup AdmittedCalls
    <3>1. call[r] \in {Unclaimed} \cup AdmittedCalls
      BY <1>2 DEF ThrottlesKinds
    <3> QED BY <1>8, <1>9, <3>1
  <2> QED BY <2>1, <2>2
<1>11. ThrottlesKinds'
  <2>1. budget' \in [ThrottleKeys -> Seq(Nat)] /\ admitted' \in [BudgetKeys -> Seq(Nat)]
    BY <1>1, <1>2, <1>3, <1>5 DEF ThrottlesKinds
  <2>2. \A q \in ThrottleKeys \ BudgetKeys : budget'[q] = <<>>
    BY <1>2, <1>3, <1>6 DEF ThrottlesKinds
  <2>3. clock' \in 0..MaxClock /\ baseless' = {}
    BY <1>1, <1>2 DEF ThrottlesKinds
  <2> QED BY <1>7, <1>10, <2>1, <2>2, <2>3 DEF ThrottlesKinds
<1>12. ASSUME NEW q \in BudgetKeys, q = k PROVE BudgetStands(q)'
  <2>1. /\ Ordered(c.copy, Len(c.copy), c.at) /\ Len(c.copy) < Rate
        /\ Named(c.copy, Len(c.copy), admitted[k], Len(admitted[k]))
        /\ ~c.stale /\ k \notin unsure =>
             Mirrors(c.copy, Len(c.copy), admitted[k], Len(admitted[k]), c.at)
    BY <1>2, <1>3 DEF CallReads
  <2>2. k \notin unsure => Spaced(admitted[k], Len(admitted[k]))
    BY <1>2, <1>3 DEF BudgetStands
  <2>3. /\ Ordered(list, Len(list), c.at) /\ Named(list, Len(list), more, Len(more))
        /\ Mirrors(c.copy, Len(c.copy), admitted[k], Len(admitted[k]), c.at) =>
             Mirrors(list, Len(list), more, Len(more), c.at)
        /\ /\ Mirrors(c.copy, Len(c.copy), admitted[k], Len(admitted[k]), c.at)
           /\ Len(c.copy) < Rate /\ Spaced(admitted[k], Len(admitted[k]))
           => Spaced(more, Len(more))
    BY <1>3, <1>4, <2>1, OneMoreCall
  <2> HIDE DEF list, more
  <2>4. /\ Ordered(list, Len(list), clock)
        /\ Mirrors(list, Len(list), more, Len(more), c.at) =>
             Mirrors(list, Len(list), more, Len(more), clock)
    BY <1>3, <1>4, <1>5, <2>3, StandsLater
  <2>5. /\ Ordered(list, Len(list), clock) /\ Named(list, Len(list), more, Len(more))
        /\ k \notin unsure' => /\ Mirrors(list, Len(list), more, Len(more), clock)
                              /\ Spaced(more, Len(more))
    BY <1>7, <2>1, <2>2, <2>3, <2>4
  <2>6. /\ Ordered(budget'[k], Len(budget'[k]), clock')
        /\ Named(budget'[k], Len(budget'[k]), admitted'[k], Len(admitted'[k]))
        /\ k \notin unsure' =>
             /\ Mirrors(budget'[k], Len(budget'[k]), admitted'[k], Len(admitted'[k]), clock')
             /\ Spaced(admitted'[k], Len(admitted'[k]))
    BY <1>1, <1>6, <2>5
  <2> HIDE DEF k
  <2> QED BY <1>12, <2>6 DEF BudgetStands
<1>13. ASSUME NEW q \in BudgetKeys PROVE BudgetStands(q)'
  <2>1. CASE q = k
    BY <1>12, <2>1
  <2>2. CASE q # k
    BY <1>1, <1>6, <1>7, <2>2, BudgetUntouched
  <2> QED BY <2>1, <2>2
<1>14. ASSUME NEW r \in Calls, (call[r].step = "admit")' PROVE CallReads(call[r])'
  <2>1. r # s
    BY <1>8, <1>14 DEF Unclaimed
  <2>2. call[r].step = "admit"
    BY <1>8, <1>14, <2>1
  <2>3. CallReads(call[r]) /\ call[r].subject = call[r].key /\ call[r].key \in BudgetKeys
    BY <1>2, <2>2, CallKinds DEF ThrottlesInv, CallReads
  <2>4. CASE call[r].key = k
    <3>1. Named(call[r].copy, Len(call[r].copy), more, Len(more))
      BY <1>3, <1>4, <2>2, <2>3, <2>4, CallKinds, <1>2, StillNamed DEF CallReads
    <3> HIDE DEF more
    <3>2. /\ call'[r].stale
          /\ call'[r].key = call[r].key /\ call'[r].subject = call[r].subject
          /\ call'[r].at = call[r].at /\ call'[r].copy = call[r].copy
      BY <1>9, <2>1, <2>2, <2>4
    <3> QED BY <1>1, <1>6, <2>3, <2>4, <3>1, <3>2 DEF CallReads
  <2>5. CASE call[r].key # k
    <3>1. call'[r] = call[r] /\ admitted'[call[r].subject] = admitted[call[r].subject]
      BY <1>6, <1>8, <2>1, <2>3, <2>5
    <3> QED BY <1>1, <1>7, <2>3, <3>1 DEF CallReads
  <2> QED BY <2>4, <2>5
<1> QED BY <1>11, <1>13, <1>14 DEF ThrottlesInv

\* A call that ends before it is counted changes no list.
LEMMA CallDiesKeeps == ASSUME ThrottlesInv, NEW s \in Calls, CallDies(s) PROVE ThrottlesInv'
<1>1. /\ call' = [call EXCEPT ![s] = Unclaimed]
      /\ UNCHANGED <<clock, budget, admitted, unsure, baseless>>
  BY DEF CallDies
<1>2. call'[s] = Unclaimed /\ \A r \in Calls \ {s} : call'[r] = call[r]
  BY <1>1 DEF ThrottlesInv, ThrottlesKinds
<1>3. ThrottlesKinds'
  BY <1>1 DEF ThrottlesInv, ThrottlesKinds
<1>4. ASSUME NEW q \in BudgetKeys PROVE BudgetStands(q)'
  BY <1>1, BudgetUntouched
<1>5. ASSUME NEW r \in Calls, (call[r].step = "admit")' PROVE CallReads(call[r])'
  <2>1. r # s
    BY <1>2, <1>5 DEF Unclaimed
  <2> QED BY <1>1, <1>2, <1>5, <2>1, CallUntouched
<1> QED BY <1>3, <1>4, <1>5 DEF ThrottlesInv

\* A list that the cache drops makes its key unsure, and whoever read it out of date.
LEMMA DropBudgetKeeps == ASSUME ThrottlesInv, DropBudget PROVE ThrottlesInv'
<1>1. PICK c \in Callers :
        /\ KeyOfCall(c) # NoKey
        /\ budget' = [budget EXCEPT ![KeyOfCall(c)] = <<>>]
        /\ unsure' = unsure \cup {<<c.scope, Subject(c)>>}
        /\ call' = Outdated(KeyOfCall(c), Calls)
        /\ UNCHANGED <<clock, admitted, baseless>>
  BY DEF DropBudget
<1> DEFINE k == <<c.scope, Subject(c)>>
<1>2. k \in BudgetKeys /\ KeyOfCall(c) = k /\ k \in ThrottleKeys
  BY <1>1, KeyNamesSubject, BudgetKeysAreKeys
<1>3. /\ budget' = [budget EXCEPT ![k] = <<>>] /\ unsure' = unsure \cup {k}
      /\ call' = Outdated(k, Calls) /\ clock' = clock /\ admitted' = admitted
      /\ baseless' = baseless
  BY <1>1, <1>2
<1> HIDE DEF k
<1>4. ThrottlesKinds
  BY DEF ThrottlesInv
<1>5. ASSUME NEW r \in Calls
      PROVE  IF call[r].step = "admit" /\ call[r].key = k
             THEN call'[r] = [call[r] EXCEPT !.stale = TRUE] ELSE call'[r] = call[r]
  BY <1>3 DEF Outdated
<1>6. ASSUME NEW r \in Calls, call[r].step = "admit", call[r].key = k
      PROVE  /\ call'[r] \in AdmittedCalls /\ call'[r].stale
             /\ call'[r].key = call[r].key /\ call'[r].subject = call[r].subject
             /\ call'[r].at = call[r].at /\ call'[r].copy = call[r].copy
  <2>1. call'[r] = [call[r] EXCEPT !.stale = TRUE]
    BY <1>5, <1>6
  <2>2. call[r] \in AdmittedCalls
    BY <1>4, <1>6, CallKinds
  <2> QED BY <2>1, <2>2 DEF AdmittedCalls
<1>7. call' \in [Calls -> {Unclaimed} \cup AdmittedCalls]
  <2>1. call' = [r \in Calls |-> call'[r]]
    BY <1>3 DEF Outdated
  <2>2. ASSUME NEW r \in Calls PROVE call'[r] \in {Unclaimed} \cup AdmittedCalls
    <3>1. call[r] \in {Unclaimed} \cup AdmittedCalls
      BY <1>4 DEF ThrottlesKinds
    <3> QED BY <1>5, <1>6, <3>1
  <2> QED BY <2>1, <2>2
<1>8. ThrottlesKinds'
  <2>1. budget' \in [ThrottleKeys -> Seq(Nat)] /\ admitted' \in [BudgetKeys -> Seq(Nat)]
    <3>1. <<>> \in Seq(Nat)
      OBVIOUS
    <3>2. budget \in [ThrottleKeys -> Seq(Nat)] /\ admitted \in [BudgetKeys -> Seq(Nat)]
      BY <1>4 DEF ThrottlesKinds
    <3>3. budget' \in [ThrottleKeys -> Seq(Nat)]
      BY <1>3, <3>1, <3>2
    <3> QED BY <1>3, <3>2, <3>3
  <2>2. \A q \in ThrottleKeys \ BudgetKeys : budget'[q] = <<>>
    BY <1>2, <1>3, <1>4 DEF ThrottlesKinds
  <2>3. clock' \in 0..MaxClock /\ baseless' = {} /\ unsure' \subseteq BudgetKeys
    BY <1>2, <1>3, <1>4 DEF ThrottlesKinds
  <2> QED BY <1>7, <2>1, <2>2, <2>3 DEF ThrottlesKinds
<1>9. ASSUME NEW q \in BudgetKeys PROVE BudgetStands(q)'
  <2>1. CASE q = k
    <3>1. budget'[q] = <<>> /\ Len(<<>>) = 0 /\ q \in unsure'
      BY <1>2, <1>3, <1>4, <2>1 DEF ThrottlesKinds
    <3>2. Len(admitted[q]) \in Nat
      BY <1>4, KeyKinds
    <3>3. Ordered(<<>>, 0, clock) /\ Named(<<>>, 0, admitted[q], Len(admitted[q]))
      BY <3>2, NothingStands
    <3> QED BY <1>3, <3>1, <3>3 DEF BudgetStands
  <2>2. CASE q # k
    <3>1. budget'[q] = budget[q] /\ unsure \subseteq unsure' /\ admitted'[q] = admitted[q]
      BY <1>3, <1>4, <2>2, BudgetKeysAreKeys DEF ThrottlesKinds
    <3> QED BY <1>3, <3>1, BudgetUntouched
  <2> QED BY <2>1, <2>2
<1>10. ASSUME NEW r \in Calls, (call[r].step = "admit")' PROVE CallReads(call[r])'
  <2>1. CASE call[r].step = "admit" /\ call[r].key = k
    <3>1. CallReads(call[r])
      BY <2>1 DEF ThrottlesInv
    <3> QED BY <1>3, <1>6, <2>1, <3>1 DEF CallReads
  <2>2. CASE ~(call[r].step = "admit" /\ call[r].key = k)
    <3>1. call'[r] = call[r] /\ call[r].step = "admit" /\ unsure \subseteq unsure'
      BY <1>3, <1>5, <1>10, <2>2
    <3> QED BY <1>3, <3>1, CallUntouched
  <2> QED BY <2>1, <2>2
<1> QED BY <1>8, <1>9, <1>10 DEF ThrottlesInv

\* Time takes entries out of the window and brings none in.
LEMMA PassKeeps == ASSUME ThrottlesInv, Pass PROVE ThrottlesInv'
<1>1. /\ clock' = clock + 1 /\ clock < MaxClock
      /\ UNCHANGED <<budget, call, admitted, unsure, baseless>>
  BY DEF Pass
<1>2. ThrottlesKinds /\ clock \in Nat
  BY ThrottlesAssumption DEF ThrottlesInv, ThrottlesKinds
<1>3. ThrottlesKinds'
  BY <1>1, <1>2, ThrottlesAssumption DEF ThrottlesKinds
<1>4. ASSUME NEW q \in BudgetKeys PROVE BudgetStands(q)'
  <2>1. /\ Len(budget[q]) \in Nat /\ Len(admitted[q]) \in Nat
        /\ \A i \in 1..Len(admitted[q]) : admitted[q][i] \in Nat
    BY <1>2, KeyKinds
  <2>2. /\ Ordered(budget[q], Len(budget[q]), clock) =>
             Ordered(budget[q], Len(budget[q]), clock + 1)
        /\ Mirrors(budget[q], Len(budget[q]), admitted[q], Len(admitted[q]), clock) =>
             Mirrors(budget[q], Len(budget[q]), admitted[q], Len(admitted[q]), clock + 1)
    <3>1. clock + 1 \in Nat /\ clock <= clock + 1
      BY <1>2
    <3> QED BY <1>2, <2>1, <3>1, StandsLater
  <2> QED BY <1>1, <2>2 DEF ThrottlesInv, BudgetStands
<1>5. ASSUME NEW r \in Calls, (call[r].step = "admit")' PROVE CallReads(call[r])'
  <2>1. CallReads(call[r]) /\ call[r].at \in Nat
    BY <1>1, <1>2, <1>5, CallKinds DEF ThrottlesInv
  <2>2. call[r].at <= clock + 1
    BY <1>2, <2>1 DEF CallReads
  <2> QED BY <1>1, <2>1, <2>2 DEF CallReads
<1> QED BY <1>3, <1>4, <1>5 DEF ThrottlesInv

\* Every step of the throttles keeps the invariant.
LEMMA ThrottlesNextHolds == ThrottlesInv /\ [ThrottlesNext]_throttlesVars => ThrottlesInv'
<1> SUFFICES ASSUME ThrottlesInv, [ThrottlesNext]_throttlesVars PROVE ThrottlesInv'
  OBVIOUS
<1>1. CASE UNCHANGED throttlesVars
  BY <1>1 DEF throttlesVars, ThrottlesInv, ThrottlesKinds, BudgetStands, CallReads
<1>2. CASE ThrottlesNext
  BY <1>2, PassKeeps, RefuseKeeps, DropBudgetKeeps, AdmitKeeps, CountKeeps, CallDiesKeeps
     DEF ThrottlesNext
<1> QED BY <1>1, <1>2

\* No key that is not unsure has more than Rate calls in any window, none is refused within its
\* rate, and the lists stay in order (allow_request).
LEMMA ThrottlesInvIsSound == ThrottlesInv => ThrottlesSound
<1> SUFFICES ASSUME ThrottlesInv PROVE ThrottlesSound
  OBVIOUS
<1>1. ThrottlesKinds
  BY DEF ThrottlesInv
<1>2. RefusedForReason
  BY <1>1 DEF ThrottlesKinds, RefusedForReason
<1>3. DOMAIN admitted = BudgetKeys
  BY <1>1 DEF ThrottlesKinds
<1>4. ThrottleBudget
  <2>1. ASSUME NEW k \in BudgetKeys \ unsure, NEW from \in 0..clock
        PROVE  Cardinality(Within(admitted[k], from, from + Window - 1)) <= Rate
    <3>1. admitted[k] \in Seq(Nat) /\ from \in Nat
      BY <1>1, KeyKinds
    <3>2. Spaced(admitted[k], Len(admitted[k]))
      BY DEF ThrottlesInv, BudgetStands
    <3> QED BY <3>1, <3>2, WindowHolds
  <2> QED BY <1>3, <2>1 DEF ThrottleBudget
<1>5. ThrottlesTypeOK
  <2>1. ASSUME NEW k \in ThrottleKeys
        PROVE  /\ \A i \in 1..Len(budget[k]) : budget[k][i] \in 0..clock
               /\ \A i \in 1..(Len(budget[k]) - 1) : budget[k][i] >= budget[k][i + 1]
    <3>1. CASE k \in BudgetKeys
      <4>1. Ordered(budget[k], Len(budget[k]), clock) /\ Len(budget[k]) \in Nat /\ clock \in Nat
        BY <1>1, <3>1, KeyKinds DEF ThrottlesInv, BudgetStands
      <4>2. \A i \in 1..Len(budget[k]) : budget[k][i] \in 0..clock
        BY <4>1 DEF Ordered
      <4>3. \A i \in 1..(Len(budget[k]) - 1) :
              i \in 1..Len(budget[k]) /\ i + 1 \in 1..Len(budget[k]) /\ i < i + 1
        BY <4>1
      <4>4. \A i \in 1..(Len(budget[k]) - 1) : budget[k][i] >= budget[k][i + 1]
        BY <4>1, <4>3 DEF Ordered
      <4> QED BY <4>2, <4>4
    <3>2. CASE k \notin BudgetKeys
      <4>1. budget[k] = <<>> /\ Len(<<>>) = 0
        BY <1>1, <3>2 DEF ThrottlesKinds
      <4> QED BY <4>1
    <3> QED BY <3>1, <3>2
  <2> QED BY <1>1, <1>3, <2>1 DEF ThrottlesTypeOK, ThrottlesKinds
<1> QED BY <1>2, <1>4, <1>5 DEF ThrottlesSound

\* Whatever calls overlap and whatever the cache loses, the throttles keep their word.
THEOREM ThrottlesKeepTheirWord == ThrottlesSpec => []ThrottlesSound
BY ThrottlesInitHolds, ThrottlesNextHolds, ThrottlesInvIsSound, PTL DEF ThrottlesSpec

(***************************************************************************)
(* TutorSeeding.  Who has the address is one account; what a run dropped   *)
(* or inserted stays as it was until the run ends (RunInOrder), so that    *)
(* the account it commits is there, with role and profile, or somebody     *)
(* undid it (Restored).  Every object is of one avatar, in one hand,       *)
(* awaits its cleanup or was left behind (HandsApart, AvatarsKept,         *)
(* AllAccounted).                                                          *)
(***************************************************************************)
SeedKinds ==
  /\ tutors \in [AccountIds -> TutorAccounts]
  /\ accounts \in 0..MaxAccounts /\ objects \in 0..MaxObjects
  /\ stored \subseteq 1..objects /\ awaited \subseteq stored /\ stranded \subseteq 1..objects
  /\ seeding \in Runs
  /\ photo \in [Photos -> PhotoStates]
  /\ undone \in BOOLEAN /\ committed \in BOOLEAN

Seekable(a) == tutors[a].exists /\ tutors[a].mail

\* An account that is not there has nothing; the address is of one account.
PeopleStand ==
  /\ \A a \in AccountIds : IF tutors[a].exists THEN a <= accounts ELSE tutors[a] = NoTutor
  /\ \A a, b \in AccountIds : Seekable(a) /\ Seekable(b) => a = b

\* Who was seeded has role and profile unless somebody undid it.
Restored ==
  /\ \A a \in AccountIds : Seekable(a) => undone \/ (tutors[a].role /\ tutors[a].detail = "ACTIVE")
  /\ committed => undone \/ \E a \in AccountIds : Seekable(a)

\* Until it is committed, a run keeps what it deleted and what it inserted to itself.
RunInOrder ==
  /\ seeding.object # NoObject => seeding.step = "commit"
  /\ seeding.step \in {"idle", "clean"} => seeding.dropped = NoAccount
  /\ seeding.step \in {"idle", "clean", "user"} => seeding.account = NoAccount /\ ~seeding.anew
  /\ seeding.step \in {"detail", "avatar", "commit"} =>
       /\ seeding.account \in AccountIds /\ seeding.account <= accounts
       /\ seeding.account # seeding.dropped
       /\ seeding.dropped # NoAccount => seeding.anew
       /\ ~seeding.anew => /\ tutors[seeding.account].exists
                           /\ undone \/ Seekable(seeding.account)
  /\ seeding.dropped # NoAccount => seeding.dropped \in AccountIds /\ Seekable(seeding.dropped)
  /\ seeding.anew => /\ ~tutors[seeding.account].exists
                     /\ \A a \in AccountIds : Seekable(a) => a = seeding.dropped

PhotosInOrder ==
  \A p \in Photos :
    /\ photo[p].step = "insert" <=> photo[p].object # NoObject
    /\ photo[p].step # "idle" => photo[p].account \in AccountIds

\* An object in somebody's hands is in the store, nobody else's and nobody's avatar.
HandsApart ==
  /\ \A p \in Photos : LET o == photo[p].object IN
       o # NoObject => /\ o \in stored \ awaited /\ o # seeding.object
                       /\ \A a \in AccountIds : o # tutors[a].avatar
                       /\ \A q \in Photos : o = photo[q].object => p = q
  /\ seeding.object # NoObject =>
       /\ seeding.object \in stored \ awaited
       /\ \A a \in AccountIds : seeding.object # tutors[a].avatar

AvatarsKept ==
  \A a \in AccountIds : LET o == tutors[a].avatar IN
    o # NoObject => /\ o \in stored \ awaited
                    /\ \A b \in AccountIds : o = tutors[b].avatar => a = b

AllAccounted ==
  \A o \in stored \ (awaited \cup stranded) :
    \/ o = seeding.object
    \/ \E a \in AccountIds : o = tutors[a].avatar
    \/ \E p \in Photos : o = photo[p].object

TutorSeedingInv ==
  /\ SeedKinds /\ PeopleStand /\ Restored /\ RunInOrder /\ PhotosInOrder
  /\ HandsApart /\ AvatarsKept /\ AllAccounted

\* What the kinds say of one account, of the run and of one upload.
LEMMA SeedFields ==
  ASSUME SeedKinds
  PROVE  /\ \A a \in AccountIds : /\ tutors[a] \in TutorAccounts
                                  /\ tutors[a].avatar \in ObjectIds \cup {NoObject}
                                  /\ tutors[a].detail \in {"none", "ACTIVE", "DELETED"}
                                  /\ tutors[a].exists \in BOOLEAN /\ tutors[a].mail \in BOOLEAN
                                  /\ tutors[a].role \in BOOLEAN /\ tutors[a].kept \in BOOLEAN
         /\ seeding.step \in RunSteps /\ seeding.anew \in BOOLEAN
         /\ seeding.account \in AccountIds \cup {NoAccount}
         /\ seeding.dropped \in AccountIds \cup {NoAccount}
         /\ seeding.object \in ObjectIds \cup {NoObject}
         /\ \A p \in Photos : /\ photo[p] \in PhotoStates
                              /\ photo[p].step \in {"idle", "store", "insert"}
                              /\ photo[p].account \in AccountIds \cup {NoAccount}
                              /\ photo[p].object \in ObjectIds \cup {NoObject}
<1>1. ASSUME NEW a \in AccountIds
      PROVE  /\ tutors[a] \in TutorAccounts
             /\ tutors[a].avatar \in ObjectIds \cup {NoObject}
             /\ tutors[a].detail \in {"none", "ACTIVE", "DELETED"}
             /\ tutors[a].exists \in BOOLEAN /\ tutors[a].mail \in BOOLEAN
             /\ tutors[a].role \in BOOLEAN /\ tutors[a].kept \in BOOLEAN
  <2>1. tutors[a] \in TutorAccounts
    BY DEF SeedKinds
  <2> QED BY <2>1 DEF TutorAccounts
<1>2. /\ seeding.step \in RunSteps /\ seeding.anew \in BOOLEAN
      /\ seeding.account \in AccountIds \cup {NoAccount}
      /\ seeding.dropped \in AccountIds \cup {NoAccount}
      /\ seeding.object \in ObjectIds \cup {NoObject}
  BY DEF SeedKinds, Runs
<1>3. ASSUME NEW p \in Photos
      PROVE  /\ photo[p] \in PhotoStates
             /\ photo[p].step \in {"idle", "store", "insert"}
             /\ photo[p].account \in AccountIds \cup {NoAccount}
             /\ photo[p].object \in ObjectIds \cup {NoObject}
  <2>1. photo[p] \in PhotoStates
    BY DEF SeedKinds
  <2> QED BY <2>1 DEF PhotoStates
<1> QED BY <1>1, <1>2, <1>3

\* Nobody, no run and no upload.
LEMMA SeedNulls ==
  /\ NoTutor \in TutorAccounts /\ ~NoTutor.exists /\ ~NoTutor.mail /\ NoTutor.avatar = NoObject
  /\ NoRun \in Runs /\ NoRun.step = "idle" /\ NoRun.account = NoAccount
  /\ NoRun.dropped = NoAccount /\ ~NoRun.anew /\ NoRun.object = NoObject
  /\ NoPhoto \in PhotoStates /\ NoPhoto.step = "idle" /\ NoPhoto.object = NoObject
<1>1. NoTutor \in TutorAccounts /\ ~NoTutor.exists /\ ~NoTutor.mail /\ NoTutor.avatar = NoObject
  BY DEF NoTutor, TutorAccounts
<1>2. /\ NoRun \in Runs /\ NoRun.step = "idle" /\ NoRun.account = NoAccount
      /\ NoRun.dropped = NoAccount /\ ~NoRun.anew /\ NoRun.object = NoObject
  BY DEF NoRun, Runs, RunSteps
<1>3. NoPhoto \in PhotoStates /\ NoPhoto.step = "idle" /\ NoPhoto.object = NoObject
  BY DEF NoPhoto, PhotoStates
<1> QED BY <1>1, <1>2, <1>3

\* At first there is neither a tutor nor an object.
LEMMA TutorSeedingInitHolds == TutorSeedingInit => TutorSeedingInv
<1> SUFFICES ASSUME TutorSeedingInit PROVE TutorSeedingInv
  OBVIOUS
<1>1. /\ \A a \in AccountIds : tutors[a] = NoTutor
      /\ \A p \in Photos : photo[p] = NoPhoto
      /\ seeding = NoRun /\ stored = {} /\ awaited = {} /\ stranded = {}
      /\ accounts = 0 /\ objects = 0 /\ ~undone /\ ~committed
  BY DEF TutorSeedingInit
<1>2. SeedKinds
  <2>1. tutors \in [AccountIds -> TutorAccounts] /\ photo \in [Photos -> PhotoStates]
    BY SeedNulls DEF TutorSeedingInit
  <2>2. undone \in BOOLEAN /\ committed \in BOOLEAN
    BY DEF TutorSeedingInit
  <2> QED BY <1>1, <2>1, <2>2, SeedNulls, TutorSeedingAssumption DEF SeedKinds
<1>3. PeopleStand
  BY <1>1, SeedNulls DEF PeopleStand, Seekable
<1>4. Restored
  BY <1>1, SeedNulls DEF Restored, Seekable
<1>5. RunInOrder
  BY <1>1, SeedNulls DEF RunInOrder
<1>6. PhotosInOrder
  BY <1>1, SeedNulls DEF PhotosInOrder
<1>7. HandsApart
  BY <1>1, SeedNulls DEF HandsApart
<1>8. AvatarsKept
  BY <1>1, SeedNulls DEF AvatarsKept
<1>9. AllAccounted
  BY <1>1 DEF AllAccounted
<1> QED BY <1>2, <1>3, <1>4, <1>5, <1>6, <1>7, <1>8, <1>9 DEF TutorSeedingInv

\* A step of a run that stores nothing leaves every object where it was.
LEMMA ObjectsUntouched ==
  ASSUME TutorSeedingInv, UNCHANGED <<stored, awaited>>, stranded \subseteq stranded',
         seeding'.object = seeding.object,
         \A a \in AccountIds : tutors'[a].avatar = tutors[a].avatar,
         \A p \in Photos : photo'[p].object = photo[p].object
  PROVE  HandsApart' /\ AvatarsKept' /\ AllAccounted'
<1>1. HandsApart'
  BY DEF TutorSeedingInv, HandsApart
<1>2. AvatarsKept'
  BY DEF TutorSeedingInv, AvatarsKept
<1>3. AllAccounted'
  BY DEF TutorSeedingInv, AllAccounted
<1> QED BY <1>1, <1>2, <1>3

\* An account that changes outside a run keeps its place in it.
LEMMA OneAccountChanges ==
  ASSUME TutorSeedingInv, NEW a \in AccountIds, NEW acct,
         tutors[a].exists, ~Frozen(a), tutors' = [tutors EXCEPT ![a] = acct],
         acct.exists, acct.mail => tutors[a].mail,
         undone => undone',
         \/ undone'
         \/ /\ tutors[a].mail => acct.mail
            /\ tutors[a].role => acct.role
            /\ tutors[a].detail = "ACTIVE" => acct.detail = "ACTIVE",
         UNCHANGED <<accounts, seeding, committed>>
  PROVE  PeopleStand' /\ Restored' /\ RunInOrder'
<1>1. /\ tutors'[a] = acct
      /\ \A b \in AccountIds \ {a} : tutors'[b] = tutors[b]
  BY DEF TutorSeedingInv, SeedKinds
<1>2. /\ \A b \in AccountIds : Seekable(b)' => Seekable(b)
      /\ undone' \/ \A b \in AccountIds : Seekable(b) => Seekable(b)'
      /\ \A b \in AccountIds \ {a} : Seekable(b) => Seekable(b)'
  BY <1>1 DEF Seekable
<1>3. PeopleStand'
  BY <1>1, <1>2 DEF TutorSeedingInv, PeopleStand
<1>4. Restored'
  <2>1. ASSUME NEW b \in AccountIds, Seekable(b)', ~undone'
        PROVE  (tutors[b].role /\ tutors[b].detail = "ACTIVE")'
    <3>1. tutors[b].role /\ tutors[b].detail = "ACTIVE"
      BY <1>2, <2>1 DEF TutorSeedingInv, Restored
    <3> QED BY <1>1, <2>1, <3>1
  <2>2. committed' => undone' \/ \E b \in AccountIds : Seekable(b)'
    BY <1>2 DEF TutorSeedingInv, Restored
  <2> QED BY <2>1, <2>2 DEF Restored
<1>5. RunInOrder'
  <2>1. RunInOrder
    BY DEF TutorSeedingInv
  <2>2. /\ seeding.dropped # NoAccount => seeding.dropped # a
        /\ seeding.anew => seeding.account # a /\ seeding.account \in AccountIds
    <3>1. seeding.step \in RunSteps
      BY SeedFields DEF TutorSeedingInv
    <3>2. seeding.dropped # NoAccount => seeding.step # "idle"
      BY <2>1 DEF RunInOrder
    <3>3. seeding.anew => seeding.step # "idle" /\ seeding.account \in AccountIds
      BY <2>1, <3>1 DEF RunInOrder, RunSteps
    <3> QED BY <3>2, <3>3 DEF Frozen
  <2>3. \A b \in AccountIds : tutors'[b].exists <=> tutors[b].exists
    BY <1>1
  <2>4. seeding.step \in {"detail", "avatar", "commit"} /\ ~seeding.anew =>
          /\ tutors'[seeding.account].exists
          /\ undone' \/ Seekable(seeding.account)'
    <3>1. ASSUME seeding.step \in {"detail", "avatar", "commit"}, ~seeding.anew
          PROVE  /\ seeding.account \in AccountIds /\ tutors[seeding.account].exists
                 /\ undone \/ Seekable(seeding.account)
      BY <2>1, <3>1 DEF RunInOrder
    <3>2. ASSUME NEW b \in AccountIds, b = seeding.account, undone \/ Seekable(b)
          PROVE  undone' \/ Seekable(seeding.account)'
      BY <1>2, <3>2 DEF Seekable
    <3> QED BY <2>3, <3>1, <3>2
  <2>5. seeding.dropped # NoAccount => seeding.dropped \in AccountIds /\ Seekable(seeding.dropped)'
    BY <1>1, <2>1, <2>2 DEF RunInOrder, Seekable
  <2>6. seeding.anew => /\ ~tutors'[seeding.account].exists
                        /\ \A b \in AccountIds : Seekable(b)' => b = seeding.dropped
    BY <1>2, <2>1, <2>2, <2>3 DEF RunInOrder
  <2> QED BY <2>1, <2>4, <2>5, <2>6 DEF RunInOrder
<1> QED BY <1>3, <1>4, <1>5

\* Leaving, hiding, judging and referring to a tutor.
LEMMA TouchKeeps ==
  ASSUME TutorSeedingInv, NEW a \in AccountIds, NEW acct \in TutorAccounts, NEW undoes \in BOOLEAN,
         Touch(a, acct, undoes),
         acct.exists, acct.mail => tutors[a].mail, acct.avatar = tutors[a].avatar,
         \/ undoes
         \/ /\ tutors[a].mail => acct.mail
            /\ tutors[a].role => acct.role
            /\ tutors[a].detail = "ACTIVE" => acct.detail = "ACTIVE"
  PROVE  TutorSeedingInv'
<1>1. /\ tutors[a].exists /\ ~Frozen(a) /\ tutors' = [tutors EXCEPT ![a] = acct]
      /\ undone' = (undone \/ undoes)
      /\ UNCHANGED <<accounts, stored, objects, awaited, seeding, photo, stranded, committed>>
  BY DEF Touch
<1>2. SeedKinds'
  <2>1. tutors' \in [AccountIds -> TutorAccounts]
    BY <1>1 DEF TutorSeedingInv, SeedKinds
  <2>2. undone' \in BOOLEAN
    BY <1>1 DEF TutorSeedingInv, SeedKinds
  <2> QED BY <1>1, <2>1, <2>2 DEF TutorSeedingInv, SeedKinds
<1>3. (undone => undone') /\ (undoes => undone')
  BY <1>1
<1>4. PeopleStand' /\ Restored' /\ RunInOrder'
  BY <1>1, <1>3, OneAccountChanges
<1>5. \A b \in AccountIds : tutors'[b].avatar = tutors[b].avatar
  BY <1>1 DEF TutorSeedingInv, SeedKinds
<1>6. HandsApart' /\ AvatarsKept' /\ AllAccounted'
  BY <1>1, <1>5, ObjectsUntouched
<1>7. PhotosInOrder'
  BY <1>1 DEF TutorSeedingInv, PhotosInOrder
<1> QED BY <1>2, <1>4, <1>6, <1>7 DEF TutorSeedingInv

\* An account leaves: its address is free, which the history calls undone.
LEMMA LeaveKeeps == ASSUME TutorSeedingInv, NEW a \in AccountIds, Leave(a) PROVE TutorSeedingInv'
<1> DEFINE acct == [tutors[a] EXCEPT !.mail = FALSE, !.role = FALSE]
<1>1. Touch(a, acct, TRUE) /\ tutors[a].exists
  BY DEF Leave, Touch
<1>2. tutors[a] \in TutorAccounts
  BY SeedFields DEF TutorSeedingInv
<1>3. acct \in TutorAccounts /\ acct.exists /\ ~acct.mail /\ acct.avatar = tutors[a].avatar
  BY <1>1, <1>2 DEF TutorAccounts
<1> HIDE DEF acct
<1> QED BY <1>1, <1>3, TouchKeeps

\* A profile is hidden.
LEMMA HideKeeps == ASSUME TutorSeedingInv, NEW a \in AccountIds, Hide(a) PROVE TutorSeedingInv'
<1> DEFINE acct == [tutors[a] EXCEPT !.detail = "DELETED", !.role = FALSE]
<1>1. Touch(a, acct, TRUE) /\ tutors[a].exists /\ tutors[a].mail
  BY DEF Hide, Touch
<1>2. tutors[a] \in TutorAccounts
  BY SeedFields DEF TutorSeedingInv
<1>3. acct \in TutorAccounts /\ acct.exists /\ acct.avatar = tutors[a].avatar
  BY <1>1, <1>2 DEF TutorAccounts
<1> HIDE DEF acct
<1> QED BY <1>1, <1>3, TouchKeeps

\* A verdict gives the role or takes it; taking it is undone.
LEMMA JudgeKeeps == ASSUME TutorSeedingInv, NEW a \in AccountIds, Judge(a) PROVE TutorSeedingInv'
<1> DEFINE acct == [tutors[a] EXCEPT !.role = ~@]
<1>1. Touch(a, acct, tutors[a].role) /\ tutors[a].exists
  BY DEF Judge, Touch
<1>2. tutors[a] \in TutorAccounts /\ tutors[a].role \in BOOLEAN /\ tutors[a].mail \in BOOLEAN
  BY SeedFields DEF TutorSeedingInv
<1>3. acct \in TutorAccounts
  BY <1>2 DEF TutorAccounts
<1>4. /\ acct.exists /\ acct.avatar = tutors[a].avatar /\ acct.detail = tutors[a].detail
      /\ acct.mail = tutors[a].mail
  BY <1>1, <1>2 DEF TutorAccounts
<1> HIDE DEF acct
<1>5. ASSUME NEW undoes \in BOOLEAN, undoes = tutors[a].role, Touch(a, acct, undoes)
      PROVE  TutorSeedingInv'
  BY <1>1, <1>3, <1>4, <1>5, TouchKeeps
<1> QED BY <1>1, <1>2, <1>5

\* An inquiry or a review refers to the tutor.
LEMMA ReferKeeps == ASSUME TutorSeedingInv, NEW a \in AccountIds, Refer(a) PROVE TutorSeedingInv'
<1> DEFINE acct == [tutors[a] EXCEPT !.kept = TRUE]
<1>1. Touch(a, acct, FALSE) /\ tutors[a].exists
  BY DEF Refer, Touch
<1>2. /\ tutors[a] \in TutorAccounts /\ tutors[a].role \in BOOLEAN /\ tutors[a].mail \in BOOLEAN
  BY SeedFields DEF TutorSeedingInv
<1>3. /\ acct \in TutorAccounts /\ acct.exists /\ acct.avatar = tutors[a].avatar
      /\ acct.detail = tutors[a].detail
  BY <1>1, <1>2 DEF TutorAccounts
<1>4. acct.mail = tutors[a].mail /\ acct.role = tutors[a].role
  BY <1>2 DEF TutorAccounts
<1> HIDE DEF acct
<1> QED BY <1>1, <1>3, <1>4, TouchKeeps

\* A run that only goes on: everything but the run stays.
LEMMA RunGoesOn ==
  ASSUME TutorSeedingInv, seeding' \in Runs, RunInOrder', accounts' \in 0..MaxAccounts,
         accounts <= accounts', seeding'.object = seeding.object,
         UNCHANGED <<tutors, stored, objects, awaited, photo, undone, stranded, committed>>
  PROVE  TutorSeedingInv'
<1>1. SeedKinds'
  BY DEF TutorSeedingInv, SeedKinds
<1>2. PeopleStand'
  BY DEF TutorSeedingInv, SeedKinds, PeopleStand, Seekable, AccountIds
<1>3. Restored'
  BY DEF TutorSeedingInv, Restored, Seekable
<1>4. PhotosInOrder'
  BY DEF TutorSeedingInv, PhotosInOrder
<1>5. HandsApart' /\ AvatarsKept' /\ AllAccounted'
  BY ObjectsUntouched
<1> QED BY <1>1, <1>2, <1>3, <1>4, <1>5 DEF TutorSeedingInv

\* A run starts with nothing in hand.
LEMMA StartRunKeeps ==
  ASSUME TutorSeedingInv, NEW clean \in BOOLEAN, StartRun(clean) PROVE TutorSeedingInv'
<1>1. /\ seeding.step = "idle"
      /\ seeding' = [NoRun EXCEPT !.step = IF clean THEN "clean" ELSE "user"]
      /\ UNCHANGED <<tutors, accounts, stored, objects, awaited, photo, undone, stranded,
                     committed>>
  BY DEF StartRun, Run
<1>2. /\ seeding' \in Runs /\ seeding'.step \in {"clean", "user"} /\ seeding'.account = NoAccount
      /\ seeding'.dropped = NoAccount /\ ~seeding'.anew /\ seeding'.object = NoObject
  BY <1>1 DEF NoRun, Runs, RunSteps
<1>3. RunInOrder'
  BY <1>2 DEF RunInOrder
<1>4. seeding'.object = seeding.object
  BY <1>1, <1>2 DEF TutorSeedingInv, RunInOrder
<1>5. accounts' \in 0..MaxAccounts /\ accounts <= accounts'
  BY <1>1 DEF TutorSeedingInv, SeedKinds
<1> QED BY <1>1, <1>2, <1>3, <1>4, <1>5, RunGoesOn

\* Who has the address of the seed.
LEMMA WithMailIs == WithMail = {a \in AccountIds : Seekable(a)}
BY DEF WithMail, Seekable

\* The run deletes who has the address, in its transaction.
LEMMA DropTutorKeeps == ASSUME TutorSeedingInv, DropTutor PROVE TutorSeedingInv'
<1> DEFINE d == IF WithMail = {} THEN 0 ELSE CHOOSE a \in WithMail : TRUE
<1>1. /\ seeding.step = "clean"
      /\ \/ seeding' = NoRun
         \/ seeding' = [seeding EXCEPT !.step = "user", !.dropped = d]
      /\ UNCHANGED <<tutors, accounts, stored, objects, awaited, photo, undone, stranded,
                     committed>>
  BY DEF DropTutor, Run
<1>2. d = NoAccount \/ (d \in AccountIds /\ Seekable(d))
  BY WithMailIs DEF NoAccount
<1> HIDE DEF d
<1>3. /\ seeding \in Runs /\ seeding.account = NoAccount /\ ~seeding.anew
      /\ seeding.object = NoObject
  BY <1>1 DEF TutorSeedingInv, RunInOrder, SeedKinds
<1>4. accounts' \in 0..MaxAccounts /\ accounts <= accounts'
  BY <1>1 DEF TutorSeedingInv, SeedKinds
<1>5. CASE seeding' = NoRun
  <2>1. RunInOrder'
    BY <1>5, SeedNulls DEF RunInOrder
  <2> QED BY <1>1, <1>3, <1>4, <1>5, <2>1, SeedNulls, RunGoesOn
<1>6. CASE seeding' = [seeding EXCEPT !.step = "user", !.dropped = d]
  <2>1. /\ seeding' \in Runs /\ seeding'.step = "user" /\ seeding'.dropped = d
        /\ seeding'.account = NoAccount /\ seeding'.object = NoObject
    BY <1>2, <1>3, <1>6 DEF Runs, RunSteps
  <2>2. ~seeding'.anew
    BY <1>3, <1>6 DEF Runs
  <2>3. RunInOrder'
    BY <1>1, <1>2, <2>1, <2>2 DEF RunInOrder, Seekable
  <2> QED BY <1>1, <1>3, <1>4, <2>1, <2>3, RunGoesOn
<1> QED BY <1>1, <1>5, <1>6

\* The run takes who has the address, or inserts an account.
LEMMA GetOrCreateUserKeeps == ASSUME TutorSeedingInv, GetOrCreateUser PROVE TutorSeedingInv'
<1> DEFINE there == WithMail \ {seeding.dropped}
           found == CHOOSE a \in there : TRUE
<1>1. /\ seeding.step = "user"
      /\ UNCHANGED <<tutors, stored, objects, awaited, photo, undone, stranded, committed>>
      /\ \/ /\ there = {} /\ accounts < MaxAccounts /\ accounts' = accounts + 1
            /\ seeding' = [seeding EXCEPT !.step = "detail", !.account = accounts + 1,
                                          !.anew = TRUE]
         \/ /\ there # {} /\ accounts' = accounts
            /\ seeding' = [seeding EXCEPT !.step = "detail", !.account = found]
  BY DEF GetOrCreateUser, Run
<1>2. /\ seeding \in Runs /\ ~seeding.anew /\ seeding.object = NoObject
      /\ seeding.dropped \in AccountIds \cup {NoAccount}
      /\ seeding.dropped # NoAccount => seeding.dropped \in AccountIds /\ Seekable(seeding.dropped)
      /\ accounts \in 0..MaxAccounts
  BY <1>1, SeedFields DEF TutorSeedingInv, RunInOrder, SeedKinds
<1>3. PeopleStand
  BY DEF TutorSeedingInv
<1>4. CASE there = {} /\ accounts' = accounts + 1
  <2>1. seeding' = [seeding EXCEPT !.step = "detail", !.account = accounts + 1, !.anew = TRUE]
    BY <1>1, <1>4
  <2>2. accounts + 1 \in AccountIds /\ accounts' \in 0..MaxAccounts /\ accounts <= accounts'
    BY <1>1, <1>2, <1>4, TutorSeedingAssumption DEF AccountIds
  <2>3. /\ seeding' \in Runs /\ seeding'.step = "detail" /\ seeding'.dropped = seeding.dropped
        /\ seeding'.account = accounts + 1 /\ seeding'.object = NoObject /\ seeding'.anew
    BY <1>2, <2>1, <2>2 DEF Runs, RunSteps
  <2>4. \A a \in AccountIds : Seekable(a) => a = seeding.dropped
    BY <1>4, WithMailIs
  <2>5. ~tutors[accounts + 1].exists /\ accounts + 1 # seeding.dropped
    BY <1>2, <1>3, <2>2, TutorSeedingAssumption DEF PeopleStand, Seekable, AccountIds, NoAccount
  <2>6. RunInOrder'
    BY <1>1, <1>2, <1>4, <2>2, <2>3, <2>4, <2>5 DEF RunInOrder, Seekable
  <2> QED BY <1>1, <1>2, <2>2, <2>3, <2>6, RunGoesOn
<1>5. CASE there # {} /\ accounts' = accounts
  <2>1. seeding' = [seeding EXCEPT !.step = "detail", !.account = found]
    BY <1>1, <1>2, <1>5 DEF AccountIds
  <2>2. found \in AccountIds /\ Seekable(found) /\ found # seeding.dropped
    BY <1>5, WithMailIs
  <2> HIDE DEF found, there
  <2>3. /\ seeding' \in Runs /\ seeding'.step = "detail" /\ seeding'.dropped = seeding.dropped
        /\ seeding'.account = found /\ seeding'.object = NoObject
    BY <1>2, <2>1, <2>2 DEF Runs, RunSteps
  <2>4. ~seeding'.anew
    BY <1>2, <2>1 DEF Runs
  <2>5. seeding.dropped = NoAccount
    BY <1>2, <1>3, <2>2 DEF PeopleStand
  <2>6. tutors[found].exists /\ found <= accounts
    BY <1>3, <2>2 DEF PeopleStand, Seekable
  <2>7. RunInOrder'
    BY <1>1, <1>5, <2>2, <2>3, <2>4, <2>5, <2>6 DEF RunInOrder, Seekable
  <2>8. accounts' \in 0..MaxAccounts /\ accounts <= accounts'
    BY <1>2, <1>5
  <2> QED BY <1>1, <1>2, <2>3, <2>7, <2>8, RunGoesOn
<1> QED BY <1>1, <1>4, <1>5

\* The profile is upserted.
LEMMA UpsertDetailKeeps == ASSUME TutorSeedingInv, UpsertDetail PROVE TutorSeedingInv'
<1>1. /\ seeding.step = "detail" /\ seeding' = [seeding EXCEPT !.step = "avatar"]
      /\ UNCHANGED <<tutors, accounts, stored, objects, awaited, photo, undone, stranded,
                     committed>>
  BY DEF UpsertDetail, Run
<1>2. seeding \in Runs /\ seeding.anew \in BOOLEAN
  BY SeedFields DEF TutorSeedingInv, SeedKinds
<1>3. /\ seeding' \in Runs /\ seeding'.step = "avatar" /\ seeding'.account = seeding.account
      /\ seeding'.dropped = seeding.dropped /\ seeding'.object = seeding.object
  BY <1>1, <1>2 DEF Runs, RunSteps
<1>4. seeding'.anew = seeding.anew
  BY <1>1, <1>2 DEF Runs
<1>5. RunInOrder'
  BY <1>1, <1>3, <1>4 DEF TutorSeedingInv, RunInOrder, Seekable
<1>6. accounts' \in 0..MaxAccounts /\ accounts <= accounts'
  BY <1>1 DEF TutorSeedingInv, SeedKinds
<1> QED BY <1>1, <1>3, <1>5, <1>6, RunGoesOn

\* A new object is beyond every object there is.
LEMMA NewObject ==
  ASSUME SeedKinds, objects < MaxObjects
  PROVE  /\ objects + 1 \in ObjectIds /\ objects + 1 # NoObject /\ objects + 1 \notin stored
         /\ objects + 1 \notin awaited /\ objects + 1 \in 0..MaxObjects
         /\ stored \cup {objects + 1} \subseteq 1..(objects + 1)
         /\ awaited \subseteq stored \cup {objects + 1} /\ stranded \subseteq 1..(objects + 1)
<1>1. objects \in Nat /\ MaxObjects \in Nat
  BY TutorSeedingAssumption DEF SeedKinds
<1>2. stored \subseteq 1..objects /\ awaited \subseteq stored /\ stranded \subseteq 1..objects
  BY DEF SeedKinds
<1> QED BY <1>1, <1>2 DEF ObjectIds, NoObject

\* The seed's avatar is stored, or there is one, or it cannot be fetched.
LEMMA StoreSeedAvatarKeeps == ASSUME TutorSeedingInv, StoreSeedAvatar PROVE TutorSeedingInv'
<1>1. /\ seeding.step = "avatar"
      /\ UNCHANGED <<tutors, accounts, awaited, photo, undone, stranded, committed>>
      /\ \/ /\ objects < MaxObjects
            /\ objects' = objects + 1 /\ stored' = stored \cup {objects + 1}
            /\ seeding' = [seeding EXCEPT !.step = "commit", !.object = objects + 1]
         \/ /\ seeding' = [seeding EXCEPT !.step = "commit"]
            /\ UNCHANGED <<stored, objects>>
  BY DEF StoreSeedAvatar, Run
<1>2. /\ seeding \in Runs /\ seeding.anew \in BOOLEAN /\ seeding.object = NoObject
      /\ accounts' \in 0..MaxAccounts /\ accounts <= accounts'
  BY <1>1, SeedFields DEF TutorSeedingInv, SeedKinds, RunInOrder
<1>3. CASE seeding' = [seeding EXCEPT !.step = "commit"] /\ UNCHANGED <<stored, objects>>
  <2>1. /\ seeding' \in Runs /\ seeding'.step = "commit" /\ seeding'.account = seeding.account
        /\ seeding'.dropped = seeding.dropped /\ seeding'.object = seeding.object
    BY <1>2, <1>3 DEF Runs, RunSteps
  <2>2. seeding'.anew = seeding.anew
    BY <1>2, <1>3 DEF Runs
  <2>3. RunInOrder'
    BY <1>1, <2>1, <2>2 DEF TutorSeedingInv, RunInOrder, Seekable
  <2> QED BY <1>1, <1>2, <1>3, <2>1, <2>3, RunGoesOn
<1>4. CASE /\ objects < MaxObjects
           /\ objects' = objects + 1 /\ stored' = stored \cup {objects + 1}
           /\ seeding' = [seeding EXCEPT !.step = "commit", !.object = objects + 1]
  <2>1. /\ objects + 1 \in ObjectIds /\ objects + 1 # NoObject /\ objects + 1 \notin stored
        /\ objects + 1 \notin awaited /\ objects + 1 \in 0..MaxObjects
        /\ stored \cup {objects + 1} \subseteq 1..(objects + 1)
        /\ awaited \subseteq stored \cup {objects + 1} /\ stranded \subseteq 1..(objects + 1)
    BY <1>4, NewObject DEF TutorSeedingInv
  <2>2. /\ seeding' \in Runs /\ seeding'.step = "commit" /\ seeding'.account = seeding.account
        /\ seeding'.dropped = seeding.dropped /\ seeding'.object = objects + 1
    BY <1>2, <1>4, <2>1 DEF Runs, RunSteps
  <2>3. seeding'.anew = seeding.anew
    BY <1>2, <1>4 DEF Runs
  <2>4. RunInOrder'
    BY <1>1, <2>2, <2>3 DEF TutorSeedingInv, RunInOrder, Seekable
  <2>5. SeedKinds'
    BY <1>1, <1>4, <2>1, <2>2 DEF TutorSeedingInv, SeedKinds
  <2>6. PeopleStand' /\ Restored' /\ PhotosInOrder'
    BY <1>1 DEF TutorSeedingInv, PeopleStand, Restored, PhotosInOrder, Seekable
  <2>7. HandsApart'
    BY <1>1, <1>4, <2>1, <2>2 DEF TutorSeedingInv, HandsApart, AvatarsKept
  <2>8. AvatarsKept'
    BY <1>1, <1>4 DEF TutorSeedingInv, AvatarsKept
  <2>9. AllAccounted'
    BY <1>1, <1>2, <1>4, <2>2, SeedNulls DEF TutorSeedingInv, AllAccounted, SeedKinds, NoObject
  <2> QED BY <2>4, <2>5, <2>6, <2>7, <2>8, <2>9 DEF TutorSeedingInv
<1> QED BY <1>1, <1>3, <1>4

\* What a run makes of each account.
LEMMA SeededIs ==
  ASSUME TutorSeedingInv, seeding.step = "commit",
         seeding.object = NoObject \/ seeding.anew \/ LacksAvatar(seeding.account)
  PROVE  /\ \A a \in AccountIds : Seeded(a) \in TutorAccounts
         /\ \A a \in AccountIds : a = seeding.dropped => Seeded(a) = NoTutor
         /\ \A a \in AccountIds :
              a # seeding.dropped /\ a # seeding.account => Seeded(a) = tutors[a]
         /\ seeding.anew =>
              /\ Seeded(seeding.account).exists /\ Seeded(seeding.account).mail
              /\ Seeded(seeding.account).role /\ Seeded(seeding.account).detail = "ACTIVE"
              /\ Seeded(seeding.account).avatar = seeding.object
              /\ tutors[seeding.account].avatar = NoObject
         /\ ~seeding.anew => LET s == Seeded(seeding.account)
                                 t == tutors[seeding.account]
                             IN  /\ s.exists /\ s.mail = t.mail /\ s.role = t.role
                                 /\ t.detail = "ACTIVE" => s.detail = "ACTIVE"
                                 /\ s.avatar = IF seeding.object = NoObject THEN t.avatar
                                               ELSE seeding.object
                                 /\ seeding.object # NoObject => t.avatar = NoObject
<1>1. /\ SeedKinds /\ RunInOrder /\ seeding.account \in AccountIds
      /\ seeding.account # seeding.dropped
      /\ seeding.object \in ObjectIds \cup {NoObject} /\ seeding.anew \in BOOLEAN
  BY SeedFields DEF TutorSeedingInv, RunInOrder
<1>2. \A a \in AccountIds : a = seeding.dropped => Seeded(a) = NoTutor
  BY DEF Seeded
<1>3. \A a \in AccountIds : a # seeding.dropped /\ a # seeding.account => Seeded(a) = tutors[a]
  BY DEF Seeded
<1> DEFINE s == Seeded(seeding.account)
           t == tutors[seeding.account]
<1>4. ASSUME seeding.anew
      PROVE  /\ s \in TutorAccounts /\ s.exists /\ s.mail /\ s.role /\ s.detail = "ACTIVE"
             /\ s.avatar = seeding.object /\ t.avatar = NoObject
  <2>1. s = [exists |-> TRUE, mail |-> TRUE, role |-> TRUE, detail |-> "ACTIVE",
             avatar |-> seeding.object, kept |-> FALSE]
    BY <1>1, <1>4 DEF Seeded
  <2>2. t = NoTutor
    BY <1>1, <1>4 DEF TutorSeedingInv, RunInOrder, PeopleStand
  <2>3. s \in TutorAccounts
    BY <1>1, <2>1 DEF TutorAccounts
  <2> QED BY <2>1, <2>2, <2>3, SeedNulls
<1>5. ASSUME ~seeding.anew
      PROVE  /\ s \in TutorAccounts /\ s.exists
             /\ t.detail = "ACTIVE" => s.detail = "ACTIVE"
             /\ s.avatar = IF seeding.object = NoObject THEN t.avatar ELSE seeding.object
             /\ seeding.object # NoObject => t.avatar = NoObject
             /\ s.mail = t.mail /\ s.role = t.role
  <2>1. s = [t EXCEPT !.detail = IF @ = "none" THEN "ACTIVE" ELSE @,
                      !.avatar = IF seeding.object = NoObject THEN @ ELSE seeding.object]
    BY <1>1, <1>5 DEF Seeded
  <2>2. t.exists
    BY <1>1, <1>5 DEF RunInOrder
  <2>3. t \in TutorAccounts /\ t.mail \in BOOLEAN /\ t.role \in BOOLEAN
    BY <1>1, SeedFields
  <2>4. seeding.object # NoObject => t.avatar = NoObject
    BY <1>5 DEF LacksAvatar
  <2> HIDE DEF s, t
  <2>5. s \in TutorAccounts
    BY <1>1, <2>1, <2>3 DEF TutorAccounts
  <2>6. /\ t.detail = "ACTIVE" => s.detail = "ACTIVE"
        /\ s.avatar = IF seeding.object = NoObject THEN t.avatar ELSE seeding.object
    BY <2>1, <2>2, <2>3 DEF TutorAccounts
  <2>7. s.exists
    BY <2>1, <2>2, <2>3 DEF TutorAccounts
  <2>8. s.mail = t.mail /\ s.role = t.role
    BY <2>1, <2>3 DEF TutorAccounts
  <2> QED BY <2>4, <2>5, <2>6, <2>7, <2>8
<1>6. \A a \in AccountIds : Seeded(a) \in TutorAccounts
  <2>1. ASSUME NEW a \in AccountIds PROVE Seeded(a) \in TutorAccounts
    <3>1. CASE a = seeding.dropped
      BY <1>2, <3>1, SeedNulls
    <3>2. CASE a # seeding.dropped /\ a # seeding.account
      BY <1>1, <1>3, <3>2, SeedFields
    <3>3. CASE a = seeding.account
      BY <1>1, <1>4, <1>5, <3>3
    <3> QED BY <3>1, <3>2, <3>3
  <2> QED BY <2>1
<1> QED BY <1>2, <1>3, <1>4, <1>5, <1>6


\* The run is committed: an account that was dropped leaves its avatar behind, and what the run
\* inserted is seeded.
LEMMA CommitRunKeeps == ASSUME TutorSeedingInv, CommitRun PROVE TutorSeedingInv'
<1> DEFINE left == {tutors[a].avatar : a \in AccountIds \cap {seeding.dropped}} \ {NoObject}
           x == seeding.account
<1>1. /\ seeding.step = "commit"
      /\ seeding.object = NoObject \/ seeding.anew \/ LacksAvatar(seeding.account)
      /\ tutors' = [a \in AccountIds |-> Seeded(a)]
      /\ stranded' = stranded \cup left
      /\ undone' = (undone /\ ~seeding.anew) /\ committed' = TRUE /\ seeding' = NoRun
      /\ UNCHANGED <<accounts, stored, objects, awaited, photo>>
  BY DEF CommitRun, Run
<1>2. /\ SeedKinds /\ PeopleStand /\ Restored /\ RunInOrder /\ PhotosInOrder
      /\ HandsApart /\ AvatarsKept /\ AllAccounted
  BY DEF TutorSeedingInv
<1>3. /\ \A a \in AccountIds : tutors'[a] \in TutorAccounts
      /\ \A a \in AccountIds : a = seeding.dropped => tutors'[a] = NoTutor
      /\ \A a \in AccountIds : a # seeding.dropped /\ a # x => tutors'[a] = tutors[a]
  BY <1>1, SeededIs
<1>4. /\ x \in AccountIds /\ x <= accounts /\ x # seeding.dropped
      /\ seeding.dropped # NoAccount => seeding.anew
      /\ ~seeding.anew => tutors[x].exists
      /\ ~seeding.anew => undone \/ Seekable(x)
      /\ seeding.anew => \A a \in AccountIds : Seekable(a) => a = seeding.dropped
  BY <1>1, <1>2 DEF RunInOrder
<1>5. seeding.anew => /\ tutors'[x].exists /\ tutors'[x].mail /\ tutors'[x].role
                      /\ tutors'[x].detail = "ACTIVE" /\ tutors'[x].avatar = seeding.object
                      /\ tutors[x].avatar = NoObject
  BY <1>1, <1>4, SeededIs
<1>6. ~seeding.anew => /\ tutors'[x].exists /\ tutors'[x].mail = tutors[x].mail
                       /\ tutors'[x].role = tutors[x].role
                       /\ tutors[x].detail = "ACTIVE" => tutors'[x].detail = "ACTIVE"
                       /\ tutors'[x].avatar = IF seeding.object = NoObject THEN tutors[x].avatar
                                              ELSE seeding.object
                       /\ seeding.object # NoObject => tutors[x].avatar = NoObject
  BY <1>1, <1>4, SeededIs
<1>7. /\ seeding.anew \in BOOLEAN /\ seeding.object \in ObjectIds \cup {NoObject}
      /\ seeding.dropped \in AccountIds \cup {NoAccount} /\ NoAccount \notin AccountIds
  BY <1>2, SeedFields DEF AccountIds, NoAccount
<1> HIDE DEF x
<1>8. left \subseteq stored
  <2>1. \A a \in AccountIds : tutors[a].avatar # NoObject => tutors[a].avatar \in stored
    BY <1>2 DEF AvatarsKept
  <2> QED BY <2>1
<1>9. \A a \in AccountIds : a = seeding.dropped /\ tutors[a].avatar # NoObject
                              => tutors[a].avatar \in left
  OBVIOUS
<1> HIDE DEF left
<1>10. SeedKinds'
  <2>1. tutors' \in [AccountIds -> TutorAccounts]
    BY <1>1, <1>3
  <2>2. undone' \in BOOLEAN /\ committed' \in BOOLEAN
    BY <1>1, <1>2, <1>7 DEF SeedKinds
  <2>3. stranded' \subseteq 1..objects
    BY <1>1, <1>2, <1>8 DEF SeedKinds
  <2> QED BY <1>1, <1>2, <2>1, <2>2, <2>3, SeedNulls DEF SeedKinds
<1>11. \A a \in AccountIds : Seekable(a)' =>
         (seeding.anew /\ a = x) \/ (~seeding.anew /\ Seekable(a))
  <2>1. ASSUME NEW a \in AccountIds, Seekable(a)'
        PROVE (seeding.anew /\ a = x) \/ (~seeding.anew /\ Seekable(a))
    <3>1. a # seeding.dropped
      BY <1>3, <2>1, SeedNulls DEF Seekable
    <3>2. CASE a = x
      <4>1. tutors'[x].mail
        BY <2>1, <3>2 DEF Seekable
      <4>2. ~seeding.anew => tutors[x].mail /\ tutors[x].exists
        BY <1>4, <1>6, <4>1
      <4>3. ~seeding.anew => Seekable(a)
        BY <3>2, <4>2 DEF Seekable
      <4> QED BY <3>2, <4>3
    <3>3. CASE a # x
      BY <1>3, <1>4, <1>7, <2>1, <3>1, <3>3 DEF Seekable
    <3> QED BY <3>2, <3>3
  <2> QED BY <2>1
<1>12. PeopleStand'
  <2>1. ASSUME NEW a \in AccountIds
        PROVE  IF tutors'[a].exists THEN a <= accounts' ELSE tutors'[a] = NoTutor
    <3>1. CASE a = seeding.dropped
      BY <1>3, <3>1, SeedNulls
    <3>2. CASE a = x
      BY <1>1, <1>4, <1>5, <1>6, <1>7, <3>2
    <3>3. CASE a # seeding.dropped /\ a # x
      BY <1>1, <1>2, <1>3, <3>3 DEF PeopleStand
    <3> QED BY <3>1, <3>2, <3>3
  <2>2. \A a, b \in AccountIds : Seekable(a)' /\ Seekable(b)' => a = b
    BY <1>2, <1>11 DEF PeopleStand
  <2> QED BY <2>1, <2>2 DEF PeopleStand
<1>13. Restored'
  <2>1. ASSUME NEW a \in AccountIds, Seekable(a)'
        PROVE  undone' \/ (tutors'[a].role /\ tutors'[a].detail = "ACTIVE")
    <3>1. CASE seeding.anew
      BY <1>5, <1>11, <2>1, <3>1
    <3>2. CASE ~seeding.anew
      <4>1. undone \/ (tutors[a].role /\ tutors[a].detail = "ACTIVE")
        BY <1>2, <1>11, <2>1, <3>2 DEF Restored
      <4>2. a # seeding.dropped
        BY <1>4, <1>7, <3>2
      <4>3. undone \/ (tutors'[a].role /\ tutors'[a].detail = "ACTIVE")
        BY <1>3, <1>6, <3>2, <4>1, <4>2
      <4> QED BY <1>1, <3>2, <4>3
    <3> QED BY <1>7, <3>1, <3>2
  <2>2. undone' \/ \E a \in AccountIds : Seekable(a)'
    <3>1. ASSUME NEW a \in AccountIds, a = x, ~undone' PROVE Seekable(a)'
      BY <1>1, <1>4, <1>5, <1>6, <1>7, <3>1 DEF Seekable
    <3> QED BY <1>4, <3>1
  <2> QED BY <2>1, <2>2 DEF Restored
<1>14. RunInOrder'
  BY <1>1, SeedNulls DEF RunInOrder
<1>15. PhotosInOrder'
  BY <1>1, <1>2 DEF PhotosInOrder
<1>16. \A a \in AccountIds :
         /\ tutors'[a].avatar # NoObject =>
              \/ a # seeding.dropped /\ tutors'[a].avatar = tutors[a].avatar
              \/ a = x /\ tutors'[a].avatar = seeding.object
         /\ tutors[a].avatar # NoObject =>
              \/ tutors'[a].avatar = tutors[a].avatar
              \/ a = seeding.dropped
  <2>1. ASSUME NEW a \in AccountIds
        PROVE  /\ tutors'[a].avatar # NoObject =>
                    \/ a # seeding.dropped /\ tutors'[a].avatar = tutors[a].avatar
                    \/ a = x /\ tutors'[a].avatar = seeding.object
               /\ tutors[a].avatar # NoObject =>
                    \/ tutors'[a].avatar = tutors[a].avatar
                    \/ a = seeding.dropped
    <3>1. CASE a = seeding.dropped
      BY <1>3, <3>1, SeedNulls
    <3>2. CASE a = x
      BY <1>4, <1>5, <1>6, <1>7, <3>2
    <3>3. CASE a # seeding.dropped /\ a # x
      BY <1>3, <3>3
    <3> QED BY <3>1, <3>2, <3>3
  <2> QED BY <2>1
<1>17. HandsApart'
  <2>1. ASSUME NEW p \in Photos, photo[p].object # NoObject
        PROVE  /\ photo[p].object \in stored \ awaited
               /\ \A a \in AccountIds : photo[p].object # tutors'[a].avatar
               /\ \A q \in Photos : photo[p].object = photo[q].object => p = q
    BY <1>2, <1>16, <2>1 DEF HandsApart
  <2> QED BY <1>1, <2>1, SeedNulls DEF HandsApart
<1>18. AvatarsKept'
  <2>1. ASSUME NEW a \in AccountIds, tutors'[a].avatar # NoObject
        PROVE  /\ tutors'[a].avatar \in stored \ awaited
               /\ \A b \in AccountIds : tutors'[a].avatar = tutors'[b].avatar => a = b
    <3>1. tutors'[a].avatar \in stored \ awaited
      BY <1>2, <1>16, <2>1 DEF AvatarsKept, HandsApart
    <3>2. ASSUME NEW b \in AccountIds, tutors'[a].avatar = tutors'[b].avatar PROVE a = b
      BY <1>2, <1>16, <2>1, <3>2 DEF AvatarsKept, HandsApart
    <3> QED BY <3>1, <3>2
  <2> QED BY <1>1, <2>1 DEF AvatarsKept
<1>19. AllAccounted'
  <2>1. ASSUME NEW o \in stored \ (awaited \cup stranded')
        PROVE  \/ \E a \in AccountIds : o = tutors'[a].avatar
               \/ \E p \in Photos : o = photo[p].object
    <3>1. o # NoObject /\ o \notin stranded
      BY <1>1, <1>2, <2>1 DEF SeedKinds, NoObject
    <3>2. CASE o = seeding.object
      <4>1. tutors'[x].avatar = o
        BY <1>5, <1>6, <1>7, <3>1, <3>2
      <4> QED BY <1>4, <4>1
    <3>3. ASSUME NEW a \in AccountIds, o = tutors[a].avatar
          PROVE  \E b \in AccountIds : o = tutors'[b].avatar
      BY <1>1, <1>9, <1>16, <2>1, <3>1, <3>3
    <3> QED BY <1>2, <2>1, <3>1, <3>2, <3>3 DEF AllAccounted
  <2> QED BY <1>1, <2>1 DEF AllAccounted
<1> QED BY <1>10, <1>12, <1>13, <1>14, <1>15, <1>17, <1>18, <1>19 DEF TutorSeedingInv

\* A run that is rolled back leaves the object it stored behind.
LEMMA AbortRunKeeps == ASSUME TutorSeedingInv, AbortRun PROVE TutorSeedingInv'
<1>1. /\ stranded' = stranded \cup ({seeding.object} \ {NoObject}) /\ seeding' = NoRun
      /\ UNCHANGED <<tutors, accounts, stored, objects, awaited, photo, undone, committed>>
  BY DEF AbortRun, Run
<1>2. seeding.object # NoObject => seeding.object \in stored
  BY DEF TutorSeedingInv, HandsApart
<1>3. SeedKinds'
  BY <1>1, <1>2, SeedNulls DEF TutorSeedingInv, SeedKinds
<1>4. PeopleStand' /\ Restored' /\ PhotosInOrder'
  BY <1>1 DEF TutorSeedingInv, PeopleStand, Restored, PhotosInOrder, Seekable
<1>5. RunInOrder'
  BY <1>1, SeedNulls DEF RunInOrder
<1>6. HandsApart' /\ AvatarsKept'
  BY <1>1, SeedNulls DEF TutorSeedingInv, HandsApart, AvatarsKept
<1>7. AllAccounted'
  <2>1. ASSUME NEW o \in stored \ (awaited \cup stranded')
        PROVE  \/ \E a \in AccountIds : o = tutors[a].avatar
               \/ \E p \in Photos : o = photo[p].object
    <3>1. o # NoObject /\ o \notin stranded /\ o # seeding.object
      BY <1>1, <2>1 DEF TutorSeedingInv, SeedKinds, NoObject
    <3> QED BY <2>1, <3>1 DEF TutorSeedingInv, AllAccounted
  <2> QED BY <1>1, <2>1 DEF AllAccounted
<1> QED BY <1>3, <1>4, <1>5, <1>6, <1>7 DEF TutorSeedingInv

\* Everybody is deleted, and every avatar's object is left behind.
LEMMA DeleteEverybodyKeeps == ASSUME TutorSeedingInv, DeleteEverybody PROVE TutorSeedingInv'
<1>1. /\ seeding.step = "idle" /\ tutors' = [a \in AccountIds |-> NoTutor]
      /\ stranded' = stranded \cup Avatars /\ undone' = TRUE
      /\ seeding' = [NoRun EXCEPT !.step = "clean"]
      /\ UNCHANGED <<accounts, stored, objects, awaited, photo, committed>>
  BY DEF DeleteEverybody, Run
<1>2. /\ seeding' \in Runs /\ seeding'.step = "clean" /\ seeding'.account = NoAccount
      /\ seeding'.dropped = NoAccount /\ ~seeding'.anew /\ seeding'.object = NoObject
  BY <1>1 DEF NoRun, Runs, RunSteps
<1>3. \A a \in AccountIds : tutors'[a] = NoTutor
  BY <1>1
<1>4. Avatars \subseteq stored
  BY DEF TutorSeedingInv, AvatarsKept, Avatars
<1>5. SeedKinds'
  BY <1>1, <1>2, <1>4, SeedNulls DEF TutorSeedingInv, SeedKinds
<1>6. PeopleStand' /\ Restored'
  BY <1>1, <1>3, SeedNulls DEF PeopleStand, Restored, Seekable
<1>7. RunInOrder'
  BY <1>2 DEF RunInOrder
<1>8. PhotosInOrder'
  BY <1>1 DEF TutorSeedingInv, PhotosInOrder
<1>9. HandsApart'
  BY <1>1, <1>2, <1>3, SeedNulls DEF TutorSeedingInv, HandsApart
<1>10. AvatarsKept'
  BY <1>3, SeedNulls DEF AvatarsKept
<1>11. AllAccounted'
  <2>1. ASSUME NEW o \in stored \ (awaited \cup stranded')
        PROVE  \E p \in Photos : o = photo[p].object
    <3>1. o # NoObject /\ o \notin stranded /\ o \notin Avatars
      BY <1>1, <2>1 DEF TutorSeedingInv, SeedKinds, NoObject
    <3>2. seeding.object = NoObject /\ \A a \in AccountIds : o # tutors[a].avatar
      BY <1>1, <3>1 DEF TutorSeedingInv, RunInOrder, Avatars
    <3> QED BY <2>1, <3>1, <3>2 DEF TutorSeedingInv, AllAccounted
  <2> QED BY <1>1, <2>1 DEF AllAccounted
<1> QED BY <1>5, <1>6, <1>7, <1>8, <1>9, <1>10, <1>11 DEF TutorSeedingInv


\* An account made by hand has the address and nothing else.
LEMMA CreateByHandKeeps == ASSUME TutorSeedingInv, CreateByHand PROVE TutorSeedingInv'
<1> DEFINE new == [NoTutor EXCEPT !.exists = TRUE, !.mail = TRUE]
           n == accounts + 1
<1>1. /\ WithMail = {} /\ ~seeding.anew /\ accounts < MaxAccounts /\ accounts' = n
      /\ tutors' = [tutors EXCEPT ![n] = new] /\ undone' = TRUE
      /\ UNCHANGED <<stored, objects, awaited, seeding, photo, stranded, committed>>
  BY DEF CreateByHand
<1>2. /\ SeedKinds /\ PeopleStand /\ RunInOrder
  BY DEF TutorSeedingInv
<1>3. n \in AccountIds /\ n \in 0..MaxAccounts /\ accounts < n /\ accounts \in Nat
  BY <1>1, <1>2, TutorSeedingAssumption DEF SeedKinds, AccountIds
<1>4. new \in TutorAccounts /\ new.exists /\ new.mail /\ new.avatar = NoObject
  BY DEF NoTutor, TutorAccounts
<1> HIDE DEF new
<1>5. tutors'[n] = new /\ \A a \in AccountIds \ {n} : tutors'[a] = tutors[a]
  BY <1>1, <1>2, <1>3 DEF SeedKinds
<1>6. tutors[n] = NoTutor
  BY <1>2, <1>3 DEF PeopleStand, AccountIds
<1> HIDE DEF n
<1>7. \A a \in AccountIds : ~Seekable(a)
  BY <1>1, WithMailIs
<1>8. \A a \in AccountIds : Seekable(a)' => a = n
  BY <1>5, <1>7 DEF Seekable
<1>9. SeedKinds'
  BY <1>1, <1>2, <1>3, <1>4 DEF SeedKinds
<1>10. PeopleStand'
  <2>1. \A a \in AccountIds : IF tutors'[a].exists THEN a <= accounts' ELSE tutors'[a] = NoTutor
    BY <1>1, <1>2, <1>3, <1>4, <1>5 DEF PeopleStand, AccountIds
  <2> QED BY <1>8, <2>1 DEF PeopleStand
<1>11. Restored'
  BY <1>1 DEF Restored
<1>12. RunInOrder'
  <2>1. seeding.dropped = NoAccount
    BY <1>2, <1>7 DEF RunInOrder
  <2>2. seeding.step \in {"detail", "avatar", "commit"} =>
          /\ seeding.account \in AccountIds /\ seeding.account <= accounts'
          /\ seeding.account # seeding.dropped /\ tutors'[seeding.account].exists
    BY <1>1, <1>2, <1>3, <1>4, <1>5 DEF RunInOrder, AccountIds
  <2> QED BY <1>1, <1>2, <2>1, <2>2 DEF RunInOrder
<1>13. \A a \in AccountIds : tutors'[a].avatar = tutors[a].avatar
  BY <1>4, <1>5, <1>6, SeedNulls
<1>14. HandsApart' /\ AvatarsKept' /\ AllAccounted'
  BY <1>1, <1>13, ObjectsUntouched
<1>15. PhotosInOrder'
  BY <1>1 DEF TutorSeedingInv, PhotosInOrder
<1> QED BY <1>9, <1>10, <1>11, <1>12, <1>14, <1>15 DEF TutorSeedingInv

\* An avatar is removed: its object awaits its cleanup, or is left behind.
LEMMA WithoutAvatarKeeps ==
  ASSUME TutorSeedingInv, NEW a \in AccountIds, WithoutAvatar(a),
         photo' \in [Photos -> PhotoStates],
         tutors[a].exists, \A p \in Photos : photo'[p].object = photo[p].object, PhotosInOrder',
         UNCHANGED <<accounts, stored, objects, seeding, undone, committed>>
  PROVE  TutorSeedingInv'
<1> DEFINE acct == [tutors[a] EXCEPT !.avatar = NoObject,
                                        !.detail = IF @ = "none" THEN "ACTIVE" ELSE @]
           old == {tutors[a].avatar} \ {NoObject}
<1>1. /\ tutors[a].mail /\ ~Frozen(a)
      /\ \/ awaited' = awaited \cup old /\ UNCHANGED stranded
         \/ stranded' = stranded \cup old /\ UNCHANGED awaited
  BY DEF WithoutAvatar
<1>2. tutors' = [tutors EXCEPT ![a] = acct]
  BY DEF WithoutAvatar
<1>3. /\ SeedKinds /\ HandsApart /\ AvatarsKept /\ AllAccounted
  BY DEF TutorSeedingInv
<1>4. tutors[a] \in TutorAccounts /\ tutors[a].role \in BOOLEAN
  BY <1>3, SeedFields
<1>5. /\ acct \in TutorAccounts /\ acct.exists /\ acct.mail /\ acct.avatar = NoObject
      /\ tutors[a].detail = "ACTIVE" => acct.detail = "ACTIVE"
  BY <1>1, <1>4 DEF TutorAccounts, NoObject
<1>6. tutors[a].role => acct.role
  BY <1>4 DEF TutorAccounts
<1>7. tutors'[a] = acct /\ \A b \in AccountIds \ {a} : tutors'[b] = tutors[b]
  BY <1>2, <1>3 DEF SeedKinds
<1> HIDE DEF acct
<1>8. PeopleStand' /\ Restored' /\ RunInOrder'
  BY <1>1, <1>2, <1>5, <1>6, OneAccountChanges
<1>9. tutors[a].avatar # NoObject => /\ tutors[a].avatar \in stored \ awaited
                                     /\ \A b \in AccountIds : tutors[a].avatar = tutors[b].avatar
                                                              => a = b
  BY <1>3 DEF AvatarsKept
<1>10. SeedKinds'
  <2>1. awaited' \subseteq stored' /\ stranded' \subseteq 1..objects'
    BY <1>1, <1>3, <1>9 DEF SeedKinds
  <2>2. tutors' \in [AccountIds -> TutorAccounts]
    BY <1>2, <1>3, <1>5 DEF SeedKinds
  <2> QED BY <1>3, <2>1, <2>2 DEF SeedKinds
<1>11. \A b \in AccountIds : tutors'[b].avatar # NoObject =>
         b # a /\ tutors'[b].avatar = tutors[b].avatar
  BY <1>5, <1>7
<1>12. awaited' \subseteq awaited \cup old /\ awaited \subseteq awaited'
  BY <1>1
<1>13. HandsApart'
  <2>1. \A p \in Photos : photo[p].object # NoObject => photo[p].object \notin old
    BY <1>3 DEF HandsApart
  <2>2. seeding.object # NoObject => seeding.object \notin old
    BY <1>3 DEF HandsApart
  <2> QED BY <1>3, <1>11, <1>12, <2>1, <2>2 DEF HandsApart
<1>14. AvatarsKept'
  <2>1. ASSUME NEW b \in AccountIds, tutors'[b].avatar # NoObject
        PROVE  tutors'[b].avatar \in stored \ awaited'
    BY <1>3, <1>9, <1>11, <1>12, <2>1 DEF AvatarsKept
  <2>2. ASSUME NEW b \in AccountIds, NEW c \in AccountIds, tutors'[b].avatar # NoObject,
               tutors'[b].avatar = tutors'[c].avatar
        PROVE  b = c
    BY <1>3, <1>11, <2>2 DEF AvatarsKept
  <2> QED BY <2>1, <2>2 DEF AvatarsKept
<1>15. AllAccounted'
  <2>1. ASSUME NEW o \in stored \ (awaited' \cup stranded')
        PROVE  \/ o = seeding.object
               \/ \E b \in AccountIds : o = tutors'[b].avatar
               \/ \E p \in Photos : o = photo[p].object
    <3>1. o \notin awaited /\ o \notin stranded /\ o \notin old /\ o # NoObject
      BY <1>1, <1>3, <2>1 DEF SeedKinds, NoObject
    <3>2. ASSUME NEW b \in AccountIds, o = tutors[b].avatar PROVE o = tutors'[b].avatar
      BY <1>7, <3>1, <3>2
    <3> QED BY <1>3, <2>1, <3>1, <3>2 DEF AllAccounted
  <2> QED BY <2>1 DEF AllAccounted
<1> QED BY <1>8, <1>10, <1>13, <1>14, <1>15 DEF TutorSeedingInv

\* The owner removes the avatar.
LEMMA RemoveAvatarKeeps ==
  ASSUME TutorSeedingInv, NEW a \in AccountIds, RemoveAvatar(a) PROVE TutorSeedingInv'
<1>1. /\ tutors[a].avatar # NoObject /\ WithoutAvatar(a)
      /\ UNCHANGED <<accounts, stored, objects, seeding, photo, undone, committed>>
  BY DEF RemoveAvatar
<1>2. tutors[a].exists
  BY <1>1, SeedNulls DEF TutorSeedingInv, PeopleStand
<1>3. photo' \in [Photos -> PhotoStates] /\ PhotosInOrder'
  BY <1>1 DEF TutorSeedingInv, SeedKinds, PhotosInOrder
<1> QED BY <1>1, <1>2, <1>3, WithoutAvatarKeeps

\* An upload removes the avatar there was.
LEMMA StartPhotoKeeps ==
  ASSUME TutorSeedingInv, NEW p \in Photos, NEW a \in AccountIds, StartPhoto(p, a)
  PROVE  TutorSeedingInv'
<1> DEFINE state == [NoPhoto EXCEPT !.step = "store", !.account = a]
<1>1. /\ photo[p].step = "idle" /\ WithoutAvatar(a) /\ photo' = [photo EXCEPT ![p] = state]
      /\ UNCHANGED <<accounts, stored, objects, seeding, undone, committed>>
  BY DEF StartPhoto, Photo
<1>2. /\ state \in PhotoStates /\ state.step = "store" /\ state.account = a
      /\ state.object = NoObject
  BY DEF NoPhoto, PhotoStates
<1> HIDE DEF state
<1>3. photo' \in [Photos -> PhotoStates]
  BY <1>1, <1>2 DEF TutorSeedingInv, SeedKinds
<1>4. photo'[p] = state /\ \A q \in Photos \ {p} : photo'[q] = photo[q]
  BY <1>1 DEF TutorSeedingInv, SeedKinds
<1>5. photo[p].object = NoObject
  BY <1>1 DEF TutorSeedingInv, PhotosInOrder
<1>6. tutors[a].exists
  BY <1>1, SeedNulls DEF TutorSeedingInv, PeopleStand, WithoutAvatar
<1>7. PhotosInOrder'
  BY <1>2, <1>4 DEF TutorSeedingInv, PhotosInOrder
<1>8. \A q \in Photos : photo'[q].object = photo[q].object
  BY <1>2, <1>4, <1>5
<1> QED BY <1>1, <1>3, <1>6, <1>7, <1>8, WithoutAvatarKeeps


\* The new avatar's object is in the upload's hands.
LEMMA StorePhotoKeeps ==
  ASSUME TutorSeedingInv, NEW p \in Photos, StorePhoto(p)
  PROVE  TutorSeedingInv'
<1> DEFINE n == objects + 1
           state == [photo[p] EXCEPT !.step = "insert", !.object = n]
<1>1. /\ photo[p].step = "store" /\ objects < MaxObjects /\ objects' = n
      /\ stored' = stored \cup {n} /\ photo' = [photo EXCEPT ![p] = state]
      /\ UNCHANGED <<tutors, accounts, awaited, seeding, undone, stranded, committed>>
  BY DEF StorePhoto, Photo
<1>2. /\ SeedKinds /\ HandsApart /\ AvatarsKept /\ AllAccounted /\ PhotosInOrder
  BY DEF TutorSeedingInv
<1>3. /\ n \in ObjectIds /\ n # NoObject /\ n \notin stored
      /\ n \notin awaited /\ n \in 0..MaxObjects
      /\ stored \cup {n} \subseteq 1..n
      /\ awaited \subseteq stored \cup {n} /\ stranded \subseteq 1..n
  BY <1>1, <1>2, NewObject
<1> HIDE DEF n
<1>4. photo[p] \in PhotoStates
  BY <1>2, SeedFields
<1>5. /\ state \in PhotoStates /\ state.step = "insert" /\ state.object = n
      /\ state.account = photo[p].account
  BY <1>3, <1>4 DEF PhotoStates
<1> HIDE DEF state
<1>6. photo'[p] = state /\ \A q \in Photos \ {p} : photo'[q] = photo[q]
  BY <1>1, <1>2 DEF SeedKinds
<1>7. photo[p].object = NoObject /\ photo[p].account \in AccountIds
  BY <1>1, <1>2 DEF PhotosInOrder
<1>8. SeedKinds'
  <2>1. photo' \in [Photos -> PhotoStates]
    BY <1>1, <1>2, <1>5 DEF SeedKinds
  <2> QED BY <1>1, <1>2, <1>3, <2>1 DEF SeedKinds
<1>9. PeopleStand' /\ Restored'
  BY <1>1 DEF TutorSeedingInv, PeopleStand, Restored, Seekable
<1>10. RunInOrder'
  BY <1>1 DEF TutorSeedingInv, RunInOrder, Seekable
<1>11. PhotosInOrder'
  BY <1>2, <1>3, <1>5, <1>6, <1>7 DEF PhotosInOrder
<1>12. \A q \in Photos : photo'[q].object # NoObject =>
         \/ q = p /\ photo'[q].object = n
         \/ q # p /\ photo'[q].object = photo[q].object /\ photo[q].object \in stored \ awaited
  BY <1>2, <1>5, <1>6 DEF HandsApart
<1>13. seeding.object # NoObject => seeding.object \in stored \ awaited
  BY <1>2 DEF HandsApart
<1>14. \A a \in AccountIds : tutors[a].avatar # NoObject => tutors[a].avatar \in stored \ awaited
  BY <1>2 DEF AvatarsKept
<1>15. HandsApart'
  <2>1. ASSUME NEW q \in Photos, photo'[q].object # NoObject
        PROVE  /\ photo'[q].object \in stored' \ awaited'
               /\ photo'[q].object # seeding'.object
               /\ \A a \in AccountIds : photo'[q].object # tutors'[a].avatar
    <3>1. CASE q = p
      BY <1>1, <1>3, <1>12, <1>13, <1>14, <2>1, <3>1
    <3>2. CASE q # p
      BY <1>1, <1>2, <1>12, <2>1, <3>2 DEF HandsApart
    <3> QED BY <3>1, <3>2
  <2>2. ASSUME NEW q \in Photos, NEW r \in Photos, photo'[q].object # NoObject,
               photo'[q].object = photo'[r].object
        PROVE  q = r
    BY <1>2, <1>3, <1>12, <2>2 DEF HandsApart
  <2>3. seeding'.object # NoObject =>
          /\ seeding'.object \in stored' \ awaited'
          /\ \A a \in AccountIds : seeding'.object # tutors'[a].avatar
    BY <1>1, <1>2 DEF HandsApart
  <2> QED BY <2>1, <2>2, <2>3 DEF HandsApart
<1>16. AvatarsKept'
  BY <1>1, <1>2 DEF AvatarsKept
<1>17. AllAccounted'
  <2>1. ASSUME NEW o \in stored' \ (awaited' \cup stranded')
        PROVE  \/ o = seeding.object
               \/ \E a \in AccountIds : o = tutors[a].avatar
               \/ \E q \in Photos : o = photo'[q].object
    <3>1. CASE o = n
      BY <1>5, <1>6, <3>1
    <3>2. CASE o \in stored
      <4>1. o # NoObject
        BY <1>2, <3>2 DEF SeedKinds, NoObject
      <4>2. ASSUME NEW q \in Photos, o = photo[q].object PROVE o = photo'[q].object
        BY <1>6, <1>7, <4>1, <4>2
      <4> QED BY <1>1, <1>2, <2>1, <3>2, <4>2 DEF AllAccounted
    <3> QED BY <1>1, <2>1, <3>1, <3>2
  <2> QED BY <1>1, <2>1 DEF AllAccounted
<1> QED BY <1>8, <1>9, <1>10, <1>11, <1>15, <1>16, <1>17 DEF TutorSeedingInv

\* An upload ends: its object becomes the avatar, or is left behind.
LEMMA PhotoEnds ==
  ASSUME TutorSeedingInv, NEW p \in Photos, photo' = [photo EXCEPT ![p] = NoPhoto]
  PROVE  /\ photo' \in [Photos -> PhotoStates] /\ PhotosInOrder'
         /\ photo'[p] = NoPhoto /\ \A q \in Photos \ {p} : photo'[q] = photo[q]
         /\ photo'[p].object = NoObject
<1>1. photo'[p] = NoPhoto /\ \A q \in Photos \ {p} : photo'[q] = photo[q]
  BY DEF TutorSeedingInv, SeedKinds
<1>2. photo' \in [Photos -> PhotoStates]
  BY SeedNulls DEF TutorSeedingInv, SeedKinds
<1>3. PhotosInOrder'
  BY <1>1, SeedNulls DEF TutorSeedingInv, PhotosInOrder
<1> QED BY <1>1, <1>2, <1>3, SeedNulls

\* The object of an upload that fails is left behind.
LEMMA PhotoFails ==
  ASSUME TutorSeedingInv, NEW p \in Photos, photo' = [photo EXCEPT ![p] = NoPhoto],
         stranded' = stranded \cup ({photo[p].object} \ {NoObject}),
         UNCHANGED <<tutors, accounts, stored, objects, awaited, seeding, undone, committed>>
  PROVE  TutorSeedingInv'
<1>1. /\ photo' \in [Photos -> PhotoStates] /\ PhotosInOrder'
      /\ \A q \in Photos \ {p} : photo'[q] = photo[q]
      /\ photo'[p].object = NoObject
  BY PhotoEnds
<1>2. photo[p].object # NoObject => photo[p].object \in stored
  BY DEF TutorSeedingInv, HandsApart
<1>3. SeedKinds'
  BY <1>1, <1>2 DEF TutorSeedingInv, SeedKinds
<1>4. PeopleStand' /\ Restored'
  BY DEF TutorSeedingInv, PeopleStand, Restored, Seekable
<1>5. RunInOrder'
  BY DEF TutorSeedingInv, RunInOrder, Seekable
<1>6. HandsApart'
  BY <1>1 DEF TutorSeedingInv, HandsApart
<1>7. AvatarsKept'
  BY DEF TutorSeedingInv, AvatarsKept
<1>8. AllAccounted'
  <2>1. ASSUME NEW o \in stored \ (awaited \cup stranded')
        PROVE  \/ o = seeding.object
               \/ \E a \in AccountIds : o = tutors[a].avatar
               \/ \E q \in Photos : o = photo'[q].object
    <3>1. o # NoObject /\ o \notin stranded /\ o # photo[p].object
      BY <2>1 DEF TutorSeedingInv, SeedKinds, NoObject
    <3>2. ASSUME NEW q \in Photos, o = photo[q].object PROVE o = photo'[q].object
      BY <1>1, <3>1, <3>2
    <3> QED BY <2>1, <3>1, <3>2 DEF TutorSeedingInv, AllAccounted
  <2> QED BY <2>1 DEF AllAccounted
<1> QED BY <1>1, <1>3, <1>4, <1>5, <1>6, <1>7, <1>8 DEF TutorSeedingInv

\* The process of an upload dies.
LEMMA DropPhotoKeeps ==
  ASSUME TutorSeedingInv, NEW p \in Photos, DropPhoto(p)
  PROVE  TutorSeedingInv'
BY PhotoFails DEF DropPhoto, Photo

\* The row of the new avatar is inserted, or refused beside another.
LEMMA InsertPhotoKeeps ==
  ASSUME TutorSeedingInv, NEW p \in Photos, InsertPhoto(p) PROVE TutorSeedingInv'
<1> DEFINE a == photo[p].account
           n == photo[p].object
           acct == [tutors[a] EXCEPT !.avatar = n]
<1>1. /\ photo[p].step = "insert" /\ ~Locked(a) /\ photo' = [photo EXCEPT ![p] = NoPhoto]
      /\ \/ /\ tutors[a].exists /\ tutors[a].avatar = NoObject
            /\ tutors' = [tutors EXCEPT ![a].avatar = n] /\ UNCHANGED stranded
         \/ stranded' = stranded \cup {n} /\ UNCHANGED tutors
      /\ UNCHANGED <<accounts, stored, objects, awaited, seeding, undone, committed>>
  BY DEF InsertPhoto, Photo
<1>2. /\ SeedKinds /\ HandsApart /\ AvatarsKept /\ AllAccounted
  BY DEF TutorSeedingInv
<1>3. n # NoObject /\ n \in ObjectIds /\ a \in AccountIds
  BY <1>1, <1>2, SeedFields DEF TutorSeedingInv, PhotosInOrder
<1>4. CASE stranded' = stranded \cup {n} /\ UNCHANGED tutors
  <2>1. stranded' = stranded \cup ({n} \ {NoObject})
    BY <1>3, <1>4
  <2> QED BY <1>1, <1>4, <2>1, PhotoFails
<1>5. CASE /\ tutors[a].exists /\ tutors[a].avatar = NoObject
           /\ tutors' = [tutors EXCEPT ![a].avatar = n] /\ UNCHANGED stranded
  <2>1. tutors' = [tutors EXCEPT ![a] = acct]
    BY <1>5
  <2>2. tutors[a] \in TutorAccounts /\ tutors[a].mail \in BOOLEAN /\ tutors[a].role \in BOOLEAN
    BY <1>2, <1>3, SeedFields
  <2>3. /\ acct \in TutorAccounts /\ acct.exists /\ acct.avatar = n
        /\ acct.detail = tutors[a].detail
    BY <1>3, <1>5, <2>2 DEF TutorAccounts
  <2>4. acct.mail = tutors[a].mail /\ acct.role = tutors[a].role
    BY <2>2 DEF TutorAccounts
  <2>5. /\ photo' \in [Photos -> PhotoStates] /\ PhotosInOrder'
        /\ \A q \in Photos \ {p} : photo'[q] = photo[q]
        /\ photo'[p].object = NoObject
    BY <1>1, PhotoEnds
  <2>6. /\ n \in stored \ awaited /\ n # seeding.object
        /\ \A b \in AccountIds : n # tutors[b].avatar
        /\ \A q \in Photos : n = photo[q].object => p = q
    BY <1>2, <1>3 DEF HandsApart
  <2>7. ~Frozen(a)
    BY <1>1 DEF Locked
  <2>8. PeopleStand' /\ Restored' /\ RunInOrder'
    <3> HIDE DEF acct
    <3>1. ASSUME NEW b \in AccountIds, b = a PROVE PeopleStand' /\ Restored' /\ RunInOrder'
      BY <1>1, <1>5, <2>1, <2>3, <2>4, <2>7, <3>1, OneAccountChanges
    <3> QED BY <1>3, <3>1
  <2>9. tutors'[a].avatar = n /\ \A b \in AccountIds \ {a} : tutors'[b] = tutors[b]
    BY <1>2, <1>3, <2>1, <2>3 DEF SeedKinds
  <2>10. SeedKinds'
    <3>1. tutors' \in [AccountIds -> TutorAccounts]
      BY <1>2, <2>1, <2>3 DEF SeedKinds
    <3> QED BY <1>1, <1>2, <1>5, <2>5, <3>1 DEF SeedKinds
  <2> HIDE DEF a, n, acct
  <2>11. HandsApart'
    <3>1. ASSUME NEW q \in Photos, photo'[q].object # NoObject
          PROVE  /\ photo'[q].object \in stored' \ awaited'
                 /\ photo'[q].object # seeding'.object
                 /\ \A b \in AccountIds : photo'[q].object # tutors'[b].avatar
                 /\ \A r \in Photos : photo'[q].object = photo'[r].object => q = r
      <4>1. q # p /\ photo'[q] = photo[q] /\ photo[q].object # n
        BY <2>5, <2>6, <3>1
      <4>2. /\ photo[q].object \in stored \ awaited /\ photo[q].object # seeding.object
            /\ \A b \in AccountIds : photo[q].object # tutors[b].avatar
            /\ \A r \in Photos : photo[q].object = photo[r].object => q = r
        BY <1>2, <3>1, <4>1 DEF HandsApart
      <4>3. \A r \in Photos : photo'[q].object = photo'[r].object => q = r
        BY <2>5, <3>1, <4>1, <4>2
      <4>4. \A b \in AccountIds : photo'[q].object # tutors'[b].avatar
        BY <2>9, <4>1, <4>2
      <4> QED BY <1>1, <4>1, <4>2, <4>3, <4>4
    <3>2. seeding'.object # NoObject =>
            /\ seeding'.object \in stored' \ awaited'
            /\ \A b \in AccountIds : seeding'.object # tutors'[b].avatar
      BY <1>1, <1>2, <2>6, <2>9 DEF HandsApart
    <3> QED BY <3>1, <3>2 DEF HandsApart
  <2>12. AvatarsKept'
    <3>1. ASSUME NEW b \in AccountIds, tutors'[b].avatar # NoObject
          PROVE  tutors'[b].avatar \in stored \ awaited
      BY <1>2, <2>6, <2>9, <3>1 DEF AvatarsKept
    <3>2. ASSUME NEW b \in AccountIds, NEW c \in AccountIds, tutors'[b].avatar # NoObject,
                 tutors'[b].avatar = tutors'[c].avatar
          PROVE  b = c
      BY <1>2, <2>6, <2>9, <3>2 DEF AvatarsKept
    <3> QED BY <1>1, <3>1, <3>2 DEF AvatarsKept
  <2>13. AllAccounted'
    <3>1. ASSUME NEW o \in stored \ (awaited \cup stranded)
          PROVE  \/ o = seeding.object
                 \/ \E b \in AccountIds : o = tutors'[b].avatar
                 \/ \E q \in Photos : o = photo'[q].object
      <4>1. o # NoObject
        BY <1>2, <3>1 DEF SeedKinds, NoObject
      <4>2. ASSUME NEW b \in AccountIds, o = tutors[b].avatar PROVE o = tutors'[b].avatar
        BY <1>5, <2>9, <4>1, <4>2
      <4>3. ASSUME NEW q \in Photos, o = photo[q].object
            PROVE  o = photo'[q].object \/ o = tutors'[a].avatar
        BY <2>5, <2>9, <4>3 DEF n
      <4> QED BY <1>2, <1>3, <3>1, <4>2, <4>3 DEF AllAccounted
    <3> QED BY <1>1, <1>5, <3>1 DEF AllAccounted
  <2> QED BY <2>5, <2>8, <2>10, <2>11, <2>12, <2>13 DEF TutorSeedingInv
<1> QED BY <1>1, <1>4, <1>5

\* The cleanup deletes an object that is nobody's.
LEMMA CleanAvatarKeeps == ASSUME TutorSeedingInv, CleanAvatar PROVE TutorSeedingInv'
<1>1. PICK o \in awaited : awaited' = awaited \ {o} /\ stored' = stored \ {o}
  BY DEF CleanAvatar
<1>2. UNCHANGED <<tutors, accounts, objects, seeding, photo, undone, stranded, committed>>
  BY DEF CleanAvatar
<1>3. SeedKinds'
  BY <1>1, <1>2 DEF TutorSeedingInv, SeedKinds
<1>4. PeopleStand' /\ Restored' /\ PhotosInOrder'
  BY <1>2 DEF TutorSeedingInv, PeopleStand, Restored, PhotosInOrder, Seekable
<1>5. RunInOrder'
  BY <1>2 DEF TutorSeedingInv, RunInOrder, Seekable
<1>6. stored' \ awaited' = stored \ awaited
  BY <1>1 DEF TutorSeedingInv, SeedKinds
<1>7. HandsApart'
  BY <1>2, <1>6 DEF TutorSeedingInv, HandsApart
<1>8. AvatarsKept'
  BY <1>2, <1>6 DEF TutorSeedingInv, AvatarsKept
<1>9. AllAccounted'
  BY <1>1, <1>2 DEF TutorSeedingInv, AllAccounted
<1> QED BY <1>3, <1>4, <1>5, <1>7, <1>8, <1>9 DEF TutorSeedingInv

\* Every step around the seeded tutor keeps the invariant.
LEMMA TutorSeedingNextHolds ==
  TutorSeedingInv /\ [TutorSeedingNext]_tutorSeedingVars => TutorSeedingInv'
<1> SUFFICES ASSUME TutorSeedingInv, [TutorSeedingNext]_tutorSeedingVars PROVE TutorSeedingInv'
  OBVIOUS
<1>1. CASE UNCHANGED tutorSeedingVars
  <2>1. UNCHANGED <<tutors, accounts, stored, objects, awaited, seeding, photo, undone, stranded,
                    committed>>
    BY <1>1 DEF tutorSeedingVars
  <2>2. SeedKinds' /\ PeopleStand' /\ Restored' /\ PhotosInOrder'
    BY <2>1 DEF TutorSeedingInv, SeedKinds, PeopleStand, Restored, PhotosInOrder, Seekable
  <2>3. RunInOrder'
    BY <2>1 DEF TutorSeedingInv, RunInOrder, Seekable
  <2>4. HandsApart' /\ AvatarsKept' /\ AllAccounted'
    BY <2>1, ObjectsUntouched
  <2> QED BY <2>2, <2>3, <2>4 DEF TutorSeedingInv
<1>2. CASE RunNext
  BY <1>2, StartRunKeeps, DropTutorKeeps, GetOrCreateUserKeeps, UpsertDetailKeeps,
     StoreSeedAvatarKeeps, CommitRunKeeps, AbortRunKeeps, DeleteEverybodyKeeps DEF RunNext
<1>3. CASE CreateByHand \/ CleanAvatar
  BY <1>3, CreateByHandKeeps, CleanAvatarKeeps
<1>4. CASE \E a \in AccountIds : Leave(a) \/ Hide(a) \/ Judge(a) \/ Refer(a) \/ RemoveAvatar(a)
  BY <1>4, LeaveKeeps, HideKeeps, JudgeKeeps, ReferKeeps, RemoveAvatarKeeps
<1>5. CASE \E p \in Photos : \/ \E a \in AccountIds : StartPhoto(p, a)
                             \/ StorePhoto(p) \/ InsertPhoto(p) \/ DropPhoto(p)
  BY <1>5, StartPhotoKeeps, StorePhotoKeeps, InsertPhotoKeeps, DropPhotoKeeps
<1> QED BY <1>1, <1>2, <1>3, <1>4, <1>5 DEF TutorSeedingNext

\* The invariant says what is promised.
LEMMA TutorSeedingInvIsSound == TutorSeedingInv => TutorSeedingSound
<1> SUFFICES ASSUME TutorSeedingInv PROVE TutorSeedingSound
  OBVIOUS
<1>1. TutorSeedingTypeOK
  <2>1. Cardinality(WithMail) <= 1
    <3>1. CASE WithMail = {}
      BY <3>1, FS_EmptySet
    <3>2. CASE WithMail # {}
      <4>1. PICK a \in AccountIds : Seekable(a)
        BY <3>2, WithMailIs
      <4>2. \A b \in AccountIds : Seekable(b) => b = a
        BY <4>1 DEF TutorSeedingInv, PeopleStand
      <4>3. WithMail = {a}
        BY <4>1, <4>2, WithMailIs
      <4> QED BY <4>3, FS_Singleton
    <3> QED BY <3>1, <3>2
  <2> QED BY <2>1 DEF TutorSeedingInv, SeedKinds, TutorSeedingTypeOK
<1>2. AvatarsStand
  BY DEF TutorSeedingInv, AvatarsKept, AvatarsStand, Avatars
<1>3. ObjectsAccounted
  <2>1. ASSUME NEW o \in stored PROVE o \in Avatars \cup InHand \cup awaited \cup stranded
    <3>1. o # NoObject
      BY <2>1 DEF TutorSeedingInv, SeedKinds, NoObject
    <3> QED BY <2>1, <3>1 DEF TutorSeedingInv, AllAccounted, Avatars, InHand
  <2> QED BY <2>1 DEF ObjectsAccounted
<1>4. TutorSeeded
  BY WithMailIs DEF TutorSeedingInv, Restored, TutorSeeded
<1> QED BY <1>1, <1>2, <1>3, <1>4 DEF TutorSeedingSound

\* However runs of seed_tutors, uploads, cleanups and people interleave, the seeded tutors keep
\* their word.
THEOREM TutorSeedingKeepsItsWord == TutorSeedingSpec => []TutorSeedingSound
BY TutorSeedingInitHolds, TutorSeedingNextHolds, TutorSeedingInvIsSound, PTL DEF TutorSeedingSpec

(***************************************************************************)
(* The run's specification.  A step is one of the part at work, and the    *)
(* others rest: every behaviour of the run is one of each component.       *)
(***************************************************************************)
\* A step of the run is a step of each component, or leaves it as it is.
LEMMA PartsAtWork ==
  ASSUME [AccountsNext]_AccountsVars
  PROVE  /\ [CodesNext]_codesVars
         /\ [SessionsNext]_sessionsVars
         /\ [RegistrationsNext]_registrationsVars
         /\ [DevicesNext]_devicesVars
         /\ [ReadFlagsNext]_readFlagsVars
         /\ [ScreeningNext]_screeningVars
         /\ [TutorSeedingNext]_tutorSeedingVars
         /\ [ThrottlesNext]_throttlesVars
         /\ [MailsNext]_mailsVars
         /\ [FavoritesNext]_favoritesVars
         /\ [SuggestionsNext]_suggestionsVars
<1>1. CASE AccountsNext
  BY <1>1 DEF AccountsNext
<1>2. CASE UNCHANGED AccountsVars
  BY <1>2 DEF AccountsVars
<1> QED BY <1>1, <1>2

\* Sessions: what the run checks of sign-in holds for all accounts, passwords and tokens.
THEOREM SignInKept == AccountsSpec => []SignInSound
<1>1. AccountsInit => SessionsInit
  BY DEF AccountsInit
<1>2. [AccountsNext]_AccountsVars => [SessionsNext]_sessionsVars
  BY PartsAtWork
<1>3. SessionsSound => SignInSound
  BY DEF SignInSound
<1> QED BY <1>1, <1>2, <1>3, SessionsKeepTheirWord, PTL DEF AccountsSpec, SessionsSpec

\* Devices, read flags, favorites and suggestions: what the run checks of an account's own rows
\* holds for all of them.
THEOREM OwnRowsKept == AccountsSpec => []OwnRowsSound
<1>1. AccountsInit => DevicesInit /\ ReadFlagsInit /\ FavoritesInit /\ SuggestionsInit
  BY DEF AccountsInit
<1>2. [AccountsNext]_AccountsVars =>
        /\ [DevicesNext]_devicesVars
        /\ [ReadFlagsNext]_readFlagsVars
        /\ [FavoritesNext]_favoritesVars
        /\ [SuggestionsNext]_suggestionsVars
  BY PartsAtWork
<1>3. DevicesSound /\ StampedOnce /\ FavoritesSound /\ SuggestionsSound => OwnRowsSound
  BY DEF OwnRowsSound
<1>4. AccountsSpec => DevicesSpec /\ ReadFlagsSpec /\ FavoritesSpec /\ SuggestionsSpec
  BY <1>1, <1>2, PTL DEF AccountsSpec, DevicesSpec, ReadFlagsSpec, FavoritesSpec, SuggestionsSpec
<1> QED BY <1>3, <1>4, DevicesKeepTheirWord, ReadFlagsKeepTheirWord, FavoritesKeepTheirWord,
           SuggestionsKeepTheirWord, PTL

\* Screening: what the run checks of a CV holds for all requests, workers and deliveries.
THEOREM CvKept == AccountsSpec => []CvSound
<1>1. AccountsInit => ScreeningInit
  BY DEF AccountsInit
<1>2. [AccountsNext]_AccountsVars => [ScreeningNext]_screeningVars
  BY PartsAtWork
<1>3. ScreeningSound => CvSound
  BY DEF CvSound
<1> QED BY <1>1, <1>2, <1>3, ScreeningKeepsItsWord, PTL DEF AccountsSpec, ScreeningSpec

\* Registrations, throttles and mails: what the run checks of access holds for all addresses,
\* callers and deliveries.
THEOREM AccessKept == AccountsSpec => []AccessSound
<1>1. AccountsInit => RegistrationsInit /\ ThrottlesInit /\ MailsInit
  BY DEF AccountsInit
<1>2. [AccountsNext]_AccountsVars =>
        /\ [RegistrationsNext]_registrationsVars
        /\ [ThrottlesNext]_throttlesVars
        /\ [MailsNext]_mailsVars
  BY PartsAtWork
<1>3. AddressesSound /\ ThrottlesSound /\ MailsSound => AccessSound
  BY DEF AccessSound
<1>4. AccountsSpec => RegistrationsSpec /\ ThrottlesSpec /\ MailsSpec
  BY <1>1, <1>2, PTL DEF AccountsSpec, RegistrationsSpec, ThrottlesSpec, MailsSpec
<1> QED BY <1>3, <1>4, AddressesKeepTheirWord, ThrottlesKeepTheirWord, MailsKeepTheirWord, PTL

\* TutorSeeding: what the run checks of the seeded tutors holds for all accounts, objects and
\* uploads.
THEOREM SeededTutorsKept == AccountsSpec => []SeededTutorsSound
<1>1. AccountsInit => TutorSeedingInit
  BY DEF AccountsInit
<1>2. [AccountsNext]_AccountsVars => [TutorSeedingNext]_tutorSeedingVars
  BY PartsAtWork
<1>3. TutorSeedingSound => SeededTutorsSound
  BY DEF SeededTutorsSound
<1> QED BY <1>1, <1>2, <1>3, TutorSeedingKeepsItsWord, PTL DEF AccountsSpec, TutorSeedingSpec

=============================================================================
