----------------------------- MODULE MCAccounts -----------------------------
(***************************************************************************)
(* Small instances around an account.  The parts share no variable; a      *)
(* behaviour is one of one part while the others rest, so the run checks   *)
(* them one beside the other.                                              *)
(***************************************************************************)
EXTENDS OneTimeCodes, Sessions, Registrations, Devices, ReadFlags, Screening,
        TutorSeeding, Throttles, Mails, Favorites, Suggestions, TLC

VARIABLE part

AccountsInit ==
  /\ CodesInit
  /\ SessionsInit
  /\ RegistrationsInit
  /\ DevicesInit
  /\ ReadFlagsInit
  /\ ScreeningInit
  /\ TutorSeedingInit
  /\ ThrottlesInit
  /\ MailsInit
  /\ FavoritesInit
  /\ SuggestionsInit
  /\ part \in {"codes", "sessions", "registrations", "devices", "flags", "screening", "tutors",
               "throttles", "mails", "favorites", "suggestions"}

AccountsNext ==
  /\ \/ part = "codes" /\ CodesNext
     \/ part = "sessions" /\ SessionsNext
     \/ part = "registrations" /\ RegistrationsNext
     \/ part = "devices" /\ DevicesNext
     \/ part = "flags" /\ ReadFlagsNext
     \/ part = "screening" /\ ScreeningNext
     \/ part = "tutors" /\ TutorSeedingNext
     \/ part = "throttles" /\ ThrottlesNext
     \/ part = "mails" /\ MailsNext
     \/ part = "favorites" /\ FavoritesNext
     \/ part = "suggestions" /\ SuggestionsNext
  /\ part # "codes" => UNCHANGED codesVars
  /\ part # "sessions" => UNCHANGED sessionsVars
  /\ part # "registrations" => UNCHANGED registrationsVars
  /\ part # "devices" => UNCHANGED devicesVars
  /\ part # "flags" => UNCHANGED readFlagsVars
  /\ part # "screening" => UNCHANGED screeningVars
  /\ part # "tutors" => UNCHANGED tutorSeedingVars
  /\ part # "throttles" => UNCHANGED throttlesVars
  /\ part # "mails" => UNCHANGED mailsVars
  /\ part # "favorites" => UNCHANGED favoritesVars
  /\ part # "suggestions" => UNCHANGED suggestionsVars
  /\ UNCHANGED part

AccountsVars ==
  <<codesVars, sessionsVars, registrationsVars, devicesVars, readFlagsVars, screeningVars,
    tutorSeedingVars, throttlesVars, mailsVars, favoritesVars, suggestionsVars, part>>

AccountsSpec == AccountsInit /\ [][AccountsNext]_AccountsVars

\* The resting parts are as they were at first: they need not be told apart.
PartAtWork ==
  <<part,
    CASE part = "codes" -> codesVars
      [] part = "sessions" -> sessionsVars
      [] part = "registrations" -> registrationsVars
      [] part = "devices" -> devicesVars
      [] part = "flags" -> readFlagsVars
      [] part = "screening" -> screeningVars
      [] part = "tutors" -> tutorSeedingVars
      [] part = "throttles" -> throttlesVars
      [] part = "mails" -> mailsVars
      [] part = "favorites" -> favoritesVars
      [] part = "suggestions" -> suggestionsVars>>

\* The rows of an account's own, devices, read flags, favorites and suggestions, keep what their
\* modules promise.
OwnRowsSound ==
  /\ part = "devices" => DevicesSound
  /\ part = "flags" => StampedOnce
  /\ part = "favorites" => FavoritesSound
  /\ part = "suggestions" => SuggestionsSound

\* Password, tokens and roles of an account keep what their module promises.
SignInSound == part = "sessions" => SessionsSound

\* The screening of a CV keeps what its module promises.
CvSound == part = "screening" => ScreeningSound

\* The seeded tutors keep what their module promises.
SeededTutorsSound == part = "tutors" => TutorSeedingSound

\* Addresses, the budgets of calls and the mails to an address keep what their modules promise.
AccessSound ==
  /\ part = "registrations" => AddressesSound
  /\ part = "throttles" => ThrottlesSound
  /\ part = "mails" => MailsSound
=============================================================================
