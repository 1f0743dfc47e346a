---------------------------- MODULE Suggestions ----------------------------
(***************************************************************************)
(* A family's suggestion of a service (apps/suggestions) and what the      *)
(* admins make of it: a bulk action sets the status in one statement, the  *)
(* form posts the status and the notes that its page displayed, or what    *)
(* the admin has put there, minutes after the page was opened.             *)
(***************************************************************************)
EXTENDS Integers

CONSTANTS
  Suggesters,     \* families
  Desks,          \* pages of the form that can be open at the same time
  MaxRemarks      \* bound: notes written; they are numbered

ASSUME SuggestionsAssumption == MaxRemarks \in Nat

VARIABLES
  suggesters,     \* accounts that exist
  suggestion,     \* the row
  desk,           \* [Desks -> what the page displays]
  remarks,        \* notes written so far
  resolved,       \* history: the status chosen last
  remarked,       \* history: the notes written last
  pastedOver      \* history: a page older than the row was submitted

suggestionsVars == <<suggesters, suggestion, desk, remarks, resolved, remarked, pastedOver>>

SuggestionStatus == {"NEW", "REVIEWED", "ACTED_ON", "DISMISSED"}
Suggested == [family: Suggesters, status: SuggestionStatus, notes: 0..MaxRemarks]
NoSuggestion == [status |-> "NONE"]
NoDesk == NoSuggestion

SuggestionsInit ==
  /\ suggesters = Suggesters
  /\ suggestion = NoSuggestion
  /\ desk = [d \in Desks |-> NoDesk]
  /\ remarks = 0
  /\ resolved = "NEW" /\ remarked = 0 /\ pastedOver = FALSE

\* POST: status and notes are not taken from the body.
Suggest(f) ==
  /\ suggestion = NoSuggestion
  /\ f \in suggesters
  /\ suggestion' = [family |-> f, status |-> "NEW", notes |-> 0]
  /\ resolved' = "NEW" /\ remarked' = 0
  /\ UNCHANGED <<suggesters, desk, remarks, pastedOver>>

\* Mutation: the rows are loaded, changed and saved whole, without their notes.
MarkedRow(s) == [suggestion EXCEPT !.status = s, !.notes = 0]

Marked(s) == [suggestion EXCEPT !.status = s]

\* mark_reviewed, mark_acted_on, mark_dismissed: queryset.exclude(status=s).update(status=s).
Mark(s) ==
  /\ s # "NEW"
  /\ suggestion # NoSuggestion
  /\ suggestion.status # s
  /\ suggestion' = Marked(s)
  /\ resolved' = s
  /\ UNCHANGED <<suggesters, desk, remarks, remarked, pastedOver>>

OpenDesk(d) ==
  /\ desk[d] = NoDesk
  /\ suggestion # NoSuggestion
  /\ desk' = [desk EXCEPT ![d] = suggestion]
  /\ UNCHANGED <<suggesters, suggestion, remarks, resolved, remarked, pastedOver>>

\* The submission: every other field is read-only and comes from the row as it is.
SaveDesk(d) ==
  /\ desk[d] # NoDesk
  /\ suggestion # NoSuggestion
  /\ \E s \in SuggestionStatus, remark \in BOOLEAN :
       LET notes == IF remark THEN remarks + 1 ELSE desk[d].notes
       IN  /\ notes <= MaxRemarks
           /\ suggestion' = [suggestion EXCEPT !.status = s, !.notes = notes]
           /\ remarks' = IF remark THEN remarks + 1 ELSE remarks
           /\ resolved' = IF s # desk[d].status THEN s ELSE resolved
           /\ remarked' = IF remark THEN notes ELSE remarked
  /\ pastedOver' = (pastedOver \/ desk[d] # suggestion)
  /\ desk' = [desk EXCEPT ![d] = NoDesk]
  /\ UNCHANGED suggesters

\* The admin goes elsewhere.
LeaveDesk(d) ==
  /\ desk[d] # NoDesk
  /\ desk' = [desk EXCEPT ![d] = NoDesk]
  /\ UNCHANGED <<suggesters, suggestion, remarks, resolved, remarked, pastedOver>>

\* The admin site deletes the suggestion; its other pages have nothing left to save.
DropSuggestion ==
  /\ suggestion # NoSuggestion
  /\ suggestion' = NoSuggestion
  /\ desk' = [d \in Desks |-> NoDesk]
  /\ pastedOver' = FALSE
  /\ UNCHANGED <<suggesters, remarks, resolved, remarked>>

\* on_delete=PROTECT: nobody is deleted who has made a suggestion.
RemoveSuggester(f) ==
  /\ f \in suggesters
  /\ suggestion # NoSuggestion => suggestion.family # f
  /\ suggesters' = suggesters \ {f}
  /\ UNCHANGED <<suggestion, desk, remarks, resolved, remarked, pastedOver>>

SuggestionsNext ==
  \/ DropSuggestion
  \/ \E f \in Suggesters : Suggest(f) \/ RemoveSuggester(f)
  \/ \E s \in SuggestionStatus : Mark(s)
  \/ \E d \in Desks : OpenDesk(d) \/ SaveDesk(d) \/ LeaveDesk(d)

SuggestionsSpec == SuggestionsInit /\ [][SuggestionsNext]_suggestionsVars

(***************************************************************************)
(* Properties.                                                             *)
(***************************************************************************)
\* Row and pages are well-formed, and the row's family exists.
SuggestionsTypeOK ==
  /\ suggesters \subseteq Suggesters
  /\ suggestion # NoSuggestion => suggestion \in Suggested /\ suggestion.family \in suggesters
  /\ \A d \in Desks : desk[d] # NoDesk => desk[d] \in Suggested
  /\ remarks \in 0..MaxRemarks

\* The suggestion keeps the status an admin chose last and the notes written last, whatever is
\* done in bulk in between, unless a page was submitted that no longer displayed the row.
LastWordStands ==
  (suggestion # NoSuggestion /\ ~pastedOver) =>
    suggestion.status = resolved /\ suggestion.notes = remarked

\* What the suggestions promise of every state.
SuggestionsSound ==
  /\ SuggestionsTypeOK
  /\ LastWordStands
=============================================================================
