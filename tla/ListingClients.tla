--------------------------- MODULE ListingClients ---------------------------
(***************************************************************************)
(* The request of one client for one listing (ListingClient): made and     *)
(* withdrawn by the client, answered by the listing's owner               *)
(* (apps/catalog/views.py, serializers.py).  The owner's PATCH validates   *)
(* status and comment together on a copy of the row and saves it whole.    *)
(***************************************************************************)
EXTENDS Integers, FiniteSets

CONSTANTS
  Callers,         \* requests that can be under way at the same time
  MaxRows          \* bound: rows ever inserted

ASSUME ClientsAssumption == MaxRows \in Nat

VARIABLES
  client,          \* the row of this client and listing; id = 0: no row
  lastId,          \* ids drawn so far
  call,            \* [Callers -> the request under way]
  outdone,         \* history: a request has written after its reading was out of date
  returned         \* history: a withdrawn row has come back

clientsVars == <<client, lastId, call, outdone, returned>>

ClientStatus == {"PENDING", "ACCEPTED", "REJECTED"}
\* reason: the comment is not blank.
ClientRows == [id: 0..MaxRows, status: ClientStatus, reason: BOOLEAN]
NoClient == [id |-> 0, status |-> "PENDING", reason |-> FALSE]
CallStates == [step: {"idle", "insert", "answer", "withdraw"}, copy: ClientRows, stale: BOOLEAN]
NoCall == [step |-> "idle", copy |-> NoClient, stale |-> FALSE]

ClientsInit ==
  /\ client = NoClient /\ lastId = 0
  /\ call = [c \in Callers |-> NoCall]
  /\ outdone = FALSE /\ returned = FALSE

Call(c, state, changed) ==
  call' = [d \in Callers |->
    IF d = c THEN state
    ELSE IF changed /\ call[d].step # "idle" THEN [call[d] EXCEPT !.stale = TRUE] ELSE call[d]]

Load(c, s) ==
  /\ call[c].step = "idle"
  /\ Call(c, [NoCall EXCEPT !.step = s, !.copy = client], FALSE)
  /\ UNCHANGED <<client, lastId, outdone, returned>>

\* validate_listing finds no request yet.
StartEnrol(c) == client.id = 0 /\ Load(c, "insert")
StartAnswer(c) == client.id # 0 /\ Load(c, "answer")
StartWithdraw(c) == client.id # 0 /\ Load(c, "withdraw")

Put(c, row) ==
  /\ client' = row
  /\ Call(c, NoCall, TRUE)
  /\ outdone' = (outdone \/ call[c].stale)
  /\ returned' = (returned \/ (client.id = 0 /\ row.id <= lastId))

\* perform_create accepts at once; unique_listing_client_per_user refuses a second row.
Enrol(c) ==
  /\ call[c].step = "insert"
  /\ client.id = 0
  /\ lastId < MaxRows
  /\ lastId' = lastId + 1
  /\ Put(c, [id |-> lastId + 1, status |-> "ACCEPTED", reason |-> FALSE])

\* ListingClientOwnerSerializer.validate: the effective status and comment.
AnswerAllowed(row, sent) == row.status = "REJECTED" => row.reason

\* Mutation: only the submitted columns are saved.
AnswerColumns(c, row, sent) ==
  [client EXCEPT !.status = IF "status" \in sent THEN row.status ELSE @,
                 !.reason = IF "comment" \in sent THEN row.reason ELSE @]

Answered(c, row, sent) == row

\* A full save: it inserts the row again if it is gone, and is refused if the client has made
\* a new request in between.
AnswerClient(c) ==
  /\ call[c].step = "answer"
  /\ client.id \in {0, call[c].copy.id}
  /\ \E sent \in SUBSET {"status", "comment"}, st \in ClientStatus, reason \in BOOLEAN :
       LET row == [call[c].copy EXCEPT !.status = IF "status" \in sent THEN st ELSE @,
                                       !.reason = IF "comment" \in sent THEN reason ELSE @]
       IN /\ AnswerAllowed(row, sent)
          /\ Put(c, Answered(c, row, sent))
  /\ UNCHANGED lastId

\* instance.delete(): by id.
Withdraw(c) ==
  /\ call[c].step = "withdraw"
  /\ client' = IF client.id = call[c].copy.id THEN NoClient ELSE client
  /\ Call(c, NoCall, client.id = call[c].copy.id)
  /\ UNCHANGED <<lastId, outdone, returned>>

\* 400, IntegrityError, a killed process.
HangUp(c) ==
  /\ call[c].step # "idle"
  /\ Call(c, NoCall, FALSE)
  /\ UNCHANGED <<client, lastId, outdone, returned>>

ClientsNext ==
  \E c \in Callers :
    \/ StartEnrol(c) \/ StartAnswer(c) \/ StartWithdraw(c)
    \/ Enrol(c) \/ AnswerClient(c) \/ Withdraw(c) \/ HangUp(c)

ClientsSpec == ClientsInit /\ [][ClientsNext]_clientsVars

(***************************************************************************)
(* Properties.                                                             *)
(***************************************************************************)
\* Row and requests are well-formed.
ClientsTypeOK ==
  /\ client \in ClientRows
  /\ lastId \in 0..MaxRows
  /\ call \in [Callers -> CallStates]
  /\ outdone \in BOOLEAN /\ returned \in BOOLEAN

\* A rejected client is told why, whatever partial answers overlap: each validates the pair it
\* will store and stores all of it.
RejectedHasReason == client.id # 0 /\ client.status = "REJECTED" => client.reason

\* A withdrawn request comes back only as the full save of an answer that began before.
OnlyRacesUndoWithdrawal ==
  returned => outdone

\* What a client's request promises of every state.
ClientsSound ==
  /\ ClientsTypeOK
  /\ RejectedHasReason
  /\ OnlyRacesUndoWithdrawal
=============================================================================
