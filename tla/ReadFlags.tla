------------------------------ MODULE ReadFlags ------------------------------
(***************************************************************************)
(* One notification of the feed: read, read-all and the admin's form       *)
(* (apps/notifications/views.py, admin.py).  The form shows every column   *)
(* read-only, yet its submission saves the row it has loaded, whole.       *)
(***************************************************************************)
EXTENDS Integers

CONSTANT MaxReads     \* bound: times at which a notification is marked as read

ASSUME ReadFlagsAssumption == MaxReads \in Nat

VARIABLES
  note,        \* is_read, and read_at as the number of the stamp; 0: null
  stamps,      \* stamps drawn so far
  noteForms,   \* the row as a submission under way has loaded it; {}: none
  savedOver    \* history: a submission has written over a newer row

readFlagsVars == <<note, stamps, noteForms, savedOver>>

Notes == [read: BOOLEAN, at: 0..MaxReads]

ReadFlagsInit ==
  note = [read |-> FALSE, at |-> 0] /\ stamps = 0 /\ noteForms = {} /\ savedOver = FALSE

Unread == ~note.read

\* read and read-all: one UPDATE of the unread ones.
MarkRead ==
  /\ Unread
  /\ stamps < MaxReads
  /\ stamps' = stamps + 1
  /\ note' = [read |-> TRUE, at |-> stamps + 1]
  /\ UNCHANGED <<noteForms, savedOver>>

OpenNoteForm ==
  /\ noteForms = {}
  /\ noteForms' = {note}
  /\ UNCHANGED <<note, stamps, savedOver>>

SaveNoteForm ==
  /\ \E copy \in noteForms :
       /\ note' = copy
       /\ savedOver' = (savedOver \/ copy # note)
  /\ noteForms' = {}
  /\ UNCHANGED stamps

ReadFlagsNext == MarkRead \/ OpenNoteForm \/ SaveNoteForm

ReadFlagsSpec == ReadFlagsInit /\ [][ReadFlagsNext]_readFlagsVars

\* A notification has a read_at exactly when it is read, and the first one stays, however often
\* and wherever it is read: it is unread again, to be stamped anew, only if the admin's form
\* saved an older copy over it.
StampedOnce ==
  /\ note \in Notes
  /\ note.read <=> note.at > 0
  /\ stamps > 1 => savedOver
=============================================================================
