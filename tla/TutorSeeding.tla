---------------------------- MODULE TutorSeeding ----------------------------
(***************************************************************************)
(* seed_tutors, and seed, which calls it: the account, profile and avatar  *)
(* of one seeded tutor (apps/providers/management/commands/seed_tutors.py, *)
(* apps/core/management/commands/seed.py), beside what tutors, families    *)
(* and administrators do to them.  The command is one transaction, the     *)
(* object store is not part of it, and avatars are uploaded and removed    *)
(* in several steps (apps/providers/views.py, services.py).                *)
(***************************************************************************)
EXTENDS Integers, FiniteSets

CONSTANTS
  MaxAccounts,    \* bound: accounts ever created
  MaxObjects,     \* bound: objects ever stored
  Photos          \* uploads that can be under way at the same time

ASSUME TutorSeedingAssumption == MaxAccounts \in Nat /\ MaxObjects \in Nat

VARIABLES
  tutors,         \* [1..MaxAccounts -> account]
  accounts,       \* accounts created so far
  stored,         \* objects in the store
  objects,        \* objects stored so far
  awaited,        \* objects a cleanup task is going to delete
  seeding,        \* the run of seed_tutors under way
  photo,          \* [Photos -> the upload under way]
  undone,         \* history: somebody did what a plain run does not restore
  stranded,       \* history: objects nobody will delete
  committed       \* history: a run has been committed

tutorSeedingVars == <<tutors, accounts, stored, objects, awaited, seeding, photo, undone, stranded, committed>>

AccountIds == 1..MaxAccounts
NoAccount == 0
ObjectIds == 1..MaxObjects
NoObject == 0

\* mail: has the address of the seed; role: TUTOR; kept: an inquiry or a review refers to it.
TutorAccounts == [exists: BOOLEAN, mail: BOOLEAN, role: BOOLEAN, detail: {"none", "ACTIVE", "DELETED"},
                  avatar: ObjectIds \cup {NoObject}, kept: BOOLEAN]
NoTutor == [exists |-> FALSE, mail |-> FALSE, role |-> FALSE, detail |-> "none", avatar |-> NoObject, kept |-> FALSE]
RunSteps == {"idle", "clean", "user", "detail", "avatar", "commit"}
\* draft: the account as the transaction will leave it; dropped: deleted in it; anew: created in it.
Runs == [step: RunSteps, account: AccountIds \cup {NoAccount}, dropped: AccountIds \cup {NoAccount},
         anew: BOOLEAN, object: ObjectIds \cup {NoObject}]
NoRun == [step |-> "idle", account |-> NoAccount, dropped |-> NoAccount, anew |-> FALSE, object |-> NoObject]
PhotoStates == [step: {"idle", "store", "insert"}, account: AccountIds \cup {NoAccount}, object: ObjectIds \cup {NoObject}]
NoPhoto == [step |-> "idle", account |-> NoAccount, object |-> NoObject]

TutorSeedingInit ==
  /\ tutors = [a \in AccountIds |-> NoTutor]
  /\ accounts = 0
  /\ stored = {} /\ objects = 0 /\ awaited = {}
  /\ seeding = NoRun
  /\ photo = [p \in Photos |-> NoPhoto]
  /\ undone = FALSE /\ stranded = {} /\ committed = FALSE

WithMail == {a \in AccountIds : tutors[a].exists /\ tutors[a].mail}
Avatars == {tutors[a].avatar : a \in AccountIds} \ {NoObject}
Run(state) == seeding' = state

\* Deleted, or inserted and not committed.
Frozen(a) == seeding.step # "idle" /\ (a = seeding.dropped \/ (seeding.anew /\ a = seeding.account))

\* The profile's row is locked: nothing updates it or refers to it anew.
Locked(a) == Frozen(a) \/ (a = seeding.account /\ seeding.step \in {"avatar", "commit"})

(***************************************************************************)
(* The command.                                                            *)
(***************************************************************************)
StartRun(clean) ==
  /\ seeding.step = "idle"
  /\ Run([NoRun EXCEPT !.step = IF clean THEN "clean" ELSE "user"])
  /\ UNCHANGED <<tutors, accounts, stored, objects, awaited, photo, undone, stranded, committed>>

\* --clean: the account goes with profile and avatar row, or a ProtectedError ends the run.
DropTutor ==
  /\ seeding.step = "clean"
  /\ IF \E a \in WithMail : tutors[a].kept THEN Run(NoRun)
     ELSE Run([seeding EXCEPT !.step = "user", !.dropped = IF WithMail = {} THEN 0 ELSE CHOOSE a \in WithMail : TRUE])
  /\ UNCHANGED <<tutors, accounts, stored, objects, awaited, photo, undone, stranded, committed>>

\* get_or_create by address.
GetOrCreateUser ==
  /\ seeding.step = "user"
  /\ LET there == WithMail \ {seeding.dropped} IN
     IF there = {}
     THEN /\ accounts < MaxAccounts
          /\ accounts' = accounts + 1
          /\ Run([seeding EXCEPT !.step = "detail", !.account = accounts + 1, !.anew = TRUE])
     ELSE /\ Run([seeding EXCEPT !.step = "detail", !.account = CHOOSE a \in there : TRUE])
          /\ UNCHANGED accounts
  /\ UNCHANGED <<tutors, stored, objects, awaited, photo, undone, stranded, committed>>

\* update_or_create locks the profile; neither deleted_at nor status is among its defaults.
UpsertDetail ==
  /\ seeding.step = "detail"
  /\ Run([seeding EXCEPT !.step = "avatar"])
  /\ UNCHANGED <<tutors, accounts, stored, objects, awaited, photo, undone, stranded, committed>>

LacksAvatar(a) == tutors[a].avatar = NoObject

\* _seed_avatar: one that is there stays, and none that cannot be fetched is missed.
StoreSeedAvatar ==
  /\ seeding.step = "avatar"
  /\ \/ /\ seeding.anew \/ LacksAvatar(seeding.account)
        /\ objects < MaxObjects
        /\ objects' = objects + 1 /\ stored' = stored \cup {objects + 1}
        /\ Run([seeding EXCEPT !.step = "commit", !.object = objects + 1])
     \/ /\ seeding.anew \/ LacksAvatar(seeding.account)
        /\ Run([seeding EXCEPT !.step = "commit"])
        /\ UNCHANGED <<stored, objects>>
     \/ /\ ~(seeding.anew \/ LacksAvatar(seeding.account))
        /\ Run([seeding EXCEPT !.step = "commit"])
        /\ UNCHANGED <<stored, objects>>
  /\ UNCHANGED <<tutors, accounts, awaited, photo, undone, stranded, committed>>

\* The account as the run leaves it; the object of an avatar that goes with a dropped account stays.
Seeded(a) ==
  IF a = seeding.dropped THEN NoTutor
  ELSE IF a # seeding.account THEN tutors[a]
  ELSE IF seeding.anew
       THEN [exists |-> TRUE, mail |-> TRUE, role |-> TRUE, detail |-> "ACTIVE", avatar |-> seeding.object, kept |-> FALSE]
  ELSE [tutors[a] EXCEPT !.detail = IF @ = "none" THEN "ACTIVE" ELSE @,
                         !.avatar = IF seeding.object = NoObject THEN @ ELSE seeding.object]

\* The one-to-one column has the last word.
CommitRun ==
  /\ seeding.step = "commit"
  /\ seeding.object = NoObject \/ seeding.anew \/ LacksAvatar(seeding.account)
  /\ tutors' = [a \in AccountIds |-> Seeded(a)]
  /\ stranded' = stranded \cup ({tutors[a].avatar : a \in AccountIds \cap {seeding.dropped}} \ {NoObject})
  /\ undone' = (undone /\ ~seeding.anew)
  /\ committed' = TRUE
  /\ Run(NoRun)
  /\ UNCHANGED <<accounts, stored, objects, awaited, photo>>

\* Killed, or a constraint: everything is rolled back but the object.
AbortRun ==
  /\ seeding.step # "idle"
  /\ stranded' = stranded \cup ({seeding.object} \ {NoObject})
  /\ Run(NoRun)
  /\ UNCHANGED <<tutors, accounts, stored, objects, awaited, photo, undone, committed>>

\* seed --clean deletes everybody but superusers, in a transaction of its own, before it calls on;
\* one protected row and nothing is deleted.
DeleteEverybody ==
  /\ seeding.step = "idle"
  /\ \A a \in AccountIds : ~tutors[a].kept
  /\ tutors' = [a \in AccountIds |-> NoTutor]
  /\ stranded' = stranded \cup Avatars
  /\ undone' = TRUE
  /\ Run([NoRun EXCEPT !.step = "clean"])
  /\ UNCHANGED <<accounts, stored, objects, awaited, photo, committed>>

(***************************************************************************)
(* Everybody else.                                                         *)
(***************************************************************************)
Touch(a, account, undoes) ==
  /\ tutors[a].exists /\ ~Frozen(a)
  /\ tutors' = [tutors EXCEPT ![a] = account]
  /\ undone' = (undone \/ undoes)
  /\ UNCHANGED <<accounts, stored, objects, awaited, seeding, photo, stranded, committed>>

\* create_user: a family with the address, unless the run has just inserted it.
CreateByHand ==
  /\ WithMail = {} /\ ~seeding.anew /\ accounts < MaxAccounts
  /\ accounts' = accounts + 1
  /\ tutors' = [tutors EXCEPT ![accounts + 1] = [NoTutor EXCEPT !.exists = TRUE, !.mail = TRUE]]
  /\ undone' = TRUE
  /\ UNCHANGED <<stored, objects, awaited, seeding, photo, stranded, committed>>

\* DeleteMeView frees the address and leaves profile and avatar.
Leave(a) == tutors[a].mail /\ Touch(a, [tutors[a] EXCEPT !.mail = FALSE, !.role = FALSE], TRUE)

\* TutorDetailView.delete; the row stays.
Hide(a) ==
  /\ tutors[a].mail /\ tutors[a].detail = "ACTIVE" /\ ~Locked(a)
  /\ Touch(a, [tutors[a] EXCEPT !.detail = "DELETED", !.role = FALSE], TRUE)

\* apply_verification_outcome
Judge(a) == tutors[a].detail # "none" /\ Touch(a, [tutors[a] EXCEPT !.role = ~@], tutors[a].role)

\* An inquiry, or a review.
Refer(a) ==
  /\ tutors[a].mail /\ tutors[a].detail = "ACTIVE" /\ ~Locked(a)
  /\ Touch(a, [tutors[a] EXCEPT !.kept = TRUE], FALSE)

\* Mutation: the object goes and the row stays, to be replaced by the next.
WithoutObject(a) ==
  /\ tutors[a].mail /\ ~Frozen(a)
  /\ tutors' = [tutors EXCEPT ![a].detail = IF @ = "none" THEN "ACTIVE" ELSE @]
  /\ awaited' = awaited \cup ({tutors[a].avatar} \ {NoObject})
  /\ UNCHANGED stranded

\* delete_avatar_image: the row, then the task, which an unreachable broker never gets.
WithoutAvatar(a) ==
  /\ tutors[a].mail /\ ~Frozen(a)
  /\ tutors' = [tutors EXCEPT ![a].avatar = NoObject, ![a].detail = IF @ = "none" THEN "ACTIVE" ELSE @]
  /\ LET old == {tutors[a].avatar} \ {NoObject} IN
     \/ awaited' = awaited \cup old /\ UNCHANGED stranded
     \/ old # {} /\ stranded' = stranded \cup old /\ UNCHANGED awaited

\* AvatarUploadView.delete
RemoveAvatar(a) ==
  /\ tutors[a].avatar # NoObject
  /\ WithoutAvatar(a)
  /\ UNCHANGED <<accounts, stored, objects, seeding, photo, undone, committed>>

Photo(p, state) == photo' = [photo EXCEPT ![p] = state]

\* AvatarUploadView.post: the profile if need be, the old avatar removed ...
StartPhoto(p, a) ==
  /\ photo[p].step = "idle"
  /\ tutors[a].detail = "none" => ~Locked(a)
  /\ WithoutAvatar(a)
  /\ Photo(p, [NoPhoto EXCEPT !.step = "store", !.account = a])
  /\ UNCHANGED <<accounts, stored, objects, seeding, undone, committed>>

\* ... the new object stored ...
StorePhoto(p) ==
  /\ photo[p].step = "store"
  /\ objects < MaxObjects
  /\ objects' = objects + 1 /\ stored' = stored \cup {objects + 1}
  /\ Photo(p, [photo[p] EXCEPT !.step = "insert", !.object = objects + 1])
  /\ UNCHANGED <<tutors, accounts, awaited, seeding, undone, stranded, committed>>

\* ... and its row inserted, which waits for the profile's lock and is refused beside another.
InsertPhoto(p) ==
  /\ photo[p].step = "insert"
  /\ ~Locked(photo[p].account)
  /\ LET a == photo[p].account IN
     IF tutors[a].exists /\ tutors[a].avatar = NoObject
     THEN tutors' = [tutors EXCEPT ![a].avatar = photo[p].object] /\ UNCHANGED stranded
     ELSE stranded' = stranded \cup {photo[p].object} /\ UNCHANGED tutors
  /\ Photo(p, NoPhoto)
  /\ UNCHANGED <<accounts, stored, objects, awaited, seeding, undone, committed>>

\* The process dies.
DropPhoto(p) ==
  /\ photo[p].step # "idle"
  /\ stranded' = stranded \cup ({photo[p].object} \ {NoObject})
  /\ Photo(p, NoPhoto)
  /\ UNCHANGED <<tutors, accounts, stored, objects, awaited, seeding, undone, committed>>

\* delete_storage_objects
CleanAvatar ==
  /\ awaited # {}
  /\ \E o \in awaited : awaited' = awaited \ {o} /\ stored' = stored \ {o}
  /\ UNCHANGED <<tutors, accounts, objects, seeding, photo, undone, stranded, committed>>

RunNext ==
  \/ \E clean \in BOOLEAN : StartRun(clean)
  \/ DropTutor \/ GetOrCreateUser \/ UpsertDetail \/ StoreSeedAvatar \/ CommitRun \/ AbortRun
  \/ DeleteEverybody

TutorSeedingNext ==
  \/ RunNext \/ CreateByHand \/ CleanAvatar
  \/ \E a \in AccountIds : Leave(a) \/ Hide(a) \/ Judge(a) \/ Refer(a) \/ RemoveAvatar(a)
  \/ \E p \in Photos :
       \/ \E a \in AccountIds : StartPhoto(p, a)
       \/ StorePhoto(p) \/ InsertPhoto(p) \/ DropPhoto(p)

TutorSeedingSpec == TutorSeedingInit /\ [][TutorSeedingNext]_tutorSeedingVars

(***************************************************************************)
(* Properties.                                                             *)
(***************************************************************************)
\* Accounts, run and uploads are well-formed; the address is unique.
TutorSeedingTypeOK ==
  /\ tutors \in [AccountIds -> TutorAccounts]
  /\ accounts \in 0..MaxAccounts
  /\ objects \in 0..MaxObjects
  /\ stored \subseteq 1..objects /\ awaited \subseteq stored /\ stranded \subseteq 1..objects
  /\ seeding \in Runs
  /\ photo \in [Photos -> PhotoStates]
  /\ undone \in BOOLEAN /\ committed \in BOOLEAN
  /\ Cardinality(WithMail) <= 1

InHand == {photo[p].object : p \in Photos} \cup {seeding.object}

\* A profile never shows an avatar whose object is gone or about to go, and no two share one,
\* through uploads, removals, cleanups and runs at the same time.
AvatarsStand ==
  /\ Avatars \subseteq stored \ awaited
  /\ \A a, b \in AccountIds : tutors[a].avatar # NoObject /\ tutors[a].avatar = tutors[b].avatar => a = b

\* Every other object is in somebody's hands, awaits its cleanup, or was left behind by a death,
\* a refused row, an unreachable broker or a deletion of accounts; a run that is committed
\* leaves no object of its own and replaces no avatar.
ObjectsAccounted == stored \subseteq Avatars \cup InHand \cup awaited \cup stranded

\* After a run that was committed the seeded tutor is there with role and profile, unless the
\* account was made by hand, its owner left or hid the profile, a reviewer dismissed him, or
\* seed --clean deleted him and was stopped; a later run restores none of this unless it
\* creates the account anew.
TutorSeeded ==
  committed /\ seeding.step = "idle" =>
    \/ \E a \in WithMail : tutors[a].role /\ tutors[a].detail = "ACTIVE"
    \/ undone

\* What the seeded tutors promise of every state.
TutorSeedingSound ==
  /\ TutorSeedingTypeOK
  /\ AvatarsStand
  /\ ObjectsAccounted
  /\ TutorSeeded
=============================================================================
