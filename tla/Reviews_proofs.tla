---------------------------- MODULE Reviews_proofs ----------------------------
(***************************************************************************)
(* Proofs about Reviews, for any number of authors, keys and requests.     *)
(***************************************************************************)
EXTENDS Reviews, TLAPS

\* What a request knows while it is under way: whose review it writes, and the row.
Carries(j) ==
  /\ j.pc = "idle" => ~j.holds
  /\ j.pc = "edit" => ~j.holds
  /\ j.pc \notin {"idle", "edit"} => j.author \in Authors
  /\ j.pc = "insert" => ~j.atomic /\ j.row.rating \in Ratings
  /\ j.pc = "save" => j.row \in Rows
  /\ j.pc = "delete" => j.row \in Rows /\ j.atomic
  /\ j.pc \in {"insert", "save", "delete"} => ~j.holds
  /\ j.holds => j.atomic /\ j.row \in Rows \cup {NoReview} /\ j.author \in Authors

RequestsCarry == \A r \in Requests : Carries(job[r])

\* A transaction that removes a review keeps it from everybody else: the row is still there,
\* and no other transaction holds it.
LocksHeld ==
  \A r \in Requests : job[r].holds =>
    /\ job[r].row = NoReview => review[job[r].author] # NoReview
    /\ \A q \in Requests : job[q].holds /\ job[q].author = job[r].author => q = r

IInv == TypeOK /\ RequestsCarry /\ LocksHeld

USE ReviewsAssumption

-----------------------------------------------------------------------------
(* The aggregate of any reviews, and what a request sees, are well-formed. *)

LEMMA GivenColumns ==
  ASSUME NEW rows \in [Authors -> Rows \cup {NoReview}]
  PROVE  Aggregate(Given(rows)) \in Columns
<1>1. Given(rows) \in [Authors -> Ratings \cup {0}]
  BY DEF Given, Rows, NoReview
<1> QED BY <1>1 DEF Columns

LEMMA NothingColumns == Nothing \in Columns
<1>1. [a \in Authors |-> 0] \in [Authors -> Ratings \cup {0}]
  OBVIOUS
<1> QED BY <1>1 DEF Nothing, Columns

LEMMA SeenRows ==
  ASSUME IInv, NEW r \in Requests
  PROVE  Seen(r) \in [Authors -> Rows \cup {NoReview}]
BY DEF IInv, TypeOK, RequestsCarry, Carries, Seen, Job

-----------------------------------------------------------------------------
(* The bookkeeping steps keep the requests well-formed.                    *)

LEMMA BeginType ==
  ASSUME IInv, NEW r \in Requests, NEW j \in Job, Carries(j), Begin(r, j)
  PROVE  /\ job' \in [Requests -> Job] /\ RequestsCarry'
         /\ crossed' \subseteq Requests /\ disturbed' \in BOOLEAN
<1>1. job' \in [Requests -> Job] /\ RequestsCarry'
  BY DEF Begin, IInv, TypeOK, RequestsCarry
<1>2. crossed' \subseteq Requests
  BY DEF Begin, Busy
<1>3. disturbed' \in BOOLEAN
  BY DEF Begin, IInv, TypeOK
<1> QED BY <1>1, <1>2, <1>3

LEMMA GoOnType ==
  ASSUME IInv, NEW r \in Requests, NEW j \in Job, Carries(j), GoOn(r, j)
  PROVE  /\ job' \in [Requests -> Job] /\ RequestsCarry'
         /\ crossed' \subseteq Requests /\ disturbed' \in BOOLEAN
BY DEF GoOn, IInv, TypeOK, RequestsCarry

LEMMA IdleType == Idle \in Job /\ Carries(Idle)
BY NothingColumns DEF Idle, Job, Carries, NoReview

LEMMA EndType ==
  ASSUME IInv, NEW r \in Requests, End(r)
  PROVE  job' \in [Requests -> Job] /\ RequestsCarry'
BY IdleType DEF End, IInv, TypeOK, RequestsCarry

LEMMA EndLocks ==
  ASSUME IInv, NEW r \in Requests, End(r), UNCHANGED review
  PROVE  LocksHeld'
BY IdleType DEF End, Idle, IInv, TypeOK, LocksHeld

LEMMA AtType ==
  ASSUME NEW pc \in {"insert", "save", "delete"}, NEW a \in Authors,
         NEW row \in [id : Ids \cup {NoId}, rating : Ratings \cup {0}], NEW atomic \in BOOLEAN,
         pc = "insert" => ~atomic /\ row.rating \in Ratings,
         pc = "save" => row \in Rows,
         pc = "delete" => row \in Rows /\ atomic
  PROVE  /\ At(pc, a, row, atomic) \in Job /\ Carries(At(pc, a, row, atomic))
         /\ ~At(pc, a, row, atomic).holds
BY NothingColumns DEF At, Job, Carries

\* A row that is there has a key and a rating.
LEMMA RowThere ==
  ASSUME IInv, NEW a \in Authors, review[a] # NoReview
  PROVE  review[a] \in Rows /\ review[a].id \in Ids /\ review[a].rating \in Ratings
BY DEF IInv, TypeOK, Rows

(***************************************************************************)
(* A step of request r keeps the locks if it takes none that another holds *)
(* and removes no row under another's deletion.                            *)
(***************************************************************************)
LEMMA LocksKept ==
  ASSUME IInv, NEW r \in Requests, NEW j \in Job, job' = [job EXCEPT ![r] = j],
         \A q \in Requests \ {r} :
           job[q].holds /\ job[q].row = NoReview => review'[job[q].author] # NoReview,
         j.holds => /\ j.row = NoReview => review'[j.author] # NoReview
                    /\ \A q \in Requests \ {r} : ~(job[q].holds /\ job[q].author = j.author)
  PROVE  LocksHeld'
BY DEF IInv, TypeOK, LocksHeld

\* In particular a request that holds nothing afterwards, while no row disappears.
LEMMA NoLockTaken ==
  ASSUME IInv, NEW r \in Requests, NEW j \in Job, job' = [job EXCEPT ![r] = j], ~j.holds,
         \A a \in Authors : review[a] # NoReview => review'[a] # NoReview
  PROVE  LocksHeld'
<1>1. \A q \in Requests : job[q].holds => job[q].author \in Authors
  BY DEF IInv, RequestsCarry, Carries, TypeOK, Job
<1> QED BY <1>1, LocksKept DEF IInv, LocksHeld

-----------------------------------------------------------------------------
LEMMA InitIInv == Init => IInv
<1> SUFFICES ASSUME Init PROVE IInv
  OBVIOUS
<1>1. job \in [Requests -> Job] /\ RequestsCarry
  BY IdleType DEF Init, RequestsCarry
<1>2. LocksHeld
  BY DEF Init, LocksHeld, Idle
<1>3. shown \in Columns /\ disturbed \in BOOLEAN
  BY NothingColumns DEF Init, Columns
<1> QED BY <1>1, <1>2, <1>3 DEF Init, IInv, TypeOK

LEMMA StartKeeps ==
  ASSUME IInv, NEW r \in Requests,
         \/ \E a \in Authors, x \in Ratings :
              StartPost(r, a, x) \/ \E atomic \in BOOLEAN : StartChange(r, a, x, atomic)
         \/ \E a \in Authors : StartDelete(r, a)
         \/ StartEdit(r)
  PROVE  IInv'
<1>1. PICK j \in Job : Carries(j) /\ ~j.holds /\ Begin(r, j)
  <2>1. ASSUME NEW a \in Authors, NEW x \in Ratings, StartPost(r, a, x)
        PROVE  \E j \in Job : Carries(j) /\ ~j.holds /\ Begin(r, j)
    BY <2>1, AtType DEF StartPost
  <2>2. ASSUME NEW a \in Authors, NEW x \in Ratings, NEW atomic \in BOOLEAN,
               StartChange(r, a, x, atomic)
        PROVE  \E j \in Job : Carries(j) /\ ~j.holds /\ Begin(r, j)
    <3>1. [id |-> review[a].id, rating |-> x] \in Rows
      BY <2>2, RowThere DEF StartChange, Rows
    <3>2. [id |-> review[a].id, rating |-> x]
            \in [id : Ids \cup {NoId}, rating : Ratings \cup {0}]
      BY <3>1 DEF Rows
    <3> QED BY <2>2, <3>1, <3>2, AtType DEF StartChange
  <2>3. ASSUME NEW a \in Authors, StartDelete(r, a)
        PROVE  \E j \in Job : Carries(j) /\ ~j.holds /\ Begin(r, j)
    <3>1. review[a] \in Rows /\ review[a] \in [id : Ids \cup {NoId}, rating : Ratings \cup {0}]
      BY <2>3, RowThere DEF StartDelete, Rows
    <3> QED BY <2>3, <3>1, AtType DEF StartDelete
  <2>4. ASSUME StartEdit(r)
        PROVE  \E j \in Job : Carries(j) /\ ~j.holds /\ Begin(r, j)
    <3> DEFINE j == [Idle EXCEPT !.pc = "edit", !.sums = shown]
    <3>1. j \in Job /\ Carries(j) /\ ~j.holds
      BY IdleType DEF Idle, Job, Carries, IInv, TypeOK
    <3> QED BY <2>4, <3>1 DEF StartEdit
  <2> QED BY <2>1, <2>2, <2>3, <2>4
<1>2. UNCHANGED <<review, shown, listed, engaged, reports, met, deleted>>
  BY DEF StartPost, StartChange, StartDelete, StartEdit, history
<1>3. LocksHeld'
  BY <1>1, <1>2, NoLockTaken DEF Begin
<1> QED BY <1>1, <1>2, <1>3, BeginType DEF IInv, TypeOK

LEMMA InsertKeeps ==
  ASSUME IInv, NEW r \in Requests, InsertReview(r)
  PROVE  IInv'
<1> DEFINE j == [job[r] EXCEPT !.pc = "aggregate"]
<1>1. job[r] \in Job /\ Carries(job[r]) /\ job[r].pc = "insert"
  BY DEF IInv, TypeOK, RequestsCarry, InsertReview
<1>2. j \in Job /\ Carries(j)
  BY <1>1 DEF Job, Carries
<1>3. PICK n \in Ids : review' = [review EXCEPT ![job[r].author] =
                                    [id |-> n, rating |-> job[r].row.rating]]
  BY DEF InsertReview
<1>4. review' \in [Authors -> Rows \cup {NoReview}]
  BY <1>1, <1>3 DEF IInv, TypeOK, Carries, Rows
<1>5. LocksHeld'
  BY <1>1, <1>2, <1>3, NoLockTaken DEF InsertReview, GoOn, Carries, Job, NoReview, IInv, TypeOK
<1> QED BY <1>2, <1>4, <1>5, GoOnType DEF InsertReview, IInv, TypeOK, history

LEMMA SaveKeeps ==
  ASSUME IInv, NEW r \in Requests, SaveReview(r)
  PROVE  IInv'
<1> DEFINE j == [job[r] EXCEPT !.pc = "aggregate", !.holds = job[r].atomic]
<1>1. job[r] \in Job /\ Carries(job[r]) /\ job[r].pc = "save"
  BY DEF IInv, TypeOK, RequestsCarry, SaveReview
<1>2. j \in Job /\ Carries(j)
  BY <1>1 DEF Job, Carries
<1>3. review' \in [Authors -> Rows \cup {NoReview}]
  BY <1>1 DEF IInv, TypeOK, Carries, SaveReview
<1>4. \A q \in Requests : job[q].holds => job[q].author # job[r].author
  BY DEF SaveReview, Locked
<1>5. job[r].row \in Rows /\ job[r].row # NoReview /\ j.author = job[r].author /\ j.row = job[r].row
  BY <1>1 DEF Carries, Job, Rows, NoReview
<1>6. \A a \in Authors : review[a] # NoReview => review'[a] # NoReview
  BY <1>1, <1>5 DEF SaveReview, IInv, TypeOK
<1>7. \A q \in Requests : job[q].holds => job[q].author \in Authors
  BY DEF IInv, RequestsCarry, Carries
<1>8. LocksHeld'
  BY <1>2, <1>4, <1>5, <1>6, <1>7, LocksKept DEF SaveReview, GoOn, IInv, LocksHeld
<1> QED BY <1>2, <1>3, <1>8, GoOnType DEF SaveReview, IInv, TypeOK, history

LEMMA DeleteKeeps ==
  ASSUME IInv, NEW r \in Requests, DeleteReview(r)
  PROVE  IInv'
<1> DEFINE held == review[job[r].author].id = job[r].row.id
           j == [job[r] EXCEPT !.pc = "aggregate", !.row = NoReview, !.holds = held]
<1>1. job[r] \in Job /\ Carries(job[r]) /\ job[r].pc = "delete"
  BY DEF IInv, TypeOK, RequestsCarry, DeleteReview
<1>2. j \in Job /\ Carries(j)
  BY <1>1 DEF Job, Carries, NoReview
<1>3. \A q \in Requests : job[q].holds => job[q].author # job[r].author
  BY DEF DeleteReview, Locked
<1>4. held => review[job[r].author] # NoReview
  BY <1>1 DEF Carries, Rows, NoReview
<1>5. j.author = job[r].author /\ j.holds = held
  BY <1>1 DEF Job
<1>6. GoOn(r, j) /\ review' = review
  BY DEF DeleteReview
<1> HIDE DEF held, j
<1>7. \A q \in Requests \ {r} :
        job[q].holds /\ job[q].row = NoReview => review'[job[q].author] # NoReview
  BY <1>6 DEF IInv, LocksHeld
<1>8. LocksHeld'
  BY <1>2, <1>3, <1>4, <1>5, <1>6, <1>7, LocksKept DEF GoOn
<1> QED BY <1>2, <1>6, <1>8, GoOnType DEF DeleteReview, IInv, TypeOK, history

LEMMA AggregateKeeps ==
  ASSUME IInv, NEW r \in Requests, AggregateRows(r)
  PROVE  IInv'
<1> DEFINE sums == Aggregate(Given(Seen(r)))
           j == [job[r] EXCEPT !.pc = "store", !.sums = sums]
<1>1. job[r] \in Job /\ Carries(job[r]) /\ job[r].pc = "aggregate"
  BY DEF IInv, TypeOK, RequestsCarry, AggregateRows
<1>2. sums \in Columns
  BY SeenRows, GivenColumns
<1> HIDE DEF sums
<1>3. j \in Job /\ Carries(j)
  BY <1>1, <1>2 DEF Job, Carries
<1>4. GoOn(r, j)
  BY DEF AggregateRows, sums
<1>5. j.author = job[r].author /\ j.holds = job[r].holds /\ j.row = job[r].row
  BY <1>1 DEF Job
<1>6. LocksHeld'
  BY <1>3, <1>4, <1>5, LocksKept DEF AggregateRows, GoOn, IInv, LocksHeld
<1> QED BY <1>3, <1>4, <1>6, GoOnType DEF AggregateRows, IInv, TypeOK, history

LEMMA StoreKeeps ==
  ASSUME IInv, NEW r \in Requests, StoreRating(r)
  PROVE  IInv'
<1>1. job[r] \in Job /\ Carries(job[r]) /\ job[r].pc = "store"
  BY DEF IInv, TypeOK, RequestsCarry, StoreRating
<1>2. job[r].author \in Authors /\ job[r].sums \in Columns
  BY <1>1 DEF Carries, Job
<1>3. review' \in [Authors -> Rows \cup {NoReview}] /\ shown' \in Columns
  BY <1>2, SeenRows DEF StoreRating
<1>4. reports' \in [Authors -> SUBSET Authors]
  BY <1>2 DEF StoreRating, IInv, TypeOK
<1>5. deleted' \subseteq Ids
  BY <1>2 DEF StoreRating, IInv, TypeOK, LocksHeld, Rows
<1>6. \A q \in Requests \ {r} : job[q].holds => review'[job[q].author] = review[job[q].author]
  <2>1. CASE job[r].holds
    <3>1. review' = [review EXCEPT ![job[r].author] = job[r].row]
      BY <2>1 DEF StoreRating, Seen
    <3>2. \A q \in Requests \ {r} : job[q].holds => job[q].author # job[r].author
      BY <2>1 DEF IInv, LocksHeld
    <3>3. \A q \in Requests : job[q].holds => job[q].author \in Authors
      BY DEF IInv, RequestsCarry, Carries
    <3> QED BY <3>1, <3>2, <3>3 DEF IInv, TypeOK
  <2>2. CASE ~job[r].holds
    BY <2>2 DEF StoreRating, Seen
  <2> QED BY <2>1, <2>2
<1>7. LocksHeld'
  <2>1. \A q \in Requests \ {r} :
          job[q].holds /\ job[q].row = NoReview => review'[job[q].author] # NoReview
    BY <1>6 DEF IInv, LocksHeld
  <2>2. job' = [job EXCEPT ![r] = Idle] /\ ~Idle.holds
    BY DEF StoreRating, End, Idle
  <2> QED BY <2>1, <2>2, IdleType, LocksKept
<1> QED BY <1>3, <1>4, <1>5, <1>7, EndType DEF StoreRating, IInv, TypeOK

LEMMA OthersKeep ==
  ASSUME IInv,
         \/ \E r \in Requests : SaveEdit(r) \/ Refused(r) \/ RequestDies(r)
         \/ \E s \in Typed : TypeRating(s)
         \/ \E a, b \in Authors : Report(a, b)
         \/ \E a \in Authors : Engage(a)
  PROVE  IInv'
<1>1. ASSUME NEW r \in Requests, SaveEdit(r)
      PROVE  IInv'
  <2>1. job[r].sums \in Columns
    BY DEF IInv, TypeOK, Job
  <2> QED BY <1>1, <2>1, EndType, EndLocks DEF SaveEdit, IInv, TypeOK, history
<1>2. ASSUME NEW r \in Requests, Refused(r)
      PROVE  IInv'
  BY <1>2, EndType, EndLocks DEF Refused, IInv, TypeOK, history
<1>3. ASSUME NEW r \in Requests, RequestDies(r)
      PROVE  IInv'
  <2>1. disturbed' \in BOOLEAN
    BY <1>3 DEF RequestDies, IInv, TypeOK
  <2> QED BY <1>3, <2>1, EndType, EndLocks DEF RequestDies, IInv, TypeOK, history
<1>4. ASSUME NEW s \in Typed, TypeRating(s)
      PROVE  IInv'
  BY <1>4 DEF TypeRating, Columns, IInv, TypeOK, RequestsCarry, LocksHeld, history
<1>5. ASSUME NEW a \in Authors, NEW b \in Authors, Report(a, b)
      PROVE  IInv'
  BY <1>5 DEF Report, IInv, TypeOK, RequestsCarry, LocksHeld, history
<1>6. ASSUME NEW a \in Authors, Engage(a)
      PROVE  IInv'
  BY <1>6 DEF Engage, IInv, TypeOK, RequestsCarry, LocksHeld
<1> QED BY <1>1, <1>2, <1>3, <1>4, <1>5, <1>6

LEMMA NextIInv == IInv /\ [Next]_vars => IInv'
<1> SUFFICES ASSUME IInv, [Next]_vars PROVE IInv'
  OBVIOUS
<1>1. CASE UNCHANGED vars
  BY <1>1 DEF vars, IInv, TypeOK, RequestsCarry, LocksHeld
<1>2. CASE Next
  BY <1>2, StartKeeps, InsertKeeps, SaveKeeps, DeleteKeeps, AggregateKeeps, StoreKeeps,
     OthersKeep
     DEF Next, RequestStep
<1> QED BY <1>1, <1>2

LEMMA SpecIInv == Spec => []IInv
BY InitIInv, NextIInv, PTL DEF Spec

(***************************************************************************)
(* Type correctness: rows, columns, requests and histories stay            *)
(* well-formed; in particular the two columns always hold a rating and a   *)
(* count that belong together, or were put in together (recompute saves    *)
(* both in one statement).                                                 *)
(***************************************************************************)
THEOREM TypeCorrect == Spec => []TypeOK
<1>1. IInv => TypeOK
  BY DEF IInv
<1> QED BY <1>1, SpecIInv, PTL

-----------------------------------------------------------------------------
(***************************************************************************)
(* Engagement: whoever has a review, or a request that may write one, was  *)
(* engaged when it was first posted.                                       *)
(***************************************************************************)
MetInv ==
  /\ engaged \subseteq met
  /\ Gated => /\ \A a \in Authors : review[a] # NoReview => a \in met
              /\ \A r \in Requests : job[r].author \in Authors => job[r].author \in met

LEMMA NextMet == IInv /\ MetInv /\ [Next]_vars => MetInv'
<1> SUFFICES ASSUME IInv, MetInv, [Next]_vars PROVE MetInv'
  OBVIOUS
<1>1. CASE UNCHANGED vars
  BY <1>1 DEF vars, MetInv
<1>2. ASSUME NEW r \in Requests, RequestStep(r)
      PROVE  MetInv'
  <2>1. engaged' = engaged /\ met' = met
    BY <1>2 DEF RequestStep, StartPost, StartChange, StartDelete, InsertReview, SaveReview,
       DeleteReview, AggregateRows, StoreRating, StartEdit, SaveEdit, Refused, RequestDies, history
  <2>2. \A q \in Requests \ {r} : job'[q] = job[q]
    BY <1>2 DEF RequestStep, StartPost, StartChange, StartDelete, InsertReview, SaveReview,
       DeleteReview, AggregateRows, StoreRating, StartEdit, SaveEdit, Refused, RequestDies,
       Begin, GoOn, End, IInv, TypeOK
  <2>3. Gated /\ job'[r].author \in Authors => job'[r].author \in met
    <3>1. CASE job'[r].author = job[r].author
      BY <3>1 DEF MetInv
    <3>2. CASE job'[r].author = NoAuthor
      BY <3>2
    <3>3. ASSUME NEW a \in Authors, a \in met \/ ~Gated, job'[r].author = a
          PROVE  Gated /\ job'[r].author \in Authors => job'[r].author \in met
      BY <3>3
    <3>4. CASE \E a \in Authors : (a \in met \/ ~Gated) /\ job'[r].author = a
      BY <3>3, <3>4
    <3>5. \/ job'[r].author = job[r].author
          \/ job'[r].author = NoAuthor
          \/ \E a \in Authors : (a \in met \/ ~Gated) /\ job'[r].author = a
      <4>1. ASSUME NEW a \in Authors, NEW x \in Ratings, StartPost(r, a, x)
            PROVE  (a \in met \/ ~Gated) /\ job'[r].author = a
        BY <4>1 DEF StartPost, Begin, At, MayReview, MetInv, IInv, TypeOK
      <4>2. ASSUME NEW a \in Authors, review[a] # NoReview,
                   StartDelete(r, a) \/ \E x \in Ratings, atomic \in BOOLEAN : StartChange(r, a, x, atomic)
            PROVE  (a \in met \/ ~Gated) /\ job'[r].author = a
        BY <4>2 DEF StartDelete, StartChange, Begin, At, MetInv, IInv, TypeOK
      <4>3. CASE InsertReview(r) \/ SaveReview(r) \/ DeleteReview(r) \/ AggregateRows(r)
        <5>1. CASE InsertReview(r)
          BY <5>1 DEF InsertReview, GoOn, IInv, TypeOK, Job
        <5>2. CASE SaveReview(r)
          BY <5>2 DEF SaveReview, GoOn, IInv, TypeOK, Job
        <5>3. CASE DeleteReview(r)
          <6> DEFINE held == review[job[r].author].id = job[r].row.id
          <6>1. job' = [job EXCEPT ![r] = [job[r] EXCEPT !.pc = "aggregate", !.row = NoReview,
                                                         !.holds = held]]
            BY <5>3 DEF DeleteReview, GoOn
          <6> HIDE DEF held
          <6> QED BY <6>1 DEF IInv, TypeOK, Job
        <5>4. CASE AggregateRows(r)
          <6> DEFINE sums == Aggregate(Given(Seen(r)))
          <6>1. job' = [job EXCEPT ![r] = [job[r] EXCEPT !.pc = "store", !.sums = sums]]
            BY <5>4 DEF AggregateRows, GoOn
          <6> HIDE DEF sums
          <6> QED BY <6>1 DEF IInv, TypeOK, Job
        <5> QED BY <4>3, <5>1, <5>2, <5>3, <5>4
      <4>4. CASE StoreRating(r) \/ SaveEdit(r) \/ Refused(r) \/ RequestDies(r)
        BY <4>4 DEF StoreRating, SaveEdit, Refused, RequestDies, End, Idle, IInv, TypeOK
      <4>5. CASE StartEdit(r)
        BY <4>5 DEF StartEdit, Begin, Idle, IInv, TypeOK
      <4> QED BY <1>2, <4>1, <4>2, <4>3, <4>4, <4>5 DEF RequestStep, StartDelete, StartChange
    <3> QED BY <3>1, <3>2, <3>4, <3>5
  <2>4. \A b \in Authors : Gated /\ review'[b] # NoReview => b \in met
    <3>1. CASE UNCHANGED review
      BY <3>1 DEF MetInv
    <3>2. CASE InsertReview(r) \/ SaveReview(r) \/ StoreRating(r)
      <4>1. job[r].author \in Authors
        BY <3>2 DEF InsertReview, SaveReview, StoreRating, IInv, RequestsCarry, Carries
      <4>2. \A b \in Authors \ {job[r].author} : review'[b] = review[b]
        BY <3>2 DEF InsertReview, SaveReview, StoreRating, Seen, IInv, TypeOK
      <4> QED BY <4>1, <4>2 DEF MetInv
    <3> QED BY <1>2, <3>1, <3>2
            DEF RequestStep, StartPost, StartChange, StartDelete, DeleteReview, AggregateRows,
            StartEdit, SaveEdit, Refused, RequestDies
  <2> QED BY <2>1, <2>2, <2>3, <2>4 DEF MetInv
<1>3. ASSUME NEW s \in Typed, TypeRating(s)
      PROVE  MetInv'
  BY <1>3 DEF TypeRating, MetInv, history
<1>4. ASSUME NEW a \in Authors, NEW b \in Authors, Report(a, b)
      PROVE  MetInv'
  BY <1>4 DEF Report, MetInv, history
<1>5. ASSUME NEW a \in Authors, Engage(a)
      PROVE  MetInv'
  BY <1>5 DEF Engage, MetInv
<1> QED BY <1>1, <1>2, <1>3, <1>4, <1>5 DEF Next

(***************************************************************************)
(* Behind the gate every author of a review was engaged at some time, for  *)
(* any number of racing posts, stale saves and withdrawn inquiries.        *)
(***************************************************************************)
THEOREM EngagementComesFirst == Spec => []AuthorsWereEngaged
<1>1. Init => MetInv
  BY DEF Init, MetInv, Idle
<1>2. MetInv => AuthorsWereEngaged
  BY DEF MetInv, AuthorsWereEngaged
<1> QED BY <1>1, <1>2, NextMet, SpecIInv, PTL DEF Spec

-----------------------------------------------------------------------------
(***************************************************************************)
(* A request that no other one ran beside finds the world as it left it:   *)
(* its copy has the key of the row, and its aggregate is that of the rows  *)
(* it sees.  While nothing disturbed the rating, the columns agree with    *)
(* the committed rows unless a committed change awaits its recompute.      *)
(***************************************************************************)
Alone == Busy \ crossed

Pending(j) == j.pc \in {"aggregate", "store"} /\ ~j.atomic

SoleRequest(r) ==
  /\ Busy = {r}
  /\ job[r].pc = "save" => review[job[r].author].id = job[r].row.id
  /\ job[r].holds /\ job[r].row # NoReview => review[job[r].author].id = job[r].row.id
  /\ job[r].pc = "store" => job[r].sums = Aggregate(Given(Seen(r)))

Undisturbed ==
  /\ Busy \cap crossed = {}
  /\ (\A r \in Requests : ~Pending(job[r])) => InStep
  /\ \A r \in Requests : job[r].pc = "edit" => job[r].sums = shown

AloneInv ==
  /\ \A r \in Alone : SoleRequest(r)
  /\ ~disturbed => Undisturbed

\* A request starts: alone, or as one of several that are crossed from now on.
LEMMA StartAlone ==
  ASSUME IInv, AloneInv, NEW r \in Requests, NEW j \in Job, Begin(r, j),
         UNCHANGED <<review, shown>>,
         j.pc \in {"insert", "save", "delete", "edit"}, ~j.holds,
         j.pc = "save" => review[j.author].id = j.row.id,
         j.pc = "edit" => j.sums = shown
  PROVE  AloneInv'
<1>1. job' = [job EXCEPT ![r] = j] /\ job \in [Requests -> Job]
  BY DEF Begin, IInv, TypeOK
<1>2. Busy' = Busy \cup {r}
  BY <1>1 DEF Busy
<1>3. CASE Busy = {}
  <2>1. crossed' = {} /\ Busy' = {r} /\ Alone' = {r} /\ disturbed' = disturbed
    BY <1>2, <1>3 DEF Begin, Alone, IInv, TypeOK
  <2>2. SoleRequest(r)'
    BY <1>1, <2>1 DEF SoleRequest
  <2>3. \A q \in Requests : job[q].pc = "idle"
    BY <1>3 DEF Busy
  <2>4. ~disturbed => InStep
    BY <2>3 DEF AloneInv, Undisturbed, Pending
  <2>5. InStep => InStep'
    BY DEF InStep
  <2>6. \A q \in Requests : job'[q].pc = "edit" => job'[q].sums = shown'
    BY <1>1, <2>3
  <2> QED BY <2>1, <2>2, <2>4, <2>5, <2>6 DEF AloneInv, Undisturbed
<1>4. CASE Busy # {}
  <2>1. Alone' = {} /\ disturbed'
    BY <1>2, <1>4 DEF Begin, Alone
  <2> QED BY <2>1 DEF AloneInv
<1> QED BY <1>3, <1>4

\* A crossed request goes on: the rating counts as disturbed, and nobody is alone.
LEMMA CrossedGoesOn ==
  ASSUME IInv, AloneInv, NEW r \in Busy \cap crossed, NEW j, job' = [job EXCEPT ![r] = j],
         UNCHANGED crossed, disturbed => disturbed'
  PROVE  AloneInv'
<1>1. disturbed'
  BY DEF AloneInv, Undisturbed
<1>2. Busy' \subseteq Busy /\ r \in Requests
  BY DEF Busy, IInv, TypeOK
<1>3. Alone' = {}
  <2> SUFFICES ASSUME NEW q \in Alone' PROVE FALSE
    OBVIOUS
  <2>1. q \in Alone
    BY <1>2 DEF Alone
  <2>2. Busy = {q} /\ q \notin crossed
    BY <2>1 DEF AloneInv, SoleRequest, Alone
  <2> QED BY <2>2
<1> QED BY <1>1, <1>3 DEF AloneInv

\* A request alone goes on or ends.
LEMMA SoleGoesOn ==
  ASSUME IInv, AloneInv, NEW r \in Alone, NEW j \in Job, job' = [job EXCEPT ![r] = j],
         UNCHANGED crossed, j.pc \in {"idle", "aggregate", "store"},
         j.holds /\ j.row # NoReview => review'[j.author].id = j.row.id,
         j.pc = "store" => j.sums = Aggregate(Given(Seen(r)))',
         ~disturbed' /\ ~Pending(j) => InStep'
  PROVE  AloneInv'
<1>1. Busy = {r} /\ r \in Requests /\ r \notin crossed /\ job'[r] = j
  BY DEF AloneInv, SoleRequest, Alone, Busy, IInv, TypeOK
<1>2. \A q \in Requests \ {r} : job'[q] = job[q] /\ job[q].pc = "idle"
  BY <1>1 DEF Busy, IInv, TypeOK
<1>3. Busy' \subseteq {r} /\ Alone' \subseteq {r}
  BY <1>2 DEF Busy, Alone
<1>4. ASSUME r \in Alone' PROVE SoleRequest(r)'
  <2>1. Busy' = {r}
    BY <1>3, <1>4 DEF Alone
  <2>2. j.pc = "store" => job'[r].sums = Aggregate(Given(Seen(r)))'
    BY <1>1
  <2> QED BY <1>1, <2>1, <2>2 DEF SoleRequest
<1>5. ~disturbed' => Undisturbed'
  <2>1. Busy' \cap crossed' = {}
    BY <1>1, <1>3
  <2>2. ~disturbed' /\ (\A q \in Requests : ~Pending(job'[q])) => InStep'
    BY <1>1
  <2>3. \A q \in Requests : job'[q].pc = "edit" => job'[q].sums = shown'
    BY <1>1, <1>2
  <2> QED BY <2>1, <2>2, <2>3 DEF Undisturbed, Pending
<1> QED BY <1>3, <1>4, <1>5 DEF AloneInv

LEMMA InitAlone == Init => AloneInv
<1> SUFFICES ASSUME Init PROVE AloneInv
  OBVIOUS
<1>1. (\A r \in Requests : job[r].pc = "idle") /\ Busy = {}
  BY DEF Init, Busy, Idle
<1>2. Given(review) = [a \in Authors |-> 0]
  BY DEF Init, Given, NoReview
<1>3. ~disturbed => InStep
  BY <1>2 DEF Init, InStep, Nothing
<1> QED BY <1>1, <1>3 DEF AloneInv, Alone, Undisturbed, Init

LEMMA RequestAlone ==
  ASSUME IInv, AloneInv, NEW r \in Requests, RequestStep(r)
  PROVE  AloneInv'
<1>1. /\ job[r] \in Job /\ Carries(job[r])
      /\ r \in Busy => r \in Alone \/ r \in Busy \cap crossed
  BY DEF IInv, TypeOK, RequestsCarry, Alone
<1>2. ASSUME NEW a \in Authors, NEW x \in Ratings, StartPost(r, a, x)
      PROVE  AloneInv'
  BY <1>2, AtType, StartAlone DEF StartPost, At
<1>3. ASSUME NEW a \in Authors, NEW x \in Ratings, NEW atomic \in BOOLEAN,
             StartChange(r, a, x, atomic)
      PROVE  AloneInv'
  <2> DEFINE row == [id |-> review[a].id, rating |-> x]
  <2>1. row \in Rows /\ row \in [id : Ids \cup {NoId}, rating : Ratings \cup {0}]
    BY <1>3, RowThere DEF StartChange, Rows
  <2> QED BY <1>3, <2>1, AtType, StartAlone DEF StartChange, At
<1>4. ASSUME NEW a \in Authors, StartDelete(r, a)
      PROVE  AloneInv'
  <2>1. review[a] \in Rows /\ review[a] \in [id : Ids \cup {NoId}, rating : Ratings \cup {0}]
    BY <1>4, RowThere DEF StartDelete, Rows
  <2> QED BY <1>4, <2>1, AtType, StartAlone DEF StartDelete, At
<1>5. CASE StartEdit(r)
  <2> DEFINE j == [Idle EXCEPT !.pc = "edit", !.sums = shown]
  <2>1. j \in Job /\ ~j.holds /\ j.pc = "edit" /\ j.sums = shown
    BY IdleType DEF Idle, Job, IInv, TypeOK
  <2> HIDE DEF j
  <2>2. Begin(r, j) /\ UNCHANGED <<review, shown>>
    BY <1>5 DEF StartEdit, j
  <2> QED BY <2>1, <2>2, StartAlone
<1>6. CASE InsertReview(r)
  <2> DEFINE j == [job[r] EXCEPT !.pc = "aggregate"]
  <2>1. job' = [job EXCEPT ![r] = j] /\ UNCHANGED <<crossed, disturbed>> /\ r \in Busy
    BY <1>6 DEF InsertReview, GoOn, Busy
  <2>2. j \in Job /\ j.pc = "aggregate" /\ ~j.atomic /\ ~j.holds
    BY <1>1, <1>6 DEF InsertReview, Carries, Job
  <2> HIDE DEF j
  <2> QED BY <1>1, <2>1, <2>2, CrossedGoesOn, SoleGoesOn DEF Pending
<1>7. CASE SaveReview(r)
  <2> DEFINE j == [job[r] EXCEPT !.pc = "aggregate", !.holds = job[r].atomic]
  <2>1. job' = [job EXCEPT ![r] = j] /\ UNCHANGED <<crossed, disturbed, shown>> /\ r \in Busy
    BY <1>7 DEF SaveReview, GoOn, Busy
  <2>2. /\ j \in Job /\ j.pc = "aggregate" /\ j.atomic = job[r].atomic
        /\ j.holds = job[r].atomic /\ j.author = job[r].author /\ j.row = job[r].row
    BY <1>1, <1>7 DEF Job
  <2>3. job[r].pc = "save" /\ (job[r].atomic => review' = review)
    BY <1>7 DEF SaveReview
  <2> HIDE DEF j
  <2>4. CASE r \in Busy \cap crossed
    BY <2>1, <2>4, CrossedGoesOn
  <2>5. CASE r \in Alone
    <3>1. review[j.author].id = j.row.id
      BY <2>2, <2>3, <2>5 DEF AloneInv, SoleRequest
    <3>2. ~disturbed /\ j.atomic => InStep'
      <4>1. Busy = {r}
        BY <2>5 DEF AloneInv, SoleRequest
      <4>2. \A q \in Requests : ~Pending(job[q])
        BY <2>3, <4>1 DEF Pending, Busy
      <4> QED BY <2>1, <2>2, <2>3, <4>2 DEF AloneInv, Undisturbed, InStep
    <3> QED BY <2>1, <2>2, <2>3, <2>5, <3>1, <3>2, SoleGoesOn DEF Pending
  <2> QED BY <1>1, <2>1, <2>4, <2>5
<1>8. CASE DeleteReview(r)
  <2> DEFINE held == review[job[r].author].id = job[r].row.id
             j == [job[r] EXCEPT !.pc = "aggregate", !.row = NoReview, !.holds = held]
  <2>1. /\ job' = [job EXCEPT ![r] = j] /\ UNCHANGED <<crossed, disturbed, shown, review>>
        /\ r \in Busy /\ job[r].pc = "delete"
    BY <1>8 DEF DeleteReview, GoOn, Busy
  <2>2. j \in Job /\ j.pc = "aggregate" /\ j.row = NoReview
    BY <1>1, <1>8 DEF Job, NoReview
  <2> HIDE DEF j, held
  <2>3. r \in Alone /\ ~disturbed => InStep'
    <3> SUFFICES ASSUME r \in Alone, ~disturbed PROVE InStep'
      OBVIOUS
    <3>1. Busy = {r}
      BY DEF AloneInv, SoleRequest
    <3>2. \A q \in Requests : ~Pending(job[q])
      BY <2>1, <3>1 DEF Pending, Busy
    <3> QED BY <2>1, <3>2 DEF AloneInv, Undisturbed, InStep
  <2> QED BY <1>1, <2>1, <2>2, <2>3, CrossedGoesOn, SoleGoesOn
<1>9. CASE AggregateRows(r)
  <2> DEFINE sums == Aggregate(Given(Seen(r)))
             j == [job[r] EXCEPT !.pc = "store", !.sums = sums]
  <2>1. sums \in Columns
    BY SeenRows, GivenColumns
  <2>2. /\ job' = [job EXCEPT ![r] = j] /\ UNCHANGED <<crossed, disturbed, shown, review>>
        /\ r \in Busy /\ job[r].pc = "aggregate"
    BY <1>9 DEF AggregateRows, GoOn, Busy
  <2> HIDE DEF sums
  <2>3. /\ j \in Job /\ j.pc = "store" /\ j.sums = sums /\ j.holds = job[r].holds
        /\ j.atomic = job[r].atomic /\ j.author = job[r].author /\ j.row = job[r].row
    BY <1>1, <2>1 DEF Job
  <2> HIDE DEF j
  <2>4. Seen(r)' = Seen(r)
    BY <2>2, <2>3 DEF Seen, IInv, TypeOK
  <2>5. j.sums = Aggregate(Given(Seen(r)))'
    BY <2>3, <2>4 DEF sums, Given
  <2>6. CASE r \in Busy \cap crossed
    BY <2>2, <2>6, CrossedGoesOn
  <2>7. CASE r \in Alone
    <3>1. Busy = {r} /\ (job[r].holds /\ job[r].row # NoReview =>
                           review[job[r].author].id = job[r].row.id)
      BY <2>7 DEF AloneInv, SoleRequest
    <3>2. ~disturbed /\ ~Pending(j) => InStep'
      <4> SUFFICES ASSUME ~disturbed, ~Pending(j) PROVE InStep'
        OBVIOUS
      <4>1. \A q \in Requests : ~Pending(job[q])
        BY <2>3, <3>1 DEF Pending, Busy
      <4> QED BY <2>2, <4>1 DEF AloneInv, Undisturbed, InStep
    <3> QED BY <2>2, <2>3, <2>5, <2>7, <3>1, <3>2, SoleGoesOn
  <2> QED BY <1>1, <2>2, <2>6, <2>7
<1>10. CASE StoreRating(r)
  <2>1. /\ job' = [job EXCEPT ![r] = Idle] /\ UNCHANGED crossed /\ r \in Busy
        /\ review' = Seen(r) /\ shown' = job[r].sums
        /\ disturbed' = (disturbed /\ r \in crossed) /\ job[r].pc = "store"
    BY <1>10 DEF StoreRating, End, Busy
  <2>2. CASE r \in Busy \cap crossed
    BY <2>1, <2>2, CrossedGoesOn
  <2>3. CASE r \in Alone
    <3>1. InStep'
      BY <2>1, <2>3 DEF AloneInv, SoleRequest, InStep, Given
    <3> QED BY <2>1, <2>3, <3>1, IdleType, SoleGoesOn DEF Idle
  <2> QED BY <1>1, <2>1, <2>2, <2>3
<1>11. CASE SaveEdit(r)
  <2>1. /\ job' = [job EXCEPT ![r] = Idle] /\ UNCHANGED <<crossed, disturbed, review>>
        /\ r \in Busy /\ shown' = job[r].sums /\ job[r].pc = "edit"
    BY <1>11 DEF SaveEdit, End, Busy
  <2>2. CASE r \in Busy \cap crossed
    BY <2>1, <2>2, CrossedGoesOn
  <2>3. CASE r \in Alone
    <3>1. Busy = {r}
      BY <2>3 DEF AloneInv, SoleRequest
    <3>2. \A q \in Requests : ~Pending(job[q])
      BY <2>1, <3>1 DEF Pending, Busy
    <3>3. ~disturbed' => InStep'
      BY <2>1, <3>2 DEF AloneInv, Undisturbed, InStep, Given
    <3> QED BY <2>1, <2>3, <3>3, IdleType, SoleGoesOn DEF Idle
  <2> QED BY <1>1, <2>1, <2>2, <2>3
<1>12. CASE Refused(r) \/ RequestDies(r)
  <2>1. /\ job' = [job EXCEPT ![r] = Idle] /\ UNCHANGED <<crossed, review, shown>>
        /\ r \in Busy /\ (disturbed => disturbed') /\ (Pending(job[r]) => disturbed')
    BY <1>12 DEF Refused, RequestDies, End, Busy, Pending, IInv, TypeOK
  <2>2. CASE r \in Busy \cap crossed
    BY <2>1, <2>2, CrossedGoesOn
  <2>3. CASE r \in Alone
    <3>1. Busy = {r}
      BY <2>3 DEF AloneInv, SoleRequest
    <3>2. ~Pending(job[r]) => \A q \in Requests : ~Pending(job[q])
      BY <3>1 DEF Pending, Busy
    <3>3. ~disturbed' => InStep'
      BY <2>1, <3>2 DEF AloneInv, Undisturbed, InStep
    <3> QED BY <2>1, <2>3, <3>3, IdleType, SoleGoesOn DEF Idle
  <2> QED BY <1>1, <2>1, <2>2, <2>3
<1> QED BY <1>2, <1>3, <1>4, <1>5, <1>6, <1>7, <1>8, <1>9, <1>10, <1>11, <1>12 DEF RequestStep

LEMMA NextAlone == IInv /\ AloneInv /\ [Next]_vars => AloneInv'
<1> SUFFICES ASSUME IInv, AloneInv, [Next]_vars PROVE AloneInv'
  OBVIOUS
<1>1. CASE UNCHANGED vars \/ (\E a, b \in Authors : Report(a, b)) \/ (\E a \in Authors : Engage(a))
  <2>1. UNCHANGED <<job, review, shown, crossed, disturbed>>
    BY <1>1 DEF vars, Report, Engage
  <2> QED BY <2>1 DEF AloneInv, Alone, SoleRequest, Undisturbed, Busy, Seen, InStep
<1>2. ASSUME NEW s \in Typed, TypeRating(s)
      PROVE  AloneInv'
  BY <1>2 DEF TypeRating, AloneInv, Alone, SoleRequest, Busy, Seen
<1>3. ASSUME NEW r \in Requests, RequestStep(r)
      PROVE  AloneInv'
  BY <1>3, RequestAlone
<1> QED BY <1>1, <1>2, <1>3 DEF Next

(***************************************************************************)
(* Whatever was wrong with the rating is put right by one recompute that   *)
(* runs alone, and without an overlap or a death since then the columns    *)
(* are those of the rows when nothing is in progress: for any number of    *)
(* authors, requests and reviews, transactions and stale copies included.  *)
(***************************************************************************)
THEOREM RatingFollowsRows == Spec => []InStepUnlessDisturbed
<1>1. AloneInv => InStepUnlessDisturbed
  BY DEF AloneInv, Undisturbed, InStepUnlessDisturbed, Busy, Pending
<1> QED BY <1>1, InitAlone, NextAlone, SpecIInv, PTL DEF Spec

(***************************************************************************)
(* A deleted review comes back only through a request that ran beside      *)
(* another one.                                                            *)
(***************************************************************************)
THEOREM NoRevivalAlone == Spec => OnlyRacesRevive
<1> DEFINE Revived(a) == review'[a].id \in deleted /\ review'[a].id # review[a].id
<1>1. ASSUME IInv, AloneInv, [Next]_vars, NEW a \in Authors, Revived(a)
      PROVE  \E r \in Busy \cap crossed : job'[r] # job[r]
  <2>1. ~UNCHANGED review
    BY <1>1
  <2>2. PICK r \in Requests : InsertReview(r) \/ SaveReview(r) \/ StoreRating(r)
    BY <1>1, <2>1
       DEF Next, RequestStep, vars, StartPost, StartChange, StartDelete, DeleteReview,
       AggregateRows, StartEdit, SaveEdit, Refused, RequestDies, TypeRating, Report, Engage
  <2>3. /\ r \in Busy /\ (r \notin crossed => SoleRequest(r))
        /\ job[r] \in Job /\ Carries(job[r])
    BY <1>1, <2>2 DEF InsertReview, SaveReview, StoreRating, Busy, AloneInv, Alone, IInv,
       TypeOK, RequestsCarry
  <2>4. job'[r] # job[r]
    <3>1. job'[r].pc # job[r].pc
      <4>1. CASE InsertReview(r)
        BY <1>1, <4>1 DEF InsertReview, GoOn, IInv, TypeOK, Job
      <4>2. CASE SaveReview(r)
        BY <1>1, <4>2 DEF SaveReview, GoOn, IInv, TypeOK, Job
      <4>3. CASE StoreRating(r)
        BY <1>1, <4>3 DEF StoreRating, End, Idle, IInv, TypeOK
      <4> QED BY <2>2, <4>1, <4>2, <4>3
    <3> QED BY <3>1
  <2>5. CASE InsertReview(r)
    <3>1. PICK n \in Ids \ deleted :
            review' = [review EXCEPT ![job[r].author] = [id |-> n, rating |-> job[r].row.rating]]
      BY <2>5 DEF InsertReview
    <3>2. FALSE
      BY <1>1, <3>1 DEF IInv, TypeOK
    <3> QED BY <3>2
  <2>6. CASE SaveReview(r)
    <3>1. review' = [review EXCEPT ![job[r].author] = job[r].row] /\ job[r].pc = "save"
      BY <2>1, <2>6 DEF SaveReview
    <3>2. a = job[r].author /\ job[r].row.id # review[a].id
      BY <1>1, <3>1 DEF IInv, TypeOK
    <3>3. r \in crossed
      BY <2>3, <3>1, <3>2 DEF SoleRequest
    <3> QED BY <2>3, <2>4, <3>3
  <2>7. CASE StoreRating(r)
    <3>1. review' = [review EXCEPT ![job[r].author] = job[r].row] /\ job[r].holds
      BY <2>1, <2>7 DEF StoreRating, Seen
    <3>2. a = job[r].author /\ job[r].row.id # review[a].id /\ job[r].row.id \in deleted
      BY <1>1, <3>1 DEF IInv, TypeOK
    <3>3. job[r].row # NoReview
      BY <1>1, <3>2 DEF IInv, TypeOK, NoReview
    <3>4. r \in crossed
      BY <2>3, <3>1, <3>2, <3>3 DEF SoleRequest
    <3> QED BY <2>3, <2>4, <3>4
  <2> QED BY <2>2, <2>5, <2>6, <2>7
<1>2. IInv /\ AloneInv /\ [Next]_vars =>
        [\A a \in Authors : review'[a].id \in deleted /\ review'[a].id # review[a].id =>
           \E r \in Busy \cap crossed : job'[r] # job[r]]_vars
  BY <1>1
<1> QED BY <1>2, InitAlone, NextAlone, SpecIInv, PTL DEF Spec, OnlyRacesRevive
=============================================================================
