-------------------------- MODULE Listings_proofs --------------------------
(***************************************************************************)
(* Proofs about Listings, for any number of requests, workers, reasons and *)
(* hours.  The induction says what a request knows of the row while its    *)
(* reading is not out of date (EditorsKnow), and that the decision in      *)
(* force is told or on its way to the owner (Owed).                        *)
(***************************************************************************)
EXTENDS Listings, TLAPS

\* What the state s of a request implies of the row and of what was on a screen.
Knows(s, row, seen) ==
  ~s.stale =>
    /\ s.step \in {"patch", "screen", "approve", "reject", "form", "feature"} => row.life = "live"
    /\ s.step \in {"screen", "approve", "reject", "form"} => row.content \in seen
    /\ s.step = "feature" => s.copy = row
    /\ s.step = "select" /\ row.life = "live" /\ row.status = "ACTIVE" => ~Due(row, s.began)

EditorsKnow == \A r \in Editors : Knows(editor[r], listing, shown)

\* A message with reason c will carry the decision: an approval has no reason to carry.
Fits(news, c) == news.status = "REJECTED" => news.reason = c

OnItsWay ==
  \/ \E r \in Editors : editor[r].step = "announce" /\ Fits(decision, editor[r].reason)
  \/ \E c \in Reasons : reviewQueue[c] > 0 /\ Fits(decision, c)
  \/ \E w \in ReviewWorkers : reviewer[w] # NoJob /\ reviewer[w].news = decision

\* A decision as it stands on the row.
Standing(row, news) ==
  InForce(row, news) /\ (news.status = "ACTIVE" => news.reason = NoComment)

Owed == decision # NoNews => Standing(listing, decision) /\ (told \/ OnItsWay)

IInv == ListingsTypeOK /\ ActiveWasShown /\ EditorsKnow /\ Owed

USE ListingsAssumption

-----------------------------------------------------------------------------
LEMMA Values ==
  /\ NewRow \in ListingRows /\ EditorIdle \in EditorStates /\ EditorIdle.step = "idle"
  /\ NoNews \in News /\ NoNews.status = "none" /\ NoJob \in ReviewJobs /\ NoJob.news = NoNews
  /\ NoComment \in Reasons /\ Comments \subseteq Reasons
<1>1. 1 \in Contents /\ MaxTime + 1 \in Starts /\ 0 \in 0..MaxTime /\ NoComment \in Reasons
  BY DEF Contents, Starts, Reasons
<1>2. NewRow \in ListingRows
  BY <1>1 DEF NewRow, ListingRows, ListingStatus
<1>3. EditorIdle \in EditorStates /\ EditorIdle.step = "idle"
  BY <1>1, <1>2 DEF EditorIdle, EditorStates, EditorSteps
<1>4. NoNews \in News /\ NoNews.status = "none"
  BY <1>1 DEF NoNews, News
<1>5. NoJob \in ReviewJobs /\ NoJob.news = NoNews
  BY <1>1, <1>4 DEF NoJob, ReviewJobs
<1> QED BY <1>1, <1>2, <1>3, <1>4, <1>5 DEF Reasons

LEMMA InitHolds == ListingsInit => IInv
<1> SUFFICES ASSUME ListingsInit PROVE IInv
  OBVIOUS
<1>1. ListingsTypeOK
  <2>1. listing \in ListingRows /\ editor \in [Editors -> EditorStates] /\ decision \in News
    BY Values DEF ListingsInit
  <2>2. reviewQueue \in [Reasons -> 0..MaxTold] /\ hour \in 0..MaxTime
    BY DEF ListingsInit
  <2>3. reviewer \in [ReviewWorkers -> ReviewJobs] /\ shown \subseteq Contents
    BY Values DEF ListingsInit
  <2>4. told \in BOOLEAN /\ overtaken \in BOOLEAN
    BY DEF ListingsInit
  <2> QED BY <2>1, <2>2, <2>3, <2>4 DEF ListingsTypeOK
<1>2. ActiveWasShown /\ Owed
  BY DEF ListingsInit, ActiveWasShown, Owed, NewRow
<1>3. EditorsKnow
  BY Values DEF ListingsInit, EditorsKnow, Knows
<1> QED BY <1>1, <1>2, <1>3 DEF IInv

LEMMA InvImplies == IInv => ModerationSound
<1> SUFFICES ASSUME IInv PROVE ModerationSound
  OBVIOUS
<1>1. DecisionInForceTold
  <2> SUFFICES ASSUME decision # NoNews, \A c \in Reasons : reviewQueue[c] = 0,
                      \A w \in ReviewWorkers : reviewer[w] = NoJob,
                      \A r \in Editors : editor[r].step # "announce"
               PROVE  told
    BY DEF DecisionInForceTold
  <2>1. ~OnItsWay
    BY DEF OnItsWay
  <2> QED BY <2>1 DEF IInv, Owed
<1> QED BY <1>1 DEF IInv, ModerationSound

-----------------------------------------------------------------------------
(* Steps of requests.                                                      *)

LEMMA ProceedType ==
  ASSUME ListingsTypeOK, NEW r \in Editors, NEW state \in EditorStates, NEW changed \in BOOLEAN,
         Proceed(r, state, changed)
  PROVE  /\ editor' \in [Editors -> EditorStates] /\ editor'[r] = state
         /\ \A e \in Editors \ {r} :
              /\ editor'[e].step = editor[e].step /\ editor'[e].reason = editor[e].reason
              /\ ~changed => editor'[e] = editor[e]
              /\ changed /\ editor[e].step \notin {"idle", "delete", "announce"} => editor'[e].stale
<1>1. \A e \in Editors : editor[e] \in EditorStates
  BY DEF ListingsTypeOK
<1>2. \A e \in Editors : LET s == [editor[e] EXCEPT !.stale = TRUE]
                         IN  s \in EditorStates /\ s.step = editor[e].step /\ s.stale = TRUE
                             /\ s.reason = editor[e].reason
  BY <1>1 DEF EditorStates
<1> QED BY <1>1, <1>2 DEF Proceed

\* A step that leaves the row alone.
LEMMA ReadStep ==
  ASSUME IInv, NEW r \in Editors, NEW state \in EditorStates,
         editor[r].step # "announce", Proceed(r, state, FALSE), ReadOnly,
         shown \subseteq shown', shown' \subseteq Contents, Knows(state, listing, shown')
  PROVE  IInv'
<1>1. /\ editor' \in [Editors -> EditorStates] /\ editor'[r] = state
      /\ \A e \in Editors \ {r} : editor'[e] = editor[e]
  BY ProceedType DEF IInv
<1>2. ListingsTypeOK'
  BY <1>1 DEF IInv, ListingsTypeOK, ReadOnly
<1>3. ActiveWasShown'
  BY DEF IInv, ActiveWasShown, ReadOnly
<1>4. EditorsKnow'
  <2> SUFFICES ASSUME NEW e \in Editors PROVE Knows(editor'[e], listing, shown')
    BY DEF EditorsKnow, ReadOnly, Knows, Due
  <2>1. CASE e = r
    BY <1>1, <2>1
  <2>2. CASE e # r
    BY <1>1, <2>2 DEF IInv, EditorsKnow, Knows
  <2> QED BY <2>1, <2>2
<1>5. Owed'
  <2>1. OnItsWay => OnItsWay'
    BY <1>1 DEF OnItsWay, ReadOnly
  <2>2. UNCHANGED <<listing, decision, told>>
    BY DEF ReadOnly
  <2> QED BY <2>1, <2>2 DEF IInv, Owed, Standing, InForce
<1> QED BY <1>2, <1>3, <1>4, <1>5 DEF IInv

\* A step that writes the row: whoever had read it is out of date.
LEMMA WriteStep ==
  ASSUME IInv, NEW r \in Editors, NEW state \in EditorStates, NEW row \in ListingRows,
         listing' = row, Proceed(r, state, TRUE),
         shown \subseteq shown', shown' \subseteq Contents, Knows(state, row, shown'),
         overtaken' \in BOOLEAN, decision' \in News, told' \in BOOLEAN,
         row.life = "live" /\ row.status = "ACTIVE" /\ ~overtaken' => row.content \in shown',
         decision' # NoNews => Standing(row, decision'),
         decision' # NoNews /\ ~told' =>
           \/ state.step = "announce" /\ Fits(decision', state.reason)
           \/ decision' = decision /\ ~told /\ editor[r].step # "announce",
         UNCHANGED <<hour, reviewQueue, reviewer>>
  PROVE  IInv'
<1>1. /\ editor' \in [Editors -> EditorStates] /\ editor'[r] = state
      /\ \A e \in Editors \ {r} :
           /\ editor'[e].step = editor[e].step /\ editor'[e].reason = editor[e].reason
           /\ editor[e].step \notin {"idle", "delete", "announce"} => editor'[e].stale
  BY ProceedType DEF IInv
<1>2. ListingsTypeOK'
  BY <1>1 DEF IInv, ListingsTypeOK
<1>3. ActiveWasShown'
  BY DEF ActiveWasShown
<1>4. EditorsKnow'
  <2> SUFFICES ASSUME NEW e \in Editors PROVE Knows(editor'[e], row, shown')
    BY DEF EditorsKnow, Knows, Due
  <2>1. CASE e = r
    BY <1>1, <2>1
  <2>2. CASE e # r
    BY <1>1, <2>2 DEF Knows
  <2> QED BY <2>1, <2>2
<1>5. Owed'
  <2> SUFFICES ASSUME decision' # NoNews, ~told' PROVE OnItsWay'
    BY DEF Owed, Standing, InForce
  <2>1. CASE state.step = "announce" /\ Fits(decision', state.reason)
    BY <1>1, <2>1 DEF OnItsWay, Fits
  <2>2. CASE decision' = decision /\ ~told /\ editor[r].step # "announce"
    <3>1. OnItsWay
      BY <2>2 DEF IInv, Owed
    <3> QED BY <1>1, <2>2, <3>1 DEF OnItsWay, Fits
  <2> QED BY <2>1, <2>2
<1> QED BY <1>2, <1>3, <1>4, <1>5 DEF IInv

\* No decision stands on a row that is not live.
LEMMA NothingStands ==
  ASSUME IInv, listing.life # "live" PROVE decision = NoNews
BY DEF IInv, Owed, Standing, InForce

\* The full save of a copy.
LEMMA SaveStep ==
  ASSUME IInv, NEW r \in Editors, NEW row \in ListingRows,
         editor[r].step \in {"patch", "form", "feature"}, Save(r, row),
         shown \subseteq shown', shown' \subseteq Contents,
         row.life = "live" /\ row.status = "ACTIVE" /\ ~overtaken /\ ~editor[r].stale
           => row.content \in shown'
  PROVE  IInv'
<1>1. /\ listing' = row /\ Proceed(r, EditorIdle, TRUE)
      /\ overtaken' = (overtaken \/ editor[r].stale)
      /\ decision' = (IF InForce(row, decision) THEN decision ELSE NoNews)
      /\ told' = (told /\ InForce(row, decision))
      /\ UNCHANGED <<hour, reviewQueue, reviewer>>
  BY DEF Save
<1>2. /\ overtaken \in BOOLEAN /\ told \in BOOLEAN /\ decision \in News
      /\ editor[r].stale \in BOOLEAN
  BY DEF IInv, ListingsTypeOK, EditorStates
<1>3. overtaken' \in BOOLEAN /\ told' \in BOOLEAN /\ decision' \in News
  <2>1. InForce(row, decision) \in BOOLEAN
    BY DEF InForce, ListingRows
  <2> QED BY <1>1, <1>2, <2>1, Values
<1>4. row.life = "live" /\ row.status = "ACTIVE" /\ ~overtaken' => row.content \in shown'
  BY <1>1, <1>2
<1>5. decision' # NoNews => Standing(row, decision')
  BY <1>1 DEF IInv, Owed, Standing
<1>6. decision' # NoNews /\ ~told' => decision' = decision /\ ~told
  BY <1>1, <1>2
<1>7. Knows(EditorIdle, row, shown')
  BY Values DEF Knows
<1> QED BY <1>1, <1>3, <1>4, <1>5, <1>6, <1>7, Values, WriteStep

-----------------------------------------------------------------------------
(* The owner.                                                              *)

LEMMA ResolvedType ==
  ASSUME NEW wanted, NEW verified
  PROVE  Resolved(wanted, verified) \in ListingStatus /\ Resolved(wanted, verified) # "ACTIVE"
BY DEF Resolved, ListingStatus

\* The first row of an id: created by the owner or added by a moderator.
LEMMA FirstRowHolds ==
  ASSUME IInv, NEW r \in Editors, CreateListing(r) \/ AddListing(r) PROVE IInv'
<1>1. 1 \in Contents
  BY DEF Contents
<1>2. \E row \in ListingRows :
        /\ listing' = row /\ row.content = 1
        /\ shown' = shown \cup {1} \/ (shown' = shown /\ row.status # "ACTIVE")
  <2>1. CASE CreateListing(r)
    <3>1. PICK wanted \in {"DRAFT", "PENDING"}, verified \in BOOLEAN, s \in Starts :
            listing' = [NewRow EXCEPT !.life = "live", !.status = Resolved(wanted, verified),
                                      !.starts = s]
      BY <2>1 DEF CreateListing
    <3> DEFINE row == [NewRow EXCEPT !.life = "live", !.status = Resolved(wanted, verified),
                                     !.starts = s]
    <3>2. row \in ListingRows /\ row.content = 1 /\ row.status = Resolved(wanted, verified)
      BY Values, ResolvedType DEF NewRow, ListingRows
    <3>3. listing' = row
      BY <3>1
    <3> HIDE DEF row
    <3>4. shown' = shown
      BY <2>1 DEF CreateListing
    <3>5. row.status # "ACTIVE"
      BY <3>2, ResolvedType
    <3> QED BY <3>2, <3>3, <3>4, <3>5
  <2>2. CASE AddListing(r)
    <3>1. PICK st \in ListingStatus, s \in Starts, o \in BOOLEAN :
            listing' = [NewRow EXCEPT !.life = "live", !.owned = o, !.status = st, !.starts = s]
      BY <2>2 DEF AddListing
    <3> DEFINE row == [NewRow EXCEPT !.life = "live", !.owned = o, !.status = st, !.starts = s]
    <3>2. row \in ListingRows /\ row.content = 1
      BY Values DEF NewRow, ListingRows
    <3>3. listing' = row
      BY <3>1
    <3> HIDE DEF row
    <3> QED BY <2>2, <3>2, <3>3 DEF AddListing
  <2> QED BY <2>1, <2>2
<1>3. PICK row \in ListingRows :
        /\ listing' = row /\ row.content = 1
        /\ shown' = shown \cup {1} \/ (shown' = shown /\ row.status # "ACTIVE")
  BY <1>2
<1>4. /\ editor[r].step = "idle" /\ listing.life = "new" /\ Proceed(r, EditorIdle, TRUE)
      /\ UNCHANGED <<hour, reviewQueue, reviewer, decision, told, overtaken>>
  BY DEF CreateListing, AddListing
<1>5. decision' = NoNews
  BY <1>4, NothingStands
<1>6. overtaken' \in BOOLEAN /\ decision' \in News /\ told' \in BOOLEAN /\ shown \subseteq Contents
  BY <1>4 DEF IInv, ListingsTypeOK
<1>7. Knows(EditorIdle, row, shown')
  BY Values DEF Knows
<1> QED BY <1>1, <1>3, <1>4, <1>5, <1>6, <1>7, Values, WriteStep

LEMMA StartPatchHolds ==
  ASSUME IInv, NEW r \in Editors, StartPatch(r) PROVE IInv'
<1> DEFINE copy == [listing EXCEPT !.status = "DRAFT", !.content = 1]
           state == Opened("patch", copy)
<1>1. copy \in ListingRows
  <2>1. 1 \in Contents /\ "DRAFT" \in ListingStatus
    BY DEF Contents, ListingStatus
  <2> QED BY <2>1 DEF IInv, ListingsTypeOK, ListingRows
<1> HIDE DEF copy
<1>2. state \in EditorStates /\ state.step = "patch"
  BY <1>1, Values DEF Opened, EditorIdle, EditorStates, EditorSteps
<1>3. /\ editor[r].step = "idle" /\ listing.life = "live" /\ Proceed(r, state, FALSE)
      /\ UNCHANGED shown /\ ReadOnly
  BY DEF StartPatch, copy
<1>4. shown \subseteq Contents
  BY DEF IInv, ListingsTypeOK
<1> HIDE DEF state
<1>5. Knows(state, listing, shown')
  BY <1>2, <1>3 DEF Knows
<1> QED BY <1>2, <1>3, <1>4, <1>5, ReadStep

LEMMA SavePatchHolds ==
  ASSUME IInv, NEW r \in Editors, SavePatch(r) PROVE IInv'
<1>1. PICK wanted \in {"DRAFT", "PENDING"}, verified \in BOOLEAN, s \in Starts :
        /\ listing.content < MaxContent
        /\ Save(r, [editor[r].copy EXCEPT !.status = Resolved(wanted, verified),
                                          !.content = listing.content + 1, !.starts = s])
  BY DEF SavePatch
<1> DEFINE row == [editor[r].copy EXCEPT !.status = Resolved(wanted, verified),
                                         !.content = listing.content + 1, !.starts = s]
<1>2. editor[r].copy \in ListingRows /\ listing.content \in Contents /\ shown \subseteq Contents
  BY DEF IInv, ListingsTypeOK, EditorStates, ListingRows
<1>3. listing.content + 1 \in Contents
  BY <1>1, <1>2 DEF Contents
<1>4. row \in ListingRows /\ row.status # "ACTIVE"
  BY <1>2, <1>3, ResolvedType DEF ListingRows
<1>5. Save(r, row)
  BY <1>1
<1> HIDE DEF row
<1> QED BY <1>2, <1>4, <1>5, SaveStep DEF SavePatch

LEMMA StartDeleteHolds ==
  ASSUME IInv, NEW r \in Editors, StartDeleteListing(r) PROVE IInv'
<1> DEFINE state == Opened("delete", NewRow)
<1>1. state \in EditorStates /\ state.step = "delete"
  BY Values DEF Opened, EditorIdle, EditorStates, EditorSteps
<1>2. Knows(state, listing, shown')
  BY <1>1 DEF Knows
<1>3. shown \subseteq Contents
  BY DEF IInv, ListingsTypeOK
<1> HIDE DEF state
<1> QED BY <1>1, <1>2, <1>3, ReadStep DEF StartDeleteListing, state

LEMMA DeleteHolds ==
  ASSUME IInv, NEW r \in Editors, DeleteListing(r) PROVE IInv'
<1> DEFINE row == [listing EXCEPT !.life = "gone"]
<1>1. row \in ListingRows /\ row.life = "gone"
  BY DEF IInv, ListingsTypeOK, ListingRows
<1>2. /\ listing' = row /\ Proceed(r, EditorIdle, TRUE) /\ decision' = NoNews /\ told' = FALSE
      /\ UNCHANGED <<hour, reviewQueue, reviewer, shown, overtaken>>
  BY DEF DeleteListing
<1> HIDE DEF row
<1>3. Knows(EditorIdle, row, shown')
  BY Values DEF Knows
<1>4. overtaken' \in BOOLEAN /\ shown \subseteq Contents
  BY <1>2 DEF IInv, ListingsTypeOK
<1> QED BY <1>1, <1>2, <1>3, <1>4, Values, WriteStep

-----------------------------------------------------------------------------
(* The moderators.                                                         *)

LEMMA OpenScreenHolds ==
  ASSUME IInv, NEW r \in Editors, OpenScreen(r) PROVE IInv'
<1> DEFINE copy == [NewRow EXCEPT !.life = "live", !.content = listing.content]
           state == Opened("screen", copy)
<1>1. listing.content \in Contents /\ shown \subseteq Contents
  BY DEF IInv, ListingsTypeOK, ListingRows
<1>2. copy \in ListingRows
  BY <1>1, Values DEF ListingRows
<1>3. /\ editor[r].step = "idle" /\ listing.life = "live" /\ Proceed(r, state, FALSE)
      /\ shown' = shown \cup {listing.content} /\ ReadOnly
  BY DEF OpenScreen
<1> HIDE DEF copy
<1>4. state \in EditorStates /\ state.step = "screen"
  BY <1>2, Values DEF Opened, EditorIdle, EditorStates, EditorSteps
<1> HIDE DEF state
<1>5. Knows(state, listing, shown')
  BY <1>3, <1>4 DEF Knows
<1> QED BY <1>1, <1>3, <1>4, <1>5, ReadStep

\* From the screen to a statement of its own: the row is live, and what the screen showed is
\* the row unless the screen is out of date.
LEMMA LeaveScreen ==
  ASSUME IInv, NEW r \in Editors, NEW state \in EditorStates,
         editor[r].step = "screen", listing.life = "live", Proceed(r, state, FALSE),
         UNCHANGED shown, ReadOnly, state.stale = editor[r].stale,
         state.step \in {"approve", "reject", "form"} \/ (state.step = "feature" /\ state.copy = listing)
  PROVE  IInv'
<1>1. Knows(state, listing, shown')
  BY DEF Knows, IInv, EditorsKnow
<1>2. shown \subseteq Contents
  BY DEF IInv, ListingsTypeOK
<1> QED BY <1>1, <1>2, ReadStep

LEMMA LoadSelectedHolds ==
  ASSUME IInv, NEW r \in Editors, LoadSelected(r) PROVE IInv'
<1>1. editor[r] \in EditorStates
  BY DEF IInv, ListingsTypeOK
<1>2. CASE Proceed(r, [editor[r] EXCEPT !.step = "approve", !.copy = NewRow], FALSE)
  <2> DEFINE state == [editor[r] EXCEPT !.step = "approve", !.copy = NewRow]
  <2>1. state \in EditorStates /\ state.step = "approve" /\ state.stale = editor[r].stale
    BY <1>1, Values DEF EditorStates, EditorSteps
  <2>2. Proceed(r, state, FALSE)
    BY <1>2
  <2> HIDE DEF state
  <2> QED BY <2>1, <2>2, LeaveScreen DEF LoadSelected
<1>3. ASSUME NEW c \in Comments,
             Proceed(r, [editor[r] EXCEPT !.step = "reject", !.copy = NewRow, !.reason = c], FALSE)
      PROVE  IInv'
  <2> DEFINE state == [editor[r] EXCEPT !.step = "reject", !.copy = NewRow, !.reason = c]
  <2>1. state \in EditorStates /\ state.step = "reject" /\ state.stale = editor[r].stale
    BY <1>1, Values DEF EditorStates, EditorSteps
  <2>2. Proceed(r, state, FALSE)
    BY <1>3
  <2> HIDE DEF state
  <2> QED BY <2>1, <2>2, LeaveScreen DEF LoadSelected
<1> QED BY <1>2, <1>3 DEF LoadSelected

LEMMA LoadFormHolds ==
  ASSUME IInv, NEW r \in Editors, LoadForm(r) PROVE IInv'
<1> DEFINE copy == [editor[r].copy EXCEPT !.reason = listing.reason]
           state == [editor[r] EXCEPT !.step = "form", !.copy = copy]
<1>1. editor[r] \in EditorStates /\ editor[r].copy \in ListingRows /\ listing.reason \in Reasons
  BY DEF IInv, ListingsTypeOK, EditorStates, ListingRows
<1>2. copy \in ListingRows
  BY <1>1 DEF ListingRows
<1>3. Proceed(r, state, FALSE)
  BY <1>1 DEF LoadForm, EditorStates
<1> HIDE DEF copy
<1>4. state \in EditorStates /\ state.step = "form" /\ state.stale = editor[r].stale
  BY <1>1, <1>2 DEF EditorStates, EditorSteps
<1> HIDE DEF state
<1> QED BY <1>3, <1>4, LeaveScreen DEF LoadForm

LEMMA LoadFeatureHolds ==
  ASSUME IInv, NEW r \in Editors, LoadFeature(r) PROVE IInv'
<1> DEFINE state == [editor[r] EXCEPT !.step = "feature", !.copy = listing]
<1>1. editor[r] \in EditorStates /\ listing \in ListingRows
  BY DEF IInv, ListingsTypeOK
<1>2. /\ state \in EditorStates /\ state.step = "feature" /\ state.stale = editor[r].stale
      /\ state.copy = listing
  BY <1>1 DEF EditorStates, EditorSteps
<1>3. Proceed(r, state, FALSE)
  BY DEF LoadFeature
<1> HIDE DEF state
<1> QED BY <1>2, <1>3, LeaveScreen DEF LoadFeature

LEMMA SaveFormHolds ==
  ASSUME IInv, NEW r \in Editors, SaveForm(r) PROVE IInv'
<1>1. PICK st \in ListingStatus, s \in Starts, o \in BOOLEAN, content \in Contents :
        /\ Save(r, [editor[r].copy EXCEPT !.status = st, !.starts = s, !.owned = o,
                                          !.content = content])
        /\ shown' = shown \cup {content}
  BY DEF SaveForm
<1> DEFINE row == [editor[r].copy EXCEPT !.status = st, !.starts = s, !.owned = o,
                                         !.content = content]
<1>2. editor[r].copy \in ListingRows /\ shown \subseteq Contents
  BY DEF IInv, ListingsTypeOK, EditorStates
<1>3. row \in ListingRows /\ row.content = content
  BY <1>2 DEF ListingRows
<1>4. Save(r, row)
  BY <1>1
<1> HIDE DEF row
<1> QED BY <1>1, <1>2, <1>3, <1>4, SaveStep DEF SaveForm

LEMMA SaveFeatureHolds ==
  ASSUME IInv, NEW r \in Editors, SaveFeature(r) PROVE IInv'
<1>1. editor[r].copy \in ListingRows /\ shown \subseteq Contents
  BY DEF IInv, ListingsTypeOK, EditorStates
<1>2. ~editor[r].stale => editor[r].copy = listing
  BY DEF SaveFeature, IInv, EditorsKnow, Knows
<1> QED BY <1>1, <1>2, SaveStep DEF SaveFeature, IInv, ActiveWasShown

\* An action writes its columns over the row as it is.
LEMMA DecideHolds ==
  ASSUME IInv, NEW r \in Editors, NEW news \in News, NEW row \in ListingRows,
         editor[r].step \in {"approve", "reject"}, Decide(r, news, row),
         row.life = listing.life, row.content = listing.content, row.status = news.status,
         news.status = "ACTIVE" => news.reason = NoComment,
         news.status = "REJECTED" => news.reason = editor[r].reason /\ row.reason = news.reason
  PROVE  IInv'
<1> DEFINE state == [editor[r] EXCEPT !.step = "announce", !.stale = FALSE]
<1>1. editor[r] \in EditorStates
  BY DEF IInv, ListingsTypeOK
<1>2. state \in EditorStates /\ state.step = "announce" /\ state.reason = editor[r].reason
  BY <1>1 DEF EditorStates, EditorSteps
<1>3. /\ listing.life = "live" /\ listing' = row /\ Proceed(r, state, TRUE)
      /\ overtaken' = (overtaken \/ editor[r].stale)
      /\ decision' = (IF row.owned THEN news ELSE NoNews) /\ told' = FALSE
      /\ UNCHANGED <<hour, reviewQueue, reviewer, shown>>
  BY DEF Decide
<1> HIDE DEF state
<1>4. overtaken \in BOOLEAN /\ editor[r].stale \in BOOLEAN /\ shown \subseteq Contents
  BY DEF IInv, ListingsTypeOK, EditorStates
<1>5. overtaken' \in BOOLEAN /\ decision' \in News
  BY <1>3, <1>4, Values
<1>6. ~overtaken' => row.content \in shown'
  BY <1>3, <1>4 DEF IInv, EditorsKnow, Knows
<1>7. decision' # NoNews => Standing(row, decision') /\ Fits(decision', state.reason)
  BY <1>2, <1>3 DEF Standing, InForce, Fits
<1>8. Knows(state, row, shown')
  BY <1>2 DEF Knows
<1> QED BY <1>2, <1>3, <1>4, <1>5, <1>6, <1>7, <1>8, WriteStep

LEMMA SaveApprovedHolds ==
  ASSUME IInv, NEW r \in Editors, SaveApproved(r) PROVE IInv'
<1> DEFINE news == [status |-> "ACTIVE", reason |-> NoComment]
           row == [listing EXCEPT !.status = "ACTIVE"]
<1>1. news \in News /\ news.status = "ACTIVE" /\ news.reason = NoComment
  BY Values DEF News
<1>2. /\ row \in ListingRows /\ row.life = listing.life /\ row.content = listing.content
      /\ row.status = "ACTIVE"
  BY DEF IInv, ListingsTypeOK, ListingRows, ListingStatus
<1>3. Decide(r, news, row) /\ editor[r].step = "approve"
  BY DEF SaveApproved
<1> HIDE DEF news, row
<1> QED BY <1>1, <1>2, <1>3, DecideHolds

LEMMA SaveRejectedHolds ==
  ASSUME IInv, NEW r \in Editors, SaveRejected(r) PROVE IInv'
<1> DEFINE news == [status |-> "REJECTED", reason |-> editor[r].reason]
           row == [listing EXCEPT !.status = "REJECTED", !.reason = editor[r].reason]
<1>1. editor[r].reason \in Reasons
  BY DEF IInv, ListingsTypeOK, EditorStates
<1>2. news \in News /\ news.status = "REJECTED" /\ news.reason = editor[r].reason
  BY <1>1 DEF News
<1>3. /\ row \in ListingRows /\ row.life = listing.life /\ row.content = listing.content
      /\ row.status = "REJECTED" /\ row.reason = editor[r].reason
  BY <1>1 DEF IInv, ListingsTypeOK, ListingRows, ListingStatus
<1>4. Decide(r, news, row) /\ editor[r].step = "reject"
  BY DEF SaveRejected
<1> HIDE DEF news, row
<1> QED BY <1>2, <1>3, <1>4, DecideHolds

\* The message passes from the request to the queue.
LEMMA AnnounceHolds ==
  ASSUME IInv, NEW r \in Editors, Announce(r) PROVE IInv'
<1> DEFINE c == editor[r].reason
<1>1. c \in Reasons /\ reviewQueue \in [Reasons -> 0..MaxTold] /\ reviewQueue[c] < MaxTold
  BY DEF Announce, IInv, ListingsTypeOK, EditorStates
<1>2. /\ reviewQueue' = [reviewQueue EXCEPT ![c] = reviewQueue[c] + 1]
      /\ Proceed(r, EditorIdle, FALSE)
      /\ UNCHANGED <<listing, hour, reviewer, shown, decision, told, overtaken>>
  BY DEF Announce
<1>3. /\ editor' \in [Editors -> EditorStates] /\ editor'[r] = EditorIdle
      /\ \A e \in Editors \ {r} : editor'[e] = editor[e]
  BY <1>2, Values, ProceedType DEF IInv
<1> HIDE DEF c
<1>4. /\ reviewQueue' \in [Reasons -> 0..MaxTold] /\ reviewQueue'[c] > 0
      /\ \A d \in Reasons : reviewQueue[d] > 0 => reviewQueue'[d] > 0
  BY <1>1, <1>2
<1>5. ListingsTypeOK' /\ ActiveWasShown'
  BY <1>2, <1>3, <1>4 DEF IInv, ListingsTypeOK, ActiveWasShown
<1>6. EditorsKnow'
  <2> SUFFICES ASSUME NEW e \in Editors PROVE Knows(editor'[e], listing, shown)
    BY <1>2 DEF EditorsKnow, Knows, Due
  <2> QED BY <1>3, Values DEF IInv, EditorsKnow, Knows
<1>7. Owed'
  <2>1. OnItsWay => OnItsWay'
    BY <1>1, <1>2, <1>3, <1>4 DEF OnItsWay, c
  <2> QED BY <1>2, <2>1 DEF IInv, Owed, Standing, InForce
<1> QED BY <1>5, <1>6, <1>7 DEF IInv

-----------------------------------------------------------------------------
(* Visitors, time and the end of requests.                                 *)

LEMMA ExpireHolds ==
  ASSUME IInv, NEW r \in Editors, ExpireListings(r) PROVE IInv'
<1> DEFINE over == listing.life = "live" /\ Due(listing, hour) /\ listing.status \in {"ACTIVE", "PENDING"}
           state == [EditorIdle EXCEPT !.step = "select", !.began = hour]
<1>1. hour \in 0..MaxTime /\ shown \subseteq Contents /\ listing \in ListingRows
      /\ told \in BOOLEAN /\ overtaken \in BOOLEAN /\ decision \in News
  BY DEF IInv, ListingsTypeOK
<1>2. state \in EditorStates /\ state.step = "select" /\ state.began = hour
  BY <1>1, Values DEF EditorIdle, EditorStates, EditorSteps
<1>3. /\ editor[r].step = "idle"
      /\ listing' = IF over THEN [listing EXCEPT !.status = "DRAFT"] ELSE listing
      /\ Proceed(r, state, over)
      /\ decision' = IF over THEN NoNews ELSE decision
      /\ told' = (told /\ ~over)
      /\ UNCHANGED <<hour, reviewQueue, reviewer, shown, overtaken>>
  BY DEF ExpireListings
<1> HIDE DEF state
<1>4. CASE over
  <2> DEFINE row == [listing EXCEPT !.status = "DRAFT"]
  <2>1. row \in ListingRows /\ row.status = "DRAFT"
    BY <1>1 DEF ListingRows, ListingStatus
  <2>2. /\ listing' = row /\ Proceed(r, state, TRUE) /\ decision' = NoNews
        /\ told' \in BOOLEAN
    BY <1>3, <1>4
  <2> HIDE DEF row, over
  <2>3. Knows(state, row, shown')
    BY <1>2, <2>1 DEF Knows
  <2> QED BY <1>1, <1>2, <1>3, <2>1, <2>2, <2>3, Values, WriteStep
<1>5. CASE ~over
  <2>1. Proceed(r, state, FALSE) /\ UNCHANGED <<listing, decision>>
    BY <1>3, <1>5
  <2>2. told' = told
    BY <1>1, <1>3, <1>5
  <2>3. Knows(state, listing, shown')
    BY <1>2, <1>5 DEF Knows
  <2> HIDE DEF over
  <2> QED BY <1>1, <1>2, <1>3, <2>1, <2>2, <2>3, ReadStep DEF ReadOnly
<1> QED BY <1>4, <1>5

LEMMA RestHolds ==
  ASSUME IInv, NEW r \in Editors, SelectActive(r) \/ GiveUp(r) PROVE IInv'
<1>1. /\ editor[r].step # "announce" /\ Proceed(r, EditorIdle, FALSE)
      /\ UNCHANGED shown /\ ReadOnly
  BY DEF SelectActive, GiveUp
<1>2. Knows(EditorIdle, listing, shown') /\ shown \subseteq Contents
  BY Values DEF Knows, IInv, ListingsTypeOK
<1> QED BY <1>1, <1>2, Values, ReadStep

\* A message lost with its process is owed no more.
LEMMA EditorDiesHolds ==
  ASSUME IInv, NEW r \in Editors, EditorDies(r) PROVE IInv'
<1>1. /\ Proceed(r, EditorIdle, FALSE) /\ decision' = NoNews /\ told' = FALSE
      /\ UNCHANGED <<listing, hour, reviewQueue, reviewer, shown, overtaken>>
  BY DEF EditorDies
<1>2. /\ editor' \in [Editors -> EditorStates] /\ editor'[r] = EditorIdle
      /\ \A e \in Editors \ {r} : editor'[e] = editor[e]
  BY <1>1, Values, ProceedType DEF IInv
<1>3. ListingsTypeOK' /\ ActiveWasShown' /\ Owed'
  BY <1>1, <1>2, Values DEF IInv, ListingsTypeOK, ActiveWasShown, Owed
<1>4. EditorsKnow'
  <2> SUFFICES ASSUME NEW e \in Editors PROVE Knows(editor'[e], listing, shown)
    BY <1>1 DEF EditorsKnow, Knows, Due
  <2> QED BY <1>2, Values DEF IInv, EditorsKnow, Knows
<1> QED BY <1>3, <1>4 DEF IInv

\* Steps that touch neither row nor requests keep what requests know.
LEMMA SameRow ==
  ASSUME IInv, UNCHANGED <<listing, editor, shown, overtaken>>
  PROVE  ActiveWasShown' /\ EditorsKnow'
BY DEF IInv, ActiveWasShown, EditorsKnow, Knows, Due

LEMMA HourHolds ==
  ASSUME IInv, HourPasses PROVE IInv'
<1>1. ListingsTypeOK'
  BY DEF HourPasses, IInv, ListingsTypeOK
<1>2. Owed'
  BY DEF HourPasses, IInv, Owed, OnItsWay, Standing, InForce
<1> QED BY <1>1, <1>2, SameRow DEF IInv, HourPasses

-----------------------------------------------------------------------------
(* The worker.                                                             *)

\* A task that carries the decision in force, as ReadDecision reads it off the row, is it.
LEMMA ReadDecisionHolds ==
  ASSUME IInv, NEW w \in ReviewWorkers, NEW c \in Reasons, ReadDecision(w, c) PROVE IInv'
<1> DEFINE job == [task |-> c, news |->
                    [status |-> listing.status,
                     reason |-> IF listing.status = "REJECTED" THEN c ELSE NoComment]]
           tells == listing.life = "live" /\ listing.owned /\ listing.status \in {"ACTIVE", "REJECTED"}
<1>1. /\ reviewer[w] = NoJob /\ reviewQueue[c] > 0
      /\ reviewQueue' = [reviewQueue EXCEPT ![c] = reviewQueue[c] - 1]
      /\ reviewer' = IF tells THEN [reviewer EXCEPT ![w] = job] ELSE reviewer
      /\ UNCHANGED <<listing, editor, hour, shown, decision, told, overtaken>>
  BY DEF ReadDecision
<1>2. /\ reviewQueue \in [Reasons -> 0..MaxTold] /\ reviewer \in [ReviewWorkers -> ReviewJobs]
      /\ listing \in ListingRows /\ decision \in News
  BY DEF IInv, ListingsTypeOK
<1>3. tells => job.news \in News /\ job \in ReviewJobs
  BY Values DEF News, ReviewJobs
<1>4. /\ reviewQueue' \in [Reasons -> 0..MaxTold]
      /\ \A d \in Reasons \ {c} : reviewQueue'[d] = reviewQueue[d]
  BY <1>1, <1>2
<1>5. reviewer' \in [ReviewWorkers -> ReviewJobs]
  BY <1>1, <1>2, <1>3
<1>6. ListingsTypeOK'
  BY <1>1, <1>4, <1>5 DEF IInv, ListingsTypeOK
<1>7. Owed'
  <2> SUFFICES ASSUME decision # NoNews, ~told PROVE OnItsWay'
    BY <1>1 DEF Owed, IInv, Standing, InForce
  <2>1. Standing(listing, decision) /\ OnItsWay
    BY DEF IInv, Owed
  <2>2. CASE Fits(decision, c)
    <3>1. tells /\ listing.status = decision.status
      <4>1. decision.status \in {"ACTIVE", "REJECTED", "none"} /\ listing.status \in ListingStatus
        BY <1>2 DEF News, ListingRows
      <4> QED BY <2>1, <4>1 DEF Standing, InForce, ListingStatus
    <3>2. job.news = decision
      BY <1>2, <2>1, <2>2, <3>1 DEF Standing, Fits, News
    <3>3. job # NoJob
      BY <3>2, Values
    <3>4. reviewer'[w] = job
      BY <1>1, <1>2, <3>1
    <3> HIDE DEF job, tells
    <3> QED BY <1>1, <3>2, <3>3, <3>4 DEF OnItsWay
  <2>3. CASE ~Fits(decision, c)
    <3> HIDE DEF job, tells
    <3>1. CASE \E r \in Editors : editor[r].step = "announce" /\ Fits(decision, editor[r].reason)
      BY <1>1, <3>1 DEF OnItsWay
    <3>2. CASE \E d \in Reasons : reviewQueue[d] > 0 /\ Fits(decision, d)
      BY <1>1, <1>4, <2>3, <3>2 DEF OnItsWay
    <3>3. CASE \E v \in ReviewWorkers : reviewer[v] # NoJob /\ reviewer[v].news = decision
      BY <1>1, <1>2, <3>3 DEF OnItsWay
    <3> QED BY <2>1, <3>1, <3>2, <3>3 DEF OnItsWay
  <2> QED BY <2>2, <2>3
<1> QED BY <1>1, <1>6, <1>7, SameRow DEF IInv

LEMMA TellOwnerHolds ==
  ASSUME IInv, NEW w \in ReviewWorkers, TellOwner(w) PROVE IInv'
<1>1. /\ reviewer[w] # NoJob /\ told' = (told \/ reviewer[w].news = decision)
      /\ reviewer' = [reviewer EXCEPT ![w] = NoJob]
      /\ UNCHANGED <<listing, editor, hour, shown, decision, overtaken>>
  BY DEF TellOwner
<1>2. /\ reviewQueue \in [Reasons -> 0..MaxTold] /\ reviewer \in [ReviewWorkers -> ReviewJobs]
      /\ told \in BOOLEAN /\ reviewer[w].task \in Reasons
  BY DEF IInv, ListingsTypeOK, ReviewJobs
<1>3. /\ reviewQueue' \in [Reasons -> 0..MaxTold]
      /\ \A d \in Reasons : reviewQueue[d] > 0 => reviewQueue'[d] > 0
  BY <1>2 DEF TellOwner
<1>4. reviewer' \in [ReviewWorkers -> ReviewJobs] /\ told' \in BOOLEAN
  BY <1>1, <1>2, Values
<1>5. ListingsTypeOK'
  BY <1>1, <1>3, <1>4 DEF IInv, ListingsTypeOK
<1>6. Owed'
  <2> SUFFICES ASSUME decision # NoNews, ~told' PROVE OnItsWay'
    BY <1>1 DEF Owed, IInv, Standing, InForce
  <2>1. ~told /\ reviewer[w].news # decision
    BY <1>1, <1>2
  <2>2. OnItsWay
    BY <2>1 DEF IInv, Owed
  <2> QED BY <1>1, <1>2, <1>3, <2>1, <2>2 DEF OnItsWay
<1> QED BY <1>1, <1>5, <1>6, SameRow DEF IInv

LEMMA ReviewerDiesHolds ==
  ASSUME IInv, NEW w \in ReviewWorkers, ReviewerDies(w) PROVE IInv'
<1>1. ListingsTypeOK' /\ Owed'
  BY Values DEF ReviewerDies, IInv, ListingsTypeOK, Owed
<1> QED BY <1>1, SameRow DEF IInv, ReviewerDies

-----------------------------------------------------------------------------
LEMMA NextHolds ==
  ASSUME IInv, [ListingsNext]_listingVars PROVE IInv'
<1>1. CASE UNCHANGED listingVars
  <2>1. ListingsTypeOK' /\ Owed'
    BY <1>1 DEF listingVars, IInv, ListingsTypeOK, Owed, OnItsWay, Standing, InForce
  <2> QED BY <1>1, <2>1, SameRow DEF IInv, listingVars
<1>2. ASSUME NEW r \in Editors, OwnerStep(r) \/ DeleteStep(r) PROVE IInv'
  BY <1>2, FirstRowHolds, StartPatchHolds, SavePatchHolds, StartDeleteHolds, DeleteHolds
  DEF OwnerStep, DeleteStep
<1>3. ASSUME NEW r \in Editors, ModeratorStep(r) PROVE IInv'
  BY <1>3, FirstRowHolds, OpenScreenHolds, LoadSelectedHolds, SaveApprovedHolds, SaveRejectedHolds,
     AnnounceHolds, LoadFormHolds, SaveFormHolds, LoadFeatureHolds, SaveFeatureHolds
  DEF ModeratorStep
<1>4. ASSUME NEW r \in Editors, VisitorStep(r) \/ GiveUp(r) \/ EditorDies(r) PROVE IInv'
  BY <1>4, ExpireHolds, RestHolds, EditorDiesHolds DEF VisitorStep
<1>5. ASSUME NEW w \in ReviewWorkers, ReviewerStep(w) PROVE IInv'
  BY <1>5, ReadDecisionHolds, TellOwnerHolds, ReviewerDiesHolds DEF ReviewerStep
<1>6. CASE HourPasses
  BY <1>6, HourHolds
<1> QED BY <1>1, <1>2, <1>3, <1>4, <1>5, <1>6 DEF ListingsNext

\* Only a full save makes a deleted row live, and its reading is out of date then.
LEMMA RevivalOutdated ==
  ASSUME IInv, ListingsNext, listing.life = "gone", listing'.life = "live" PROVE overtaken'
<1>1. ASSUME NEW r \in Editors, NEW row,
             Save(r, row), editor[r].step \in {"patch", "form", "feature"}
      PROVE  overtaken'
  <2>1. editor[r].stale
    BY <1>1 DEF IInv, EditorsKnow, Knows
  <2> QED BY <1>1, <2>1 DEF Save
<1>2. ASSUME NEW r \in Editors, SavePatch(r) \/ SaveForm(r) \/ SaveFeature(r) PROVE overtaken'
  BY <1>1, <1>2 DEF SavePatch, SaveForm, SaveFeature
<1>3. listing.life # "new" /\ listing \in ListingRows
  BY DEF IInv, ListingsTypeOK
<1>4. ASSUME NEW r \in Editors, DeleteListing(r) PROVE FALSE
  BY <1>3, <1>4 DEF DeleteListing, ListingRows
<1>5. ASSUME NEW r \in Editors, ExpireListings(r) PROVE FALSE
  BY <1>3, <1>5 DEF ExpireListings
<1>6. ASSUME NEW r \in Editors,
             \/ CreateListing(r) \/ AddListing(r) \/ SaveApproved(r) \/ SaveRejected(r)
      PROVE  FALSE
  BY <1>3, <1>6 DEF CreateListing, AddListing, SaveApproved, SaveRejected, Decide
<1>7. ASSUME NEW r \in Editors,
             \/ StartPatch(r) \/ StartDeleteListing(r) \/ OpenScreen(r) \/ LoadSelected(r)
             \/ Announce(r) \/ LoadForm(r) \/ LoadFeature(r) \/ SelectActive(r) \/ GiveUp(r)
             \/ EditorDies(r)
      PROVE  FALSE
  BY <1>7 DEF StartPatch, StartDeleteListing, OpenScreen, LoadSelected, Announce, LoadForm,
    LoadFeature, SelectActive, GiveUp, EditorDies, ReadOnly
<1>8. ASSUME NEW w \in ReviewWorkers, ReviewerStep(w) PROVE FALSE
  BY <1>8 DEF ReviewerStep, ReadDecision, TellOwner, ReviewerDies
<1>9. CASE HourPasses
  BY <1>9 DEF HourPasses
<1> QED BY <1>2, <1>4, <1>5, <1>6, <1>7, <1>8, <1>9
  DEF ListingsNext, OwnerStep, DeleteStep, ModeratorStep, VisitorStep

\* For any number of requests, workers and reasons: rows and requests are well-formed, the texts,
\* prices and categories that are public were on a moderator's screen unless an outdated reading
\* was saved, and a decision in force is told or on its way (approve_listings, reject_listings,
\* perform_update, notify_review_result).
THEOREM ModerationHolds == ListingsSpec => []ModerationSound
<1>1. IInv /\ [ListingsNext]_listingVars => IInv'
  BY NextHolds
<1> QED BY InitHolds, <1>1, InvImplies, PTL DEF ListingsSpec

\* A deleted listing comes back only by a save of an outdated reading (save_model,
\* perform_update).
THEOREM RevivalNeedsRace == ListingsSpec => OnlyRacesReviveListings
<1>1. IInv /\ [ListingsNext]_listingVars => IInv'
  BY NextHolds
<1>2. IInv /\ [ListingsNext]_listingVars =>
        [listing.life = "gone" /\ listing'.life = "live" => overtaken']_listingVars
  BY RevivalOutdated
<1> QED BY InitHolds, <1>1, <1>2, PTL DEF ListingsSpec, OnlyRacesReviveListings

\* A page holds no event that was over when it was asked for, unless the row was written
\* between the two statements of the list (draft_expired_one_time_masterclasses).
THEOREM PagesAreFresh == ListingsSpec => PageFresh
<1>1. IInv /\ [ListingsNext]_listingVars => IInv'
  BY NextHolds
<1>2. IInv => \A r \in Editors :
        SelectActive(r) /\ listing.starts < editor[r].began => editor[r].stale
  <2> SUFFICES ASSUME IInv, NEW r \in Editors, SelectActive(r),
                      listing.starts < editor[r].began, ~editor[r].stale
               PROVE  FALSE
    OBVIOUS
  <2>1. listing.starts \in Starts /\ editor[r].began \in 0..MaxTime
    BY DEF IInv, ListingsTypeOK, ListingRows, EditorStates
  <2>2. ~Due(listing, editor[r].began)
    BY DEF IInv, EditorsKnow, Knows, SelectActive, Selected
  <2> QED BY <2>1, <2>2 DEF Due, Starts
<1>3. IInv /\ [ListingsNext]_listingVars =>
        [\A r \in Editors :
          SelectActive(r) /\ listing.starts < editor[r].began => editor[r].stale]_listingVars
  BY <1>2
<1> QED BY InitHolds, <1>1, <1>3, PTL DEF ListingsSpec, PageFresh
=============================================================================
