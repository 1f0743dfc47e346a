------------------------------- MODULE Tagging -------------------------------
(***************************************************************************)
(* Editorial listings, their tags, and the search by tags                  *)
(* (apps/catalog: filters.py, models.py, admin.py, seed_data and the       *)
(* import commands).  import_tags and import_nursery_tags write the        *)
(* vocabulary of their category in one transaction; import_schools and     *)
(* import_nurseries resolve names to tags first, then write listings and   *)
(* links in one transaction.  Editors change tags in between.  A run with  *)
(* --clean of the latter that links tags ends as one without: its rows     *)
(* have fixed ids and get all their links anew.                            *)
(***************************************************************************)
EXTENDS Integers, FiniteSets

CONSTANTS
  Commands,        \* runs of import_schools and import_nurseries under way
  MaxInsertions,   \* bound: transactions that insert tags
  MaxEdits         \* bound: changes made by hand

ASSUME TaggingAssumption == MaxInsertions \in Nat /\ MaxEdits \in Nat

VARIABLES
  tags,            \* [ids of the rows -> row]
  insertions,      \* transactions that have inserted tags
  editorial,       \* [Slugs -> listing; its links are ids of tags]
  command,         \* [Commands -> what the run has resolved]
  edits,           \* changes made by hand
  halfTagged       \* history: a run has linked other names than it should, none having been changed

taggingVars == <<tags, insertions, editorial, command, edits, halfTagged>>

(***************************************************************************)
(* The data sets, a few entries of each; names and slugs are shortened.    *)
(***************************************************************************)
School == "SCHOOLS"
Nursery == "NURSERIES"
TagCategories == {School, Nursery}

SchoolTagFacets == {<<"Curriculum", "Montessori">>, <<"Curriculum", "IB">>, <<"Gender", "Co-ed">>}

NurseryTagFacets ==
  {<<"Curriculum", "Montessori">>, <<"Age Group", "Infant Care">>, <<"Age Group", "Toddler Care">>}

Facets(c) == IF c = School THEN SchoolTagFacets ELSE NurseryTagFacets
TagNames == {f[2] : f \in SchoolTagFacets \cup NurseryTagFacets}

Schools == [nebras |-> {"Montessori", "Co-ed"}, acs |-> {"IB", "Co-ed"}]

\* What the records of the nurseries say: age groups and words of the title.
Nurseries == [redwood |-> {"0-3", "montessori"}]

Slugs == DOMAIN Schools \cup DOMAIN Nurseries
CategoryOf(s) == IF s \in DOMAIN Schools THEN School ELSE Nursery

\* nursery_seed_tags infers the tags.
Inferred ==
  {<<"0-3", "Infant Care">>, <<"0-3", "Toddler Care">>, <<"3-5", "Preschool">>,
   <<"montessori", "Montessori">>, <<"british", "British Curriculum">>,
   <<"british", "English-speaking">>, <<"english", "English-speaking">>,
   <<"french", "French-speaking">>, <<"international", "International Curriculum">>}

NurserySeedTags(s) == {i[2] : i \in {j \in Inferred : j[1] \in Nurseries[s]}}

Needed(s) == IF s \in DOMAIN Schools THEN Schools[s] ELSE NurserySeedTags(s)
Records(c) == {s \in Slugs : CategoryOf(s) = c}

(***************************************************************************)
(* Rows.  A tag is unique by name and category; its group may be that of   *)
(* another category, or none.                                              *)
(***************************************************************************)
TagGroups == {<<c, f[1]>> : c \in {School}, f \in SchoolTagFacets}
             \cup {<<c, f[1]>> : c \in {Nursery}, f \in NurseryTagFacets}
Ungrouped == <<"none", "none">>
TagRows == [name: TagNames, category: TagCategories, group: TagGroups \cup {Ungrouped}]
TagIds == [since: 1..MaxInsertions, category: TagCategories, name: TagNames]
Unique(rows) == \A i, j \in DOMAIN rows :
  rows[i].name = rows[j].name /\ rows[i].category = rows[j].category => i = j

EditorialRows == [status: {"none", "ACTIVE", "REJECTED"}, tags: SUBSET TagIds]
NoListing == [status |-> "none", tags |-> {}]
CommandStates == [category: TagCategories \cup {"none"}, map: SUBSET (TagNames \X TagIds), renamed: BOOLEAN]
NoCommand == [category |-> "none", map |-> {}, renamed |-> FALSE]

TaggingInit ==
  /\ tags = [i \in {} |-> [name |-> "IB", category |-> School, group |-> Ungrouped]]
  /\ insertions = 0
  /\ editorial = [s \in Slugs |-> NoListing]
  /\ command = [p \in Commands |-> NoCommand]
  /\ edits = 0 /\ halfTagged = FALSE

\* Links go with their tag.
Unlinked(rows) == [s \in Slugs |-> [editorial[s] EXCEPT !.tags = @ \cap DOMAIN rows]]

(***************************************************************************)
(* The import commands.                                                    *)
(***************************************************************************)
\* import_tags, import_nursery_tags: --clean deletes the tags of the category first; the others
\* of the category stay as they are.
ImportTags(c, clean) ==
  LET kept == {i \in DOMAIN tags : ~(clean /\ tags[i].category = c)}
      Wanted(n) == <<c, (CHOOSE f \in Facets(c) : f[2] = n)[1]>>
      names == {f[2] : f \in Facets(c)}
      new == names \ {tags[i].name : i \in {j \in kept : tags[j].category = c}}
      id(n) == [since |-> insertions + 1, category |-> c, name |-> n]
      rows == [i \in kept \cup {id(n) : n \in new} |->
                 IF i \notin kept THEN [name |-> i.name, category |-> c, group |-> Wanted(i.name)]
                 ELSE IF tags[i].category = c /\ tags[i].name \in names
                 THEN [tags[i] EXCEPT !.group = Wanted(tags[i].name)]
                 ELSE tags[i]]
  IN
  /\ insertions < MaxInsertions
  /\ tags' = rows
  /\ insertions' = IF new = {} THEN insertions ELSE insertions + 1
  /\ editorial' = Unlinked(rows)
  /\ UNCHANGED <<command, edits, halfTagged>>

\* The tags a run will link, by name; it aborts if a name is missing.
NamedIn(c) ==
  {i \in DOMAIN tags : tags[i].category = c /\ tags[i].name \in UNION {Needed(s) : s \in Records(c)}}

Complete(c) == UNION {Needed(s) : s \in Records(c)} \subseteq {tags[i].name : i \in NamedIn(c)}

LoadTagMap(p, c) ==
  /\ command[p] = NoCommand
  /\ Complete(c)
  /\ command' = [command EXCEPT ![p] = [category |-> c, renamed |-> FALSE,
                                        map |-> {<<tags[i].name, i>> : i \in NamedIn(c)}]]
  /\ UNCHANGED <<tags, insertions, editorial, edits, halfTagged>>

\* The names are those the tags had when they were resolved: a later renaming is not looked at.
Links(p, s) == {m[2] : m \in {e \in command[p].map : e[1] \in Needed(s)}}

\* update_or_create of every listing, ACTIVE whatever it was, with its links set anew.
ImportListings(p) ==
  /\ command[p] # NoCommand
  /\ \A m \in command[p].map : m[2] \in DOMAIN tags
  /\ editorial' = [s \in Slugs |->
       IF CategoryOf(s) = command[p].category THEN [status |-> "ACTIVE", tags |-> Links(p, s)]
       ELSE editorial[s]]
  /\ command' = [command EXCEPT ![p] = NoCommand]
  /\ halfTagged' = (halfTagged \/ (~command[p].renamed /\ \E s \in Records(command[p].category) :
       {tags[i].name : i \in editorial'[s].tags} # Needed(s)))
  /\ UNCHANGED <<tags, insertions, edits>>

\* A tag that is gone by now breaks the foreign key and everything is rolled back; so does a
\* killed process, or a PROTECTed listing under --clean.
ImportFails(p) ==
  /\ command[p] # NoCommand
  /\ command' = [command EXCEPT ![p] = NoCommand]
  /\ UNCHANGED <<tags, insertions, editorial, edits, halfTagged>>

\* --skip-tags; the links that were there stay, unless --clean deletes the listing first.
ImportUntagged(c, clean) ==
  /\ editorial' = [s \in Slugs |->
       IF CategoryOf(s) # c THEN editorial[s]
       ELSE [status |-> "ACTIVE", tags |-> IF clean THEN {} ELSE editorial[s].tags]]
  /\ UNCHANGED <<tags, insertions, command, edits, halfTagged>>

(***************************************************************************)
(* The admin site.                                                         *)
(***************************************************************************)
ByHand == edits < MaxEdits /\ edits' = edits + 1

AddTag(row) ==
  /\ ByHand
  /\ insertions < MaxInsertions
  /\ LET id == [since |-> insertions + 1, category |-> row.category, name |-> row.name]
         rows == [i \in DOMAIN tags \cup {id} |-> IF i = id THEN row ELSE tags[i]]
     IN Unique(rows) /\ tags' = rows
  /\ insertions' = insertions + 1
  /\ UNCHANGED <<editorial, command, halfTagged>>

\* One field of the form; another one takes another form.
EditTag(i, row) ==
  /\ ByHand
  /\ Cardinality({f \in DOMAIN row : row[f] # tags[i][f]}) = 1
  /\ Unique([tags EXCEPT ![i] = row])
  /\ tags' = [tags EXCEPT ![i] = row]
  /\ command' = [p \in Commands |->
       [command[p] EXCEPT !.renamed = @ \/ (row.name # tags[i].name /\ \E m \in command[p].map : m[2] = i)]]
  /\ UNCHANGED <<insertions, editorial, halfTagged>>

DeleteTag(i) ==
  /\ ByHand
  /\ tags' = [j \in DOMAIN tags \ {i} |-> tags[j]]
  /\ editorial' = Unlinked(tags')
  /\ UNCHANGED <<insertions, command, halfTagged>>

\* SET_NULL
DeleteGroup(g) ==
  /\ ByHand
  /\ tags' = [i \in DOMAIN tags |-> IF tags[i].group = g THEN [tags[i] EXCEPT !.group = Ungrouped] ELSE tags[i]]
  /\ UNCHANGED <<insertions, editorial, command, halfTagged>>

\* ListingAdmin: the status, and any tag added or taken away.
EditListing(s, st) ==
  /\ ByHand
  /\ editorial[s].status # "none"
  /\ \E i \in DOMAIN tags, change \in {{}, {"add"}, {"remove"}} :
       editorial' = [editorial EXCEPT ![s] =
         [status |-> st, tags |-> IF "add" \in change THEN @.tags \cup {i}
                                  ELSE IF "remove" \in change THEN @.tags \ {i} ELSE @.tags]]
  /\ UNCHANGED <<tags, insertions, command, halfTagged>>

DeleteEditorial(s) ==
  /\ ByHand
  /\ editorial' = [editorial EXCEPT ![s] = NoListing]
  /\ UNCHANGED <<tags, insertions, command, halfTagged>>

TaggingNext ==
  \/ \E c \in TagCategories :
       \/ \E clean \in BOOLEAN : ImportTags(c, clean) \/ ImportUntagged(c, clean)
       \/ \E p \in Commands : LoadTagMap(p, c)
  \/ \E p \in Commands : ImportListings(p) \/ ImportFails(p)
  \/ \E row \in TagRows : AddTag(row) \/ \E i \in DOMAIN tags : EditTag(i, row)
  \/ \E i \in DOMAIN tags : DeleteTag(i)
  \/ \E g \in TagGroups : DeleteGroup(g)
  \/ \E s \in Slugs : DeleteEditorial(s) \/ \E st \in {"ACTIVE", "REJECTED"} : EditListing(s, st)

TaggingSpec == TaggingInit /\ [][TaggingNext]_taggingVars

(***************************************************************************)
(* ListingFilter of GET /listings/?category=...&tags=...                   *)
(***************************************************************************)
\* A value of the category parameter: a category and how it is spelled; "": no parameter.
Upper(param) == param[1]
Given(param) == param[1] # ""
AsWritten(param) == IF param[2] = "upper" THEN param[1] ELSE "lower case"

\* filter_category
InCategory(param) == {s \in Slugs : Given(param) => CategoryOf(s) = Upper(param)}

\* Mutation: names are looked up in every category.
AskedEverywhere(param, names) == {i \in DOMAIN tags : tags[i].name \in names}

\* filter_tags looks the names up in the category as it is written ...
Asked(param, names) ==
  {i \in DOMAIN tags : tags[i].name \in names /\ (Given(param) => tags[i].category = AsWritten(param))}

\* ... collects them by group, every tag without one for itself ...
SameFacet(i, j) == i = j \/ (tags[i].group = tags[j].group /\ tags[i].group # Ungrouped)

\* ... and asks for one of the names of each, as far as the category knows any of them.
Found(param, names) ==
  {s \in InCategory(param) :
     /\ editorial[s].status = "ACTIVE"
     /\ \A i \in Asked(param, names) : \E j \in Asked(param, names), t \in editorial[s].tags :
          SameFacet(i, j) /\ tags[t].name = tags[j].name}

(***************************************************************************)
(* Properties.                                                             *)
(***************************************************************************)
\* Rows and commands are well-formed; no link leads to a deleted tag.
TaggingTypeOK ==
  /\ DOMAIN tags \subseteq TagIds
  /\ \A i \in DOMAIN tags : tags[i] \in TagRows
  /\ Unique(tags)
  /\ insertions \in 0..MaxInsertions /\ edits \in 0..MaxEdits /\ halfTagged \in BOOLEAN
  /\ editorial \in [Slugs -> EditorialRows]
  /\ \A s \in Slugs : editorial[s].tags \subseteq DOMAIN tags
  /\ command \in [Commands -> CommandStates]

\* Asked for a category and some of its tags, the catalogue shows exactly the public listings
\* of it that carry, of every group named, one of the tags named (OR within a group, AND across
\* groups), also when names occur in both categories and tags were edited, ungrouped or
\* imported anew; as long as listings carry tags of their own category.  (A name no tag has is
\* looked up in vain.)
SearchMeansFacets ==
  (\A s \in Slugs, i \in DOMAIN tags : i \in editorial[s].tags => tags[i].category = CategoryOf(s)) =>
    \A c \in TagCategories, names \in SUBSET {tags[i].name : i \in DOMAIN tags} :
      LET named == {i \in DOMAIN tags : tags[i].category = c /\ tags[i].name \in names} IN
      Found(<<c, "upper">>, names) =
        {s \in Slugs :
           /\ CategoryOf(s) = c /\ editorial[s].status = "ACTIVE"
           /\ \A i \in named : \/ i \in editorial[s].tags
                               \/ /\ tags[i].group # Ungrouped
                                  /\ \E j \in named \cap editorial[s].tags : tags[j].group = tags[i].group}

\* A run that links tags leaves no listing half-tagged (import_schools.py): whatever becomes of
\* the vocabulary after the names were resolved, each listing gets all its tags or the run
\* changes nothing; only a tag renamed meanwhile is linked under its new name.
ImportsTagWhole == ~halfTagged

\* What tags and the search by tags promise of every state.
TaggingSound == TaggingTypeOK /\ SearchMeansFacets /\ ImportsTagWhole

\* The category is matched without regard to case (filters.py): a search spelled in lower case
\* finds what the same search in upper case finds.
CaseDoesNotMatter ==
  \A c \in TagCategories, names \in SUBSET TagNames :
    Found(<<c, "lower">>, names) = Found(<<c, "upper">>, names)
=============================================================================
