SPECIFICATION TaggingSpec
CONSTANTS
  Commands = {i1}
  MaxInsertions = 3
  MaxEdits = 1
\* Insertions and edits of the instance run out.
CHECK_DEADLOCK FALSE
INVARIANT CaseDoesNotMatter
