CONSTANTS
  MaxNum <- MCMaxNum
  MaxLen <- MCMaxLen
  MaxAbbrev <- MCMaxAbbrev
SPECIFICATION Spec
INVARIANT MergeKeepsIds
INVARIANT MergeMatchesSorted
\* merge_posts is a pure function: once the result is computed nothing is left to do.
CHECK_DEADLOCK FALSE
