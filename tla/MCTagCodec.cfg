CONSTANTS
  Alphabet <- MCAlphabet
  MaxTag = 2
  MaxTags = 2
  LongTag <- MCLongTag
SPECIFICATION Spec
INVARIANT TagsRoundTrip
INVARIANT TruncatedParsesPrefix
\* parse_tags is a pure function: once the result is computed nothing is left to do.
CHECK_DEADLOCK FALSE
