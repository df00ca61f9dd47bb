------------------------------ MODULE TagCodec ------------------------------
(***************************************************************************)
(* The tag encoding of src/db.js: tag_key (lines 1779-1781) writes a tag   *)
(* as "<length>:<tag>", and a thread's 'tags' field is the concatenation   *)
(* of such keys; parse_tags (lines 1784-1802) reads the list back.  Tags   *)
(* are sequences of characters over a small alphabet that contains digits  *)
(* and ':' (board names may contain both).                                 *)
(***************************************************************************)
EXTENDS Naturals, Sequences, SequencesExt

CONSTANTS
  Alphabet,  \* characters a tag may contain
  MaxTag,    \* longest tag enumerated
  MaxTags,   \* most tags in one field
  LongTag    \* one tag long enough for a two-digit length prefix

Digits == <<"0", "1", "2", "3", "4", "5", "6", "7", "8", "9">>

DigitSet == ToSet(Digits)

DigitValue(c) == CHOOSE d \in 0..9 : Digits[d + 1] = c

\* The decimal digits of n, as String(n) writes them.
RECURSIVE Decimal(_)
Decimal(n) == IF n < 10 THEN <<Digits[n + 1]>>
              ELSE Decimal(n \div 10) \o <<Digits[(n % 10) + 1]>>

\* parseInt of a digit string.
RECURSIVE DecimalValue(_)
DecimalValue(s) == IF s = <<>> THEN 0
                   ELSE DecimalValue(Front(s)) * 10 + DigitValue(Last(s))

tag_key(tag) == Decimal(Len(tag)) \o <<":">> \o tag

\* Mutant: a single digit taken as the length (\d in place of \d+).
DigitRunOne(s) == IF s # <<>> /\ Head(s) \in DigitSet THEN <<Head(s)>> ELSE <<>>

\* The longest run of digits at the start of s (the greedy \d+ of the regex).
RECURSIVE DigitRun(_)
DigitRun(s) == IF s # <<>> /\ Head(s) \in DigitSet
               THEN <<Head(s)>> \o DigitRun(Tail(s))
               ELSE <<>>

\* Characters from .. to of s (1-based), clipped at its end as substr and
\* slice clip.
Slice(s, from, to) ==
  [i \in 1..((IF to > Len(s) THEN Len(s) ELSE to) - from + 1) |-> s[from + i - 1]]

\* Mutant: the length check accepting a key one character short.
FitsShort(input, pre, len) == Len(input) >= pre + len - 1

\* input.length < pre + len breaks the loop; otherwise the tag fits.
Fits(input, pre, len) == Len(input) >= pre + len

(***************************************************************************)
(* parse_tags' while loop: match ^(\d+):, break without a match or when    *)
(* the declared length overruns the input, else take the tag and go on.   *)
(***************************************************************************)
RECURSIVE ParseLoop(_, _)
ParseLoop(input, tags) ==
  LET m == DigitRun(input)
      pre == Len(m) + 1
      len == DecimalValue(m)
  IN
  IF input = <<>> \/ m = <<>> \/ Len(input) < pre \/ input[pre] # ":"
  THEN tags
  ELSE IF ~Fits(input, pre, len)
       THEN tags
       ELSE ParseLoop(Slice(input, pre + len + 1, Len(input)),
                      Append(tags, Slice(input, pre + 1, pre + len)))

\* A blank field ('' or missing) parses to no tags.
parse_tags(input) == IF input = <<>> THEN <<>> ELSE ParseLoop(input, <<>>)

\* The 'tags' field written for a list of tags.
Encode(ts) == FoldLeft(LAMBDA acc, t : acc \o tag_key(t), <<>>, ts)

Tags == BoundedSeq(Alphabet, MaxTag) \cup {LongTag}

VARIABLES tags, cut, out, done

vars == <<tags, cut, out, done>>

Init ==
  /\ tags \in BoundedSeq(Tags, MaxTags)
  /\ cut \in 0..Len(Encode(tags))
  /\ out = <<>>
  /\ done = FALSE

Parse ==
  /\ ~done
  /\ out' = parse_tags(SubSeq(Encode(tags), 1, cut))
  /\ done' = TRUE
  /\ UNCHANGED <<tags, cut>>

Spec == Init /\ [][Parse]_vars

(***************************************************************************)
(* spec 8: parsing the encoded tag field gives back exactly the list of    *)
(* tags that was encoded, in order, including tags that contain digits or  *)
(* ':' and tags whose length takes two digits (tag_key, parse_tags).       *)
(***************************************************************************)
TagsRoundTrip == (done /\ cut = Len(Encode(tags))) => out = tags

(***************************************************************************)
(* A field cut short (a truncated value) parses to the tags that are whole *)
(* in it and never to a partial tag: parse_tags' length check breaks the  *)
(* loop on a key that overruns the input (lines 1794-1796).                *)
(***************************************************************************)
TruncatedParsesPrefix == done => IsPrefix(out, tags)

=============================================================================
