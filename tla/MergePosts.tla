----------------------------- MODULE MergePosts -----------------------------
(***************************************************************************)
(* Reader.merge_posts (src/db.js, lines 1566-1593): the thread reader      *)
(* merges the tail of a thread's live reply list with the tail of its      *)
(* deleted-reply list ('dead' overlay), walking both from the end, taking  *)
(* the numerically larger id first and prepending it, until abbrev ids are *)
(* taken (abbrev 0: no limit).  Without deleted ids it returns the live    *)
(* list unchanged.                                                         *)
(*                                                                         *)
(* The inputs are the lists _get_each_thread fetched with lrange -abbrev   *)
(* (lines 1514, 1524); each step of the model checks one input triple.     *)
(***************************************************************************)
EXTENDS Naturals, Sequences, SequencesExt, TLC

CONSTANTS
  MaxNum,    \* post numbers are 1..MaxNum
  MaxLen,    \* longest list fetched
  MaxAbbrev  \* largest abbrev (hot.ABBREVIATED_REPLIES)

Ids == 1..MaxNum

\* Lists of distinct post numbers, as lrange returns them.
Lists == {s \in BoundedSeq(Ids, MaxLen) : Len(s) = Cardinality(ToSet(s))}

\* Mutant: the comparison inverted, the smaller tail taken first.
PickSmaller(nums, dead, i, pi) ==
  IF i >= 1 /\ pi >= 1
  THEN IF nums[i] < dead[pi] THEN "live" ELSE "dead"
  ELSE IF i >= 1 THEN "live"
  ELSE IF pi >= 1 THEN "dead"
  ELSE "none"

\* The list the next id (from the end) is taken from: the larger of the two
\* tails, else whichever list has ids left, else none (break).
Pick(nums, dead, i, pi) ==
  IF i >= 1 /\ pi >= 1
  THEN IF nums[i] > dead[pi] THEN "live" ELSE "dead"
  ELSE IF i >= 1 THEN "live"
  ELSE IF pi >= 1 THEN "dead"
  ELSE "none"

\* Mutant: the abbreviation limit tested with > in place of >=.
FullLate(merged, abbrev) == abbrev # 0 /\ Len(merged) > abbrev

\* The while condition negated: abbrev set and that many ids taken.
Full(merged, abbrev) == abbrev # 0 /\ Len(merged) >= abbrev

RECURSIVE MergeLoop(_, _, _, _, _, _)
MergeLoop(nums, dead, abbrev, i, pi, merged) ==
  LET src == Pick(nums, dead, i, pi) IN
  IF Full(merged, abbrev) \/ src = "none"
  THEN merged
  ELSE IF src = "live"
       THEN MergeLoop(nums, dead, abbrev, i - 1, pi, <<nums[i]>> \o merged)
       ELSE MergeLoop(nums, dead, abbrev, i, pi - 1, <<dead[pi]>> \o merged)

merge_posts(nums, dead, abbrev) ==
  IF Len(dead) = 0 THEN nums
  ELSE MergeLoop(nums, dead, abbrev, Len(nums), Len(dead), <<>>)

-----------------------------------------------------------------------------
(* Reference: the chronological merge, abbreviated to its last abbrev ids. *)
Sorted(s) == SortSeq(s, LAMBDA a, b : a < b)

LastN(s, n) == IF n = 0 \/ Len(s) <= n THEN s ELSE SubSeq(s, Len(s) - n + 1, Len(s))

Ascending(s) == \A k \in 1..Len(s) - 1 : s[k] < s[k + 1]

VARIABLES nums, dead, abbrev, out, done

vars == <<nums, dead, abbrev, out, done>>

TypeOK ==
  /\ nums \in Lists /\ dead \in Lists /\ abbrev \in 0..MaxAbbrev
  /\ out \in Seq(Ids) /\ done \in BOOLEAN

\* A reply is either live or deleted, never both.
Init ==
  /\ nums \in Lists
  /\ dead \in Lists
  /\ ToSet(nums) \cap ToSet(dead) = {}
  /\ abbrev \in 0..MaxAbbrev
  /\ out = <<>>
  /\ done = FALSE

Merge ==
  /\ ~done
  /\ out' = merge_posts(nums, dead, abbrev)
  /\ done' = TRUE
  /\ UNCHANGED <<nums, dead, abbrev>>

Spec == Init /\ [][Merge]_vars

(***************************************************************************)
(* spec 4.5/8: for ascending live and deleted lists, with deleted ids      *)
(* present, merge_posts returns the last abbrev ids of their chronological *)
(* merge (e.g. [1,3,5],[2,4],3 gives [3,4,5]).                             *)
(***************************************************************************)
MergeMatchesSorted ==
  (done /\ dead # <<>> /\ Ascending(nums) /\ Ascending(dead)) =>
    out = LastN(Sorted(nums \o dead), abbrev)

(***************************************************************************)
(* Whatever the order of the fetched lists, merge_posts loses no id it     *)
(* should show and invents none: it returns min(abbrev, total) distinct    *)
(* ids of the two lists (all of them when abbrev is 0).                    *)
(***************************************************************************)
MergeKeepsIds ==
  (done /\ dead # <<>>) =>
    /\ ToSet(out) \subseteq ToSet(nums) \cup ToSet(dead)
    /\ Len(out) = Cardinality(ToSet(out))
    /\ Len(out) = IF abbrev = 0 \/ Len(nums) + Len(dead) <= abbrev
                  THEN Len(nums) + Len(dead) ELSE abbrev

=============================================================================
