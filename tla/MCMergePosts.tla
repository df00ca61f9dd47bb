--------------------------- MODULE MCMergePosts ----------------------------
(* Post numbers 1..5, lists of up to three ids, abbrev 0..4: both lists    *)
(* long enough to run out first, and abbrev below, at and above the total.*)
EXTENDS MergePosts

MCMaxNum == 5
MCMaxLen == 3
MCMaxAbbrev == 4
=============================================================================
