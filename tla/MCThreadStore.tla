--------------------------- MODULE MCThreadStore ---------------------------
(* Instantiates ThreadStore for TLC.  Thread 1 with reply 2 exists; one   *)
(* more post number can be minted.                                        *)
EXTENDS ThreadStore

\* insert_post, remove_posts and remove_thread only.
MCCoreRequests == {"post", "remove_posts", "remove_thread"}
\* The core requests and the author's append_post and finish_post.
MCAuthorRequests == MCCoreRequests \cup {"append", "finish"}
\* Posting, and purge_thread racing a post still open.
MCPurgeRequests == {"post", "purge"}
\* Every request kind, the moderation calls included.
MCAllRequests == MCCoreRequests \cup {"lock", "archive", "purge"}
\* Posting, removal of posts and images, add_image on an open post, spoilers.
MCImageRequests == {"post", "remove_posts", "remove_images", "add_image", "spoiler"}

\* The exact count remove_images means to keep (a probe, not a run).
MCImgCtrExact ==
  (\A p \in Procs : pc[p] # "ri3") =>
  \A op \in Nums : thread[op] # NoRec /\ thread[op].time =>
    thread[op].imgctr = Cardinality(ImagesShown(op))

MCModImageRequests == MCAllRequests \cup MCImageRequests

MCMaxPost == 3
MCMaxPost4 == 4
MCServerOf1 == [p \in Procs |-> CHOOSE s \in Servers : TRUE]

\* Slot i runs on the i-th server (in a fixed order of both sets).
MCServerOfEach == [p \in Procs |-> SetToSeq(Servers)[CHOOSE i \in 1..Cardinality(Procs) :
                                                        SetToSeq(Procs)[i] = p]]
=============================================================================
