-------------------------- MODULE ThreadLifecycle --------------------------
(***************************************************************************)
(* What the post-lifecycle engine of src/db.js promises about a thread as  *)
(* a whole, with every round trip and every reply abstracted away.  A      *)
(* post number becomes a thread once (insert_post without an op); a live   *)
(* thread may be moved to the archive board (archive_thread); a live or    *)
(* archived thread may be soft-deleted into 'dead:N' (remove_thread) or    *)
(* hard-deleted (purge_thread).  Deletion is final: nothing brings a dead  *)
(* or purged thread back, and a number is never made a thread twice.       *)
(***************************************************************************)
CONSTANT Threads     \* the post numbers that may become threads

VARIABLE status      \* Threads -> lifecycle state

States == {"none", "live", "archived", "dead", "purged"}

TypeOK == status \in [Threads -> States]

Init == status \in [Threads -> {"none", "live"}]

\* Move thread t from one of the states From to the state to.
Step(t, From, to) ==
  /\ status[t] \in From
  /\ status' = [status EXCEPT ![t] = to]

Create(t)  == Step(t, {"none"}, "live")
Archive(t) == Step(t, {"live"}, "archived")
Delete(t)  == Step(t, {"live", "archived"}, "dead")
Purge(t)   == Step(t, {"live", "archived"}, "purged")

Next == \E t \in Threads : Create(t) \/ Archive(t) \/ Delete(t) \/ Purge(t)

Spec == Init /\ [][Next]_status

=============================================================================
