---------------------------- MODULE ThreadStore -----------------------------
(***************************************************************************)
(* The post-lifecycle engine of src/db.js against the redis store, and the *)
(* per-process OP cache it reads (OPs, TAGS) kept by the 'cache' channel.  *)
(*                                                                         *)
(* Operations: reserve_post + insert_post (lines 490-669), remove_posts /  *)
(* remove_post (671-758), remove_thread (760-824), _log (1304-1334) and    *)
(* the cache handler update_cache (261-291).  Each request runs in a slot  *)
(* of Procs bound to one server process; every redis round trip (a single *)
(* command or a MULTI batch, applied atomically by redis) is one step,     *)
(* merged with the JavaScript that runs in its reply callback.             *)
(*                                                                         *)
(* Data abstraction: post bodies, names, images, links, subjects, scores   *)
(* and counters are left out; a thread hash is its tags and hide flag, a   *)
(* reply hash its owner and hide flag, a log entry its kind.               *)
(***************************************************************************)
EXTENDS Naturals, FiniteSets, SequencesExt

CONSTANTS
  Boards,      \* config.BOARDS that take posts
  Archive,     \* the 'archive' entry of config.BOARDS
  Requests,    \* the request kinds callers issue
  Servers,     \* node processes sharing the redis store
  Procs,       \* request slots
  ServerOf,    \* the server a slot runs on
  MaxPost,     \* bound on postctr (post numbers 1..MaxPost)
  MaxReqs,     \* bound on requests started
  MaxBatch,    \* longest list given to remove_posts
  MaxCrashes,  \* bound on server process crashes
  None,        \* model value: absent cache entry
  NoRec        \* model value: absent redis key

ASSUME ServerOf \in [Procs -> Servers]
ASSUME MaxPost \in Nat \ {0} /\ MaxReqs \in Nat /\ MaxBatch \in Nat \ {0}
ASSUME MaxCrashes \in Nat

Nums == 1..MaxPost
AllBoards == Boards \cup {Archive}
\* hincrby of 'imgctr' on a hash without the field starts from 0.
ImgCtrs == -MaxReqs..MaxReqs + 1
ThreadRec == [tags : SUBSET AllBoards, hide : BOOLEAN, locked : BOOLEAN,
              time : BOOLEAN, body : BOOLEAN, imgctr : ImgCtrs]
\* src: the post has image fields; hideimg: remove_image's flag; spoiler:
\* a spoiler index is set (which one pick_spoiler chose is not kept).
PostRec == [op : Nums \cup {None}, hide : BOOLEAN, body : BOOLEAN,
            src : BOOLEAN, hideimg : BOOLEAN, spoiler : BOOLEAN]
Kinds == {"INSERT_POST", "DELETE_POSTS", "DELETE_THREAD", "MOVE_THREAD",
          "LOCK_THREAD", "UNLOCK_THREAD", "UPDATE_POST", "FINISH_POST",
          "INSERT_IMAGE", "DELETE_IMAGES", "SPOILER_IMAGES"}
LoadSteps == {"replies", "hmget", "prune", "zadd"}
LoadTask == [step : LoadSteps, op : Nums, board : AllBoards]
\* A background finish_quietly('post:n') (lines 1259-1275).
FqTask == Nums
\* finish_all's work on one 'liveposts' key; op is what its read found.
FaTask == [n : Nums, step : {"get", "write"}, op : Nums \cup {None}]
\* remove_image's run on after its callback(null, false) (no cache entry),
\* and spoiler_image's (hmget, hmset).
StrayTask == [n : Nums, step : {"hexists", "hset", "hmget", "hmset"}]
CacheMsg == [kind : Kinds, op : Nums, tag : AllBoards \cup {None},
             num : Nums \cup {None}, nums : SUBSET Nums]

VARIABLES
  \* redis
  postctr,      \* 'postctr'
  thread,       \* 'thread:N' hash
  dead,         \* 'dead:N' hash
  replies,      \* 'thread:N:posts' list
  deadReplies,  \* 'dead:N:posts' list
  dels,         \* 'thread:N:dels' list
  post,         \* 'post:N' hash
  index,        \* 'tag:B:threads' sorted set (scores abstracted)
  graveyard,    \* 'tag:graveyard:threads'
  expiry,       \* 'expiry:all' entries <<op, board>>
  history,      \* 'thread:N:history' list of kinds
  deadHistory,  \* 'dead:N:history'
  liveposts,    \* 'liveposts' set
  cacheLog,     \* messages published on the 'cache' channel
  \* per server process
  OPs,          \* post number -> owning thread, or None
  TAGS,         \* thread -> board set ({} when absent)
  cpos,         \* cache messages the server's update_cache has consumed
  ltodo,        \* boards load_OPs has still to scan, in config order
  ltasks,       \* load_OPs round trips in flight (scan_thread, refresh_expiry)
  crashes,      \* crashes so far
  fq,           \* finish_quietly calls in flight
  fa,           \* "list" while finish_all has yet to read 'liveposts'
  ftasks,       \* finish_all's per-key round trips in flight
  \* clients
  open,         \* <<num, op, server>>: a client's post still open for writing
  \* per request slot
  pc, rq, nreqs,
  \* history variables
  okDeletes,    \* remove_thread calls that reported success, per thread
  ranked,       \* <<thread, board>> pairs some insert_post zadded to a ranking
  threads,      \* post numbers insert_post created as threads
  strays,       \* remove_image continuations past the missing return
  threw,        \* _log has thrown 'No OP.' inside finish_all
  imaged,       \* <<num, op>>: an image was attached to reply num of op
  unimaged      \* replies whose 'hideimg' some hset newly set

storeVars == <<postctr, thread, dead, replies, deadReplies, dels, post, index,
               graveyard, expiry, history, deadHistory, liveposts, cacheLog>>
cacheVars == <<OPs, TAGS, cpos>>
loadVars == <<ltodo, ltasks, crashes>>
bodyVars == <<fq, fa, ftasks, open, threw>>
imgVars == <<strays, imaged, unimaged>>
vars == <<storeVars, cacheVars, loadVars, bodyVars, imgVars, pc, rq, nreqs,
          okDeletes, ranked, threads>>

PCs == {"idle", "reserve", "insert", "batch1", "bump", "rp", "dels", "hide",
        "all_gone", "rt1", "rt2", "rt3", "rt4", "rt5", "lock", "lock2", "ar1",
        "ar2", "ar3", "pg1", "pg2", "pg3", "pg4", "pg5", "ri1", "ri2", "ri3",
        "ri4", "ai1", "ai2", "sp1", "sp2", "sp3", "done"}
Rets == {"none", "ok", "gone", "nothread", "nopost", "dead", "throttled",
         "deleted", "refused",
         "typeerror"}
Req == [op : Nums \cup {None}, num : Nums \cup {None}, board : Boards,
        bump : BOOLEAN, todo : Seq(Nums), got : SUBSET (Nums \X Nums),
        top : Nums \cup {None}, nums : Seq(Nums), listed : SUBSET Nums,
        tags : SUBSET AllBoards, nested : BOOLEAN, target : Nums \cup {None},
        locked : BOOLEAN, ret : Rets]

TypeOK ==
  /\ postctr \in 0..MaxPost
  /\ thread \in [Nums -> ThreadRec \cup {NoRec}]
  /\ dead \in [Nums -> ThreadRec \cup {NoRec}]
  /\ replies \in [Nums -> Seq(Nums)]
  /\ deadReplies \in [Nums -> Seq(Nums)]
  /\ dels \in [Nums -> Seq(Nums)]
  /\ post \in [Nums -> PostRec \cup {NoRec}]
  /\ index \in [AllBoards -> SUBSET Nums]
  /\ graveyard \in SUBSET Nums
  /\ expiry \in SUBSET (Nums \X Boards)
  /\ history \in [Nums -> Seq(Kinds)]
  /\ deadHistory \in [Nums -> Seq(Kinds)]
  /\ liveposts \in SUBSET Nums
  /\ cacheLog \in Seq(CacheMsg)
  /\ OPs \in [Servers -> [Nums -> Nums \cup {None}]]
  /\ TAGS \in [Servers -> [Nums -> SUBSET AllBoards]]
  /\ cpos \in [Servers -> Nat]
  /\ ltodo \in [Servers -> Seq(AllBoards)]
  /\ ltasks \in [Servers -> SUBSET LoadTask]
  /\ crashes \in 0..MaxCrashes
  /\ fq \in [Servers -> SUBSET FqTask]
  /\ fa \in [Servers -> {"idle", "list"}]
  /\ ftasks \in [Servers -> SUBSET FaTask]
  /\ open \subseteq Nums \X Nums \X Servers
  /\ threw \in BOOLEAN
  /\ strays \in [Servers -> SUBSET StrayTask]
  /\ imaged \subseteq Nums \X Nums
  /\ unimaged \subseteq Nums
  /\ pc \in [Procs -> PCs]
  /\ rq \in [Procs -> Req]
  /\ nreqs \in 0..MaxReqs
  /\ okDeletes \in [Nums -> Nat]
  /\ ranked \in SUBSET (Nums \X Boards)
  /\ threads \in SUBSET Nums

(***************************************************************************)
(* Initial store: thread 1 on the first board with one reply 2, as left by *)
(* two completed insert_post calls whose authors finished them, the reply  *)
(* carrying an image (imgctr 1); every server has run load_OPs.            *)
(***************************************************************************)
B0 == CHOOSE b \in Boards : TRUE

\* The hash insert_post writes for a new thread: time, and tags of its board.
ThreadView(b) == [tags |-> {b}, hide |-> FALSE, locked |-> FALSE, time |-> TRUE,
                  body |-> FALSE, imgctr |-> 0]

\* The hash insert_post writes for a reply without an image.
ReplyView(op) == [op |-> op, hide |-> FALSE, body |-> FALSE, src |-> FALSE,
                  hideimg |-> FALSE, spoiler |-> FALSE]

NoReq == [op |-> None, num |-> None, board |-> B0, bump |-> FALSE,
          todo |-> <<>>, got |-> {}, top |-> None, nums |-> <<>>, listed |-> {}, tags |-> {},
          nested |-> FALSE, target |-> None, locked |-> FALSE,
          ret |-> "none"]

Init ==
  /\ postctr = 2
  /\ thread = [n \in Nums |-> IF n = 1 THEN [ThreadView(B0) EXCEPT !.body = TRUE,
                                                                 !.imgctr = 1]
                              ELSE NoRec]
  /\ dead = [n \in Nums |-> NoRec]
  /\ replies = [n \in Nums |-> IF n = 1 THEN <<2>> ELSE <<>>]
  /\ deadReplies = [n \in Nums |-> <<>>]
  /\ dels = [n \in Nums |-> <<>>]
  /\ post = [n \in Nums |-> IF n = 2 THEN [ReplyView(1) EXCEPT !.body = TRUE,
                                                               !.src = TRUE]
                            ELSE NoRec]
  /\ index = [b \in AllBoards |-> IF b = B0 THEN {1} ELSE {}]
  /\ graveyard = {}
  /\ expiry = {<<1, B0>>}
  /\ history = [n \in Nums |-> IF n = 1 THEN <<"INSERT_POST", "INSERT_POST">>
                               ELSE <<>>]
  /\ deadHistory = [n \in Nums |-> <<>>]
  /\ liveposts = {}
  /\ cacheLog = <<>>
  /\ OPs = [s \in Servers |-> [n \in Nums |-> IF n \in {1, 2} THEN 1 ELSE None]]
  /\ TAGS = [s \in Servers |-> [n \in Nums |-> IF n = 1 THEN {B0} ELSE {}]]
  /\ cpos = [s \in Servers |-> 0]
  /\ ltodo = [s \in Servers |-> <<>>]
  /\ ltasks = [s \in Servers |-> {}]
  /\ crashes = 0
  /\ fq = [s \in Servers |-> {}]
  /\ fa = [s \in Servers |-> "idle"]
  /\ ftasks = [s \in Servers |-> {}]
  /\ open = {}
  /\ threw = FALSE
  /\ strays = [s \in Servers |-> {}]
  /\ imaged = {<<2, 1>>}
  /\ unimaged = {}
  /\ pc = [p \in Procs |-> "idle"]
  /\ rq = [p \in Procs |-> NoReq]
  /\ nreqs = 0
  /\ okDeletes = [n \in Nums |-> 0]
  /\ ranked = {<<1, B0>>}
  /\ threads = {1}

-----------------------------------------------------------------------------
(* Helpers *)

\* Mutant: the hctr-created hash taken for one with a tags field.
TouchBare(rec) == IF rec = NoRec THEN [hide |-> FALSE] ELSE rec

\* _log's hincrby on 'thread:op' (hctr) creates the hash when it is gone.
Touch(rec) == IF rec = NoRec
              THEN [tags |-> {}, hide |-> FALSE, locked |-> FALSE, time |-> FALSE,
                    body |-> FALSE, imgctr |-> 0]
              ELSE rec

\* Post n's key: 'thread:n' when insert_post made n a thread, else 'post:n'.
KeyOf(n) == IF n \in threads THEN "thread" ELSE "post"

\* An hset on 'post:n' recreates a hash the key lost, without its op.
HsetPost(rec) == IF rec = NoRec THEN ReplyView(None) ELSE rec

\* The hashes after finish_off(m, key, body)'s hset of 'body'; the del of
\* the body buffer and the hdel of 'state' touch nothing kept here.
FinishOffHashes(n, key) ==
  [thread |-> IF key = "thread" THEN [thread EXCEPT ![n] = [Touch(@) EXCEPT !.body = TRUE]]
              ELSE thread,
   dead |-> IF key = "dead" THEN [dead EXCEPT ![n] = [Touch(@) EXCEPT !.body = TRUE]]
            ELSE dead,
   post |-> IF key = "post" THEN [post EXCEPT ![n] = [HsetPost(@) EXCEPT !.body = TRUE]]
            ELSE post]

\* finish_off's srem from 'liveposts', whose members are 'thread:n' and
\* 'post:n' keys: the 'dead:n' key matches none of them.
Untrack(n, key) == IF key = "dead" THEN liveposts ELSE liveposts \ {n}

\* OP_has_tag on a server's cache.
OP_has_tag(s, b, op) == b \in TAGS[s][op]

\* The first tag of a set, as tags[0] of the parsed list (None if empty).
FirstTag(T) == IF T = {} THEN None ELSE CHOOSE b \in T : TRUE

Srv(p) == ServerOf[p]

\* track_OPs has called back: load_OPs has scanned every board.
Loaded(s) == ltodo[s] = <<>> /\ ltasks[s] = {}

\* The server starts serving once load_OPs and then finish_all are done.
Started(s) == Loaded(s) /\ fa[s] = "idle" /\ ftasks[s] = {}

\* A free slot on a started server takes a request of a kind callers issue.
CanStart(p, kind) ==
  /\ pc[p] = "idle" /\ nreqs < MaxReqs /\ Started(Srv(p)) /\ kind \in Requests

Finish(p, ret) ==
  /\ pc' = [pc EXCEPT ![p] = "done"]
  /\ rq' = [rq EXCEPT ![p].ret = ret]

-----------------------------------------------------------------------------
(***************************************************************************)
(* reserve_post(op, ip): a non-local ip first reads its throttle counters  *)
(* and may be refused; otherwise incr 'postctr' and record the provisional *)
(* owner OPs[num] = op || num.  The client then calls insert_post.         *)
(***************************************************************************)
StartPost(p, op, b, bump) ==
  /\ CanStart(p, "post")
  /\ nreqs' = nreqs + 1
  /\ pc' = [pc EXCEPT ![p] = "reserve"]
  /\ rq' = [rq EXCEPT ![p] = [NoReq EXCEPT !.op = op, !.board = b,
                                           !.bump = (op = None) \/ bump]]
  /\ UNCHANGED <<storeVars, cacheVars, okDeletes, ranked, threads>>

Reserve(p) ==
  LET num == postctr + 1 IN
  /\ pc[p] = "reserve"
  /\ \/ /\ postctr < MaxPost
        /\ postctr' = num
        /\ OPs' = [OPs EXCEPT ![Srv(p)][num] =
                      IF rq[p].op = None THEN num ELSE rq[p].op]
        /\ pc' = [pc EXCEPT ![p] = "insert"]
        /\ rq' = [rq EXCEPT ![p].num = num]
     \/ /\ Finish(p, "throttled")
        /\ UNCHANGED <<postctr, OPs>>
  /\ UNCHANGED <<thread, dead, replies, deadReplies, dels, post, index,
                 graveyard, expiry, history, deadHistory, liveposts, cacheLog,
                 TAGS, cpos, nreqs, okDeletes, ranked, threads>>

(***************************************************************************)
(* insert_post, synchronous part: a reply is refused when the cache does   *)
(* not show its thread live on the board, dropping the provisional entry.  *)
(***************************************************************************)
InsertCheck(p) ==
  LET op == rq[p].op  s == Srv(p) IN
  /\ pc[p] = "insert"
  /\ IF op # None /\ (OPs[s][op] # op \/ ~OP_has_tag(s, rq[p].board, op))
     THEN /\ OPs' = [OPs EXCEPT ![s][rq[p].num] = None]
          /\ Finish(p, "nothread")
     ELSE /\ pc' = [pc EXCEPT ![p] = "batch1"]
          /\ UNCHANGED <<OPs, rq>>
  /\ UNCHANGED <<storeVars, TAGS, cpos, nreqs, okDeletes, ranked, threads>>

(***************************************************************************)
(* insert_post, first MULTI: the post hash (a reply's 'post:N' with its op, *)
(* or the thread's 'thread:N' with its tag), 'liveposts', the reply list   *)
(* or the expiry entry, and _log INSERT_POST (history, hctr, publish and   *)
(* the cache message).  A bump continues with the second MULTI.  The       *)
(* client now holds the post open for append_post and finish_post.         *)
(***************************************************************************)
\* Mutant: the reply's view hmset under 'thread:op' instead of 'post:num'.
ReplyThreadWriteView(rec) == [Touch(rec) EXCEPT !.time = TRUE]

\* A reply's batch writes 'thread:op' only through _log's hincrby of hctr.
ReplyThreadWrite(rec) == Touch(rec)

InsertBatch(p) ==
  LET r == rq[p]  num == r.num
      isReply == r.op # None
      op == IF isReply THEN r.op ELSE num
  IN
  /\ pc[p] = "batch1"
  /\ IF isReply
     THEN /\ post' = [post EXCEPT ![num] = ReplyView(op)]
          /\ replies' = [replies EXCEPT ![op] = Append(@, num)]
          /\ thread' = [thread EXCEPT ![op] = ReplyThreadWrite(@)]
          /\ UNCHANGED <<expiry, threads>>
     ELSE /\ thread' = [thread EXCEPT ![num] = ThreadView(r.board)]
          /\ expiry' = expiry \cup {<<num, r.board>>}
          /\ threads' = threads \cup {num}
          /\ UNCHANGED <<post, replies>>
  /\ liveposts' = liveposts \cup {num}
  /\ open' = open \cup {<<num, op, Srv(p)>>}
  /\ history' = [history EXCEPT ![op] = Append(@, "INSERT_POST")]
  /\ cacheLog' = Append(cacheLog,
        [kind |-> "INSERT_POST", op |-> op, tag |-> r.board,
         num |-> IF isReply THEN num ELSE None, nums |-> {}])
  /\ IF r.bump
     THEN /\ pc' = [pc EXCEPT ![p] = "bump"]
          /\ UNCHANGED rq
     ELSE Finish(p, "ok")
  /\ UNCHANGED <<postctr, dead, deadReplies, dels, index, graveyard, deadHistory,
                 cacheVars, nreqs, okDeletes, ranked, fq, fa, ftasks, threw>>

\* insert_post, second MULTI: zadd the thread to its board's ranking.
InsertBump(p) ==
  LET op == IF rq[p].op = None THEN rq[p].num ELSE rq[p].op IN
  /\ pc[p] = "bump"
  /\ index' = [index EXCEPT ![rq[p].board] = @ \cup {op}]
  /\ ranked' = ranked \cup {<<op, rq[p].board>>}
  /\ Finish(p, "ok")
  /\ UNCHANGED <<postctr, thread, dead, replies, deadReplies, dels, post,
                 graveyard, expiry, history, deadHistory, liveposts, cacheLog,
                 cacheVars, nreqs, okDeletes, threads>>

-----------------------------------------------------------------------------
(***************************************************************************)
(* remove_posts(nums): remove_post(true, n) for each n in series, stopping *)
(* at the first error; then all_gone logs one DELETE_POSTS per thread.     *)
(***************************************************************************)
StartRemovePosts(p, nums) ==
  /\ CanStart(p, "remove_posts")
  /\ nreqs' = nreqs + 1
  /\ pc' = [pc EXCEPT ![p] = "rp"]
  /\ rq' = [rq EXCEPT ![p] = [NoReq EXCEPT !.todo = nums]]
  /\ UNCHANGED <<storeVars, cacheVars, okDeletes, ranked, threads>>

\* After one item of a tail.map/forEach list: the next one (at loop), or
\* the final callback (at final).
NextItem(r, loop, final) ==
  IF Tail(r.todo) = <<>>
  THEN <<final, [r EXCEPT !.todo = <<>>]>>
  ELSE <<loop, [r EXCEPT !.todo = Tail(r.todo)]>>

GoNextIn(p, r, loop, final) ==
  /\ pc' = [pc EXCEPT ![p] = NextItem(r, loop, final)[1]]
  /\ rq' = [rq EXCEPT ![p] = NextItem(r, loop, final)[2]]

GoNext(p, r) == GoNextIn(p, r, "rp", "all_gone")

(***************************************************************************)
(* remove_post(true, n): look n's thread up in the cache (no entry: error  *)
(* 'No such post.'; a thread: remove_thread), then lrem it from the        *)
(* thread's reply list; a count other than 1 means someone else removed   *)
(* it already (-n, skipped by all_gone).                                   *)
(***************************************************************************)
\* Mutant: the lrem count not checked.
LRemAny(list, n) == TRUE

\* lrem's count is 1: the number was still on the list.
LRemHit(list, n) == Contains(list, n)

RemovePost(p) ==
  LET r == rq[p]  n == Head(r.todo)  op == OPs[Srv(p)][n] IN
  /\ pc[p] = "rp"
  /\ \/ /\ op = None
        /\ Finish(p, "nopost")
        /\ UNCHANGED replies
     \/ /\ op = n
        /\ pc' = [pc EXCEPT ![p] = "rt1"]
        /\ rq' = [rq EXCEPT ![p].target = n, ![p].nested = TRUE]
        /\ UNCHANGED replies
     \/ /\ op \notin {None, n}
        /\ IF LRemHit(replies[op], n)
           THEN /\ replies' = [replies EXCEPT ![op] = Remove(@, n)]
                /\ pc' = [pc EXCEPT ![p] = "dels"]
                /\ rq' = [rq EXCEPT ![p].top = op]
           ELSE /\ GoNext(p, r)
                /\ UNCHANGED replies
  /\ UNCHANGED <<postctr, thread, dead, deadReplies, dels, post, index,
                 graveyard, expiry, history, deadHistory, liveposts, cacheLog,
                 cacheVars, nreqs, okDeletes, ranked, threads>>

\* remove_post: rpush the number on the thread's deletion list.
RecordDel(p) ==
  LET r == rq[p] IN
  /\ pc[p] = "dels"
  /\ dels' = [dels EXCEPT ![r.top] = Append(@, Head(r.todo))]
  /\ pc' = [pc EXCEPT ![p] = "hide"]
  /\ UNCHANGED <<postctr, thread, dead, replies, deadReplies, post, index,
                 graveyard, expiry, history, deadHistory, liveposts, cacheLog,
                 cacheVars, rq, nreqs, okDeletes, ranked, threads>>

(***************************************************************************)
(* gone_from_thread, reached from remove_post and from remove_thread: hset *)
(* hide on 'post:n', then drop n from this server's OPs and start          *)
(* finish_quietly('post:n') in the background.  (hide_image touches only   *)
(* images.)                                                                *)
(***************************************************************************)
HidePost(n) == post' = [post EXCEPT ![n] = [HsetPost(@) EXCEPT !.hide = TRUE]]

\* Mutant: the background finish_quietly call left out.
QuietlyFinishDropped(s, n) == fq' = fq

\* finish_quietly('post:n') started on server s.
QuietlyFinish(s, n) == fq' = [fq EXCEPT ![s] = @ \cup {n}]

GoneFromThread(p) ==
  LET r == rq[p]  n == Head(r.todo) IN
  /\ pc[p] = "hide"
  /\ HidePost(n)
  /\ OPs' = [OPs EXCEPT ![Srv(p)][n] = None]
  /\ QuietlyFinish(Srv(p), n)
  /\ GoNext(p, [r EXCEPT !.got = @ \cup {<<r.top, n>>}])
  /\ UNCHANGED <<postctr, thread, dead, replies, deadReplies, dels, index,
                 graveyard, expiry, history, deadHistory, liveposts, cacheLog,
                 TAGS, cpos, nreqs, okDeletes, ranked, threads, fa, ftasks,
                 open, threw>>

\* _log of one kind for thread op: history entry and hctr on 'thread:op'.
LogHistory(h, ops, kind) ==
  [n \in Nums |-> IF n \in ops THEN Append(h[n], kind) ELSE h[n]]

(***************************************************************************)
(* all_gone: nothing removed (every item already gone) ends at once;      *)
(* otherwise one MULTI with a DELETE_POSTS _log per thread, each carrying  *)
(* the cache update {nums}.                                                *)
(***************************************************************************)
AllGone(p) ==
  LET got == rq[p].got
      ops == {g[1] : g \in got}
      numsOf(op) == {g[2] : g \in {h \in got : h[1] = op}}
      msgs == [i \in 1..Cardinality(ops) |->
                 LET op == SetToSeq(ops)[i] IN
                 [kind |-> "DELETE_POSTS", op |-> op, tag |-> rq[p].board,
                  num |-> None, nums |-> numsOf(op)]]
  IN
  /\ pc[p] = "all_gone"
  /\ \/ /\ got = {}
        /\ UNCHANGED <<history, thread, cacheLog>>
     \/ /\ got # {}
        /\ history' = LogHistory(history, ops, "DELETE_POSTS")
        /\ thread' = [n \in Nums |-> IF n \in ops THEN Touch(thread[n]) ELSE thread[n]]
        /\ cacheLog' = cacheLog \o msgs
  /\ Finish(p, "ok")
  /\ UNCHANGED <<postctr, dead, replies, deadReplies, dels, post, index,
                 graveyard, expiry, deadHistory, liveposts, cacheVars, nreqs,
                 okDeletes, ranked, threads>>

-----------------------------------------------------------------------------
(***************************************************************************)
(* remove_thread(op), called directly or from remove_post: refused unless  *)
(* the cache shows op as a thread.                                         *)
(***************************************************************************)
StartRemoveThread(p, op) ==
  /\ CanStart(p, "remove_thread")
  /\ nreqs' = nreqs + 1
  /\ IF OPs[Srv(p)][op] # op
     THEN /\ pc' = [pc EXCEPT ![p] = "done"]
          /\ rq' = [rq EXCEPT ![p] = [NoReq EXCEPT !.target = op, !.ret = "nothread"]]
     ELSE /\ pc' = [pc EXCEPT ![p] = "rt1"]
          /\ rq' = [rq EXCEPT ![p] = [NoReq EXCEPT !.target = op]]
  /\ UNCHANGED <<storeVars, cacheVars, okDeletes, ranked, threads>>

\* Ending remove_thread: back to the remove_posts loop, or to the caller.
EndRemoveThread(p, r, ret) ==
  IF r.nested /\ ret = "ok"
  THEN GoNext(p, [r EXCEPT !.nested = FALSE])
  ELSE Finish(p, ret)

\* get_all_replies: lrange the reply list.
RTReplies(p) ==
  /\ pc[p] = "rt1"
  /\ pc' = [pc EXCEPT ![p] = "rt2"]
  /\ rq' = [rq EXCEPT ![p].nums = replies[rq[p].target],
                       ![p].listed = ToSet(replies[rq[p].target])]
  /\ UNCHANGED <<storeVars, cacheVars, nreqs, okDeletes, ranked, threads>>

(***************************************************************************)
(* remove_post(false, n) for each listed reply in series: error 'No such   *)
(* post.' when the cache has lost n, else gone_from_thread without lrem.   *)
(***************************************************************************)
RTRemoveReply(p) ==
  LET r == rq[p] IN
  /\ pc[p] = "rt2"
  /\ IF r.nums = <<>>
     THEN /\ pc' = [pc EXCEPT ![p] = "rt3"]
          /\ UNCHANGED <<post, OPs, rq, fq>>
     ELSE LET n == Head(r.nums) IN
          IF OPs[Srv(p)][n] = None
          THEN /\ EndRemoveThread(p, r, "nopost")
               /\ UNCHANGED <<post, OPs, fq>>
          ELSE /\ HidePost(n)
               /\ OPs' = [OPs EXCEPT ![Srv(p)][n] = None]
               /\ QuietlyFinish(Srv(p), n)
               /\ rq' = [rq EXCEPT ![p].nums = Tail(r.nums)]
               /\ UNCHANGED pc
  /\ UNCHANGED <<postctr, thread, dead, replies, deadReplies, dels, index,
                 graveyard, expiry, history, deadHistory, liveposts, cacheLog,
                 TAGS, cpos, nreqs, okDeletes, ranked, threads, fa, ftasks,
                 open, threw>>

(***************************************************************************)
(* MULTI incr graveyard bumpctr, hgetall 'thread:op'.  A vanished hash     *)
(* reads as null and post.tags throws a TypeError in the callback.         *)
(***************************************************************************)
RTRead(p) ==
  LET op == rq[p].target IN
  /\ pc[p] = "rt3"
  /\ IF thread[op] = NoRec
     THEN Finish(p, "typeerror")
     ELSE /\ pc' = [pc EXCEPT ![p] = "rt4"]
          /\ rq' = [rq EXCEPT ![p].tags = thread[op].tags]
  /\ UNCHANGED <<storeVars, cacheVars, nreqs, okDeletes, ranked, threads>>

(***************************************************************************)
(* The deletion MULTI: zrem expiry and board rankings for every tag, zadd  *)
(* graveyard, _log DELETE_THREAD with the cache update {nums}, hset hide,  *)
(* then renamenx 'thread:op' and its history to 'dead:'.  Redis runs every *)
(* command of the batch; only the two renamenx results are checked.  The   *)
(* winner drops op from the cache (removeOPTag) and goes on to rename the  *)
(* reply list; a zero result fails as 'Already deleted?!'.                 *)
(***************************************************************************)
\* Mutant: rename in place of renamenx.
RenameAlways(dst, empty) == TRUE

\* renamenx succeeds only when the destination key does not exist.
RenameNX(dst, empty) == dst = empty

\* zrem op from the ranking of every board in T.
DropFromRankings(T, op) ==
  [b \in AllBoards |-> IF b \in T THEN index[b] \ {op} ELSE index[b]]

RTDelete(p) ==
  LET r == rq[p]  op == r.target
      hidden == [Touch(thread[op]) EXCEPT !.hide = TRUE]
      wins == RenameNX(dead[op], NoRec)
      winsHist == RenameNX(deadHistory[op], <<>>)
      hist == Append(history[op], "DELETE_THREAD")
  IN
  /\ pc[p] = "rt4"
  /\ expiry' = expiry \ {<<op, b>> : b \in r.tags}
  /\ index' = DropFromRankings(r.tags, op)
  /\ graveyard' = graveyard \cup {op}
  /\ cacheLog' = Append(cacheLog,
        [kind |-> "DELETE_THREAD", op |-> op, tag |-> FirstTag(r.tags),
         num |-> None, nums |-> r.listed])
  /\ IF wins
     THEN /\ dead' = [dead EXCEPT ![op] = hidden]
          /\ thread' = [thread EXCEPT ![op] = NoRec]
     ELSE /\ thread' = [thread EXCEPT ![op] = hidden]
          /\ UNCHANGED dead
  /\ IF winsHist
     THEN /\ deadHistory' = [deadHistory EXCEPT ![op] = hist]
          /\ history' = [history EXCEPT ![op] = <<>>]
     ELSE /\ history' = [history EXCEPT ![op] = hist]
          /\ UNCHANGED deadHistory
  /\ IF wins /\ winsHist
     THEN /\ OPs' = [OPs EXCEPT ![Srv(p)][op] = None]
          /\ TAGS' = [TAGS EXCEPT ![Srv(p)][op] = {}]
          /\ pc' = [pc EXCEPT ![p] = "rt5"]
          /\ UNCHANGED rq
     ELSE /\ EndRemoveThread(p, r, "dead")
          /\ UNCHANGED <<OPs, TAGS>>
  /\ UNCHANGED <<postctr, replies, deadReplies, dels, post, liveposts, cpos,
                 nreqs>>
  /\ UNCHANGED <<okDeletes, ranked, threads>>

(***************************************************************************)
(* The winner's extra MULTI: rename the reply list (and links) to 'dead:'. *)
(* finish_quietly('dead:op') is started in the same callback, its first    *)
(* command going out after this MULTI.  It writes only the 'body' of       *)
(* 'dead:op', which no other step reads or writes, and its srem of         *)
(* 'dead:op' from 'liveposts' matches no member, so it is taken here.      *)
(***************************************************************************)
RTRename(p) ==
  LET op == rq[p].target IN
  /\ pc[p] = "rt5"
  /\ deadReplies' = [deadReplies EXCEPT ![op] = replies[op]]
  /\ replies' = [replies EXCEPT ![op] = <<>>]
  /\ okDeletes' = [okDeletes EXCEPT ![op] = @ + 1]
  /\ dead' = FinishOffHashes(op, "dead").dead
  /\ liveposts' = Untrack(op, "dead")
  /\ EndRemoveThread(p, rq[p], "ok")
  /\ UNCHANGED <<postctr, thread, dels, post, index, graveyard, expiry,
                 history, deadHistory, cacheLog, cacheVars, nreqs,
                 ranked, threads, fq, fa, ftasks, open, threw>>

-----------------------------------------------------------------------------
(***************************************************************************)
(* toggle_thread_lock(op): refused unless the cache shows op as a thread;  *)
(* hexists 'locked', then a MULTI that hdels or hsets it and logs          *)
(* UNLOCK_THREAD or LOCK_THREAD (history and hctr, no cache message).      *)
(***************************************************************************)
StartToggleLock(p, op) ==
  /\ CanStart(p, "lock")
  /\ nreqs' = nreqs + 1
  /\ IF OPs[Srv(p)][op] # op
     THEN /\ pc' = [pc EXCEPT ![p] = "done"]
          /\ rq' = [rq EXCEPT ![p] = [NoReq EXCEPT !.target = op, !.ret = "nothread"]]
     ELSE /\ pc' = [pc EXCEPT ![p] = "lock"]
          /\ rq' = [rq EXCEPT ![p] = [NoReq EXCEPT !.target = op]]
  /\ UNCHANGED <<storeVars, cacheVars, okDeletes, ranked, threads>>

ToggleRead(p) ==
  LET rec == thread[rq[p].target] IN
  /\ pc[p] = "lock"
  /\ pc' = [pc EXCEPT ![p] = "lock2"]
  /\ rq' = [rq EXCEPT ![p].locked = rec # NoRec /\ rec.locked]
  /\ UNCHANGED <<storeVars, cacheVars, nreqs, okDeletes, ranked, threads>>

ToggleWrite(p) ==
  LET op == rq[p].target  locked == rq[p].locked IN
  /\ pc[p] = "lock2"
  /\ thread' = [thread EXCEPT ![op] = [Touch(@) EXCEPT !.locked = ~locked]]
  /\ history' = [history EXCEPT ![op] =
                   Append(@, IF locked THEN "UNLOCK_THREAD" ELSE "LOCK_THREAD")]
  /\ Finish(p, "ok")
  /\ UNCHANGED <<postctr, dead, replies, deadReplies, dels, post, index,
                 graveyard, expiry, deadHistory, liveposts, cacheLog, cacheVars,
                 nreqs, okDeletes, ranked, threads>>

(***************************************************************************)
(* archive_thread(op), with no cache check: a MULTI of exists, immortal    *)
(* (never set here) and the graveyard score; a MULTI reading the thread    *)
(* hash and its deletion list; then the MULTI that moves the thread to the *)
(* archive ranking only, logs DELETE_THREAD and MOVE_THREAD (the latter    *)
(* with a cache message), clears hctr and the history, and deletes the     *)
(* removed replies; its callback set_OP_tags the local cache, and the     *)
(* waterfall's done() then calls the caller back with success.             *)
(***************************************************************************)
StartArchive(p, op) ==
  /\ CanStart(p, "archive")
  /\ nreqs' = nreqs + 1
  /\ pc' = [pc EXCEPT ![p] = "ar1"]
  /\ rq' = [rq EXCEPT ![p] = [NoReq EXCEPT !.target = op]]
  /\ UNCHANGED <<storeVars, cacheVars, okDeletes, ranked, threads>>

ArCheck(p) ==
  LET op == rq[p].target IN
  /\ pc[p] = "ar1"
  /\ CASE thread[op] = NoRec -> Finish(p, "nothread")
       [] op \in graveyard -> Finish(p, "deleted")
       [] OTHER -> /\ pc' = [pc EXCEPT ![p] = "ar2"]
                   /\ UNCHANGED rq
  /\ UNCHANGED <<storeVars, cacheVars, nreqs, okDeletes, ranked, threads>>

\* A vanished hash reads as null and view.subject throws.
ArRead(p) ==
  LET op == rq[p].target IN
  /\ pc[p] = "ar2"
  /\ IF thread[op] = NoRec
     THEN Finish(p, "typeerror")
     ELSE /\ pc' = [pc EXCEPT ![p] = "ar3"]
          /\ rq' = [rq EXCEPT ![p].tags = thread[op].tags, ![p].nums = dels[op]]
  /\ UNCHANGED <<storeVars, cacheVars, nreqs, okDeletes, ranked, threads>>

ArWrite(p) ==
  LET op == rq[p].target  r == rq[p] IN
  /\ pc[p] = "ar3"
  /\ thread' = [thread EXCEPT ![op] = [Touch(@) EXCEPT !.tags = {Archive}]]
  /\ index' = [DropFromRankings(r.tags, op) EXCEPT ![Archive] = @ \cup {op}]
  /\ history' = [history EXCEPT ![op] = <<>>]
  /\ cacheLog' = Append(cacheLog, [kind |-> "MOVE_THREAD", op |-> op, tag |-> Archive,
                                   num |-> None, nums |-> {}])
  /\ post' = [n \in Nums |-> IF Contains(r.nums, n) THEN NoRec ELSE post[n]]
  /\ dels' = [dels EXCEPT ![op] = <<>>]
  /\ TAGS' = [TAGS EXCEPT ![Srv(p)][op] = {Archive}]
  /\ Finish(p, "ok")
  /\ UNCHANGED <<postctr, dead, replies, deadReplies, graveyard, expiry,
                 deadHistory, liveposts, OPs, cpos, nreqs, okDeletes,
                 ranked, threads>>

(***************************************************************************)
(* purge_thread(op): exists and immortal; lrange the replies; hgetall the  *)
(* thread and every reply (a null hash throws at res[i].src); a MULTI that *)
(* lranges the replies again and zrems 'tag:<tags field>:threads', whose   *)
(* callback issues the deletion MULTI and at once runs removeOPTag; then   *)
(* the deletion of every reply hash and of the thread's keys.  No log, no  *)
(* cache message, no graveyard or expiry change.                           *)
(***************************************************************************)
StartPurge(p, op) ==
  /\ CanStart(p, "purge")
  /\ nreqs' = nreqs + 1
  /\ pc' = [pc EXCEPT ![p] = "pg1"]
  /\ rq' = [rq EXCEPT ![p] = [NoReq EXCEPT !.target = op]]
  /\ UNCHANGED <<storeVars, cacheVars, okDeletes, ranked, threads>>

PgCheck(p) ==
  /\ pc[p] = "pg1"
  /\ IF thread[rq[p].target] = NoRec
     THEN Finish(p, "nothread")
     ELSE /\ pc' = [pc EXCEPT ![p] = "pg2"]
          /\ UNCHANGED rq
  /\ UNCHANGED <<storeVars, cacheVars, nreqs, okDeletes, ranked, threads>>

PgList(p) ==
  /\ pc[p] = "pg2"
  /\ pc' = [pc EXCEPT ![p] = "pg3"]
  /\ rq' = [rq EXCEPT ![p].nums = replies[rq[p].target]]
  /\ UNCHANGED <<storeVars, cacheVars, nreqs, okDeletes, ranked, threads>>

PgRead(p) ==
  LET op == rq[p].target IN
  /\ pc[p] = "pg3"
  /\ IF thread[op] = NoRec \/ \E n \in ToSet(rq[p].nums) : post[n] = NoRec
     THEN Finish(p, "typeerror")
     ELSE /\ pc' = [pc EXCEPT ![p] = "pg4"]
          /\ rq' = [rq EXCEPT ![p].tags = thread[op].tags]
  /\ UNCHANGED <<storeVars, cacheVars, nreqs, okDeletes, ranked, threads>>

\* The tags field names one ranking key only when the thread has one tag.
PgZrem(p) ==
  LET op == rq[p].target  T == rq[p].tags IN
  /\ pc[p] = "pg4"
  /\ index' = IF Cardinality(T) = 1 THEN DropFromRankings(T, op) ELSE index
  /\ OPs' = [OPs EXCEPT ![Srv(p)][op] = None]
  /\ TAGS' = [TAGS EXCEPT ![Srv(p)][op] = {}]
  /\ pc' = [pc EXCEPT ![p] = "pg5"]
  /\ rq' = [rq EXCEPT ![p].nums = replies[op]]
  /\ UNCHANGED <<postctr, thread, dead, replies, deadReplies, dels, post,
                 graveyard, expiry, history, deadHistory, liveposts, cacheLog,
                 cpos, nreqs, okDeletes, ranked, threads>>

PgDelete(p) ==
  LET op == rq[p].target IN
  /\ pc[p] = "pg5"
  /\ post' = [n \in Nums |-> IF Contains(rq[p].nums, n) THEN NoRec ELSE post[n]]
  /\ thread' = [thread EXCEPT ![op] = NoRec]
  /\ dels' = [dels EXCEPT ![op] = <<>>]
  /\ history' = [history EXCEPT ![op] = <<>>]
  /\ replies' = [replies EXCEPT ![op] = <<>>]
  /\ Finish(p, "ok")
  /\ UNCHANGED <<postctr, dead, deadReplies, index, graveyard, expiry,
                 deadHistory, liveposts, cacheLog, cacheVars, nreqs,
                 okDeletes, ranked, threads>>

-----------------------------------------------------------------------------
(***************************************************************************)
(* Post bodies.  The text is abstracted away: a hash keeps only whether it *)
(* has the final 'body' field finish_off writes, and 'liveposts' which     *)
(* posts still wait for it (the helpers KeyOf, FinishOffHashes and        *)
(* Untrack are with the others above).                                     *)
(***************************************************************************)
\* A request that is a single round trip: it starts and ends in one step.
OneShot(p, kind, n) ==
  /\ CanStart(p, kind)
  /\ nreqs' = nreqs + 1
  /\ pc' = [pc EXCEPT ![p] = "done"]
  /\ rq' = [rq EXCEPT ![p] = [NoReq EXCEPT !.target = n, !.ret = "ok"]]

(***************************************************************************)
(* append_post for a post o = <<num, op, server>> its client holds open: a *)
(* MULTI (the attachToPost hook only adds to it before exec) that appends  *)
(* the tail to the body buffer, hsets 'state' when the state vector        *)
(* changed, and _logs UPDATE_POST on the thread.  Nothing checks that the  *)
(* post still exists ("thanks to client state"): the hset and the hctr     *)
(* hincrby recreate a hash that is gone.                                   *)
(***************************************************************************)
AppendPost(p, o) ==
  LET n == o[1]  op == o[2] IN
  /\ o[3] = Srv(p)
  /\ OneShot(p, "append", n)
  /\ \E changed \in BOOLEAN :
       post' = IF changed /\ KeyOf(n) = "post" THEN [post EXCEPT ![n] = HsetPost(@)]
               ELSE post
  /\ thread' = [thread EXCEPT ![op] = Touch(@)]
  /\ history' = [history EXCEPT ![op] = Append(@, "UPDATE_POST")]
  /\ UNCHANGED <<postctr, dead, replies, deadReplies, dels, index, graveyard,
                 expiry, deadHistory, liveposts, cacheLog, cacheVars, okDeletes,
                 ranked, threads, fq, fa, ftasks, open, threw>>

\* finish_post: finish_off on the post's key and _log FINISH_POST, one MULTI.
FinishPost(p, o) ==
  LET n == o[1]  op == o[2]  h == FinishOffHashes(n, KeyOf(n)) IN
  /\ o[3] = Srv(p)
  /\ OneShot(p, "finish", n)
  /\ thread' = [h.thread EXCEPT ![op] = Touch(@)]
  /\ post' = h.post
  /\ liveposts' = Untrack(n, KeyOf(n))
  /\ history' = [history EXCEPT ![op] = Append(@, "FINISH_POST")]
  /\ open' = open \ {o}
  /\ UNCHANGED <<postctr, dead, replies, deadReplies, dels, index, graveyard,
                 expiry, deadHistory, cacheLog, cacheVars, okDeletes, ranked,
                 threads, fq, fa, ftasks, threw>>

(***************************************************************************)
(* finish_quietly('post:n'), in the background of gone_from_thread:        *)
(* hexists 'body' (a finished post is left alone), get the buffer and      *)
(* finish_off it in a MULTI.  The buffer's content is abstracted and       *)
(* 'body' is never removed from a hash, so whatever lands between the      *)
(* three round trips, the result is one of those of running them at once:  *)
(* one step.  No _log.                                                     *)
(***************************************************************************)
FinishQuietly(s, n) ==
  LET h == FinishOffHashes(n, "post")
      done == post[n] # NoRec /\ post[n].body
  IN
  /\ post' = IF done THEN post ELSE h.post
  /\ liveposts' = IF done THEN liveposts ELSE Untrack(n, "post")
  /\ fq' = [fq EXCEPT ![s] = @ \ {n}]
  /\ UNCHANGED <<postctr, thread, dead, replies, deadReplies, dels, index,
                 graveyard, expiry, history, deadHistory, cacheLog, cacheVars,
                 loadVars, fa, ftasks, open, threw, pc, rq, nreqs, okDeletes,
                 ranked, threads>>

(***************************************************************************)
(* finish_all, run by a starting server once load_OPs is done: smembers   *)
(* 'liveposts', then for every key at once a MULTI that gets the body      *)
(* buffer and, for a 'post:' key, hgets the hash's op, and a MULTI that    *)
(* runs finish_off, _logs FINISH_POST on that op and srems the key.  The   *)
(* server serves requests once it has called back.                         *)
(***************************************************************************)
FaList(s) ==
  /\ fa[s] = "list" /\ Loaded(s)
  /\ fa' = [fa EXCEPT ![s] = "idle"]
  /\ ftasks' = [ftasks EXCEPT ![s] =
                  {[n |-> n, step |-> "get", op |-> None] : n \in liveposts}]
  /\ UNCHANGED <<storeVars, cacheVars, loadVars, fq, open, threw, pc, rq, nreqs,
                 okDeletes, ranked, threads>>

\* parseInt of the op a vanished or recreated 'post:' hash returns is NaN.
FaGet(s, t) ==
  LET op == IF KeyOf(t.n) = "thread" THEN t.n
            ELSE IF post[t.n] = NoRec THEN None ELSE post[t.n].op
  IN
  /\ t.step = "get"
  /\ ftasks' = [ftasks EXCEPT ![s] = (@ \ {t}) \cup {[t EXCEPT !.step = "write", !.op = op]}]
  /\ UNCHANGED <<storeVars, cacheVars, loadVars, fq, fa, open, threw, pc, rq,
                 nreqs, okDeletes, ranked, threads>>

\* finish_all's write for a key whose op it read: finish_off's MULTI.
FaFinishOff(s, t) ==
  LET h == FinishOffHashes(t.n, KeyOf(t.n)) IN
  /\ thread' = [h.thread EXCEPT ![t.op] = Touch(@)]
  /\ post' = h.post
  /\ liveposts' = Untrack(t.n, KeyOf(t.n))
  /\ history' = [history EXCEPT ![t.op] = Append(@, "FINISH_POST")]
  /\ ftasks' = [ftasks EXCEPT ![s] = @ \ {t}]
  /\ UNCHANGED <<postctr, dead, replies, deadReplies, dels, index, graveyard,
                 expiry, deadHistory, cacheLog, cacheVars, loadVars, fq, fa,
                 open, threw, pc, rq, nreqs, okDeletes, ranked, threads, imgVars>>

-----------------------------------------------------------------------------
(***************************************************************************)
(* remove_images(nums): remove_image(threads, n) for each n in series,     *)
(* stopping at the first error; then one MULTI with a DELETE_IMAGES _log   *)
(* per thread (no cache update).  hide_image's hmget and the buryImage     *)
(* hook change nothing kept here and are folded into the hset step.        *)
(***************************************************************************)
StartRemoveImages(p, nums) ==
  /\ CanStart(p, "remove_images")
  /\ nreqs' = nreqs + 1
  /\ pc' = [pc EXCEPT ![p] = "ri1"]
  /\ rq' = [rq EXCEPT ![p] = [NoReq EXCEPT !.todo = nums]]
  /\ UNCHANGED <<storeVars, cacheVars, okDeletes, ranked, threads, imgVars>>

\* hexists(key, 'src'): replies carry the only images here.
HasSrc(key, n) == key = "post" /\ post[n] # NoRec /\ post[n].src

\* Mutant: hset's answer not checked.
HideImgAny(n) == TRUE

\* hset(key, 'hideimg', 1) answers 1 when the field is new.
HideImgNew(n) == post[n] = NoRec \/ ~post[n].hideimg

SetHideImg(n) == post' = [post EXCEPT ![n] = [HsetPost(@) EXCEPT !.hideimg = TRUE]]

(***************************************************************************)
(* remove_image's lookup and hexists.  No cache entry: callback(null,      *)
(* false) moves the list on, but with no return the call runs on with key  *)
(* 'post:n' (line 1007) as a stray continuation of server s.               *)
(***************************************************************************)
RemoveImage(p) ==
  LET r == rq[p]  n == Head(r.todo)  op == OPs[Srv(p)][n]
      key == IF op = n THEN "thread" ELSE "post" IN
  /\ pc[p] = "ri1"
  /\ \/ /\ op = None
        /\ GoNextIn(p, r, "ri1", "ri4")
        /\ strays' = [strays EXCEPT ![Srv(p)] = @ \cup {[n |-> n, step |-> "hexists"]}]
     \/ /\ op # None
        /\ IF HasSrc(key, n)
           THEN /\ pc' = [pc EXCEPT ![p] = "ri2"]
                /\ rq' = [rq EXCEPT ![p].top = op]
           ELSE GoNextIn(p, r, "ri1", "ri4")
        /\ UNCHANGED strays
  /\ UNCHANGED <<storeVars, cacheVars, nreqs, okDeletes, ranked, threads,
                 imaged, unimaged>>

\* hset hideimg; a field already set means another call removed the image.
RemoveImageHset(p) ==
  LET r == rq[p]  n == Head(r.todo) IN
  /\ pc[p] = "ri2"
  /\ SetHideImg(n)
  /\ IF HideImgNew(n)
     THEN /\ pc' = [pc EXCEPT ![p] = "ri3"]
          /\ rq' = [rq EXCEPT ![p].got = @ \cup {<<r.top, n>>}]
          /\ unimaged' = unimaged \cup {n}
     ELSE /\ GoNextIn(p, r, "ri1", "ri4")
          /\ UNCHANGED unimaged
  /\ UNCHANGED <<postctr, thread, dead, replies, deadReplies, dels, index,
                 graveyard, expiry, history, deadHistory, liveposts, cacheLog,
                 cacheVars, nreqs, okDeletes, ranked, threads, strays, imaged>>

\* hincrby('thread:op', 'imgctr', -1), whose callback ends the item.
RemoveImageDecr(p) ==
  LET r == rq[p] IN
  /\ pc[p] = "ri3"
  /\ thread' = [thread EXCEPT ![r.top] = [Touch(@) EXCEPT !.imgctr = @ - 1]]
  /\ GoNextIn(p, r, "ri1", "ri4")
  /\ UNCHANGED <<postctr, dead, replies, deadReplies, dels, post, index,
                 graveyard, expiry, history, deadHistory, liveposts, cacheLog,
                 cacheVars, nreqs, okDeletes, ranked, threads, imgVars>>

\* The final MULTI of remove_images (at "ri4") and force_image_spoilers (at
\* "sp3"): one _log of kind per thread in threads, no cache update; empty
\* when nothing changed.
LogImages(p, at, kind) ==
  LET ops == {g[1] : g \in rq[p].got} IN
  /\ pc[p] = at
  /\ history' = LogHistory(history, ops, kind)
  /\ thread' = [n \in Nums |-> IF n \in ops THEN Touch(thread[n]) ELSE thread[n]]
  /\ Finish(p, "ok")
  /\ UNCHANGED <<postctr, dead, replies, deadReplies, dels, post, index,
                 graveyard, expiry, deadHistory, liveposts, cacheLog,
                 cacheVars, nreqs, okDeletes, ranked, threads, imgVars>>

RemoveImagesLog(p) == LogImages(p, "ri4", "DELETE_IMAGES")

(***************************************************************************)
(* force_image_spoilers(nums): spoiler_image(threads, n) for each n in     *)
(* series, then the final MULTI with a SPOILER_IMAGES _log per thread.     *)
(* spoiler_image also lacks the return after callback(null, false).        *)
(***************************************************************************)
StartSpoilers(p, nums) ==
  /\ CanStart(p, "spoiler")
  /\ nreqs' = nreqs + 1
  /\ pc' = [pc EXCEPT ![p] = "sp1"]
  /\ rq' = [rq EXCEPT ![p] = [NoReq EXCEPT !.todo = nums]]
  /\ UNCHANGED <<storeVars, cacheVars, okDeletes, ranked, threads, imgVars>>

\* hmget(key, ['src', 'spoiler']): an image not yet spoilt.
Spoilable(key, n) == HasSrc(key, n) /\ ~post[n].spoiler

SetSpoiler(n) == post' = [post EXCEPT ![n] = [HsetPost(@) EXCEPT !.spoiler = TRUE]]

SpoilerRead(p) ==
  LET r == rq[p]  n == Head(r.todo)  op == OPs[Srv(p)][n]
      key == IF op = n THEN "thread" ELSE "post" IN
  /\ pc[p] = "sp1"
  /\ \/ /\ op = None
        /\ GoNextIn(p, r, "sp1", "sp3")
        /\ strays' = [strays EXCEPT ![Srv(p)] = @ \cup {[n |-> n, step |-> "hmget"]}]
     \/ /\ op # None
        /\ IF Spoilable(key, n)
           THEN /\ pc' = [pc EXCEPT ![p] = "sp2"]
                /\ rq' = [rq EXCEPT ![p].top = op]
           ELSE GoNextIn(p, r, "sp1", "sp3")
        /\ UNCHANGED strays
  /\ UNCHANGED <<storeVars, cacheVars, nreqs, okDeletes, ranked, threads,
                 imaged, unimaged>>

\* hmset spoiler, unconditionally: the hmget's answer may be stale by now.
SpoilerWrite(p) ==
  LET r == rq[p]  n == Head(r.todo) IN
  /\ pc[p] = "sp2"
  /\ SetSpoiler(n)
  /\ GoNextIn(p, [r EXCEPT !.got = @ \cup {<<r.top, n>>}], "sp1", "sp3")
  /\ UNCHANGED <<postctr, thread, dead, replies, deadReplies, dels, index,
                 graveyard, expiry, history, deadHistory, liveposts, cacheLog,
                 cacheVars, nreqs, okDeletes, ranked, threads, imgVars>>

SpoilersLog(p) == LogImages(p, "sp3", "SPOILER_IMAGES")

(***************************************************************************)
(* The stray remove_image on server s: hexists then hset 'hideimg'; the   *)
(* stray spoiler_image: hmget then hmset 'spoiler'.  Their hincrby and     *)
(* push go to 'undefined', outside the model, and what tail.forEach makes  *)
(* of a second callback is outside src.                                    *)
(***************************************************************************)
StrayHexists(s, t) ==
  /\ t.step = "hexists"
  /\ strays' = [strays EXCEPT ![s] = (@ \ {t}) \cup
                  IF HasSrc("post", t.n) THEN {[t EXCEPT !.step = "hset"]} ELSE {}]
  /\ UNCHANGED <<storeVars, imaged, unimaged>>

StrayHset(s, t) ==
  /\ t.step = "hset"
  /\ SetHideImg(t.n)
  /\ unimaged' = IF HideImgNew(t.n) THEN unimaged \cup {t.n} ELSE unimaged
  /\ strays' = [strays EXCEPT ![s] = @ \ {t}]
  /\ UNCHANGED <<postctr, thread, dead, replies, deadReplies, dels, index,
                 graveyard, expiry, history, deadHistory, liveposts, cacheLog,
                 imaged>>

StrayHmget(s, t) ==
  /\ t.step = "hmget"
  /\ strays' = [strays EXCEPT ![s] = (@ \ {t}) \cup
                  IF Spoilable("post", t.n) THEN {[t EXCEPT !.step = "hmset"]} ELSE {}]
  /\ UNCHANGED <<storeVars, imaged, unimaged>>

StrayHmset(s, t) ==
  /\ t.step = "hmset"
  /\ SetSpoiler(t.n)
  /\ strays' = [strays EXCEPT ![s] = @ \ {t}]
  /\ UNCHANGED <<postctr, thread, dead, replies, deadReplies, dels, index,
                 graveyard, expiry, history, deadHistory, liveposts, cacheLog,
                 imaged, unimaged>>

(***************************************************************************)
(* add_image(post, alloc): OPs refused; exists 'post:num' (no: 'Post does  *)
(* not exist.'); commit_image_alloc, outside the store; then one MULTI:    *)
(* hmset of the image fields, imgctr + 1 and an INSERT_IMAGE _log.  The    *)
(* alloc is a valid one; the imageDups hash and throughput are not kept.   *)
(***************************************************************************)
StartAddImage(p, o) ==
  /\ CanStart(p, "add_image")
  /\ o[3] = Srv(p)
  /\ nreqs' = nreqs + 1
  /\ IF o[1] = o[2]
     THEN /\ Finish(p, "refused")
     ELSE /\ pc' = [pc EXCEPT ![p] = "ai1"]
          /\ rq' = [rq EXCEPT ![p] = [NoReq EXCEPT !.num = o[1], !.op = o[2]]]
  /\ UNCHANGED <<storeVars, cacheVars, okDeletes, ranked, threads, imgVars>>

AddImageCheck(p) ==
  /\ pc[p] = "ai1"
  /\ IF post[rq[p].num] = NoRec
     THEN Finish(p, "nopost")
     ELSE /\ pc' = [pc EXCEPT ![p] = "ai2"]
          /\ UNCHANGED rq
  /\ UNCHANGED <<storeVars, cacheVars, nreqs, okDeletes, ranked, threads, imgVars>>

AddImageWrite(p) ==
  LET n == rq[p].num  op == rq[p].op IN
  /\ pc[p] = "ai2"
  /\ post' = [post EXCEPT ![n] = [HsetPost(@) EXCEPT !.src = TRUE]]
  /\ thread' = [thread EXCEPT ![op] = [Touch(@) EXCEPT !.imgctr = @ + 1]]
  /\ history' = [history EXCEPT ![op] = Append(@, "INSERT_IMAGE")]
  /\ imaged' = imaged \cup {<<n, op>>}
  /\ Finish(p, "ok")
  /\ UNCHANGED <<postctr, dead, replies, deadReplies, dels, index, graveyard,
                 expiry, deadHistory, liveposts, cacheLog, cacheVars, nreqs,
                 okDeletes, ranked, threads, strays, unimaged>>

-----------------------------------------------------------------------------
(***************************************************************************)
(* update_cache on server s: the next message of the 'cache' channel.      *)
(* DELETE_POSTS reads msg.num.length, but the message carries nums, not    *)
(* num: the handler throws before deleting anything.                       *)
(***************************************************************************)
UpdateCache(s) ==
  LET m == cacheLog[cpos[s] + 1] IN
  /\ cpos[s] < Len(cacheLog)
  /\ cpos' = [cpos EXCEPT ![s] = @ + 1]
  /\ CASE m.kind = "INSERT_POST" /\ m.num # None ->
            /\ OPs' = [OPs EXCEPT ![s][m.num] = m.op]
            /\ UNCHANGED TAGS
       [] m.kind = "INSERT_POST" ->
            /\ TAGS' = [TAGS EXCEPT ![s][m.op] =
                          IF m.tag = None THEN @ ELSE @ \cup {m.tag}]
            /\ OPs' = [OPs EXCEPT ![s][m.op] = m.op]
       [] m.kind = "MOVE_THREAD" ->
            /\ TAGS' = [TAGS EXCEPT ![s][m.op] = {m.tag}]
            /\ UNCHANGED OPs
       [] m.kind = "DELETE_POSTS" ->
            UNCHANGED <<OPs, TAGS>>
       [] m.kind = "DELETE_THREAD" ->
            /\ OPs' = [OPs EXCEPT ![s] = [n \in Nums |->
                          IF n \in m.nums THEN None ELSE @[n]]]
            /\ TAGS' = [TAGS EXCEPT ![s][m.op] = {}]
  /\ UNCHANGED <<storeVars, pc, rq, nreqs, okDeletes, ranked, threads>>

-----------------------------------------------------------------------------
(***************************************************************************)
(* A server process crashes and restarts.  Its request slots are lost      *)
(* mid-flight (the writes already made stay in redis) and so is its        *)
(* cache.  On start track_OPs subscribes to 'cache' and, once subscribed,   *)
(* runs load_OPs; the server serves requests after the callback (Loaded).  *)
(* Messages published from the subscription on reach the new process.     *)
(***************************************************************************)
BoardOrder == SetToSeq(AllBoards)

\* A new process on s: in-flight work, cache and client connections are
\* gone; load_OPs and finish_all start.
Restart(s) ==
  /\ pc' = [p \in Procs |-> IF Srv(p) = s THEN "idle" ELSE pc[p]]
  /\ rq' = [p \in Procs |-> IF Srv(p) = s THEN NoReq ELSE rq[p]]
  /\ OPs' = [OPs EXCEPT ![s] = [n \in Nums |-> None]]
  /\ TAGS' = [TAGS EXCEPT ![s] = [n \in Nums |-> {}]]
  /\ cpos' = [cpos EXCEPT ![s] = Len(cacheLog)]
  /\ ltodo' = [ltodo EXCEPT ![s] = BoardOrder]
  /\ ltasks' = [ltasks EXCEPT ![s] = {}]
  /\ fq' = [fq EXCEPT ![s] = {}]
  /\ fa' = [fa EXCEPT ![s] = "list"]
  /\ ftasks' = [ftasks EXCEPT ![s] = {}]
  /\ open' = {o \in open : o[3] # s}
  /\ strays' = [strays EXCEPT ![s] = {}]
  /\ UNCHANGED <<imaged, unimaged>>

Crash(s) ==
  /\ crashes < MaxCrashes
  /\ crashes' = crashes + 1
  /\ Restart(s)
  /\ UNCHANGED <<storeVars, nreqs, okDeletes, ranked, threads, threw>>

(***************************************************************************)
(* finish_all's write for a key whose op read as NaN: _log throws 'No OP.' *)
(* (line 1310) inside the redis callback, before the MULTI is sent, and    *)
(* the uncaught exception ends the process, which starts again.            *)
(***************************************************************************)
FaThrow(s, t) ==
  /\ threw' = TRUE
  /\ Restart(s)
  /\ UNCHANGED <<storeVars, crashes, nreqs, okDeletes, ranked, threads>>

\* finish_all's callback for one key's hget (lines 1292-1296).
FaWrite(s, t) ==
  /\ t.step = "write"
  /\ IF t.op # None THEN FaFinishOff(s, t) ELSE FaThrow(s, t)

(***************************************************************************)
(* scan_board, boards in series: zrange the board's ranking; for each      *)
(* thread, scan_thread's add_OP_tag and OPs[op] = op run at once, and its  *)
(* get_all_replies and refresh_expiry's hmget go out in parallel.  The     *)
(* next board starts when they have all called back.  THREAD_EXPIRY is    *)
(* set, READ_ONLY is not, and no board is STAFF_BOARD; the 'archive' board *)
(* gets no refresh_expiry.                                                 *)
(***************************************************************************)
ScanBoard(s) ==
  LET b == Head(ltodo[s])  ops == index[b] IN
  /\ ltodo[s] # <<>> /\ ltasks[s] = {}
  /\ TAGS' = [TAGS EXCEPT ![s] = [n \in Nums |-> IF n \in ops THEN @[n] \cup {b}
                                                 ELSE @[n]]]
  /\ OPs' = [OPs EXCEPT ![s] = [n \in Nums |-> IF n \in ops THEN n ELSE @[n]]]
  /\ ltodo' = [ltodo EXCEPT ![s] = Tail(@)]
  /\ ltasks' = [ltasks EXCEPT ![s] =
                  {[step |-> st, op |-> op, board |-> b] :
                     st \in IF b = Archive THEN {"replies"} ELSE {"replies", "hmget"},
                     op \in ops}]
  /\ UNCHANGED <<storeVars, cpos, crashes, pc, rq, nreqs, okDeletes,
                 ranked, threads>>

\* A load round trip of server s completes.
EndTask(s, t) == ltasks' = [ltasks EXCEPT ![s] = @ \ {t}]

NextTask(s, t, st) ==
  ltasks' = [ltasks EXCEPT ![s] = (@ \ {t}) \cup {[t EXCEPT !.step = st]}]

\* scan_thread: lrange the reply list and map each reply to the thread.
LoadReplies(s, t) ==
  /\ t.step = "replies"
  /\ OPs' = [OPs EXCEPT ![s] = [n \in Nums |->
                IF Contains(replies[t.op], n) THEN t.op ELSE @[n]]]
  /\ EndTask(s, t)
  /\ UNCHANGED <<storeVars, TAGS, cpos, ltodo, crashes, pc, rq, nreqs,
                 okDeletes, ranked, threads>>

\* Only the hash insert_post writes has 'time'; one that hctr or a lone
\* hset created has none.
HasTime(rec) == rec # NoRec /\ rec.time

\* Mutant: hmget_obj pairing each reply with the next key, so 'time' reads
\* the (unset) 'immortal' field.
TimeSetShifted(rec) == FALSE

\* hmget_obj(r, 'thread:op', ['time', 'immortal']) and the test of .time.
TimeSet(rec) == HasTime(rec)

(***************************************************************************)
(* refresh_expiry: hmget 'time' and 'immortal'; no time means the thread   *)
(* is gone (a MULTI zrems the ranking entry and the expiry entry), else    *)
(* zadd the expiry entry.  immortal is never set in this model.            *)
(***************************************************************************)
RefreshRead(s, t) ==
  /\ t.step = "hmget"
  /\ NextTask(s, t, IF TimeSet(thread[t.op]) THEN "zadd" ELSE "prune")
  /\ UNCHANGED <<storeVars, cacheVars, ltodo, crashes, pc, rq, nreqs,
                 okDeletes, ranked, threads>>

RefreshPrune(s, t) ==
  /\ t.step = "prune"
  /\ index' = [index EXCEPT ![t.board] = @ \ {t.op}]
  /\ expiry' = expiry \ {<<t.op, t.board>>}
  /\ EndTask(s, t)
  /\ UNCHANGED <<postctr, thread, dead, replies, deadReplies, dels, post,
                 graveyard, history, deadHistory, liveposts, cacheLog,
                 cacheVars, ltodo, crashes, pc, rq, nreqs, okDeletes,
                 ranked, threads>>

RefreshZadd(s, t) ==
  /\ t.step = "zadd"
  /\ expiry' = expiry \cup {<<t.op, t.board>>}
  /\ EndTask(s, t)
  /\ UNCHANGED <<postctr, thread, dead, replies, deadReplies, dels, post, index,
                 graveyard, history, deadHistory, liveposts, cacheLog,
                 cacheVars, ltodo, crashes, pc, rq, nreqs, okDeletes,
                 ranked, threads>>

\* A finished request frees its slot.
Return(p) ==
  /\ pc[p] = "done"
  /\ pc' = [pc EXCEPT ![p] = "idle"]
  /\ UNCHANGED <<storeVars, cacheVars, rq, nreqs, okDeletes, ranked, threads>>

RemoveLists == {s \in BoundedSeq(Nums, MaxBatch) :
                  s # <<>> /\ Cardinality(ToSet(s)) = Len(s)}

\* The steps server s takes on its own: load_OPs at start, then finish_all,
\* and the finish_quietly calls its requests left running in the background.
ServerWork(s) ==
  \/ /\ \/ ScanBoard(s)
        \/ \E t \in ltasks[s] :
             LoadReplies(s, t) \/ RefreshRead(s, t) \/ RefreshPrune(s, t)
             \/ RefreshZadd(s, t)
     /\ UNCHANGED <<bodyVars, imgVars>>
  \/ /\ \/ \E n \in fq[s] : FinishQuietly(s, n)
        \/ FaList(s)
        \/ \E t \in ftasks[s] : FaGet(s, t)
     /\ UNCHANGED imgVars
  \/ \E t \in ftasks[s] : FaWrite(s, t)
  \/ /\ \E t \in strays[s] : StrayHexists(s, t) \/ StrayHset(s, t)
                                      \/ StrayHmget(s, t) \/ StrayHmset(s, t)
     /\ UNCHANGED <<cacheVars, loadVars, bodyVars, pc, rq, nreqs, okDeletes,
                    ranked, threads>>

Next ==
  \/ /\ \E p \in Procs :
       \/ \E op \in Nums \cup {None}, b \in Boards, bump \in BOOLEAN :
            StartPost(p, op, b, bump)
       \/ Reserve(p) \/ InsertCheck(p) \/ InsertBump(p)
       \/ \E nums \in RemoveLists : StartRemovePosts(p, nums)
       \/ RemovePost(p) \/ RecordDel(p) \/ AllGone(p)
       \/ \E op \in Nums : StartRemoveThread(p, op)
       \/ RTReplies(p) \/ RTRead(p) \/ RTDelete(p)
       \/ \E op \in Nums : StartToggleLock(p, op)
       \/ ToggleRead(p) \/ ToggleWrite(p)
       \/ \E op \in Nums : StartArchive(p, op)
       \/ ArCheck(p) \/ ArRead(p) \/ ArWrite(p)
       \/ \E op \in Nums : StartPurge(p, op)
       \/ PgCheck(p) \/ PgList(p) \/ PgRead(p) \/ PgZrem(p) \/ PgDelete(p)
       \/ Return(p)
     /\ UNCHANGED <<loadVars, bodyVars, imgVars>>
  \/ /\ \E p \in Procs :
       \/ \E nums \in RemoveLists : StartRemoveImages(p, nums)
       \/ RemoveImage(p) \/ RemoveImageHset(p) \/ RemoveImageDecr(p)
       \/ RemoveImagesLog(p)
       \/ \E o \in open : StartAddImage(p, o)
       \/ AddImageCheck(p) \/ AddImageWrite(p)
       \/ \E nums \in RemoveLists : StartSpoilers(p, nums)
       \/ SpoilerRead(p) \/ SpoilerWrite(p) \/ SpoilersLog(p)
     /\ UNCHANGED <<loadVars, bodyVars>>
  \/ /\ \E p \in Procs :
       \/ InsertBatch(p) \/ GoneFromThread(p) \/ RTRemoveReply(p) \/ RTRename(p)
       \/ \E o \in open : AppendPost(p, o) \/ FinishPost(p, o)
     /\ UNCHANGED <<loadVars, imgVars>>
  \/ \E s \in Servers : UpdateCache(s) /\ UNCHANGED <<loadVars, bodyVars, imgVars>>
  \/ \E s \in Servers : Crash(s)
  \/ \E s \in Servers : ServerWork(s)

Spec == Init /\ [][Next]_vars

\* Redis answers every command and node runs every callback whose reply has
\* come, so a server's own background work, once possible, is done.  No
\* client is assumed to send anything.
FairSpec == Spec /\ \A s \in Servers : WF_vars(ServerWork(s))

-----------------------------------------------------------------------------
(***************************************************************************)
(* Exclusivity of thread deletion: at most one remove_thread call reports  *)
(* success for a thread, however many race (the renamenx guard of         *)
(* remove_thread, lines 802-810).                                          *)
(***************************************************************************)
ThreadDeletedOnce == \A op \in Nums : okDeletes[op] <= 1

(***************************************************************************)
(* A reply number is announced in at most one DELETE_POSTS message, even   *)
(* when two remove_posts calls race on it (the lrem count check of        *)
(* remove_post, lines 684-691, and all_gone, lines 726-757).               *)
(***************************************************************************)
DeletePostsOnce ==
  \A n \in Nums :
    Cardinality({i \in 1..Len(cacheLog) :
                   cacheLog[i].kind = "DELETE_POSTS" /\ n \in cacheLog[i].nums}) <= 1

(***************************************************************************)
(* Every thread a board's ranking lists is a live thread tagged with that  *)
(* board: insert_post's bump (lines 646-659) and remove_thread's zrem      *)
(* (lines 791-798) keep 'tag:B:threads' in step with 'thread:N'.           *)
(***************************************************************************)
IndexedThreadsLive ==
  \A b \in AllBoards : \A op \in index[b] :
    thread[op] # NoRec /\ b \in thread[op].tags

(***************************************************************************)
(* Every expiry entry <<op, b>> names a live thread tagged b: insert_post  *)
(* zadds it with the thread (line 611) and remove_thread zrems it for      *)
(* every tag it read from the hash (lines 784-797).  refresh_expiry after *)
(* a restart, purge_thread and archive_thread break it, so no run checks   *)
(* it.                                                                     *)
(***************************************************************************)
ExpiryLive ==
  \A e \in expiry : thread[e[1]] # NoRec /\ e[2] \in thread[e[1]].tags

(***************************************************************************)
(* A thread is never both live and dead: once 'thread:N' is renamed to     *)
(* 'dead:N' no write recreates 'thread:N' (the spec's claim that a failed  *)
(* renamenx fails the whole removal, lines 789-810, and _log's hctr write, *)
(* line 1315).                                                             *)
(***************************************************************************)
NoZombie == \A op \in Nums : ~(thread[op] # NoRec /\ dead[op] # NoRec)

(***************************************************************************)
(* spec 4.2: a server's cache, rebuilt at start, knows every live ranked   *)
(* thread as a thread of its board once track_OPs has called back, unless  *)
(* the INSERT_POST that will tell it is still on its way.  track_OPs       *)
(* subscribes before load_OPs zranges the rankings (lines 250-255, 313),   *)
(* and insert_post publishes INSERT_POST (line 642) one MULTI before it    *)
(* zadds the thread to the ranking (line 655).                             *)
(***************************************************************************)
CacheKnowsRankedThreads ==
  \A s \in Servers : Loaded(s) =>
    \A b \in Boards : \A op \in index[b] :
      HasTime(thread[op]) =>
        \/ OPs[s][op] = op /\ b \in TAGS[s][op]
        \/ \E i \in cpos[s] + 1..Len(cacheLog) :
             cacheLog[i].kind = "INSERT_POST" /\ cacheLog[i].op = op
             /\ cacheLog[i].num = None

(***************************************************************************)
(* spec 4.3: the re-validation pass at start removes only threads that no  *)
(* longer exist: a thread insert_post ranked on a board stays on that      *)
(* board's ranking while its hash has a 'time', even when refresh_expiry's *)
(* hmget and its zrem MULTI (lines 349-358) race other servers' writes.    *)
(***************************************************************************)
RefreshNeverUnranks ==
  \A r \in ranked :
    HasTime(thread[r[1]]) /\ r[2] \in thread[r[1]].tags => r[1] \in index[r[2]]

-----------------------------------------------------------------------------
(***************************************************************************)
(* Refinement: the store implements ThreadLifecycle.  A number is a live   *)
(* or archived thread while 'thread:N' has the 'time' insert_post wrote    *)
(* (archived when its tags are the archive board alone), dead once        *)
(* remove_thread renamed that hash to 'dead:N', purged when purge_thread   *)
(* deleted it.  A hash a stray hincrby or hset recreated, under 'thread:'  *)
(* or renamed to 'dead:', has no 'time' and is no thread.                  *)
(***************************************************************************)
ThreadStatus ==
  [op \in Nums |->
     CASE HasTime(thread[op]) /\ thread[op].tags = {Archive} -> "archived"
       [] HasTime(thread[op]) -> "live"
       [] HasTime(dead[op]) -> "dead"
       [] op \in threads -> "purged"
       [] OTHER -> "none"]

Lifecycle == INSTANCE ThreadLifecycle WITH Threads <- Nums, status <- ThreadStatus

(***************************************************************************)
(* spec 4.4: every step of insert_post, remove_thread, archive_thread,     *)
(* purge_thread, toggle_thread_lock and remove_posts, in any interleaving  *)
(* across servers, is a step of the thread lifecycle or leaves it alone:   *)
(* no write brings a removed or purged thread back to life, and archiving  *)
(* never resurrects one (the hset and hincrby of lines 936-937, 1315 and   *)
(* 590 on a thread another request just renamed).                          *)
(***************************************************************************)
LifecycleSpec == Lifecycle!Spec

(***************************************************************************)
(* spec 4.4, section 'Board/Tag': the synthetic boards agree with the      *)
(* lifecycle: the archive ranking holds archived threads and the graveyard *)
(* removed ones.  archive_thread checks existence and the graveyard        *)
(* (lines 909-923) two round trips before the MULTI that zadds the archive *)
(* ranking (line 945); remove_thread reads the hash (line 782) one round   *)
(* trip before the MULTI that zadds the graveyard and renamenxes the hash  *)
(* (lines 800-807), and its hset and hincrby recreate a hash that          *)
(* purge_thread or another remove_thread deleted in between.               *)
(***************************************************************************)
RankingsMatchLifecycle ==
  /\ \A op \in index[Archive] : ThreadStatus[op] = "archived"
  /\ \A op \in graveyard : ThreadStatus[op] = "dead"

(***************************************************************************)
(* finish_all, run at every start to seal the posts the last process left  *)
(* open, never throws: every number in 'liveposts' names a hash that still *)
(* has an op (lines 1277-1301).  purge_thread deletes a reply's 'post:'    *)
(* hash (line 885) but leaves its number in 'liveposts'; finish_all's      *)
(* hget then gets null, parseInt gives NaN and _log throws 'No OP.'        *)
(* (line 1310), and the next start finds the same key.                     *)
(***************************************************************************)
FinishAllNeverThrows == ~threw

(***************************************************************************)
(* A live thread's imgctr never counts fewer images than its replies still *)
(* show: however remove_image calls race on one image, only the one whose  *)
(* hset newly set 'hideimg' decrements (lines 1018-1028), and add_image's  *)
(* hmset and increment go in one MULTI (lines 1185-1194).                  *)
(***************************************************************************)
ImagesShown(op) == {n \in Nums : <<n, op>> \in imaged} \ unimaged

ImgCtrNeverUndercounts ==
  \A op \in Nums : thread[op] # NoRec /\ thread[op].time =>
    thread[op].imgctr >= Cardinality(ImagesShown(op))



(***************************************************************************)
(* A reply removed by remove_posts or remove_thread (its hash hidden) but  *)
(* still in 'liveposts' is eventually sealed and untracked, whether or not *)
(* its author ever finishes it: both leave finish_quietly running for it   *)
(* (lines 716, 821), and a process that dies first leaves it to the next   *)
(* start's finish_all (lines 1277-1301).                                   *)
(***************************************************************************)
RemovedRepliesSealed ==
  \A n \in Nums :
    (n \in liveposts /\ post[n] # NoRec /\ post[n].hide)
      ~> n \notin liveposts

=============================================================================
