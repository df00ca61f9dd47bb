# TLA+ models of meguca's real-time store layer (`src/db.js`) and post menu (`src/client/menu.js`)

These modules model the server side of `src/db.js`:

- the redis-backed subscription multiplexer;
- the per-process post/thread cache;
- the post-lifecycle operations that change the store, the image operations,
  and the abstract thread lifecycle they implement;
- the thread reader's reply merge;

and the browser-side post menu of `src/client/menu.js`. Every module is
checked by TLC. `PROJECT.json` lists the components, the runs, the mutants,
the map from each definition to the source lines it translates, the findings
and the hazards.

## 1. The system

**Execution model.** Each server is a single-threaded node process. A request
runs its JavaScript to the next redis round trip, suspends, and resumes in the
reply callback. redis applies each command, and each `MULTI` batch, atomically
with respect to other connections. In every module, one step is one round trip
together with the callback code that runs on its reply. Several node processes
may share one redis store. Each process has its own `OPs`/`TAGS` cache and its
own subscription registry `SUBS`.

| Part | Code | State | Operations |
|---|---|---|---|
| Subscription multiplexer | `Subscription`, `S.*`, `Y.kiku`, `Y.kikanai`, `forEachInObject` (db.js 32-188, 406-461) | `SUBS` registry; per subscription its redis connection's handlers, `pending_subscriptions`, `subscription_callbacks`, `'update'` listeners, `idleOutTimer` | `get`/construct, `when_ready`, `on_one_sub`, `on_all_subs`, `on_sub_error`, `sink_sub`, `commit_sudoku`, `has_no_listeners` and its timer, `kiku`, `kikanai` |
| OP/tag cache | `OPs`, `TAGS`, `update_cache`, `load_OPs`, `add_OP_tag`, `removeOPTag` (20-21, 192-366) | post number → thread; thread → board tags, per process | replay of the `cache` channel; direct writes by `reserve_post`, `insert_post`, `remove_post`, `remove_thread`, `archive_thread` and `purge_thread`; rebuild at start |
| Post-lifecycle engine | `reserve_post` … `remove_thread`, `archive_thread`, `purge_thread`, images, locks, `append_post`, `finish_*`, `_log` (490-1334) | redis keys `postctr`, `thread:N`, `post:N`, `thread:N:posts`/`:dels`/`:history`, `dead:N…`, `tag:B:threads`, graveyard, `expiry:all`, `liveposts` | multi-round-trip transactions ending in `_log` |
| Expiry scheduler | `expiry_queue_score`, `refresh_expiry` (343-372) | `expiry:all` entries `op:tag` | added by `insert_post`; removed by `remove_thread` and `refresh_expiry` |
| Thread reader | `Reader` (1378-1686) | none (reads only) | `get_tag`, `get_thread`, `merge_posts`, `with_body` |
| Post menu (browser) | `src/client/menu.js` (1-61) | each control's menu `ul`, its `closetimer` data, pending timers, the pointer | click on `.control`, `mouseleave`/`mouseenter` on `ul`, the close timer |

**How the parts interact.**

- Every lifecycle operation ends in `_log`. `_log` appends to the thread's
  history, increments `hctr` on `thread:op`, publishes on the thread and tag
  channels, and publishes a record on the `cache` channel.
- Every process's `update_cache` replays that `cache` channel into its own
  `OPs`/`TAGS`.
- The operations also write the local cache directly. This contradicts
  spec §2, which says the broadcast handler is the cache's only writer.
- The operations take their guards from the local cache, which can be stale:
  - "thread exists" (`OPs[op] == op`);
  - "thread is on board" (`OP_has_tag`);
  - "which thread owns this reply" (`OPs[num]`).

**Behaviours that are hard to test.**

- Two requests interleave their round trips, on one process or on two.
- The `cache` channel lags the store, including on the process that published
  the message.
- A `MULTI` applies all of its commands even when a command in it fails.
- Subscription handshakes race errors, idle timers and clients that detach and
  reattach.

## 2. Modules

### `Subscription.tla` (+ `MCSubscription.tla`, `MCSubscription.cfg`)

Subscriptions are numbered `1..MaxSubs` in construction order, and `fullKey[s]`
is `<<target, auth>>`.

**State:**

- `handlers[s]` is which listeners the connection `k` has:
  - `"handshake"`: `on_sub_error` and `on_one_sub`;
  - `"live"`: `on_message` and `sink_sub`;
  - `"quit"`: after `commit_sudoku`.
- `pending[s]` is `pending_subscriptions`, and `joined[s]` is the channels
  redis has confirmed.
- `callbacks[s]` is `subscription_callbacks`, a set of `<<client, round>>`. It
  is `None` once deleted or nulled.
- `listeners[s]` is the clients whose `'update'` listener is attached, and
  `idleOutTimer[s]` is the armed timer.
- For each client: `ysubs` (`Yakusoku.subs`), `round` (the number of `kiku`
  calls), and `outstanding`/`failed`/`result`, which are `forEachInObject`'s
  counter and the `kiku` callback.

**Actions:**

- `Kiku(y, T)` is a whole `kiku`: `get` or construct for each target,
  attaching the listeners, and `when_ready`. It includes `forEachInObject`
  running synchronously when every subscription is already live.
- `Kikanai(y)` detaches the client. It arms the idle timer of every
  subscription it leaves without an `'update'` listener.
- `OnOneSub(s, c)` is redis confirming channel `c`. When the last pending
  channel is confirmed, it also runs `AllSubs(s)` (`on_all_subs`).
- `OnSubError(s)` is a transport error during the handshake: `commit_sudoku`,
  then the queued callbacks get the error.
- `SinkSub(s)` is a transport error on a live connection.
- `IdleTimeout(s)` is the 30 s timer firing. `commit_sudoku` does not clear the
  timer, so it can still fire on a closed subscription.

The model assumes a client calls `kiku` only while detached, which is how its
caller uses it.

### `ThreadStore.tla` (+ `MCThreadStore.tla`, `ThreadStore*.cfg`)

Servers (`Servers`) share one store. Request slots (`Procs`) are each bound to
a server. A slot runs one request at a time; `pc` and `rq` hold its position
and its local variables.

**Store and cache state:**

- Store data is abstracted to what the properties tell apart:
  - a thread hash is its tag set and hide flag; `NoRec` means the key is
    absent;
  - a reply hash is its owner and hide flag, plus three image fields: `src`
    (an image is attached), `hideimg` and `spoiler` (a spoiler index is set;
    which one `pick_spoiler` chose is not kept);
  - a thread hash also keeps `imgctr`;
  - a history entry is its event kind;
  - a board ranking, the graveyard and `expiry:all` are sets.
- A post's body is abstracted to whether `finish_off` has written the hash's
  `body` field. `liveposts` is a set of post numbers: a thread's number stands
  for `thread:N`, a reply's for `post:N` (`KeyOf`).
- `open` is the posts clients are still writing, each with the server its
  client is connected to. `fq` is the `finish_quietly` calls each server has
  running in the background. `fa` and `ftasks` are `finish_all`'s progress.
- `cacheLog` is the sequence of messages published on the `cache` channel.
  `cpos[s]` is how many of them server `s` has replayed.
- `strays[s]` holds the continuations of `remove_image` and `spoiler_image`
  that run on after `callback(null, false)`, because the code has no `return`
  there. `imaged` and `unimaged` are history variables: the images
  `add_image` attached, and the replies whose `hideimg` some `hset` newly set.
- Initial state: thread 1 with reply 2, after both `insert_post` calls and
  both authors' `finish_post`. The reply carries an image, so `imgctr` is 1,
  and every server has run `load_OPs`.

**Actions** (one per round trip):

| Action | Code |
|---|---|
| `StartPost`, `Reserve` | `reserve_post`: the throttle refusal, or `incr postctr` and `OPs[num] = op ‖ num` |
| `InsertCheck` | `insert_post`'s synchronous checks, including `delete OPs[num]` on refusal |
| `InsertBatch` | the first `MULTI`: post or thread hash, reply list or expiry entry, `liveposts`, `_log` |
| `InsertBump` | the ranking `zadd` |
| `StartRemovePosts`, `RemovePost`, `RecordDel`, `GoneFromThread` | `remove_posts`/`remove_post`: the cache lookup (including the hand-off to `remove_thread` for a thread), `lrem`, `rpush :dels`, `hset hide` plus `delete OPs[num]` |
| `AllGone` | `all_gone`'s `MULTI` of one DELETE_POSTS `_log` per thread, or nothing when nothing was removed |
| `StartRemoveThread`, `RTReplies`, `RTRemoveReply`, `RTRead`, `RTDelete`, `RTRename` | the five stages of `remove_thread`'s waterfall |
| `StartToggleLock`, `ToggleRead`, `ToggleWrite` | `toggle_thread_lock`: the `OPs[op] != op` refusal, `hexists locked`, then the `MULTI` that hdels or hsets it and logs UNLOCK_THREAD or LOCK_THREAD |
| `StartArchive`, `ArCheck`, `ArRead`, `ArWrite` | `archive_thread`: the exists/graveyard `MULTI`, the `hgetall` and `:dels` read (a vanished hash throws at `view.subject`), then the `MULTI` that retags the thread to the archive board, moves it between rankings, logs DELETE_THREAD and MOVE_THREAD, clears the history and deletes the hidden replies, with `set_OP_tag` in its callback, after which the waterfall's `done()` reports success |
| `StartPurge`, `PgCheck`, `PgList`, `PgRead`, `PgZrem`, `PgDelete` | `purge_thread`: exists, `lrange`, `hgetall` of the thread and every reply (a null one throws), the `lrange`/`zrem` `MULTI` whose callback runs `removeOPTag` and sends the deletion `MULTI`, then the deletion itself; nothing is logged |
| `UpdateCache(s)` | `update_cache` for the next `cache` message, MOVE_THREAD included |
| `Crash(s)` | a process crash and restart (`Restart`, shared with `FaThrow`): the slots of `s` are lost mid-request (their writes stay), its cache is empty, and `track_OPs` subscribes to `cache` (from then on `s` receives every message) and starts `load_OPs` |
| `ScanBoard(s)` | `scan_board` for the next board in config order: `zrange` the ranking, then `scan_thread`'s synchronous `add_OP_tag` and `OPs[op] = op` for each thread, sending its `get_all_replies` and `refresh_expiry`'s `hmget` |
| `LoadReplies(s, t)` | the `get_all_replies` callback: `OPs[reply] = op` |
| `RefreshRead`, `RefreshPrune`, `RefreshZadd` | `refresh_expiry`: the `hmget` of `time`, then either the prune `MULTI` (`zrem` ranking and expiry entry) or the expiry `zadd` |
| `AppendPost(p, o)`, `FinishPost(p, o)` | `append_post` (the optional `hset` of `state`, which recreates a vanished hash, and `_log`'s UPDATE_POST) and `finish_post` (`finish_off` and FINISH_POST), each one `MULTI`, for a post open on the slot's server |
| `FinishQuietly(s, n)` | `finish_quietly('post:n')`, started by `gone_from_thread` and `remove_thread`: when the hash has no `body`, `finish_off` it. Its three round trips are one step: content is abstracted and `body` is never removed, so every interleaving ends in a state of the one-step form |
| `FaList(s)`, `FaGet(s, t)`, `FaWrite(s, t)` | `finish_all`: `smembers liveposts`; per key the `MULTI` that gets the body and, for a `post:` key, the op; then `finish_off` with FINISH_POST, or, when the op read is null (`parseInt` gives NaN), `_log`'s `'No OP.'` throw, which ends the process (`FaThrow`, then `Restart`) |
| `StartRemoveImages`, `RemoveImage`, `RemoveImageHset`, `RemoveImageDecr`, `RemoveImagesLog` | `remove_images`/`remove_image`: the cache lookup and `hexists src`; `hide_image`'s `hmget` and the `buryImage` hook, which change nothing kept here, together with `hset hideimg`, whose answer 0 ends the item; `hincrby imgctr -1`; the final `MULTI` of one DELETE_IMAGES `_log` per thread |
| `StartSpoilers`, `SpoilerRead`, `SpoilerWrite`, `SpoilersLog` | `force_image_spoilers`/`spoiler_image`: the cache lookup and `hmget src, spoiler`; the unconditional `hmset spoiler`; the final SPOILER_IMAGES `MULTI` (`LogImages` is shared with `remove_images`) |
| `StrayHexists`, `StrayHset`, `StrayHmget`, `StrayHmset` | the rest of a `remove_image` or `spoiler_image` after its callback for a number missing from the cache, on `post:n`; its `hincrby` and `push` go to `undefined`, outside the model |
| `StartAddImage`, `AddImageCheck`, `AddImageWrite` | `add_image` for a post still open: the OP refusal, `exists post:num`, then the `MULTI` of `hmset` image, `hincrby imgctr 1` and INSERT_IMAGE |
| `Return(p)` | the caller receiving the result |

The constant `Requests` selects the request kinds a configuration issues
(`MCCoreRequests`: post, remove_posts, remove_thread; `MCAuthorRequests` adds
`append_post` and `finish_post`; `MCAllRequests` adds the three moderation
calls; `MCPurgeRequests` is post and purge; `MCImageRequests` is post,
remove_posts and the three image calls, and `MCModImageRequests` joins it
to `MCAllRequests`), and `Archive` is the `archive`
entry of `config.BOARDS`.  A restarted server runs `load_OPs`, then
`finish_all`, and serves requests once both have called back (`Started(s)`):
the request-starting actions require it.  The call site that orders them is
outside `src/`, so `Started` is spec-modelled.  A crash drops the server's
clients, so their posts leave `open` and stay in `liveposts`.  `MaxCrashes` bounds
the crashes.  A hash has a `time` field exactly when `insert_post` wrote it
(`HasTime`); the hashes `_log`'s `hincrby` or a lone `hset` create have none.

**Details of `remove_thread`:**

- `RTDelete` applies the whole batch before checking the two `renamenx`
  results, as redis does.
- A null `hgetall` ends the request as `"typeerror"`. This is where the code
  throws at `post.tags`.

**Refinement.** `ThreadStatus` maps the store to `ThreadLifecycle`'s
`status`: a number is live or archived while `thread:N` has a `time` (archived
when its tags are the archive board alone), dead while `dead:N` has one,
purged once it was a thread and neither key has one, and otherwise none.
A hash recreated by a stray `hset` or `hincrby` has no `time`, so it is no
thread, under either prefix.  `LifecycleSpec == Lifecycle!Spec` is checked as
a `PROPERTY`.

`tail.map` and `tail.forEach` (in `util/`, not under `src/`) are modelled
from their use: the items run in series and stop at the first error. These
are the spec-modelled `NextItem`, `GoNextIn` and `GoNext`. What `tail.forEach`
does with a second callback for one item is unknown, so the stray
continuations' callbacks are dropped. Two identical stray continuations on
one server are kept as one, because `strays` is a set.

### `ThreadLifecycle.tla`

The abstract specification of a thread: `status[t]` is `none`, `live`,
`archived`, `dead` or `purged`. `Create` (none → live), `Archive` (live →
archived), `Delete` (live or archived → dead) and `Purge` (live or archived →
purged) are its only steps, so deletion is final and no number becomes a
thread twice.

### `MergePosts.tla` (+ `MCMergePosts.tla`, `MCMergePosts.cfg`)

`merge_posts` is a `RECURSIVE` operator, `MergeLoop`, which follows the
`while` loop. `Pick` chooses the list the next id is taken from, and `Full` is
the abbreviation test.

Each behaviour is one input triple `(nums, dead, abbrev)` from `Init`. The
lists hold distinct post numbers, and the two lists are disjoint. `Merge`
computes the result.

The reference is `LastN(Sorted(nums \o dead), abbrev)`.

### `TagCodec.tla` (+ `MCTagCodec.tla`, `MCTagCodec.cfg`)

A thread's `tags` field is the concatenation of `tag_key(tag)`, that is
`"<length>:<tag>"`, for each of its tags; `parse_tags` reads the list back.
Tags are sequences of characters over a small alphabet containing a letter,
a digit and `':'`, because board names may contain both. `Decimal` and
`DecimalValue` are `String(n)` and `parseInt`; `DigitRun` is the greedy
`\d+` of the regex; `Fits` is the length check that breaks the loop, and
`Slice` clips at the end of the input as `substr`/`slice` do. `ParseLoop`
is the `while` loop, `RECURSIVE`.

Each behaviour is one list of tags and one cut point into its encoding;
`Parse` parses the encoding cut at that point.

### `PostMenu.tla` (+ `MCPostMenu.tla`, `MCPostMenu.cfg`)

The post menu in the browser, which shares nothing with the server
modules. Each event handler, or timer callback, runs to completion, so each
is one step.

| Action | Code |
|---|---|
| `Init` | every header has a `.control` span (the `headerFinish` and `draft` hooks and line 58) and no menu is open |
| `Click` | the click handler on `.control`: remove the control's `ul` (with its data; a pending close timer stays armed), or build one, with only `Focus` for a draft post |
| `Move(to)` | the pointer moves; leaving a menu runs the `mouseleave` handler (`setTimeout` of the removal, id stored in the `closetimer` data), entering one runs the `mouseenter` handler (`clearTimeout` and `removeData`) |
| `Fire(t, u)` | a close timer's callback: `$ul.remove()` on the menu it captured |

Menus and timers have ids, so a timer is tied to the element its closure
captured. `left` is a history variable: the menus the pointer left and has
not re-entered.

## 3. Runs

| Run | cfg | Expect | Checks |
|---|---|---|---|
| `subscription` | `MCSubscription.cfg` | pass | `TypeOK`; `RegistryConsistent` (registered ⇔ open, stale timers and errors included); `ReadyMeansJoined` (a client told "ready" sits on a subscription whose target and `auth:` channel are both joined); `ReadyAnswered` and `IdleEviction` (liveness) |
| `thread_race` | `ThreadStoreRace.cfg` | pass | with `append_post` and `finish_post` among the requests: `TypeOK`; `ThreadDeletedOnce` (renamenx exclusivity); `DeletePostsOnce` (lrem count) |
| `thread_restart` | `ThreadStoreRestart.cfg` | pass | `TypeOK`; `ThreadDeletedOnce`; `DeletePostsOnce`; `RemovedRepliesSealed` (liveness: a removed reply leaves `liveposts`, through `finish_quietly` or the next start's `finish_all`); `RefreshNeverUnranks` (the start-up pass removes only threads whose hash has no `time`), with a crash and restart racing another server |
| `merge_posts` | `MCMergePosts.cfg` | pass | `MergeKeepsIds` for inputs in any order; `MergeMatchesSorted` against the reference, for ascending inputs |
| `tag_codec` | `MCTagCodec.cfg` | pass | `TagsRoundTrip` (spec §8) and `TruncatedParsesPrefix` (a cut field parses to whole tags only) |
| `post_menu` | `MCPostMenu.cfg` | pass | `CloseTimerTracked` (a pending close is the one the menu's data names, and never for a menu under the pointer); `LeftMenuCloses` (liveness) |
| `thread_moderation` | `ThreadStoreModeration.cfg` | pass | `TypeOK`; `ImgCtrNeverUndercounts` (a live thread's `imgctr` is never below the images it shows); `LifecycleSpec` (the store refines `ThreadLifecycle`); every request kind, image calls included, racing from two request slots |
| `zombie_thread` | `ThreadStoreZombie.cfg` | violation | `NoZombie` |
| `ghost_thread` | `ThreadStoreGhost.cfg` | violation | `IndexedThreadsLive` |
| `restart_missed_thread` | `ThreadStoreRestartMiss.cfg` | violation | `CacheKnowsRankedThreads` (spec §4.2) |
| `rankings_lifecycle` | `ThreadStoreRankings.cfg` | violation | `RankingsMatchLifecycle` (spec §4.4) |
| `finish_all_throws` | `ThreadStoreFinishAll.cfg` | violation | `FinishAllNeverThrows` (spec §4.4, `finishAll`) |

**What the passing runs show:**

- `renamenx` makes thread deletion exclusive, even though the loser's batch
  still lands: the loser's `hset hide` recreates `thread:op` and it
  publishes a second DELETE_THREAD (no run states either; the recreation is
  what `NoZombie` forbids, see `zombie_thread`).
- A reply is never announced twice by racing `remove_posts` calls.
- A reply removed while its author is still writing it is sealed and
  dropped from `liveposts` in the end, whether `finish_quietly` completes or
  the process dies first and the next start's `finish_all` does it.
- A crash in the middle of a request, and the start-up re-validation pass,
  never unrank a live thread, and deletion stays exclusive across a crash.
- Locking, archiving and purging, raced against posting and removal from two
  request slots, never resurrect a removed or purged thread and never make a number
  a thread twice: every step is a step of `ThreadLifecycle`.  This holds only
  because a `dead:N` that `remove_thread`'s `hset` built from nothing (after
  a purge) has no `time` and is not counted as a thread; the rankings keep
  that record, see `rankings_lifecycle`.
- Racing `remove_image` calls on one image decrement `imgctr` once,
  because the `hset hideimg` answer is checked. This also holds when the
  reply or its thread is removed, purged or archived in between, and when
  `add_image` runs on the same post. The count can only err upwards:
  - a stray `remove_image` hides an image without a decrement;
  - a re-added image keeps its old `hideimg`.
- The subscription registry survives stale idle timers, because
  `commit_sudoku`'s `SUBS[fullKey] === this` guard is there.
- A moderator is not told "ready" before the `auth:` channel has joined.
- Every waiting `kiku` is answered.
- Idle subscriptions close.
- `merge_posts` is correct for ascending lists, and it never drops or
  duplicates ids.
- `parse_tags` inverts `tag_key` for tags with digits and `':'` in them and
  for two-digit lengths, and a truncated field never yields a partial tag.

**What the violation runs show** (see `findings` in `PROJECT.json`):

1. `remove_posts([reply, thread])` recreates `thread:op` through `all_gone`'s
   `_log` after the thread was renamed to `dead:op`. This happens in a
   single sequential request.
2. A server whose cache lags its own messages accepts a reply to a thread it
   just deleted. The bump puts the dead thread back on the board.
3. `purge_thread` deletes a reply's `post:` hash but leaves it in
   `liveposts`. The next start's `finish_all` reads a null op for it, and
   `_log` throws `'No OP.'` in the callback. The process dies, and so does
   every later start, because the key never leaves `liveposts`.
4. A thread whose INSERT_POST was published before a restarted server
   subscribed, and whose ranking `zadd` landed after that server's `zrange`,
   is never in that server's cache: the server refuses every reply to it.
5. A `remove_thread` that renames the thread between `archive_thread`'s
   graveyard check and its write does not stop the write: the thread ends up
   in the graveyard and on the archive ranking.  The same property is broken
   by `purge_thread` racing `remove_thread`, which leaves a contentless
   `dead:N` and a graveyard entry for a purged thread.

Three earlier findings are modelled and reachable but no longer have a run of
their own (the project keeps at most twelve runs); the first two are listed
among the hazards. `ExpiryLive` (every `expiry:all` entry names a live
thread with that tag, spec line 25) is defined in `ThreadStore` but checked
by no run. `refresh_expiry` after a restart breaks it, and so do
`purge_thread` and `archive_thread`, neither of which zrems the entry. A
passing run could only check it by leaving all three out. A restarted server's `refresh_expiry` zadds an expiry entry on the
strength of an `hmget` made before another server's `remove_thread`, so a
deleted thread is scheduled for expiry again (`ExpiryLive`, hazard at line
363). Removing the same reply twice errors ("No such post.") where spec §8
promises a no-op, and `update_cache`'s DELETE_POSTS branch reads
`msg.num.length`, throws and deletes nothing on other servers, while its
DELETE_THREAD branch leaves `OPs[op]`. The last two are visible in the
handler's code and reached by a unit test of `update_cache`.

Two image races are hazards with no run, for the same reason:
- the stray `remove_image` breaks the exact image count;
- two `force_image_spoilers` calls both pass the `hmget` check and both log
  SPOILER_IMAGES for one image.

TLC finds both under `thread_moderation`'s constants.

**Mutants.** Every property of a passing run has a mutant in `PROJECT.json`
that TLC catches. Each mutant is an operator defined just before the
definition it replaces, and each stands for a plausible slip in the code:

- the `commit_sudoku` guard dropped;
- only the target channel awaited;
- the listener count read before removal;
- `on_all_subs` not running its callbacks;
- `forEachInObject`'s count off by one;
- `rename` in place of `renamenx`;
- the `lrem` count ignored;
- `hmget_obj` pairing each reply with the next key, so `time` reads empty;
- a tag-less `hctr` hash;
- a reply's view written under `thread:op` instead of `post:num`;
- `>` in place of `>=` in the merge limit;
- the merge comparison inverted;
- the background `finish_quietly` call left out;
- `remove_image` ignoring the `hset hideimg` answer;
- the menu's `clearTimeout` forgotten;
- the menu's close timer never scheduled;
- `\d` in place of `\d+` for the tag length;
- the tag length check accepting a key one character short.

## 4. Bounds, and why they are enough

**`subscription`:**

- One target, two clients (one of them a moderator), so both the one-channel
  and the two-channel handshake occur.
- At most 3 subscription objects, so a key can be closed and rebuilt while
  the old object's timer is still armed.
- One transport error, and at most 2 `kiku` rounds per client, so a callback
  from an earlier round is still queued when the client reattaches.
- 17.5 k states. With two targets it is 366 k states and the same results.

**`thread_race`:**

- Two request slots on one server, post numbers 1..3, three requests of the
  core kinds plus `append_post` and `finish_post`, and `remove_posts` lists
  of up to 2.
- This reaches every action and every branch, including:
  - the nested `remove_thread`;
  - the `renamenx` loser;
  - the null-`hgetall` TypeError;
  - the skipped `lrem`;
  - the empty `all_gone`;
  - an append or finish racing the removal of the same post.
- 1.9 M states, in about 75 s.

**`thread_restart`** (and the restart violation runs):

- Two servers with one slot each, post numbers 1..3, two requests,
  `remove_posts` lists of one, one crash.
- The crash can hit either server at any point of a request or of its own
  load, and the other server can run a whole insert or removal while the
  restarted one loads, which is what every race of `load_OPs` needs.
- A crash can land while a `finish_quietly` is pending, so `finish_all`
  has a removed reply to seal, and the other server's open post is in
  `liveposts` when `finish_all` lists it.
- 388 k states, in about 90 s with the liveness property.

**`thread_moderation`:**

- One server with two slots, post numbers 1..3, three requests of any
  kind, `remove_posts` lists of one, no crash. The refinement is about the
  store, which both slots race on; a second server (2.3 M states, over
  three minutes) adds only its cache lag, which `ghost_thread` and
  `rankings_lifecycle` already exercise.
- Three requests let a moderation call race a removal and a post, and reach
  every branch of the new actions (both lock directions, the `deleted`
  refusal, both `typeerror` paths, the single-tag `zrem`).
- With the image calls the run also reaches every image path:
  - the stray continuations;
  - the `hset` loser;
  - a spoiler or image removal on a removed post;
  - the OP refusal and `Post does not exist.` of `add_image`.
- 1.27 M states, in about 95 s.

**Violation runs** use the smallest configuration that reaches the finding:

- one slot for the sequential findings;
- two servers for the cache and moderation findings;
- post numbers 1..4 where a new thread and a reply to it are both needed.

**`post_menu`:**

- Two controls, one of a draft post; up to three menus and three close
  timers (7.7 k states).
- Three timers let the pointer leave a menu, come back, and leave again,
  and let a control's menu be clicked away and rebuilt while the old
  menu's timer is still pending; two controls let the pointer go straight
  from one menu into another.

**`merge_posts`:**

- All pairs of disjoint lists of up to three ids over 1..5, with abbrev
  0..4.
- This covers both lists running out first, and abbrev below, equal to and
  above the total.

**`tag_codec`:**

- Every list of up to two tags of up to two characters over `{a, 1, :}`,
  plus one ten-character tag whose length takes two digits, and every cut
  point of each encoding (3.9 k states).
- Two-character tags already contain every confusing case: a tag that
  starts with a digit, one that is `':'`, and the empty tag.

## 5. Fairness

In `Subscription`, fairness is weak fairness on two things only:

- redis answering a `SUBSCRIBE` (`OnOneSub`) on an open connection;
- an armed node timer firing (`IdleTimeout`).

Both come from outside the program and are guaranteed by a working redis and
event loop. Clients (`Kiku`, `Kikanai`) and transport errors get no fairness.
The liveness properties are therefore conditional on clients that stay
attached (`ReadyAnswered`) or stay away (`IdleEviction`).

In `PostMenu`, the one fair action is a due timer firing (`FireSome`), which
the browser's event loop guarantees. The user's clicks and moves get no
fairness, so `LeftMenuCloses` holds however the user behaves.

`ThreadStore` checks safety properties, the refinement `LifecycleSpec` (a
`[][Next]_status` formula, which needs no fairness), and one liveness
property under `FairSpec`: weak fairness on each server's own work
(`ServerWork(s)`: `load_OPs`'s steps, `finish_all`'s steps and the pending
`finish_quietly` calls). These are callbacks of commands the process has
already sent, which a working redis answers and node runs. Requests, clients
and crashes get no fairness, so `RemovedRepliesSealed` holds whether or not
the author ever finishes the post. `MergePosts` and `TagCodec` check safety only.

## 6. Not modelled, and why

- **Parsing and formatting are left out**, because no property depends on
  them: message parsing and auth augmentation (`parse_pub_message`,
  `inject_extra`), expiry scores, and post bodies and
  formatting.
- **Post bodies** are kept as the `body` flag only: the text, the append
  buffer's content, links, the `attachToPost` hook's fields and
  `get_current_body` (a read) are left out. So is the tail `finish_quietly`
  can lose to a racing `append_post`.
- **Immortal threads and the staff board:** no model thread is immortal, so
  the `immortal` refusals of `archive_thread` and `purge_thread` never fire;
  the order of a multi-tag thread's tags is not kept.
- **Images, in part:**
  - `insert_post`'s image branch is left out: posts are inserted without
    an image.
  - `note_hash` and the `imageDups` hash, and the spoiler index, are not
    kept.
  - The imager's `commit_image_alloc` and `buryImage` are outside `src/`.
    Their completion is a step boundary.
- **Outside the state this project models:** banner and fun settings,
  which are single reads or writes plus a publish.
- **Throttling** is left out. `reserve_post`'s throttle check and
  `insert_post`'s `update_throughput` are separate round trips over
  wall-clock slots. Concurrent reservations can all pass the check before
  any volume lands, but the only property to state about that is one the
  code breaks by design. Its refusal is a nondeterministic outcome of
  `Reserve`.
- **The reader's queries** (`get_tag`, `get_thread`, `_get_each_reply`,
  `with_body`, `singlePost`) write nothing. Their interest is what a read
  spread over several round trips sees while writers run. For example,
  `get_post` never checks a reply's `op`, so it returns a hash that a stray
  `hset` rebuilt after a purge. They are left to a later composition (plan
  item 6).
- **In the post menu:** the item texts, `console.log` of a clicked item and
  the layout; only which option list a menu shows is kept.
- **Not injected:** redis command failures inside `MULTI`. An exception
  thrown in a redis callback is modelled only where finish_all reaches one:
  there it ends the process, which restarts. The request paths that throw
  (`typeerror`) end the request only.

## 7. Plan

In order of importance:

1. **`ThreadStore`: what a crash mid-request leaves.** A property that every
   reply taken off a live thread's list is announced (a crash between
   `lrem` and `all_gone` breaks it), and the ghost thread of finding 2 seen
   by a restarted server.
2. **Expiry entries after `archive_thread` and `purge_thread`**: neither zrems
   `expiry:all`; `ExpiryLive` is broken under `thread_moderation`'s constants
   and wants a run of its own when the run budget allows.
3. **`expiry_queue_score`**: its `||` default for a zero retention, as an
   operator beside `TagCodec`'s.
4. **`fetch_backlogs` positions** after `archive_thread` clears the history,
   and the `thread:N` entry `remove_thread` leaks in `liveposts`, as a
   property of its own.
5. **Image counts**: a run of its own for the exact `imgctr` count, and
   the spoiler index, once the run budget allows.
6. **The reader composed with the writers**: `get_thread` and `get_post`
   steps interleaved with `ThreadStore`'s actions, with the property that
   every reply emitted belongs to the thread read.
7. **A composition of `Subscription` with the `_log` publish stream**: a
   client that is told "ready" receives every later event of its thread.
