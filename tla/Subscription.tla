---------------------------- MODULE Subscription ----------------------------
(***************************************************************************)
(* The real-time subscription multiplexer of src/db.js: the Subscription   *)
(* registry SUBS with its per-key redis connections (lines 33-188), and    *)
(* the two operations of a client (a Yakusoku) that use it: kiku attaches  *)
(* to the subscriptions of a set of targets and waits until all are ready, *)
(* kikanai detaches (lines 410-461).                                       *)
(*                                                                         *)
(* A subscription is identified by an id 1..MaxSubs in creation order; its *)
(* key is <<target, auth>> (Subscription.full_key).  Every JavaScript      *)
(* handler is one atomic step; the redis connection delivers one event     *)
(* (a SUBSCRIBE confirmation or an error) per step.                        *)
(***************************************************************************)
EXTENDS Naturals, FiniteSets, SequencesExt

CONSTANTS
  Targets,     \* redis channels a client may watch ('thread:N', 'tag:B')
  Clients,     \* Yakusoku instances
  Moderators,  \* clients whose ident passes caps.can_moderate
  MaxSubs,     \* bound on Subscription objects ever constructed
  MaxErrors,   \* bound on transport errors injected on connections
  MaxRounds,   \* bound on kiku calls per client
  None         \* model value: absent entry / deleted callback array

ASSUME Moderators \subseteq Clients
ASSUME MaxSubs \in Nat /\ MaxErrors \in Nat /\ MaxRounds \in Nat \ {0}

Keys == Targets \X BOOLEAN
SubIds == 1..MaxSubs
Rounds == 1..MaxRounds

\* Subscription.full_key: a moderator's key carries the 'auth' channel.
full_key(t, y) == <<t, y \in Moderators>>

\* The redis channels a subscription for key k subscribes to: the target,
\* and 'auth:target' when the full key differs from the target.
Channels(k) == {<<k[1], FALSE>>} \cup (IF k[2] THEN {<<k[1], TRUE>>} ELSE {})

\* Mutant: only the target channel awaited.
NewPendingTargetOnly(k) == {<<k[1], FALSE>>}

\* pending_subscriptions as the constructor fills it.
NewPending(k) == Channels(k)

VARIABLES
  SUBS,          \* registry: key -> subscription id or None
  nsubs,         \* number of Subscription objects constructed
  fullKey,       \* subscription id -> its key
  joined,        \* channels redis has confirmed for the connection
  pending,       \* pending_subscriptions: channels not yet confirmed
  handlers,      \* listeners on the connection k: "none" (not built),
                 \* "handshake" (on_sub_error, on_one_sub),
                 \* "live" (on_message, sink_sub), "quit" (closed)
  callbacks,     \* subscription_callbacks: set of <<client, round>>, or None
  listeners,     \* clients with 'update'/'error' listeners attached
  idleOutTimer,  \* TRUE while the 30 s idle timer is armed
  ysubs,         \* Yakusoku.subs: keys the client attached to
  round,         \* number of kiku calls the client made
  outstanding,   \* forEachInObject: callbacks of the last kiku not yet run
  failed,        \* forEachInObject: some callback of the last kiku got err
  result,        \* "idle", "waiting", "ok" or "err": the kiku callback
  errors         \* transport errors injected so far

vars == <<SUBS, nsubs, fullKey, joined, pending, handlers, callbacks,
          listeners, idleOutTimer, ysubs, round, outstanding, failed,
          result, errors>>

TypeOK ==
  /\ SUBS \in [Keys -> SubIds \cup {None}]
  /\ nsubs \in 0..MaxSubs
  /\ fullKey \in [SubIds -> Keys \cup {None}]
  /\ joined \in [SubIds -> SUBSET (Targets \X BOOLEAN)]
  /\ pending \in [SubIds -> SUBSET (Targets \X BOOLEAN)]
  /\ handlers \in [SubIds -> {"none", "handshake", "live", "quit"}]
  /\ callbacks \in [SubIds -> SUBSET (Clients \X Rounds) \cup {None}]
  /\ listeners \in [SubIds -> SUBSET Clients]
  /\ idleOutTimer \in [SubIds -> BOOLEAN]
  /\ ysubs \in [Clients -> SUBSET Keys]
  /\ round \in [Clients -> 0..MaxRounds]
  /\ outstanding \in [Clients -> Nat]
  /\ failed \in [Clients -> BOOLEAN]
  /\ result \in [Clients -> {"idle", "waiting", "ok", "err"}]
  /\ errors \in 0..MaxErrors

Init ==
  /\ SUBS = [k \in Keys |-> None]
  /\ nsubs = 0
  /\ fullKey = [s \in SubIds |-> None]
  /\ joined = [s \in SubIds |-> {}]
  /\ pending = [s \in SubIds |-> {}]
  /\ handlers = [s \in SubIds |-> "none"]
  /\ callbacks = [s \in SubIds |-> None]
  /\ listeners = [s \in SubIds |-> {}]
  /\ idleOutTimer = [s \in SubIds |-> FALSE]
  /\ ysubs = [y \in Clients |-> {}]
  /\ round = [y \in Clients |-> 0]
  /\ outstanding = [y \in Clients |-> 0]
  /\ failed = [y \in Clients |-> FALSE]
  /\ result = [y \in Clients |-> "idle"]
  /\ errors = 0

(***************************************************************************)
(* Running the queued when_ready callbacks C with or without an error.     *)
(* Each is the per-target callback of forEachInObject: it counts down the  *)
(* kiku call's outstanding callbacks and runs the kiku callback at zero.   *)
(* Callbacks of an earlier kiku round feed a callback nobody waits on.     *)
(***************************************************************************)
RunCallbacks(C, isErr) ==
  LET hit == {y \in Clients : <<y, round[y]>> \in C /\ result[y] = "waiting"}
  IN /\ outstanding' = [y \in Clients |->
                          IF y \in hit THEN outstanding[y] - 1 ELSE outstanding[y]]
     /\ failed' = [y \in Clients |-> failed[y] \/ (isErr /\ y \in hit)]
     /\ result' = [y \in Clients |->
                     IF y \in hit /\ outstanding[y] = 1
                     THEN IF failed[y] \/ isErr THEN "err" ELSE "ok"
                     ELSE result[y]]

\* Mutant: deregister the key whoever holds it.
CommitSUBSUnguarded(s) == [SUBS EXCEPT ![fullKey[s]] = None]

\* commit_sudoku's registry update: only deregister if still the entry.
CommitSUBS(s) ==
  IF SUBS[fullKey[s]] = s THEN [SUBS EXCEPT ![fullKey[s]] = None] ELSE SUBS

\* commit_sudoku: drop connection handlers, quit, deregister, drop listeners.
CommitSudoku(s) ==
  /\ handlers' = [handlers EXCEPT ![s] = "quit"]
  /\ SUBS' = CommitSUBS(s)
  /\ listeners' = [listeners EXCEPT ![s] = {}]

\* Mutant: forEachInObject's total counted one short.
OutstandingOffByOne(q) == Cardinality(q) - 1

\* forEachInObject: the callbacks kiku waits for are those when_ready queued;
\* the others ran synchronously before 'done' was set.
Outstanding(q) == Cardinality(q)

(***************************************************************************)
(* Yakusoku.kiku(targets): for each target, Subscription.get (constructing *)
(* a subscription when the key is unregistered), attach the listeners,     *)
(* record the key, and when_ready: queue the callback, or run it at once   *)
(* when the subscription is already live.  The caller attaches a client   *)
(* only when it is detached (its subs list is empty).                      *)
(***************************************************************************)
Kiku(y, T) ==
  LET ks == {full_key(t, y) : t \in T}
      fresh == {k \in ks : SUBS[k] = None}
      order == SetToSeq(fresh)
      newId(k) == nsubs + CHOOSE i \in 1..Len(order) : order[i] = k
      newIds == {newId(k) : k \in fresh}
      sub(k) == IF k \in fresh THEN newId(k) ELSE SUBS[k]
      ids == {sub(k) : k \in ks}
      r == round[y] + 1
      queued == {s \in ids : s \in newIds \/ callbacks[s] # None}
  IN
  /\ ysubs[y] = {}
  /\ round[y] < MaxRounds
  /\ nsubs + Cardinality(fresh) <= MaxSubs
  /\ SUBS' = [k \in Keys |-> IF k \in fresh THEN newId(k) ELSE SUBS[k]]
  /\ nsubs' = nsubs + Cardinality(fresh)
  /\ fullKey' = [s \in SubIds |->
                   IF s \in newIds THEN CHOOSE k \in fresh : newId(k) = s
                   ELSE fullKey[s]]
  /\ pending' = [s \in SubIds |->
                   IF s \in newIds THEN NewPending(fullKey'[s]) ELSE pending[s]]
  /\ handlers' = [s \in SubIds |->
                    IF s \in newIds THEN "handshake" ELSE handlers[s]]
  /\ callbacks' = [s \in SubIds |->
                     IF s \in newIds THEN {<<y, r>>}
                     ELSE IF s \in queued THEN callbacks[s] \cup {<<y, r>>}
                     ELSE callbacks[s]]
  /\ listeners' = [s \in SubIds |->
                     IF s \in ids THEN listeners[s] \cup {y} ELSE listeners[s]]
  /\ ysubs' = [ysubs EXCEPT ![y] = ks]
  /\ round' = [round EXCEPT ![y] = r]
  /\ outstanding' = [outstanding EXCEPT ![y] = Outstanding(queued)]
  /\ failed' = [failed EXCEPT ![y] = FALSE]
  /\ result' = [result EXCEPT ![y] = IF queued = {} THEN "ok" ELSE "waiting"]
  /\ UNCHANGED <<joined, idleOutTimer, errors>>

\* Mutant: the listener count read before this client's listener is removed.
ArmsIdleTimerBefore(s, y) == listeners[s] = {}

\* kikanai arms the idle timer of a subscription it leaves without listeners.
ArmsIdleTimer(s, y) == listeners[s] \ {y} = {}

(***************************************************************************)
(* Yakusoku.kikanai: for each recorded key still registered, remove this  *)
(* client's listeners and call has_no_listeners when none are left (which *)
(* clears and re-arms the idle timer); then forget the keys.              *)
(***************************************************************************)
Kikanai(y) ==
  LET hit == {SUBS[k] : k \in {k \in ysubs[y] : SUBS[k] # None}}
  IN
  /\ ysubs[y] # {}
  /\ listeners' = [s \in SubIds |->
                     IF s \in hit THEN listeners[s] \ {y} ELSE listeners[s]]
  /\ idleOutTimer' = [s \in SubIds |->
                        IF s \in hit /\ ArmsIdleTimer(s, y) THEN TRUE
                        ELSE idleOutTimer[s]]
  /\ ysubs' = [ysubs EXCEPT ![y] = {}]
  /\ UNCHANGED <<SUBS, nsubs, fullKey, joined, pending, handlers, callbacks,
                 round, outstanding, failed, result, errors>>

\* Mutant: on_all_subs deleting the callback array without running it.
AllSubsNoRun(s) ==
  /\ handlers' = [handlers EXCEPT ![s] = "live"]
  /\ callbacks' = [callbacks EXCEPT ![s] = None]
  /\ UNCHANGED <<outstanding, failed, result>>

\* on_all_subs: swap to the live handlers, run every queued callback with
\* null, and delete the callback array.
AllSubs(s) ==
  /\ handlers' = [handlers EXCEPT ![s] = "live"]
  /\ callbacks' = [callbacks EXCEPT ![s] = None]
  /\ RunCallbacks(callbacks[s], FALSE)

(***************************************************************************)
(* Redis confirms the SUBSCRIBE of channel c to the handshake handlers:    *)
(* on_one_sub removes c from pending and calls on_all_subs when nothing is *)
(* left.  (pending always holds exactly the unconfirmed channels, so the   *)
(* "unasked-for subscription" throw is unreachable.)                       *)
(***************************************************************************)
OnOneSub(s, c) ==
  /\ handlers[s] = "handshake"
  /\ c \in pending[s]
  /\ joined' = [joined EXCEPT ![s] = @ \cup {c}]
  /\ pending' = [pending EXCEPT ![s] = @ \ {c}]
  /\ IF pending[s] = {c}
     THEN AllSubs(s)
     ELSE UNCHANGED <<handlers, callbacks, outstanding, failed, result>>
  /\ UNCHANGED <<SUBS, nsubs, fullKey, listeners, idleOutTimer, ysubs, round,
                 errors>>

(***************************************************************************)
(* on_sub_error: a connection error during the handshake.  commit_sudoku, *)
(* then run every queued callback with the error and null the array.      *)
(***************************************************************************)
OnSubError(s) ==
  /\ handlers[s] = "handshake"
  /\ errors < MaxErrors
  /\ errors' = errors + 1
  /\ CommitSudoku(s)
  /\ callbacks' = [callbacks EXCEPT ![s] = None]
  /\ RunCallbacks(callbacks[s], TRUE)
  /\ UNCHANGED <<nsubs, fullKey, joined, pending, idleOutTimer, ysubs, round>>

(***************************************************************************)
(* sink_sub: a connection error after the handshake (config.DEBUG off).   *)
(* The 'error' event goes to the attached clients, then commit_sudoku.    *)
(***************************************************************************)
SinkSub(s) ==
  /\ handlers[s] = "live"
  /\ errors < MaxErrors
  /\ errors' = errors + 1
  /\ CommitSudoku(s)
  /\ UNCHANGED <<nsubs, fullKey, joined, pending, callbacks, idleOutTimer,
                 ysubs, round, outstanding, failed, result>>

(***************************************************************************)
(* The idle timer of has_no_listeners fires: clear it, and commit_sudoku  *)
(* if the subscription still has no 'update' listener.  commit_sudoku     *)
(* does not clear the timer, so it can fire on a closed subscription.     *)
(***************************************************************************)
IdleTimeout(s) ==
  /\ idleOutTimer[s]
  /\ idleOutTimer' = [idleOutTimer EXCEPT ![s] = FALSE]
  /\ IF listeners[s] = {}
     THEN CommitSudoku(s)
     ELSE UNCHANGED <<handlers, SUBS, listeners>>
  /\ UNCHANGED <<nsubs, fullKey, joined, pending, callbacks, ysubs, round,
                 outstanding, failed, result, errors>>

Next ==
  \/ \E y \in Clients, T \in SUBSET Targets \ {{}} : Kiku(y, T)
  \/ \E y \in Clients : Kikanai(y)
  \/ \E s \in SubIds, c \in Targets \X BOOLEAN : OnOneSub(s, c)
  \/ \E s \in SubIds : OnSubError(s)
  \/ \E s \in SubIds : SinkSub(s)
  \/ \E s \in SubIds : IdleTimeout(s)

(***************************************************************************)
(* Redis answers every SUBSCRIBE of an open connection, and a node timer  *)
(* that is armed fires; clients and errors get no fairness.               *)
(***************************************************************************)
Fairness ==
  /\ \A s \in SubIds, c \in Targets \X BOOLEAN : WF_vars(OnOneSub(s, c))
  /\ \A s \in SubIds : WF_vars(IdleTimeout(s))

Spec == Init /\ [][Next]_vars /\ Fairness

-----------------------------------------------------------------------------
Open(s) == handlers[s] \in {"handshake", "live"}

(***************************************************************************)
(* Registry and connections agree: a registered subscription is the one    *)
(* for its key and still has its connection open, and every open          *)
(* connection is registered.  Otherwise Subscription.get hands out a dead *)
(* subscription, or a connection leaks outside the registry where neither *)
(* kikanai nor the idle timer can reach it (commit_sudoku, lines 166-176, *)
(* reached from errors and from stale idle timers).                       *)
(***************************************************************************)
RegistryConsistent ==
  /\ \A k \in Keys : SUBS[k] # None =>
        /\ fullKey[SUBS[k]] = k
        /\ Open(SUBS[k])
  /\ \A s \in SubIds : Open(s) => SUBS[fullKey[s]] = s

(***************************************************************************)
(* A client whose kiku callback reported success is never attached to a    *)
(* subscription whose redis channels are not all confirmed: on_one_sub    *)
(* must wait for the target and the 'auth:' channel (lines 47-54, 83-104). *)
(***************************************************************************)
ReadyMeansJoined ==
  \A y \in Clients : result[y] = "ok" =>
    \A k \in ysubs[y] :
      (SUBS[k] # None /\ y \in listeners[SUBS[k]]) =>
        /\ joined[SUBS[k]] = Channels(k)
        /\ handlers[SUBS[k]] = "live"

(***************************************************************************)
(* Liveness: a kiku call whose client stays attached gets its callback,    *)
(* with success or with the handshake error (when_ready, on_all_subs,      *)
(* on_sub_error).                                                          *)
(***************************************************************************)
ReadyAnswered ==
  \A y \in Clients :
    [](result[y] = "waiting" /\ ysubs[y] # {} =>
         <>(result[y] # "waiting" \/ ysubs[y] = {}))

(***************************************************************************)
(* Liveness: an open subscription left without listeners is eventually     *)
(* closed unless a listener comes back (has_no_listeners, lines 178-188,   *)
(* armed by kikanai, lines 456-457).                                       *)
(***************************************************************************)
IdleEviction ==
  \A s \in SubIds :
    [](Open(s) /\ listeners[s] = {} =>
         <>(~Open(s) \/ listeners[s] # {}))

=============================================================================
