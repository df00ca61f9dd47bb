------------------------------ MODULE PostMenu ------------------------------
(***************************************************************************)
(* The post menu of src/client/menu.js.  Every post header carries a       *)
(* '.control' span (the headerFinish and draft hooks, and the headers      *)
(* present at load, lines 50-58).  A click on a control, or on anything    *)
(* inside it, removes the control's menu 'ul' when it has one and builds   *)
(* one otherwise (lines 4-26).  Leaving a menu arms a 300 ms timer that    *)
(* removes it and keeps the timer id in the menu's 'closetimer' data       *)
(* (lines 28-39); entering it again clears that timer (lines 41-48).       *)
(*                                                                         *)
(* The browser runs one event handler or timer callback at a time, so each *)
(* is one step.  The pointer moves as the user likes; a move fires the     *)
(* mouseleave handler of the menu it leaves and the mouseenter handler of  *)
(* the menu it enters, in that order.  A menu's items are abstracted to    *)
(* which option list it shows.                                             *)
(***************************************************************************)
EXTENDS Naturals, FiniteSets

CONSTANTS
  Controls,    \* the '.control' spans, one per post header
  Drafts,      \* controls of draft posts (a post element without an id)
  MaxMenus,    \* bound on the menus built
  MaxTimers,   \* bound on the close timers armed
  Away,        \* model value: the pointer is over no control and no menu
  NoMenu       \* model value: a menu id not built yet

ASSUME Drafts \subseteq Controls /\ MaxMenus \in Nat /\ MaxTimers \in Nat

MenuIds == 1..MaxMenus
TimerIds == 1..MaxTimers      \* setTimeout ids are positive
Opts == {"focus", "full"}     \* ['Focus'] for a draft, menuOptions otherwise

VARIABLES
  menu,        \* menu id -> [ctl, opts], or NoMenu before it is built
  dom,         \* the menus attached to the document
  closetimer,  \* menu id -> its 'closetimer' data, 0 when unset
  timers,      \* pending close timers: <<timer id, menu id>>
  nextMenu,    \* the next menu id
  nextTimer,   \* the next timer id setTimeout returns
  pointer,     \* a control, an attached menu, or Away
  left         \* history: menus the pointer left and has not re-entered

vars == <<menu, dom, closetimer, timers, nextMenu, nextTimer, pointer, left>>

TypeOK ==
  /\ menu \in [MenuIds -> [ctl : Controls, opts : Opts] \cup {NoMenu}]
  /\ dom \subseteq MenuIds
  /\ closetimer \in [MenuIds -> TimerIds \cup {0}]
  /\ timers \subseteq TimerIds \X MenuIds
  /\ nextMenu \in 1..MaxMenus + 1
  /\ nextTimer \in 1..MaxTimers + 1
  /\ pointer \in Controls \cup dom \cup {Away}
  /\ left \subseteq MenuIds

\* Every header has its control and no menu is open when the page loads.
Init ==
  /\ menu = [u \in MenuIds |-> NoMenu]
  /\ dom = {}
  /\ closetimer = [u \in MenuIds |-> 0]
  /\ timers = {}
  /\ nextMenu = 1
  /\ nextTimer = 1
  /\ pointer = Away
  /\ left = {}

\* The control a pointer position belongs to (a menu is inside its control).
ControlAt(pos) == IF pos \in Controls THEN pos ELSE menu[pos].ctl

\* The option list: only 'Focus' for a draft.
OptionsFor(c) == IF c \in Drafts THEN "focus" ELSE "full"

\* Mutant: the timer id stored but setTimeout never called.
ArmTimerDropped(ts, t, u) == ts

\* setTimeout(... $ul.remove() ..., 300).
ArmTimer(ts, t, u) == ts \cup {<<t, u>>}

\* Mutant: clearTimeout forgotten.
ClearTimerNoop(ts, t, u) == ts

\* clearTimeout(timer).
ClearTimer(ts, t, u) == ts \ {<<t, u>>}

(***************************************************************************)
(* The click handler on '.control': $(this).find('ul') finds the menu of   *)
(* the clicked control; remove() detaches it with its data (a pending      *)
(* close timer stays armed), or a new menu is built and appended.          *)
(***************************************************************************)
Click ==
  LET c == ControlAt(pointer)
      open == {u \in dom : menu[u].ctl = c}
  IN
  /\ pointer # Away
  /\ IF open # {}
     THEN /\ dom' = dom \ open
          /\ closetimer' = [u \in MenuIds |-> IF u \in open THEN 0 ELSE closetimer[u]]
          /\ pointer' = IF pointer \in open THEN c ELSE pointer
          /\ UNCHANGED <<menu, nextMenu>>
     ELSE /\ nextMenu <= MaxMenus
          /\ menu' = [menu EXCEPT ![nextMenu] = [ctl |-> c, opts |-> OptionsFor(c)]]
          /\ dom' = dom \cup {nextMenu}
          /\ nextMenu' = nextMenu + 1
          /\ UNCHANGED <<closetimer, pointer>>
  /\ UNCHANGED <<timers, nextTimer, left>>

(***************************************************************************)
(* The pointer moves to position to.  Leaving a menu u runs the mouseleave *)
(* handler: arm a timer and store its id in u's data.  Entering a menu v   *)
(* runs the mouseenter handler: if v's data holds a timer, clear it and    *)
(* remove the data.                                                        *)
(***************************************************************************)
Move(to) ==
  LET leaving == pointer \in dom
      ts1 == IF leaving THEN ArmTimer(timers, nextTimer, pointer) ELSE timers
      ct1 == IF leaving THEN [closetimer EXCEPT ![pointer] = nextTimer] ELSE closetimer
      entering == to \in dom /\ ct1[to] # 0
  IN
  /\ to \in (Controls \cup dom \cup {Away}) \ {pointer}
  /\ leaving => nextTimer <= MaxTimers
  /\ pointer' = to
  /\ nextTimer' = IF leaving THEN nextTimer + 1 ELSE nextTimer
  /\ timers' = IF entering THEN ClearTimer(ts1, ct1[to], to) ELSE ts1
  /\ closetimer' = IF entering THEN [ct1 EXCEPT ![to] = 0] ELSE ct1
  /\ left' = (IF leaving THEN left \cup {pointer} ELSE left) \ {to}
  /\ UNCHANGED <<menu, dom, nextMenu>>

\* A close timer fires: $ul.remove() on the menu it captured.
Fire(t, u) ==
  /\ <<t, u>> \in timers
  /\ timers' = timers \ {<<t, u>>}
  /\ dom' = dom \ {u}
  /\ closetimer' = [closetimer EXCEPT ![u] = 0]
  /\ pointer' = IF pointer = u THEN menu[u].ctl ELSE pointer
  /\ UNCHANGED <<menu, nextMenu, nextTimer, left>>

FireSome == \E tu \in timers : Fire(tu[1], tu[2])

Next ==
  \/ Click
  \/ \E to \in Controls \cup dom \cup {Away} : Move(to)
  \/ FireSome

\* The event loop runs a due timer; the user's clicks and moves are not
\* assumed to happen.
Spec == Init /\ [][Next]_vars /\ WF_vars(FireSome)

-----------------------------------------------------------------------------
(***************************************************************************)
(* A menu the pointer is in is never about to close, and the close timer   *)
(* of an attached menu is always the one its 'closetimer' data names, so   *)
(* mouseenter can clear it: no timer handle is lost by a later mouseleave  *)
(* overwriting the data (lines 33-38), and every pending close is cleared  *)
(* when the pointer comes back (lines 43-47).                              *)
(***************************************************************************)
CloseTimerTracked ==
  \A tu \in timers : tu[2] \in dom => closetimer[tu[2]] = tu[1] /\ pointer # tu[2]

(***************************************************************************)
(* A menu the pointer has left closes unless the pointer comes back into   *)
(* it: the mouseleave handler's timer removes it (lines 33-36).            *)
(***************************************************************************)
LeftMenuCloses ==
  \A u \in MenuIds :
    (u \in dom /\ u \in left) ~> (u \notin dom \/ pointer = u)

=============================================================================
