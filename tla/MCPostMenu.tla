----------------------------- MODULE MCPostMenu -----------------------------
(* Two post controls, one of them a draft's; up to three menus and three  *)
(* close timers, so a menu can be left, re-entered and left again, and a  *)
(* closed control can open a second menu while a timer is still pending.  *)
EXTENDS PostMenu

=============================================================================
