----------------------------- MODULE MCKeyPath -----------------------------
(***************************************************************************)
(* KeyPath for TLC: the program's tables and a small keyboard with one key *)
(* of each kind of code sequence.                                          *)
(***************************************************************************)
EXTENDS KeyPath

MCPastTable == {0}

\* The keyboard's keys (scan code set 2).
Layout ==
  [A      |-> [make |-> <<28>>, break |-> <<240, 28>>, repeat |-> <<28>>,
               usage |-> 4, mask |-> {}],
   B      |-> [make |-> <<50>>, break |-> <<240, 50>>, repeat |-> <<50>>,
               usage |-> 5, mask |-> {}],
   Left   |-> [make |-> <<224, 107>>, break |-> <<224, 240, 107>>,
               repeat |-> <<224, 107>>, usage |-> 80, mask |-> {}],
   NumLeft |-> [make |-> <<224, 18, 224, 107>>,   \* Left inside a fake shift
               break |-> <<224, 240, 107, 224, 240, 18>>,
               repeat |-> <<224, 107>>, usage |-> 80, mask |-> {}],
   PrtSc  |-> [make |-> <<224, 18, 224, 124>>,
               break |-> <<224, 240, 124, 224, 240, 18>>,
               repeat |-> <<224, 124>>, usage |-> 70, mask |-> {}],
   Pause  |-> [make |-> <<225, 20, 119, 225, 240, 20, 240, 119>>, break |-> <<>>,
               repeat |-> <<>>, usage |-> 72, mask |-> {}],
   LShift |-> [make |-> <<18>>, break |-> <<240, 18>>, repeat |-> <<18>>,
               usage |-> 0, mask |-> {1}],
   LCtrl  |-> [make |-> <<20>>, break |-> <<240, 20>>, repeat |-> <<20>>,
               usage |-> 0, mask |-> {0}],
   RCtrl  |-> [make |-> <<224, 20>>, break |-> <<224, 240, 20>>,
               repeat |-> <<224, 20>>, usage |-> 0, mask |-> {4}]]

MCMake == [k \in KeyNames |-> Layout[k].make]
MCBreak == [k \in KeyNames |-> Layout[k].break]
MCRepeat == [k \in KeyNames |-> Layout[k].repeat]
MCUsage == [k \in KeyNames |-> Layout[k].usage]
MCMask == [k \in KeyNames |-> Layout[k].mask]
MCCodes == UNION {{f[k][n] : n \in DOMAIN f[k]} : <<f, k>> \in {MCMake, MCBreak, MCRepeat} \X KeyNames}
=============================================================================
