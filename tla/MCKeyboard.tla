----------------------------- MODULE MCKeyboard -----------------------------
(***************************************************************************)
(* Instances of Keyboard for TLC, by the names of the keys: Enter, a, left *)
(* Shift, Caps Lock, and the arrow up, which is announced by E0.           *)
(***************************************************************************)
EXTENDS Keyboard

Enter == 28
KeyA  == 30
Shift == 42
Caps  == 58
Up    == 72

AllCodes  == {Enter, KeyA, Shift, Caps}
Letters   == {KeyA}
Arrows    == {Up}

\* The properties say nothing about what follows a disturbance.
Undisturbed == ~ disturbed
=============================================================================
