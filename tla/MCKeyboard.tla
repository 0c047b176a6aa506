----------------------------- MODULE MCKeyboard -----------------------------
(***************************************************************************)
(* A screen of two by two characters, the last row cut; one klog of three  *)
(* characters; each kind of key; a firmware that leaves IRQ1 enabled in    *)
(* the keyboard controller, and one that does not.                         *)
(***************************************************************************)
EXTENDS Keyboard

=============================================================================
