---------------------------- MODULE MCControlQueue ----------------------------
(* ControlQueue with four slots: wrap-around, full and empty all occur. *)
EXTENDS ControlQueue

===============================================================================
