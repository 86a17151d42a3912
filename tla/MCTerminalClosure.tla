-------------------------- MODULE MCTerminalClosure --------------------------
(***************************************************************************)
(* TerminalClosure for the two tokens of a campaign, with and without the  *)
(* selective first hour.                                                   *)
(***************************************************************************)
EXTENDS TerminalClosure
=============================================================================
