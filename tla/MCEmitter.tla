----------------------------- MODULE MCEmitter -----------------------------
(***************************************************************************)
(* The instance of Emitter for TLC: up to four events, two of them in one  *)
(* frame; more than two together are too many for the API.                 *)
(***************************************************************************)
EXTENDS Emitter

=============================================================================
