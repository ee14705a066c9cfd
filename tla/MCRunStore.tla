----------------------------- MODULE MCRunStore -----------------------------
(* Instances of RunStore for TLC. *)
EXTENDS RunStore, TLC

(* The catalog of one run channel. *)
MCEvent == RunEvent
MCTerminal == {RunCompleted, RunFailed}
=============================================================================
