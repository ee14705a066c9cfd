------------------------------- MODULE MCDemo -------------------------------
(* Instances of Demo for TLC. *)
EXTENDS Demo, TLC

(* The catalogs of a run channel and of a demo channel. *)
MCEvent == RunEvent \cup DemoEvent
MCTerminal == {RunCompleted, RunFailed, DemoCompleted, DemoFailed}

(* Demo ids are interchangeable; run ids are not (FreshId chooses one). *)
DemoSymmetry == Permutations(DemoId)
=============================================================================
