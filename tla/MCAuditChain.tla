---------------------------- MODULE MCAuditChain ----------------------------
(* Instances of AuditChain for TLC. *)
EXTENDS AuditChainRefinement, TLC

CONSTANTS a1, a2, h1, h2

(* Two handlers of one process. *)
HomeSame == [h \in {h1, h2} |-> a1]
(* One handler in each of two processes. *)
HomeSplit == [h \in {h1, h2} |-> IF h = h1 THEN a1 ELSE a2]

TwoUsers == <<"officer1", "supervisor1">>
OneUser == <<"officer1">>
ThreeUsers == <<"officer1", "supervisor1", "auditor1">>
=============================================================================
