-------------------------------- MODULE Access --------------------------------
(***************************************************************************)
(* Who may do what: the token pair of api/auth.py and the role gates of    *)
(* api/deps.py.  A token is what its signature vouches for; signing, the   *)
(* clock and argon2 are left out, so a token that does not verify or has   *)
(* expired is one the caller does not have.                                *)
(***************************************************************************)

ROLES == {"officer", "supervisor", "auditor"}

IssuePair(sub, role) ==
  {[sub |-> sub, role |-> role, typ |-> t] : t \in {"access", "refresh"}}

(* decode_token answers 401 unless this holds.                             *)
DecodeToken(token, expectedTyp) ==
  token.typ = expectedTyp /\ token.role \in ROLES

(* Mutant: the officer's endpoints admit every authenticated role. *)
RequireRoleAny(roles) == IF "officer" \in roles THEN ROLES ELSE roles

(* require_role: asking for an officer admits the supervisor too.          *)
RequireRole(roles) ==
  roles \cup IF "officer" \in roles THEN {"supervisor"} ELSE {}

(* The endpoints that append to the audit chain when they are called.      *)
(* Deciding a link or a claim and ingesting an artefact have the same gate *)
(* and differ in the action and payload they write: one kind of row here,  *)
(* casework.  The demo a supervisor starts (and nobody else: POST          *)
(* /api/demo/start) rejects a link of its own later, in that supervisor's  *)
(* name: module Demo has that append.                                      *)
Endpoint ==
  [casework    |-> {"officer"},
   tamper_test |-> {"auditor"}]

Admitted(token, e) ==
  DecodeToken(token, "access") /\ token.role \in RequireRole(Endpoint[e])
=============================================================================
