------------------------ MODULE AuditChainRefinement ------------------------
(***************************************************************************)
(* AuditChain implements AuditLedger: the ledger is the committed rows in  *)
(* seq order, an acknowledged position is the position of an answered row. *)
(***************************************************************************)
EXTENDS AuditChain, Ordering

InSeqOrder == InOrder(auditLog, LAMBDA q, r : q.seq < r.seq)
Entries == LET rows == InSeqOrder IN [i \in DOMAIN rows |-> rows[i].body]
Acknowledged == LET rows == InSeqOrder IN {i \in DOMAIN rows : rows[i] \in answered}

Ledger == INSTANCE AuditLedger WITH
  Request <- Request,
  SeedEntries <- [i \in DOMAIN SeedOrder |-> Seeded(SeedOrder[i])],
  ledger <- Entries,
  acked <- Acknowledged

(* The table, its trigger and the transactions of append_audit and         *)
(* seed_users behave as one append-only ledger (db/repo.py, db/seed.py,    *)
(* 001_schema.sql): seeding is all-or-nothing and never repeated, and an   *)
(* answered append keeps the position it was answered for.                 *)
ImplementsLedger == Ledger!Spec
=============================================================================
