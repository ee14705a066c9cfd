---------------------------- MODULE AuditLedger -----------------------------
(***************************************************************************)
(* What the audit chain promises to a reader who sees neither transactions *)
(* nor locks, seq values nor hashes: one sequence of entries that only     *)
(* grows at its end.  A request adds one entry; seeding adds, in one step, *)
(* the entries of exactly the users that have none, in their fixed order.  *)
(* A caller is answered about an entry that is already there, once.        *)
(***************************************************************************)
EXTENDS Ordering

CONSTANTS
  Request,     \* entries a handler may ask for
  SeedEntries  \* the sequence of entries that announce the seeded users

VARIABLES ledger, acked

Has(e) == \E i \in DOMAIN ledger : ledger[i] = e

Init == ledger = <<>> /\ acked = {}

Record(x) ==
  /\ ledger' = Append(ledger, x)
  /\ UNCHANGED acked

SeedMissing ==
  /\ ledger' = ledger \o Keep(SeedEntries, LAMBDA e : ~Has(e))
  /\ UNCHANGED acked

Acknowledge(i) ==
  /\ i \in DOMAIN ledger \ acked
  /\ ledger[i] \in Request
  /\ acked' = acked \cup {i}
  /\ UNCHANGED ledger

Next ==
  \/ \E x \in Request : Record(x)
  \/ SeedMissing
  \/ \E i \in DOMAIN ledger : Acknowledge(i)

Spec == Init /\ [][Next]_<<ledger, acked>>
=============================================================================
