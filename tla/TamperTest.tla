------------------------------ MODULE TamperTest ------------------------------
(***************************************************************************)
(* POST /api/audit/tamper-test (api/routers/audit.py) on a chain given as  *)
(* the sequence of its committed rows in seq order: the scratch copy, its  *)
(* one corrupted payload and the walk that has to find it.  Seqs increase  *)
(* but have gaps, since a rolled back append keeps the one it drew.        *)
(*                                                                         *)
(* A digest is a free constructor and a payload is the record `detail`     *)
(* with the mark the corruption sets.                                      *)
(***************************************************************************)
EXTENDS Naturals, Sequences

Genesis == <<>>
Digest(prev, body) == <<prev, body>>

Body(actor, action, detail) ==
  [actor |-> actor, action |-> action, detail |-> detail, tampered |-> FALSE]
HeadHash(log) == IF log = <<>> THEN Genesis ELSE log[Len(log)].hash
HeadSeq(log) == IF log = <<>> THEN 0 ELSE log[Len(log)].seq
ChainRow(n, prev, body) ==
  [seq |-> n, prev |-> prev, body |-> body, hash |-> Digest(prev, body)]
(* What the insert trigger makes of a row that draws the seq n.            *)
Chained(log, n, body) == Append(log, ChainRow(n, HeadHash(log), body))

(* The walk, in the database function and over the scratch copy alike.     *)
ExpectedPrev(log, i) == IF i = 1 THEN Genesis ELSE log[i - 1].hash
BadRow(log, i) ==
  \/ log[i].prev # ExpectedPrev(log, i)
  \/ log[i].hash # Digest(log[i].prev, log[i].body)
FirstBad(log) ==
  {log[i].seq : i \in {j \in DOMAIN log :
                         BadRow(log, j) /\ \A k \in 1 .. (j - 1) : ~BadRow(log, k)}}
VerifyChain(log) == FirstBad(log) = {}

MIN_TAMPER_ROWS == 3

(* Mutant: OFFSET n // 2 read as a seq, gaps or not. *)
CorruptSeqAsSeq(scratch) == (Len(scratch) \div 2) + 1
(* SELECT seq ... ORDER BY seq OFFSET n // 2 LIMIT 1.                      *)
CorruptSeq(scratch) == scratch[(Len(scratch) \div 2) + 1].seq

Corrupted(scratch, seq) ==
  [i \in DOMAIN scratch |->
     IF scratch[i].seq = seq THEN [scratch[i] EXCEPT !.body.tampered = TRUE] ELSE scratch[i]]
BreakSeq(scratch) == FirstBad(Corrupted(scratch, CorruptSeq(scratch)))
=============================================================================
