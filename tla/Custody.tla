------------------------------- MODULE Custody -------------------------------
(***************************************************************************)
(* The in-memory chain of custody (engine/custody/chain.py).  SHA-256 is a *)
(* free constructor: LinkHash(p, r) determines p and r.                    *)
(***************************************************************************)
EXTENDS Integers, Sequences

GENESIS == <<"genesis">>
LinkHash(prev, rec) == <<prev, rec>>

(* hashes[i] is the hash carried past the first i records.                 *)
HashesOf(records) ==
  LET hashes[i \in 0 .. Len(records)] ==
        IF i = 0 THEN GENESIS ELSE LinkHash(hashes[i - 1], records[i])
  IN hashes
BuildChain(records) ==
  [i \in DOMAIN records |-> [rec |-> records[i], prev |-> HashesOf(records)[i - 1],
                             hash |-> HashesOf(records)[i]]]

(* The recomputation carries its own hash forward, never link.prev; as it  *)
(* stops at the first mismatch, that hash is the stored one of the link    *)
(* before.                                                                 *)
Carried(chain, i) == IF i = 1 THEN GENESIS ELSE chain[i - 1].hash
Holds(chain, i) == chain[i].hash = LinkHash(Carried(chain, i), chain[i].rec)
Verify(chain) == \A i \in DOMAIN chain : Holds(chain, i)

NoBreak == 0
FindBreak(chain) ==
  IF Verify(chain) THEN NoBreak
  ELSE CHOOSE i \in DOMAIN chain :
         ~Holds(chain, i) /\ \A j \in DOMAIN chain : j < i => Holds(chain, j)

Swapped == 0  \* no record of a chain: those are numbered from 1
(* A copy whose record at index (from 0) is replaced, its hashes kept; an  *)
(* index outside the chain raises.                                         *)
CanTamper(chain, index) == 0 <= index /\ index < Len(chain)
Tamper(chain, index) == [chain EXCEPT ![index + 1].rec = Swapped]
=============================================================================
