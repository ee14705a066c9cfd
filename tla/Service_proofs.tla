---------------------------- MODULE Service_proofs ----------------------------
(***************************************************************************)
(* Proofs about Service, for any number of api processes, files, contents  *)
(* and requests, and for every bound.                                      *)
(***************************************************************************)
EXTENDS Service, TLAPS

(* THE MIGRATION RUNNER: every step of it, of the process around it or of  *)
(* a deployment keeps MigrationInv.                                        *)

(* Between lock and unlock the process holds the lock, so nobody else      *)
(* changes what it has read.                                               *)
LockInv == \A p \in Api : step[p] \in Holding => lock = p
LoopInv ==
  \A p \in Api : step[p] \in {"loop", "record"} =>
    \A f \in todo[p] : known[p][f] = recorded[f] /\ disk[f] \in Content
RecordInv ==
  \A p \in Api : step[p] = "record" =>
    /\ body[p] \in [file : File, content : Content]
    /\ body[p].file \in todo[p]
    /\ recorded[body[p].file] = None
MigrationInv ==
  MigrationTypeOK /\ LockInv /\ LoopInv /\ RecordInv /\ MigratedOnce

(* A process starts, and comes to serve, outside the runner.               *)
Enter(p, from, to) ==
  /\ Goto(p, from, to)
  /\ UNCHANGED <<disk, databaseVars, lock, known, todo, body>>
Outside(p) == Enter(p, "down", "lock") \/ Enter(p, "seed", "serving")
MigrationNext ==
  \/ \E p \in Api : Migrate(p) \/ End(p) \/ Outside(p)
  \/ \E f \in File, c \in Content : Deploy(f, c)

-----------------------------------------------------------------------------
LEMMA MigrationInitInv == MigrationInit => MigrationInv
<1> SUFFICES ASSUME MigrationInit PROVE MigrationInv
  OBVIOUS
<1>1. MigrationTypeOK
  BY MigrationAssumption DEF MigrationInit, MigrationTypeOK, Unread
<1>2. LockInv /\ LoopInv /\ RecordInv
  BY DEF MigrationInit, LockInv, LoopInv, RecordInv, Holding
<1>3. MigratedOnce
  BY DEF MigrationInit, MigratedOnce, AppliedOnce, RecordedIsApplied, Unread
<1>4. QED
  BY <1>1, <1>2, <1>3 DEF MigrationInv

LEMMA MigrationTypes ==
  ASSUME MigrationInv, MigrationNext
  PROVE  MigrationTypeOK'
<1> USE DEF MigrationTypeOK, Holding, databaseVars, Goto, Unread
<1>0. MigrationTypeOK
  BY DEF MigrationInv
<1>1. ASSUME NEW p \in Api, Lock(p) PROVE MigrationTypeOK'
  BY <1>0, <1>1 DEF Lock
<1>2. ASSUME NEW p \in Api, EnsureAppRole(p) PROVE MigrationTypeOK'
  BY <1>0, <1>2 DEF EnsureAppRole
<1>3. ASSUME NEW p \in Api, EnsureBookkeeping(p) PROVE MigrationTypeOK'
  BY <1>0, <1>3 DEF EnsureBookkeeping
<1>4. ASSUME NEW p \in Api, ReadRecorded(p) PROVE MigrationTypeOK'
  BY <1>0, <1>4 DEF ReadRecorded
<1>5. ASSUME NEW p \in Api, SkipApplied(p) PROVE MigrationTypeOK'
  BY <1>0, <1>5 DEF SkipApplied, Visited
<1>6. ASSUME NEW p \in Api, RefuseChanged(p) PROVE MigrationTypeOK'
  BY <1>0, <1>6 DEF RefuseChanged, Leave
<1>7. ASSUME NEW p \in Api, Apply(p) PROVE MigrationTypeOK'
  <2>1. PICK f \in File : Visiting(p, f) /\ known[p][f] = None
                          /\ body' = [body EXCEPT ![p] = [file |-> f, content |-> disk[f]]]
    BY <1>7 DEF Apply
  <2>2. disk[f] \in Content
    BY <2>1 DEF MigrationInv, LoopInv, Visiting
  <2>3. body' \in [Api -> [file : File, content : Content] \cup {None}]
    BY <1>0, <2>1, <2>2
  <2>4. QED
    BY <1>0, <1>7, <2>3 DEF Apply
<1>8. ASSUME NEW p \in Api, Record(p) PROVE MigrationTypeOK'
  <2>1. body[p] \in [file : File, content : Content]
    BY <1>8 DEF Record, MigrationInv, RecordInv
  <2>2. recorded' \in [File -> Content \cup {None}]
    BY <1>0, <1>8, <2>1 DEF Record, Bookkeep
  <2>3. schema' \in Seq([file : File, content : Content])
    BY <1>0, <1>8, <2>1 DEF Record, Commit
  <2>4. QED
    BY <1>0, <1>8, <2>2, <2>3 DEF Record, Visited
<1>9. ASSUME NEW p \in Api, Unlock(p) PROVE MigrationTypeOK'
  BY <1>0, <1>9 DEF Unlock, Leave
<1>10. ASSUME NEW p \in Api, End(p) PROVE MigrationTypeOK'
  BY <1>0, <1>10 DEF End, Leave
<1>11. ASSUME NEW p \in Api, Outside(p) PROVE MigrationTypeOK'
  BY <1>0, <1>11 DEF Enter, Outside
<1>12. ASSUME NEW f \in File, NEW c \in Content, Deploy(f, c) PROVE MigrationTypeOK'
  BY <1>0, <1>12 DEF Deploy, runnerVars
<1>13. QED
  BY <1>1, <1>2, <1>3, <1>4, <1>5, <1>6, <1>7, <1>8, <1>9, <1>10, <1>11, <1>12
     DEF MigrationNext, Migrate

(* Only a process that leaves frees the lock, and only a free lock is taken.*)
LEMMA LockKept ==
  ASSUME MigrationInv, MigrationNext
  PROVE  LockInv'
<1> USE DEF LockInv, Holding, databaseVars, Goto, MigrationTypeOK
<1>0. MigrationTypeOK /\ LockInv
  BY DEF MigrationInv
<1>a. None \notin Api
  BY MigrationAssumption
<1>1. ASSUME NEW p \in Api, Lock(p) PROVE LockInv'
  BY <1>0, <1>a, <1>1 DEF Lock
<1>2. ASSUME NEW p \in Api, EnsureAppRole(p) \/ EnsureBookkeeping(p) PROVE LockInv'
  BY <1>0, <1>2 DEF EnsureAppRole, EnsureBookkeeping
<1>3. ASSUME NEW p \in Api, ReadRecorded(p) \/ SkipApplied(p) PROVE LockInv'
  BY <1>0, <1>3 DEF ReadRecorded, SkipApplied
<1>4. ASSUME NEW p \in Api, Apply(p) \/ Record(p) PROVE LockInv'
  BY <1>0, <1>4 DEF Apply, Record
<1>5. ASSUME NEW p \in Api, RefuseChanged(p) \/ Unlock(p) PROVE LockInv'
  BY <1>0, <1>5 DEF RefuseChanged, Unlock
<1>6. ASSUME NEW p \in Api, End(p) PROVE LockInv'
  BY <1>0, <1>6 DEF End
<1>7. ASSUME NEW p \in Api, Outside(p) PROVE LockInv'
  BY <1>0, <1>7 DEF Enter, Outside
<1>8. ASSUME NEW f \in File, NEW c \in Content, Deploy(f, c) PROVE LockInv'
  BY <1>0, <1>8 DEF Deploy, runnerVars
<1>9. QED
  BY <1>1, <1>2, <1>3, <1>4, <1>5, <1>6, <1>7, <1>8 DEF MigrationNext, Migrate

(* What a runner knows of the files it has still to visit stays true.      *)
LEMMA LoopKept ==
  ASSUME MigrationInv, MigrationNext
  PROVE  LoopInv' /\ RecordInv'
<1> USE DEF LoopInv, RecordInv, Holding, databaseVars, Goto, MigrationTypeOK
<1>0. MigrationTypeOK /\ LoopInv /\ RecordInv
  BY DEF MigrationInv
<1>1. ASSUME NEW p \in Api, Lock(p) PROVE LoopInv' /\ RecordInv'
  BY <1>0, <1>1 DEF Lock
<1>2. ASSUME NEW p \in Api, EnsureAppRole(p) \/ EnsureBookkeeping(p)
      PROVE  LoopInv' /\ RecordInv'
  BY <1>0, <1>2 DEF EnsureAppRole, EnsureBookkeeping
<1>3. ASSUME NEW p \in Api, ReadRecorded(p) PROVE LoopInv' /\ RecordInv'
  BY <1>0, <1>3 DEF ReadRecorded
<1>4. ASSUME NEW p \in Api, SkipApplied(p) PROVE LoopInv' /\ RecordInv'
  BY <1>0, <1>4 DEF SkipApplied, Visited
<1>5. ASSUME NEW p \in Api, Apply(p) PROVE LoopInv' /\ RecordInv'
  <2>1. PICK f \in File : Visiting(p, f) /\ known[p][f] = None
                          /\ body' = [body EXCEPT ![p] = [file |-> f, content |-> disk[f]]]
    BY <1>5 DEF Apply
  <2>2. disk[f] \in Content /\ recorded[f] = None /\ f \in todo[p]
    BY <1>0, <2>1 DEF Visiting
  <2>3. LoopInv'
    BY <1>0, <1>5 DEF Apply
  <2>4. RecordInv'
    BY <1>0, <1>5, <2>1, <2>2 DEF Apply
  <2>5. QED
    BY <2>3, <2>4
<1>6. ASSUME NEW p \in Api, Record(p) PROVE LoopInv' /\ RecordInv'
  <2>1. \A q \in Api : q # p => step[q] \notin Holding
    BY <1>6 DEF Record, MigrationInv, LockInv
  <2>2. body[p] \in [file : File, content : Content]
    BY <1>0, <1>6 DEF Record
  <2>3. LoopInv'
    BY <1>0, <1>6, <2>1, <2>2 DEF Record, Bookkeep, Visited
  <2>4. RecordInv'
    BY <1>0, <1>6, <2>1 DEF Record
  <2>5. QED
    BY <2>3, <2>4
<1>7. ASSUME NEW p \in Api, RefuseChanged(p) \/ Unlock(p) PROVE LoopInv' /\ RecordInv'
  <2>1. PICK s \in {"down", "seed"} : step' = [step EXCEPT ![p] = s]
    BY <1>7 DEF RefuseChanged, Unlock
  <2>2. /\ todo' = [todo EXCEPT ![p] = {}]
        /\ body' = [body EXCEPT ![p] = None]
        /\ known' = [known EXCEPT ![p] = Unread]
        /\ UNCHANGED <<disk, recorded>>
    BY <1>7 DEF RefuseChanged, Unlock, Leave
  <2>3. LoopInv'
    BY <1>0, <2>1, <2>2
  <2>4. RecordInv'
    BY <1>0, <2>1, <2>2
  <2>5. QED
    BY <2>3, <2>4
<1>8. ASSUME NEW p \in Api, End(p) PROVE LoopInv' /\ RecordInv'
  BY <1>0, <1>8 DEF End, Leave
<1>9. ASSUME NEW p \in Api, Outside(p) PROVE LoopInv' /\ RecordInv'
  BY <1>0, <1>9 DEF Enter, Outside
<1>10. ASSUME NEW f \in File, NEW c \in Content, Deploy(f, c) PROVE LoopInv' /\ RecordInv'
  BY <1>0, <1>10 DEF Deploy, runnerVars
<1>11. QED
  BY <1>1, <1>2, <1>3, <1>4, <1>5, <1>6, <1>7, <1>8, <1>9, <1>10 DEF MigrationNext, Migrate

(* Only Record changes the schema or the record of it, and it puts one and *)
(* the same new file into both.                                            *)
LEMMA RecordApplies ==
  ASSUME MigrationInv, NEW p \in Api, Record(p)
  PROVE  MigratedOnce'
<1> DEFINE new == body[p]
<1>0. MigrationTypeOK /\ MigratedOnce /\ RecordInv
  BY DEF MigrationInv
<1>1. new \in [file : File, content : Content] /\ recorded[new.file] = None
  BY <1>0 DEF Record, Goto, RecordInv
<1>2. schema' = Append(schema, new) /\ recorded' = [recorded EXCEPT ![new.file] = new.content]
  BY DEF Record, Commit, Bookkeep
<1>3. schema \in Seq([file : File, content : Content]) /\ recorded \in [File -> Content \cup {None}]
  BY <1>0 DEF MigrationTypeOK
<1>4. /\ Len(schema') = Len(schema) + 1 /\ Len(schema) \in Nat
      /\ DOMAIN schema' = 1 .. Len(schema) + 1 /\ DOMAIN schema = 1 .. Len(schema)
      /\ schema'[Len(schema) + 1] = new
      /\ \A i \in DOMAIN schema : schema'[i] = schema[i]
  BY <1>1, <1>2, <1>3
<1> HIDE DEF new
<1>5. \A i \in DOMAIN schema :
        schema[i] \in [file : File, content : Content] /\ schema[i].file # new.file
  <2> SUFFICES ASSUME NEW i \in DOMAIN schema
               PROVE  schema[i] \in [file : File, content : Content] /\ schema[i].file # new.file
    OBVIOUS
  <2> DEFINE Entry == [file : File, content : Content]
  <2>a. schema \in Seq(Entry) /\ i \in 1 .. Len(schema)
    BY <1>3, <1>4
  <2> HIDE DEF Entry
  <2>b. schema[i] \in Entry
    BY <2>a
  <2>1. schema[i] \in [file : File, content : Content]
    BY <2>b DEF Entry
  <2>2. recorded[schema[i].file] = schema[i].content
    BY <1>0 DEF MigratedOnce, RecordedIsApplied
  <2>3. schema[i].content # None
    BY <2>1, MigrationAssumption
  <2>4. QED
    BY <1>1, <2>1, <2>2, <2>3
<1>6. AppliedOnce'
  BY <1>0, <1>4, <1>5 DEF MigratedOnce, AppliedOnce
<1>7. \A i \in DOMAIN schema' : recorded'[schema'[i].file] = schema'[i].content
  BY <1>0, <1>1, <1>2, <1>3, <1>4, <1>5 DEF MigratedOnce, RecordedIsApplied
<1>8. ASSUME NEW f \in File, recorded'[f] # None
      PROVE  \E i \in DOMAIN schema' : schema'[i] = [file |-> f, content |-> recorded'[f]]
  <2>1. CASE f = new.file
    <3>1. recorded'[f] = new.content /\ new = [file |-> f, content |-> new.content]
      BY <1>1, <1>2, <1>3, <2>1
    <3>2. QED
      BY <1>4, <3>1
  <2>2. CASE f # new.file
    <3>1. recorded'[f] = recorded[f]
      BY <1>2, <1>3, <2>2
    <3>2. PICK i \in DOMAIN schema : schema[i] = [file |-> f, content |-> recorded[f]]
      BY <1>0, <1>8, <3>1 DEF MigratedOnce, RecordedIsApplied
    <3>3. QED
      BY <1>4, <3>1, <3>2
  <2>3. QED
    BY <2>1, <2>2
<1>9. QED
  BY <1>6, <1>7, <1>8 DEF MigratedOnce, RecordedIsApplied

LEMMA MigratedKept ==
  ASSUME MigrationInv, MigrationNext
  PROVE  MigratedOnce'
<1>1. CASE \E p \in Api : Record(p)
  BY <1>1, RecordApplies
<1>2. CASE ~\E p \in Api : Record(p)
  <2>1. UNCHANGED <<schema, recorded>>
    BY <1>2 DEF MigrationNext, Migrate, Lock, EnsureAppRole, EnsureBookkeeping, ReadRecorded,
                SkipApplied, RefuseChanged, Apply, Unlock, End, Outside, Enter, Deploy,
                databaseVars
  <2>2. QED
    BY <2>1 DEF MigrationInv, MigratedOnce, AppliedOnce, RecordedIsApplied
<1>3. QED
  BY <1>1, <1>2

(* MigrationInv is inductive.                                              *)
THEOREM MigrationStep ==
  ASSUME MigrationInv, [MigrationNext]_migrationVars
  PROVE  MigrationInv'
<1>1. CASE MigrationNext
  BY <1>1, MigrationTypes, LockKept, LoopKept, MigratedKept DEF MigrationInv
<1>2. CASE UNCHANGED migrationVars
  BY <1>2 DEF MigrationInv, MigrationTypeOK, LockInv, LoopInv, RecordInv, MigratedOnce,
              AppliedOnce, RecordedIsApplied, migrationVars, databaseVars, runnerVars
<1>3. QED
  BY <1>1, <1>2

-----------------------------------------------------------------------------
(* What the runner leaves behind: when it has unlocked, the role and the   *)
(* table exist and every shipped file is applied.                          *)
SchemaInv ==
  /\ \A f \in File : Shipped[f] # None => disk[f] # None
  /\ \A p \in Api :
       /\ step[p] = "bookkeeping" => "role" \in base
       /\ step[p] \in {"read", "loop", "record", "seed", "serving"} =>
            {"role", "bookkeeping"} \subseteq base
       /\ step[p] \in {"loop", "record"} =>
            \A f \in File : Shipped[f] # None => f \in todo[p] \/ recorded[f] # None
       /\ step[p] \in {"seed", "serving"} =>
            \A f \in File : Shipped[f] # None => recorded[f] # None

LEMMA SchemaInit == MigrationInit => SchemaInv
BY DEF MigrationInit, SchemaInv

LEMMA SchemaKept ==
  ASSUME MigrationInv, SchemaInv, MigrationNext
  PROVE  SchemaInv'
<1> USE DEF SchemaInv, databaseVars, Goto, MigrationTypeOK
<1>0. MigrationTypeOK /\ SchemaInv
  BY DEF MigrationInv
<1>1. ASSUME NEW p \in Api, Lock(p) PROVE SchemaInv'
  BY <1>0, <1>1 DEF Lock
<1>2. ASSUME NEW p \in Api, EnsureAppRole(p) PROVE SchemaInv'
  BY <1>0, <1>2 DEF EnsureAppRole
<1>3. ASSUME NEW p \in Api, EnsureBookkeeping(p) PROVE SchemaInv'
  BY <1>0, <1>3 DEF EnsureBookkeeping
<1>4. ASSUME NEW p \in Api, ReadRecorded(p) PROVE SchemaInv'
  BY <1>0, <1>4 DEF ReadRecorded
<1>5. ASSUME NEW p \in Api, SkipApplied(p) PROVE SchemaInv'
  <2>1. PICK f \in File : Visiting(p, f) /\ known[p][f] # None /\ Visited(p, f)
    BY <1>5 DEF SkipApplied
  <2>2. recorded[f] # None
    BY <2>1 DEF MigrationInv, LoopInv, Visiting
  <2>3. QED
    BY <1>0, <1>5, <2>1, <2>2 DEF SkipApplied, Visited, Visiting
<1>6. ASSUME NEW p \in Api, RefuseChanged(p) PROVE SchemaInv'
  BY <1>0, <1>6 DEF RefuseChanged, Leave
<1>7. ASSUME NEW p \in Api, Apply(p) PROVE SchemaInv'
  BY <1>0, <1>7 DEF Apply
<1>8. ASSUME NEW p \in Api, Record(p) PROVE SchemaInv'
  <2>1. body[p] \in [file : File, content : Content]
    BY <1>8 DEF Record, MigrationInv, RecordInv
  <2>2. body[p].content # None
    BY <2>1, MigrationAssumption
  <2>3. \A f \in File : recorded[f] # None \/ f = body[p].file => recorded'[f] # None
    BY <1>0, <1>8, <2>1, <2>2 DEF Record, Bookkeep
  <2>4. QED
    BY <1>0, <1>8, <2>3 DEF Record, Visited
<1>9. ASSUME NEW p \in Api, Unlock(p) PROVE SchemaInv'
  BY <1>0, <1>9 DEF Unlock, Leave
<1>10. ASSUME NEW p \in Api, End(p) PROVE SchemaInv'
  BY <1>0, <1>10 DEF End, Leave
<1>11. ASSUME NEW p \in Api, Outside(p) PROVE SchemaInv'
  BY <1>0, <1>11 DEF Outside, Enter
<1>12. ASSUME NEW f \in File, NEW c \in Content, Deploy(f, c) PROVE SchemaInv'
  BY <1>0, <1>12, MigrationAssumption DEF Deploy, runnerVars
<1>13. QED
  BY <1>1, <1>2, <1>3, <1>4, <1>5, <1>6, <1>7, <1>8, <1>9, <1>10, <1>11, <1>12
     DEF MigrationNext, Migrate

-----------------------------------------------------------------------------
(* THE TAMPER TEST: what the trigger builds is a good chain, and on every  *)
(* good chain of at least three rows the test breaks the copy at the row   *)
(* it corrupted, which has rows on both sides.                             *)

IsSeq(log) == \E S : log \in Seq(S)
IsRow(r) ==
  /\ r = ChainRow(r.seq, r.prev, Body(r.body.actor, r.body.action, r.body.detail))
  /\ r.seq \in Nat
GoodChain(log) ==
  /\ IsSeq(log)
  /\ \A i \in DOMAIN log : IsRow(log[i]) /\ log[i].prev = ExpectedPrev(log, i)
  /\ \A i, j \in DOMAIN log : i < j => log[i].seq < log[j].seq

-----------------------------------------------------------------------------
LEMMA SeqDomain ==
  ASSUME NEW log, IsSeq(log)
  PROVE  Len(log) \in Nat /\ DOMAIN log = 1 .. Len(log)
<1>1. PICK S : log \in Seq(S)
  BY DEF IsSeq
<1>2. QED
  BY <1>1

LEMMA AppendOne ==
  ASSUME NEW log, IsSeq(log), NEW r
  PROVE  /\ IsSeq(Append(log, r))
         /\ Len(Append(log, r)) = Len(log) + 1
         /\ \A i \in 1 .. Len(log) : Append(log, r)[i] = log[i]
         /\ Append(log, r)[Len(log) + 1] = r
<1>1. PICK S : log \in Seq(S)
  BY DEF IsSeq
<1> DEFINE T == S \cup {r}
<1>2. log \in Seq(T) /\ r \in T
  BY <1>1
<1> HIDE DEF T
<1>3. Append(log, r) \in Seq(T)
  BY <1>2
<1>4. QED
  BY <1>2, <1>3 DEF IsSeq

(* The row of an append or a seeding, linked to the head, keeps the chain  *)
(* good and what it had.                                                   *)
LEMMA ChainedGood ==
  ASSUME NEW log, GoodChain(log), NEW n \in Nat, HeadSeq(log) < n,
         NEW actor, NEW action, NEW detail
  PROVE  LET new == Chained(log, n, Body(actor, action, detail))
         IN /\ GoodChain(new)
            /\ Len(new) = Len(log) + 1 /\ HeadSeq(new) = n
            /\ \A i \in DOMAIN log : i \in DOMAIN new /\ new[i] = log[i]
            /\ new[Len(log) + 1].body = Body(actor, action, detail)
<1> DEFINE r == ChainRow(n, HeadHash(log), Body(actor, action, detail))
           new == Append(log, r)
<1>1. IsSeq(log) /\ Len(log) \in Nat /\ DOMAIN log = 1 .. Len(log)
  BY SeqDomain DEF GoodChain
<1>2. /\ IsSeq(new) /\ Len(new) = Len(log) + 1
      /\ \A i \in 1 .. Len(log) : new[i] = log[i]
      /\ new[Len(log) + 1] = r
  BY <1>1, AppendOne
<1>3. DOMAIN new = 1 .. (Len(log) + 1)
  BY <1>2, SeqDomain
<1>4. IsRow(r) /\ r.seq = n /\ r.prev = HeadHash(log) /\ r.body = Body(actor, action, detail)
  BY DEF IsRow, ChainRow, Body
<1> HIDE DEF r, new
<1>5. log = <<>> => Len(log) = 0
  OBVIOUS
<1>5a. Len(log) = 0 => log = <<>>
  <2>1. PICK S : log \in Seq(S)
    BY <1>1 DEF IsSeq
  <2>2. QED
    BY <2>1
<1>6. HeadHash(log) = ExpectedPrev(new, Len(log) + 1)
  <2>1. CASE Len(log) = 0
    BY <2>1, <1>5a DEF HeadHash, ExpectedPrev
  <2>2. CASE Len(log) # 0
    <3>1. log # <<>> /\ Len(log) \in 1 .. Len(log) /\ Len(log) + 1 # 1 /\ (Len(log) + 1) - 1 = Len(log)
      BY <1>1, <1>5, <2>2
    <3>2. QED
      BY <1>2, <3>1 DEF HeadHash, ExpectedPrev
  <2>3. QED
    BY <2>1, <2>2
<1>7. ASSUME NEW i \in 1 .. Len(log)
      PROVE  IsRow(new[i]) /\ new[i].prev = ExpectedPrev(new, i) /\ new[i].seq < n
  <2>1. new[i] = log[i] /\ IsRow(log[i]) /\ log[i].prev = ExpectedPrev(log, i)
    BY <1>1, <1>2 DEF GoodChain
  <2>2. ExpectedPrev(new, i) = ExpectedPrev(log, i)
    <3>1. CASE i = 1
      BY <3>1 DEF ExpectedPrev
    <3>2. CASE i # 1
      <4>1. i - 1 \in 1 .. Len(log)
        BY <1>1, <3>2
      <4>2. QED
        BY <1>2, <3>2, <4>1 DEF ExpectedPrev
    <3>3. QED
      BY <3>1, <3>2
  <2>3. log # <<>> /\ Len(log) \in 1 .. Len(log)
    BY <1>1, <1>5
  <2>4. log[Len(log)].seq \in Nat /\ log[i].seq \in Nat
    BY <1>1, <2>3 DEF GoodChain, IsRow
  <2>5. log[Len(log)].seq < n
    BY <2>3 DEF HeadSeq
  <2>6. i = Len(log) \/ log[i].seq < log[Len(log)].seq
    <3> DEFINE len == Len(log)
    <3>a. len \in Nat /\ i \in 1 .. len
      BY <1>1
    <3> HIDE DEF len
    <3>b. i = len \/ i < len
      BY <3>a
    <3>1. i = Len(log) \/ i < Len(log)
      BY <3>b DEF len
    <3>2. i \in DOMAIN log /\ Len(log) \in DOMAIN log
      BY <1>1, <2>3
    <3>3. QED
      BY <3>1, <3>2 DEF GoodChain
  <2>7. log[i].seq < n
    BY <2>4, <2>5, <2>6
  <2>8. QED
    BY <2>1, <2>2, <2>7
<1>8. \A i \in DOMAIN new : IsRow(new[i]) /\ new[i].prev = ExpectedPrev(new, i)
  BY <1>1, <1>2, <1>3, <1>4, <1>6, <1>7
<1>9. ASSUME NEW i \in DOMAIN new, NEW j \in DOMAIN new, i < j
      PROVE  new[i].seq < new[j].seq
  <2>1. i \in 1 .. Len(log)
    BY <1>1, <1>3, <1>9
  <2>2. CASE j = Len(log) + 1
    BY <1>2, <1>4, <1>7, <2>1, <2>2
  <2>3. CASE j # Len(log) + 1
    <3>1. j \in 1 .. Len(log)
      BY <1>1, <1>3, <2>3
    <3>2. QED
      BY <1>1, <1>2, <1>9, <2>1, <3>1 DEF GoodChain
  <2>4. QED
    BY <2>2, <2>3
<1>10. HeadSeq(new) = n
  <2>1. new # <<>>
    BY <1>1, <1>2
  <2>2. QED
    BY <1>2, <1>4, <2>1 DEF HeadSeq
<1>11. QED
  BY <1>1, <1>2, <1>3, <1>4, <1>8, <1>9, <1>10 DEF GoodChain, Chained, r, new

(* verify_audit_chain returns NULL on a good chain.                        *)
LEMMA GoodVerifies ==
  ASSUME NEW log, GoodChain(log)
  PROVE  VerifyChain(log) /\ \A i \in DOMAIN log : ~BadRow(log, i)
<1>1. ASSUME NEW i \in DOMAIN log PROVE ~BadRow(log, i)
  <2>1. IsRow(log[i]) /\ log[i].prev = ExpectedPrev(log, i)
    BY DEF GoodChain
  <2>2. log[i].hash = Digest(log[i].prev, log[i].body)
    BY <2>1 DEF IsRow, ChainRow
  <2>3. QED
    BY <2>1, <2>2 DEF BadRow
<1>2. QED
  BY <1>1 DEF VerifyChain, FirstBad

(* OFFSET n // 2 is neither the first row nor the last.                    *)
LEMMA MidChain ==
  ASSUME NEW n \in Nat, n >= MIN_TAMPER_ROWS
  PROVE  (n \div 2) + 1 \in 2 .. (n - 1)
BY DEF MIN_TAMPER_ROWS

(* The tamper test on a good chain that is long enough: the corrupted copy *)
(* breaks at the corrupted row, in the middle of the chain.                *)
THEOREM BreakAtCorruption ==
  ASSUME NEW log, GoodChain(log), Len(log) >= MIN_TAMPER_ROWS
  PROVE  /\ BreakSeq(log) = {CorruptSeq(log)}
         /\ \E j \in 2 .. (Len(log) - 1) : log[j].seq = CorruptSeq(log)
<1> DEFINE m == (Len(log) \div 2) + 1
           c == Corrupted(log, CorruptSeq(log))
<1>1. Len(log) \in Nat /\ DOMAIN log = 1 .. Len(log)
  BY SeqDomain DEF GoodChain
<1>2. m \in 2 .. (Len(log) - 1)
  BY <1>1, MidChain
<1>3. m \in DOMAIN log /\ CorruptSeq(log) = log[m].seq
  BY <1>1, <1>2 DEF CorruptSeq
<1>4. DOMAIN c = DOMAIN log
  BY DEF Corrupted
<1> HIDE DEF m
<1>5. \A i \in DOMAIN log : i # m => log[i].seq # log[m].seq
  <2> SUFFICES ASSUME NEW i \in DOMAIN log, i # m PROVE log[i].seq # log[m].seq
    OBVIOUS
  <2>1. log[i].seq \in Nat /\ log[m].seq \in Nat
    BY <1>3 DEF GoodChain, IsRow
  <2>2. i < m \/ m < i
    BY <1>1, <1>3
  <2>3. log[i].seq < log[m].seq \/ log[m].seq < log[i].seq
    BY <1>3, <2>2 DEF GoodChain
  <2>4. QED
    BY <2>1, <2>3
<1>6. \A i \in DOMAIN log : i # m => c[i] = log[i]
  BY <1>3, <1>5 DEF Corrupted
<1>7. c[m] = [log[m] EXCEPT !.body.tampered = TRUE]
  BY <1>3 DEF Corrupted
<1>8. IsRow(log[m])
  BY <1>3 DEF GoodChain
<1>9. /\ c[m].seq = log[m].seq /\ c[m].prev = log[m].prev /\ c[m].hash = log[m].hash
      /\ c[m].body.tampered = TRUE /\ log[m].body.tampered = FALSE
  BY <1>7, <1>8 DEF IsRow, ChainRow, Body
<1> HIDE DEF c
<1>10. c[m].hash # Digest(c[m].prev, c[m].body)
  <2>1. c[m].hash = Digest(log[m].prev, log[m].body)
    BY <1>8, <1>9 DEF IsRow, ChainRow
  <2>2. c[m].body # log[m].body
    BY <1>9
  <2>3. QED
    BY <2>1, <2>2 DEF Digest
<1>11. BadRow(c, m)
  BY <1>10 DEF BadRow
<1>12. ASSUME NEW k \in 1 .. (m - 1) PROVE ~BadRow(c, k)
  <2>1. k \in DOMAIN log /\ k # m /\ k \in 1 .. Len(log) /\ m \in Nat
    BY <1>1, <1>2
  <2>2. c[k] = log[k] /\ ~BadRow(log, k)
    BY <1>6, <2>1, GoodVerifies
  <2>3. ExpectedPrev(c, k) = ExpectedPrev(log, k)
    <3>1. CASE k = 1
      BY <3>1 DEF ExpectedPrev
    <3>2. CASE k # 1
      <4>1. k - 1 \in DOMAIN log /\ k - 1 # m
        BY <1>1, <1>2, <3>2
      <4>2. QED
        BY <1>6, <3>2, <4>1 DEF ExpectedPrev
    <3>3. QED
      BY <3>1, <3>2
  <2>4. QED
    BY <2>2, <2>3 DEF BadRow
<1>13. ASSUME NEW i \in DOMAIN c, BadRow(c, i), \A k \in 1 .. (i - 1) : ~BadRow(c, k)
       PROVE  i = m
  <2>1. i \in 1 .. Len(log) /\ m \in 1 .. Len(log) /\ Len(log) \in Nat
    BY <1>1, <1>3, <1>4
  <2>2. ~(m < i)
    <3>1. m < i => m \in 1 .. (i - 1)
      BY <2>1
    <3>2. QED
      BY <1>11, <1>13, <3>1
  <2>3. ~(i < m)
    <3>1. i < m => i \in 1 .. (m - 1)
      BY <2>1
    <3>2. QED
      BY <1>12, <1>13, <3>1
  <2>4. QED
    BY <2>1, <2>2, <2>3
<1>14. FirstBad(c) = {c[m].seq}
  <2> DEFINE Firsts == {j \in DOMAIN c : BadRow(c, j) /\ \A k \in 1 .. (j - 1) : ~BadRow(c, k)}
  <2>1. m \in Firsts
    BY <1>3, <1>4, <1>11, <1>12
  <2>2. \A j \in Firsts : j = m
    BY <1>13
  <2>3. Firsts = {m}
    BY <2>1, <2>2
  <2>4. QED
    BY <2>3 DEF FirstBad
<1>15. BreakSeq(log) = {CorruptSeq(log)}
  BY <1>3, <1>9, <1>14 DEF BreakSeq, c
<1>16. QED
  BY <1>2, <1>3, <1>15

-----------------------------------------------------------------------------
(* THE SERVICE *)

(* Users are seeded all or none, a token carries the role of a seeded user *)
(* and a tamper test in progress has corrupted a row with rows around it.  *)
UsersInv ==
  /\ DOMAIN users = User
  /\ \/ \A u \in User : users[u] = None
     \/ Len(ledger) >= MIN_TAMPER_ROWS /\ \A u \in User : users[u] # None
TokensInv ==
  \A t \in tokens : t.sub \in User /\ users[t.sub] # None /\ t.role = RoleOf[t.sub]
Tested(j) ==
  /\ j.break = j.corrupted
  /\ j.rows \in Nat /\ j.rows <= Len(ledger)
  /\ \E i \in 2 .. (j.rows - 1) : ledger[i].seq = j.corrupted
  /\ j.ok # None => j.ok = TRUE
  /\ j.actor \in User /\ users[j.actor] # None /\ RoleOf[j.actor] = "auditor"
EnvInv ==
  /\ DOMAIN env = Api
  /\ \A p \in Api : step[p] # "down" => env[p] \in Settings /\ ~Degenerate(env[p])
ReadyInv ==
  /\ \A u \in User : users[u] \notin Placeholder
  /\ \A p \in Api : Serving(p) => \A u \in User : users[u] # None
JobInv == DOMAIN job = Api /\ \A p \in Api : job[p] # None => Tested(job[p])
ServiceInv ==
  /\ MigrationInv /\ SchemaInv
  /\ GoodChain(ledger)
  /\ UsersInv /\ TokensInv /\ JobInv /\ EnvInv /\ ReadyInv
  /\ RowsAuthorised /\ TamperBreaksMidChain

-----------------------------------------------------------------------------
(* The database and the runners see only steps of Migrations.              *)
LEMMA ServiceMigrates ==
  ASSUME Next
  PROVE  [MigrationNext]_migrationVars
<1>1. ASSUME NEW p \in Api, NEW s \in Settings, Start(p, s) PROVE MigrationNext
  <2>1. Outside(p)
    BY <1>1 DEF Start, Enter, Outside
  <2>2. QED
    BY <2>1 DEF MigrationNext
<1>2. ASSUME NEW p \in Api, MigrateStep(p) PROVE MigrationNext
  BY <1>2 DEF MigrateStep, MigrationNext
<1>3. ASSUME NEW p \in Api, Seed(p) PROVE MigrationNext
  <2>1. Outside(p)
    BY <1>3 DEF Seed, Enter, Outside
  <2>2. QED
    BY <2>1 DEF MigrationNext
<1>4. ASSUME NEW p \in Api, EndProcess(p) PROVE MigrationNext
  BY <1>4 DEF EndProcess, MigrationNext
<1>5. ASSUME Redeploy PROVE MigrationNext
  <2>1. PICK d \in Deployable : Deploy(d.file, d.content)
    BY <1>5 DEF Redeploy
  <2>2. d.file \in File /\ d.content \in Content
    BY ServiceAssumption
  <2>3. QED
    BY <2>1, <2>2 DEF MigrationNext
<1>6. ASSUME NEW p \in Api, NEW t, Refresh(p, t) \/ Write(p, t) \/ ScratchTest(p, t)
      PROVE  UNCHANGED migrationVars
  BY <1>6 DEF Refresh, Write, ScratchTest
<1>7. ASSUME NEW p \in Api, NEW u, Login(p, u) PROVE UNCHANGED migrationVars
  BY <1>7 DEF Login
<1>8. ASSUME NEW p \in Api, ReverifyChain(p) \/ AppendReport(p) PROVE UNCHANGED migrationVars
  BY <1>8 DEF ReverifyChain, AppendReport
<1>9. ASSUME AccessExpires PROVE UNCHANGED migrationVars
  BY <1>9 DEF AccessExpires
<1>10. QED
  BY <1>1, <1>2, <1>3, <1>4, <1>5, <1>6, <1>7, <1>8, <1>9 DEF Next

LEMMA ServiceInitInv == Init => ServiceInv
<1> SUFFICES ASSUME Init PROVE ServiceInv
  OBVIOUS
<1>1. MigrationInv /\ SchemaInv
  BY MigrationInitInv, SchemaInit DEF Init
<1>2. IsSeq(ledger) /\ DOMAIN ledger = {}
  <2>1. ledger = <<>>
    BY DEF Init
  <2>2. ledger \in Seq({})
    BY <2>1
  <2>3. QED
    BY <2>1, <2>2 DEF IsSeq
<1>3. GoodChain(ledger) /\ RowsAuthorised /\ TamperBreaksMidChain
  BY <1>2 DEF GoodChain, RowsAuthorised, TamperBreaksMidChain
<1>4. UsersInv /\ TokensInv /\ JobInv /\ EnvInv /\ ReadyInv
  <2>1. None \notin Placeholder
    BY ServiceAssumption DEF Placeholder
  <2>2. QED
    BY <2>1 DEF Init, MigrationInit, UsersInv, TokensInv, JobInv, EnvInv, ReadyInv, Serving
<1>5. QED
  BY <1>1, <1>3, <1>4 DEF ServiceInv

-----------------------------------------------------------------------------
(* What holds of the rows there are keeps holding when the chain grows at  *)
(* its end and no user is forgotten.                                       *)
Grows == /\ Len(ledger) <= Len(ledger')
         /\ \A i \in DOMAIN ledger : i \in DOMAIN ledger' /\ ledger'[i] = ledger[i]
UsersKept == DOMAIN users' = User /\ \A u \in User : users[u] # None => users'[u] # None

LEMMA TestedKept ==
  ASSUME ServiceInv, Grows, GoodChain(ledger'), UsersKept, NEW j, Tested(j)
  PROVE  Tested(j)'
<1>1. Len(ledger) \in Nat /\ Len(ledger') \in Nat /\ DOMAIN ledger = 1 .. Len(ledger)
  BY SeqDomain DEF ServiceInv, GoodChain
<1>2. PICK i \in 2 .. (j.rows - 1) : ledger[i].seq = j.corrupted
  BY DEF Tested
<1>3. i \in DOMAIN ledger
  BY <1>1 DEF Tested
<1>4. ledger'[i].seq = j.corrupted
  BY <1>2, <1>3 DEF Grows
<1>5. j.rows <= Len(ledger')
  BY <1>1 DEF Grows, Tested
<1>6. QED
  BY <1>2, <1>4, <1>5 DEF Tested, UsersKept

(* The two claims about rows, of any chain and any users.                  *)
Authorised(b, us) ==
  \/ b.actor = "system" /\ b.action = "user.seeded"
  \/ b.actor \in User /\ us[b.actor] # None /\ b.action \in Deeds(RoleOf[b.actor])
RowsFine(log, us) ==
  \A k \in DOMAIN log :
    /\ Authorised(log[k].body, us)
    /\ log[k].body.action = "tamper_test.run" => Report(log, log[k].body.detail, k)

LEMMA RowsFineIs ==
  /\ RowsFine(ledger, users) <=> RowsAuthorised /\ TamperBreaksMidChain
  /\ RowsFine(ledger', users') <=> RowsAuthorised' /\ TamperBreaksMidChain'
BY DEF RowsFine, Authorised, RowsAuthorised, TamperBreaksMidChain

LEMMA MoreUsers ==
  ASSUME NEW log, NEW us, NEW more, RowsFine(log, us),
         \A u \in User : us[u] # None => more[u] # None
  PROVE  RowsFine(log, more)
BY DEF RowsFine, Authorised

(* A fine row on top of fine rows.                                         *)
LEMMA ChainedFine ==
  ASSUME NEW log, GoodChain(log), NEW us, RowsFine(log, us),
         NEW n \in Nat, HeadSeq(log) < n, NEW actor, NEW action, NEW detail,
         Authorised(Body(actor, action, detail), us),
         action = "tamper_test.run" => Report(log, detail, Len(log) + 1)
  PROVE  RowsFine(Chained(log, n, Body(actor, action, detail)), us)
<1> DEFINE new == Chained(log, n, Body(actor, action, detail))
<1>0. Len(log) \in Nat /\ DOMAIN log = 1 .. Len(log)
  BY SeqDomain DEF GoodChain
<1>1. /\ GoodChain(new) /\ Len(new) = Len(log) + 1
      /\ \A i \in DOMAIN log : i \in DOMAIN new /\ new[i] = log[i]
      /\ new[Len(log) + 1].body = Body(actor, action, detail)
  BY ChainedGood
<1>2. DOMAIN new = 1 .. (Len(log) + 1)
  BY <1>1, SeqDomain DEF GoodChain
<1> HIDE DEF new
<1>3. ASSUME NEW k \in 1 .. (Len(log) + 1), NEW d, Report(log, d, k) PROVE Report(new, d, k)
  <2>1. PICK j \in 2 .. (d.rows - 1) : log[j].seq = d.corrupted
    BY <1>3 DEF Report
  <2>2. d.rows \in 1 .. (k - 1)
    BY <1>3 DEF Report
  <2>3. j \in DOMAIN log
    BY <1>0, <2>1, <2>2
  <2>4. new[j].seq = d.corrupted
    BY <1>1, <2>1, <2>3
  <2>5. QED
    BY <1>3, <2>1, <2>4 DEF Report
<1>4. ASSUME NEW k \in DOMAIN new
      PROVE  /\ Authorised(new[k].body, us)
             /\ new[k].body.action = "tamper_test.run" => Report(new, new[k].body.detail, k)
  <2>1. k \in 1 .. (Len(log) + 1)
    BY <1>2
  <2>2. CASE k \in DOMAIN log
    <3>1. new[k] = log[k]
      BY <1>1, <2>2
    <3>2. QED
      BY <1>3, <2>1, <2>2, <3>1 DEF RowsFine
  <2>3. CASE k = Len(log) + 1
    <3>1. new[k].body = Body(actor, action, detail)
      BY <1>1, <2>3
    <3>2. new[k].body.detail = detail /\ new[k].body.action = action
      BY <3>1 DEF Body
    <3>3. action = "tamper_test.run" => Report(new, detail, k)
      BY <1>3, <2>1, <2>3
    <3>4. QED
      BY <3>1, <3>2, <3>3
  <2>4. QED
    BY <1>0, <2>1, <2>2, <2>3
<1>5. QED
  BY <1>4 DEF RowsFine, new

LEMMA HeadSeqIsNat ==
  ASSUME NEW log, GoodChain(log)
  PROVE  HeadSeq(log) \in Nat
<1>1. CASE log = <<>>
  BY <1>1 DEF HeadSeq
<1>2. CASE log # <<>>
  <2>1. PICK S : log \in Seq(S)
    BY DEF GoodChain, IsSeq
  <2>2. Len(log) \in DOMAIN log
    BY <1>2, <2>1
  <2>3. QED
    BY <1>2, <2>2 DEF HeadSeq, GoodChain, IsRow
<1>3. QED
  BY <1>1, <1>2

LEMMA NextSeqIsNext ==
  ASSUME NEW log, GoodChain(log), NEW n \in NextSeq(log)
  PROVE  n \in Nat /\ HeadSeq(log) < n
<1>1. HeadSeq(log) \in Nat /\ Len(log) \in Nat /\ MaxSkipped \in Nat
  BY HeadSeqIsNat, SeqDomain, ServiceAssumption DEF GoodChain
<1>2. QED
  BY <1>1 DEF NextSeq

(* A step that appends nothing and seeds nobody.                           *)
LEMMA NothingWritten ==
  ASSUME ServiceInv, UNCHANGED <<users, ledger>>
  PROVE  /\ GoodChain(ledger') /\ UsersInv' /\ RowsFine(ledger', users')
         /\ Grows /\ UsersKept
<1>1. GoodChain(ledger) /\ UsersInv /\ RowsFine(ledger, users)
  BY RowsFineIs DEF ServiceInv
<1>2. Len(ledger) \in Nat
  BY <1>1, SeqDomain DEF GoodChain
<1>3. GoodChain(ledger') /\ RowsFine(ledger', users')
  BY <1>1
<1>4. UsersInv' /\ Grows /\ UsersKept
  BY <1>1, <1>2 DEF UsersInv, Grows, UsersKept
<1>5. QED
  BY <1>3, <1>4

(* An append by a seeded user whose role may do it.                        *)
LEMMA AppendKept ==
  ASSUME ServiceInv, NEW actor \in User, NEW action, NEW detail,
         AppendAudit(actor, action, detail), UNCHANGED users, users[actor] # None,
         action \in Deeds(RoleOf[actor]),
         action = "tamper_test.run" => Report(ledger, detail, Len(ledger) + 1)
  PROVE  /\ GoodChain(ledger') /\ UsersInv' /\ RowsFine(ledger', users')
         /\ Grows /\ UsersKept
<1>0. GoodChain(ledger) /\ UsersInv /\ RowsFine(ledger, users) /\ Len(ledger) \in Nat
  BY RowsFineIs, SeqDomain DEF ServiceInv, GoodChain
<1>1. PICK n \in NextSeq(ledger) : ledger' = Chained(ledger, n, Body(actor, action, detail))
  BY DEF AppendAudit
<1>2. n \in Nat /\ HeadSeq(ledger) < n
  BY <1>0, NextSeqIsNext
<1>3. /\ GoodChain(ledger') /\ Len(ledger') = Len(ledger) + 1
      /\ \A i \in DOMAIN ledger : i \in DOMAIN ledger' /\ ledger'[i] = ledger[i]
  BY <1>0, <1>1, <1>2, ChainedGood
<1>4. Authorised(Body(actor, action, detail), users)
  BY DEF Authorised, Body
<1>5. RowsFine(ledger', users)
  BY <1>0, <1>1, <1>2, <1>4, ChainedFine
<1>6. UsersInv' /\ Grows /\ UsersKept
  BY <1>0, <1>3 DEF UsersInv, Grows, UsersKept, MIN_TAMPER_ROWS
<1>7. QED
  BY <1>3, <1>5, <1>6

LEMMA SeededRow ==
  ASSUME NEW log, GoodChain(log), NEW us, RowsFine(log, us),
         NEW n \in Nat, HeadSeq(log) < n, NEW u
  PROVE  LET new == Chained(log, n, Body("system", "user.seeded", u))
         IN /\ GoodChain(new) /\ RowsFine(new, us)
            /\ Len(new) = Len(log) + 1 /\ HeadSeq(new) = n
            /\ \A i \in DOMAIN log : i \in DOMAIN new /\ new[i] = log[i]
<1>1. Authorised(Body("system", "user.seeded", u), us)
  BY DEF Authorised, Body
<1>2. RowsFine(Chained(log, n, Body("system", "user.seeded", u)), us)
  BY <1>1, ChainedFine
<1>3. QED
  BY <1>2, ChainedGood

(* The seeding transaction: everybody is there already, or nobody is and   *)
(* three rows follow each other.                                           *)
LEMMA SeedKept ==
  ASSUME ServiceInv, NEW p \in Api, Seed(p)
  PROVE  /\ GoodChain(ledger') /\ UsersInv' /\ RowsFine(ledger', users')
         /\ Grows /\ UsersKept
         /\ \A u \in User : users'[u] \notin Placeholder \cup {None}
<1>0. /\ GoodChain(ledger) /\ UsersInv /\ RowsFine(ledger, users) /\ ReadyInv
      /\ Len(ledger) \in Nat
  BY RowsFineIs, SeqDomain DEF ServiceInv, GoodChain
<1>1. /\ users' = [u \in User |-> IF users[u] = None THEN env[p].passwords[u] ELSE users[u]]
      /\ step[p] # "down"
  BY DEF Seed, Goto
<1>2. env[p] \in Settings /\ ~Degenerate(env[p])
  BY <1>1 DEF ServiceInv, EnvInv
<1>3. \A u \in User : env[p].passwords[u] \notin Placeholder \cup {None}
  BY <1>2, ServiceAssumption DEF Degenerate
<1>4. \A u \in User : users'[u] \notin Placeholder \cup {None}
  BY <1>0, <1>1, <1>3 DEF ReadyInv
<1>5. UsersKept /\ DOMAIN users' = User
  BY <1>1, <1>4 DEF UsersKept
<1>6. PICK first \in NextSeq(ledger) :
        ledger' = SeedUser(SeedUser(SeedUser(ledger, first, Wanted[1]), first, Wanted[2]),
                           first, Wanted[3])
  BY DEF Seed
<1>7. {Wanted[1], Wanted[2], Wanted[3]} \subseteq User
  <2>1. Wanted \in Seq(User) /\ Len(Wanted) = 3
    BY ServiceAssumption
  <2>2. DOMAIN Wanted = 1 .. 3
    BY <2>1
  <2>3. QED
    BY <2>2 DEF User
<1>8. RowsFine(ledger, users')
  BY <1>0, <1>5, MoreUsers DEF UsersKept
<1>9. CASE \A u \in User : users[u] # None
  <2>1. ledger' = ledger
    BY <1>6, <1>7, <1>9 DEF SeedUser
  <2>2. UsersInv' /\ Grows
    <3>1. Wanted[1] \in User
      BY <1>7
    <3>2. Len(ledger) >= MIN_TAMPER_ROWS
      BY <1>0, <1>9, <3>1 DEF UsersInv
    <3>3. QED
      BY <1>0, <1>4, <1>5, <2>1, <3>2 DEF UsersInv, Grows
  <2>3. QED
    BY <1>0, <1>4, <1>5, <1>8, <2>1, <2>2
<1>10. CASE \A u \in User : users[u] = None
  <2> DEFINE N(log) == first + (Len(log) - Len(ledger))
             L1 == Chained(ledger, N(ledger), Body("system", "user.seeded", Wanted[1]))
             L2 == Chained(L1, N(L1), Body("system", "user.seeded", Wanted[2]))
             L3 == Chained(L2, N(L2), Body("system", "user.seeded", Wanted[3]))
  <2>1. ledger' = L3
    BY <1>6, <1>7, <1>10 DEF SeedUser
  <2>2. first \in Nat /\ HeadSeq(ledger) < first
    BY <1>0, <1>6, NextSeqIsNext
  <2>3. N(ledger) = first
    BY <1>0, <2>2
  <2>4. /\ GoodChain(L1) /\ RowsFine(L1, users')
        /\ Len(L1) = Len(ledger) + 1 /\ HeadSeq(L1) = first
        /\ \A i \in DOMAIN ledger : i \in DOMAIN L1 /\ L1[i] = ledger[i]
    BY <1>0, <1>8, <2>2, <2>3, SeededRow
  <2> HIDE DEF L1
  <2>5. N(L1) = first + 1
    BY <1>0, <2>2, <2>4
  <2>6. /\ GoodChain(L2) /\ RowsFine(L2, users')
        /\ Len(L2) = Len(L1) + 1 /\ HeadSeq(L2) = first + 1
        /\ \A i \in DOMAIN L1 : i \in DOMAIN L2 /\ L2[i] = L1[i]
    <3>1. first + 1 \in Nat /\ HeadSeq(L1) < first + 1
      BY <2>2, <2>4
    <3>2. QED
      BY <2>4, <2>5, <3>1, SeededRow
  <2> HIDE DEF L2
  <2>7. N(L2) = first + 2
    BY <1>0, <2>2, <2>4, <2>6
  <2>8. /\ GoodChain(L3) /\ RowsFine(L3, users')
        /\ Len(L3) = Len(L2) + 1
        /\ \A i \in DOMAIN L2 : i \in DOMAIN L3 /\ L3[i] = L2[i]
    <3>1. first + 2 \in Nat /\ HeadSeq(L2) < first + 2
      BY <2>2, <2>6
    <3>2. QED
      BY <2>6, <2>7, <3>1, SeededRow
  <2> HIDE DEF L3, N
  <2>9. Len(ledger') = Len(ledger) + 3 /\ Len(ledger') >= MIN_TAMPER_ROWS
    BY <1>0, <2>1, <2>4, <2>6, <2>8 DEF MIN_TAMPER_ROWS
  <2>10. Grows
    BY <1>0, <2>1, <2>4, <2>6, <2>8, <2>9 DEF Grows
  <2>11. UsersInv'
    BY <1>4, <1>5, <2>9 DEF UsersInv
  <2>12. QED
    BY <1>4, <1>5, <2>1, <2>8, <2>10, <2>11
<1>11. QED
  BY <1>0, <1>9, <1>10 DEF UsersInv

-----------------------------------------------------------------------------
(* What a step does to the chain, the users and who may write.             *)
LEMMA WriteIsAdmitted ==
  ASSUME ServiceInv, NEW t \in tokens, NEW e \in {"casework", "tamper_test"}, Admitted(t, e)
  PROVE  /\ t.sub \in User /\ users[t.sub] # None
         /\ e = "casework" => "casework" \in Deeds(RoleOf[t.sub])
         /\ e = "tamper_test" => RoleOf[t.sub] = "auditor"
<1>1. t.sub \in User /\ users[t.sub] # None /\ t.role = RoleOf[t.sub]
  BY DEF ServiceInv, TokensInv
<1>2. t.role \in RequireRole(Endpoint[e])
  BY DEF Admitted
<1>3. CASE e = "casework"
  BY <1>1, <1>2, <1>3 DEF RequireRole, Endpoint, Deeds
<1>4. CASE e = "tamper_test"
  BY <1>1, <1>2, <1>4 DEF RequireRole, Endpoint
<1>5. QED
  BY <1>1, <1>3, <1>4

LEMMA ReportOfTest ==
  ASSUME ServiceInv, NEW p \in Api, job[p] # None, job[p].ok # None
  PROVE  LET d == [break |-> job[p].break, corrupted |-> job[p].corrupted,
                   rows |-> job[p].rows, ok |-> job[p].ok]
         IN Report(ledger, d, Len(ledger) + 1)
<1>1. Tested(job[p]) /\ Len(ledger) \in Nat
  BY SeqDomain DEF ServiceInv, JobInv, GoodChain
<1>2. PICK i \in 2 .. (job[p].rows - 1) : ledger[i].seq = job[p].corrupted
  BY <1>1 DEF Tested
<1>3. job[p].rows \in 1 .. Len(ledger) /\ (Len(ledger) + 1) - 1 = Len(ledger)
  BY <1>1, <1>2 DEF Tested
<1>4. QED
  BY <1>1, <1>2, <1>3 DEF Report, Tested

LEMMA RowsKept ==
  ASSUME ServiceInv, Next
  PROVE  /\ GoodChain(ledger') /\ UsersInv' /\ RowsFine(ledger', users')
         /\ Grows /\ UsersKept
<1> DEFINE Kept == /\ GoodChain(ledger') /\ UsersInv' /\ RowsFine(ledger', users')
                   /\ Grows /\ UsersKept
<1>1. CASE UNCHANGED <<users, ledger>>
  BY <1>1, NothingWritten
<1>2. ASSUME NEW p \in Api, Seed(p) PROVE Kept
  BY <1>2, SeedKept
<1>3. ASSUME NEW p \in Api, NEW t \in tokens, Write(p, t) PROVE Kept
  <2>1. Admitted(t, "casework") /\ AppendAudit(t.sub, "casework", None) /\ UNCHANGED users
    BY <1>3 DEF Write
  <2>2. t.sub \in User /\ users[t.sub] # None /\ "casework" \in Deeds(RoleOf[t.sub])
    BY <2>1, WriteIsAdmitted
  <2>3. QED
    BY <2>1, <2>2, AppendKept
<1>4. ASSUME NEW p \in Api, AppendReport(p) PROVE Kept
  <2> DEFINE d == [break |-> job[p].break, corrupted |-> job[p].corrupted,
                   rows |-> job[p].rows, ok |-> job[p].ok]
  <2>1. /\ job[p] # None /\ job[p].ok # None
        /\ AppendAudit(job[p].actor, "tamper_test.run", d) /\ UNCHANGED users
    BY <1>4 DEF AppendReport
  <2>2. /\ job[p].actor \in User /\ users[job[p].actor] # None
        /\ RoleOf[job[p].actor] = "auditor"
    BY <2>1 DEF ServiceInv, JobInv, Tested
  <2>3. "tamper_test.run" \in Deeds(RoleOf[job[p].actor])
    BY <2>2 DEF Deeds
  <2>4. Report(ledger, d, Len(ledger) + 1)
    BY <2>1, ReportOfTest
  <2> HIDE DEF d
  <2>5. QED
    BY <2>1, <2>2, <2>3, <2>4, AppendKept
<1>5. CASE /\ ~\E p \in Api : Seed(p) \/ AppendReport(p)
           /\ ~\E p \in Api, t \in tokens : Write(p, t)
  <2>1. UNCHANGED <<users, ledger>>
    BY <1>5 DEF Next, Start, MigrateStep, EndProcess, Login, Refresh, ScratchTest,
                ReverifyChain, AccessExpires, Redeploy, serveVars
  <2>2. QED
    BY <2>1, NothingWritten
<1>6. QED
  BY <1>2, <1>3, <1>4, <1>5

LEMMA TokensKept ==
  ASSUME ServiceInv, Next, UsersKept
  PROVE  TokensInv'
<1>0. TokensInv /\ \A u \in User : users[u] # None => users'[u] # None
  BY DEF ServiceInv, UsersKept
<1>1. ASSUME NEW p \in Api, NEW u \in User, Login(p, u) PROVE TokensInv'
  BY <1>0, <1>1 DEF Login, IssuePair, TokensInv
<1>2. ASSUME NEW p \in Api, NEW t \in tokens, Refresh(p, t) PROVE TokensInv'
  BY <1>0, <1>2 DEF Refresh, IssuePair, TokensInv
<1>3. CASE tokens' \subseteq tokens
  BY <1>0, <1>3 DEF TokensInv
<1>4. CASE /\ ~\E p \in Api, u \in User : Login(p, u)
           /\ ~\E p \in Api, t \in tokens : Refresh(p, t)
  <2>1. tokens' \subseteq tokens
    BY <1>4 DEF Next, Start, MigrateStep, Seed, EndProcess, Write, ScratchTest, ReverifyChain,
                AppendReport, AccessExpires, Redeploy, serveVars
  <2>2. QED
    BY <1>3, <2>1
<1>5. QED
  BY <1>1, <1>2, <1>4

(* The test that is in progress, started or carried on by this step.       *)
LEMMA ScratchIsTested ==
  ASSUME ServiceInv, NEW p \in Api, NEW t \in tokens, ScratchTest(p, t)
  PROVE  \E j : job' = [job EXCEPT ![p] = j] /\ Tested(j)
<1>1. /\ Admitted(t, "tamper_test") /\ Len(ledger) >= MIN_TAMPER_ROWS
      /\ GoodChain(ledger) /\ Len(ledger) \in Nat
  BY SeqDomain DEF ScratchTest, ServiceInv, GoodChain
<1>2. /\ BreakSeq(ledger) = {CorruptSeq(ledger)}
      /\ \E i \in 2 .. (Len(ledger) - 1) : ledger[i].seq = CorruptSeq(ledger)
  BY <1>1, BreakAtCorruption
<1> DEFINE j == [actor |-> t.sub, break |-> CorruptSeq(ledger), corrupted |-> CorruptSeq(ledger),
                 rows |-> Len(ledger), ok |-> None]
<1>3. job' = [job EXCEPT ![p] = j]
  BY <1>2 DEF ScratchTest
<1>4. t.sub \in User /\ users[t.sub] # None /\ RoleOf[t.sub] = "auditor"
  BY <1>1, WriteIsAdmitted
<1>5. Tested(j)
  BY <1>1, <1>2, <1>4 DEF Tested
<1>6. QED
  BY <1>3, <1>5

LEMMA ReverifiedIsTested ==
  ASSUME ServiceInv, NEW p \in Api, ReverifyChain(p)
  PROVE  \E j : job' = [job EXCEPT ![p] = j] /\ Tested(j)
<1> DEFINE j == [job[p] EXCEPT !.ok = VerifyChain(ledger)]
<1>1. VerifyChain(ledger) = TRUE
  BY GoodVerifies DEF ServiceInv, VerifyChain
<1>2. Tested(job[p])
  BY DEF ReverifyChain, ServiceInv, JobInv
<1>3. job' = [job EXCEPT ![p] = j]
  BY DEF ReverifyChain
<1>4. Tested(j)
  BY <1>1, <1>2 DEF Tested
<1>5. QED
  BY <1>3, <1>4

LEMMA JobKept ==
  ASSUME ServiceInv, Next, Grows, UsersKept, GoodChain(ledger')
  PROVE  JobInv'
<1>0. DOMAIN job = Api /\ \A q \in Api : job[q] # None => Tested(job[q])
  BY DEF ServiceInv, JobInv
<1>1. ASSUME NEW p \in Api, NEW j, job' = [job EXCEPT ![p] = j], j # None => Tested(j)
      PROVE  JobInv'
  <2>1. ASSUME NEW q \in Api, job'[q] # None PROVE Tested(job'[q])
    BY <1>0, <1>1, <2>1
  <2>2. ASSUME NEW q \in Api, NEW k, k = job'[q], k # None PROVE Tested(k)'
    BY <2>1, <2>2, TestedKept
  <2>3. QED
    BY <1>0, <1>1, <2>2 DEF JobInv
<1>2. CASE \E p \in Api, t \in tokens : ScratchTest(p, t)
  BY <1>1, <1>2, ScratchIsTested
<1>3. CASE \E p \in Api : ReverifyChain(p)
  BY <1>1, <1>3, ReverifiedIsTested
<1>4. CASE \E p \in Api : AppendReport(p) \/ EndProcess(p)
  BY <1>1, <1>4 DEF AppendReport, EndProcess
<1>5. CASE UNCHANGED job
  <2>1. ASSUME NEW q \in Api, NEW k, k = job'[q], k # None PROVE Tested(k)'
    BY <1>0, <1>5, <2>1, TestedKept
  <2>2. QED
    BY <1>0, <1>5, <2>1 DEF JobInv
<1>6. QED
  BY <1>2, <1>3, <1>4, <1>5
     DEF Next, Start, MigrateStep, Seed, Login, Refresh, Write, AccessExpires, Redeploy, serveVars

LEMMA EnvKept ==
  ASSUME ServiceInv, Next
  PROVE  EnvInv'
<1>0. EnvInv /\ MigrationTypeOK
  BY DEF ServiceInv, MigrationInv
<1>1. ASSUME NEW p \in Api, NEW s \in Settings, Start(p, s) PROVE EnvInv'
  BY <1>0, <1>1 DEF Start, Goto, EnvInv, MigrationTypeOK
<1>2. CASE UNCHANGED env /\ \A p \in Api : step'[p] # "down" => step[p] # "down"
  BY <1>0, <1>2 DEF EnvInv
<1>3. CASE ~\E p \in Api, s \in Settings : Start(p, s)
  <2>1. UNCHANGED env
    BY <1>3 DEF Next, MigrateStep, Seed, EndProcess, Login, Refresh, Write, ScratchTest,
                ReverifyChain, AppendReport, AccessExpires, Redeploy
  <2>2. ASSUME NEW p \in Api, Migrate(p) PROVE \A q \in Api : step'[q] # "down" => step[q] # "down"
    BY <1>0, <2>2 DEF Migrate, Lock, EnsureAppRole, EnsureBookkeeping, ReadRecorded, SkipApplied,
         RefuseChanged, Apply, Record, Unlock, Goto, MigrationTypeOK
  <2>3. ASSUME NEW p \in Api, Seed(p) \/ EndProcess(p)
        PROVE  \A q \in Api : step'[q] # "down" => step[q] # "down"
    BY <1>0, <2>3 DEF Seed, EndProcess, End, Goto, MigrationTypeOK
  <2>4. CASE UNCHANGED step
    BY <1>2, <2>1, <2>4
  <2>5. UNCHANGED step \/ \E p \in Api : Migrate(p) \/ Seed(p) \/ EndProcess(p)
    BY <1>3 DEF Next, MigrateStep, Login, Refresh, Write, ScratchTest, ReverifyChain, AppendReport,
                AccessExpires, Redeploy, Deploy, migrationVars, runnerVars
  <2>6. QED
    BY <1>2, <2>1, <2>2, <2>3, <2>4, <2>5
<1>4. QED
  BY <1>1, <1>3

LEMMA ReadyKept ==
  ASSUME ServiceInv, Next, UsersKept
  PROVE  ReadyInv'
<1>0. ReadyInv /\ MigrationTypeOK
  BY DEF ServiceInv, MigrationInv
<1>1. ASSUME NEW p \in Api, Seed(p) PROVE ReadyInv'
  BY <1>1, SeedKept DEF ReadyInv
<1>2. CASE ~\E p \in Api : Seed(p)
  <2>1. UNCHANGED users
    BY <1>2 DEF Next, Start, MigrateStep, EndProcess, Login, Refresh, Write, ScratchTest,
                ReverifyChain, AppendReport, AccessExpires, Redeploy, serveVars
  <2>2. ASSUME NEW q \in Api, step'[q] = "serving" PROVE step[q] = "serving"
    <3>1. ASSUME NEW p \in Api, NEW s \in Settings, Start(p, s) PROVE step[q] = "serving"
      BY <1>0, <2>2, <3>1 DEF Start, Goto, MigrationTypeOK
    <3>2. ASSUME NEW p \in Api, Migrate(p) PROVE step[q] = "serving"
      BY <1>0, <2>2, <3>2 DEF Migrate, Lock, EnsureAppRole, EnsureBookkeeping, ReadRecorded,
           SkipApplied, RefuseChanged, Apply, Record, Unlock, Goto, MigrationTypeOK
    <3>3. ASSUME NEW p \in Api, EndProcess(p) PROVE step[q] = "serving"
      BY <1>0, <2>2, <3>3 DEF EndProcess, End, MigrationTypeOK
    <3>4. CASE UNCHANGED step
      BY <2>2, <3>4
    <3>5. \/ UNCHANGED step
          \/ \E p \in Api : Migrate(p) \/ EndProcess(p) \/ \E s \in Settings : Start(p, s)
      BY <1>2 DEF Next, MigrateStep, Login, Refresh, Write, ScratchTest, ReverifyChain,
                  AppendReport, AccessExpires, Redeploy, Deploy, migrationVars, runnerVars
    <3>6. QED
      BY <3>1, <3>2, <3>3, <3>4, <3>5
  <2>3. QED
    BY <1>0, <2>1, <2>2 DEF ReadyInv, Serving
<1>3. QED
  BY <1>1, <1>2

-----------------------------------------------------------------------------
LEMMA ServiceNextInv == ServiceInv /\ [Next]_vars => ServiceInv'
<1>1. ASSUME ServiceInv, Next PROVE ServiceInv'
  <2>1. MigrationInv' /\ SchemaInv'
    <3>1. [MigrationNext]_migrationVars
      BY <1>1, ServiceMigrates
    <3>2. MigrationInv /\ SchemaInv
      BY <1>1 DEF ServiceInv
    <3>3. CASE UNCHANGED migrationVars
      BY <3>2, <3>3, MigrationStep DEF SchemaInv, migrationVars, databaseVars, runnerVars
    <3>4. QED
      BY <3>1, <3>2, <3>3, MigrationStep, SchemaKept
  <2>2. /\ GoodChain(ledger') /\ UsersInv' /\ RowsFine(ledger', users')
        /\ Grows /\ UsersKept
    BY <1>1, RowsKept
  <2>3. TokensInv' /\ JobInv' /\ EnvInv' /\ ReadyInv'
    BY <1>1, <2>2, TokensKept, JobKept, EnvKept, ReadyKept
  <2>4. QED
    BY <2>1, <2>2, <2>3, RowsFineIs DEF ServiceInv
<1>2. ASSUME ServiceInv, UNCHANGED vars PROVE ServiceInv'
  <2>1. MigrationInv' /\ SchemaInv'
    BY <1>2, MigrationStep DEF ServiceInv, SchemaInv, vars, migrationVars, databaseVars, runnerVars
  <2>2. GoodChain(ledger') /\ UsersInv' /\ RowsFine(ledger', users')
    BY <1>2, NothingWritten DEF vars, serveVars
  <2>3. TokensInv' /\ JobInv' /\ EnvInv' /\ ReadyInv'
    BY <1>2 DEF ServiceInv, TokensInv, JobInv, Tested, EnvInv, ReadyInv, Serving, vars, serveVars,
                migrationVars, runnerVars
  <2>4. QED
    BY <2>1, <2>2, <2>3, RowsFineIs DEF ServiceInv
<1>3. QED
  BY <1>1, <1>2

(* The conjunction of the runner's, the chain's and the sessions' parts is *)
(* kept by every step of the starts and of the requests (main.py lifespan, *)
(* migrate.py, routers/audit.py, deps.py).                                 *)
THEOREM ServiceIsInductive == Spec => []ServiceInv
BY ServiceInitInv, ServiceNextInv, PTL DEF Spec

(* A migration file's body takes effect once and is recorded as it took    *)
(* effect, in every behaviour of the service (migrate.py 90-124).          *)
THEOREM MigrationsAppliedOnce == Spec => []MigratedOnce
<1>1. ServiceInv => MigratedOnce
  BY DEF ServiceInv, MigrationInv
<1>2. QED
  BY <1>1, ServiceIsInductive, PTL

(* No process serves a part of the schema, an unseeded or placeholder      *)
(* login, or a chain too short for the tamper test (main.py 77-156).       *)
THEOREM ServesOnlyWhenReady == Spec => []ServesReady
<1>1. ASSUME ServiceInv PROVE ServesReady
  <2> SUFFICES ASSUME NEW p \in Api, Serving(p)
               PROVE  /\ base = {"role", "bookkeeping"}
                      /\ \A f \in File : Shipped[f] # None => recorded[f] # None
                      /\ \A u \in User : users[u] \notin Placeholder \cup {None}
                      /\ Len(ledger) >= MIN_TAMPER_ROWS
    BY DEF ServesReady
  <2>1. base = {"role", "bookkeeping"} /\ \A f \in File : Shipped[f] # None => recorded[f] # None
    BY <1>1 DEF ServiceInv, MigrationInv, MigrationTypeOK, SchemaInv, Serving
  <2>2. \A u \in User : users[u] \notin Placeholder \cup {None}
    BY <1>1 DEF ServiceInv, ReadyInv
  <2>3. User # {}
    <3>1. Wanted \in Seq(User) /\ Len(Wanted) = 3
      BY ServiceAssumption
    <3>2. DOMAIN Wanted = 1 .. 3
      BY <3>1
    <3>3. Wanted[1] \in User
      BY <3>2 DEF User
    <3>4. QED
      BY <3>3
  <2>4. Len(ledger) >= MIN_TAMPER_ROWS
    BY <1>1, <2>2, <2>3 DEF ServiceInv, UsersInv
  <2>5. QED
    BY <2>1, <2>2, <2>4
<1>2. QED
  BY <1>1, ServiceIsInductive, PTL

(* Every tamper report is of a break in the middle of a chain that itself  *)
(* verifies, whatever was appended during the test (audit.py 184-248).     *)
THEOREM ReportsBreakMidChain == Spec => []TamperBreaksMidChain
<1>1. ServiceInv => TamperBreaksMidChain
  BY DEF ServiceInv
<1>2. QED
  BY <1>1, ServiceIsInductive, PTL

(* Every row of the chain is the system's or the deed of a seeded user in  *)
(* a role that may do it, through logins, refreshes and expiries.          *)
THEOREM EveryRowAuthorised == Spec => []RowsAuthorised
<1>1. ServiceInv => RowsAuthorised
  BY DEF ServiceInv
<1>2. QED
  BY <1>1, ServiceIsInductive, PTL
=============================================================================
