-------------------------- MODULE AuditChain_proofs --------------------------
(***************************************************************************)
(* Proofs about AuditChain, for any number of api processes, handlers,     *)
(* seeded users and requests.                                              *)
(***************************************************************************)
EXTENDS AuditChainRefinement, DataTheorems

-----------------------------------------------------------------------------
(* Facts about sets of rows.                                               *)

Ordered(S) == /\ \A r \in S : r.seq \in Nat
              /\ \A r, s \in S : r.seq = s.seq => r = s

(* ORDER BY seq DESC LIMIT 1 returns the one row with the highest seq. *)
LEMMA HeadIsMax ==
  ASSUME NEW S, Ordered(S), NEW r \in S, IsHead(S, r)
  PROVE  Head0(S) = r
<1>1. \E x \in S : IsHead(S, x)
  OBVIOUS
<1>2. Head0(S) \in S /\ IsHead(S, Head0(S))
  BY <1>1 DEF Head0
<1>3. Head0(S).seq <= r.seq /\ r.seq <= Head0(S).seq
  BY <1>2 DEF IsHead
<1>4. QED
  BY <1>2, <1>3 DEF Ordered

(* Linking a row to the highest row below it is what the walk of           *)
(* verify_audit_chain expects.                                             *)
LEMMA LinkedPrev ==
  ASSUME NEW S, Ordered(S), NEW r \in S, Linked(S, r)
  PROVE  r.prev = HashOfHead(Before(S, r))
<1>1. CASE Before(S, r) = {}
  BY <1>1 DEF Linked, HashOfHead
<1>2. CASE Before(S, r) # {}
  <2>1. PICK s \in Before(S, r) : IsHead(Before(S, r), s) /\ s.hash = r.prev
    BY <1>2 DEF Linked
  <2>2. Ordered(Before(S, r))
    BY DEF Ordered, Before
  <2>3. Head0(Before(S, r)) = s
    BY <2>1, <2>2, HeadIsMax
  <2>4. QED
    BY <1>2, <2>1, <2>3 DEF HashOfHead
<1>3. QED
  BY <1>1, <1>2

(* Putting a row on top of a set of rows: it sees all of them below it and *)
(* moves none of them.                                                     *)
LEMMA AddOnTop ==
  ASSUME NEW S, NEW r, \A s \in S : s.seq \in Nat, r.seq \in Nat,
         \A s \in S : s.seq < r.seq
  PROVE  /\ Before(S \cup {r}, r) = S
         /\ \A s \in S : Before(S \cup {r}, s) = Before(S, s)
         /\ IsHead(S \cup {r}, r)
<1>1. ~(r.seq < r.seq)
  OBVIOUS
<1>2. Before(S \cup {r}, r) = S
  BY <1>1 DEF Before
<1>3. ASSUME NEW s \in S PROVE Before(S \cup {r}, s) = Before(S, s)
  <2>1. ~(r.seq < s.seq)
    OBVIOUS
  <2>2. QED
    BY <2>1 DEF Before
<1>4. IsHead(S \cup {r}, r)
  BY DEF IsHead
<1>5. QED
  BY <1>2, <1>3, <1>4

(* Digest is collision free: a digest determines its preimage and is not   *)
(* the genesis constant.                                                   *)
LEMMA DigestInjective ==
  ASSUME NEW p, NEW b, NEW q, NEW c
  PROVE  /\ Digest(p, b) = Digest(q, c) => p = q /\ b = c
         /\ Digest(p, b) # Genesis
BY DEF Digest, Genesis

LEMMA RowFields ==
  ASSUME NEW n, NEW b, NEW p
  PROVE  /\ Row(n, b, p).seq = n
         /\ Row(n, b, p).body = b
         /\ Row(n, b, p).prev = p
         /\ Row(n, b, p).hash = Digest(p, b)
BY DEF Row

LEMMA RowOK ==
  ASSUME NEW r, IsRow(r)
  PROVE  /\ r.seq \in Nat
         /\ r.body \in Body
         /\ r.hash = Digest(r.prev, r.body)
BY DEF IsRow, Row

LEMMA BodyDistinct ==
  ASSUME NEW u, NEW v, NEW x
  PROVE  /\ Seeded(u) # Appended(x)
         /\ Seeded(u) = Seeded(v) => u = v
BY DEF Seeded, Appended

-----------------------------------------------------------------------------
(* Consequences of the invariant for the rows.                             *)

LEMMA RowsOK ==
  ASSUME TypeOK
  PROVE  \A r \in AllRows : IsRow(r) /\ r.seq \in Nat /\ r.body \in Body
BY RowOK DEF TypeOK, AllRows

LEMMA RowsOrdered ==
  ASSUME TypeOK, OrderInv
  PROVE  Ordered(AllRows) /\ Ordered(auditLog)
BY RowsOK DEF OrderInv, Ordered, AllRows

(* While p holds the lock, only p has uncommitted rows. *)
LEMMA OnlyHolder ==
  ASSUME LockInv, NEW p \in Proc, lockHolder = p
  PROVE  AllRows = auditLog \cup pending[p]
BY DEF LockInv, AllRows

(* Without pending rows of p there is nothing but the committed rows,      *)
(* should p hold the lock.                                                 *)
LEMMA NoneInProc == None \notin Proc
BY ProcAssumption

LEMMA Disjoint == \A a \in Api : a \notin Handler /\ a \in Proc
BY ProcAssumption DEF Proc

LEMMA Disjoint2 == \A h \in Handler : h \notin Api /\ h \in Proc /\ HomeOf[h] \in Api
BY ProcAssumption DEF Proc

LEMMA SeededInjective == \A u, v : Seeded(u) = Seeded(v) => u = v
BY DEF Seeded

LEMMA SeedIndex == \A i \in DOMAIN SeedOrder : i \in Nat
BY SeedAssumption

-----------------------------------------------------------------------------
LEMMA InitInv == Init => IInv
<1> SUFFICES ASSUME Init PROVE IInv
  OBVIOUS
<1> USE DEF Init
<1>1. AllRows = {}
  BY DEF AllRows
<1>2. TypeOK
  BY DEF TypeOK, InTrigger
<1>3. LockInv
  BY Disjoint, Disjoint2 DEF LockInv, Inserting, InTrigger
<1>4. OrderInv
  BY <1>1 DEF OrderInv
<1>5. LinkInv
  BY <1>1 DEF LinkInv, HasHead
<1>6. SeedInv
  BY Disjoint, Disjoint2 DEF SeedInv, AppendInv, NewUsersInv, SeedRowsInv, SeedDistinctInv, Inserting
<1>7. SeededOnce
  BY DEF SeededOnce
<1>8. AnnounceInv /\ AnnouncedIsCommitted
  BY Disjoint2 DEF AnnounceInv, AnnouncedIsCommitted
<1>9. QED
  BY <1>2, <1>3, <1>4, <1>5, <1>6, <1>7, <1>8 DEF IInv

LEMMA LockChainInv ==
  ASSUME IInv, NEW p \in Proc, LockChain(p)
  PROVE  IInv'
<1> USE DEF IInv, LockChain, dbVars, txVars, apiVars
<1>1. auditLog' = auditLog /\ pending' = pending /\ AllRows' = AllRows
  BY DEF AllRows
<1>2. TypeOK'
  BY Disjoint, Disjoint2 DEF TypeOK, InTrigger, Body, User
<1>3. LockInv'
  BY Disjoint, Disjoint2, NoneInProc DEF LockInv, TypeOK, Inserting, InTrigger, Body, User
<1>4. OrderInv'
  BY <1>1, RowsOK DEF OrderInv, TypeOK, InTrigger
<1>5. LinkInv'
  BY <1>1 DEF LinkInv
<1>6. SeedInv'
  BY Disjoint, Disjoint2 DEF SeedInv, AppendInv, NewUsersInv, SeedRowsInv, SeedDistinctInv, TypeOK, LockInv, Inserting
<1>7. SeededOnce'
  BY <1>1 DEF SeededOnce
<1>8. AnnounceInv' /\ AnnouncedIsCommitted'
  BY Disjoint, Disjoint2 DEF AnnounceInv, AnnouncedIsCommitted, TypeOK
<1>9. QED
  BY <1>2, <1>3, <1>4, <1>5, <1>6, <1>7, <1>8

LEMMA DrawSeqInv ==
  ASSUME IInv, NEW p \in Proc, DrawSeq(p)
  PROVE  IInv'
<1> USE DEF IInv, DrawSeq, dbVars, txVars, apiVars
<1>1. auditLog' = auditLog /\ pending' = pending /\ AllRows' = AllRows
  BY DEF AllRows
<1>2. TypeOK'
  BY Disjoint, Disjoint2 DEF TypeOK, InTrigger, Body, User
<1>3. LockInv'
  BY Disjoint, Disjoint2, NoneInProc DEF LockInv, TypeOK, Inserting, InTrigger, Body, User
<1>4. OrderInv'
  <2>1. \A q \in Proc : pc'[q] = "head" => q = p
    BY DEF LockInv, Inserting, InTrigger, TypeOK
  <2>2. \A r \in AllRows : r.seq \in Nat /\ r.seq <= seqValue
    BY RowsOK DEF OrderInv
  <2>3. seqValue' = seqValue + 1 /\ drawn'[p] = seqValue + 1 /\ seqValue \in Nat
    BY DEF TypeOK
  <2>4. QED
    BY <1>1, <2>1, <2>2, <2>3 DEF OrderInv
<1>5. LinkInv'
  BY <1>1 DEF LinkInv
<1>6. SeedInv'
  BY Disjoint, Disjoint2 DEF SeedInv, AppendInv, NewUsersInv, SeedRowsInv, SeedDistinctInv, TypeOK, LockInv, Inserting
<1>7. SeededOnce'
  BY <1>1 DEF SeededOnce
<1>8. AnnounceInv' /\ AnnouncedIsCommitted'
  BY Disjoint, Disjoint2 DEF AnnounceInv, AnnouncedIsCommitted, TypeOK
<1>9. QED
  BY <1>2, <1>3, <1>4, <1>5, <1>6, <1>7, <1>8

LEMMA StartApiInv ==
  ASSUME IInv, NEW a \in Api, StartApi(a)
  PROVE  IInv'
<1> USE DEF IInv, StartApi, Spend, dbVars, txVars, apiVars
<1>1. auditLog' = auditLog /\ pending' = pending /\ AllRows' = AllRows
  BY DEF AllRows
<1>2. TypeOK'
  BY Disjoint, Disjoint2 DEF TypeOK, InTrigger, Body, User
<1>3. LockInv'
  BY Disjoint, Disjoint2, NoneInProc DEF LockInv, TypeOK, Inserting, InTrigger, Body, User
<1>4. OrderInv'
  BY <1>1, RowsOK DEF OrderInv, TypeOK, InTrigger
<1>5. LinkInv'
  BY <1>1 DEF LinkInv
<1>6. SeedInv'
  BY Disjoint, Disjoint2 DEF SeedInv, AppendInv, NewUsersInv, SeedRowsInv, SeedDistinctInv, TypeOK, LockInv, Inserting
<1>7. SeededOnce'
  BY <1>1 DEF SeededOnce
<1>8. AnnounceInv' /\ AnnouncedIsCommitted'
  BY Disjoint, Disjoint2 DEF AnnounceInv, AnnouncedIsCommitted, TypeOK
<1>9. QED
  BY <1>2, <1>3, <1>4, <1>5, <1>6, <1>7, <1>8

LEMMA SkipUserInv ==
  ASSUME IInv, NEW a \in Api, SkipUser(a)
  PROVE  IInv'
<1> USE DEF IInv, SkipUser, CanInsertUser, dbVars, txVars, apiVars
<1>1. auditLog' = auditLog /\ pending' = pending /\ AllRows' = AllRows
  BY DEF AllRows
<1>2. TypeOK'
  BY Disjoint, Disjoint2 DEF TypeOK, InTrigger, Body, User
<1>3. LockInv'
  BY Disjoint, Disjoint2, NoneInProc DEF LockInv, TypeOK, Inserting, InTrigger, Body, User
<1>4. OrderInv'
  BY <1>1, RowsOK DEF OrderInv, TypeOK, InTrigger
<1>5. LinkInv'
  BY <1>1 DEF LinkInv
<1>6. SeedInv'
  <2>1. \A b \in Api : nextUser[b] \in Nat /\ nextUser'[b] \in {nextUser[b], nextUser[b] + 1}
    BY DEF TypeOK
  <2>2. QED
    BY <2>1, SeedIndex DEF SeedInv, AppendInv, NewUsersInv, SeedRowsInv, SeedDistinctInv, Inserting
<1>7. SeededOnce'
  BY <1>1 DEF SeededOnce
<1>8. AnnounceInv' /\ AnnouncedIsCommitted'
  BY Disjoint, Disjoint2 DEF AnnounceInv, AnnouncedIsCommitted, TypeOK
<1>9. QED
  BY <1>2, <1>3, <1>4, <1>5, <1>6, <1>7, <1>8

LEMMA SeedUserInv ==
  ASSUME IInv, NEW a \in Api, SeedUser(a)
  PROVE  IInv'
<1> USE DEF IInv, SeedUser, CanInsertUser, dbVars, txVars, apiVars
<1>1. auditLog' = auditLog /\ pending' = pending /\ AllRows' = AllRows
  BY DEF AllRows
<1>2. TypeOK'
  BY Disjoint, Disjoint2 DEF TypeOK, InTrigger, Body, User
<1>3. LockInv'
  BY Disjoint, Disjoint2, NoneInProc DEF LockInv, TypeOK, Inserting, InTrigger, Body, User
<1>4. OrderInv'
  BY <1>1, RowsOK DEF OrderInv, TypeOK, InTrigger
<1>5. LinkInv'
  BY <1>1 DEF LinkInv
<1>6. SeedInv'
  <2>1. PICK u \in User \ users :
          /\ CanInsertUser(a, u)
          /\ newUsers' = [newUsers EXCEPT ![a] = @ \cup {u}]
          /\ body' = [body EXCEPT ![a] = Seeded(u)]
          /\ pc' = [pc EXCEPT ![a] = "lock"]
    BY DEF SeedUser
  <2>2. u \notin newUsers[a]
    BY <2>1, SeedAssumption, SeedIndex DEF SeedInv, AppendInv, NewUsersInv, SeedRowsInv, SeedDistinctInv, TypeOK
  <2>3. /\ newUsers'[a] = newUsers[a] \cup {u} /\ body'[a] = Seeded(u) /\ pc'[a] = "lock"
        /\ \A p \in Proc \ {a} : newUsers'[p] = newUsers[p] /\ body'[p] = body[p] /\ pc'[p] = pc[p]
        /\ nextUser'[a] = nextUser[a] + 1
        /\ \A b \in Api \ {a} : nextUser'[b] = nextUser[b]
        /\ users' = users /\ pending' = pending
    BY <2>1, Disjoint DEF TypeOK
  <2>4. pc[a] = "users" /\ nextUser[a] \in DOMAIN SeedOrder /\ u = SeedOrder[nextUser[a]]
        /\ \A q \in Proc \ {a} : u \notin newUsers[q]
    BY <2>1
  <2>5. AppendInv'
    BY <2>3, Disjoint, Disjoint2 DEF SeedInv, AppendInv, Inserting
  <2>6. NewUsersInv'
    <3>1. /\ \A p, q \in Proc : p # q => newUsers'[p] \cap newUsers'[q] = {}
          /\ \A p \in Proc : newUsers'[p] \cap users' = {}
      BY <2>1, <2>3, <2>4, Disjoint DEF SeedInv, NewUsersInv
    <3>2. \A b \in Api : \A v \in newUsers'[b] :
            \E i \in DOMAIN SeedOrder : i < nextUser'[b] /\ v = SeedOrder[i]
      BY <2>3, <2>4, SeedIndex, Disjoint DEF SeedInv, NewUsersInv, TypeOK
    <3>3. QED
      BY <3>1, <3>2 DEF NewUsersInv
  <2>7. SeedRowsInv'
    BY <2>3, <2>4, Disjoint DEF SeedInv, SeedRowsInv, Inserting
  <2>8. SeedDistinctInv'
    <3>1. \A r \in pending[a] : r.body # Seeded(u)
      BY <2>2, SeededInjective DEF SeedInv, SeedRowsInv
    <3>2. QED
      BY <2>3, <2>4, <3>1, Disjoint DEF SeedInv, SeedDistinctInv, Inserting
  <2>9. QED
    BY <2>5, <2>6, <2>7, <2>8 DEF SeedInv
<1>7. SeededOnce'
  BY <1>1 DEF SeededOnce
<1>8. AnnounceInv' /\ AnnouncedIsCommitted'
  BY Disjoint, Disjoint2 DEF AnnounceInv, AnnouncedIsCommitted, TypeOK
<1>9. QED
  BY <1>2, <1>3, <1>4, <1>5, <1>6, <1>7, <1>8

LEMMA PrimeMetricInv ==
  ASSUME IInv, NEW a \in Api, PrimeMetric(a)
  PROVE  IInv'
<1> USE DEF IInv, PrimeMetric, dbVars, txVars, apiVars
<1>1. auditLog' = auditLog /\ pending' = pending /\ AllRows' = AllRows
  BY DEF AllRows
<1>2. TypeOK'
  BY Disjoint, Disjoint2 DEF TypeOK, InTrigger, Body, User
<1>3. LockInv'
  BY Disjoint, Disjoint2, NoneInProc DEF LockInv, TypeOK, Inserting, InTrigger, Body, User
<1>4. OrderInv'
  BY <1>1, RowsOK DEF OrderInv, TypeOK, InTrigger
<1>5. LinkInv'
  BY <1>1 DEF LinkInv
<1>6. SeedInv'
  BY Disjoint, Disjoint2 DEF SeedInv, AppendInv, NewUsersInv, SeedRowsInv, SeedDistinctInv, TypeOK, LockInv, Inserting
<1>7. SeededOnce'
  BY <1>1 DEF SeededOnce
<1>8. AnnounceInv' /\ AnnouncedIsCommitted'
  <2>1. auditLog # {} => Head0(auditLog) \in auditLog
    BY DEF LinkInv, HasHead, Head0, IsHead
  <2>2. QED
    BY <2>1, Disjoint, Disjoint2 DEF AnnounceInv, AnnouncedIsCommitted, TypeOK
<1>9. QED
  BY <1>2, <1>3, <1>4, <1>5, <1>6, <1>7, <1>8

LEMMA PrimeFailsInv ==
  ASSUME IInv, NEW a \in Api, PrimeFails(a)
  PROVE  IInv'
<1> USE DEF IInv, PrimeFails, Spend, dbVars, txVars, apiVars
<1>1. auditLog' = auditLog /\ pending' = pending /\ AllRows' = AllRows
  BY DEF AllRows
<1>2. TypeOK'
  BY Disjoint, Disjoint2 DEF TypeOK, InTrigger, Body, User
<1>3. LockInv'
  BY Disjoint, Disjoint2, NoneInProc DEF LockInv, TypeOK, Inserting, InTrigger, Body, User
<1>4. OrderInv'
  BY <1>1, RowsOK DEF OrderInv, TypeOK, InTrigger
<1>5. LinkInv'
  BY <1>1 DEF LinkInv
<1>6. SeedInv'
  BY Disjoint, Disjoint2 DEF SeedInv, AppendInv, NewUsersInv, SeedRowsInv, SeedDistinctInv, TypeOK, LockInv, Inserting
<1>7. SeededOnce'
  BY <1>1 DEF SeededOnce
<1>8. AnnounceInv' /\ AnnouncedIsCommitted'
  BY Disjoint, Disjoint2 DEF AnnounceInv, AnnouncedIsCommitted, TypeOK
<1>9. QED
  BY <1>2, <1>3, <1>4, <1>5, <1>6, <1>7, <1>8

LEMMA BeginAppendInv ==
  ASSUME IInv, NEW h \in Handler, BeginAppend(h)
  PROVE  IInv'
<1> USE DEF IInv, BeginAppend, Spend, dbVars, txVars, apiVars
<1>1. auditLog' = auditLog /\ pending' = pending /\ AllRows' = AllRows
  BY DEF AllRows
<1>2. /\ pc' = [pc EXCEPT ![h] = "lock"]
      /\ body' \in [Proc -> Body \cup {None}]
      /\ body'[h] \in Request
      /\ \A p \in Proc \ {h} : body'[p] = body[p]
  <2>1. PICK x \in Payload : body' = [body EXCEPT ![h] = Appended(x)]
    OBVIOUS
  <2>2. Appended(x) \in Request /\ Appended(x) \in Body
    BY DEF Request, Body
  <2>3. QED
    BY <2>1, <2>2, Disjoint2 DEF TypeOK
<1>3. /\ pc'[h] = "lock"
      /\ \A p \in Proc \ {h} : pc'[p] = pc[p]
  BY <1>2, Disjoint2 DEF TypeOK
<1>4. TypeOK'
  BY <1>1, <1>2 DEF TypeOK, InTrigger
<1>5. LockInv'
  BY <1>1, <1>2, <1>3, Disjoint, Disjoint2 DEF LockInv, Inserting, InTrigger, Body
<1>6. OrderInv'
  BY <1>1, <1>3 DEF OrderInv
<1>7. LinkInv'
  BY <1>1 DEF LinkInv
<1>8. SeedInv'
  BY <1>1, <1>2, <1>3, Disjoint, Disjoint2 DEF SeedInv, AppendInv, NewUsersInv, SeedRowsInv, SeedDistinctInv, Inserting
<1>9. SeededOnce' /\ AnnounceInv' /\ AnnouncedIsCommitted'
  BY <1>1, <1>3, Disjoint2 DEF SeededOnce, AnnounceInv, AnnouncedIsCommitted
<1>10. QED
  BY <1>4, <1>5, <1>6, <1>7, <1>8, <1>9

LEMMA RunHooksInv ==
  ASSUME IInv, NEW h \in Handler, RunHooks(h)
  PROVE  IInv'
<1> USE DEF IInv, RunHooks, Answer, dbVars, txVars, apiVars
<1>1. auditLog' = auditLog /\ pending' = pending /\ AllRows' = AllRows
  BY DEF AllRows
<1>2. TypeOK'
  BY Disjoint, Disjoint2 DEF TypeOK, InTrigger, Body, User
<1>3. LockInv'
  BY Disjoint, Disjoint2, NoneInProc DEF LockInv, TypeOK, Inserting, InTrigger, Body, User
<1>4. OrderInv'
  BY <1>1, RowsOK DEF OrderInv, TypeOK, InTrigger
<1>5. LinkInv'
  BY <1>1 DEF LinkInv
<1>6. SeedInv'
  BY Disjoint, Disjoint2 DEF SeedInv, AppendInv, NewUsersInv, SeedRowsInv, SeedDistinctInv, TypeOK, LockInv, Inserting
<1>7. SeededOnce'
  BY <1>1 DEF SeededOnce
<1>8. AnnounceInv' /\ AnnouncedIsCommitted'
  BY Disjoint, Disjoint2 DEF AnnounceInv, AnnouncedIsCommitted, TypeOK
<1>9. QED
  BY <1>2, <1>3, <1>4, <1>5, <1>6, <1>7, <1>8

LEMMA HookFailsInv ==
  ASSUME IInv, NEW h \in Handler, HookFails(h)
  PROVE  IInv'
<1> USE DEF IInv, HookFails, Answer, Spend, dbVars, txVars, apiVars
<1>1. auditLog' = auditLog /\ pending' = pending /\ AllRows' = AllRows
  BY DEF AllRows
<1>2. TypeOK'
  BY Disjoint, Disjoint2 DEF TypeOK, InTrigger, Body, User
<1>3. LockInv'
  BY Disjoint, Disjoint2, NoneInProc DEF LockInv, TypeOK, Inserting, InTrigger, Body, User
<1>4. OrderInv'
  BY <1>1, RowsOK DEF OrderInv, TypeOK, InTrigger
<1>5. LinkInv'
  BY <1>1 DEF LinkInv
<1>6. SeedInv'
  BY Disjoint, Disjoint2 DEF SeedInv, AppendInv, NewUsersInv, SeedRowsInv, SeedDistinctInv, TypeOK, LockInv, Inserting
<1>7. SeededOnce'
  BY <1>1 DEF SeededOnce
<1>8. AnnounceInv' /\ AnnouncedIsCommitted'
  BY Disjoint, Disjoint2 DEF AnnounceInv, AnnouncedIsCommitted, TypeOK
<1>9. QED
  BY <1>2, <1>3, <1>4, <1>5, <1>6, <1>7, <1>8

LEMMA LoseReplyInv ==
  ASSUME IInv, NEW h \in Handler, LoseReply(h)
  PROVE  IInv'
<1> USE DEF IInv, LoseReply, Spend, dbVars, txVars, apiVars
<1>1. auditLog' = auditLog /\ pending' = pending /\ AllRows' = AllRows
  BY DEF AllRows
<1>2. TypeOK'
  BY Disjoint, Disjoint2 DEF TypeOK, InTrigger, Body, User
<1>3. LockInv'
  BY Disjoint, Disjoint2, NoneInProc DEF LockInv, TypeOK, Inserting, InTrigger, Body, User
<1>4. OrderInv'
  BY <1>1, RowsOK DEF OrderInv, TypeOK, InTrigger
<1>5. LinkInv'
  BY <1>1 DEF LinkInv
<1>6. SeedInv'
  BY Disjoint, Disjoint2 DEF SeedInv, AppendInv, NewUsersInv, SeedRowsInv, SeedDistinctInv, TypeOK, LockInv, Inserting
<1>7. SeededOnce'
  BY <1>1 DEF SeededOnce
<1>8. AnnounceInv' /\ AnnouncedIsCommitted'
  BY Disjoint, Disjoint2 DEF AnnounceInv, AnnouncedIsCommitted, TypeOK
<1>9. QED
  BY <1>2, <1>3, <1>4, <1>5, <1>6, <1>7, <1>8

-----------------------------------------------------------------------------
(* The insertion: one row on top of everything, linked to the head. *)
LEMMA InsertRowInv ==
  ASSUME IInv, NEW p \in Proc, InsertRow(p)
  PROVE  IInv'
<1> DEFINE row == Row(drawn[p], body[p], HashOfHead(auditLog \cup pending[p]))
<1> USE DEF IInv, dbVars, txVars, apiVars
<1>1. /\ pc[p] = "head"
      /\ pending' = [pending EXCEPT ![p] = @ \cup {row}]
      /\ pc' = [pc EXCEPT ![p] = IF p \in Api THEN "users" ELSE "commit"]
      /\ UNCHANGED <<dbVars, body, drawn, newUsers, nextUser, apiVars, spent>>
  BY DEF InsertRow
<1>2. /\ lockHolder = p
      /\ AllRows = auditLog \cup pending[p]
      /\ body[p] \in Body
      /\ drawn[p] \in Nat
  BY <1>1, OnlyHolder DEF LockInv, Inserting, InTrigger, TypeOK
<1>3. /\ row.seq = drawn[p] /\ row.body = body[p]
      /\ row.prev = HashOfHead(AllRows)
      /\ row.hash = Digest(HashOfHead(AllRows), body[p])
      /\ IsRow(row)
  BY <1>2, RowFields DEF IsRow
<1> HIDE DEF row
<1>4. /\ pending'[p] = pending[p] \cup {row}
      /\ \A q \in Proc \ {p} : pending'[q] = pending[q]
  BY <1>1 DEF TypeOK
<1>5. AllRows' = AllRows \cup {row}
  BY <1>1, <1>4 DEF AllRows
<1>6. \A r \in AllRows : r.seq \in Nat /\ r.seq < row.seq
  BY <1>1, <1>2, <1>3, RowsOK DEF OrderInv
<1>7. /\ Before(AllRows \cup {row}, row) = AllRows
      /\ \A s \in AllRows : Before(AllRows \cup {row}, s) = Before(AllRows, s)
      /\ IsHead(AllRows \cup {row}, row)
  <2>1. row.seq \in Nat
    BY <1>2, <1>3
  <2>2. (\A s \in AllRows : s.seq \in Nat) /\ (\A s \in AllRows : s.seq < row.seq)
    BY <1>6
  <2>3. QED
    BY <2>1, <2>2, AddOnTop
<1>10. TypeOK'
  BY <1>1, <1>3, <1>4 DEF TypeOK, InTrigger
<1>11. LockInv'
  <2>1. \A q \in Proc : pc'[q] = IF q = p THEN (IF p \in Api THEN "users" ELSE "commit") ELSE pc[q]
    BY <1>1 DEF TypeOK
  <2>2. p \in Handler => pending[p] = {}
    BY <1>1 DEF LockInv
  <2>3. QED
    BY <1>1, <1>2, <1>4, <2>1, <2>2, Disjoint, Disjoint2 DEF LockInv, Inserting, InTrigger, Proc
<1>12. OrderInv'
  <2>1. \A r \in AllRows' : r.seq <= seqValue'
    BY <1>1, <1>3, <1>5 DEF OrderInv, TypeOK
  <2>2. \A r, s \in AllRows' : r.seq = s.seq => r = s
    BY <1>3, <1>5, <1>6, <1>2 DEF OrderInv
  <2>3. \A q \in Proc : \A r \in pending'[q], s \in auditLog' : s.seq < r.seq
    BY <1>1, <1>2, <1>4, <1>6 DEF OrderInv
  <2>4. \A q \in Proc : pc'[q] # "head"
    BY <1>1, <1>2, Disjoint2 DEF LockInv, TypeOK, Inserting, InTrigger
  <2>5. QED
    BY <2>1, <2>2, <2>3, <2>4 DEF OrderInv
<1>13. LinkInv'
  <2>1. HasHead(auditLog') /\ HasHead(AllRows')
    BY <1>1, <1>5, <1>7 DEF LinkInv, HasHead
  <2>2. \A r \in AllRows : Linked(AllRows \cup {row}, r)
    BY <1>7 DEF LinkInv, Linked
  <2>3. Linked(AllRows \cup {row}, row)
    <3>1. CASE AllRows = {}
      BY <3>1, <1>3, <1>7 DEF Linked, HashOfHead
    <3>2. CASE AllRows # {}
      <4>1. IsHead(AllRows, Head0(AllRows))
        BY <3>2 DEF LinkInv, HasHead, Head0
      <4>2. Head0(AllRows) \in AllRows /\ row.prev = Head0(AllRows).hash
        BY <3>2, <4>1, <1>3 DEF HashOfHead, IsHead
      <4>3. QED
        BY <3>2, <4>1, <4>2, <1>7 DEF Linked
    <3>3. QED
      BY <3>1, <3>2
  <2>4. ASSUME NEW r \in AllRows, r.hash = row.hash PROVE FALSE
    <3>1. r.prev = HashOfHead(AllRows)
      BY <2>4, <1>3, RowsOK, RowOK, DigestInjective
    <3>2. r.prev = HashOfHead(Before(AllRows, r))
      BY RowsOrdered, LinkedPrev DEF LinkInv
    <3>3. IsHead(AllRows, Head0(AllRows)) /\ Head0(AllRows) \in AllRows
      BY DEF LinkInv, HasHead, Head0, IsHead
    <3>4. CASE Before(AllRows, r) = {}
      <4>1. r.prev = Genesis
        BY <3>2, <3>4 DEF HashOfHead
      <4>2. HashOfHead(AllRows) = Head0(AllRows).hash
        BY DEF HashOfHead
      <4>3. Head0(AllRows).hash # Genesis
        BY <3>3, RowsOK, RowOK, DigestInjective
      <4>4. QED
        BY <4>1, <4>2, <4>3, <3>1
    <3>5. CASE Before(AllRows, r) # {}
      <4>1. PICK s \in Before(AllRows, r) : s.hash = r.prev
        BY <3>5 DEF LinkInv, Linked
      <4>2. s \in AllRows /\ s.seq < r.seq
        BY <4>1 DEF Before
      <4>3. s.hash = Head0(AllRows).hash
        BY <3>1, <4>1 DEF HashOfHead
      <4>4. s = Head0(AllRows)
        BY <3>3, <4>2, <4>3 DEF LinkInv
      <4>5. r.seq <= s.seq
        BY <3>3, <4>4 DEF IsHead
      <4>6. QED
        BY <4>2, <4>5, <1>6
    <3>6. QED
      BY <3>4, <3>5
  <2>5. \A r, s \in AllRows' : r.hash = s.hash => r = s
    BY <2>4, <1>5 DEF LinkInv
  <2>6. QED
    BY <2>1, <2>2, <2>3, <2>5, <1>5 DEF LinkInv
<1>14. SeedInv'
  <2>1. pc[p] = "head" /\ pc'[p] \in {"users", "commit"}
        /\ \A q \in Proc \ {p} : pc'[q] = pc[q]
    BY <1>1 DEF TypeOK
  <2>2. AppendInv'
    BY <2>1, <1>1, <1>3, <1>4, Disjoint2 DEF SeedInv, AppendInv, Inserting
  <2>3. NewUsersInv'
    BY <1>1 DEF SeedInv, NewUsersInv
  <2>4. SeedRowsInv'
    BY <2>1, <1>1, <1>3, <1>4, Disjoint DEF SeedInv, SeedRowsInv, Inserting
  <2>5. SeedDistinctInv'
    <3>1. \A q \in Proc : \A r, s \in pending'[q] : r.body = s.body => r = s
      BY <1>1, <1>3, <1>4, Disjoint, Disjoint2 DEF SeedInv, SeedDistinctInv, LockInv, Proc, Inserting
    <3>2. \A a \in Api : Inserting(a)' => \A r \in pending'[a] : r.body # body'[a]
      BY <2>1, <1>1, <1>4, Disjoint DEF SeedInv, SeedDistinctInv, Inserting
    <3>3. QED
      BY <3>1, <3>2 DEF SeedDistinctInv
  <2>6. QED
    BY <2>2, <2>3, <2>4, <2>5 DEF SeedInv
<1>15. SeededOnce' /\ AnnounceInv' /\ AnnouncedIsCommitted'
  BY <1>1, Disjoint2 DEF SeededOnce, AnnounceInv, AnnouncedIsCommitted, TypeOK
<1>16. QED
  BY <1>10, <1>11, <1>12, <1>13, <1>14, <1>15

-----------------------------------------------------------------------------
(* The end of a transaction.                                               *)

(* A handler's rows are never seeding rows. *)
LEMMA RequestNotSeeded == \A b \in Request : \A u : b # Seeded(u)
BY DEF Request, Seeded, Appended

(* Whatever transactions roll back, the rows that remain are all the rows  *)
(* there were, or the committed ones only.                                 *)
LEMMA RollbackRows ==
  ASSUME IInv, NEW P \in SUBSET Proc, EndTx(P), auditLog' = auditLog
  PROVE  \/ AllRows' = AllRows /\ \A p \in Proc : pending'[p] = pending[p]
         \/ AllRows' = auditLog /\ \A p \in Proc : pending'[p] = {}
<1>1. \A p \in Proc : pending'[p] = IF p \in P THEN {} ELSE pending[p]
  BY DEF EndTx
<1>2. CASE lockHolder \in P
  <2>1. \A p \in Proc : pending'[p] = {}
    BY <1>1, <1>2 DEF IInv, LockInv
  <2>2. QED
    BY <2>1 DEF AllRows
<1>3. CASE lockHolder \notin P
  <2>1. \A p \in Proc : pending'[p] = pending[p]
    BY <1>1, <1>3 DEF IInv, LockInv
  <2>2. QED
    BY <2>1 DEF AllRows
<1>4. QED
  BY <1>2, <1>3

(* The committed rows are a chain by themselves. *)
LEMMA CommittedLinked ==
  ASSUME IInv
  PROVE  \A r \in auditLog : Before(auditLog, r) = Before(AllRows, r) /\ Linked(auditLog, r)
<1> SUFFICES ASSUME NEW r \in auditLog
             PROVE  Before(auditLog, r) = Before(AllRows, r) /\ Linked(auditLog, r)
  OBVIOUS
<1>1. auditLog \subseteq AllRows
  BY DEF AllRows
<1>2. ASSUME NEW s \in AllRows, s.seq < r.seq PROVE s \in auditLog
  <2>1. ASSUME NEW p \in Proc, s \in pending[p] PROVE FALSE
    <3>1. r.seq < s.seq
      BY <2>1 DEF IInv, OrderInv
    <3>2. r.seq \in Nat /\ s.seq \in Nat
      BY <1>1, RowsOK DEF IInv
    <3>3. QED
      BY <1>2, <3>1, <3>2
  <2>2. QED
    BY <2>1 DEF AllRows
<1>3. Before(auditLog, r) = Before(AllRows, r)
  BY <1>1, <1>2 DEF Before
<1>4. Linked(AllRows, r)
  BY <1>1 DEF IInv, LinkInv
<1>5. QED
  BY <1>3, <1>4 DEF Linked

(* A rollback keeps the chain. *)
LEMMA RollbackLinks ==
  ASSUME IInv, NEW P \in SUBSET Proc, EndTx(P), auditLog' = auditLog
  PROVE  LinkInv'
<1>1. CASE AllRows' = AllRows
  BY <1>1 DEF IInv, LinkInv
<1>2. CASE AllRows' = auditLog
  <2>1. auditLog \subseteq AllRows
    BY DEF AllRows
  <2>2. QED
    BY <1>2, <2>1, CommittedLinked DEF IInv, LinkInv
<1>3. QED
  BY <1>1, <1>2, RollbackRows

LEMMA RollbackOrder ==
  ASSUME IInv, NEW P \in SUBSET Proc, EndTx(P), auditLog' = auditLog,
         seqValue' = seqValue, drawn' = drawn,
         \A p \in Proc : pc'[p] = "head" => pc[p] = "head"
  PROVE  OrderInv'
<1>1. AllRows' \subseteq AllRows
  BY RollbackRows DEF AllRows
<1>2. \A p \in Proc : pending'[p] \subseteq pending[p]
  BY DEF EndTx
<1>3. QED
  BY <1>1, <1>2 DEF IInv, OrderInv

LEMMA RollbackSeeds ==
  ASSUME IInv, NEW P \in SUBSET Proc, EndTx(P), users' = users,
         body' = body, nextUser' = nextUser,
         \A p \in Proc : pc'[p] = IF p \in P THEN "idle" ELSE pc[p]
  PROVE  SeedInv'
<1>1. \A p \in Proc : /\ pending'[p] = IF p \in P THEN {} ELSE pending[p]
                     /\ newUsers'[p] = IF p \in P THEN {} ELSE newUsers[p]
  BY DEF EndTx
<1>2. \A p \in Proc : Inserting(p)' => Inserting(p) /\ p \notin P
  BY DEF Inserting
<1>3. \A p \in Proc \ P : Inserting(p) => Inserting(p)'
  BY DEF Inserting
<1>4. AppendInv'
  BY <1>1, <1>2, Disjoint2 DEF IInv, SeedInv, AppendInv
<1>5. NewUsersInv'
  <2>1. /\ \A p, q \in Proc : p # q => newUsers'[p] \cap newUsers'[q] = {}
        /\ \A p \in Proc : newUsers'[p] \cap users' = {}
    BY <1>1 DEF IInv, SeedInv, NewUsersInv
  <2>2. \A b \in Api : newUsers'[b] \subseteq newUsers[b]
    BY <1>1, Disjoint
  <2>3. QED
    BY <2>1, <2>2 DEF IInv, SeedInv, NewUsersInv
<1>6. SeedRowsInv'
  BY <1>1, <1>2, <1>3, Disjoint DEF IInv, SeedInv, SeedRowsInv
<1>7. SeedDistinctInv'
  BY <1>1, <1>2, Disjoint DEF IInv, SeedInv, SeedDistinctInv
<1>8. QED
  BY <1>4, <1>5, <1>6, <1>7 DEF SeedInv

LEMMA AbortAppendInv ==
  ASSUME IInv, NEW h \in Handler, AbortAppend(h)
  PROVE  IInv'
<1> USE DEF IInv, AbortAppend, Spend, dbVars, txVars, apiVars
<1>1. /\ {h} \in SUBSET Proc /\ EndTx({h})
      /\ \A p \in Proc : pc'[p] = IF p \in {h} THEN "idle" ELSE pc[p]
  BY Disjoint2 DEF TypeOK
<1>2. TypeOK'
  BY <1>1, Disjoint2 DEF TypeOK, EndTx, InTrigger
<1>3. LockInv'
  BY <1>1, Disjoint, Disjoint2, NoneInProc DEF LockInv, Inserting, InTrigger, EndTx
<1>4. OrderInv'
  BY <1>1, RollbackOrder
<1>5. LinkInv'
  BY <1>1, RollbackLinks
<1>6. SeedInv'
  BY <1>1, RollbackSeeds
<1>7. SeededOnce' /\ AnnounceInv' /\ AnnouncedIsCommitted'
  BY <1>1, Disjoint2 DEF SeededOnce, AnnounceInv, AnnouncedIsCommitted
<1>8. QED
  BY <1>2, <1>3, <1>4, <1>5, <1>6, <1>7

LEMMA CrashInv ==
  ASSUME IInv, NEW a \in Api, Crash(a)
  PROVE  IInv'
<1> USE DEF IInv, Crash, Spend, dbVars, txVars, apiVars
<1> DEFINE dead == {p \in Proc : Home(p) = a}
<1>1. /\ dead \in SUBSET Proc /\ EndTx(dead)
      /\ \A p \in Proc : pc'[p] = IF p \in dead THEN "idle" ELSE pc[p]
  OBVIOUS
<1>2. a \in dead /\ \A b \in Api : b \in dead => b = a
  BY Disjoint DEF Home
<1> HIDE DEF dead
<1>3. TypeOK'
  BY <1>1 DEF TypeOK, EndTx, InTrigger
<1>4. LockInv'
  <2>1. \A p \in Proc : /\ pending'[p] = IF p \in dead THEN {} ELSE pending[p]
                       /\ newUsers'[p] = IF p \in dead THEN {} ELSE newUsers[p]
    BY <1>1 DEF EndTx
  <2>2. lockHolder' = IF lockHolder \in dead THEN None ELSE lockHolder
    BY <1>1 DEF EndTx
  <2>3. \A b \in Api : api'[b] # "seeding" => b = a \/ api[b] # "seeding"
    BY DEF TypeOK
  <2>4. \A p \in Proc : pc'[p] \in InTrigger \/ pending'[p] # {} => lockHolder' = p
    BY <1>1, <2>1, <2>2, NoneInProc DEF LockInv, InTrigger
  <2>5. \A p \in Proc : Inserting(p)' => body'[p] \in Body
    BY <1>1 DEF LockInv, Inserting
  <2>6. /\ \A b \in Api : pc'[b] \in {"idle", "users", "lock", "draw", "head"}
        /\ \A b \in Api : api'[b] # "seeding" => pc'[b] = "idle"
        /\ \A b \in Api : pc'[b] = "idle" => pending'[b] = {} /\ newUsers'[b] = {}
    BY <1>1, <1>2, <2>1, <2>3, Disjoint DEF LockInv
  <2>7. /\ \A h \in Handler : pc'[h] # "users"
        /\ \A h \in Handler : IF pc'[h] = "commit" THEN \E r \in pending'[h] : pending'[h] = {r}
                                                    ELSE pending'[h] = {}
    BY <1>1, <2>1, Disjoint2 DEF LockInv
  <2>8. QED
    BY <2>4, <2>5, <2>6, <2>7 DEF LockInv, Inserting
<1>5. OrderInv'
  BY <1>1, RollbackOrder
<1>6. LinkInv'
  BY <1>1, RollbackLinks
<1>7. SeedInv'
  BY <1>1, RollbackSeeds
<1>8. SeededOnce'
  BY DEF SeededOnce
<1>9. AnnounceInv' /\ AnnouncedIsCommitted'
  <2>1. \A h \in Handler : pc'[h] = "hooks" => pc[h] = "hooks" /\ result'[h] = result[h]
    BY <1>1, Disjoint2 DEF dead
  <2>2. QED
    BY <2>1 DEF AnnounceInv, AnnouncedIsCommitted, TypeOK
<1>10. QED
  BY <1>3, <1>4, <1>5, <1>6, <1>7, <1>8, <1>9

-----------------------------------------------------------------------------
(* A commit moves the pending rows of one transaction to the committed     *)
(* ones and leaves the set of all rows as it was.                          *)
LEMMA CommitRows ==
  ASSUME IInv, NEW p \in Proc, EndTx({p}), auditLog' = auditLog \cup pending[p],
         seqValue' = seqValue, drawn' = drawn,
         \A q \in Proc : pc'[q] = "head" => pc[q] = "head"
  PROVE  /\ AllRows' = AllRows
         /\ \A q \in Proc : pending'[q] = IF q = p THEN {} ELSE pending[q]
         /\ \A q \in Proc : newUsers'[q] = IF q = p THEN {} ELSE newUsers[q]
         /\ OrderInv'
         /\ LinkInv'
<1> USE DEF IInv
<1>1. /\ \A q \in Proc : pending'[q] = IF q = p THEN {} ELSE pending[q]
      /\ \A q \in Proc : newUsers'[q] = IF q = p THEN {} ELSE newUsers[q]
  BY DEF EndTx
<1>2. AllRows' = AllRows
  BY <1>1 DEF AllRows
<1>3. \A q \in Proc \ {p} : pending[q] = {} \/ pending[p] = {}
  BY DEF LockInv
<1>4. OrderInv'
  BY <1>1, <1>2, <1>3 DEF OrderInv
<1>5. auditLog' = auditLog \/ auditLog' = AllRows
  <2>1. CASE pending[p] = {}
    BY <2>1
  <2>2. CASE pending[p] # {}
    BY <2>2, <1>3 DEF AllRows
  <2>3. QED
    BY <2>1, <2>2
<1>6. LinkInv'
  BY <1>2, <1>5 DEF LinkInv
<1>7. QED
  BY <1>1, <1>2, <1>4, <1>6

LEMMA CommitSeedInv ==
  ASSUME IInv, NEW a \in Api, CommitSeed(a)
  PROVE  IInv'
<1> USE DEF IInv, CommitSeed
<1>1. /\ pc'[a] = "idle"
      /\ \A q \in Proc \ {a} : pc'[q] = pc[q]
      /\ a \in Proc /\ ~Inserting(a)
  BY Disjoint DEF TypeOK, Inserting
<1>2. /\ AllRows' = AllRows
      /\ \A q \in Proc : pending'[q] = IF q = a THEN {} ELSE pending[q]
      /\ \A q \in Proc : newUsers'[q] = IF q = a THEN {} ELSE newUsers[q]
      /\ OrderInv'
      /\ LinkInv'
  BY <1>1, CommitRows
<1>3. TypeOK'
  BY <1>1 DEF TypeOK, EndTx, InTrigger
<1>4. LockInv'
  <2>1. lockHolder' = IF lockHolder = a THEN None ELSE lockHolder
    BY DEF EndTx
  <2>2. \A b \in Api : api'[b] # "seeding" => b = a \/ api[b] # "seeding"
    BY DEF TypeOK
  <2>3. QED
    BY <1>1, <1>2, <2>1, <2>2, Disjoint, Disjoint2, NoneInProc
    DEF LockInv, Inserting, InTrigger
<1>5. SeedInv'
  <2>1. AppendInv'
    BY <1>1, <1>2, Disjoint2 DEF SeedInv, AppendInv, Inserting
  <2>2. NewUsersInv'
    <3>1. /\ \A p, q \in Proc : p # q => newUsers'[p] \cap newUsers'[q] = {}
          /\ \A p \in Proc : newUsers'[p] \cap users' = {}
      BY <1>1, <1>2 DEF SeedInv, NewUsersInv
    <3>2. \A b \in Api : newUsers'[b] \subseteq newUsers[b] /\ nextUser'[b] = nextUser[b]
      BY <1>2, Disjoint
    <3>3. QED
      BY <3>1, <3>2 DEF SeedInv, NewUsersInv
  <2>3. SeedRowsInv'
    BY <1>1, <1>2, Disjoint DEF SeedInv, SeedRowsInv, Inserting
  <2>4. SeedDistinctInv'
    BY <1>1, <1>2, Disjoint DEF SeedInv, SeedDistinctInv, Inserting
  <2>5. QED
    BY <2>1, <2>2, <2>3, <2>4 DEF SeedInv
<1>6. SeededOnce'
  <2>1. \A u \in newUsers[a] : u \notin users /\ \E r \in pending[a] : r.body = Seeded(u)
    BY <1>1 DEF SeedInv, AppendInv, NewUsersInv, SeedRowsInv, SeedDistinctInv
  <2>2. \A r \in pending[a], u \in User : r.body = Seeded(u) => u \in newUsers[a]
    BY SeededInjective DEF SeedInv, AppendInv, NewUsersInv, SeedRowsInv, SeedDistinctInv
  <2>3. \A u \in users' : \E r \in auditLog' : r.body = Seeded(u)
    BY <2>1 DEF SeededOnce
  <2>4. \A r \in auditLog', u \in User : r.body = Seeded(u) => u \in users'
    BY <2>2 DEF SeededOnce
  <2>5. ASSUME NEW r \in auditLog', NEW s \in auditLog', NEW u \in User,
               r.body = Seeded(u), s.body = Seeded(u)
        PROVE  r = s
    <3>1. CASE r \in pending[a] /\ s \in pending[a]
      BY <1>1, <2>5, <3>1 DEF SeedInv, AppendInv, NewUsersInv, SeedRowsInv, SeedDistinctInv
    <3>2. CASE r \in auditLog /\ s \in auditLog
      BY <2>5, <3>2 DEF SeededOnce
    <3>3. ASSUME u \in users, u \in newUsers[a] PROVE FALSE
      BY <2>1, <3>3
    <3>4. QED
      BY <2>2, <2>5, <3>1, <3>2, <3>3 DEF SeededOnce
  <2>6. QED
    BY <2>3, <2>4, <2>5 DEF SeededOnce
<1>7. AnnounceInv' /\ AnnouncedIsCommitted'
  BY <1>1, Disjoint, Disjoint2 DEF AnnounceInv, AnnouncedIsCommitted
<1>8. QED
  BY <1>2, <1>3, <1>4, <1>5, <1>6, <1>7

LEMMA CommitAppendInv ==
  ASSUME IInv, NEW h \in Handler, CommitAppend(h)
  PROVE  IInv'
<1> USE DEF IInv, CommitAppend
<1>1. /\ pc'[h] = "hooks"
      /\ \A q \in Proc \ {h} : pc'[q] = pc[q]
      /\ h \in Proc /\ ~Inserting(h)
  BY Disjoint2 DEF TypeOK, Inserting
<1>2. /\ AllRows' = AllRows
      /\ \A q \in Proc : pending'[q] = IF q = h THEN {} ELSE pending[q]
      /\ \A q \in Proc : newUsers'[q] = IF q = h THEN {} ELSE newUsers[q]
      /\ OrderInv'
      /\ LinkInv'
  BY <1>1, CommitRows
<1>3. TypeOK'
  BY <1>1 DEF TypeOK, EndTx, InTrigger
<1>4. LockInv'
  <2>1. lockHolder' = IF lockHolder = h THEN None ELSE lockHolder
    BY DEF EndTx
  <2>2. QED
    BY <1>1, <1>2, <2>1, Disjoint, Disjoint2, NoneInProc DEF LockInv, Inserting, InTrigger
<1>5. SeedInv'
  <2>1. AppendInv'
    BY <1>1, <1>2, Disjoint2 DEF SeedInv, AppendInv, Inserting
  <2>2. newUsers[h] = {}
    BY DEF SeedInv, AppendInv
  <2>3. \A b \in Api : /\ newUsers'[b] = newUsers[b] /\ pending'[b] = pending[b]
                      /\ body'[b] = body[b] /\ nextUser'[b] = nextUser[b]
                      /\ pc'[b] = pc[b]
    BY <1>1, <1>2, Disjoint
  <2>4. NewUsersInv'
    <3>1. \A p \in Proc : newUsers'[p] = newUsers[p]
      BY <1>2, <2>2
    <3>2. QED
      BY <3>1, <2>3, <2>2 DEF SeedInv, NewUsersInv
  <2>5. SeedRowsInv'
    BY <2>3 DEF SeedInv, SeedRowsInv, Inserting
  <2>6. SeedDistinctInv'
    BY <1>2, <2>3 DEF SeedInv, SeedDistinctInv, Inserting
  <2>7. QED
    BY <2>1, <2>4, <2>5, <2>6 DEF SeedInv
<1>6. SeededOnce'
  <2>1. \A r \in pending[h] : r.body \in Request
    BY DEF SeedInv, AppendInv, NewUsersInv, SeedRowsInv, SeedDistinctInv
  <2>2. QED
    BY <2>1, RequestNotSeeded DEF SeededOnce
<1>7. AnnounceInv' /\ AnnouncedIsCommitted'
  <2>1. result'[h] \in auditLog' /\ \A k \in Handler \ {h} : result'[k] = result[k]
    BY DEF TypeOK
  <2>2. QED
    BY <1>1, <2>1, Disjoint2 DEF AnnounceInv, AnnouncedIsCommitted
<1>8. QED
  BY <1>2, <1>3, <1>4, <1>5, <1>6, <1>7

-----------------------------------------------------------------------------
(* The invariant is inductive. *)
LEMMA StepInv == IInv /\ [Next]_vars => IInv'
<1> SUFFICES ASSUME IInv, [Next]_vars PROVE IInv'
  OBVIOUS
<1>1. ASSUME NEW p \in Proc, Trigger(p) PROVE IInv'
  BY <1>1, LockChainInv, DrawSeqInv, InsertRowInv DEF Trigger
<1>2. ASSUME NEW a \in Api, StartApi(a) \/ Startup(a) PROVE IInv'
  BY <1>2, StartApiInv, SkipUserInv, SeedUserInv, CommitSeedInv, PrimeMetricInv DEF Startup
<1>3. ASSUME NEW h \in Handler, BeginAppend(h) \/ Append1(h) PROVE IInv'
  BY <1>3, BeginAppendInv, CommitAppendInv, RunHooksInv DEF Append1
<1>4. ASSUME Fault PROVE IInv'
  BY <1>4, PrimeFailsInv, CrashInv, HookFailsInv, AbortAppendInv, LoseReplyInv DEF Fault
<1>5. CASE UNCHANGED vars
  <2> USE <1>5 DEF vars, dbVars, txVars, apiVars, IInv
  <2>1. AllRows' = AllRows
    BY DEF AllRows
  <2>2. TypeOK'
    BY DEF TypeOK
  <2>3. LockInv'
    BY DEF LockInv, Inserting
  <2>4. OrderInv' /\ LinkInv'
    BY <2>1 DEF OrderInv, LinkInv
  <2>5. AppendInv'
    BY DEF SeedInv, AppendInv, Inserting
  <2>6. NewUsersInv'
    BY DEF SeedInv, NewUsersInv
  <2>7. SeedRowsInv' /\ SeedDistinctInv'
    BY DEF SeedInv, SeedRowsInv, SeedDistinctInv, Inserting
  <2>8. SeededOnce' /\ AnnounceInv' /\ AnnouncedIsCommitted'
    BY DEF SeededOnce, AnnounceInv, AnnouncedIsCommitted
  <2>9. QED
    BY <2>2, <2>3, <2>4, <2>5, <2>6, <2>7, <2>8 DEF SeedInv
<1>6. QED
  BY <1>1, <1>2, <1>3, <1>4, <1>5 DEF Next

(* Every reachable state of the ledger, its transactions and its metric    *)
(* satisfies the inductive invariant.                                      *)
THEOREM Invariance == Spec => []IInv
<1>1. QED
  BY InitInv, StepInv, PTL DEF Spec

(* The state of audit_log, its sequence, its lock and the transactions of  *)
(* append_audit and seed_users stays in its types, and every stored hash   *)
(* is the digest of its row.                                               *)
THEOREM TypeCorrect == Spec => []TypeOK
<1>1. IInv => TypeOK
  BY DEF IInv
<1>2. QED
  BY <1>1, Invariance, PTL

LEMMA VerifiesFromInv == ASSUME IInv PROVE ChainVerifies
<1> USE DEF IInv
<1>1. ASSUME NEW r \in auditLog
      PROVE  r.prev = HashOfHead(Before(auditLog, r)) /\ r.hash = Digest(r.prev, r.body)
  <2>1. Linked(auditLog, r) /\ Ordered(auditLog)
    BY CommittedLinked, RowsOrdered
  <2>2. IsRow(r)
    BY DEF TypeOK
  <2>3. QED
    BY <2>1, <2>2, LinkedPrev, RowOK
<1>2. BadRows(auditLog) = {}
  BY <1>1 DEF BadRows
<1>3. QED
  BY <1>2 DEF ChainVerifies, verify_audit_chain

(* verify_audit_chain() finds no break in any reachable ledger: seq order  *)
(* is chain order although seq values are drawn by concurrent transactions *)
(* and aborted ones leave gaps (001_schema.sql, trigger and walk).         *)
THEOREM AlwaysVerifies == Spec => []ChainVerifies
<1>1. IInv => ChainVerifies
  BY VerifiesFromInv
<1>2. QED
  BY <1>1, Invariance, PTL

LEMMA ForkFreeFromInv == ASSUME IInv PROVE NoFork
<1> USE DEF IInv
<1> SUFFICES ASSUME NEW r \in AllRows, NEW s \in AllRows, r.prev = s.prev
             PROVE  r = s
  BY DEF NoFork, AllRows
<1>1. Linked(AllRows, r) /\ Linked(AllRows, s)
  BY DEF LinkInv
<1>2. r.seq \in Nat /\ s.seq \in Nat /\ (r.seq = s.seq => r = s)
  BY RowsOK DEF OrderInv
<1>3. ASSUME NEW x \in AllRows PROVE x.hash # Genesis
  BY <1>3, RowsOK, RowOK, DigestInjective
<1>4. CASE Before(AllRows, r) = {} /\ Before(AllRows, s) = {}
  <2>1. ~(r.seq < s.seq) /\ ~(s.seq < r.seq)
    BY <1>4 DEF Before
  <2>2. QED
    BY <1>2, <2>1
<1>5. ASSUME NEW x \in AllRows, NEW y \in AllRows, x.prev = y.prev,
             Linked(AllRows, x), Linked(AllRows, y),
             Before(AllRows, x) = {}, Before(AllRows, y) # {}
      PROVE  FALSE
  <2>1. x.prev = Genesis
    BY <1>5 DEF Linked
  <2>2. PICK z \in Before(AllRows, y) : z.hash = y.prev
    BY <1>5 DEF Linked
  <2>3. QED
    BY <2>1, <2>2, <1>3, <1>5 DEF Before
<1>6. CASE Before(AllRows, r) # {} /\ Before(AllRows, s) # {}
  <2>1. PICK x \in Before(AllRows, r) : IsHead(Before(AllRows, r), x) /\ x.hash = r.prev
    BY <1>1, <1>6 DEF Linked
  <2>2. PICK y \in Before(AllRows, s) : IsHead(Before(AllRows, s), y) /\ y.hash = s.prev
    BY <1>1, <1>6 DEF Linked
  <2>3. x = y
    BY <2>1, <2>2 DEF LinkInv, Before
  <2>4. x \in AllRows /\ x.seq < r.seq /\ x.seq < s.seq /\ x.seq \in Nat
    BY <2>1, <2>2, <2>3, RowsOK DEF Before
  <2>5. r.seq < s.seq => r.seq <= x.seq
    BY <2>2, <2>3 DEF Before, IsHead
  <2>6. s.seq < r.seq => s.seq <= x.seq
    BY <2>1 DEF Before, IsHead
  <2>7. QED
    BY <1>2, <2>4, <2>5, <2>6
<1>7. QED
  BY <1>1, <1>4, <1>5, <1>6

(* No two rows, committed or still in a transaction, extend the same row:  *)
(* the advisory lock of the trigger leaves the unique index on prev_hash   *)
(* nothing to reject.                                                      *)
THEOREM ForkFree == Spec => []NoFork
<1>1. IInv => NoFork
  BY ForkFreeFromInv
<1>2. QED
  BY <1>1, Invariance, PTL

(* Seeding by any number of starting processes, any of which may die at    *)
(* any statement, leaves exactly one user.seeded row per user (db/seed.py).*)
THEOREM SeedsOnce == Spec => []SeededOnce
<1>1. IInv => SeededOnce
  BY DEF IInv
<1>2. QED
  BY <1>1, Invariance, PTL

(* Answers of append_audit and the exposed chain head name committed rows  *)
(* only (db/repo.py, api/main.py).                                         *)
THEOREM AnnouncesCommitted == Spec => []AnnouncedIsCommitted
<1>1. IInv => AnnouncedIsCommitted
  BY DEF IInv
<1>2. QED
  BY <1>1, Invariance, PTL

LEMMA CommitStep ==
  ASSUME IInv, [Next]_vars
  PROVE  \/ UNCHANGED auditLog
         \/ \E p \in Proc : auditLog' = auditLog \cup pending[p]
<1> USE DEF dbVars, txVars, apiVars, vars
<1>1. ASSUME NEW p \in Proc, Trigger(p) PROVE UNCHANGED auditLog
  BY <1>1 DEF Trigger, LockChain, DrawSeq, InsertRow
<1>2. ASSUME NEW a \in Api, StartApi(a) PROVE UNCHANGED auditLog
  BY <1>2 DEF StartApi
<1>3. ASSUME NEW a \in Api, Startup(a)
      PROVE  UNCHANGED auditLog \/ auditLog' = auditLog \cup pending[a]
  BY <1>3 DEF Startup, SkipUser, SeedUser, CommitSeed, PrimeMetric
<1>4. ASSUME NEW h \in Handler, BeginAppend(h) \/ Append1(h)
      PROVE  UNCHANGED auditLog \/ auditLog' = auditLog \cup pending[h]
  BY <1>4 DEF BeginAppend, Append1, CommitAppend, RunHooks, Answer
<1>5. ASSUME Fault PROVE UNCHANGED auditLog
  BY <1>5 DEF Fault, PrimeFails, Crash, HookFails, Answer, AbortAppend, LoseReply
<1>6. QED
  BY <1>1, <1>2, <1>3, <1>4, <1>5, Disjoint, Disjoint2 DEF Next

(* Rows become visible in the order of their seq and never go away: a page *)
(* of GET /api/audit/chain stays what it was when it was read.             *)
THEOREM CommitOrder == Spec => CommitsInSeqOrder
<1>1. IInv /\ [Next]_vars =>
        [/\ auditLog \subseteq auditLog'
         /\ \A r \in auditLog' \ auditLog : \A s \in auditLog : s.seq < r.seq]_auditLog
  <2> SUFFICES ASSUME IInv, [Next]_vars
               PROVE  [/\ auditLog \subseteq auditLog'
                       /\ \A r \in auditLog' \ auditLog : \A s \in auditLog : s.seq < r.seq]_auditLog
    OBVIOUS
  <2>1. CASE \E p \in Proc : auditLog' = auditLog \cup pending[p]
    BY <2>1 DEF IInv, OrderInv
  <2>2. QED
    BY <2>1, CommitStep
<1>2. QED
  BY <1>1, Invariance, PTL DEF Spec, CommitsInSeqOrder

-----------------------------------------------------------------------------
(* THE LEDGER *)
(* The seeding transactions go through the usernames in order, whatever    *)
(* the other processes commit in between.                                  *)
LEMMA InitTurn == Init => SeedTurnInv
<1> SUFFICES ASSUME Init PROVE SeedTurnInv
  OBVIOUS
<1>1. ASSUME NEW a \in Api PROVE TurnOf(a)
  <2>1. pc[a] = "idle" /\ nextUser[a] = 1 /\ pending[a] = {}
    BY Disjoint DEF Init
  <2>2. QED
    BY <2>1 DEF TurnOf, Inserting
<1>2. \A h \in Handler : pc[h] = "idle"
  BY Disjoint2 DEF Init
<1>3. QED
  BY <1>1, <1>2 DEF SeedTurnInv

(* A step that leaves the seeding transaction of a where it is, or ends it *)
LEMMA TurnStays ==
  ASSUME NEW a, TurnOf(a), users \subseteq users', nextUser'[a] = nextUser[a],
         pc'[a] # "idle" => pc[a] # "idle" /\ newUsers[a] \subseteq newUsers'[a],
         Inserting(a)' => Inserting(a) /\ body'[a] = body[a],
         pending'[a] \subseteq pending[a]
  PROVE  TurnOf(a)'
<1>1. nextUser'[a] > 0
  BY DEF TurnOf
<1>2. ASSUME pc'[a] # "idle", NEW i \in DOMAIN SeedOrder, i < nextUser'[a]
      PROVE  SeedOrder[i] \in users' \cup newUsers'[a]
  BY <1>2 DEF TurnOf
<1>3. ASSUME Inserting(a)'
      PROVE  \E i \in DOMAIN SeedOrder : i + 1 = nextUser'[a] /\ body'[a] = Seeded(SeedOrder[i])
  BY <1>3 DEF TurnOf
<1>4. \A r, s \in pending'[a] : \A i, j \in DOMAIN SeedOrder :
        r.body = Seeded(SeedOrder[i]) /\ s.body = Seeded(SeedOrder[j]) /\ i < j => r.seq < s.seq
  BY DEF TurnOf
<1>5. QED
  BY <1>1, <1>2, <1>3, <1>4 DEF TurnOf

(* The trigger: the row it inserts is the highest, and announces the user  *)
(* before nextUser.                                                        *)
LEMMA InsertTurn ==
  ASSUME IInv, NEW a \in Api, InsertRow(a), TurnOf(a)
  PROVE  TurnOf(a)'
<1> DEFINE row == Row(drawn[a], body[a], HashOfHead(auditLog \cup pending[a]))
<1>1. /\ pc[a] = "head" /\ pc'[a] = "users" /\ users' = users /\ newUsers' = newUsers
      /\ nextUser' = nextUser /\ pending'[a] = pending[a] \cup {row}
  BY Disjoint DEF InsertRow, IInv, TypeOK, dbVars
<1>2. row.seq = drawn[a] /\ row.body = body[a]
  BY RowFields
<1> HIDE DEF row
<1>3. PICK k \in DOMAIN SeedOrder : k + 1 = nextUser[a] /\ body[a] = Seeded(SeedOrder[k])
  BY <1>1 DEF TurnOf, Inserting
<1>4. \A r \in pending[a] : r.seq < row.seq /\ r.body # body[a] /\ r.seq \in Nat
  BY <1>1, <1>2, Disjoint, RowsOK DEF IInv, OrderInv, AllRows, SeedInv, SeedDistinctInv, Inserting
<1>5. \A r \in pending[a] : \A i \in DOMAIN SeedOrder : r.body = Seeded(SeedOrder[i]) => i < k
  <2>1. SUFFICES ASSUME NEW r \in pending[a], NEW i \in DOMAIN SeedOrder, r.body = Seeded(SeedOrder[i])
                 PROVE  i < k
    OBVIOUS
  <2>2. PICK u \in newUsers[a] : r.body = Seeded(u)
    BY <2>1 DEF IInv, SeedInv, SeedRowsInv
  <2>3. PICK j \in DOMAIN SeedOrder : j < nextUser[a] /\ u = SeedOrder[j]
    BY <2>2 DEF IInv, SeedInv, NewUsersInv
  <2>4. i = j
    BY <2>1, <2>2, <2>3, SeededInjective, SeedAssumption
  <2>5. i # k
    BY <1>3, <1>4, <2>1
  <2>6. QED
    BY <1>3, <2>3, <2>4, <2>5, SeedIndex DEF IInv, TypeOK
<1>6. \A i \in DOMAIN SeedOrder : row.body = Seeded(SeedOrder[i]) => i = k
  BY <1>2, <1>3, SeededInjective, SeedAssumption
<1>7. ASSUME NEW r \in pending'[a], NEW s \in pending'[a],
             NEW i \in DOMAIN SeedOrder, NEW j \in DOMAIN SeedOrder,
             r.body = Seeded(SeedOrder[i]), s.body = Seeded(SeedOrder[j]), i < j
      PROVE  r.seq < s.seq
  <2>1. i \in Nat /\ j \in Nat /\ k \in Nat
    BY SeedIndex
  <2>2. CASE r \in pending[a] /\ s \in pending[a]
    BY <1>7, <2>2 DEF TurnOf
  <2>3. CASE r \in pending[a] /\ s = row
    BY <1>4, <2>3
  <2>4. CASE r = row
    <3>1. i = k
      BY <1>6, <1>7, <2>4
    <3>2. j < k \/ j = k
      BY <1>1, <1>5, <1>6, <1>7
    <3>3. QED
      BY <1>7, <2>1, <3>1, <3>2
  <2>5. QED
    BY <1>1, <1>7, <2>2, <2>3, <2>4
<1>8. ~Inserting(a)'
  BY <1>1 DEF Inserting
<1>9. /\ nextUser'[a] > 0
      /\ \A i \in DOMAIN SeedOrder : i < nextUser'[a] => SeedOrder[i] \in users' \cup newUsers'[a]
  BY <1>1 DEF TurnOf
<1>10. QED
  BY <1>7, <1>8, <1>9 DEF TurnOf

LEMMA StartTurn ==
  ASSUME IInv, NEW a \in Api, StartApi(a)
  PROVE  TurnOf(a)'
<1>1. nextUser'[a] = 1 /\ pc'[a] = "users" /\ pending' = pending
  BY Disjoint DEF StartApi, IInv, TypeOK
<1>2. pending[a] = {}
  BY DEF StartApi, IInv, LockInv
<1>3. \A i \in DOMAIN SeedOrder : ~(i < 1)
  BY SeedAssumption
<1>4. QED
  BY <1>1, <1>2, <1>3 DEF TurnOf, Inserting

LEMMA SkipTurn ==
  ASSUME IInv, NEW a \in Api, SkipUser(a), TurnOf(a)
  PROVE  TurnOf(a)'
<1>1. PICK u \in users : CanInsertUser(a, u)
  BY DEF SkipUser
<1>2. /\ pc' = pc /\ users' = users /\ newUsers' = newUsers /\ pending' = pending
      /\ nextUser'[a] = nextUser[a] + 1 /\ nextUser[a] \in Nat
  BY DEF SkipUser, dbVars, IInv, TypeOK
<1>3. pc[a] = "users" /\ SeedOrder[nextUser[a]] \in users
  BY <1>1 DEF CanInsertUser
<1>4. \A i \in DOMAIN SeedOrder : i < nextUser'[a] => i < nextUser[a] \/ i = nextUser[a]
  BY <1>2, SeedIndex
<1>5. \A i \in DOMAIN SeedOrder : i < nextUser'[a] => SeedOrder[i] \in users' \cup newUsers'[a]
  BY <1>2, <1>3, <1>4 DEF TurnOf
<1>6. nextUser'[a] > 0
  BY <1>2
<1>7. QED
  BY <1>2, <1>3, <1>5, <1>6 DEF TurnOf, Inserting

LEMMA SeedTurn ==
  ASSUME IInv, NEW a \in Api, SeedUser(a), TurnOf(a)
  PROVE  TurnOf(a)'
<1>1. PICK u \in User \ users :
        /\ CanInsertUser(a, u)
        /\ newUsers' = [newUsers EXCEPT ![a] = @ \cup {u}]
        /\ body' = [body EXCEPT ![a] = Seeded(u)]
        /\ pc' = [pc EXCEPT ![a] = "lock"]
        /\ nextUser' = [nextUser EXCEPT ![a] = @ + 1]
        /\ users' = users /\ pending' = pending
  BY DEF SeedUser, dbVars
<1>2. /\ pc'[a] = "lock" /\ users' = users /\ newUsers'[a] = newUsers[a] \cup {u} /\ pending' = pending
      /\ body'[a] = Seeded(u) /\ nextUser'[a] = nextUser[a] + 1 /\ nextUser[a] \in Nat
  BY <1>1, Disjoint DEF IInv, TypeOK
<1>3. pc[a] = "users" /\ nextUser[a] \in DOMAIN SeedOrder /\ u = SeedOrder[nextUser[a]]
  BY <1>1 DEF CanInsertUser
<1>4. \A i \in DOMAIN SeedOrder : i < nextUser'[a] => i < nextUser[a] \/ i = nextUser[a]
  BY <1>2, SeedIndex
<1>5. \A i \in DOMAIN SeedOrder : i < nextUser'[a] => SeedOrder[i] \in users' \cup newUsers'[a]
  BY <1>2, <1>3, <1>4 DEF TurnOf
<1>6. nextUser'[a] > 0
  BY <1>2
<1>7. QED
  BY <1>2, <1>3, <1>5, <1>6 DEF TurnOf

(* Every step keeps it. *)
LEMMA StepTurn ==
  ASSUME IInv, SeedTurnInv, [Next]_vars
  PROVE  SeedTurnInv'
<1> DEFINE Quiet(a) ==
             /\ nextUser'[a] = nextUser[a]
             /\ pc'[a] # "idle" => pc[a] # "idle" /\ newUsers[a] \subseteq newUsers'[a]
             /\ Inserting(a)' => Inserting(a) /\ body'[a] = body[a]
             /\ pending'[a] \subseteq pending[a]
           Replies == \A h \in Handler : pc'[h] = "hooks" => result'[h].body \in Request
<1>1. ASSUME users \subseteq users', NEW a \in Api, Quiet(a) PROVE TurnOf(a)'
  BY <1>1, TurnStays DEF SeedTurnInv
<1>2. \A h \in Handler : pc[h] = "hooks" => result[h].body \in Request
  BY DEF SeedTurnInv
<1> USE DEF dbVars, txVars, apiVars, vars
<1>3. ASSUME NEW p \in Proc, LockChain(p) \/ DrawSeq(p) PROVE SeedTurnInv'
  <2>1. users' = users /\ \A a \in Api : Quiet(a)
    BY <1>3, Disjoint DEF LockChain, DrawSeq, Inserting, IInv, TypeOK
  <2>2. Replies
    BY <1>2, <1>3, Disjoint2 DEF LockChain, DrawSeq, IInv, TypeOK
  <2>3. QED
    BY <1>1, <2>1, <2>2 DEF SeedTurnInv
<1>4. ASSUME NEW p \in Proc, InsertRow(p) PROVE SeedTurnInv'
  <2>1. users' = users /\ \A a \in Api \ {p} : Quiet(a)
    BY <1>4, Disjoint DEF InsertRow, Inserting, IInv, TypeOK
  <2>2. Replies
    BY <1>2, <1>4, Disjoint2 DEF InsertRow, IInv, TypeOK
  <2>3. p \in Api => TurnOf(p)'
    BY <1>4, InsertTurn DEF SeedTurnInv
  <2>4. QED
    BY <1>1, <2>1, <2>2, <2>3 DEF SeedTurnInv
<1>5. ASSUME NEW a \in Api, StartApi(a) \/ SkipUser(a) \/ SeedUser(a) PROVE SeedTurnInv'
  <2>1. users' = users /\ \A b \in Api \ {a} : Quiet(b)
    BY <1>5, Disjoint DEF StartApi, SkipUser, SeedUser, Inserting, IInv, TypeOK
  <2>2. Replies
    BY <1>2, <1>5, Disjoint, Disjoint2 DEF StartApi, SkipUser, SeedUser, IInv, TypeOK
  <2>3. TurnOf(a)'
    BY <1>5, StartTurn, SkipTurn, SeedTurn DEF SeedTurnInv
  <2>4. QED
    BY <1>1, <2>1, <2>2, <2>3 DEF SeedTurnInv
<1>6. ASSUME NEW a \in Api, CommitSeed(a) \/ PrimeMetric(a) \/ PrimeFails(a) PROVE SeedTurnInv'
  <2>1. users \subseteq users' /\ \A b \in Api : Quiet(b)
    BY <1>6, Disjoint DEF CommitSeed, EndTx, PrimeMetric, PrimeFails, Inserting, IInv, TypeOK
  <2>2. Replies
    BY <1>2, <1>6, Disjoint, Disjoint2 DEF CommitSeed, PrimeMetric, PrimeFails, IInv, TypeOK
  <2>3. QED
    BY <1>1, <2>1, <2>2 DEF SeedTurnInv
<1>7. ASSUME NEW h \in Handler,
             BeginAppend(h) \/ RunHooks(h) \/ HookFails(h) \/ AbortAppend(h) \/ LoseReply(h)
      PROVE  SeedTurnInv'
  <2>1. users' = users /\ \A a \in Api : Quiet(a)
    BY <1>7, Disjoint, Disjoint2
    DEF BeginAppend, RunHooks, HookFails, Answer, AbortAppend, LoseReply, EndTx, Inserting, IInv, TypeOK
  <2>2. Replies
    BY <1>2, <1>7, Disjoint2
    DEF BeginAppend, RunHooks, HookFails, Answer, AbortAppend, LoseReply, IInv, TypeOK
  <2>3. QED
    BY <1>1, <2>1, <2>2 DEF SeedTurnInv
<1>8. ASSUME NEW h \in Handler, CommitAppend(h) PROVE SeedTurnInv'
  <2>1. users' = users /\ \A a \in Api : Quiet(a)
    BY <1>8, Disjoint, Disjoint2 DEF CommitAppend, EndTx, Inserting, IInv, TypeOK
  <2>2. \A r \in pending[h] : r.body \in Request
    BY DEF IInv, SeedInv, AppendInv
  <2>3. result'[h] \in pending[h] /\ \A k \in Handler \ {h} : result'[k] = result[k] /\ pc'[k] = pc[k]
    BY <1>8, Disjoint2 DEF CommitAppend, IInv, TypeOK
  <2>4. Replies
    BY <1>2, <2>2, <2>3
  <2>5. QED
    BY <1>1, <2>1, <2>4 DEF SeedTurnInv
<1>9. ASSUME NEW a \in Api, Crash(a) PROVE SeedTurnInv'
  <2>1. users' = users /\ \A b \in Api : Quiet(b)
    BY <1>9, Disjoint DEF Crash, EndTx, Inserting, IInv, TypeOK
  <2>2. Replies
    BY <1>2, <1>9, Disjoint2 DEF Crash, IInv, TypeOK
  <2>3. QED
    BY <1>1, <2>1, <2>2 DEF SeedTurnInv
<1>10. CASE UNCHANGED vars
  <2>1. users' = users /\ (\A a \in Api : Quiet(a)) /\ Replies
    BY <1>2, <1>10 DEF Inserting
  <2>2. QED
    BY <1>1, <2>1 DEF SeedTurnInv
<1>11. QED
  BY <1>3, <1>4, <1>5, <1>6, <1>7, <1>8, <1>9, <1>10 DEF Next, Trigger, Startup, Append1, Fault

(* Every reachable state satisfies the invariant the refinement needs.     *)
THEOREM LedgerInvariance == Spec => []LedgerInv
<1>1. IInv /\ SeedTurnInv /\ [Next]_vars => SeedTurnInv'
  BY StepTurn
<1>2. QED
  BY <1>1, InitInv, InitTurn, StepInv, PTL DEF Spec, LedgerInv

SeqOrder(S) == {p \in S \X S : p[1].seq < p[2].seq}
InTurn(S) == Listed(S, SeqOrder(S))
Bodies(rows) == [i \in DOMAIN rows |-> rows[i].body]
Has(x) == \E i \in DOMAIN Entries : Entries[i] = x

LEMMA SeqOrderIs ==
  ASSUME NEW S, Ordered(S)
  PROVE  StrictOrder(S, SeqOrder(S))
<1>1. \A r, s \in S : <<r, s>> \in SeqOrder(S) <=> r.seq < s.seq
  BY DEF SeqOrder
<1>2. \A r \in S : r.seq \in Nat
  BY DEF Ordered
<1>3. \A r \in S : <<r, r>> \notin SeqOrder(S)
  BY <1>1, <1>2
<1>4. ASSUME NEW r \in S, NEW s \in S, NEW t \in S, <<r, s>> \in SeqOrder(S), <<s, t>> \in SeqOrder(S)
      PROVE  <<r, t>> \in SeqOrder(S)
  <2>1. r.seq < s.seq /\ s.seq < t.seq
    BY <1>1, <1>4
  <2>2. r.seq < t.seq
    BY <1>2, <2>1
  <2>3. QED
    BY <1>1, <2>2
<1>5. ASSUME NEW r \in S, NEW s \in S
      PROVE  r = s \/ <<r, s>> \in SeqOrder(S) \/ <<s, r>> \in SeqOrder(S)
  <2>1. r.seq = s.seq \/ r.seq < s.seq \/ s.seq < r.seq
    BY <1>2
  <2>2. QED
    BY <1>1, <2>1 DEF Ordered
<1>6. QED
  BY <1>3, <1>4, <1>5 DEF StrictOrder

(* The seq of a row numbers it: there are finitely many rows.              *)
LEMMA RowsFinite ==
  ASSUME IInv
  PROVE  IsFiniteSet(AllRows)
<1> DEFINE f == [r \in AllRows |-> r.seq]
           N == 0..seqValue
<1>1. seqValue \in Nat /\ \A r \in AllRows : r.seq \in Nat /\ r.seq <= seqValue
  BY RowsOK DEF IInv, OrderInv, TypeOK
<1>2. \A r, s \in AllRows : r.seq = s.seq => r = s
  BY DEF IInv, OrderInv
<1>3. IsFiniteSet(N)
  BY <1>1, FS_Interval
<1>4. \A r \in AllRows : r.seq \in N
  BY <1>1
<1>5. f \in Injection(AllRows, N)
  <2> HIDE DEF N
  <2>1. QED
    BY <1>2, <1>4 DEF Injection, IsInjective
<1> HIDE DEF f, N
<1>6. QED
  BY <1>3, <1>5, FS_Injection

LEMMA RowsOnTop ==
  ASSUME NEW S, NEW T, IsFiniteSet(S), IsFiniteSet(T), Ordered(S \cup T),
         \A r \in S, s \in T : r.seq < s.seq
  PROVE  /\ InTurn(S \cup T) = InTurn(S) \o InTurn(T)
         /\ InTurn(S) \in Seq(S) /\ InTurn(T) \in Seq(T)
<1> DEFINE R == SeqOrder(S \cup T)
<1>1. StrictOrder(S \cup T, R)
  BY SeqOrderIs
<1>2. Ordered(S) /\ Ordered(T)
  BY DEF Ordered
<1>3. StrictOrder(S, SeqOrder(S)) /\ StrictOrder(T, SeqOrder(T))
  BY <1>2, SeqOrderIs
<1>4. S \cap T = {}
  <2>1. \A r \in S : ~(r.seq < r.seq)
    BY <1>2 DEF Ordered
  <2>2. QED
    BY <2>1
<1>5. /\ \A r, s \in S : <<r, s>> \in SeqOrder(S) <=> <<r, s>> \in R
      /\ \A r, s \in T : <<r, s>> \in SeqOrder(T) <=> <<r, s>> \in R
      /\ \A r \in S, s \in T : <<r, s>> \in R
  BY DEF SeqOrder
<1> HIDE DEF R
<1>6. Listed(S, R) = InTurn(S) /\ Listed(T, R) = InTurn(T)
  BY <1>3, <1>5, SameOrder DEF InTurn
<1>7. OnTop(S, T, R)
  BY <1>1, <1>4, <1>5 DEF OnTop
<1>8. /\ Listed(S \cup T, R) = Listed(S, R) \o Listed(T, R)
      /\ Listed(S, R) \in Seq(S) /\ Listed(T, R) \in Seq(T)
  BY <1>7, ListedOnTop
<1>9. InTurn(S \cup T) = Listed(S \cup T, R)
  BY DEF InTurn, R
<1>10. QED
  BY <1>6, <1>8, <1>9

LEMMA BodiesOf ==
  ASSUME NEW X, NEW s \in Seq(X), NEW t \in Seq(X)
  PROVE  /\ Bodies(s) \in Seq({x.body : x \in X}) /\ Len(Bodies(s)) = Len(s)
         /\ Bodies(s \o t) = Bodies(s) \o Bodies(t)
<1>1. Bodies(s) \in Seq({x.body : x \in X}) /\ Len(Bodies(s)) = Len(s)
      /\ \A i \in 1..Len(s) : Bodies(s)[i] = s[i].body
  BY DEF Bodies
<1>2. Bodies(t) \in Seq({x.body : x \in X}) /\ Len(Bodies(t)) = Len(t)
      /\ \A i \in 1..Len(t) : Bodies(t)[i] = t[i].body
  BY DEF Bodies
<1>3. /\ s \o t \in Seq(X) /\ Len(s \o t) = Len(s) + Len(t)
      /\ \A i \in 1..(Len(s) + Len(t)) : (s \o t)[i] = IF i <= Len(s) THEN s[i] ELSE t[i - Len(s)]
  OBVIOUS
<1>4. Bodies(s \o t) = [i \in 1..(Len(s) + Len(t)) |-> (s \o t)[i].body]
  BY <1>3 DEF Bodies
<1> DEFINE u == Bodies(s) \o Bodies(t)
<1>5. /\ DOMAIN u = 1..(Len(s) + Len(t))
      /\ \A i \in 1..(Len(s) + Len(t)) :
           u[i] = IF i <= Len(s) THEN Bodies(s)[i] ELSE Bodies(t)[i - Len(s)]
      /\ u = [i \in 1..(Len(s) + Len(t)) |-> u[i]]
  <2> DEFINE Y == {x.body : x \in X}
             v == Bodies(s)
             w == Bodies(t)
  <2>1. v \in Seq(Y) /\ w \in Seq(Y) /\ Len(v) = Len(s) /\ Len(w) = Len(t) /\ Len(s) \in Nat /\ Len(t) \in Nat
    BY <1>1, <1>2
  <2> HIDE DEF Y, v, w
  <2>2. /\ v \o w \in Seq(Y) /\ Len(v \o w) = Len(s) + Len(t)
        /\ \A i \in 1..(Len(s) + Len(t)) : (v \o w)[i] = IF i <= Len(s) THEN v[i] ELSE w[i - Len(s)]
    BY <2>1
  <2>3. DOMAIN (v \o w) = 1..(Len(s) + Len(t)) /\ v \o w = [i \in DOMAIN (v \o w) |-> (v \o w)[i]]
    <3> DEFINE e == v \o w
               m == Len(s) + Len(t)
    <3>1. e \in Seq(Y) /\ Len(e) = m
      BY <2>2
    <3> HIDE DEF e, m
    <3>2. DOMAIN e = 1..m /\ e = [i \in DOMAIN e |-> e[i]]
      BY <3>1
    <3>3. QED
      BY <3>2 DEF e, m
  <2>4. QED
    BY <2>2, <2>3 DEF v, w
<1> HIDE DEF u
<1>6. \A i \in 1..(Len(s) + Len(t)) : u[i] = (s \o t)[i].body
  <2>1. SUFFICES ASSUME NEW i \in 1..(Len(s) + Len(t)) PROVE u[i] = (s \o t)[i].body
    OBVIOUS
  <2>2. CASE i <= Len(s)
    <3>1. i \in 1..Len(s)
      BY <2>2
    <3>2. QED
      BY <1>1, <1>3, <1>5, <2>2, <3>1
  <2>3. CASE ~(i <= Len(s))
    <3>1. i - Len(s) \in 1..Len(t)
      BY <2>3
    <3>2. QED
      BY <1>2, <1>3, <1>5, <2>3, <3>1
  <2>4. QED
    BY <2>2, <2>3
<1>7. [i \in 1..(Len(s) + Len(t)) |-> u[i]] = [i \in 1..(Len(s) + Len(t)) |-> (s \o t)[i].body]
  BY <1>6
<1>8. QED
  BY <1>1, <1>4, <1>5, <1>7 DEF u

(* The ledger a reader sees is the committed rows in turn. *)
LEMMA EntriesAre ==
  /\ InSeqOrder = InTurn(auditLog) /\ Entries = Bodies(InTurn(auditLog))
  /\ InSeqOrder' = InTurn(auditLog') /\ Entries' = Bodies(InTurn(auditLog'))
<1>1. InSeqOrder = InTurn(auditLog)
  BY DEF InSeqOrder, InOrder, InTurn, SeqOrder
<1>2. InSeqOrder' = InTurn(auditLog')
  BY DEF InSeqOrder, InOrder, InTurn, SeqOrder
<1>3. QED
  BY <1>1, <1>2 DEF Entries, Bodies

LEMMA LogInTurn ==
  ASSUME IInv
  PROVE  /\ IsFiniteSet(auditLog) /\ Ordered(auditLog)
         /\ \A i \in DOMAIN InSeqOrder : InSeqOrder[i] \in auditLog
         /\ \A r \in auditLog : \E i \in DOMAIN InSeqOrder : InSeqOrder[i] = r
<1>1. IsFiniteSet(auditLog) /\ Ordered(auditLog)
  <2>1. auditLog \subseteq AllRows
    BY DEF AllRows
  <2>2. QED
    BY <2>1, RowsFinite, RowsOrdered, FS_Subset DEF IInv
<1>2. IsListing(InTurn(auditLog), auditLog, SeqOrder(auditLog))
  BY <1>1, SeqOrderIs, ListedFacts DEF InTurn
<1>3. QED
  BY <1>1, <1>2, EntriesAre DEF IsListing

(* An entry is in the ledger when a committed row holds it. *)
LEMMA HasIs ==
  ASSUME IInv, NEW u \in User
  PROVE  Has(Seeded(u)) <=> u \in users
<1>1. Has(Seeded(u)) <=> \E r \in auditLog : r.body = Seeded(u)
  BY LogInTurn DEF Has, Entries
<1>2. QED
  BY <1>1 DEF IInv, SeededOnce

(* A commit adds the rows of its transaction at the end.                   *)
LEMMA CommitEntries ==
  ASSUME IInv, NEW p \in Proc, auditLog' = auditLog \cup pending[p], answered' = answered
  PROVE  Entries' = Entries \o Bodies(InTurn(pending[p])) /\ Acknowledged' = Acknowledged
<1> DEFINE S == auditLog
           T == pending[p]
           X == auditLog \cup pending[p]
           s == InTurn(S)
           t == InTurn(T)
<1>1. X \subseteq AllRows
  BY DEF AllRows
<1>2. IsFiniteSet(S) /\ IsFiniteSet(T) /\ Ordered(X)
  <2>1. S \subseteq AllRows /\ T \subseteq AllRows
    BY <1>1
  <2>2. IsFiniteSet(S) /\ IsFiniteSet(T)
    BY <2>1, RowsFinite, FS_Subset
  <2>3. Ordered(X)
    BY <1>1, RowsOrdered DEF Ordered, IInv
  <2>4. QED
    BY <2>2, <2>3
<1>3. \A r \in S, x \in T : r.seq < x.seq
  BY DEF IInv, OrderInv
<1>4. InTurn(X) = s \o t /\ s \in Seq(S) /\ t \in Seq(T)
  BY <1>2, <1>3, RowsOnTop
<1>5. S \subseteq X /\ T \subseteq X
  OBVIOUS
<1>6. \A x \in T : x \notin answered
  <2>1. answered \subseteq S
    BY DEF IInv, AnnouncedIsCommitted
  <2>2. \A x \in T : x.seq \in Nat
    BY <1>2 DEF Ordered
  <2>3. \A x \in T : x \notin S
    BY <1>3, <2>2
  <2>4. QED
    BY <2>1, <2>3
<1>7. /\ InSeqOrder = s /\ Entries = Bodies(s)
      /\ InSeqOrder' = InTurn(X) /\ Entries' = Bodies(InTurn(X))
  BY EntriesAre
<1> HIDE DEF s, t, S, T, X
<1>8. s \in Seq(X) /\ t \in Seq(X)
  BY <1>4, <1>5
<1>9. Entries' = Entries \o Bodies(t)
  BY <1>4, <1>7, <1>8, BodiesOf
<1>10. Acknowledged' = Acknowledged
  <2> DEFINE e == s \o t
             m == Len(s)
             n == Len(t)
  <2>1. m \in Nat /\ n \in Nat /\ DOMAIN s = 1..m /\ DOMAIN t = 1..n
    BY <1>4
  <2>2. /\ e \in Seq(X) /\ Len(e) = m + n
        /\ \A i \in 1..(m + n) : e[i] = IF i <= m THEN s[i] ELSE t[i - m]
    BY <1>8
  <2>3. \A j \in DOMAIN t : t[j] \in T
    BY <1>4
  <2> HIDE DEF e, m, n
  <2>4. DOMAIN e = 1..(m + n)
    BY <2>1, <2>2
  <2>5. \A i : i \in DOMAIN e /\ e[i] \in answered <=> i \in DOMAIN s /\ s[i] \in answered
    <3>1. SUFFICES ASSUME NEW i \in 1..(m + n)
                   PROVE  e[i] \in answered <=> i \in 1..m /\ s[i] \in answered
      BY <2>1, <2>4
    <3>2. CASE i <= m
      <4>1. i \in 1..m
        BY <2>1, <3>2
      <4>2. QED
        BY <2>2, <3>2, <4>1
    <3>3. CASE ~(i <= m)
      <4>1. i - m \in 1..n /\ i \notin 1..m
        BY <2>1, <3>3
      <4>2. e[i] \in T
        BY <2>1, <2>2, <2>3, <3>3, <4>1
      <4>3. QED
        BY <1>6, <4>1, <4>2
    <3>4. QED
      BY <3>2, <3>3
  <2>6. {i \in DOMAIN e : e[i] \in answered} = {i \in DOMAIN s : s[i] \in answered}
    BY <2>5
  <2>7. InSeqOrder' = e
    BY <1>4, <1>7 DEF e
  <2>8. QED
    BY <1>7, <2>6, <2>7 DEF Acknowledged
<1>11. QED
  BY <1>9, <1>10 DEF t, T

(* One row in turn. *)
LEMMA OneInTurn ==
  ASSUME NEW r, r.seq \in Nat
  PROVE  InTurn({r}) = <<r>>
<1>1. IsFiniteSet({r}) /\ Cardinality({r}) = 1
  BY FS_Singleton
<1>2. Ordered({r})
  BY DEF Ordered
<1>3. Enumerates(<<r>>, {r}, SeqOrder({r}))
  <2>1. 1..1 = {1} /\ \A i, j \in 1..1 : ~(i < j)
    OBVIOUS
  <2>2. <<r>> \in [1..1 -> {r}] /\ <<r>>[1] = r
    BY <2>1
  <2>3. QED
    BY <1>1, <2>1, <2>2 DEF Enumerates
<1>4. QED
  BY <1>1, <1>2, <1>3, SeqOrderIs, ListingUnique DEF InTurn

SeedBodies == [i \in DOMAIN SeedOrder |-> Seeded(SeedOrder[i])]
Unseeded == {i \in DOMAIN SeedOrder : SeedOrder[i] \notin users}

(* At its commit, the rows of a seeding transaction in turn are the        *)
(* entries of the users that have none, in their fixed order.              *)
LEMMA SeedsInTurn ==
  ASSUME LedgerInv, NEW a \in Api, CommitSeed(a)
  PROVE  Bodies(InTurn(pending[a])) = AtPlaces(SeedBodies, Unseeded)
<1> DEFINE P == pending[a]
           I == Unseeded
           f == [i \in I |-> CHOOSE r \in P : r.body = Seeded(SeedOrder[i])]
<1>1. /\ pc[a] = "users" /\ nextUser[a] \notin DOMAIN SeedOrder /\ nextUser[a] \in Nat \ {0}
      /\ a \in Proc /\ ~Inserting(a)
  BY Disjoint DEF CommitSeed, LedgerInv, IInv, TypeOK, SeedTurnInv, TurnOf, Inserting
<1>2. IsFiniteSet(P) /\ Ordered(P)
  <2>1. P \subseteq AllRows
    BY <1>1 DEF AllRows
  <2>2. QED
    BY <2>1, RowsFinite, FS_Subset, RowsOrdered DEF LedgerInv, IInv, Ordered
<1>3. \A i \in I : SeedOrder[i] \in newUsers[a]
  <2>1. \A i \in DOMAIN SeedOrder : i < nextUser[a]
    BY <1>1, SeedAssumption
  <2>2. QED
    BY <1>1, <2>1 DEF LedgerInv, SeedTurnInv, TurnOf, Unseeded
<1>4. \A i \in I : f[i] \in P /\ f[i].body = Seeded(SeedOrder[i])
  BY <1>1, <1>3 DEF LedgerInv, IInv, SeedInv, SeedRowsInv
<1>5. ASSUME NEW i \in I, NEW j \in I, i < j PROVE f[i].seq < f[j].seq
  <2>1. i \in DOMAIN SeedOrder /\ j \in DOMAIN SeedOrder
    BY DEF Unseeded
  <2> HIDE DEF f
  <2>2. QED
    BY <1>4, <1>5, <2>1 DEF LedgerInv, SeedTurnInv, TurnOf
<1>6. ASSUME NEW r \in P PROVE \E i \in I : f[i] = r
  <2>1. PICK u \in newUsers[a] : r.body = Seeded(u)
    BY DEF LedgerInv, IInv, SeedInv, SeedRowsInv
  <2>2. PICK i \in DOMAIN SeedOrder : u = SeedOrder[i]
    BY <2>1 DEF LedgerInv, IInv, SeedInv, NewUsersInv
  <2>3. i \in I
    BY <1>1, <2>1, <2>2 DEF LedgerInv, IInv, SeedInv, NewUsersInv, Unseeded
  <2> HIDE DEF f
  <2>4. f[i] = r
    BY <1>1, <1>4, <2>1, <2>2, <2>3 DEF LedgerInv, IInv, SeedInv, SeedDistinctInv
  <2>5. QED
    BY <2>3, <2>4
<1> HIDE DEF f
<1>7. IsFiniteSet(I) /\ I \subseteq Int
  <2>1. I \subseteq 1..Len(SeedOrder) /\ Len(SeedOrder) \in Nat
    BY SeedAssumption DEF Unseeded
  <2>2. IsFiniteSet(1..Len(SeedOrder))
    BY <2>1, CountUpTo
  <2> HIDE DEF I
  <2>3. IsFiniteSet(I)
    BY <2>1, <2>2, FS_Subset
  <2>4. I \subseteq Int
    BY <2>1
  <2>5. QED
    BY <2>3, <2>4
<1>8. \A i, j \in I : f[i] = f[j] => i = j
  BY <1>4, SeededInjective, SeedAssumption DEF Unseeded
<1>9. {f[i] : i \in I} = P
  BY <1>4, <1>6
<1>10. Cardinality(P) = Cardinality(I)
  BY <1>7, <1>8, <1>9, CardImage
<1>11. PICK places : Numbers(places, SeedBodies, I)
  BY <1>7, AtPlacesFacts
<1> DEFINE n == Cardinality(I)
           g == [k \in 1..n |-> f[places[k]]]
<1>12. /\ places \in [1..n -> I]
       /\ AtPlaces(SeedBodies, I) = [k \in 1..n |-> SeedBodies[places[k]]]
       /\ \A i \in I : \E k \in 1..n : places[k] = i
       /\ \A j, k \in 1..n : j < k <=> places[j] < places[k]
  BY <1>11 DEF Numbers
<1> HIDE DEF n, P, I
<1>13. \A k \in 1..n : g[k] \in P /\ g[k].body = Seeded(SeedOrder[places[k]]) /\ places[k] \in I
  BY <1>4, <1>12
<1>14. \A j, k \in 1..n : j < k => g[j].seq < g[k].seq
  BY <1>5, <1>12
<1>15. \A r \in P : \E k \in 1..n : g[k] = r
  BY <1>6, <1>12
<1>16. g \in [1..n -> P]
  BY <1>13
<1>17. DOMAIN g = 1..n
  OBVIOUS
<1> HIDE DEF g
<1>18. Enumerates(g, P, SeqOrder(P))
  <2>1. \A j, k \in 1..n : j < k => <<g[j], g[k]>> \in SeqOrder(P)
    BY <1>13, <1>14 DEF SeqOrder
  <2>2. QED
    BY <1>10, <1>15, <1>16, <2>1 DEF Enumerates, n
<1>19. InTurn(P) = g
  BY <1>2, <1>18, SeqOrderIs, ListingUnique DEF InTurn
<1>20. Bodies(g) = [k \in 1..n |-> g[k].body]
  BY <1>17 DEF Bodies
<1>21. \A k \in 1..n : g[k].body = SeedBodies[places[k]]
  BY <1>13 DEF SeedBodies, I, Unseeded
<1>22. [k \in 1..n |-> g[k].body] = [k \in 1..n |-> SeedBodies[places[k]]]
  BY <1>21
<1>23. QED
  BY <1>12, <1>19, <1>20, <1>22 DEF P, I

(* The abstract ledger picks its seed entries as this one does.            *)
LEMMA SamePlaces == \A s, I : Ledger!AtPlaces(s, I) = AtPlaces(s, I)
BY DEF Ledger!AtPlaces, AtPlaces, Ledger!InOrder, InOrder, Ledger!Listed, Listed,
       Ledger!Cardinality, Cardinality

LEMMA LedgerStarts == ASSUME Init PROVE Ledger!Init
<1>1. auditLog = {} /\ Cardinality({}) = 0
  BY FS_EmptySet DEF Init
<1>2. InTurn({}) = <<>>
  <2>1. DOMAIN InTurn({}) = 1..Cardinality({})
    BY DEF InTurn, Listed
  <2>2. 1..0 = {}
    OBVIOUS
  <2>3. InTurn({}) = [i \in 1..Cardinality({}) |-> InTurn({})[i]]
    BY DEF InTurn, Listed
  <2>4. QED
    BY <1>1, <2>2, <2>3
<1>3. Entries = <<>> /\ Acknowledged = {}
  BY <1>1, <1>2, EntriesAre DEF Bodies, Acknowledged
<1>4. QED
  BY <1>3 DEF Ledger!Init

(* Steps that commit nothing and answer nobody are not seen.               *)
LEMMA NotSeen ==
  ASSUME UNCHANGED <<auditLog, answered>>
  PROVE  UNCHANGED <<Entries, Acknowledged>>
<1>1. InSeqOrder' = InSeqOrder /\ Entries' = Entries
  BY EntriesAre
<1>2. QED
  BY <1>1 DEF Acknowledged

(* The commit of seed_users adds the missing announcements at once.        *)
LEMMA SeedIsMissing ==
  ASSUME LedgerInv, NEW a \in Api, CommitSeed(a)
  PROVE  Ledger!SeedMissing
<1>1. auditLog' = auditLog \cup pending[a] /\ answered' = answered
  BY DEF CommitSeed
<1>2. Entries' = Entries \o AtPlaces(SeedBodies, Unseeded) /\ Acknowledged' = Acknowledged
  BY <1>1, Disjoint, CommitEntries, SeedsInTurn DEF LedgerInv
<1>3. {i \in DOMAIN SeedBodies : ~Has(SeedBodies[i])} = Unseeded
  <2>1. DOMAIN SeedBodies = DOMAIN SeedOrder
        /\ \A i \in DOMAIN SeedOrder : SeedBodies[i] = Seeded(SeedOrder[i])
    BY DEF SeedBodies
  <2>2. \A i \in DOMAIN SeedOrder : Has(Seeded(SeedOrder[i])) <=> SeedOrder[i] \in users
    BY HasIs DEF User, LedgerInv
  <2>3. QED
    BY <2>1, <2>2 DEF Unseeded
<1>4. \A x : Ledger!Has(x) <=> Has(x)
  BY DEF Ledger!Has, Has
<1>5. {i \in DOMAIN SeedBodies : ~Ledger!Has(SeedBodies[i])} = Unseeded
  BY <1>3, <1>4
<1>6. Ledger!AtPlaces(SeedBodies, Unseeded) = AtPlaces(SeedBodies, Unseeded)
  BY SamePlaces
<1>7. Entries' = Entries \o
        Ledger!AtPlaces(SeedBodies, {i \in DOMAIN SeedBodies : ~Ledger!Has(SeedBodies[i])})
  BY <1>2, <1>5, <1>6
<1>8. QED
  BY <1>2, <1>7 DEF Ledger!SeedMissing, Ledger!Keep, SeedBodies

(* The commit of append_audit adds the entry that was asked for.           *)
LEMMA AppendIsRecord ==
  ASSUME LedgerInv, NEW h \in Handler, CommitAppend(h)
  PROVE  \E x \in Request : Ledger!Record(x)
<1>1. auditLog' = auditLog \cup pending[h] /\ answered' = answered /\ pc[h] = "commit" /\ h \in Proc
  BY Disjoint2 DEF CommitAppend
<1>2. PICK r \in pending[h] : pending[h] = {r}
  BY <1>1 DEF LedgerInv, IInv, LockInv
<1>3. r.seq \in Nat /\ r.body \in Request
  BY <1>1, <1>2, RowsOK DEF LedgerInv, IInv, AllRows, SeedInv, AppendInv
<1>4. Entries' = Entries \o Bodies(InTurn(pending[h])) /\ Acknowledged' = Acknowledged
  BY <1>1, CommitEntries DEF LedgerInv
<1>5. Bodies(<<r>>) = <<r.body>>
  BY DEF Bodies
<1>6. Entries' = Entries \o <<r.body>>
  BY <1>2, <1>3, <1>4, <1>5, OneInTurn
<1>7. Entries \in Seq(Body)
  <2>1. IsListing(InTurn(auditLog), auditLog, SeqOrder(auditLog))
    BY LogInTurn, SeqOrderIs, ListedFacts DEF InTurn, LedgerInv
  <2>2. InTurn(auditLog) \in Seq(auditLog)
    BY <2>1 DEF IsListing
  <2>3. \A x \in auditLog : x.body \in Body
    BY RowsOK DEF LedgerInv, IInv, AllRows
  <2>4. QED
    BY <2>2, <2>3, EntriesAre DEF Bodies
<1>8. Entries' = Append(Entries, r.body)
  <2>1. r.body \in Body
    BY <1>3 DEF Body
  <2>2. Append(Entries, r.body) = Entries \o <<r.body>>
    BY <1>7, <2>1
  <2>3. QED
    BY <1>6, <2>2
<1>9. Ledger!Record(r.body)
  BY <1>4, <1>8 DEF Ledger!Record
<1>10. QED
  BY <1>3, <1>9

(* An answer acknowledges the place of its row.                            *)
LEMMA AnswerAcknowledges ==
  ASSUME LedgerInv, NEW h \in Handler, Answer(h)
  PROVE  \/ \E i \in DOMAIN Entries : Ledger!Acknowledge(i)
         \/ UNCHANGED <<Entries, Acknowledged>>
<1>1. auditLog' = auditLog /\ answered' = answered \cup {result[h]} /\ pc[h] = "hooks"
  BY DEF Answer, dbVars
<1>2. result[h] \in auditLog /\ result[h].body \in Request
  BY <1>1 DEF LedgerInv, IInv, AnnounceInv, SeedTurnInv
<1>3. PICK i \in DOMAIN InSeqOrder : InSeqOrder[i] = result[h]
  BY <1>2, LogInTurn DEF LedgerInv
<1>4. InSeqOrder' = InSeqOrder /\ Entries' = Entries
  BY <1>1, EntriesAre
<1>5. \A j \in DOMAIN InSeqOrder : InSeqOrder[j] = result[h] => j = i
  <2>1. IsListing(InTurn(auditLog), auditLog, SeqOrder(auditLog))
    BY LogInTurn, SeqOrderIs, ListedFacts DEF InTurn, LedgerInv
  <2>2. \A j \in DOMAIN InSeqOrder : Cardinality(Below(auditLog, SeqOrder(auditLog), InSeqOrder[j])) = j - 1
    BY <2>1, EntriesAre DEF IsListing
  <2>3. \A j \in DOMAIN InSeqOrder : j \in Nat
    BY <2>1, EntriesAre DEF IsListing
  <2>4. SUFFICES ASSUME NEW j \in DOMAIN InSeqOrder, InSeqOrder[j] = result[h] PROVE j = i
    OBVIOUS
  <2>5. j - 1 = i - 1
    BY <1>3, <2>2, <2>4
  <2>6. QED
    BY <2>3, <2>5
<1>6. Acknowledged' = Acknowledged \cup {i}
  BY <1>1, <1>3, <1>4, <1>5 DEF Acknowledged
<1>7. DOMAIN Entries = DOMAIN InSeqOrder /\ Entries[i] \in Request
  BY <1>2, <1>3 DEF Entries
<1>8. CASE i \in Acknowledged
  BY <1>4, <1>6, <1>8
<1>9. CASE i \notin Acknowledged
  BY <1>3, <1>4, <1>6, <1>7, <1>9 DEF Ledger!Acknowledge
<1>10. QED
  BY <1>8, <1>9

(* Every step is a step of the abstract ledger or is not seen there.       *)
LEMMA LedgerStep ==
  ASSUME LedgerInv, [Next]_vars
  PROVE  [Ledger!Next]_<<Entries, Acknowledged>>
<1> USE DEF dbVars, txVars, apiVars, vars
<1>1. ASSUME NEW p \in Proc, Trigger(p) PROVE UNCHANGED <<auditLog, answered>>
  BY <1>1 DEF Trigger, LockChain, DrawSeq, InsertRow
<1>2. ASSUME NEW a \in Api,
             StartApi(a) \/ SkipUser(a) \/ SeedUser(a) \/ PrimeMetric(a) \/ PrimeFails(a) \/ Crash(a)
      PROVE  UNCHANGED <<auditLog, answered>>
  BY <1>2 DEF StartApi, SkipUser, SeedUser, PrimeMetric, PrimeFails, Crash
<1>3. ASSUME NEW h \in Handler, BeginAppend(h) \/ AbortAppend(h) \/ LoseReply(h)
      PROVE  UNCHANGED <<auditLog, answered>>
  BY <1>3 DEF BeginAppend, AbortAppend, LoseReply
<1>4. ASSUME NEW a \in Api, CommitSeed(a) PROVE Ledger!Next
  BY <1>4, SeedIsMissing DEF Ledger!Next
<1>5. ASSUME NEW h \in Handler, CommitAppend(h) PROVE Ledger!Next
  BY <1>5, AppendIsRecord DEF Ledger!Next
<1>6. ASSUME NEW h \in Handler, RunHooks(h) \/ HookFails(h)
      PROVE  Ledger!Next \/ UNCHANGED <<Entries, Acknowledged>>
  BY <1>6, AnswerAcknowledges DEF RunHooks, HookFails, Ledger!Next
<1>7. CASE UNCHANGED <<auditLog, answered>>
  BY <1>7, NotSeen
<1>8. \/ UNCHANGED <<auditLog, answered>>
      \/ Ledger!Next
      \/ UNCHANGED <<Entries, Acknowledged>>
  <2>1. CASE Next
    BY <1>1, <1>2, <1>3, <1>4, <1>5, <1>6, <2>1 DEF Next, Startup, Append1, Fault
  <2>2. CASE UNCHANGED vars
    BY <2>2
  <2>3. QED
    BY <2>1, <2>2
<1>9. QED
  BY <1>7, <1>8

(* The table, its trigger and the transactions of append_audit and         *)
(* seed_users implement one append-only ledger (001_schema.sql,            *)
(* db/repo.py, db/seed.py): rows only come at the end, seeding is one step *)
(* that adds exactly what is missing, and an answered append keeps its     *)
(* place.                                                                  *)
THEOREM LedgerImplemented == Spec => ImplementsLedger
<1>1. Init => Ledger!Init
  BY LedgerStarts
<1>2. LedgerInv /\ [Next]_vars => [Ledger!Next]_<<Entries, Acknowledged>>
  BY LedgerStep
<1>3. QED
  BY <1>1, <1>2, LedgerInvariance, PTL DEF Spec, ImplementsLedger, Ledger!Spec
=============================================================================
