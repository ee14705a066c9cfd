----------------------------- MODULE AuditChain -----------------------------
(***************************************************************************)
(* The audit ledger of Paritran: the table audit_log with its BEFORE       *)
(* INSERT hash-chain trigger (backend/paritran/db/migrations/              *)
(* 001_schema.sql), the two kinds of transaction that insert into it       *)
(* (append_audit in db/repo.py, seed_users in db/seed.py) and the          *)
(* chain-head metric the api process exposes (api/main.py).                *)
(*                                                                         *)
(* Several api processes may share the database.  Each seeds the users in  *)
(* one transaction when it starts, primes its metric, then serves; while   *)
(* serving, its handlers append one row per transaction.  PostgreSQL runs  *)
(* at READ COMMITTED and the trigger is VOLATILE, so every statement in    *)
(* the trigger sees the rows committed before it and the rows its own      *)
(* transaction has already inserted.                                       *)
(*                                                                         *)
(* SHA-256 is modelled as a free constructor: two digests are equal only   *)
(* if their preimages are.  The row's ts is part of the abstract body.     *)
(*                                                                         *)
(* The unique index on prev_hash is not a guard here.  NoFork states that  *)
(* it never has anything to reject, so the model with and without it have  *)
(* the same behaviours.                                                    *)
(***************************************************************************)
EXTENDS Naturals, Sequences

CONSTANTS
  Api,          \* api processes sharing the database
  Handler,      \* request handlers (coroutines) that call append_audit
  HomeOf,       \* the api process each handler runs in
  SeedOrder,    \* the usernames seed_users ensures, in the order of `wanted`
  Payload,      \* what a handler may append: (actor, action, payload)
  None,         \* no lock holder, no result, empty metric
  MaxRequests,  \* bound on calls of append_audit
  MaxStarts,    \* bound on starts of api processes
  MaxFaults     \* bound on crashes, aborted transactions and lost replies

User == {SeedOrder[i] : i \in DOMAIN SeedOrder}

(* A transaction is named by the process that runs it: the seeding         *)
(* transaction by its api process, an append by its handler.               *)
Proc == Api \cup Handler

ASSUME ProcAssumption ==
  /\ Api \cap Handler = {}
  /\ None \notin Proc
  /\ HomeOf \in [Handler -> Api]

ASSUME SeedAssumption ==
  /\ SeedOrder \in Seq(User)
  /\ \A i, j \in DOMAIN SeedOrder : SeedOrder[i] = SeedOrder[j] => i = j

ASSUME BoundAssumption ==
  /\ MaxRequests \in Nat
  /\ MaxStarts \in Nat
  /\ MaxFaults \in Nat

Home(p) == IF p \in Api THEN p ELSE HomeOf[p]

Seeded(u) == <<"user.seeded", u>>
Appended(x) == <<"append", x>>
Request == {Appended(x) : x \in Payload}
Body == {Seeded(u) : u \in User} \cup Request

Genesis == <<>>
Digest(prev, body) == <<prev, body>>

-----------------------------------------------------------------------------
VARIABLES
  auditLog,    \* committed rows of audit_log
  seqValue,    \* last value drawn from audit_log_seq
  lockHolder,  \* transaction holding the advisory lock, or None
  users,       \* committed usernames
  pc,          \* where each transaction stands
  body,        \* what the INSERT in progress of each transaction writes
  drawn,       \* the seq its trigger has drawn
  pending,     \* audit rows it has inserted and not yet committed
  newUsers,    \* usernames it has inserted and not yet committed
  nextUser,    \* index in SeedOrder of the seeding loop of each api process
  api,         \* lifecycle of each api process
  chainHead,   \* row exposed by the chain-head metric of each api process
  result,      \* row returned by the INSERT of each handler, once committed
  answered,    \* history: rows whose handler answered its caller
  spent        \* history: requests, starts and faults so far

dbVars == <<auditLog, seqValue, lockHolder, users>>
txVars == <<pc, body, drawn, pending, newUsers, nextUser>>
apiVars == <<api, chainHead, result, answered>>
vars == <<dbVars, txVars, apiVars, spent>>

Before(S, r) == {s \in S : s.seq < r.seq}
IsHead(S, r) == r \in S /\ \A s \in S : s.seq <= r.seq
Head0(S) == CHOOSE r \in S : IsHead(S, r)

(* SELECT hash ... ORDER BY seq DESC LIMIT 1, with the genesis constant    *)
(* for an empty table.                                                     *)
HashOfHead(S) == IF S = {} THEN Genesis ELSE Head0(S).hash

Row(n, b, prev) == [seq |-> n, body |-> b, prev |-> prev, hash |-> Digest(prev, b)]

Init ==
  /\ auditLog = {}
  /\ seqValue = 0
  /\ lockHolder = None
  /\ users = {}
  /\ pc = [p \in Proc |-> "idle"]
  /\ body = [p \in Proc |-> None]
  /\ drawn = [p \in Proc |-> 0]
  /\ pending = [p \in Proc |-> {}]
  /\ newUsers = [p \in Proc |-> {}]
  /\ nextUser = [a \in Api |-> 1]
  /\ api = [a \in Api |-> "down"]
  /\ chainHead = [a \in Api |-> None]
  /\ result = [h \in Handler |-> None]
  /\ answered = {}
  /\ spent = [requests |-> 0, starts |-> 0, faults |-> 0]

Spend(what, bound) ==
  /\ spent[what] < bound
  /\ spent' = [spent EXCEPT ![what] = @ + 1]

-----------------------------------------------------------------------------
(* The trigger audit_log_hash_chain, one action per statement.             *)

(* Mutant: the lock is tried, not awaited (pg_try_advisory_xact_lock). *)
LockChainNoWait(p) ==
  /\ pc[p] = "lock"
  /\ lockHolder' = p
  /\ pc' = [pc EXCEPT ![p] = "draw"]
  /\ UNCHANGED <<auditLog, seqValue, users, body, drawn, pending, newUsers, nextUser,
                 apiVars, spent>>

(* pg_advisory_xact_lock: waits until no other transaction holds it; a     *)
(* transaction that already holds it takes it again at once.               *)
LockChain(p) ==
  /\ pc[p] = "lock"
  /\ lockHolder \in {None, p}
  /\ lockHolder' = p
  /\ pc' = [pc EXCEPT ![p] = "draw"]
  /\ UNCHANGED <<auditLog, seqValue, users, body, drawn, pending, newUsers, nextUser,
                 apiVars, spent>>

(* NEW.seq := nextval('audit_log_seq'): never rolled back. *)
DrawSeq(p) ==
  /\ pc[p] = "draw"
  /\ seqValue' = seqValue + 1
  /\ drawn' = [drawn EXCEPT ![p] = seqValue + 1]
  /\ pc' = [pc EXCEPT ![p] = "head"]
  /\ UNCHANGED <<auditLog, lockHolder, users, body, pending, newUsers, nextUser,
                 apiVars, spent>>

(* Mutant: the head lookup misses the rows of its own transaction. *)
InsertRowCommittedHead(p) ==
  /\ pc[p] = "head"
  /\ pending' = [pending EXCEPT ![p] = @ \cup {Row(drawn[p], body[p], HashOfHead(auditLog))}]
  /\ pc' = [pc EXCEPT ![p] = IF p \in Api THEN "users" ELSE "commit"]
  /\ UNCHANGED <<dbVars, body, drawn, newUsers, nextUser, apiVars, spent>>

(* Mutant: the lock is freed at the end of the trigger, not of the         *)
(* transaction.                                                            *)
InsertRowUnlocks(p) ==
  /\ pc[p] = "head"
  /\ LET prev == HashOfHead(auditLog \cup pending[p])
     IN  pending' = [pending EXCEPT ![p] = @ \cup {Row(drawn[p], body[p], prev)}]
  /\ lockHolder' = None
  /\ pc' = [pc EXCEPT ![p] = IF p \in Api THEN "users" ELSE "commit"]
  /\ UNCHANGED <<auditLog, seqValue, users, body, drawn, newUsers, nextUser, apiVars, spent>>

(* Mutant: the hooks run inside the transaction, before its commit. *)
InsertRowAnnounces(p) ==
  /\ pc[p] = "head"
  /\ LET row == Row(drawn[p], body[p], HashOfHead(auditLog \cup pending[p]))
     IN  /\ pending' = [pending EXCEPT ![p] = @ \cup {row}]
         /\ chainHead' = [chainHead EXCEPT ![Home(p)] = row]
  /\ pc' = [pc EXCEPT ![p] = IF p \in Api THEN "users" ELSE "commit"]
  /\ UNCHANGED <<dbVars, body, drawn, newUsers, nextUser, api, result, answered, spent>>

(* Mutant: the seeding connection autocommits each statement. *)
InsertRowAutocommits(p) ==
  /\ pc[p] = "head"
  /\ LET row == Row(drawn[p], body[p], HashOfHead(auditLog \cup pending[p]))
     IN  IF p \in Api
         THEN /\ auditLog' = auditLog \cup {row}
              /\ users' = users \cup newUsers[p]
              /\ newUsers' = [newUsers EXCEPT ![p] = {}]
              /\ lockHolder' = None
              /\ UNCHANGED pending
         ELSE /\ pending' = [pending EXCEPT ![p] = @ \cup {row}]
              /\ UNCHANGED <<auditLog, users, newUsers, lockHolder>>
  /\ pc' = [pc EXCEPT ![p] = IF p \in Api THEN "users" ELSE "commit"]
  /\ UNCHANGED <<seqValue, body, drawn, nextUser, apiVars, spent>>

(* The head lookup and the insertion of the finished row. *)
InsertRow(p) ==
  /\ pc[p] = "head"
  /\ LET prev == HashOfHead(auditLog \cup pending[p])
     IN  pending' = [pending EXCEPT ![p] = @ \cup {Row(drawn[p], body[p], prev)}]
  /\ pc' = [pc EXCEPT ![p] = IF p \in Api THEN "users" ELSE "commit"]
  /\ UNCHANGED <<dbVars, body, drawn, newUsers, nextUser, apiVars, spent>>

(* Mutant: a session-level lock that the end of the transaction keeps. *)
EndTxKeepsLock(P) ==
  /\ lockHolder' = lockHolder
  /\ pending' = [p \in Proc |-> IF p \in P THEN {} ELSE pending[p]]
  /\ newUsers' = [p \in Proc |-> IF p \in P THEN {} ELSE newUsers[p]]

(* The transaction ends: its own state goes, the advisory lock is freed.   *)
EndTx(P) ==
  /\ lockHolder' = IF lockHolder \in P THEN None ELSE lockHolder
  /\ pending' = [p \in Proc |-> IF p \in P THEN {} ELSE pending[p]]
  /\ newUsers' = [p \in Proc |-> IF p \in P THEN {} ELSE newUsers[p]]

-----------------------------------------------------------------------------
(* Startup of an api process: seed_users, then the priming of the metric.  *)

StartApi(a) ==
  /\ api[a] = "down"
  /\ Spend("starts", MaxStarts)
  /\ api' = [api EXCEPT ![a] = "seeding"]
  /\ pc' = [pc EXCEPT ![a] = "users"]
  /\ nextUser' = [nextUser EXCEPT ![a] = 1]
  /\ UNCHANGED <<dbVars, body, drawn, pending, newUsers, chainHead, result, answered>>

(* Mutant: no wait for another transaction's uncommitted row. *)
CanInsertUserNoWait(a, u) ==
  /\ pc[a] = "users"
  /\ nextUser[a] \in DOMAIN SeedOrder
  /\ u = SeedOrder[nextUser[a]]

(* Mutant: the wanted users are a set, visited in any order. *)
CanInsertUserAnyOrder(a, u) ==
  /\ pc[a] = "users"
  /\ nextUser[a] \in DOMAIN SeedOrder
  /\ u \in User \ newUsers[a]
  /\ \A q \in Proc \ {a} : u \notin newUsers[q]

(* INSERT INTO users ... ON CONFLICT DO NOTHING waits while another        *)
(* transaction holds an uncommitted row with that username.                *)
CanInsertUser(a, u) ==
  /\ pc[a] = "users"
  /\ nextUser[a] \in DOMAIN SeedOrder
  /\ u = SeedOrder[nextUser[a]]
  /\ \A q \in Proc \ {a} : u \notin newUsers[q]

(* The user exists: nothing is inserted and no audit row is written. *)
SkipUser(a) ==
  \E u \in users :
    /\ CanInsertUser(a, u)
    /\ nextUser' = [nextUser EXCEPT ![a] = @ + 1]
    /\ UNCHANGED <<dbVars, pc, body, drawn, pending, newUsers, apiVars, spent>>

(* Mutant: the audit row of a new user names the wrong action. *)
SeedUserWrongAction(a) ==
  \E u \in User \ users :
    /\ CanInsertUser(a, u)
    /\ newUsers' = [newUsers EXCEPT ![a] = @ \cup {u}]
    /\ body' = [body EXCEPT ![a] = <<"user.created", u>>]
    /\ pc' = [pc EXCEPT ![a] = "lock"]
    /\ nextUser' = [nextUser EXCEPT ![a] = @ + 1]
    /\ UNCHANGED <<dbVars, drawn, pending, apiVars, spent>>

(* The user is new: its row is inserted, then the INSERT of user.seeded    *)
(* starts.                                                                 *)
SeedUser(a) ==
  \E u \in User \ users :
    /\ CanInsertUser(a, u)
    /\ newUsers' = [newUsers EXCEPT ![a] = @ \cup {u}]
    /\ body' = [body EXCEPT ![a] = Seeded(u)]
    /\ pc' = [pc EXCEPT ![a] = "lock"]
    /\ nextUser' = [nextUser EXCEPT ![a] = @ + 1]
    /\ UNCHANGED <<dbVars, drawn, pending, apiVars, spent>>

(* The single commit of seed_users. *)
CommitSeed(a) ==
  /\ pc[a] = "users"
  /\ nextUser[a] \notin DOMAIN SeedOrder
  /\ auditLog' = auditLog \cup pending[a]
  /\ users' = users \cup newUsers[a]
  /\ EndTx({a})
  /\ pc' = [pc EXCEPT ![a] = "idle"]
  /\ api' = [api EXCEPT ![a] = "priming"]
  /\ UNCHANGED <<seqValue, body, drawn, nextUser, chainHead, result, answered, spent>>

(* get_chain_head and _refresh_chain_head_metric, before the first request *)
(* is served; an empty table leaves the metric empty.                      *)
PrimeMetric(a) ==
  /\ api[a] = "priming"
  /\ api' = [api EXCEPT ![a] = "serving"]
  /\ chainHead' = [chainHead EXCEPT ![a] =
                     IF auditLog = {} THEN @ ELSE Head0(auditLog)]
  /\ UNCHANGED <<dbVars, txVars, result, answered, spent>>

(* The lookup fails or takes longer than CHECK_TIMEOUT_SECONDS: logged,    *)
(* never fatal.                                                            *)
PrimeFails(a) ==
  /\ api[a] = "priming"
  /\ Spend("faults", MaxFaults)
  /\ api' = [api EXCEPT ![a] = "serving"]
  /\ UNCHANGED <<dbVars, txVars, chainHead, result, answered>>

-----------------------------------------------------------------------------
(* append_audit, called by a handler of a serving api process.             *)

BeginAppend(h) ==
  /\ api[HomeOf[h]] = "serving"
  /\ pc[h] = "idle"
  /\ Spend("requests", MaxRequests)
  /\ \E x \in Payload : body' = [body EXCEPT ![h] = Appended(x)]
  /\ pc' = [pc EXCEPT ![h] = "lock"]
  /\ UNCHANGED <<dbVars, drawn, pending, newUsers, nextUser, apiVars>>

(* Leaving `async with pool.connection()` commits. *)
CommitAppend(h) ==
  /\ pc[h] = "commit"
  /\ auditLog' = auditLog \cup pending[h]
  /\ \E r \in pending[h] : result' = [result EXCEPT ![h] = r]
  /\ EndTx({h})
  /\ pc' = [pc EXCEPT ![h] = "hooks"]
  /\ UNCHANGED <<seqValue, users, body, drawn, nextUser, api, chainHead, answered, spent>>

Answer(h) ==
  /\ pc[h] = "hooks"
  /\ answered' = answered \cup {result[h]}
  /\ result' = [result EXCEPT ![h] = None]
  /\ pc' = [pc EXCEPT ![h] = "idle"]
  /\ UNCHANGED <<dbVars, body, drawn, pending, newUsers, nextUser, api>>

(* After the commit, in the handler's own coroutine: the hooks run and the *)
(* row is returned.                                                        *)
RunHooks(h) ==
  /\ Answer(h)
  /\ chainHead' = [chainHead EXCEPT ![HomeOf[h]] = result[h]]
  /\ UNCHANGED spent

(* A hook that raises is logged and swallowed. *)
HookFails(h) ==
  /\ Answer(h)
  /\ Spend("faults", MaxFaults)
  /\ UNCHANGED chainHead

-----------------------------------------------------------------------------
(* Faults. *)

(* The append fails before its commit (connection or server error): the    *)
(* transaction is rolled back, the drawn seq is lost.                      *)
AbortAppend(h) ==
  /\ h \in Handler
  /\ pc[h] \in {"lock", "draw", "head", "commit"}
  /\ Spend("faults", MaxFaults)
  /\ EndTx({h})
  /\ pc' = [pc EXCEPT ![h] = "idle"]
  /\ UNCHANGED <<auditLog, seqValue, users, body, drawn, nextUser, apiVars>>

(* The connection is lost while the commit is acknowledged: the row is in  *)
(* the table, the caller gets an error and the hooks do not run.           *)
LoseReply(h) ==
  /\ pc[h] = "hooks"
  /\ Spend("faults", MaxFaults)
  /\ result' = [result EXCEPT ![h] = None]
  /\ pc' = [pc EXCEPT ![h] = "idle"]
  /\ UNCHANGED <<dbVars, body, drawn, pending, newUsers, nextUser, api, chainHead, answered>>

(* The api process dies, or its startup is aborted: PostgreSQL rolls back  *)
(* every transaction of its connections, its metric is gone.               *)
Crash(a) ==
  /\ api[a] # "down"
  /\ Spend("faults", MaxFaults)
  /\ LET dead == {p \in Proc : Home(p) = a}
     IN  /\ EndTx(dead)
         /\ pc' = [p \in Proc |-> IF p \in dead THEN "idle" ELSE pc[p]]
         /\ result' = [h \in Handler |-> IF h \in dead THEN None ELSE result[h]]
  /\ api' = [api EXCEPT ![a] = "down"]
  /\ chainHead' = [chainHead EXCEPT ![a] = None]
  /\ UNCHANGED <<auditLog, seqValue, users, body, drawn, nextUser, answered>>

-----------------------------------------------------------------------------
Trigger(p) == LockChain(p) \/ DrawSeq(p) \/ InsertRow(p)

Startup(a) == SkipUser(a) \/ SeedUser(a) \/ CommitSeed(a) \/ PrimeMetric(a)

Append1(h) == CommitAppend(h) \/ RunHooks(h)

Fault ==
  \/ \E a \in Api : PrimeFails(a) \/ Crash(a)
  \/ \E h \in Handler : HookFails(h) \/ AbortAppend(h) \/ LoseReply(h)

Next ==
  \/ \E p \in Proc : Trigger(p)
  \/ \E a \in Api : StartApi(a) \/ Startup(a)
  \/ \E h \in Handler : BeginAppend(h) \/ Append1(h)
  \/ Fault

Spec == Init /\ [][Next]_vars

(* A transaction is at one statement at a time, and goes on when it can.   *)
(* The two waits are strong: PostgreSQL queues the waiters of an advisory  *)
(* lock and of a conflicting unique key.                                   *)
Fairness ==
  /\ \A a \in Api :
       /\ SF_vars(LockChain(a) \/ SkipUser(a) \/ SeedUser(a))
       /\ WF_vars(DrawSeq(a) \/ InsertRow(a) \/ CommitSeed(a) \/ PrimeMetric(a))
  /\ \A h \in Handler :
       /\ SF_vars(LockChain(h))
       /\ WF_vars(DrawSeq(h) \/ InsertRow(h) \/ Append1(h))

FairSpec == Spec /\ Fairness
-----------------------------------------------------------------------------
(***************************************************************************)
(* Properties.                                                             *)
(***************************************************************************)

(* A row of audit_log, as the trigger leaves it. *)
IsRow(r) == /\ r = Row(r.seq, r.body, r.prev)
            /\ r.seq \in Nat
            /\ r.body \in Body

InTrigger == {"draw", "head", "commit"}

(* Types of the state of db/repo.py, db/seed.py and the audit_log table;   *)
(* every stored hash is the digest of the row it is stored in.             *)
TypeOK ==
  /\ \A r \in auditLog : IsRow(r)
  /\ seqValue \in Nat
  /\ lockHolder \in Proc \cup {None}
  /\ users \subseteq User
  /\ pc \in [Proc -> {"idle", "users", "lock", "hooks"} \cup InTrigger]
  /\ body \in [Proc -> Body \cup {None}]
  /\ drawn \in [Proc -> Nat]
  /\ DOMAIN pending = Proc
  /\ \A p \in Proc : \A r \in pending[p] : IsRow(r)
  /\ newUsers \in [Proc -> SUBSET User]
  /\ nextUser \in [Api -> Nat]
  /\ api \in [Api -> {"down", "seeding", "priming", "serving"}]
  /\ DOMAIN chainHead = Api
  /\ DOMAIN result = Handler
  /\ spent \in [{"requests", "starts", "faults"} -> Nat]

(* verify_audit_chain(): the walk in seq order compares each row with the  *)
(* stored hash of the row before it and recomputes its digest; it returns  *)
(* the first row that disagrees.                                           *)
BadRows(S) == {r \in S : \/ r.prev # HashOfHead(Before(S, r))
                         \/ r.hash # Digest(r.prev, r.body)}

verify_audit_chain(S) ==
  IF BadRows(S) = {} THEN None
  ELSE (CHOOSE r \in BadRows(S) : \A s \in BadRows(S) : r.seq <= s.seq).seq

(* GET /api/audit/verify never reports a break: however transactions of    *)
(* several processes interleave, abort and leave gaps in seq, what is      *)
(* committed is one chain in seq order (001_schema.sql, "seq order equals  *)
(* chain order by construction").                                          *)
ChainVerifies == verify_audit_chain(auditLog) = None

(* No two rows, committed or about to be, extend the same row: the lock    *)
(* alone keeps the unique index on prev_hash from ever rejecting an append.*)
NoFork ==
  LET rows == auditLog \cup UNION {pending[p] : p \in Proc}
  IN  \A r, s \in rows : r.prev = s.prev => r = s

(* Rows become visible in seq order and stay: a page of the ledger once    *)
(* read (GET /api/audit/chain, ORDER BY seq LIMIT OFFSET) is never changed *)
(* and never has a row slipped in before its last one, although seq values *)
(* are drawn by concurrent transactions.                                   *)
CommitsInSeqOrder ==
  [][/\ auditLog \subseteq auditLog'
     /\ \A r \in auditLog' \ auditLog : \A s \in auditLog : s.seq < r.seq]_auditLog

(* Every seeded user has exactly one user.seeded row, and no row announces *)
(* a user that does not exist, although two starting processes seed the    *)
(* same users at once and either may die at any statement.                 *)
SeededOnce ==
  /\ \A u \in users : \E r \in auditLog : r.body = Seeded(u)
  /\ \A r \in auditLog, u \in User : r.body = Seeded(u) => u \in users
  /\ \A r, s \in auditLog : \A u \in User :
       r.body = Seeded(u) /\ s.body = Seeded(u) => r = s

(* What a caller was told, and what the metric anchors out of band, is in  *)
(* the committed chain: neither ever names a row that can still roll back. *)
AnnouncedIsCommitted ==
  /\ answered \subseteq auditLog
  /\ \A a \in Api : chainHead[a] # None => chainHead[a] \in auditLog

(* An append that starts is over some time later, whatever the other       *)
(* handlers and the seeding transactions of starting processes wait for.   *)
AppendEnds == \A h \in Handler : pc[h] = "lock" ~> pc[h] = "idle"

(* A process that starts gets to serve, or dies: two processes seeding the *)
(* same users never wait for each other forever (user row lock against     *)
(* advisory lock).                                                         *)
StartupEnds == \A a \in Api : api[a] = "seeding" ~> api[a] \in {"serving", "down"}

(* The claim of the metric's help text (api/main.py, AUDIT_CHAIN_HEAD):    *)
(* "head_hash and seq of the latest row".  Stated where it is easiest to   *)
(* meet: nothing is in flight anywhere.                                    *)
MetricIsLatestRow ==
  (\A p \in Proc : pc[p] = "idle") =>
     \A a \in Api : api[a] = "serving" /\ auditLog # {} => chainHead[a] = Head0(auditLog)
-----------------------------------------------------------------------------
(***************************************************************************)
(* The inductive invariant behind ChainVerifies, NoFork, CommitsInSeqOrder *)
(* SeededOnce and AnnouncedIsCommitted.                                    *)
(***************************************************************************)
AllRows == auditLog \cup UNION {pending[p] : p \in Proc}

(* The INSERT of an audit row is in progress. *)
Inserting(p) == pc[p] \in {"lock", "draw", "head"}

(* Whoever has drawn a seq or inserted a row holds the advisory lock, and  *)
(* each kind of transaction visits only its own control points.            *)
LockInv ==
  /\ \A p \in Proc : pc[p] \in InTrigger \/ pending[p] # {} => lockHolder = p
  /\ \A p \in Proc : Inserting(p) => body[p] \in Body
  /\ \A a \in Api : pc[a] \in {"idle", "users", "lock", "draw", "head"}
  /\ \A a \in Api : api[a] # "seeding" => pc[a] = "idle"
  /\ \A a \in Api : pc[a] = "idle" => pending[a] = {} /\ newUsers[a] = {}
  /\ \A h \in Handler : pc[h] # "users"
  /\ \A h \in Handler : IF pc[h] = "commit" THEN \E r \in pending[h] : pending[h] = {r}
                                             ELSE pending[h] = {}

(* seq grows along the chain, and pending rows are above committed ones. *)
OrderInv ==
  /\ \A r \in AllRows : r.seq <= seqValue
  /\ \A r, s \in AllRows : r.seq = s.seq => r = s
  /\ \A p \in Proc : \A r \in pending[p], s \in auditLog : s.seq < r.seq
  /\ \A p \in Proc : pc[p] = "head" => drawn[p] = seqValue /\ \A r \in AllRows : r.seq < drawn[p]

HasHead(S) == S = {} \/ \E r \in S : IsHead(S, r)

Linked(S, r) ==
  IF Before(S, r) = {} THEN r.prev = Genesis
  ELSE \E s \in Before(S, r) : IsHead(Before(S, r), s) /\ s.hash = r.prev

(* Committed and pending rows form one chain with pairwise distinct hashes *)
LinkInv ==
  /\ HasHead(auditLog)
  /\ HasHead(AllRows)
  /\ \A r \in AllRows : Linked(AllRows, r)
  /\ \A r, s \in AllRows : r.hash = s.hash => r = s

(* An append inserts no user and no user.seeded row. *)
AppendInv ==
  \A h \in Handler : /\ newUsers[h] = {}
                     /\ Inserting(h) => body[h] \in Request
                     /\ \A r \in pending[h] : r.body \in Request

(* A username is in at most one transaction, and not yet committed. *)
NewUsersInv ==
  /\ \A p, q \in Proc : p # q => newUsers[p] \cap newUsers[q] = {}
  /\ \A p \in Proc : newUsers[p] \cap users = {}
  /\ \A a \in Api : \A u \in newUsers[a] :
       \E i \in DOMAIN SeedOrder : i < nextUser[a] /\ u = SeedOrder[i]

(* Each new username has its audit row, or the INSERT of it in progress,   *)
(* and no audit row announces another.                                     *)
SeedRowsInv ==
  /\ \A a \in Api : \A u \in newUsers[a] :
       (\E r \in pending[a] : r.body = Seeded(u)) \/ (Inserting(a) /\ body[a] = Seeded(u))
  /\ \A a \in Api : \A r \in pending[a] : \E u \in newUsers[a] : r.body = Seeded(u)
  /\ \A a \in Api : Inserting(a) => \E u \in newUsers[a] : body[a] = Seeded(u)

(* No transaction announces a username twice. *)
SeedDistinctInv ==
  /\ \A p \in Proc : \A r, s \in pending[p] : r.body = s.body => r = s
  /\ \A a \in Api : Inserting(a) => \A r \in pending[a] : r.body # body[a]

SeedInv == AppendInv /\ NewUsersInv /\ SeedRowsInv /\ SeedDistinctInv

AnnounceInv ==
  \A h \in Handler : pc[h] = "hooks" => result[h] \in auditLog

(* All of the above together: what every step of the transactions keeps,   *)
(* and what the theorems about the chain are drawn from.                   *)
IInv ==
  /\ TypeOK
  /\ LockInv
  /\ OrderInv
  /\ LinkInv
  /\ SeedInv
  /\ SeededOnce
  /\ AnnounceInv
  /\ AnnouncedIsCommitted

(* What a commit needs to be one step of a ledger: a seeding transaction   *)
(* has gone through the usernames before nextUser, and its rows have their *)
(* order; the row a handler returns is one it asked for.                   *)
TurnOf(a) ==
  /\ nextUser[a] > 0
  /\ pc[a] # "idle" =>
       \A i \in DOMAIN SeedOrder : i < nextUser[a] => SeedOrder[i] \in users \cup newUsers[a]
  /\ Inserting(a) =>
       \E i \in DOMAIN SeedOrder : i + 1 = nextUser[a] /\ body[a] = Seeded(SeedOrder[i])
  /\ \A r, s \in pending[a] : \A i, j \in DOMAIN SeedOrder :
       r.body = Seeded(SeedOrder[i]) /\ s.body = Seeded(SeedOrder[j]) /\ i < j => r.seq < s.seq

SeedTurnInv ==
  /\ \A a \in Api : TurnOf(a)
  /\ \A h \in Handler : pc[h] = "hooks" => result[h].body \in Request

(* The inductive invariant behind the refinement of AuditLedger.           *)
LedgerInv == IInv /\ SeedTurnInv
=============================================================================
