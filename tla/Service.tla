-------------------------------- MODULE Service --------------------------------
(***************************************************************************)
(* Api processes on one database, from the start of a process (lifespan in *)
(* api/main.py: the secrets gate, the migrations, the seeding) to the      *)
(* requests it serves: logging in, writing to the audit chain and running  *)
(* the tamper test, by callers whose tokens expire.                        *)
(*                                                                         *)
(* The ledger is the one AuditLedger promises and AuditChain implements:   *)
(* an append and the seeding transaction are single steps here.            *)
(* RUN_MIGRATIONS_ON_STARTUP is true, as in the compose deployment.        *)
(***************************************************************************)
EXTENDS Migrations, Access, TamperTest

CONSTANTS
  Wanted,      \* the users seed_users ensures, in its order
  RoleOf,      \* the role of each
  Settings,    \* environments: [passwords : [User -> value], jwt, app : value]
  Deployable,  \* what a deployment may put into the migrations directory
  MaxStarts,   \* bound: starts of a process
  MaxEnds,     \* bound: processes that end, by a failure or a crash
  MaxDeploys,  \* bound: changes of the migrations directory
  MaxLogins,   \* bound: calls of login
  MaxRows,     \* bound: rows of the chain beyond which nobody writes
  MaxSkipped,  \* bound: seqs missing from the chain, drawn by appends that were rolled back
  MaxExpired   \* bound: how often the access tokens expire

User == {Wanted[i] : i \in DOMAIN Wanted}

ASSUME ServiceAssumption ==
  /\ Wanted \in Seq(User)
  /\ Len(Wanted) = 3
  /\ \A i, j \in DOMAIN Wanted : Wanted[i] = Wanted[j] => i = j
  /\ RoleOf \in [User -> ROLES]
  /\ "system" \notin User
  /\ None \notin {"", "CHANGE_ME"}
  /\ \A s \in Settings, u \in User : s.passwords[u] # None
  /\ Deployable \subseteq [file : File, content : Content]
  /\ {MaxStarts, MaxEnds, MaxDeploys, MaxLogins, MaxRows, MaxSkipped, MaxExpired} \subseteq Nat

VARIABLES
  env,      \* the settings each process was last started with, or None
  users,    \* the password each committed user was seeded with, or None
  ledger,   \* the committed rows of audit_log in seq order
  tokens,   \* the tokens callers hold that have not expired
  job,      \* where the tamper test of each process stands, or None
  spent     \* history: how often each bounded event has happened

serveVars == <<users, ledger, tokens, job>>
vars == <<migrationVars, env, serveVars, spent>>

Init ==
  /\ MigrationInit
  /\ env = [p \in Api |-> None]
  /\ users = [u \in User |-> None]
  /\ ledger = <<>>
  /\ tokens = {}
  /\ job = [p \in Api |-> None]
  /\ spent = [starts |-> 0, ends |-> 0, deploys |-> 0, logins |-> 0, expired |-> 0]

Spend(what, bound) ==
  /\ spent[what] < bound
  /\ spent' = [spent EXCEPT ![what] = @ + 1]

-----------------------------------------------------------------------------
(* Starting and ending a process.                                          *)

Placeholder == {"", "CHANGE_ME"}
(* Mutant: the seeded passwords are not looked at. *)
DegeneratePasswordsKept(s) == s.jwt \in Placeholder \cup {"short"} \/ s.app \in Placeholder
(* _reject_degenerate_secrets aborts the start on these.                   *)
Degenerate(s) ==
  \/ s.jwt \in Placeholder \cup {"short"}
  \/ s.app \in Placeholder
  \/ \E u \in User : s.passwords[u] \in Placeholder

Start(p, s) ==
  /\ ~Degenerate(s)
  /\ Goto(p, "down", "lock")
  /\ env' = [env EXCEPT ![p] = s]
  /\ Spend("starts", MaxStarts)
  /\ UNCHANGED <<disk, databaseVars, lock, known, todo, body, serveVars>>

MigrateStep(p) == Migrate(p) /\ UNCHANGED <<env, serveVars, spent>>

(* The seq a row gets, after those drawn by transactions rolled back.      *)
NextSeq(log) == HeadSeq(log) + 1 .. Len(log) + 1 + MaxSkipped

(* Insert-only: a user who exists keeps the password of the first seeding  *)
(* and is not announced again.                                             *)
SeedUser(log, first, u) ==
  IF users[u] # None THEN log
  ELSE Chained(log, first + (Len(log) - Len(ledger)), Body("system", "user.seeded", u))
Seed(p) ==
  /\ Goto(p, "seed", "serving")
  /\ users' = [u \in User |-> IF users[u] = None THEN env[p].passwords[u] ELSE users[u]]
  /\ \E first \in NextSeq(ledger) :
       ledger' = SeedUser(SeedUser(SeedUser(ledger, first, Wanted[1]), first, Wanted[2]),
                          first, Wanted[3])
  /\ UNCHANGED <<disk, databaseVars, lock, known, todo, body, env, tokens, job, spent>>

EndProcess(p) ==
  /\ End(p)
  /\ job' = [job EXCEPT ![p] = None]
  /\ Spend("ends", MaxEnds)
  /\ UNCHANGED <<env, users, ledger, tokens>>

Redeploy ==
  /\ \E d \in Deployable : Deploy(d.file, d.content)
  /\ Spend("deploys", MaxDeploys)
  /\ UNCHANGED <<env, serveVars>>

-----------------------------------------------------------------------------
(* Requests to a process that serves.                                      *)
Serving(p) == step[p] = "serving"

(* The password is verified against the row; the role comes from it.       *)
Login(p, u) ==
  /\ Serving(p) /\ users[u] # None
  /\ tokens' = tokens \cup IssuePair(u, RoleOf[u])
  /\ Spend("logins", MaxLogins)
  /\ UNCHANGED <<migrationVars, env, users, ledger, job>>

Refresh(p, token) ==
  /\ Serving(p) /\ DecodeToken(token, "refresh")
  /\ tokens' = tokens \cup IssuePair(token.sub, token.role)
  /\ UNCHANGED <<migrationVars, env, users, ledger, job, spent>>

(* JWT_ACCESS_TTL_SECONDS go by.                                           *)
AccessExpires ==
  /\ tokens' = {token \in tokens : token.typ # "access"}
  /\ Spend("expired", MaxExpired)
  /\ UNCHANGED <<migrationVars, env, users, ledger, job>>

(* append_audit, after the appends that drew a seq and were rolled back.   *)
AppendAudit(actor, action, detail) ==
  /\ Len(ledger) < MaxRows
  /\ \E n \in NextSeq(ledger) : ledger' = Chained(ledger, n, Body(actor, action, detail))

(* POST /api/decisions; POST /api/intake/artefact, which appends last: an  *)
(* empty, unsupported or unreadable upload ends before it.                 *)
Write(p, token) ==
  /\ Serving(p) /\ Admitted(token, "casework")
  /\ AppendAudit(token.sub, "casework", None)
  /\ UNCHANGED <<migrationVars, env, users, tokens, job, spent>>

(* One transaction copies the chain, corrupts the copy and walks it; with  *)
(* fewer than MIN_TAMPER_ROWS rows, or no break, the request ends there.   *)
ScratchTest(p, token) ==
  /\ Serving(p) /\ job[p] = None
  /\ Admitted(token, "tamper_test")
  /\ Len(ledger) >= MIN_TAMPER_ROWS
  /\ \E seq \in BreakSeq(ledger) :
       job' = [job EXCEPT ![p] =
                 [actor |-> token.sub, break |-> seq, corrupted |-> CorruptSeq(ledger),
                  rows |-> Len(ledger), ok |-> None]]
  /\ UNCHANGED <<migrationVars, env, users, ledger, tokens, spent>>

(* A second transaction walks the real chain as it is by now.              *)
ReverifyChain(p) ==
  /\ Serving(p) /\ job[p] # None /\ job[p].ok = None
  /\ job' = [job EXCEPT ![p].ok = VerifyChain(ledger)]
  /\ UNCHANGED <<migrationVars, env, users, ledger, tokens, spent>>

(* A third one appends the report.                                         *)
AppendReport(p) ==
  /\ Serving(p) /\ job[p] # None /\ job[p].ok # None
  /\ AppendAudit(job[p].actor, "tamper_test.run",
       [break |-> job[p].break, corrupted |-> job[p].corrupted,
        rows |-> job[p].rows, ok |-> job[p].ok])
  /\ job' = [job EXCEPT ![p] = None]
  /\ UNCHANGED <<migrationVars, env, users, tokens, spent>>

-----------------------------------------------------------------------------
Next ==
  \/ \E p \in Api :
       \/ \E s \in Settings : Start(p, s)
       \/ MigrateStep(p) \/ Seed(p) \/ EndProcess(p)
       \/ \E u \in User : Login(p, u)
       \/ \E token \in tokens :
            Refresh(p, token) \/ Write(p, token) \/ ScratchTest(p, token)
       \/ ReverifyChain(p) \/ AppendReport(p)
  \/ AccessExpires \/ Redeploy

Spec == Init /\ [][Next]_vars
(* A starting process goes on by itself; PostgreSQL queues the waiters.    *)
FairSpec == Spec /\ \A p \in Api : WF_vars(MigrateStep(p)) /\ WF_vars(Seed(p))

-----------------------------------------------------------------------------
(* A process that serves has every file of the first deployment applied,   *)
(* which are in each directory it can have listed; its role and table,     *)
(* every user of seed_users with a real password, and a chain no tamper    *)
(* test finds too short (lifespan; audit.py 199).                          *)
ServesReady ==
  \A p \in Api : Serving(p) =>
    /\ base = {"role", "bookkeeping"}
    /\ \A f \in File : Shipped[f] # None => recorded[f] # None
    /\ \A u \in User : users[u] \notin Placeholder \cup {None}
    /\ Len(ledger) >= MIN_TAMPER_ROWS

(* Every report on the chain is of a test that broke the copy exactly at   *)
(* the row it corrupted, a row of the chain with rows on both sides, all   *)
(* of them older than the report; and the chain itself verified, whatever  *)
(* was appended between the three transactions (audit.py 191-241).         *)
Report(log, d, k) ==
  /\ d.ok = TRUE
  /\ d.break = d.corrupted
  /\ d.rows \in 1 .. (k - 1)
  /\ \E j \in 2 .. (d.rows - 1) : log[j].seq = d.corrupted
TamperBreaksMidChain ==
  \A k \in DOMAIN ledger :
    ledger[k].body.action = "tamper_test.run" => Report(ledger, ledger[k].body.detail, k)

(* A row of the chain is the system's announcement of a user or the deed   *)
(* of a seeded user in a role that may do it: officers and supervisors     *)
(* decide and ingest, the auditor tampers and does nothing else (deps.py   *)
(* 103-131).                                                               *)
Deeds(role) ==
  IF role = "auditor" THEN {"tamper_test.run"} ELSE {"casework"}
RowsAuthorised ==
  \A k \in DOMAIN ledger :
    LET b == ledger[k].body
    IN \/ b.actor = "system" /\ b.action = "user.seeded"
       \/ b.actor \in User /\ users[b.actor] # None /\ b.action \in Deeds(RoleOf[b.actor])

(* A start never hangs: it comes to serve or it ends, also when another    *)
(* process holds the lock or dies with it (migrate.py 90, 124).            *)
StartEnds ==
  \A p \in Api : step[p] \in Holding \cup {"lock", "seed"} ~> step[p] \in {"serving", "down"}
=============================================================================
