-------------------------------- MODULE Daemon --------------------------------
(***************************************************************************)
(* cmd/agentchatd/cmds/serve.go, datalock.go: the life of the daemon, from *)
(* the lock on its data root over key, schema, bootstrap and the sweep of  *)
(* stale rows to serving, and back through a shutdown that has five        *)
(* seconds.  Several processes are started on one data root; any of them   *)
(* may be killed at any moment.                                            *)
(*                                                                         *)
(* Requests are seen as far as the rows and the shutdown depend on them:   *)
(* those that take an account on- and offline, any number at once for one  *)
(* account, and state streams.  AccountLifecycle has them in full.         *)
(***************************************************************************)
EXTENDS Naturals, FiniteSets

CONSTANTS
    Proc,        \* agentchatd processes, each may run again and again
    Inode,       \* of the lock file
    Account,
    Op,          \* slots for the requests a process is handling
    Migrations,  \* how many migrations the binary embeds
    Statements,  \* how many statements each has
    None

ASSUME DaemonAssumption ==
    /\ None \notin Proc \cup Inode \cup Account
    /\ Migrations \in Nat /\ Statements \in Nat

VARIABLES
    \* the processes
    pc,         \* pc[p]: where runServe stands
    fd,         \* fd[p]: the inode of the lock file that is open
    mem,        \* mem[p]: the master key in memory, named by who made it
    stmt,       \* stmt[p]: statements of the current migration it has run
    session,    \* session[p]: accounts with a Provider
    req,        \* req[p][o]: the request in a slot, its account, and whether
                \* it has had that account to itself
    watch,      \* watch[p]: "yes" while a client follows the state stream
    \* the data root
    path,       \* the inode agentchatd.lock names, or None
    socket,     \* who made the socket that is there, or None
    keyfile,    \* master.key: "none", "torn" or who made it
    ddl,        \* statements the database has seen
    recorded,   \* migrations in schema_migrations
    root,       \* the admin account: "none", "row" or "token"
    online,     \* accounts whose lifecycle_state is online
    \* histories
    raced,      \* a lock file was removed that another process had open
    shown,      \* root's token was printed
    lost,       \* a boot ended between creating root and printing
    stale,      \* rows may be online that nobody serves
    crossed     \* accounts whose requests have overlapped, until one that
                \* had the account to itself, or a sweep, wrote the row

procVars == <<pc, fd, mem, stmt, session, req, watch>>
diskVars == <<path, socket, keyfile, ddl, recorded, root, online>>
histVars == <<raced, shown, lost, stale, crossed>>
vars == <<procVars, diskVars, histVars>>

NoDb    == {"off", "opened", "locked", "nokey", "keying", "migrating", "unlocking", "removing"}
Booting == {"ready", "counted", "created", "issued", "booted", "swept"}
Up      == {"serving", "draining", "drained", "expired", "closing", "dbclosing"}
Place   == NoDb \cup Booting \cup Up
HoldsLock == Place \ {"off", "opened", "removing"}

Slot == [at : {"none", "dialing", "connected", "checked", "leaving"},
         a : Account \cup {None}, alone : {"yes", "no"}]
NoReq == [at |-> "none", a |-> None, alone |-> "yes"]
Idle == [o \in Op |-> NoReq]

TypeOK ==
    /\ pc       \in [Proc -> Place]
    /\ fd       \in [Proc -> Inode \cup {None}]
    /\ mem      \in [Proc -> Proc \cup {None}]
    /\ stmt     \in [Proc -> Nat]
    /\ session  \in [Proc -> SUBSET Account]
    /\ req      \in [Proc -> [Op -> Slot]]
    /\ watch    \in [Proc -> {"yes", "no"}]
    /\ path     \in Inode \cup {None}
    /\ socket   \in Proc \cup {None}
    /\ keyfile  \in Proc \cup {"none", "torn"}
    /\ ddl      \in Nat
    /\ recorded \in Nat
    /\ root     \in {"none", "row", "token"}
    /\ online   \subseteq Account
    /\ raced \in {"yes", "no"} /\ shown \in {"yes", "no"}
    /\ lost  \in {"yes", "no"} /\ stale \in {"yes", "no"}
    /\ crossed \subseteq Account

Init ==
    /\ pc = [p \in Proc |-> "off"]
    /\ fd = [p \in Proc |-> None]
    /\ mem = [p \in Proc |-> None]
    /\ stmt = [p \in Proc |-> 0]
    /\ session = [p \in Proc |-> {}]
    /\ req = [p \in Proc |-> Idle]
    /\ watch = [p \in Proc |-> "no"]
    /\ path = None /\ socket = None /\ keyfile = "none"
    /\ ddl = 0 /\ recorded = 0 /\ root = "none" /\ online = {}
    /\ raced = "no" /\ shown = "no" /\ lost = "no" /\ stale = "no"
    /\ crossed = {}

Moves(p, from, to) == pc[p] = from /\ pc' = [pc EXCEPT ![p] = to]

----------------------------------------------------------------------------
(* acquireDataRootLock and Release *)

\* os.OpenFile with O_CREATE: the inode that is there, or a new one.
OpenLock(p) ==
    /\ Moves(p, "off", "opened")
    /\ \E i \in Inode :
        /\ IF path = None THEN \A q \in Proc : fd[q] # i ELSE i = path
        /\ path' = i
        /\ fd' = [fd EXCEPT ![p] = i]
    /\ UNCHANGED <<mem, stmt, session, req, watch, socket, keyfile, ddl, recorded, root, online, histVars>>

Flock(p) ==
    /\ \A q \in Proc : fd[q] = fd[p] => pc[q] \notin HoldsLock
    /\ Moves(p, "opened", "locked")
    /\ UNCHANGED <<fd, mem, stmt, session, req, watch, diskVars, histVars>>

\* Mutant: the loser releases what it did not get, path and all.
FlockRefusedReleases(p) ==
    /\ \E q \in Proc : fd[q] = fd[p] /\ pc[q] \in HoldsLock
    /\ Moves(p, "opened", "removing")
    /\ fd' = [fd EXCEPT ![p] = None]
    /\ path' = None
    /\ UNCHANGED <<mem, stmt, session, req, watch, socket, keyfile, ddl, recorded, root, online, histVars>>

FlockRefused(p) ==
    /\ \E q \in Proc : fd[q] = fd[p] /\ pc[q] \in HoldsLock
    /\ Moves(p, "opened", "off")
    /\ fd' = [fd EXCEPT ![p] = None]
    /\ UNCHANGED <<mem, stmt, session, req, watch, diskVars, histVars>>

CloseLock(p) ==
    /\ Moves(p, "unlocking", "removing")
    /\ fd' = [fd EXCEPT ![p] = None]
    /\ UNCHANGED <<mem, stmt, session, req, watch, diskVars, histVars>>

\* What the process had in memory ends with it.
Forgets(p) ==
    /\ fd' = [fd EXCEPT ![p] = None]
    /\ mem' = [mem EXCEPT ![p] = None]
    /\ stmt' = [stmt EXCEPT ![p] = 0]
    /\ session' = [session EXCEPT ![p] = {}]
    /\ req' = [req EXCEPT ![p] = Idle]
    /\ watch' = [watch EXCEPT ![p] = "no"]

\* os.Remove takes the name away whatever it names by now, and runServe
\* returns.
RemoveLock(p) ==
    /\ Moves(p, "removing", "off")
    /\ Forgets(p)
    /\ path' = None
    /\ raced' = IF path # None /\ \E q \in Proc \ {p} : fd[q] = path THEN "yes" ELSE raced
    /\ UNCHANGED <<socket, keyfile, ddl, recorded, root, online, shown, lost, stale, crossed>>

----------------------------------------------------------------------------
(* LoadOrCreateMasterKey *)

\* A key file of the wrong length is an error, see BootFails.
ReadKey(p) ==
    /\ \/ keyfile = "none" /\ Moves(p, "locked", "nokey") /\ UNCHANGED mem
       \/ /\ keyfile \in Proc
          /\ Moves(p, "locked", "migrating")
          /\ mem' = [mem EXCEPT ![p] = keyfile]
    /\ UNCHANGED <<fd, stmt, session, req, watch, diskVars, histVars>>

\* os.WriteFile opens, empties and then writes the file.
OpenKeyFile(p) ==
    /\ Moves(p, "nokey", "keying")
    /\ keyfile' = "torn"
    /\ UNCHANGED <<fd, mem, stmt, session, req, watch, path, socket, ddl, recorded, root, online, histVars>>

WriteKeyFile(p) ==
    /\ Moves(p, "keying", "migrating")
    /\ keyfile' = p
    /\ mem' = [mem EXCEPT ![p] = p]
    /\ UNCHANGED <<fd, stmt, session, req, watch, path, socket, ddl, recorded, root, online, histVars>>

----------------------------------------------------------------------------
(* sqlite.Open: the migrations that are not recorded, in order *)

\* Every statement of a migration is a transaction of its own.  None can be
\* run twice: CREATE TABLE without IF NOT EXISTS, ADD and DROP COLUMN fail.
MigrateStatement(p) ==
    /\ pc[p] = "migrating"
    /\ recorded < Migrations
    /\ stmt[p] < Statements
    /\ ddl = recorded * Statements + stmt[p]
    /\ ddl' = ddl + 1
    /\ stmt' = [stmt EXCEPT ![p] = @ + 1]
    /\ UNCHANGED <<pc, fd, mem, session, req, watch, path, socket, keyfile, recorded, root, online, histVars>>

\* Mutant: the migration is recorded before its statements are run.
MigrateRecordFirst(p) ==
    /\ pc[p] = "migrating"
    /\ recorded < Migrations
    /\ stmt[p] = 0
    /\ recorded' = recorded + 1
    /\ stmt' = [stmt EXCEPT ![p] = 0]
    /\ UNCHANGED <<pc, fd, mem, session, req, watch, path, socket, keyfile, ddl, root, online, histVars>>

MigrateRecord(p) ==
    /\ pc[p] = "migrating"
    /\ recorded < Migrations
    /\ stmt[p] = Statements
    /\ recorded' = recorded + 1
    /\ stmt' = [stmt EXCEPT ![p] = 0]
    /\ UNCHANGED <<pc, fd, mem, session, req, watch, path, socket, keyfile, ddl, root, online, histVars>>

MigrateDone(p) ==
    /\ recorded = Migrations
    /\ Moves(p, "migrating", "ready")
    /\ UNCHANGED <<fd, mem, stmt, session, req, watch, diskVars, histVars>>

----------------------------------------------------------------------------
(* bootstrapRoot, the sweep, the socket *)

\* BootstrapRoot counts the accounts, then creates one.
CountAccounts(p) ==
    /\ IF root = "none" THEN Moves(p, "ready", "counted") ELSE Moves(p, "ready", "booted")
    /\ UNCHANGED <<fd, mem, stmt, session, req, watch, diskVars, histVars>>

CreateRoot(p) ==
    /\ root = "none"
    /\ Moves(p, "counted", "created")
    /\ root' = "row"
    /\ UNCHANGED <<fd, mem, stmt, session, req, watch, path, socket, keyfile, ddl, recorded, online, histVars>>

\* Mutant: the error of Issue is logged and the daemon starts.
IssueGoesOn(p) ==
    /\ Moves(p, "created", "booted")
    /\ UNCHANGED <<fd, mem, stmt, session, req, watch, diskVars, histVars>>

IssueToken(p) ==
    /\ root = "row"
    /\ Moves(p, "created", "issued")
    /\ root' = "token"
    /\ UNCHANGED <<fd, mem, stmt, session, req, watch, path, socket, keyfile, ddl, recorded, online, histVars>>

PrintToken(p) ==
    /\ Moves(p, "issued", "booted")
    /\ shown' = "yes"
    /\ UNCHANGED <<fd, mem, stmt, session, req, watch, diskVars, raced, lost, stale, crossed>>

\* reconcileStaleOnlineLifecycles at boot; an error is logged.
BootSweep(p) ==
    /\ Moves(p, "booted", "swept")
    /\ \/ online' = {} /\ stale' = "no" /\ crossed' = {}
       \/ UNCHANGED <<online, crossed>> /\ stale' = IF online # {} THEN "yes" ELSE stale
    /\ UNCHANGED <<fd, mem, stmt, session, req, watch, path, socket, keyfile, ddl, recorded, root,
                   raced, shown, lost>>

\* A socket that was left behind is removed and a new one made.
Listen(p) ==
    /\ Moves(p, "swept", "serving")
    /\ socket' = p
    /\ UNCHANGED <<fd, mem, stmt, session, req, watch, path, keyfile, ddl, recorded, root, online, histVars>>

\* Any error on the way, a key file of the wrong length or a statement that
\* was run before among them: runServe returns through its defers.
BootFails(p) ==
    /\ \/ pc[p] \in {"locked", "nokey", "keying", "migrating"} /\ pc' = [pc EXCEPT ![p] = "unlocking"]
       \/ pc[p] \in Booting /\ pc' = [pc EXCEPT ![p] = "closing"]
    /\ lost' = IF pc[p] \in {"created", "issued"} THEN "yes" ELSE lost
    /\ UNCHANGED <<fd, mem, stmt, session, req, watch, diskVars, raced, shown, stale, crossed>>

----------------------------------------------------------------------------
(* Requests: nothing but the Connector keeps those of one account apart *)

Handles(p, o, at, a) == req[p][o].at = at /\ req[p][o].a = a
Others(p, o, a) == {x \in Op \ {o} : req[p][x].a = a}

\* A slot takes a request for a; those for a that are under way have had it
\* to themselves no longer.
Begins(p, o, a, at) ==
    /\ req[p][o] = NoReq
    /\ req' = [req EXCEPT ![p] = [x \in Op |->
         IF x = o THEN [at |-> at, a |-> a, alone |-> IF Others(p, o, a) = {} THEN "yes" ELSE "no"]
         ELSE IF req[p][x].a = a THEN [at |-> req[p][x].at, a |-> a, alone |-> "no"]
         ELSE req[p][x]]]
    /\ crossed' = IF Others(p, o, a) = {} THEN crossed ELSE crossed \cup {a}
    /\ UNCHANGED <<raced, shown, lost, stale>>

Goes(p, o, a, to) ==
    req' = [req EXCEPT ![p] = [@ EXCEPT ![o] = [at |-> to, a |-> a, alone |-> req[p][o].alone]]]
Ends(p, o) == req' = [req EXCEPT ![p] = [@ EXCEPT ![o] = NoReq]]

\* The row is written: by a request that had the account to itself, it
\* agrees with the sessions from here on.
Writes(p, o, a) ==
    /\ crossed' = IF req[p][o].alone = "yes" THEN crossed \ {a} ELSE crossed
    /\ UNCHANGED <<raced, shown, lost, stale>>

\* Connector.Connect refuses an account with a session or a dial under way.
OnlineBegin(p, o, a) ==
    /\ pc[p] = "serving"
    /\ a \notin session[p]
    /\ \A x \in Op : ~Handles(p, x, "dialing", a)
    /\ Begins(p, o, a, "dialing")
    /\ UNCHANGED <<pc, fd, mem, stmt, session, watch, diskVars>>

\* The Connector does not refuse once Shutdown has run.
OnlineConnect(p, o, a) ==
    /\ Handles(p, o, "dialing", a)
    /\ Goes(p, o, a, "connected")
    /\ session' = [session EXCEPT ![p] = @ \cup {a}]
    /\ UNCHANGED <<pc, fd, mem, stmt, watch, diskVars, histVars>>

ConnectFails(p, o, a) ==
    /\ Handles(p, o, "dialing", a)
    /\ Ends(p, o)
    /\ UNCHANGED <<pc, fd, mem, stmt, session, watch, diskVars, histVars>>

\* Whether the session is still there is not asked again.
OnlineCommit(p, o, a) ==
    /\ pc[p] \in Up
    /\ Handles(p, o, "connected", a)
    /\ Ends(p, o)
    /\ online' = online \cup {a}
    /\ Writes(p, o, a)
    /\ UNCHANGED <<pc, fd, mem, stmt, session, watch, path, socket, keyfile, ddl, recorded, root>>

\* Connector.Disconnect by account; an error of the Provider keeps the
\* session.
Disconnects(p, a) ==
    \/ session' = [session EXCEPT ![p] = @ \ {a}]
    \/ UNCHANGED session

\* The transaction fails.
OnlineUndo(p, o, a) ==
    /\ Handles(p, o, "connected", a)
    /\ Ends(p, o)
    /\ Disconnects(p, a)
    /\ UNCHANGED <<pc, fd, mem, stmt, watch, diskVars, histVars>>

\* conn.Provider is asked, not the row.
OfflineCheck(p, o, a) ==
    /\ pc[p] = "serving"
    /\ a \in session[p]
    /\ Begins(p, o, a, "checked")
    /\ UNCHANGED <<pc, fd, mem, stmt, session, watch, diskVars>>

OfflineFails(p, o, a) ==
    /\ Handles(p, o, "checked", a)
    /\ Ends(p, o)
    /\ UNCHANGED <<pc, fd, mem, stmt, session, watch, diskVars, histVars>>

OfflineCommit(p, o, a) ==
    /\ pc[p] \in Up
    /\ Handles(p, o, "checked", a)
    /\ Goes(p, o, a, "leaving")
    /\ online' = online \ {a}
    /\ Writes(p, o, a)
    /\ UNCHANGED <<pc, fd, mem, stmt, session, watch, path, socket, keyfile, ddl, recorded, root>>

OfflineDisconnect(p, o, a) ==
    /\ Handles(p, o, "leaving", a)
    /\ Ends(p, o)
    /\ Disconnects(p, a)
    /\ UNCHANGED <<pc, fd, mem, stmt, watch, diskVars, histVars>>

WatchBegin(p) ==
    /\ pc[p] = "serving"
    /\ watch[p] = "no"
    /\ watch' = [watch EXCEPT ![p] = "yes"]
    /\ UNCHANGED <<pc, fd, mem, stmt, session, req, diskVars, histVars>>

WatchEnd(p) ==
    /\ watch[p] = "yes"
    /\ watch' = [watch EXCEPT ![p] = "no"]
    /\ UNCHANGED <<pc, fd, mem, stmt, session, req, diskVars, histVars>>

\* The last account is deleted (nobody is asked to keep an admin), whatever
\* its row says, when no request is under way: the next boot starts over with
\* root.
DeleteLastAccount(p) ==
    /\ pc[p] = "serving"
    /\ root # "none"
    /\ session[p] = {} /\ req[p] = Idle
    /\ root' = "none"
    /\ shown' = "no"
    /\ online' = {}
    /\ UNCHANGED <<procVars, path, socket, keyfile, ddl, recorded, raced, lost, stale, crossed>>

----------------------------------------------------------------------------
(* Shutdown *)

\* Mutant: the rows are swept while requests are still being served.
SignalSweepsFirst(p) ==
    /\ Moves(p, "serving", "drained")
    /\ socket' = None
    /\ UNCHANGED <<fd, mem, stmt, session, req, watch, path, keyfile, ddl, recorded, root, online, histVars>>

\* SIGTERM: srv.Shutdown closes the listener, which removes the socket.
Signal(p) ==
    /\ Moves(p, "serving", "draining")
    /\ socket' = None
    /\ UNCHANGED <<fd, mem, stmt, session, req, watch, path, keyfile, ddl, recorded, root, online, histVars>>

\* srv.Serve fails: no drain and no sweep.
ServeFails(p) ==
    /\ Moves(p, "serving", "closing")
    /\ socket' = None
    /\ stale' = "yes"
    /\ UNCHANGED <<fd, mem, stmt, session, req, watch, path, keyfile, ddl, recorded, root, online,
                   raced, shown, lost, crossed>>

\* Every connection has become idle.
DrainDone(p) ==
    /\ req[p] = Idle
    /\ watch[p] = "no"
    /\ Moves(p, "draining", "drained")
    /\ UNCHANGED <<fd, mem, stmt, session, req, watch, diskVars, histVars>>

\* ctx2 ends.
DrainTimeout(p) ==
    /\ Moves(p, "draining", "expired")
    /\ UNCHANGED <<fd, mem, stmt, session, req, watch, diskVars, histVars>>

\* The sweep has what srv.Shutdown left of ctx2; an error is logged.
FinalSweep(p) ==
    /\ \/ Moves(p, "drained", "closing") /\ online' = {} /\ crossed' = {} /\ UNCHANGED stale
       \/ /\ Moves(p, "drained", "closing") \/ Moves(p, "expired", "closing")
          /\ UNCHANGED <<online, crossed>>
          /\ stale' = "yes"
    /\ UNCHANGED <<fd, mem, stmt, session, req, watch, path, socket, keyfile, ddl, recorded, root,
                   raced, shown, lost>>

\* The defers: downloader, state bus and Connector.  The bus ends the state
\* streams, the Connector every session that is online.
CloseParts(p) ==
    /\ Moves(p, "closing", "dbclosing")
    /\ watch' = [watch EXCEPT ![p] = "no"]
    /\ session' = [session EXCEPT ![p] = {}]
    /\ UNCHANGED <<fd, mem, stmt, req, diskVars, histVars>>

CloseDb(p) ==
    /\ Moves(p, "dbclosing", "unlocking")
    /\ UNCHANGED <<fd, mem, stmt, session, req, watch, diskVars, histVars>>

\* SIGKILL, panic, power: the kernel drops the lock, the files stay.
Crash(p) ==
    /\ pc[p] # "off"
    /\ pc' = [pc EXCEPT ![p] = "off"]
    /\ Forgets(p)
    /\ lost' = IF pc[p] \in {"created", "issued"} THEN "yes" ELSE lost
    /\ stale' = IF online # {} THEN "yes" ELSE stale
    /\ UNCHANGED <<diskVars, raced, shown, crossed>>

----------------------------------------------------------------------------

Boot(p) ==
    \/ OpenLock(p) \/ Flock(p) \/ FlockRefused(p)
    \/ ReadKey(p) \/ OpenKeyFile(p) \/ WriteKeyFile(p)
    \/ MigrateStatement(p) \/ MigrateRecord(p) \/ MigrateDone(p)
    \/ CountAccounts(p) \/ CreateRoot(p) \/ IssueToken(p) \/ PrintToken(p)
    \/ BootSweep(p) \/ Listen(p) \/ BootFails(p)

Request(p) ==
    \/ WatchBegin(p) \/ WatchEnd(p) \/ DeleteLastAccount(p)
    \/ \E o \in Op, a \in Account :
        \/ OnlineBegin(p, o, a) \/ OnlineConnect(p, o, a) \/ ConnectFails(p, o, a)
        \/ OnlineCommit(p, o, a) \/ OnlineUndo(p, o, a)
        \/ OfflineCheck(p, o, a) \/ OfflineFails(p, o, a)
        \/ OfflineCommit(p, o, a) \/ OfflineDisconnect(p, o, a)

\* What runServe does by itself once the shutdown has begun.
WindDown(p) ==
    \/ DrainDone(p) \/ DrainTimeout(p) \/ FinalSweep(p)
    \/ CloseParts(p) \/ CloseDb(p) \/ CloseLock(p) \/ RemoveLock(p)

Next == \E p \in Proc :
    Boot(p) \/ Request(p) \/ Signal(p) \/ ServeFails(p) \/ WindDown(p) \/ Crash(p)

Spec == Init /\ [][Next]_vars

----------------------------------------------------------------------------
(* Properties *)

Running == {p \in Proc : pc[p] \in HoldsLock}
OneDaemon == \A p, q \in Running : p = q

\* M2-P3-001: the data root belongs to one daemon, the one that clients reach
\* at the socket, and it encrypts with the key that is on disk - unless a
\* leaving daemon removed the lock file under one that was just starting.
DataRootIsExclusive ==
    raced = "no" =>
        /\ OneDaemon
        /\ \A p \in Proc : pc[p] = "serving" => socket = p
        /\ \A p \in Running : mem[p] # None => mem[p] = keyfile

\* A store that was opened has every migration, each statement once, whatever
\* crashes and failed boots went before.
SchemaIsWhole ==
    \A p \in Proc : pc[p] \in Booting \cup {"serving"} =>
        recorded = Migrations /\ ddl = Migrations * Statements

\* An admin account nobody was shown the token of is one whose boot is still
\* under way, or ended right there.
RootTokenIsShown ==
    root # "none" /\ shown = "no" =>
        lost = "yes" \/ \E p \in Proc : pc[p] \in {"created", "issued"}

\* What the database says is online is served by a daemon, after a restart as
\* well, unless a crash, a shutdown that ran out of its five seconds or a
\* failed sweep left the row - and then until the next boot sweep - or requests
\* for the account have overlapped: an offline request between the dial and
\* the transaction of an online one leaves the row without a session, until a
\* request that has the account to itself writes the row.
OnlineRowsAreServed ==
    raced = "no" /\ stale = "no" => online \ crossed \subseteq UNION {session[p] : p \in Proc}

=============================================================================
