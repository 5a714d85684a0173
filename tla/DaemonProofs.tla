----------------------------- MODULE DaemonProofs -----------------------------
(***************************************************************************)
(* Daemon for every number of processes, accounts and migrations: outside  *)
(* the race for the lock file one daemon owns the data root; an opened     *)
(* store is whole; root's token is shown; rows that say online are served. *)
(*                                                                         *)
(* The invariant rests on the lock (every open lock file is the one the    *)
(* path names, and one process holds it), on the statements a migration    *)
(* has run, and on what requests still hold while the daemon winds down.   *)
(***************************************************************************)
EXTENDS Daemon, TLAPS

\* The process has the lock file open from the open to the close.
FdIsOpen == \A p \in Proc : fd[p] = None <=> pc[p] \in {"off", "removing"}

\* One process holds the lock on an inode.
FlockIsExclusive ==
    \A p, q \in Proc : pc[p] \in HoldsLock /\ pc[q] \in HoldsLock /\ fd[p] = fd[q] => p = q

\* Nobody has an inode open that the path does not name, until a leaving
\* daemon removes one that was just opened.
PathIsOpen == raced = "no" => \A p \in Proc : fd[p] # None => fd[p] = path

Lock == FdIsOpen /\ FlockIsExclusive /\ PathIsOpen

\* The key is read or made once, and nobody else makes another.
KeyIsFresh == \A p \in Proc : pc[p] \in {"off", "opened", "locked", "nokey", "keying"} => mem[p] = None
KeyIsOnDisk == raced = "no" => \A p \in Running : mem[p] # None => mem[p] = keyfile
SocketIsOurs == raced = "no" => \A p \in Proc : pc[p] = "serving" => socket = p

Key == KeyIsFresh /\ KeyIsOnDisk /\ SocketIsOurs

\* Only one process is inside a migration, and the database has seen just
\* the statements that it has run of it.
StatementsAreRecorded ==
    /\ recorded <= Migrations
    /\ recorded = Migrations => ddl = Migrations * Statements
    /\ \A p \in Proc : stmt[p] # 0 => ddl = recorded * Statements + stmt[p]
    /\ \A p, q \in Proc : stmt[p] # 0 /\ stmt[q] # 0 => p = q
    /\ \A p \in Proc : pc[p] \in Booting \cup {"serving"} => recorded = Migrations
    /\ Statements = 0 => ddl = 0

\* Requests begin only while the daemon serves, and a drained one has none.
\* One that had its account to itself and connected it has its session.
Serving == {"serving", "draining", "drained", "expired"}
RequestsEnd ==
    \A p \in Proc :
        pc[p] \in {"off", "opened", "locked", "nokey", "keying", "migrating", "drained"} \cup Booting
            => req[p] = Idle
ConnectedHasSession ==
    \A p \in Proc, o \in Op, a \in Account :
        pc[p] \in Serving /\ Handles(p, o, "connected", a) /\ req[p][o].alone = "yes" => a \in session[p]

\* Two requests at once for an account know of each other.
AloneIs ==
    \A p \in Proc, o, x \in Op :
        /\ req[p][o].a = None => req[p][o] = NoReq
        /\ req[p][o].a = req[p][x].a /\ req[p][o].a # None /\ req[p][o].alone = "yes" => o = x

\* A row that is online is served by the daemon that runs, and the request
\* for it that is under way, if any, has written nothing - or requests for
\* the account have overlapped.
RowsAreServed ==
    raced = "no" /\ stale = "no" =>
        /\ \A p \in Proc : pc[p] \in {"closing", "dbclosing"} => req[p] = Idle
        /\ \A p \in Proc, o \in Op, a \in Account :
            pc[p] \in Up /\ req[p][o].a = a /\ req[p][o].alone = "no" => a \in crossed
        /\ \A p \in Proc, o \in Op, a \in online \ crossed :
            pc[p] \in Up /\ req[p][o].a = a => req[p][o].at = "checked"
        /\ \A a \in online \ crossed : \E p \in Proc : pc[p] \in Serving /\ a \in session[p]

IInv == TypeOK /\ Lock /\ Key /\ StatementsAreRecorded /\ RequestsEnd /\ AloneIs
        /\ ConnectedHasSession /\ RowsAreServed /\ RootTokenIsShown

----------------------------------------------------------------------------
(* Types *)

USE DEF procVars, diskVars, histVars

LEMMA SlotIs == /\ Idle \in [Op -> Slot] /\ NoReq \in Slot
                /\ NoReq.at = "none" /\ NoReq.a = None /\ NoReq.alone = "yes"
                /\ \A o \in Op : Idle[o] = NoReq
BY DEF Slot, NoReq, Idle

LEMMA TypeInit == Init => TypeOK
BY SlotIs DEF Init, TypeOK, Place, NoDb

LEMMA SlotsAre ==
    ASSUME TypeOK, NEW p \in Proc, NEW o \in Op, NEW a \in Account,
           NEW at \in {"dialing", "connected", "checked", "leaving"},
           Begins(p, o, a, at) \/ Goes(p, o, a, at) \/ Ends(p, o)
    PROVE  req' \in [Proc -> [Op -> Slot]]
<1>1. CASE Begins(p, o, a, at)
  BY <1>1 DEF Begins, TypeOK, Slot
<1>2. CASE Goes(p, o, a, at)
  <2>1. [at |-> at, a |-> a, alone |-> req[p][o].alone] \in Slot
    BY DEF TypeOK, Slot
  <2> QED BY <1>2, <2>1 DEF Goes, TypeOK
<1>3. CASE Ends(p, o)
  BY <1>3, SlotIs DEF Ends, TypeOK
<1> QED BY <1>1, <1>2, <1>3

LEMMA TypeNext ==
    ASSUME TypeOK, [Next]_vars
    PROVE  TypeOK'
<1>0. /\ \A to \in {"off", "opened", "locked", "nokey", "keying", "migrating", "unlocking", "removing",
                    "ready", "counted", "created", "issued", "booted", "swept", "serving",
                    "draining", "drained", "expired", "closing", "dbclosing"} : to \in Place
      /\ Idle \in [Op -> Slot]
  BY SlotIs DEF Place, NoDb, Booting, Up
<1>a. ASSUME NEW p \in Proc, NEW o \in Op, NEW a \in Account,
             NEW at \in {"dialing", "connected", "checked", "leaving"},
             Begins(p, o, a, at) \/ Goes(p, o, a, at) \/ Ends(p, o)
      PROVE  req' \in [Proc -> [Op -> Slot]]
  BY <1>a, SlotsAre
<1> USE <1>0, DaemonAssumption DEF TypeOK, Moves, Forgets
<1>1. ASSUME NEW p \in Proc, Boot(p) PROVE TypeOK'
  <2>1. CASE OpenLock(p)
    BY <2>1 DEF OpenLock
  <2>2. CASE Flock(p)
    BY <2>2 DEF Flock
  <2>3. CASE FlockRefused(p)
    BY <2>3 DEF FlockRefused
  <2>4. CASE ReadKey(p)
    <3>1. /\ pc' = [pc EXCEPT ![p] = "nokey"] \/ pc' = [pc EXCEPT ![p] = "migrating"]
          /\ UNCHANGED mem \/ (keyfile \in Proc /\ mem' = [mem EXCEPT ![p] = keyfile])
      BY <2>4 DEF ReadKey
    <3>2. pc' \in [Proc -> Place]
      BY <3>1
    <3>3. mem' \in [Proc -> Proc \cup {None}]
      <4>1. CASE UNCHANGED mem
        BY <4>1
      <4>2. CASE keyfile \in Proc /\ mem' = [mem EXCEPT ![p] = keyfile]
        BY <4>2
      <4> QED BY <3>1, <4>1, <4>2
    <3> QED BY <2>4, <3>2, <3>3 DEF ReadKey
  <2>5. CASE OpenKeyFile(p)
    BY <2>5 DEF OpenKeyFile
  <2>6. CASE WriteKeyFile(p)
    BY <2>6 DEF WriteKeyFile
  <2>7. CASE MigrateStatement(p)
    BY <2>7 DEF MigrateStatement
  <2>8. CASE MigrateRecord(p)
    BY <2>8 DEF MigrateRecord
  <2>9. CASE MigrateDone(p)
    BY <2>9 DEF MigrateDone
  <2>10. CASE CountAccounts(p)
    BY <2>10 DEF CountAccounts
  <2>11. CASE CreateRoot(p)
    BY <2>11 DEF CreateRoot
  <2>12. CASE IssueToken(p)
    BY <2>12 DEF IssueToken
  <2>13. CASE PrintToken(p)
    BY <2>13 DEF PrintToken
  <2>14. CASE BootSweep(p)
    BY <2>14 DEF BootSweep
  <2>15. CASE Listen(p)
    BY <2>15 DEF Listen
  <2>16. CASE BootFails(p)
    BY <2>16 DEF BootFails
  <2> QED BY <1>1, <2>1, <2>2, <2>3, <2>4, <2>5, <2>6, <2>7, <2>8, <2>9, <2>10, <2>11, <2>12, <2>13, <2>14, <2>15, <2>16 DEF Boot
<1>2. ASSUME NEW p \in Proc, Request(p) PROVE TypeOK'
  <2>1. CASE WatchBegin(p)
    BY <2>1 DEF WatchBegin
  <2>2. CASE WatchEnd(p)
    BY <2>2 DEF WatchEnd
  <2>3. CASE DeleteLastAccount(p)
    BY <2>3 DEF DeleteLastAccount
  <2>4. ASSUME NEW o \in Op, NEW a \in Account, OnlineBegin(p, o, a) PROVE TypeOK'
    BY <1>a, <2>4 DEF OnlineBegin, Begins
  <2>5. ASSUME NEW o \in Op, NEW a \in Account, OnlineConnect(p, o, a) PROVE TypeOK'
    BY <1>a, <2>5 DEF OnlineConnect
  <2>6. ASSUME NEW o \in Op, NEW a \in Account, ConnectFails(p, o, a) PROVE TypeOK'
    BY <1>a, <2>6 DEF ConnectFails
  <2>7. ASSUME NEW o \in Op, NEW a \in Account, OnlineCommit(p, o, a) PROVE TypeOK'
    BY <1>a, <2>7 DEF OnlineCommit, Writes
  <2>8. ASSUME NEW o \in Op, NEW a \in Account, OnlineUndo(p, o, a) PROVE TypeOK'
    <3>1. session' \in [Proc -> SUBSET Account]
      BY <2>8 DEF OnlineUndo, Disconnects
    <3>2. req' \in [Proc -> [Op -> Slot]]
      BY <1>a, <2>8 DEF OnlineUndo
    <3> QED BY <2>8, <3>1, <3>2 DEF OnlineUndo
  <2>9. ASSUME NEW o \in Op, NEW a \in Account, OfflineCheck(p, o, a) PROVE TypeOK'
    BY <1>a, <2>9 DEF OfflineCheck, Begins
  <2>10. ASSUME NEW o \in Op, NEW a \in Account, OfflineFails(p, o, a) PROVE TypeOK'
    BY <1>a, <2>10 DEF OfflineFails
  <2>11. ASSUME NEW o \in Op, NEW a \in Account, OfflineCommit(p, o, a) PROVE TypeOK'
    BY <1>a, <2>11 DEF OfflineCommit, Writes
  <2>12. ASSUME NEW o \in Op, NEW a \in Account, OfflineDisconnect(p, o, a) PROVE TypeOK'
    <3>1. session' \in [Proc -> SUBSET Account]
      BY <2>12 DEF OfflineDisconnect, Disconnects
    <3>2. req' \in [Proc -> [Op -> Slot]]
      BY <1>a, <2>12 DEF OfflineDisconnect
    <3> QED BY <2>12, <3>1, <3>2 DEF OfflineDisconnect
  <2> QED BY <1>2, <2>1, <2>2, <2>3, <2>4, <2>5, <2>6, <2>7, <2>8, <2>9, <2>10, <2>11, <2>12 DEF Request
<1>3. ASSUME NEW p \in Proc, WindDown(p) PROVE TypeOK'
  <2>1. CASE DrainDone(p)
    BY <2>1 DEF DrainDone
  <2>2. CASE DrainTimeout(p)
    BY <2>2 DEF DrainTimeout
  <2>3. CASE FinalSweep(p)
    <3>1. /\ pc' = [pc EXCEPT ![p] = "closing"]
          /\ UNCHANGED <<fd, mem, stmt, session, req, watch, path, socket, keyfile, ddl, recorded, root,
                         raced, shown, lost>>
      BY <2>3 DEF FinalSweep
    <3>2. online' \subseteq Account /\ stale' \in {"yes", "no"} /\ crossed' \subseteq Account
      BY <2>3 DEF FinalSweep
    <3> QED BY <3>1, <3>2
  <2>4. CASE CloseParts(p)
    BY <2>4 DEF CloseParts
  <2>5. CASE CloseDb(p)
    BY <2>5 DEF CloseDb
  <2>6. CASE CloseLock(p)
    BY <2>6 DEF CloseLock
  <2>7. CASE RemoveLock(p)
    BY <2>7 DEF RemoveLock
  <2> QED BY <1>3, <2>1, <2>2, <2>3, <2>4, <2>5, <2>6, <2>7 DEF WindDown
<1>4. ASSUME NEW p \in Proc, Signal(p) \/ ServeFails(p) \/ Crash(p) PROVE TypeOK'
  <2>1. CASE Signal(p)
    BY <2>1 DEF Signal
  <2>2. CASE ServeFails(p)
    BY <2>2 DEF ServeFails
  <2>3. CASE Crash(p)
    BY <2>3 DEF Crash
  <2> QED BY <1>4, <2>1, <2>2, <2>3
<1>5. CASE UNCHANGED vars
  BY <1>5 DEF vars
<1> QED BY <1>1, <1>2, <1>3, <1>4, <1>5 DEF Next

----------------------------------------------------------------------------
(* The lock *)

\* The steps of a process that neither opens nor closes the lock file.
Inside(p) ==
    /\ UNCHANGED <<fd, path, raced>>
    /\ \/ UNCHANGED pc
       \/ pc[p] \in HoldsLock /\ \E to \in HoldsLock : pc' = [pc EXCEPT ![p] = to]

LEMMA InsideIs ==
    ASSUME [Next]_vars
    PROVE  \/ UNCHANGED vars
           \/ \E p \in Proc : \/ OpenLock(p) \/ Flock(p) \/ FlockRefused(p)
                              \/ CloseLock(p) \/ RemoveLock(p) \/ Crash(p)
                              \/ Inside(p)
<1> USE DEF Inside, Moves, HoldsLock, Place, NoDb, Booting, Up
<1>1. ASSUME NEW p \in Proc,
             \/ ReadKey(p) \/ OpenKeyFile(p) \/ WriteKeyFile(p)
             \/ MigrateStatement(p) \/ MigrateRecord(p) \/ MigrateDone(p)
      PROVE  Inside(p)
  BY <1>1 DEF ReadKey, OpenKeyFile, WriteKeyFile, MigrateStatement, MigrateRecord, MigrateDone
<1>2. ASSUME NEW p \in Proc,
             \/ CountAccounts(p) \/ CreateRoot(p) \/ IssueToken(p) \/ PrintToken(p)
             \/ BootSweep(p) \/ Listen(p) \/ BootFails(p)
      PROVE  Inside(p)
  BY <1>2 DEF CountAccounts, CreateRoot, IssueToken, PrintToken, BootSweep, Listen, BootFails
<1>3. ASSUME NEW p \in Proc, Request(p) PROVE Inside(p)
  BY <1>3 DEF Request, WatchBegin, WatchEnd, DeleteLastAccount, OnlineBegin, OnlineConnect, ConnectFails,
        OnlineCommit, OnlineUndo, OfflineCheck, OfflineFails, OfflineCommit, OfflineDisconnect,
        Begins, Writes
<1>4. ASSUME NEW p \in Proc,
             \/ DrainDone(p) \/ DrainTimeout(p) \/ FinalSweep(p) \/ CloseParts(p) \/ CloseDb(p)
             \/ Signal(p) \/ ServeFails(p)
      PROVE  Inside(p)
  BY <1>4 DEF DrainDone, DrainTimeout, FinalSweep, CloseParts, CloseDb, Signal, ServeFails
<1> HIDE DEF Inside
<1> QED BY <1>1, <1>2, <1>3, <1>4 DEF Next, Boot, WindDown

LEMMA LockNext ==
    ASSUME TypeOK, Lock, [Next]_vars
    PROVE  Lock'
<1> USE DaemonAssumption DEF TypeOK, Lock, FdIsOpen, FlockIsExclusive, PathIsOpen, Moves, HoldsLock,
        Place, NoDb, Booting, Up
<1>1. ASSUME NEW p \in Proc, OpenLock(p) PROVE Lock'
  BY <1>1 DEF OpenLock
<1>2. ASSUME NEW p \in Proc, Flock(p) PROVE Lock'
  BY <1>2 DEF Flock
<1>3. ASSUME NEW p \in Proc, FlockRefused(p) \/ CloseLock(p) PROVE Lock'
  <2>1. CASE FlockRefused(p)
    BY <1>3, <2>1 DEF FlockRefused
  <2>2. CASE CloseLock(p)
    BY <1>3, <2>2 DEF CloseLock
  <2> QED BY <1>3, <2>1, <2>2
<1>4. ASSUME NEW p \in Proc, RemoveLock(p) PROVE Lock'
  BY <1>4 DEF RemoveLock, Forgets
<1>5. ASSUME NEW p \in Proc, Crash(p) PROVE Lock'
  BY <1>5 DEF Crash, Forgets
<1>6. ASSUME NEW p \in Proc, Inside(p) PROVE Lock'
  <2>1. UNCHANGED <<fd, path, raced>>
    BY <1>6 DEF Inside
  <2>2. \A q \in Proc : pc'[q] = pc[q] \/ (pc[q] \in HoldsLock /\ pc'[q] \in HoldsLock)
    BY <1>6 DEF Inside
  <2>3. "off" \notin HoldsLock /\ "removing" \notin HoldsLock
    OBVIOUS
  <2>4. FdIsOpen' /\ PathIsOpen'
    BY <2>1, <2>2, <2>3
  <2>5. FlockIsExclusive'
    <3> HIDE DEF HoldsLock
    <3> QED BY <2>1, <2>2
  <2> QED BY <2>4, <2>5
<1>7. CASE UNCHANGED vars
  BY <1>7 DEF vars
<1> HIDE DEF Lock
<1> QED BY <1>1, <1>2, <1>3, <1>4, <1>5, <1>6, <1>7, InsideIs

\* Outside the race, who holds the lock is alone.
LEMMA LockIsExclusive ==
    ASSUME TypeOK, Lock, raced = "no"
    PROVE  OneDaemon
BY DEF OneDaemon, Running, TypeOK, Lock, FdIsOpen, FlockIsExclusive, PathIsOpen, HoldsLock, Place, NoDb,
       Booting, Up

----------------------------------------------------------------------------
(* The database *)

LEMMA Product ==
    ASSUME NEW m \in Nat, NEW n \in Nat
    PROVE  m * n \in Nat /\ (m + 1) * n = m * n + n /\ 0 * n = 0
OBVIOUS

LEMMA StatementsNext ==
    ASSUME TypeOK, StatementsAreRecorded, [Next]_vars
    PROVE  StatementsAreRecorded'
<1> USE DaemonAssumption DEF TypeOK, StatementsAreRecorded, Moves, Booting
<1>1. ASSUME NEW p \in Proc, MigrateStatement(p) PROVE StatementsAreRecorded'
  <2> DEFINE n == recorded * Statements
  <2>1. n \in Nat
    BY Product
  <2>2. ddl = n + stmt[p] /\ ddl' = ddl + 1 /\ UNCHANGED <<pc, recorded>> /\ recorded # Migrations
        /\ stmt' = [stmt EXCEPT ![p] = @ + 1] /\ Statements # 0
    BY <1>1 DEF MigrateStatement
  <2>3. \A q \in Proc : stmt[q] # 0 => ddl = n + stmt[q]
    OBVIOUS
  <2>4. \A q \in Proc \ {p} : stmt[q] = 0
    <3> SUFFICES ASSUME NEW q \in Proc \ {p}, stmt[q] # 0 PROVE FALSE
      OBVIOUS
    <3>1. stmt[p] = 0
      OBVIOUS
    <3>2. ddl = n /\ ddl = n + stmt[q] /\ stmt[q] \in Nat
      BY <2>1, <2>2, <2>3, <3>1
    <3> HIDE DEF n, StatementsAreRecorded, TypeOK
    <3> QED BY <2>1, <3>2
  <2>5. \A q \in Proc : stmt'[q] # 0 => ddl' = n + stmt'[q]
    BY <2>1, <2>2, <2>4
  <2>6. n' = n
    BY <2>2
  <2> HIDE DEF n
  <2>7. (\A q \in Proc : stmt'[q] # 0 => ddl' = n' + stmt'[q])
        /\ (\A q, r \in Proc : stmt'[q] # 0 /\ stmt'[r] # 0 => q = r)
    BY <2>2, <2>4, <2>5, <2>6
  <2> QED BY <2>2, <2>7 DEF n
<1>2. ASSUME NEW p \in Proc, MigrateRecord(p) PROVE StatementsAreRecorded'
  <2>1. ddl = (recorded + 1) * Statements
    BY <1>2, Product DEF MigrateRecord
  <2>2. recorded' = recorded + 1 /\ UNCHANGED <<pc, ddl>> /\ recorded < Migrations
        /\ stmt' = [stmt EXCEPT ![p] = 0] /\ stmt[p] = Statements
    BY <1>2 DEF MigrateRecord
  <2>3. \A q \in Proc : stmt'[q] = 0
    BY <2>2
  <2>4. recorded' <= Migrations /\ (Statements = 0 => ddl' = 0)
    BY <2>2
  <2>5. recorded' = Migrations => ddl' = Migrations * Statements
    BY <2>1, <2>2
  <2>6. \A q \in Proc : pc'[q] \in Booting \cup {"serving"} => recorded' = Migrations
    BY <2>2
  <2> QED BY <2>3, <2>4, <2>5, <2>6
<1>3. ASSUME NEW p \in Proc, RemoveLock(p) \/ Crash(p) PROVE StatementsAreRecorded'
  BY <1>3 DEF RemoveLock, Crash, Forgets
<1>4. ASSUME NEW p \in Proc, UNCHANGED <<ddl, recorded, stmt>>,
             \A q \in Proc : pc'[q] \in Booting \cup {"serving"} => recorded = Migrations
      PROVE  StatementsAreRecorded'
  BY <1>4
<1>5. ASSUME NEW p \in Proc, MigrateDone(p) PROVE StatementsAreRecorded'
  BY <1>4, <1>5 DEF MigrateDone
<1>6. ASSUME NEW p \in Proc,
             \/ OpenLock(p) \/ Flock(p) \/ FlockRefused(p) \/ ReadKey(p) \/ OpenKeyFile(p) \/ WriteKeyFile(p)
             \/ CountAccounts(p) \/ CreateRoot(p) \/ IssueToken(p) \/ PrintToken(p)
             \/ BootSweep(p) \/ Listen(p) \/ BootFails(p)
      PROVE  StatementsAreRecorded'
  <2>1. UNCHANGED <<ddl, recorded, stmt>>
    BY <1>6 DEF OpenLock, Flock, FlockRefused, ReadKey, OpenKeyFile, WriteKeyFile, CountAccounts, CreateRoot,
          IssueToken, PrintToken, BootSweep, Listen, BootFails
  <2>2. \A q \in Proc : pc'[q] \in Booting \cup {"serving"} => pc[q] \in Booting \cup {"serving"}
    BY <1>6 DEF OpenLock, Flock, FlockRefused, ReadKey, OpenKeyFile, WriteKeyFile, CountAccounts, CreateRoot,
          IssueToken, PrintToken, BootSweep, Listen, BootFails
  <2> QED BY <1>4, <2>1, <2>2
<1>7. ASSUME NEW p \in Proc, Request(p) PROVE StatementsAreRecorded'
  <2>1. UNCHANGED <<ddl, recorded, stmt, pc>>
    BY <1>7 DEF Request, WatchBegin, WatchEnd, DeleteLastAccount, OnlineBegin, OnlineConnect, ConnectFails,
        OnlineCommit, OnlineUndo, OfflineCheck, OfflineFails, OfflineCommit, OfflineDisconnect,
        Begins, Writes
  <2> QED BY <1>4, <2>1
<1>8. ASSUME NEW p \in Proc,
             \/ DrainDone(p) \/ DrainTimeout(p) \/ FinalSweep(p) \/ CloseParts(p) \/ CloseDb(p) \/ CloseLock(p)
             \/ Signal(p) \/ ServeFails(p)
      PROVE  StatementsAreRecorded'
  <2>1. UNCHANGED <<ddl, recorded, stmt>>
    BY <1>8 DEF DrainDone, DrainTimeout, FinalSweep, CloseParts, CloseDb, CloseLock, Signal, ServeFails
  <2>2. \A q \in Proc : pc'[q] \in Booting \cup {"serving"} => pc[q] \in Booting \cup {"serving"}
    BY <1>8 DEF DrainDone, DrainTimeout, FinalSweep, CloseParts, CloseDb, CloseLock, Signal, ServeFails
  <2> QED BY <1>4, <2>1, <2>2
<1>9. CASE UNCHANGED vars
  BY <1>9 DEF vars
<1> HIDE DEF StatementsAreRecorded
<1> QED BY <1>1, <1>2, <1>3, <1>5, <1>6, <1>7, <1>8, <1>9 DEF Next, Boot, WindDown

----------------------------------------------------------------------------
(* The first admin *)

LEMMA RootNext ==
    ASSUME TypeOK, RootTokenIsShown, [Next]_vars
    PROVE  RootTokenIsShown'
<1> USE DEF TypeOK, RootTokenIsShown, Moves
<1>1. ASSUME NEW p \in Proc, CreateRoot(p) PROVE RootTokenIsShown'
  BY <1>1 DEF CreateRoot
<1>2. ASSUME NEW p \in Proc, IssueToken(p) PROVE RootTokenIsShown'
  BY <1>2 DEF IssueToken
<1>3. ASSUME NEW p \in Proc, PrintToken(p) PROVE RootTokenIsShown'
  BY <1>3 DEF PrintToken
<1>4. ASSUME NEW p \in Proc, BootFails(p) PROVE RootTokenIsShown'
  BY <1>4 DEF BootFails
<1>5. ASSUME NEW p \in Proc, Crash(p) PROVE RootTokenIsShown'
  BY <1>5 DEF Crash
<1>6. ASSUME NEW p \in Proc,
             \/ OpenLock(p) \/ Flock(p) \/ FlockRefused(p) \/ ReadKey(p) \/ OpenKeyFile(p) \/ WriteKeyFile(p)
             \/ MigrateStatement(p) \/ MigrateRecord(p) \/ MigrateDone(p) \/ CountAccounts(p)
             \/ BootSweep(p) \/ Listen(p)
      PROVE  RootTokenIsShown'
  <2>1. UNCHANGED <<root, shown, lost>>
    BY <1>6 DEF OpenLock, Flock, FlockRefused, ReadKey, OpenKeyFile, WriteKeyFile, MigrateStatement,
          MigrateRecord, MigrateDone, CountAccounts, BootSweep, Listen
  <2>2. \A q \in Proc : pc[q] \in {"created", "issued"} => pc'[q] = pc[q]
    BY <1>6 DEF OpenLock, Flock, FlockRefused, ReadKey, OpenKeyFile, WriteKeyFile, MigrateStatement,
          MigrateRecord, MigrateDone, CountAccounts, BootSweep, Listen
  <2> QED BY <2>1, <2>2
<1>7. ASSUME NEW p \in Proc, DeleteLastAccount(p) PROVE RootTokenIsShown'
  BY <1>7 DEF DeleteLastAccount
<1>8. ASSUME NEW p \in Proc, Request(p), ~DeleteLastAccount(p) PROVE RootTokenIsShown'
  <2>1. UNCHANGED <<root, shown, lost, pc>>
    BY <1>8 DEF Request, WatchBegin, WatchEnd, OnlineBegin, OnlineConnect, ConnectFails,
        OnlineCommit, OnlineUndo, OfflineCheck, OfflineFails, OfflineCommit, OfflineDisconnect,
        Begins, Writes
  <2> QED BY <2>1
<1>9. ASSUME NEW p \in Proc, WindDown(p) \/ Signal(p) \/ ServeFails(p) PROVE RootTokenIsShown'
  <2>1. UNCHANGED <<root, shown, lost>>
    BY <1>9 DEF WindDown, DrainDone, DrainTimeout, FinalSweep, CloseParts, CloseDb, CloseLock, RemoveLock,
          Signal, ServeFails
  <2>2. \A q \in Proc : pc[q] \in {"created", "issued"} => pc'[q] = pc[q]
    BY <1>9 DEF WindDown, DrainDone, DrainTimeout, FinalSweep, CloseParts, CloseDb, CloseLock, RemoveLock,
          Signal, ServeFails
  <2> QED BY <2>1, <2>2
<1>10. CASE UNCHANGED vars
  BY <1>10 DEF vars
<1> HIDE DEF RootTokenIsShown
<1> QED BY <1>1, <1>2, <1>3, <1>4, <1>5, <1>6, <1>7, <1>8, <1>9, <1>10 DEF Next, Boot

----------------------------------------------------------------------------
(* The key and the socket *)

LEMMA KeyNext ==
    ASSUME TypeOK, Lock, Key, [Next]_vars
    PROVE  Key'
<1>0. raced = "no" => OneDaemon
  BY LockIsExclusive
<1> USE <1>0, DaemonAssumption DEF TypeOK, Key, KeyIsFresh, KeyIsOnDisk, SocketIsOurs, OneDaemon, Running, HoldsLock, Moves
<1>1. ASSUME NEW p \in Proc, OpenLock(p) \/ Flock(p) \/ FlockRefused(p) PROVE Key'
  <2>1. CASE OpenLock(p)
    BY <2>1 DEF OpenLock
  <2>2. CASE Flock(p)
    BY <2>2 DEF Flock
  <2>3. CASE FlockRefused(p)
    BY <2>3 DEF FlockRefused
  <2> QED BY <1>1, <2>1, <2>2, <2>3
<1>2. ASSUME NEW p \in Proc, ReadKey(p) PROVE Key'
  <2>1. CASE keyfile = "none" /\ UNCHANGED mem /\ pc' = [pc EXCEPT ![p] = "nokey"]
    BY <1>2, <2>1 DEF ReadKey
  <2>2. CASE mem' = [mem EXCEPT ![p] = keyfile] /\ pc' = [pc EXCEPT ![p] = "migrating"]
    BY <1>2, <2>2 DEF ReadKey
  <2> QED BY <1>2, <2>1, <2>2 DEF ReadKey
<1>3. ASSUME NEW p \in Proc, OpenKeyFile(p) PROVE Key'
  BY <1>3 DEF OpenKeyFile
<1>4. ASSUME NEW p \in Proc, WriteKeyFile(p) PROVE Key'
  BY <1>4 DEF WriteKeyFile
<1>5. ASSUME NEW p \in Proc, Listen(p) PROVE Key'
  BY <1>5 DEF Listen
<1>6. ASSUME NEW p \in Proc, Signal(p) \/ ServeFails(p) PROVE Key'
  <2>1. /\ UNCHANGED <<fd, mem, keyfile, raced>> /\ pc[p] = "serving"
        /\ \E to \in {"draining", "closing"} : pc' = [pc EXCEPT ![p] = to]
        /\ socket' = None
    BY <1>6 DEF Signal, ServeFails
  <2>2. /\ pc'[p] \in {"draining", "closing"}
        /\ \A q \in Proc \ {p} : pc'[q] = pc[q]
    BY <2>1
  <2>3. raced = "no" => \A q \in Proc : pc'[q] # "serving"
    BY <2>1, <2>2 DEF Place, NoDb, Up
  <2>4. KeyIsFresh' /\ KeyIsOnDisk'
    BY <2>1, <2>2
  <2> QED BY <2>1, <2>3, <2>4
<1>7. ASSUME NEW p \in Proc, RemoveLock(p) \/ Crash(p) PROVE Key'
  <2>1. CASE RemoveLock(p)
    BY <2>1 DEF RemoveLock, Forgets
  <2>2. CASE Crash(p)
    BY <2>2 DEF Crash, Forgets
  <2> QED BY <1>7, <2>1, <2>2
<1>8. ASSUME NEW p \in Proc,
             \/ MigrateStatement(p) \/ MigrateRecord(p) \/ MigrateDone(p)
             \/ CountAccounts(p) \/ CreateRoot(p) \/ IssueToken(p) \/ PrintToken(p)
             \/ BootSweep(p) \/ BootFails(p)
      PROVE  Key'
  <2>1. UNCHANGED <<mem, keyfile, socket, raced>>
    BY <1>8 DEF MigrateStatement, MigrateRecord, MigrateDone, CountAccounts, CreateRoot, IssueToken,
          PrintToken, BootSweep, BootFails
  <2>2. /\ \A q \in Proc : pc'[q] # "serving" \/ pc'[q] = pc[q]
        /\ \A q \in Proc : pc'[q] \in HoldsLock => pc[q] \in HoldsLock
        /\ \A q \in Proc : pc'[q] \in {"off", "opened", "locked", "nokey", "keying"} => pc'[q] = pc[q]
    BY <1>8 DEF MigrateStatement, MigrateRecord, MigrateDone, CountAccounts, CreateRoot, IssueToken,
          PrintToken, BootSweep, BootFails, Booting
  <2> QED BY <2>1, <2>2
<1>9. ASSUME NEW p \in Proc, Request(p) PROVE Key'
  <2>1. UNCHANGED <<mem, keyfile, socket, raced, pc>>
    BY <1>9 DEF Request, WatchBegin, WatchEnd, DeleteLastAccount, OnlineBegin, OnlineConnect, ConnectFails,
        OnlineCommit, OnlineUndo, OfflineCheck, OfflineFails, OfflineCommit, OfflineDisconnect,
        Begins, Writes
  <2> QED BY <2>1
<1>10. ASSUME NEW p \in Proc,
             DrainDone(p) \/ DrainTimeout(p) \/ FinalSweep(p) \/ CloseParts(p) \/ CloseDb(p) \/ CloseLock(p)
      PROVE  Key'
  <2>1. UNCHANGED <<mem, keyfile, socket, raced>>
    BY <1>10 DEF DrainDone, DrainTimeout, FinalSweep, CloseParts, CloseDb, CloseLock
  <2>2. /\ \A q \in Proc : pc'[q] # "serving" \/ pc'[q] = pc[q]
        /\ \A q \in Proc : pc'[q] \in HoldsLock => pc[q] \in HoldsLock
        /\ \A q \in Proc : pc'[q] \in {"off", "opened", "locked", "nokey", "keying"} => pc'[q] = pc[q]
    BY <1>10 DEF DrainDone, DrainTimeout, FinalSweep, CloseParts, CloseDb, CloseLock, Place, NoDb, Booting, Up
  <2> QED BY <2>1, <2>2
<1>11. CASE UNCHANGED vars
  BY <1>11 DEF vars
<1> HIDE DEF Key
<1> QED BY <1>1, <1>2, <1>3, <1>4, <1>5, <1>6, <1>7, <1>8, <1>9, <1>10, <1>11 DEF Next, Boot, WindDown

----------------------------------------------------------------------------
(* Requests and rows *)

\* What a step does to the requests.
LEMMA SlotsMove ==
    ASSUME [Next]_vars
    PROVE  \/ UNCHANGED req
           \/ \E p \in Proc : req' = [req EXCEPT ![p] = Idle]
           \/ \E p \in Proc, o \in Op, a \in Account :
                \/ \E at \in {"dialing", "checked"} : Begins(p, o, a, at)
                \/ \E at \in {"connected", "leaving"} : req[p][o].a = a /\ Goes(p, o, a, at)
                \/ Ends(p, o)
<1>1. ASSUME NEW p \in Proc, Boot(p) PROVE UNCHANGED req
  BY <1>1 DEF Boot, OpenLock, Flock, FlockRefused, ReadKey, OpenKeyFile, WriteKeyFile, MigrateStatement,
        MigrateRecord, MigrateDone, CountAccounts, CreateRoot, IssueToken, PrintToken, BootSweep, Listen, BootFails
<1>2. ASSUME NEW p \in Proc, NEW o \in Op, NEW a \in Account, OnlineBegin(p, o, a) \/ OfflineCheck(p, o, a)
      PROVE  \E at \in {"dialing", "checked"} : Begins(p, o, a, at)
  BY <1>2 DEF OnlineBegin, OfflineCheck
<1>3. ASSUME NEW p \in Proc, NEW o \in Op, NEW a \in Account, OnlineConnect(p, o, a) \/ OfflineCommit(p, o, a)
      PROVE  \E at \in {"connected", "leaving"} : req[p][o].a = a /\ Goes(p, o, a, at)
  BY <1>3 DEF OnlineConnect, OfflineCommit, Handles
<1>4. ASSUME NEW p \in Proc, NEW o \in Op, NEW a \in Account,
             \/ ConnectFails(p, o, a) \/ OnlineCommit(p, o, a) \/ OnlineUndo(p, o, a)
             \/ OfflineFails(p, o, a) \/ OfflineDisconnect(p, o, a)
      PROVE  Ends(p, o)
  BY <1>4 DEF ConnectFails, OnlineCommit, OnlineUndo, OfflineFails, OfflineDisconnect
<1>5. ASSUME NEW p \in Proc,
             \/ WatchBegin(p) \/ WatchEnd(p) \/ DeleteLastAccount(p) \/ Signal(p) \/ ServeFails(p)
             \/ DrainDone(p) \/ DrainTimeout(p) \/ FinalSweep(p) \/ CloseParts(p) \/ CloseDb(p) \/ CloseLock(p)
      PROVE  UNCHANGED req
  BY <1>5 DEF WatchBegin, WatchEnd, DeleteLastAccount, Signal, ServeFails, DrainDone, DrainTimeout, FinalSweep,
        CloseParts, CloseDb, CloseLock
<1>6. ASSUME NEW p \in Proc, RemoveLock(p) \/ Crash(p) PROVE req' = [req EXCEPT ![p] = Idle]
  BY <1>6 DEF RemoveLock, Crash, Forgets
<1>7. CASE UNCHANGED vars
  BY <1>7 DEF vars
<1> QED BY <1>1, <1>2, <1>3, <1>4, <1>5, <1>6, <1>7 DEF Next, Request, WindDown

\* What a request that begins does to the slots, and to the histories.
LEMMA BeginIs ==
    ASSUME TypeOK, AloneIs, NEW p \in Proc, NEW o \in Op, NEW a \in Account,
           NEW at \in {"dialing", "checked"}, Begins(p, o, a, at)
    PROVE  /\ \A q \in Proc \ {p} : req'[q] = req[q]
           /\ req[p][o] = NoReq
           /\ req'[p][o].at = at /\ req'[p][o].a = a
           /\ \A x \in Op \ {o} : /\ req'[p][x].at = req[p][x].at /\ req'[p][x].a = req[p][x].a
                                  /\ req[p][x].a # a => req'[p][x] = req[p][x]
                                  /\ req[p][x].a = a => req'[p][x].alone = "no" /\ req'[p][o].alone = "no"
           /\ \/ crossed' = crossed \cup {a}
              \/ /\ crossed' = crossed /\ req'[p][o].alone = "yes"
                 /\ \A x \in Op \ {o} : req[p][x].a # a
BY SlotIs DEF Begins, Others, TypeOK, Slot

LEMMA GoIs ==
    ASSUME TypeOK, NEW p \in Proc, NEW o \in Op, NEW a \in Account,
           NEW at \in {"connected", "leaving"}, req[p][o].a = a, Goes(p, o, a, at)
    PROVE  /\ \A q \in Proc \ {p} : req'[q] = req[q]
           /\ \A x \in Op \ {o} : req'[p][x] = req[p][x]
           /\ req'[p][o].at = at /\ req'[p][o].a = a /\ req'[p][o].alone = req[p][o].alone
BY DEF Goes, TypeOK, Slot

LEMMA EndIs ==
    ASSUME TypeOK, NEW p \in Proc, NEW o \in Op, Ends(p, o)
    PROVE  /\ \A q \in Proc \ {p} : req'[q] = req[q]
           /\ \A x \in Op \ {o} : req'[p][x] = req[p][x]
           /\ req'[p][o] = NoReq
BY DEF Ends, TypeOK

LEMMA AloneNext ==
    ASSUME TypeOK, AloneIs, [Next]_vars
    PROVE  AloneIs'
<1>1. CASE UNCHANGED req
  BY <1>1 DEF AloneIs
<1>2. ASSUME NEW p \in Proc, req' = [req EXCEPT ![p] = Idle] PROVE AloneIs'
  BY <1>2, SlotIs DEF AloneIs, TypeOK
<1>3. ASSUME NEW p \in Proc, NEW o \in Op, NEW a \in Account,
             \E at \in {"dialing", "checked"} : Begins(p, o, a, at)
      PROVE  AloneIs'
  <2>1. PICK at \in {"dialing", "checked"} : Begins(p, o, a, at)
    BY <1>3
  <2>2. a # None
    BY DaemonAssumption
  <2>3. \A x \in Op : req'[p][x].a = None => req'[p][x] = NoReq
    BY <2>1, <2>2, BeginIs DEF AloneIs
  <2>4. \A x, y \in Op : req'[p][x].a = req'[p][y].a /\ req'[p][x].a # None /\ req'[p][x].alone = "yes" => x = y
    BY <2>1, <2>2, BeginIs DEF AloneIs
  <2>5. \A q \in Proc \ {p} : req'[q] = req[q]
    BY <2>1, BeginIs
  <2> QED BY <2>3, <2>4, <2>5 DEF AloneIs
<1>4. ASSUME NEW p \in Proc, NEW o \in Op, NEW a \in Account,
             \E at \in {"connected", "leaving"} : req[p][o].a = a /\ Goes(p, o, a, at)
      PROVE  AloneIs'
  <2>1. PICK at \in {"connected", "leaving"} : req[p][o].a = a /\ Goes(p, o, a, at)
    BY <1>4
  <2>2. a # None
    BY DaemonAssumption
  <2> QED BY <2>1, <2>2, GoIs DEF AloneIs
<1>5. ASSUME NEW p \in Proc, NEW o \in Op, Ends(p, o) PROVE AloneIs'
  BY <1>5, EndIs, SlotIs DEF AloneIs
<1> HIDE DEF AloneIs
<1> QED BY <1>1, <1>2, <1>3, <1>4, <1>5, SlotsMove

LEMMA RequestsNext ==
    ASSUME TypeOK, AloneIs, RequestsEnd, ConnectedHasSession, [Next]_vars
    PROVE  RequestsEnd' /\ ConnectedHasSession'
<1> DEFINE Both == RequestsEnd /\ ConnectedHasSession
<1> SUFFICES Both'
  OBVIOUS
<1>0. \A o \in Op : Idle[o].at = "none" /\ Idle[o].a = None /\ Idle[o] = NoReq
  BY SlotIs
<1> USE <1>0 DEF TypeOK, RequestsEnd, ConnectedHasSession, Handles, Serving, Booting, Moves
<1>1. ASSUME NEW p \in Proc, Boot(p) PROVE Both'
  <2>1. UNCHANGED <<req, session>>
    BY <1>1 DEF Boot, OpenLock, Flock, FlockRefused, ReadKey, OpenKeyFile, WriteKeyFile, MigrateStatement,
          MigrateRecord, MigrateDone, CountAccounts, CreateRoot, IssueToken, PrintToken, BootSweep, Listen, BootFails
  <2>2. \A q \in Proc : pc'[q] = pc[q] \/ req[q] = Idle
    BY <1>1 DEF Boot, OpenLock, Flock, FlockRefused, ReadKey, OpenKeyFile, WriteKeyFile, MigrateStatement,
          MigrateRecord, MigrateDone, CountAccounts, CreateRoot, IssueToken, PrintToken, BootSweep, Listen, BootFails
  <2> QED BY <2>1, <2>2
<1>2. ASSUME NEW p \in Proc, NEW o \in Op, NEW a \in Account, NEW at \in {"dialing", "checked"},
             pc[p] = "serving", Begins(p, o, a, at), UNCHANGED <<pc, session>>
      PROVE Both'
  <2>1. RequestsEnd'
    BY <1>2, BeginIs
  <2>2. ConnectedHasSession'
    <3> SUFFICES ASSUME NEW q \in Proc, NEW x \in Op, NEW b \in Account,
                        pc[q] \in Serving, req'[q][x].at = "connected", req'[q][x].a = b, req'[q][x].alone = "yes"
                 PROVE  b \in session'[q]
      BY <1>2
    <3>1. q # p \/ x # o
      BY <1>2, BeginIs
    <3>2. req'[q][x] = req[q][x]
      BY <1>2, <3>1, BeginIs
    <3> QED BY <1>2, <3>2
  <2> QED BY <2>1, <2>2
\* A slot of a process that winds down has no request where there are none.
<1>b. ASSUME NEW p \in Proc, NEW o \in Op, req[p][o].at # "none"
      PROVE  pc[p] \notin {"off", "opened", "locked", "nokey", "keying", "migrating", "drained"} \cup Booting
  BY <1>b
<1>3. ASSUME NEW p \in Proc, NEW o \in Op, NEW a \in Account, OnlineConnect(p, o, a) PROVE Both'
  <2>1. req[p][o].at = "dialing" /\ req[p][o].a = a /\ Goes(p, o, a, "connected")
    BY <1>3 DEF OnlineConnect
  <2>2. UNCHANGED pc /\ session' = [session EXCEPT ![p] = @ \cup {a}]
    BY <1>3 DEF OnlineConnect
  <2>3. RequestsEnd'
    BY <1>b, <2>1, <2>2, GoIs
  <2>4. ConnectedHasSession'
    <3> SUFFICES ASSUME NEW q \in Proc, NEW x \in Op, NEW b \in Account,
                        pc[q] \in Serving, req'[q][x].at = "connected", req'[q][x].a = b, req'[q][x].alone = "yes"
                 PROVE  b \in session'[q]
      BY <2>2
    <3>1. CASE q = p /\ x = o
      BY <2>1, <2>2, <3>1, GoIs
    <3>2. CASE q # p \/ x # o
      <4>1. req'[q][x] = req[q][x]
        BY <2>1, <3>2, GoIs
      <4> QED BY <2>2, <4>1
    <3> QED BY <3>1, <3>2
  <2> QED BY <2>3, <2>4
<1>4. ASSUME NEW p \in Proc, NEW o \in Op, NEW a \in Account,
             ConnectFails(p, o, a) \/ OnlineCommit(p, o, a) \/ OfflineFails(p, o, a)
      PROVE  Both'
  <2>1. req[p][o].at # "none" /\ Ends(p, o) /\ UNCHANGED <<pc, session>>
    BY <1>4 DEF ConnectFails, OnlineCommit, OfflineFails
  <2>2. RequestsEnd'
    BY <1>b, <2>1, EndIs
  <2>3. ConnectedHasSession'
    <3> SUFFICES ASSUME NEW q \in Proc, NEW x \in Op, NEW b \in Account,
                        pc[q] \in Serving, req'[q][x].at = "connected", req'[q][x].a = b, req'[q][x].alone = "yes"
                 PROVE  b \in session'[q]
      BY <2>1
    <3>1. q # p \/ x # o
      BY <2>1, EndIs, SlotIs
    <3>2. req'[q][x] = req[q][x]
      BY <2>1, <3>1, EndIs
    <3> QED BY <2>1, <3>2
  <2> QED BY <2>2, <2>3
<1>5. ASSUME NEW p \in Proc, NEW o \in Op, NEW a \in Account, OnlineUndo(p, o, a) \/ OfflineDisconnect(p, o, a)
      PROVE  Both'
  <2>1. req[p][o].at # "none" /\ req[p][o].a = a /\ Ends(p, o) /\ UNCHANGED pc
    BY <1>5 DEF OnlineUndo, OfflineDisconnect
  <2>2. session' = [session EXCEPT ![p] = @ \ {a}] \/ UNCHANGED session
    BY <1>5 DEF OnlineUndo, OfflineDisconnect, Disconnects
  <2>3. \A x \in Op \ {o} : req[p][x].a = a => req[p][x].alone # "yes"
    BY <2>1, DaemonAssumption DEF AloneIs
  <2>4. RequestsEnd'
    BY <1>b, <2>1, EndIs
  <2>5. ConnectedHasSession'
    <3> SUFFICES ASSUME NEW q \in Proc, NEW x \in Op, NEW b \in Account,
                        pc[q] \in Serving, req'[q][x].at = "connected", req'[q][x].a = b, req'[q][x].alone = "yes"
                 PROVE  b \in session'[q]
      BY <2>1
    <3>1. q # p \/ x # o
      BY <2>1, EndIs
    <3>2. req'[q][x] = req[q][x]
      BY <2>1, <3>1, EndIs
    <3>3. b \in session[q]
      BY <3>2
    <3>4. q = p => b # a
      BY <2>3, <3>1, <3>2
    <3> QED BY <2>2, <3>3, <3>4
  <2> QED BY <2>4, <2>5
<1>6. ASSUME NEW p \in Proc, NEW o \in Op, NEW a \in Account, OfflineCommit(p, o, a) PROVE Both'
  <2>1. req[p][o].at = "checked" /\ req[p][o].a = a /\ Goes(p, o, a, "leaving") /\ UNCHANGED <<pc, session>>
    BY <1>6 DEF OfflineCommit
  <2>2. RequestsEnd'
    BY <1>b, <2>1, GoIs
  <2>3. ConnectedHasSession'
    <3> SUFFICES ASSUME NEW q \in Proc, NEW x \in Op, NEW b \in Account,
                        pc[q] \in Serving, req'[q][x].at = "connected", req'[q][x].a = b, req'[q][x].alone = "yes"
                 PROVE  b \in session'[q]
      BY <2>1
    <3>1. q # p \/ x # o
      BY <2>1, GoIs
    <3>2. req'[q][x] = req[q][x]
      BY <2>1, <3>1, GoIs
    <3> QED BY <2>1, <3>2
  <2> QED BY <2>2, <2>3
<1>7. ASSUME NEW p \in Proc, Request(p) PROVE Both'
  <2>1. CASE WatchBegin(p) \/ WatchEnd(p) \/ DeleteLastAccount(p)
    BY <2>1 DEF WatchBegin, WatchEnd, DeleteLastAccount
  <2>2. ASSUME NEW o \in Op, NEW a \in Account, OnlineBegin(p, o, a) PROVE Both'
    BY <1>2, <2>2 DEF OnlineBegin
  <2>3. ASSUME NEW o \in Op, NEW a \in Account, OfflineCheck(p, o, a) PROVE Both'
    BY <1>2, <2>3 DEF OfflineCheck
  <2> HIDE DEF Both
  <2> QED BY <1>3, <1>4, <1>5, <1>6, <1>7, <2>1, <2>2, <2>3 DEF Request
<1>8. ASSUME NEW p \in Proc, Signal(p) \/ ServeFails(p) PROVE Both'
  <2>1. UNCHANGED <<req, session>> /\ pc[p] = "serving"
        /\ \E to \in {"draining", "closing"} : pc' = [pc EXCEPT ![p] = to]
    BY <1>8 DEF Signal, ServeFails
  <2>2. /\ pc'[p] \in {"draining", "closing"}
        /\ \A q \in Proc \ {p} : pc'[q] = pc[q]
    BY <2>1
  <2> QED BY <2>1, <2>2
<1>9. ASSUME NEW p \in Proc, DrainDone(p) \/ DrainTimeout(p) \/ FinalSweep(p) PROVE Both'
  <2>1. /\ UNCHANGED <<req, session>> /\ pc[p] \in {"draining", "drained", "expired"}
        /\ \E to \in {"drained", "expired", "closing"} : pc' = [pc EXCEPT ![p] = to] /\ (to = "drained" => req[p] = Idle)
        /\ pc'[p] \in Serving => pc[p] \in Serving
    BY <1>9 DEF DrainDone, DrainTimeout, FinalSweep
  <2>2. /\ pc'[p] \in {"drained", "expired", "closing"} /\ (pc'[p] = "drained" => req[p] = Idle)
        /\ \A q \in Proc \ {p} : pc'[q] = pc[q]
    BY <2>1
  <2> QED BY <2>1, <2>2
<1>10. ASSUME NEW p \in Proc, CloseParts(p) \/ CloseDb(p) \/ CloseLock(p) PROVE Both'
  <2>1. CASE CloseParts(p)
    BY <2>1 DEF CloseParts
  <2>2. CASE CloseDb(p)
    BY <2>2 DEF CloseDb
  <2>3. CASE CloseLock(p)
    BY <2>3 DEF CloseLock
  <2> QED BY <1>10, <2>1, <2>2, <2>3
<1>11. ASSUME NEW p \in Proc, RemoveLock(p) \/ Crash(p) PROVE Both'
  <2>1. CASE RemoveLock(p)
    BY <2>1 DEF RemoveLock, Forgets
  <2>2. CASE Crash(p)
    BY <2>2 DEF Crash, Forgets
  <2> QED BY <1>11, <2>1, <2>2
<1>12. CASE UNCHANGED vars
  BY <1>12 DEF vars
<1> HIDE DEF Both
<1> QED BY <1>1, <1>7, <1>8, <1>9, <1>10, <1>11, <1>12 DEF Next, WindDown

\* A step of a process that does not serve, before or after.
LEMMA RowsKept ==
    ASSUME TypeOK, RowsAreServed, NEW p \in Proc,
           online' = online, stale' = stale, crossed' = crossed, raced' = "no" => raced = "no",
           \A q \in Proc \ {p} : pc'[q] = pc[q] /\ req'[q] = req[q] /\ session'[q] = session[q],
           pc[p] \notin Serving, pc'[p] \notin Serving, pc'[p] \in Up => req'[p] = Idle
    PROVE  RowsAreServed'
<1> SUFFICES ASSUME raced' = "no", stale' = "no" PROVE RowsAreServed'
  BY DEF RowsAreServed
<1>0. \A o \in Op : Idle[o].a = None
  BY SlotIs
<1>1. ASSUME NEW q \in Proc, pc'[q] \in {"closing", "dbclosing"} PROVE req'[q] = Idle
  BY <1>1 DEF RowsAreServed, Up
<1>2. ASSUME NEW q \in Proc, NEW o \in Op, NEW a \in Account, pc'[q] \in Up, req'[q][o].a = a
      PROVE  /\ req'[q][o].alone = "no" => a \in crossed'
             /\ a \in online' \ crossed' => req'[q][o].at = "checked"
  <2>1. q # p
    BY <1>0, <1>2, DaemonAssumption
  <2> QED BY <1>2, <2>1 DEF RowsAreServed
<1>3. ASSUME NEW a \in online' \ crossed' PROVE \E q \in Proc : pc'[q] \in Serving /\ a \in session'[q]
  BY <1>3 DEF RowsAreServed
<1>4. online' \subseteq Account
  BY DEF TypeOK
<1> QED BY <1>1, <1>2, <1>3, <1>4 DEF RowsAreServed

\* A step of one request of a process that is up: the rows stay served if the
\* slots of this process and the row of this account are in order after it.
LEMMA RowsStep ==
    ASSUME TypeOK, Lock, RowsAreServed, raced = "no", stale = "no",
           NEW p \in Proc, NEW a \in Account, pc[p] \in Up, req[p] # Idle \/ pc[p] = "serving",
           UNCHANGED <<pc, raced, stale>>,
           \A q \in Proc \ {p} : req'[q] = req[q] /\ session'[q] = session[q],
           session[p] \ {a} \subseteq session'[p],
           online' \ {a} \subseteq online, crossed \ {a} \subseteq crossed', online' \subseteq Account,
           \A x \in Op, b \in Account : req'[p][x].a = b /\ req'[p][x].alone = "no" => b \in crossed',
           \A x \in Op, b \in online' \ crossed' : req'[p][x].a = b => req'[p][x].at = "checked",
           a \in online' \ crossed' => a \in session'[p]
    PROVE  RowsAreServed'
<1>1. \A q \in Proc : pc[q] \in Up => q = p
  BY LockIsExclusive DEF OneDaemon, Running, HoldsLock, Place, NoDb, Booting, Up
<1>2. pc[p] \in Serving
  BY DEF RowsAreServed, Up, Serving
<1>3. \A q \in Proc : pc'[q] \in {"closing", "dbclosing"} => req'[q] = Idle
  BY <1>1, <1>2 DEF Up, Serving
<1>4. ASSUME NEW b \in online' \ crossed' PROVE b \in session'[p]
  <2>1. CASE b = a
    BY <2>1
  <2>2. CASE b # a
    <3>1. b \in online \ crossed
      BY <2>2
    <3>2. PICK q \in Proc : pc[q] \in Serving /\ b \in session[q]
      BY <3>1 DEF RowsAreServed
    <3>3. q = p
      BY <1>1, <3>2 DEF Serving, Up
    <3> QED BY <2>2, <3>2, <3>3
  <2> QED BY <2>1, <2>2
<1>5. \A q \in Proc : pc'[q] \in Up => q = p
  BY <1>1
<1> QED BY <1>2, <1>3, <1>4, <1>5 DEF RowsAreServed

LEMMA RowsNext ==
    ASSUME TypeOK, Lock, AloneIs, RequestsEnd, ConnectedHasSession, RowsAreServed, [Next]_vars
    PROVE  RowsAreServed'
<1>0. /\ raced = "no" => OneDaemon
      /\ \A o \in Op : Idle[o].at = "none" /\ Idle[o].a = None /\ Idle[o] = NoReq
  BY LockIsExclusive, SlotIs
\* What happens between two processes that both run happens in one.
<1>1. ASSUME raced = "no", NEW p \in Proc, NEW q \in Proc,
             pc[p] \in Up \cup Booting, pc[q] \in Up \cup Booting
      PROVE  p = q
  BY <1>0, <1>1 DEF OneDaemon, Running, HoldsLock, Place, NoDb, Booting, Up
<1>2. ASSUME NEW p \in Proc, Boot(p) PROVE RowsAreServed'
  <2>1. CASE BootSweep(p)
    <3>1. pc[p] = "booted" /\ pc' = [pc EXCEPT ![p] = "swept"] /\ UNCHANGED <<req, session, raced>>
      BY <2>1 DEF BootSweep, Moves
    <3>2. raced = "no" => \A q \in Proc : pc'[q] \notin Up
      BY <1>1, <3>1 DEF TypeOK, Booting, Up
    <3>3. \/ online' = {}
          \/ UNCHANGED <<online, crossed>> /\ stale' = IF online # {} THEN "yes" ELSE stale
      BY <2>1 DEF BootSweep
    <3>4. raced' = "no" /\ stale' = "no" => online' = {}
      BY <3>3
    <3> QED BY <3>1, <3>2, <3>4 DEF RowsAreServed, Up
  <2>2. CASE BootFails(p)
    <3>1. req[p] = Idle /\ pc[p] \notin Serving
      BY <2>2 DEF BootFails, RequestsEnd, Booting, Serving, RowsAreServed, Up
    <3>2. pc'[p] \notin Serving /\ \A q \in Proc \ {p} : pc'[q] = pc[q]
      BY <2>2 DEF BootFails, TypeOK, Serving
    <3>3. UNCHANGED <<req, session, online, stale, raced, crossed>>
      BY <2>2 DEF BootFails
    <3> QED BY <3>1, <3>2, <3>3, RowsKept
  <2>3. CASE Listen(p)
    <3>1. pc[p] = "swept" /\ pc' = [pc EXCEPT ![p] = "serving"]
          /\ UNCHANGED <<req, session, online, raced, stale, crossed>>
      BY <2>3 DEF Listen, Moves
    <3>2. req[p] = Idle
      BY <3>1 DEF RequestsEnd, Booting
    <3>3. \A o \in Op : req[p][o].a \notin Account
      BY <1>0, <3>2, DaemonAssumption
    <3> QED BY <3>1, <3>2, <3>3 DEF RowsAreServed, TypeOK, Up, Serving
  <2>4. CASE ~BootSweep(p) /\ ~BootFails(p) /\ ~Listen(p)
    <3>1. UNCHANGED <<req, session, online, stale, raced, crossed>>
      BY <1>2, <2>4 DEF Boot, OpenLock, Flock, FlockRefused, ReadKey, OpenKeyFile, WriteKeyFile, MigrateStatement,
          MigrateRecord, MigrateDone, CountAccounts, CreateRoot, IssueToken, PrintToken
    <3>2. \A q \in Proc : pc'[q] = pc[q] \/ (pc[q] \notin Up /\ pc'[q] \notin Up)
      BY <1>2, <2>4 DEF Boot, OpenLock, Flock, FlockRefused, ReadKey, OpenKeyFile, WriteKeyFile, MigrateStatement,
          MigrateRecord, MigrateDone, CountAccounts, CreateRoot, IssueToken, PrintToken, Moves, TypeOK, Up
    <3> QED BY <3>1, <3>2 DEF RowsAreServed, Up, Serving
  <2> QED BY <2>1, <2>2, <2>3, <2>4
<1>3. ASSUME NEW p \in Proc, NEW o \in Op, NEW a \in Account,
             \/ OnlineBegin(p, o, a) \/ OnlineConnect(p, o, a) \/ ConnectFails(p, o, a)
             \/ OnlineCommit(p, o, a) \/ OnlineUndo(p, o, a)
             \/ OfflineCheck(p, o, a) \/ OfflineFails(p, o, a)
             \/ OfflineCommit(p, o, a) \/ OfflineDisconnect(p, o, a)
      PROVE  RowsAreServed'
  <2>0. UNCHANGED <<pc, raced, stale>>
    BY <1>3 DEF OnlineBegin, OnlineConnect, ConnectFails, OnlineCommit, OnlineUndo, OfflineCheck, OfflineFails,
          OfflineCommit, OfflineDisconnect, Begins, Writes
  <2> SUFFICES ASSUME raced = "no", stale = "no" PROVE RowsAreServed'
    BY <2>0 DEF RowsAreServed
  <2>a. a # None
    BY DaemonAssumption
  <2>q. /\ \A q \in Proc \ {p} : req'[q] = req[q] /\ session'[q] = session[q]
        /\ session[p] \ {a} \subseteq session'[p]
    <3>1. \A q \in Proc \ {p} : session'[q] = session[q]
      BY <1>3 DEF OnlineBegin, OnlineConnect, ConnectFails, OnlineCommit, OnlineUndo, OfflineCheck, OfflineFails,
            OfflineCommit, OfflineDisconnect, Disconnects, TypeOK
    <3>2. session[p] \ {a} \subseteq session'[p]
      BY <1>3 DEF OnlineBegin, OnlineConnect, ConnectFails, OnlineCommit, OnlineUndo, OfflineCheck, OfflineFails,
            OfflineCommit, OfflineDisconnect, Disconnects, TypeOK
    <3>3. \A q \in Proc \ {p} : req'[q] = req[q]
      BY <1>3 DEF OnlineBegin, OnlineConnect, ConnectFails, OnlineCommit, OnlineUndo, OfflineCheck, OfflineFails,
            OfflineCommit, OfflineDisconnect, Begins, Goes, Ends, TypeOK
    <3> QED BY <3>1, <3>2, <3>3
  <2>r. /\ online' \ {a} \subseteq online /\ crossed \ {a} \subseteq crossed' /\ online' \subseteq Account
        /\ (online' = online \/ OnlineCommit(p, o, a) \/ OfflineCommit(p, o, a))
    BY <1>3 DEF OnlineBegin, OnlineConnect, ConnectFails, OnlineCommit, OnlineUndo, OfflineCheck, OfflineFails,
          OfflineCommit, OfflineDisconnect, Begins, Writes, TypeOK
  \* A request of a process that is not up moves nothing that counts.
  <2>1. CASE pc[p] \notin Up
    <3>1. UNCHANGED <<online, crossed>>
      BY <1>3, <2>1, <2>r DEF OnlineBegin, OnlineConnect, ConnectFails, OnlineCommit, OnlineUndo, OfflineCheck,
            OfflineFails, OfflineCommit, OfflineDisconnect, Up
    <3> QED BY <2>0, <2>1, <2>q, <3>1, RowsKept DEF Serving, Up
  <2>2. CASE pc[p] \in Up
    <3>0. /\ \A x \in Op, b \in Account : req[p][x].a = b /\ req[p][x].alone = "no" => b \in crossed
          /\ \A x \in Op, b \in online \ crossed : req[p][x].a = b => req[p][x].at = "checked"
      BY <2>2 DEF RowsAreServed
    <3>s. ASSUME a \in online \ crossed PROVE a \in session[p]
      BY <1>1, <2>2, <3>s DEF RowsAreServed, Serving, Up
    <3> DEFINE Slots == /\ \A x \in Op, b \in Account : req'[p][x].a = b /\ req'[p][x].alone = "no" => b \in crossed'
                        /\ \A x \in Op, b \in online' \ crossed' : req'[p][x].a = b => req'[p][x].at = "checked"
                        /\ a \in online' \ crossed' => a \in session'[p]
                        /\ req[p] # Idle \/ pc[p] = "serving"
    <3>1. CASE OnlineBegin(p, o, a) \/ OfflineCheck(p, o, a)
      <4>1. PICK at \in {"dialing", "checked"} :
                Begins(p, o, a, at) /\ (at = "dialing" => a \notin session[p])
        BY <3>1 DEF OnlineBegin, OfflineCheck
      <4>2. UNCHANGED <<online, session>> /\ pc[p] = "serving"
        BY <3>1 DEF OnlineBegin, OfflineCheck
      <4>3. a \in online \ crossed => at = "checked"
        BY <3>s, <4>1
      <4>4. crossed \subseteq crossed'
        BY <4>1 DEF Begins
      <4>5. ASSUME NEW x \in Op, NEW b \in Account, req'[p][x].a = b, req'[p][x].alone = "no" PROVE b \in crossed'
        BY <3>0, <4>1, <4>4, <4>5, BeginIs
      <4>6. ASSUME NEW x \in Op, NEW b \in online' \ crossed', req'[p][x].a = b PROVE req'[p][x].at = "checked"
        BY <3>0, <4>1, <4>2, <4>3, <4>4, <4>6, BeginIs
      <4>7. a \in online' \ crossed' => a \in session'[p]
        BY <3>s, <4>2, <4>4
      <4>8. Slots
        BY <4>2, <4>5, <4>6, <4>7
      <4> QED BY <2>0, <2>2, <2>q, <2>r, <4>8, RowsStep
    <3>2. CASE OnlineConnect(p, o, a)
      <4>1. req[p][o].at = "dialing" /\ req[p][o].a = a /\ Goes(p, o, a, "connected") /\ UNCHANGED <<online, crossed>>
        BY <3>2 DEF OnlineConnect, Handles
      <4>2. a \notin online \ crossed
        BY <3>0, <4>1
      <4>3. req[p] # Idle
        BY <1>0, <4>1
      <4>4. Slots
        BY <3>0, <4>1, <4>2, <4>3, GoIs
      <4> QED BY <2>0, <2>2, <2>q, <2>r, <4>4, RowsStep
    <3>3. CASE OfflineCommit(p, o, a)
      <4>1. req[p][o].at = "checked" /\ req[p][o].a = a /\ Goes(p, o, a, "leaving") /\ online' = online \ {a}
            /\ crossed' = IF req[p][o].alone = "yes" THEN crossed \ {a} ELSE crossed
        BY <3>3 DEF OfflineCommit, Handles, Writes
      <4>2. req[p] # Idle
        BY <1>0, <4>1
      <4>3. \A x \in Op \ {o} : req[p][o].alone = "yes" => req[p][x].a # a
        BY <2>a, <4>1 DEF AloneIs
      <4>4. ASSUME NEW x \in Op, NEW b \in Account, req'[p][x].a = b, req'[p][x].alone = "no" PROVE b \in crossed'
        BY <3>0, <4>1, <4>3, <4>4, GoIs
      <4>5. ASSUME NEW x \in Op, NEW b \in online' \ crossed', req'[p][x].a = b PROVE req'[p][x].at = "checked"
        BY <3>0, <4>1, <4>3, <4>5, GoIs
      <4>6. Slots
        BY <4>1, <4>2, <4>4, <4>5
      <4> QED BY <2>0, <2>2, <2>q, <2>r, <4>6, RowsStep
    <3>4. CASE OnlineCommit(p, o, a)
      <4>1. req[p][o].at = "connected" /\ req[p][o].a = a /\ Ends(p, o) /\ online' = online \cup {a}
            /\ crossed' = (IF req[p][o].alone = "yes" THEN crossed \ {a} ELSE crossed) /\ UNCHANGED session
        BY <3>4 DEF OnlineCommit, Handles, Writes
      <4>2. req[p] # Idle
        BY <1>0, <4>1
      <4>3. \A x \in Op \ {o} : req[p][o].alone = "yes" => req[p][x].a # a
        BY <2>a, <4>1 DEF AloneIs
      <4>4. req[p][o].alone = "no" => a \in crossed
        BY <3>0, <4>1
      <4>5. req[p][o].alone \in {"yes", "no"}
        BY DEF TypeOK, Slot
      <4>6. req[p][o].alone = "yes" => a \in session[p]
        BY <2>2, <4>1, <4>2 DEF ConnectedHasSession, Handles, RowsAreServed, Serving, Up
      <4>7. ASSUME NEW x \in Op, NEW b \in Account, req'[p][x].a = b, req'[p][x].alone = "no" PROVE b \in crossed'
        BY <3>0, <4>1, <4>3, <4>7, EndIs, SlotIs
      <4>8. ASSUME NEW x \in Op, NEW b \in online' \ crossed', req'[p][x].a = b PROVE req'[p][x].at = "checked"
        <5>1. x # o
          BY <2>r, <4>1, <4>8, EndIs, SlotIs, DaemonAssumption
        <5>2. req'[p][x] = req[p][x]
          BY <4>1, <5>1, EndIs
        <5>3. b \in online \ crossed
          BY <4>1, <4>3, <4>4, <4>5, <4>8, <5>1, <5>2
        <5> QED BY <3>0, <4>8, <5>2, <5>3
      <4>9. Slots
        BY <4>1, <4>2, <4>4, <4>5, <4>6, <4>7, <4>8
      <4> QED BY <2>0, <2>2, <2>q, <2>r, <4>9, RowsStep
    <3>5. CASE \/ ConnectFails(p, o, a) \/ OnlineUndo(p, o, a) \/ OfflineFails(p, o, a) \/ OfflineDisconnect(p, o, a)
      <4>1. req[p][o].at # "none" /\ req[p][o].a = a /\ Ends(p, o) /\ UNCHANGED <<online, crossed>>
            /\ (req[p][o].at = "checked" => UNCHANGED session)
        BY <3>5 DEF ConnectFails, OnlineUndo, OfflineFails, OfflineDisconnect, Handles
      <4>2. req[p] # Idle
        BY <1>0, <4>1
      <4>3. a \in online \ crossed => UNCHANGED session
        BY <3>0, <4>1
      <4>4. \A x \in Op : req'[p][x] = NoReq \/ req'[p][x] = req[p][x]
        BY <4>1, EndIs
      <4>5. ASSUME NEW x \in Op, NEW b \in Account, req'[p][x].a = b
            PROVE  req'[p][x] = req[p][x]
        BY <4>4, <4>5, SlotIs, DaemonAssumption
      <4>6. Slots
        BY <2>r, <3>0, <3>s, <4>1, <4>2, <4>3, <4>5
      <4> QED BY <2>0, <2>2, <2>q, <2>r, <4>6, RowsStep
    <3> QED BY <1>3, <3>1, <3>2, <3>3, <3>4, <3>5
  <2> QED BY <2>1, <2>2
<1>4. ASSUME NEW p \in Proc, WatchBegin(p) \/ WatchEnd(p) \/ DeleteLastAccount(p) PROVE RowsAreServed'
  <2>1. UNCHANGED <<pc, req, session, raced, stale, crossed>> /\ online' \subseteq online
    BY <1>4 DEF WatchBegin, WatchEnd, DeleteLastAccount
  <2> QED BY <2>1 DEF RowsAreServed
<1>5. ASSUME NEW p \in Proc, Signal(p) \/ ServeFails(p) PROVE RowsAreServed'
  <2>1. CASE Signal(p)
    BY <2>1 DEF Signal, TypeOK, RowsAreServed, Serving, Up, Moves
  <2>2. CASE ServeFails(p)
    BY <2>2 DEF ServeFails, RowsAreServed
  <2> QED BY <1>5, <2>1, <2>2
<1>6. ASSUME NEW p \in Proc, DrainDone(p) \/ DrainTimeout(p) PROVE RowsAreServed'
  <2>1. /\ UNCHANGED <<req, session, online, raced, stale, crossed>> /\ pc[p] = "draining"
        /\ \E to \in {"drained", "expired"} : pc' = [pc EXCEPT ![p] = to]
    BY <1>6 DEF DrainDone, DrainTimeout, Moves
  <2>2. /\ pc'[p] \in {"drained", "expired"}
        /\ \A q \in Proc \ {p} : pc'[q] = pc[q]
    BY <2>1 DEF TypeOK
  <2> QED BY <2>1, <2>2 DEF RowsAreServed, Serving, Up
<1>7. ASSUME NEW p \in Proc, FinalSweep(p) PROVE RowsAreServed'
  <2>1. CASE stale' = "yes"
    BY <2>1 DEF RowsAreServed
  <2>2. CASE /\ pc[p] = "drained" /\ pc' = [pc EXCEPT ![p] = "closing"] /\ online' = {}
             /\ UNCHANGED <<stale, raced, req>>
    <3>1. req[p] = Idle
      BY <2>2 DEF RequestsEnd
    <3>2. raced = "no" => \A q \in Proc : pc'[q] \in Up => q = p
      BY <1>1, <2>2 DEF TypeOK, Up
    <3>3. \A o \in Op : req'[p][o].a \notin Account
      BY <1>0, <2>2, <3>1, DaemonAssumption
    <3> QED BY <2>2, <3>1, <3>2, <3>3 DEF RowsAreServed, Up
  <2> QED BY <1>7, <2>1, <2>2 DEF FinalSweep, Moves
<1>8. ASSUME NEW p \in Proc, CloseParts(p) \/ CloseDb(p) \/ CloseLock(p) PROVE RowsAreServed'
  <2>1. /\ pc[p] \in {"closing", "dbclosing", "unlocking"}
        /\ pc'[p] \in {"dbclosing", "unlocking", "removing"}
        /\ pc'[p] = "dbclosing" => pc[p] = "closing"
        /\ \A q \in Proc \ {p} : pc'[q] = pc[q] /\ session'[q] = session[q]
        /\ UNCHANGED <<req, online, stale, raced, crossed>>
    BY <1>8 DEF CloseParts, CloseDb, CloseLock, Moves, TypeOK
  <2>2. raced = "no" /\ stale = "no" /\ pc'[p] = "dbclosing" => req[p] = Idle
    BY <2>1 DEF RowsAreServed
  <2>3. CASE raced = "no" /\ stale = "no"
    <3>1. pc'[p] \in Up => req'[p] = Idle
      BY <2>1, <2>2, <2>3 DEF Up
    <3> QED BY <2>1, <3>1, RowsKept DEF Serving
  <2>4. CASE ~(raced = "no" /\ stale = "no")
    BY <2>1, <2>4 DEF RowsAreServed
  <2> QED BY <2>3, <2>4
<1>9. ASSUME NEW p \in Proc, RemoveLock(p) PROVE RowsAreServed'
  <2>1. /\ pc[p] = "removing" /\ pc'[p] = "off"
        /\ \A q \in Proc \ {p} : pc'[q] = pc[q] /\ req'[q] = req[q] /\ session'[q] = session[q]
        /\ raced' = "no" => raced = "no"
        /\ UNCHANGED <<online, stale, crossed>>
    BY <1>9 DEF RemoveLock, Forgets, Moves, TypeOK
  <2> QED BY <2>1, RowsKept DEF Serving, Up
<1>10. ASSUME NEW p \in Proc, Crash(p) PROVE RowsAreServed'
  <2>1. /\ pc'[p] = "off" /\ UNCHANGED <<online, crossed, raced>>
        /\ \A q \in Proc \ {p} : pc'[q] = pc[q] /\ req'[q] = req[q] /\ session'[q] = session[q]
        /\ stale' = IF online # {} THEN "yes" ELSE stale
    BY <1>10 DEF Crash, Forgets, TypeOK
  <2>2. CASE online # {}
    BY <2>1, <2>2 DEF RowsAreServed
  <2>3. CASE online = {}
    BY <2>1, <2>3 DEF RowsAreServed, Up
  <2> QED BY <2>2, <2>3
<1>11. CASE UNCHANGED vars
  BY <1>11 DEF vars, RowsAreServed
<1> QED BY <1>2, <1>3, <1>4, <1>5, <1>6, <1>7, <1>8, <1>9, <1>10, <1>11 DEF Next, Request, WindDown

----------------------------------------------------------------------------
(* The invariant *)

LEMMA InvariantInit == Init => IInv
<1> SUFFICES ASSUME Init PROVE IInv
  OBVIOUS
<1>1. TypeOK
  BY TypeInit
<1>2. Lock /\ Key
  BY DEF Init, Lock, FdIsOpen, FlockIsExclusive, PathIsOpen, Key, KeyIsFresh, KeyIsOnDisk, SocketIsOurs,
         Running, HoldsLock
<1>3. StatementsAreRecorded
  <2>1. 0 * Statements = 0
    BY Product, DaemonAssumption
  <2> QED BY <2>1, DaemonAssumption DEF Init, StatementsAreRecorded, Booting
<1>4. RequestsEnd /\ AloneIs /\ ConnectedHasSession /\ RowsAreServed /\ RootTokenIsShown
  BY SlotIs, DaemonAssumption DEF Init, RequestsEnd, AloneIs, ConnectedHasSession, RowsAreServed,
         RootTokenIsShown, Serving, Booting, Up, Handles
<1> QED BY <1>1, <1>2, <1>3, <1>4 DEF IInv

LEMMA InvariantNext == IInv /\ [Next]_vars => IInv'
BY TypeNext, LockNext, KeyNext, StatementsNext, AloneNext, RequestsNext, RowsNext, RootNext DEF IInv

\* Every state that boots, requests, shutdowns and kills can reach satisfies
\* IInv.
THEOREM Invariant == Spec => []IInv
BY InvariantInit, InvariantNext, PTL DEF Spec

\* The variables keep their types in every life of every process.
THEOREM TypeCorrect == Spec => []TypeOK
<1>1. IInv => TypeOK
  BY DEF IInv
<1> QED BY <1>1, Invariant, PTL

\* datalock.go, serve.go: outside the race for the lock file one daemon owns
\* the data root, its socket and its key.
THEOREM DataRootBelongsToOne == Spec => []DataRootIsExclusive
<1>1. IInv => DataRootIsExclusive
  BY LockIsExclusive DEF IInv, DataRootIsExclusive, Key, KeyIsOnDisk, SocketIsOurs
<1> QED BY <1>1, Invariant, PTL

\* store.go, migrate.go: what a daemon works on has every statement of every
\* migration, once.
THEOREM StoreIsMigrated == Spec => []SchemaIsWhole
<1>1. IInv => SchemaIsWhole
  BY DEF IInv, StatementsAreRecorded, SchemaIsWhole
<1> QED BY <1>1, Invariant, PTL

\* bootstrapRoot: an admin whose token nobody was shown is one whose boot is
\* under way, or ended right there.
THEOREM FirstTokenIsShown == Spec => []RootTokenIsShown
<1>1. IInv => RootTokenIsShown
  BY DEF IInv
<1> QED BY <1>1, Invariant, PTL

\* reconcileStaleOnlineLifecycles, OnlineAccount, OfflineAccount: no row says
\* online without a session, but after a sweep that was missed and for an
\* account whose requests have overlapped.
THEOREM RowsHaveSessions == Spec => []OnlineRowsAreServed
<1>1. IInv => OnlineRowsAreServed
  BY DEF IInv, RowsAreServed, OnlineRowsAreServed
<1> QED BY <1>1, Invariant, PTL

===============================================================================
