--------------------------- MODULE AccountLifecycle ---------------------------
(***************************************************************************)
(* The requests that take one account online and offline and delete it     *)
(* (internal/api/v1/discord.go, accounts.go), on top of the Connector and  *)
(* together with the ingester's attach/detach bookkeeping                  *)
(* (internal/message/ingester.go) and a daemon that may die at any moment  *)
(* and reconciles the accounts table when it boots                         *)
(* (cmd/agentchatd/cmds/serve.go).                                         *)
(*                                                                         *)
(* Requests run concurrently, one HTTP goroutine each.  A transaction is   *)
(* one step (SQLite is opened with one connection); it fails when the row  *)
(* is gone or when the client went away and its context was cancelled.     *)
(***************************************************************************)
EXTENDS Connector

VARIABLES
    daemon,    \* "up", or "down" after a crash
    row,       \* accounts.lifecycle_state, "deleted" when the row is gone
    attached,  \* Ingester.attached[account]: a subscription, or None
    runner,    \* runner[s]: the ingester goroutine that drains s
    req,       \* req[c]: where request c stands, and the subscription it holds
    history    \* "overlapped" once two requests overlapped since the boot

lifeVars == <<daemon, row, attached, runner, req, history>>
allVars  == <<connVars, lifeVars>>

OnlineAt  == {"on_connect", "on_dialing", "on_tx", "on_attach", "on_undo", "on_undoing"}
OfflineAt == {"off_tx", "off_detach", "off_unsub", "off_disc", "off_waiting"}
DeleteAt  == {"del_tx"}
ReqAt     == OnlineAt \cup OfflineAt \cup DeleteAt \cup {"idle"}
RunState  == {"none", "draining", "exiting", "gone"}
RowState  == {"created", "online", "offline", "deleted"}

LifecycleTypeOK ==
    /\ daemon   \in {"up", "down"}
    /\ row      \in RowState
    /\ attached \in Sub \cup {None}
    /\ runner   \in [Sub -> RunState]
    /\ req      \in [Caller -> [at : ReqAt, s : Sub \cup {None}]]
    /\ history  \in {"sequential", "overlapped"}

NoReq == [at |-> "idle", s |-> None]

LifecycleInit ==
    /\ Init
    /\ attached = None
    /\ runner = [s \in Sub |-> "none"]
    /\ req = [c \in Caller |-> NoReq]
    /\ history = "sequential"
    /\ daemon = "up"
    /\ row = "created"

At(c, at) == req[c].at = at
Step(c, at, s) ==
    /\ req' = [req EXCEPT ![c] = [at |-> at, s |-> s]]
    /\ history' = IF \E d \in Caller \ {c} : req[d] # NoReq THEN "overlapped" ELSE history
StepTo(c, at) == Step(c, at, None)

-----------------------------------------------------------------------------
(* POST /accounts/{id}/online *)

\* Bound on the number of sessions in one life of the daemon: a request
\* starts only when an instance will be left for it.
InstanceLeft ==
    Cardinality({c \in Caller : At(c, "on_connect")}) < Cardinality({g \in Provider : pst[g] = "none"})

\* svc.Get, and the token check.
OnlineGet(c) ==
    /\ At(c, "idle")
    /\ row # "deleted"
    /\ InstanceLeft
    /\ StepTo(c, "on_connect")
    /\ UNCHANGED <<connVars, daemon, row, attached, runner>>

OnlineConnect(c) ==
    /\ At(c, "on_connect")
    /\ (\E g \in Provider : ConnectReserve(c, g)) \/ ConnectConflict(c)
    /\ StepTo(c, "on_dialing")
    /\ UNCHANGED <<daemon, row, attached, runner>>

OnlineConnected(c) ==
    /\ At(c, "on_dialing")
    /\ Return(c)
    /\ StepTo(c, IF call[c].at = "connected" THEN "on_tx" ELSE "idle")
    /\ UNCHANGED <<daemon, row, attached, runner>>

\* The lifecycle and the audit row are written in one transaction.
OnlineCommit(c) ==
    /\ At(c, "on_tx")
    /\ row # "deleted"
    /\ row' = "online"
    /\ StepTo(c, "on_attach")
    /\ UNCHANGED <<connVars, daemon, attached, runner>>

\* Mutant: the failed transaction is reported and nothing is undone.
TxFailNoUndo(c) ==
    /\ At(c, "on_tx")
    /\ StepTo(c, "idle")
    /\ UNCHANGED <<connVars, daemon, row, attached, runner>>

OnlineTxFail(c) ==
    /\ At(c, "on_tx")
    /\ StepTo(c, "on_undo")
    /\ UNCHANGED <<connVars, daemon, row, attached, runner>>

\* Mutant: the undo insists on an online instance.
UndoInsists(c) ==
    /\ At(c, "on_undo")
    /\ DisconnectBegin(c)
    /\ StepTo(c, "on_undoing")
    /\ UNCHANGED <<daemon, row, attached, runner>>

\* conn.Disconnect(context.Background(), id): by account, not by instance.
OnlineUndo(c) ==
    /\ At(c, "on_undo")
    /\ DisconnectBegin(c) \/ DisconnectConflict(c)
    /\ StepTo(c, "on_undoing")
    /\ UNCHANGED <<daemon, row, attached, runner>>

OnlineUndone(c) ==
    /\ At(c, "on_undoing")
    /\ Return(c)
    /\ StepTo(c, "idle")
    /\ UNCHANGED <<daemon, row, attached, runner>>

\* AttachAccount: a no-op while an entry is present, whoever made it.
OnlineAttach(c) ==
    /\ At(c, "on_attach")
    /\ IF attached = None
       THEN \E s \in Sub : /\ Subscribe(s)
                           /\ attached' = s
                           /\ runner' = [runner EXCEPT ![s] = "draining"]
       ELSE UNCHANGED <<connVars, attached, runner>>
    /\ StepTo(c, "idle")
    /\ UNCHANGED <<daemon, row>>

-----------------------------------------------------------------------------
(* POST /accounts/{id}/offline *)

\* conn.Provider(id)
OfflineCheck(c) ==
    /\ At(c, "idle")
    /\ SlotOnline
    /\ StepTo(c, "off_tx")
    /\ UNCHANGED <<connVars, daemon, row, attached, runner>>

OfflineCommit(c) ==
    /\ At(c, "off_tx")
    /\ row # "deleted"
    /\ row' = "offline"
    /\ StepTo(c, "off_detach")
    /\ UNCHANGED <<connVars, daemon, attached, runner>>

OfflineTxFail(c) ==
    /\ At(c, "off_tx")
    /\ StepTo(c, "idle")
    /\ UNCHANGED <<connVars, daemon, row, attached, runner>>

\* DetachAccount: the entry is taken under the ingester's mutex, the
\* subscription is closed afterwards under the Connector's.
OfflineDetach(c) ==
    /\ At(c, "off_detach")
    /\ attached' = None
    /\ Step(c, IF attached = None THEN "off_disc" ELSE "off_unsub", attached)
    /\ UNCHANGED <<connVars, daemon, row, runner>>

OfflineUnsubscribe(c) ==
    /\ At(c, "off_unsub")
    /\ Unsubscribe(req[c].s)
    /\ StepTo(c, "off_disc")
    /\ UNCHANGED <<daemon, row, attached, runner>>

OfflineDisconnect(c) ==
    /\ At(c, "off_disc")
    /\ DisconnectBegin(c) \/ DisconnectConflict(c)
    /\ StepTo(c, "off_waiting")
    /\ UNCHANGED <<daemon, row, attached, runner>>

OfflineDone(c) ==
    /\ At(c, "off_waiting")
    /\ Return(c)
    /\ StepTo(c, "idle")
    /\ UNCHANGED <<daemon, row, attached, runner>>

-----------------------------------------------------------------------------
(* DELETE /accounts/{id} *)

\* conn.IsRegistered(id): any entry refuses, whatever its state.
DeleteCheck(c) ==
    /\ At(c, "idle")
    /\ slot = None
    /\ StepTo(c, "del_tx")
    /\ UNCHANGED <<connVars, daemon, row, attached, runner>>

\* Deletes the row; not found, or a cancelled context, deletes nothing.
DeleteTx(c) ==
    /\ At(c, "del_tx")
    /\ row' \in {row, "deleted"}
    /\ StepTo(c, "idle")
    /\ UNCHANGED <<connVars, daemon, attached, runner>>

-----------------------------------------------------------------------------
(* The ingester's drain goroutines *)

\* dispatch of one event
RunEvent(s) ==
    /\ runner[s] = "draining"
    /\ Receive(s)
    /\ UNCHANGED lifeVars

\* Mutant: only the goroutine whose entry is still attached ends.
RunClosedIfAttached(s) ==
    /\ runner[s] = "draining"
    /\ attached = s
    /\ sst[s] = "closed"
    /\ q[s] = 0
    /\ runner' = [runner EXCEPT ![s] = "exiting"]
    /\ UNCHANGED <<connVars, daemon, row, attached, req, history>>

RunClosed(s) ==
    /\ runner[s] = "draining"
    /\ sst[s] = "closed"
    /\ q[s] = 0
    /\ runner' = [runner EXCEPT ![s] = "exiting"]
    /\ UNCHANGED <<connVars, daemon, row, attached, req, history>>

\* The deferred delete(i.attached, accountID): whatever entry is there.
RunExit(s) ==
    /\ runner[s] = "exiting"
    /\ runner' = [runner EXCEPT ![s] = "gone"]
    /\ attached' = None
    /\ UNCHANGED <<connVars, daemon, row, req, history>>

-----------------------------------------------------------------------------
(* The daemon *)

\* Everything the process held: connector, providers, goroutines.
MemoryLost ==
    /\ slot' = None
    /\ ist'  = [g \in Provider |-> "none"]
    /\ done' = [g \in Provider |-> 0]
    /\ pst'  = [g \in Provider |-> "none"]
    /\ buf'  = [g \in Provider |-> 0]
    /\ pump' = [g \in Provider |-> "none"]
    /\ subs' = {}
    /\ sst'  = [s \in Sub |-> "new"]
    /\ q'    = [s \in Sub |-> 0]
    /\ src'  = [s \in Sub |-> {}]
    /\ call' = [c \in Caller |-> Idle]
    /\ attached' = None
    /\ runner' = [s \in Sub |-> "none"]
    /\ req' = [c \in Caller |-> NoReq]
    /\ history' = "sequential"

\* SIGKILL, panic, power loss.
Crash ==
    /\ daemon = "up"
    /\ daemon' = "down"
    /\ MemoryLost
    /\ UNCHANGED row

\* Mutant: the boot trusts the table.
BootTrusts ==
    /\ daemon = "down"
    /\ daemon' = "up"
    /\ UNCHANGED <<connVars, row, attached, runner, req, history>>

\* reconcileStaleOnlineLifecycles before the socket is listened on.
Boot ==
    /\ daemon = "down"
    /\ daemon' = "up"
    /\ row' = IF row = "online" THEN "offline" ELSE row
    /\ UNCHANGED <<connVars, attached, runner, req, history>>

-----------------------------------------------------------------------------

OnlineStep(c) ==
    \/ OnlineConnect(c) \/ OnlineConnected(c) \/ OnlineCommit(c) \/ OnlineTxFail(c)
    \/ OnlineUndo(c) \/ OnlineUndone(c) \/ OnlineAttach(c)

OfflineStep(c) ==
    \/ OfflineCommit(c) \/ OfflineTxFail(c) \/ OfflineDetach(c)
    \/ OfflineUnsubscribe(c) \/ OfflineDisconnect(c) \/ OfflineDone(c)

RequestStep(c) ==
    \/ OnlineStep(c) \/ OfflineStep(c) \/ DeleteTx(c)
    \/ (ConnectStep(c) \/ DisconnectStep(c)) /\ UNCHANGED lifeVars

RequestBegin(c) == OnlineGet(c) \/ OfflineCheck(c) \/ DeleteCheck(c)

ProviderStep(g) == (Emit(g) \/ PumpStep(g)) /\ UNCHANGED lifeVars

RunStep(s) == RunEvent(s) \/ RunClosed(s) \/ RunExit(s)

LifecycleNext ==
    \/ /\ daemon = "up"
       /\ \/ \E c \in Caller : RequestBegin(c) \/ RequestStep(c)
          \/ \E g \in Provider : ProviderStep(g)
          \/ \E s \in Sub : RunStep(s)
    \/ Crash
    \/ Boot

LifecycleSpec == LifecycleInit /\ [][LifecycleNext]_allVars

(* A request that was accepted goes on, its dial and its websocket close   *)
(* end, the pump and the drain goroutines run.  Nobody has to send         *)
(* requests or events, and the daemon need not crash or come back.         *)
LifecycleFairness ==
    /\ \A c \in Caller : WF_allVars(daemon = "up" /\ RequestStep(c))
    /\ \A g \in Provider : WF_allVars(daemon = "up" /\ PumpStep(g) /\ UNCHANGED lifeVars)
    /\ \A s \in Sub : WF_allVars(daemon = "up" /\ RunStep(s))

LifecycleFairSpec == LifecycleSpec /\ LifecycleFairness

-----------------------------------------------------------------------------
(* Properties *)

\* No request is being served and every goroutine that is going to end by
\* itself has ended.
Quiet ==
    /\ daemon = "up"
    /\ \A c \in Caller : req[c] = NoReq
    /\ \A g \in Provider : pump[g] = "loop" => pst[g] = "open"
    /\ \A g \in Provider : pump[g] # "closing"
    /\ \A s \in Sub : runner[s] = "draining" => sst[s] = "open"
    /\ \A s \in Sub : runner[s] # "exiting"

\* No hidden session: once the requests on an account are over, a session
\* left open is one the accounts table knows of - the row says online (or
\* was deleted, see DeletedHasNoSession).  However online, offline and
\* delete requests, failed transactions and crashes overlap, the daemon
\* never stays connected for an account it reports as created or offline.
NoHiddenSession ==
    (\A c \in Caller : req[c] = NoReq) /\ (\E g \in Provider : pst[g] = "open")
        => row \in {"online", "deleted"}

\* Why it holds: an open session the table does not know of always has a
\* request that is still going to record it or to close it.
WillSettle(c) ==
    \/ call[c].at \in {"commit", "connected", "closing"}
    \/ At(c, "on_tx") \/ At(c, "on_undo")
    \/ At(c, "off_detach") \/ At(c, "off_unsub") \/ At(c, "off_disc")

SessionIsSettled ==
    (\E g \in Provider : pst[g] = "open") =>
        row \in {"online", "deleted"} \/ \E c \in Caller : WillSettle(c)

\* Nobody but the request that is inside Connect (Disconnect) keeps a slot
\* connecting (disconnecting): a refused Disconnect leaves the session to it.
SlotHasUser ==
    slot # None =>
        /\ ist[slot] = "connecting" => \E c \in Caller : call[c].at \in ConnectAt
        /\ ist[slot] = "disconnecting" => \E c \in Caller : call[c].at \in DisconnectAt

CallsOfRequests ==
    \A c \in Caller :
        /\ call[c].at \in ConnectAt \cup {"connected"} => At(c, "on_dialing")
        /\ call[c].at \in DisconnectAt => At(c, "on_undoing") \/ At(c, "off_waiting")
        /\ At(c, "off_unsub") => req[c].s \in Sub

DownIsEmpty == daemon = "down" => \A g \in Provider : pst[g] # "open"

LifeInv ==
    /\ ConnInv
    /\ LifecycleTypeOK
    /\ SessionIsSettled
    /\ SlotHasUser
    /\ CallsOfRequests
    /\ DownIsEmpty

\* The converse, for requests that do not overlap: an account the table
\* calls online has its session, and a drain goroutine on a subscription
\* of that session, after any sequence of requests, failures and crashes.
OnlineIsServed ==
    Quiet /\ history = "sequential" /\ row = "online" =>
        /\ SlotOnline
        /\ pst[slot] = "open"
        /\ \E s \in subs : runner[s] = "draining"

\* Every accepted request is answered.
EveryRequestEnds == \A c \in Caller : ~At(c, "idle") ~> At(c, "idle")

\* Every drain goroutine ends once its subscription was closed, so a
\* detached or torn-down account does not leak goroutines.
ClosedRunnerEnds ==
    \A s \in Sub : runner[s] = "draining" /\ sst[s] = "closed" ~> runner[s] \in {"gone", "none"}

(* Claims of the code's comments and documents that the code does not keep *)

\* "the previous order could leave a split state where DB said online but
\* the Provider was already gone" (comment on OfflineAccount): with the new
\* order that state is supposed to be unreachable.
NoSplitState == Quiet /\ row = "online" => slot # None

\* "without this guard a deleted account could keep a Discord session
\* running indefinitely" (comment on DeleteAccount).
DeletedHasNoSession == Quiet /\ row = "deleted" => \A g \in Provider : pst[g] # "open"

\* "If Disconnect itself fails the DB already says offline, so the next
\* online attempt will recover" (comment in OfflineAccount): an offline
\* account with no request under way can be connected again.
OfflineCanReconnect == Quiet /\ row = "offline" => slot = None

\* Going online registers the ingester (docs/02, 4.6): an online account
\* with an open session is being drained.
OnlineIsDrained ==
    Quiet /\ row = "online" /\ (\E g \in Provider : pst[g] = "open")
        => \E s \in subs : runner[s] = "draining"
=============================================================================
