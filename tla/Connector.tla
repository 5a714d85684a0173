------------------------------ MODULE Connector ------------------------------
(***************************************************************************)
(* internal/connector/connector.go, for one account: the instance slot     *)
(* (`instances[accountID]`), the subscriber list (`subs[accountID]`), the  *)
(* pump goroutine of each provider, and the Provider contract the          *)
(* Connector relies on (internal/bot/discord/discord.go).  The Connector's *)
(* state is keyed by account id and no operation relates two accounts, so  *)
(* one account shows all of it; Shutdown is modelled for that account.     *)
(*                                                                         *)
(* Every lock/unlock section of c.mu is one action; what runs between two  *)
(* sections (the provider's Connect and Disconnect, the wait for           *)
(* pumpDone) lies between two actions of the calling goroutine.            *)
(***************************************************************************)
EXTENDS Naturals, FiniteSets

CONSTANTS
    Caller,     \* goroutines that call Connect, Disconnect and Shutdown
    Provider,   \* instances that can ever be reserved; bounds the Connects
    Sub,        \* subscriptions that can ever be made
    Buf,        \* capacity of Provider.Events()         (64 in the code)
    Cap,        \* capacity of a Subscription's channel  (32 in the code)
    None        \* a nil instance

ASSUME ConnectorAssumption ==
    /\ None \notin Provider
    /\ Buf \in Nat \ {0}
    /\ Cap \in Nat \ {0}

VARIABLES
    slot,   \* instances[account]: the instance in the map, or None
    ist,    \* ist[g]: state of instance g
    done,   \* done[g]: how many times pumpDone of instance g was closed
    pst,    \* pst[g]: the provider built for instance g
    buf,    \* buf[g]: events waiting in that provider's Events() channel
    pump,   \* pump[g]: the pump goroutine of that provider
    subs,   \* subs[account]: the registered subscriptions
    sst,    \* sst[s]: a subscription's channel
    q,      \* q[s]: events waiting in it
    src,    \* src[s]: history, the instances whose events were sent to it
    call    \* call[c]: where goroutine c stands, and the instance it holds

connVars == <<slot, ist, done, pst, buf, pump, subs, sst, q, src, call>>
slotVars == <<slot, ist, done>>
subVars  == <<subs, sst, q, src>>

InstanceState == {"none", "connecting", "online", "disconnecting"}
ProviderState == {"none", "new", "open", "failed", "closed"}
PumpState     == {"none", "loop", "closing", "exited"}
SubState      == {"new", "open", "closed"}

ConnectAt    == {"dial", "commit", "abort"}
DisconnectAt == {"closing", "rollback", "await"}
Answer       == {"connected", "disconnected", "conflict", "failed"}
InFlight     == ConnectAt \cup DisconnectAt \cup {"snapshot"}

TypeOK ==
    /\ slot \in Provider \cup {None}
    /\ ist  \in [Provider -> InstanceState]
    /\ done \in [Provider -> Nat]
    /\ pst  \in [Provider -> ProviderState]
    /\ buf  \in [Provider -> 0..Buf]
    /\ pump \in [Provider -> PumpState]
    /\ subs \subseteq Sub
    /\ sst  \in [Sub -> SubState]
    /\ q    \in [Sub -> 0..Cap]
    /\ src  \in [Sub -> SUBSET Provider]
    /\ call \in [Caller -> [at : InFlight \cup Answer \cup {"idle"},
                            g  : Provider \cup {None}]]

Idle == [at |-> "idle", g |-> None]

Init ==
    /\ slot = None
    /\ ist  = [g \in Provider |-> "none"]
    /\ done = [g \in Provider |-> 0]
    /\ pst  = [g \in Provider |-> "none"]
    /\ buf  = [g \in Provider |-> 0]
    /\ pump = [g \in Provider |-> "none"]
    /\ subs = {}
    /\ sst  = [s \in Sub |-> "new"]
    /\ q    = [s \in Sub |-> 0]
    /\ src  = [s \in Sub |-> {}]
    /\ call = [c \in Caller |-> Idle]

Goto(c, at, g) == call' = [call EXCEPT ![c] = [at |-> at, g |-> g]]

-----------------------------------------------------------------------------
(* Connect *)

\* Mutant: no reservation, Connect only looks at the table when it commits.
ReserveTaken(c, g) ==
    /\ call[c].at = "idle"
    /\ pst[g] = "none"
    /\ slot' = g
    /\ ist' = [ist EXCEPT ![g] = "connecting"]
    /\ pst' = [pst EXCEPT ![g] = "new"]
    /\ Goto(c, "dial", g)
    /\ UNCHANGED <<done, buf, pump, subVars>>

\* The slot is reserved before the slow dial.
ConnectReserve(c, g) ==
    /\ call[c].at = "idle"
    /\ slot = None
    /\ pst[g] = "none"
    /\ slot' = g
    /\ ist' = [ist EXCEPT ![g] = "connecting"]
    /\ pst' = [pst EXCEPT ![g] = "new"]
    /\ Goto(c, "dial", g)
    /\ UNCHANGED <<done, buf, pump, subVars>>

ConnectConflict(c) ==
    /\ call[c].at = "idle"
    /\ slot # None
    /\ Goto(c, "conflict", None)
    /\ UNCHANGED <<slotVars, pst, buf, pump, subVars>>

\* p.Connect returns nil after Ready, whose handler has published
\* EventConnected.
DialOk(c) ==
    /\ call[c].at = "dial"
    /\ pst' = [pst EXCEPT ![call[c].g] = "open"]
    /\ buf' = [buf EXCEPT ![call[c].g] = 1]
    /\ Goto(c, "commit", call[c].g)
    /\ UNCHANGED <<slotVars, pump, subVars>>

\* p.Connect returns an error: the session was closed again (or never
\* opened), and the Events() channel stays open with nobody reading it.
DialErr(c) ==
    /\ call[c].at = "dial"
    /\ pst' = [pst EXCEPT ![call[c].g] = "failed"]
    /\ Goto(c, "abort", call[c].g)
    /\ UNCHANGED <<slotVars, buf, pump, subVars>>

ConnectAbort(c) ==
    /\ call[c].at = "abort"
    /\ done' = IF slot # None THEN [done EXCEPT ![slot] = @ + 1] ELSE done
    /\ slot' = None
    /\ Goto(c, "failed", None)
    /\ UNCHANGED <<ist, pst, buf, pump, subVars>>

\* Back under the lock: the instance now in the map is completed and its
\* pump started; an empty slot means the fresh provider is torn down.
ConnectCommit(c) ==
    /\ call[c].at = "commit"
    /\ IF slot # None
       THEN /\ ist' = [ist EXCEPT ![slot] = "online"]
            /\ pump' = [pump EXCEPT ![slot] = "loop"]
            /\ Goto(c, "connected", slot)
            /\ UNCHANGED pst
       ELSE /\ pst' = [pst EXCEPT ![call[c].g] = "closed"]
            /\ Goto(c, "conflict", None)
            /\ UNCHANGED <<ist, pump>>
    /\ UNCHANGED <<slot, done, buf, subVars>>

-----------------------------------------------------------------------------
(* Disconnect and Shutdown *)

\* What Disconnect and Shutdown require of the entry, and all that
\* Provider() looks at.
SlotOnline == slot # None /\ ist[slot] = "online"

\* Shutdown first collects the accounts that are online, then calls
\* Disconnect for each of them without the lock held in between.
ShutdownSnapshot(c) ==
    /\ call[c].at = "idle"
    /\ IF SlotOnline
       THEN Goto(c, "snapshot", None)
       ELSE Goto(c, "disconnected", None)
    /\ UNCHANGED <<slotVars, pst, buf, pump, subVars>>

\* Mutant: an instance that is still connecting may be disconnected.
DisconnectConnecting(c) ==
    /\ call[c].at \in {"idle", "snapshot"}
    /\ slot # None
    /\ ist' = [ist EXCEPT ![slot] = "disconnecting"]
    /\ Goto(c, "closing", slot)
    /\ UNCHANGED <<slot, done, pst, buf, pump, subVars>>

DisconnectBegin(c) ==
    /\ call[c].at \in {"idle", "snapshot"}
    /\ SlotOnline
    /\ ist' = [ist EXCEPT ![slot] = "disconnecting"]
    /\ Goto(c, "closing", slot)
    /\ UNCHANGED <<slot, done, pst, buf, pump, subVars>>

DisconnectConflict(c) ==
    /\ call[c].at \in {"idle", "snapshot"}
    /\ ~SlotOnline
    /\ Goto(c, "conflict", None)
    /\ UNCHANGED <<slotVars, pst, buf, pump, subVars>>

\* Provider.Disconnect: a last EventDisconnected if there is room, then
\* the Events() channel is closed; a second call changes nothing.
CloseProvider(g) ==
    /\ pst' = [pst EXCEPT ![g] = "closed"]
    /\ buf' = IF pst[g] = "open" /\ buf[g] < Buf THEN [buf EXCEPT ![g] = @ + 1] ELSE buf

ProviderDisconnectOk(c) ==
    /\ call[c].at = "closing"
    /\ CloseProvider(call[c].g)
    /\ Goto(c, "await", call[c].g)
    /\ UNCHANGED <<slotVars, pump, subVars>>

\* Closing the websocket failed: the error is returned, but the channel
\* has been closed all the same.  A provider already closed returns nil.
ProviderDisconnectErr(c) ==
    /\ call[c].at = "closing"
    /\ pst[call[c].g] = "open"
    /\ CloseProvider(call[c].g)
    /\ Goto(c, "rollback", call[c].g)
    /\ UNCHANGED <<slotVars, pump, subVars>>

\* Mutant: the rollback closes pumpDone to release whoever waits for it.
RollbackCloses(c) ==
    /\ call[c].at = "rollback"
    /\ ist' = [ist EXCEPT ![call[c].g] = "online"]
    /\ done' = [done EXCEPT ![call[c].g] = @ + 1]
    /\ Goto(c, "failed", None)
    /\ UNCHANGED <<slot, pst, buf, pump, subVars>>

DisconnectRollback(c) ==
    /\ call[c].at = "rollback"
    /\ ist' = [ist EXCEPT ![call[c].g] = "online"]
    /\ Goto(c, "failed", None)
    /\ UNCHANGED <<slot, done, pst, buf, pump, subVars>>

\* Mutant: the entry is deleted without waiting for the pump (the code
\* before M8-Q-P0-002).
DisconnectNoWait(c) ==
    /\ call[c].at = "await"
    /\ slot' = None
    /\ Goto(c, "disconnected", None)
    /\ UNCHANGED <<ist, done, pst, buf, pump, subVars>>

\* <-inst.pumpDone, then the entry is deleted.
DisconnectAwait(c) ==
    /\ call[c].at = "await"
    /\ done[call[c].g] > 0
    /\ slot' = None
    /\ Goto(c, "disconnected", None)
    /\ UNCHANGED <<ist, done, pst, buf, pump, subVars>>

\* The caller goes on with the answer in hand.
Return(c) ==
    /\ call[c].at \in Answer
    /\ call' = [call EXCEPT ![c] = Idle]
    /\ UNCHANGED <<slotVars, pst, buf, pump, subVars>>

-----------------------------------------------------------------------------
(* Events: provider, pump, subscriptions *)

\* unsafePublish: dropped when the buffer is full.
Emit(g) ==
    /\ pst[g] = "open"
    /\ buf[g] < Buf
    /\ buf' = [buf EXCEPT ![g] = @ + 1]
    /\ UNCHANGED <<slotVars, pst, pump, subVars, call>>

HasRoom(s) == sst[s] = "open" /\ q[s] < Cap

\* One event, fanned out to every subscriber that has room.
PumpDeliver(g) ==
    /\ pump[g] = "loop"
    /\ buf[g] > 0
    /\ buf' = [buf EXCEPT ![g] = @ - 1]
    /\ q' = [s \in Sub |-> IF s \in subs /\ HasRoom(s) THEN q[s] + 1 ELSE q[s]]
    /\ src' = [s \in Sub |-> IF s \in subs /\ HasRoom(s) THEN src[s] \cup {g} ELSE src[s]]
    /\ UNCHANGED <<slotVars, pst, pump, subs, sst, call>>

\* Mutant: the pump ends and leaves its subscribers registered.
TailKeepsSubs(g) ==
    /\ pump[g] = "loop"
    /\ pst[g] = "closed"
    /\ buf[g] = 0
    /\ pump' = [pump EXCEPT ![g] = "closing"]
    /\ UNCHANGED <<slotVars, pst, buf, subVars, call>>

\* Events() is closed and drained: every remaining subscriber is closed.
PumpTail(g) ==
    /\ pump[g] = "loop"
    /\ pst[g] = "closed"
    /\ buf[g] = 0
    /\ sst' = [s \in Sub |-> IF s \in subs THEN "closed" ELSE sst[s]]
    /\ subs' = {}
    /\ pump' = [pump EXCEPT ![g] = "closing"]
    /\ UNCHANGED <<slotVars, pst, buf, q, src, call>>

\* Mutant: the pump does not close pumpDone.
ExitSilently(g) ==
    /\ pump[g] = "closing"
    /\ pump' = [pump EXCEPT ![g] = "exited"]
    /\ UNCHANGED <<slotVars, pst, buf, subVars, call>>

\* The deferred close(pumpDone).
PumpExit(g) ==
    /\ pump[g] = "closing"
    /\ pump' = [pump EXCEPT ![g] = "exited"]
    /\ done' = [done EXCEPT ![g] = @ + 1]
    /\ UNCHANGED <<slot, ist, pst, buf, subVars, call>>

\* Subscribe never looks at the slot.
Subscribe(s) ==
    /\ sst[s] = "new"
    /\ sst' = [sst EXCEPT ![s] = "open"]
    /\ subs' = subs \cup {s}
    /\ UNCHANGED <<slotVars, pst, buf, pump, q, src, call>>

Unsubscribe(s) ==
    /\ sst[s] # "new"
    /\ sst' = [sst EXCEPT ![s] = "closed"]
    /\ subs' = subs \ {s}
    /\ UNCHANGED <<slotVars, pst, buf, pump, q, src, call>>

Receive(s) ==
    /\ q[s] > 0
    /\ q' = [q EXCEPT ![s] = @ - 1]
    /\ UNCHANGED <<slotVars, pst, buf, pump, subs, sst, src, call>>

-----------------------------------------------------------------------------

ConnectStep(c) ==
    \/ DialOk(c) \/ DialErr(c) \/ ConnectAbort(c) \/ ConnectCommit(c)

DisconnectStep(c) ==
    \/ ProviderDisconnectOk(c) \/ ProviderDisconnectErr(c)
    \/ DisconnectRollback(c) \/ DisconnectAwait(c)

CallerBegin(c) ==
    \/ \E g \in Provider : ConnectReserve(c, g)
    \/ ConnectConflict(c)
    \/ ShutdownSnapshot(c)
    \/ DisconnectBegin(c)
    \/ DisconnectConflict(c)

PumpStep(g) == PumpDeliver(g) \/ PumpTail(g) \/ PumpExit(g)

Next ==
    \/ \E c \in Caller : CallerBegin(c) \/ ConnectStep(c) \/ DisconnectStep(c) \/ Return(c)
    \/ \E g \in Provider : Emit(g) \/ PumpStep(g)
    \/ \E s \in Sub : Subscribe(s) \/ Unsubscribe(s) \/ Receive(s)

Spec == Init /\ [][Next]_connVars

(* Goroutines run when they can; the dial ends (ReadyTimeout) and so does  *)
(* closing the websocket.  Nothing forces callers to call, providers to    *)
(* emit or consumers to consume.                                           *)
Fairness ==
    /\ \A c \in Caller : WF_connVars(ConnectStep(c)) /\ WF_connVars(DisconnectStep(c))
                         /\ WF_connVars(call[c].at = "snapshot" /\ CallerBegin(c))
    /\ \A g \in Provider : WF_connVars(PumpStep(g))

FairSpec == Spec /\ Fairness

-----------------------------------------------------------------------------
(* Properties *)

\* Two sessions of one bot are never open at once, whatever Connect,
\* Disconnect and Shutdown calls overlap (slot reservation, M3-P3-003).
OneLiveSession ==
    \A g, h \in Provider : pst[g] = "open" /\ pst[h] = "open" => g = h

\* The reservation a Connect made is still its own when it takes the lock
\* again: neither another caller nor Shutdown clears or replaces it, so the
\* "slot was cleared during connect" branch never runs.
ConnectOwnsSlot ==
    \A c \in Caller : call[c].at \in ConnectAt => slot = call[c].g /\ ist[slot] = "connecting"

\* A free slot has nothing of an earlier generation left behind it: no open
\* session, and no pump that has yet to close its subscribers (M8-Q-P0-002).
FreeSlotIsQuiet ==
    \A g \in Provider : slot # g => pst[g] # "open" /\ pump[g] \notin {"loop", "closing"}

\* pumpDone, closed by the failed Connect or by the pump, is never closed
\* twice (a second close panics the daemon).
PumpDoneClosedOnce == \A g \in Provider : done[g] <= 1

\* A subscription only ever hears one session: events of a new session are
\* not delivered into a channel that carried an earlier one.
OneSessionPerSub == \A s \in Sub : Cardinality(src[s]) <= 1

\* The list holds exactly the open channels: an open one is never lost from
\* it (it could not be closed any more), a closed one never sent to.
RegisteredIffOpen == \A s \in Sub : s \in subs <=> sst[s] = "open"

\* Only its own generation's teardown, or its consumer, closes a
\* subscription, and only when the slot still belongs to that generation.
SubsClosedByOwner ==
    [][\A s \in Sub : sst[s] = "open" /\ sst'[s] = "closed" =>
         \/ Unsubscribe(s)
         \/ slot # None /\ PumpTail(slot)]_connVars

\* Every Connect, Disconnect and Shutdown call comes back, whatever runs
\* at the same time: nobody waits forever for pumpDone.
EveryCallReturns ==
    \A c \in Caller : call[c].at \in InFlight ~> call[c].at \in Answer

\* Once the provider's channel is closed every consumer registered with its
\* pump sees its own channel closed, even when Disconnect returned an error.
ClosedStreamReachesSubs ==
    \A g \in Provider, s \in Sub :
        pump[g] = "loop" /\ pst[g] = "closed" /\ s \in subs ~> sst[s] = "closed"

\* The strengthening that makes the invariants above inductive: a goroutine
\* between two sections of Connect or Disconnect owns the slot, everything
\* outside the slot is quiet, and a pump exists exactly from the commit of
\* its Connect on.
CallOwnsSlot ==
    \A c \in Caller :
        /\ call[c].at \in ConnectAt =>
              /\ slot = call[c].g
              /\ slot # None
              /\ ist[slot] = "connecting"
              /\ pst[slot] = CASE call[c].at = "dial" -> "new"
                               [] call[c].at = "commit" -> "open"
                               [] OTHER -> "failed"
        /\ call[c].at \in DisconnectAt =>
              /\ slot = call[c].g
              /\ slot # None
              /\ ist[slot] = "disconnecting"
              /\ call[c].at # "closing" => pst[slot] = "closed"

SlotUserIsAlone ==
    \A c, d \in Caller :
        /\ call[c].at \in ConnectAt \cup DisconnectAt
        /\ call[d].at \in ConnectAt \cup DisconnectAt
        => c = d

PumpFollowsSlot ==
    \A g \in Provider :
        /\ pump[g] = "none" => done[g] <= 1
        /\ pump[g] = "loop" => done[g] = 0 /\ pst[g] \in {"open", "closed"}
        /\ pump[g] = "closing" => done[g] = 0 /\ pst[g] = "closed"
        /\ pump[g] = "exited" => done[g] = 1 /\ pst[g] = "closed"
        /\ pst[g] = "none" => slot # g /\ pump[g] = "none" /\ done[g] = 0
        /\ slot = g /\ ist[g] = "connecting" => pump[g] = "none" /\ done[g] = 0
        /\ slot = g /\ ist[g] # "connecting" => pump[g] # "none" /\ ist[g] # "none"

HeardOnlyRunning ==
    \A s \in Sub :
        /\ sst[s] = "new" => src[s] = {}
        /\ sst[s] = "open" => \A g \in src[s] : pump[g] = "loop"
        /\ \A g, h \in src[s] : g = h

ConnInv ==
    /\ TypeOK
    /\ CallOwnsSlot
    /\ SlotUserIsAlone
    /\ FreeSlotIsQuiet
    /\ PumpFollowsSlot
    /\ HeardOnlyRunning
    /\ RegisteredIffOpen

\* The Connector implements AccountStream: the session is the one whose
\* pump has not yet closed its subscribers.
Running == {g \in Provider : pump[g] = "loop"}
Stream == INSTANCE AccountStream WITH
    session   <- IF Running = {} THEN None ELSE CHOOSE g \in Running : TRUE,
    used      <- {g \in Provider : pump[g] # "none"},
    listening <- {s \in Sub : sst[s] = "open"},
    ended     <- {s \in Sub : sst[s] = "closed"},
    heard     <- src

ImplementsStream == Stream!StreamSpec
=============================================================================
