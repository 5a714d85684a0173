------------------------ MODULE AccountLifecycleProofs ------------------------
(***************************************************************************)
(* Proofs about Connector and about AccountLifecycle, which adds the       *)
(* requests, the ingester's bookkeeping and the daemon to it; for any      *)
(* number of callers, instances and subscriptions and any buffer sizes.    *)
(*                                                                         *)
(*   The Connector:  ConnInv is inductive; its safety properties and the   *)
(*     implementation of AccountStream follow from it.                     *)
(*   No hidden session:  the requests drive the Connector only through its *)
(*     operations, so ConnInv carries over, and LifeInv adds that no       *)
(*     session is left open behind the back of the accounts table.         *)
(*   Online is served:  ServeInv adds what holds as long as the requests   *)
(*     came one after the other.                                           *)
(***************************************************************************)
EXTENDS AccountLifecycle, TLAPS, FiniteSetTheorems

-----------------------------------------------------------------------------
(* The Connector *)

(* A Connect reserves a free slot: by FreeSlotIsQuiet nothing is running,  *)
(* and nobody else can be inside Connect or Disconnect.                    *)
LEMMA ConnectReserveInv ==
  ASSUME ConnInv, NEW c \in Caller, NEW g \in Provider, ConnectReserve(c, g)
  PROVE  ConnInv'
  BY ConnectorAssumption DEF ConnInv, TypeOK, CallOwnsSlot, SlotUserIsAlone, FreeSlotIsQuiet,
         PumpFollowsSlot, HeardOnlyRunning, RegisteredIffOpen,
         ConnectReserve, Goto, slotVars, subVars, ConnectAt, DisconnectAt, InFlight,
         InstanceState, ProviderState

(* A refused call changes nothing but the caller.                          *)
LEMMA ConnectConflictInv ==
  ASSUME ConnInv, NEW c \in Caller, ConnectConflict(c)
  PROVE  ConnInv'
  BY ConnectorAssumption DEF ConnInv, TypeOK, CallOwnsSlot, SlotUserIsAlone, FreeSlotIsQuiet,
         PumpFollowsSlot, HeardOnlyRunning, RegisteredIffOpen,
         ConnectConflict, Goto, slotVars, subVars, ConnectAt, DisconnectAt, Answer

(* A refused call changes nothing but the caller.                          *)
LEMMA DisconnectConflictInv ==
  ASSUME ConnInv, NEW c \in Caller, DisconnectConflict(c)
  PROVE  ConnInv'
  BY ConnectorAssumption DEF ConnInv, TypeOK, CallOwnsSlot, SlotUserIsAlone, FreeSlotIsQuiet,
         PumpFollowsSlot, HeardOnlyRunning, RegisteredIffOpen,
         DisconnectConflict, Goto, slotVars, subVars, ConnectAt, DisconnectAt, Answer

(* The dial ends: the caller owns the slot it reserved, and still does.    *)
LEMMA DialOkInv ==
  ASSUME ConnInv, NEW c \in Caller, DialOk(c)
  PROVE  ConnInv'
  BY ConnectorAssumption DEF ConnInv, TypeOK, CallOwnsSlot, SlotUserIsAlone, FreeSlotIsQuiet,
         PumpFollowsSlot, HeardOnlyRunning, RegisteredIffOpen,
         DialOk, Goto, slotVars, subVars, ConnectAt, DisconnectAt, InFlight, ProviderState

(* ... and so it does when the dial fails.                                 *)
LEMMA DialErrInv ==
  ASSUME ConnInv, NEW c \in Caller, DialErr(c)
  PROVE  ConnInv'
  BY ConnectorAssumption DEF ConnInv, TypeOK, CallOwnsSlot, SlotUserIsAlone, FreeSlotIsQuiet,
         PumpFollowsSlot, HeardOnlyRunning, RegisteredIffOpen,
         DialErr, Goto, slotVars, subVars, ConnectAt, DisconnectAt, InFlight, ProviderState

(* The failed Connect closes the pumpDone of its own instance: no pump     *)
(* ever existed for it.                                                    *)
LEMMA ConnectAbortInv ==
  ASSUME ConnInv, NEW c \in Caller, ConnectAbort(c)
  PROVE  ConnInv'
  BY ConnectorAssumption DEF ConnInv, TypeOK, CallOwnsSlot, SlotUserIsAlone, FreeSlotIsQuiet,
         PumpFollowsSlot, HeardOnlyRunning, RegisteredIffOpen,
         ConnectAbort, Goto, slotVars, subVars, ConnectAt, DisconnectAt, Answer

(* The commit finds its own reservation in the map, so the branch that     *)
(* tears the fresh provider down is dead, and the new pump is the only one.*)
LEMMA ConnectCommitInv ==
  ASSUME ConnInv, NEW c \in Caller, ConnectCommit(c)
  PROVE  ConnInv'
<1> USE ConnectorAssumption
<1>1. /\ call[c].at = "commit" /\ slot \in Provider /\ slot = call[c].g
      /\ ist[slot] = "connecting" /\ pst[slot] = "open"
      /\ pump[slot] = "none" /\ done[slot] = 0
  BY DEF ConnInv, TypeOK, CallOwnsSlot, PumpFollowsSlot, ConnectCommit, ConnectAt
<1>2. /\ ist' = [ist EXCEPT ![slot] = "online"]
      /\ pump' = [pump EXCEPT ![slot] = "loop"]
      /\ call' = [call EXCEPT ![c] = [at |-> "connected", g |-> slot]]
      /\ UNCHANGED <<slot, done, pst, buf, subs, sst, q, src>>
  BY <1>1 DEF ConnectCommit, Goto, subVars
<1>3. TypeOK'
  BY <1>1, <1>2 DEF ConnInv, TypeOK, Answer, InstanceState, PumpState
<1>4. \A d \in Caller : d # c =>
         call'[d] = call[d] /\ call[d].at \notin ConnectAt \cup DisconnectAt
  BY <1>1, <1>2 DEF ConnInv, TypeOK, SlotUserIsAlone, ConnectAt
<1>5. call'[c].at \notin ConnectAt \cup DisconnectAt
  BY <1>2 DEF ConnInv, TypeOK, ConnectAt, DisconnectAt
<1>6. CallOwnsSlot' /\ SlotUserIsAlone'
  BY <1>4, <1>5 DEF CallOwnsSlot, SlotUserIsAlone
<1>7. FreeSlotIsQuiet' /\ PumpFollowsSlot'
  BY <1>1, <1>2 DEF ConnInv, TypeOK, FreeSlotIsQuiet, PumpFollowsSlot
<1>8. HeardOnlyRunning' /\ RegisteredIffOpen'
  BY <1>1, <1>2 DEF ConnInv, TypeOK, HeardOnlyRunning, RegisteredIffOpen
<1> QED
  BY <1>3, <1>6, <1>7, <1>8 DEF ConnInv

(* Shutdown's first section only reads.                                    *)
LEMMA ShutdownSnapshotInv ==
  ASSUME ConnInv, NEW c \in Caller, ShutdownSnapshot(c)
  PROVE  ConnInv'
<1> USE ConnectorAssumption
<1>1. PICK at \in {"snapshot", "disconnected"} :
         /\ call[c].at = "idle"
         /\ call' = [call EXCEPT ![c] = [at |-> at, g |-> None]]
         /\ UNCHANGED <<slot, ist, done, pst, buf, pump, subs, sst, q, src>>
  BY DEF ShutdownSnapshot, Goto, slotVars, subVars
<1>2. TypeOK'
  BY <1>1 DEF ConnInv, TypeOK, InFlight, Answer
<1>3. CallOwnsSlot' /\ SlotUserIsAlone'
  BY <1>1 DEF ConnInv, TypeOK, CallOwnsSlot, SlotUserIsAlone, ConnectAt, DisconnectAt
<1>4. FreeSlotIsQuiet' /\ PumpFollowsSlot' /\ HeardOnlyRunning' /\ RegisteredIffOpen'
  BY <1>1 DEF ConnInv, FreeSlotIsQuiet, PumpFollowsSlot, HeardOnlyRunning, RegisteredIffOpen
<1> QED
  BY <1>2, <1>3, <1>4 DEF ConnInv

(* Disconnect takes an online slot: nobody else is inside Connect or       *)
(* Disconnect, whose slots are connecting or disconnecting.                *)
LEMMA DisconnectBeginInv ==
  ASSUME ConnInv, NEW c \in Caller, DisconnectBegin(c)
  PROVE  ConnInv'
  BY ConnectorAssumption DEF ConnInv, TypeOK, CallOwnsSlot, SlotUserIsAlone, FreeSlotIsQuiet,
         PumpFollowsSlot, HeardOnlyRunning, RegisteredIffOpen,
         DisconnectBegin, Goto, slotVars, subVars, ConnectAt, DisconnectAt, SlotOnline, InFlight,
         InstanceState

(* The provider closes its channel, inside the caller's own slot.          *)
LEMMA ProviderDisconnectOkInv ==
  ASSUME ConnInv, NEW c \in Caller, ProviderDisconnectOk(c)
  PROVE  ConnInv'
  BY ConnectorAssumption DEF ConnInv, TypeOK, CallOwnsSlot, SlotUserIsAlone, FreeSlotIsQuiet,
         PumpFollowsSlot, HeardOnlyRunning, RegisteredIffOpen,
         ProviderDisconnectOk, Goto, slotVars, subVars, ConnectAt, DisconnectAt, CloseProvider, InFlight,
         ProviderState

(* The same when closing the websocket failed.                             *)
LEMMA ProviderDisconnectErrInv ==
  ASSUME ConnInv, NEW c \in Caller, ProviderDisconnectErr(c)
  PROVE  ConnInv'
  BY ConnectorAssumption DEF ConnInv, TypeOK, CallOwnsSlot, SlotUserIsAlone, FreeSlotIsQuiet,
         PumpFollowsSlot, HeardOnlyRunning, RegisteredIffOpen,
         ProviderDisconnectErr, Goto, slotVars, subVars, ConnectAt, DisconnectAt, CloseProvider, InFlight,
         ProviderState

(* The slot goes back to online with its provider closed.                  *)
LEMMA DisconnectRollbackInv ==
  ASSUME ConnInv, NEW c \in Caller, DisconnectRollback(c)
  PROVE  ConnInv'
  BY ConnectorAssumption DEF ConnInv, TypeOK, CallOwnsSlot, SlotUserIsAlone, FreeSlotIsQuiet,
         PumpFollowsSlot, HeardOnlyRunning, RegisteredIffOpen,
         DisconnectRollback, Goto, slotVars, subVars, ConnectAt, DisconnectAt, Answer, InstanceState

(* pumpDone is closed, so the pump has exited: the slot is quiet when it   *)
(* is given up.                                                            *)
LEMMA DisconnectAwaitInv ==
  ASSUME ConnInv, NEW c \in Caller, DisconnectAwait(c)
  PROVE  ConnInv'
  BY ConnectorAssumption DEF ConnInv, TypeOK, CallOwnsSlot, SlotUserIsAlone, FreeSlotIsQuiet,
         PumpFollowsSlot, HeardOnlyRunning, RegisteredIffOpen,
         DisconnectAwait, Goto, slotVars, subVars, ConnectAt, DisconnectAt, Answer, PumpState

(* The caller takes its answer.                                            *)
LEMMA ReturnInv ==
  ASSUME ConnInv, NEW c \in Caller, Return(c)
  PROVE  ConnInv'
  BY ConnectorAssumption DEF ConnInv, TypeOK, CallOwnsSlot, SlotUserIsAlone, FreeSlotIsQuiet,
         PumpFollowsSlot, HeardOnlyRunning, RegisteredIffOpen,
         Return, Idle, slotVars, subVars, ConnectAt, DisconnectAt,
         Answer

(* An event enters the buffer of an open provider.                         *)
LEMMA EmitInv ==
  ASSUME ConnInv, NEW g \in Provider, Emit(g)
  PROVE  ConnInv'
  BY ConnectorAssumption DEF ConnInv, TypeOK, CallOwnsSlot, SlotUserIsAlone, FreeSlotIsQuiet,
         PumpFollowsSlot, HeardOnlyRunning, RegisteredIffOpen,
         Emit, slotVars, subVars

(* Only the running pump delivers, and only to open subscriptions.         *)
LEMMA PumpDeliverInv ==
  ASSUME ConnInv, NEW g \in Provider, PumpDeliver(g)
  PROVE  ConnInv'
  BY ConnectorAssumption DEF ConnInv, TypeOK, CallOwnsSlot, SlotUserIsAlone, FreeSlotIsQuiet,
         PumpFollowsSlot, HeardOnlyRunning, RegisteredIffOpen,
         PumpDeliver, HasRoom, slotVars

(* The tail closes every open subscription, so nobody is left waiting for  *)
(* this generation.                                                        *)
LEMMA PumpTailInv ==
  ASSUME ConnInv, NEW g \in Provider, PumpTail(g)
  PROVE  ConnInv'
  BY ConnectorAssumption DEF ConnInv, TypeOK, CallOwnsSlot, SlotUserIsAlone, FreeSlotIsQuiet,
         PumpFollowsSlot, HeardOnlyRunning, RegisteredIffOpen,
         PumpTail, slotVars, PumpState, SubState

(* pumpDone of this instance had not been closed by anybody else.          *)
LEMMA PumpExitInv ==
  ASSUME ConnInv, NEW g \in Provider, PumpExit(g)
  PROVE  ConnInv'
  BY ConnectorAssumption DEF ConnInv, TypeOK, CallOwnsSlot, SlotUserIsAlone, FreeSlotIsQuiet,
         PumpFollowsSlot, HeardOnlyRunning, RegisteredIffOpen,
         PumpExit, slotVars, subVars, PumpState

(* A new subscription is registered, and has heard nothing.                *)
LEMMA SubscribeInv ==
  ASSUME ConnInv, NEW s \in Sub, Subscribe(s)
  PROVE  ConnInv'
  BY ConnectorAssumption DEF ConnInv, TypeOK, CallOwnsSlot, SlotUserIsAlone, FreeSlotIsQuiet,
         PumpFollowsSlot, HeardOnlyRunning, RegisteredIffOpen,
         Subscribe, slotVars, SubState

(* Unsubscribe removes and closes under one lock.                          *)
LEMMA UnsubscribeInv ==
  ASSUME ConnInv, NEW s \in Sub, Unsubscribe(s)
  PROVE  ConnInv'
  BY ConnectorAssumption DEF ConnInv, TypeOK, CallOwnsSlot, SlotUserIsAlone, FreeSlotIsQuiet,
         PumpFollowsSlot, HeardOnlyRunning, RegisteredIffOpen,
         Unsubscribe, slotVars, SubState

(* A consumer drains its own channel.                                      *)
LEMMA ReceiveInv ==
  ASSUME ConnInv, NEW s \in Sub, Receive(s)
  PROVE  ConnInv'
  BY ConnectorAssumption DEF ConnInv, TypeOK, CallOwnsSlot, SlotUserIsAlone, FreeSlotIsQuiet,
         PumpFollowsSlot, HeardOnlyRunning, RegisteredIffOpen,
         Receive, slotVars

-----------------------------------------------------------------------------

LEMMA InitInv == Init => ConnInv
  BY ConnectorAssumption
  DEF Init, Idle, ConnInv, TypeOK, CallOwnsSlot, SlotUserIsAlone, FreeSlotIsQuiet,
      PumpFollowsSlot, HeardOnlyRunning, RegisteredIffOpen, ConnectAt, DisconnectAt,
      InstanceState, ProviderState, PumpState, SubState

LEMMA NextInv == ConnInv /\ [Next]_connVars => ConnInv'
<1> SUFFICES ASSUME ConnInv, [Next]_connVars PROVE ConnInv'
  OBVIOUS
<1>1. ASSUME NEW c \in Caller, CallerBegin(c) PROVE ConnInv'
  <2>1. ASSUME NEW g \in Provider, ConnectReserve(c, g) PROVE ConnInv'
    BY <2>1, ConnectReserveInv
  <2> QED
    BY <1>1, <2>1, ConnectConflictInv, ShutdownSnapshotInv, DisconnectBeginInv,
       DisconnectConflictInv DEF CallerBegin
<1>2. ASSUME NEW c \in Caller, ConnectStep(c) PROVE ConnInv'
  BY <1>2, DialOkInv, DialErrInv, ConnectAbortInv, ConnectCommitInv DEF ConnectStep
<1>3. ASSUME NEW c \in Caller, DisconnectStep(c) PROVE ConnInv'
  BY <1>3, ProviderDisconnectOkInv, ProviderDisconnectErrInv, DisconnectRollbackInv,
     DisconnectAwaitInv DEF DisconnectStep
<1>4. ASSUME NEW g \in Provider, PumpStep(g) PROVE ConnInv'
  BY <1>4, PumpDeliverInv, PumpTailInv, PumpExitInv DEF PumpStep
<1>5. CASE UNCHANGED connVars
  BY <1>5 DEF ConnInv, TypeOK, CallOwnsSlot, SlotUserIsAlone, FreeSlotIsQuiet,
     PumpFollowsSlot, HeardOnlyRunning, RegisteredIffOpen, connVars
<1> QED
  BY <1>1, <1>2, <1>3, <1>4, <1>5, ReturnInv, EmitInv, SubscribeInv, UnsubscribeInv,
     ReceiveInv DEF Next

(* The inductive invariant holds in every reachable state, whatever calls  *)
(* overlap on the account.                                                 *)
THEOREM ConnectorInvariant == Spec => []ConnInv
<1>1. Init => ConnInv
  BY InitInv
<1>2. ConnInv /\ [Next]_connVars => ConnInv'
  BY NextInv
<1> QED
  BY <1>1, <1>2, PTL DEF Spec

(* Every variable keeps its type: in particular no channel is ever sent    *)
(* more than it holds.                                                     *)
THEOREM ConnectorTypes == Spec => []TypeOK
<1>1. ConnInv => TypeOK
  BY DEF ConnInv
<1> QED
  BY <1>1, ConnectorInvariant, PTL

(* A bot never has two open sessions.                                      *)
THEOREM OneSessionAtATime == Spec => []OneLiveSession
<1>1. ConnInv => OneLiveSession
  BY DEF ConnInv, FreeSlotIsQuiet, OneLiveSession
<1> QED
  BY <1>1, ConnectorInvariant, PTL

(* The "slot was cleared during connect" branch of Connect is dead code.   *)
THEOREM ConnectKeepsItsSlot == Spec => []ConnectOwnsSlot
<1>1. ConnInv => ConnectOwnsSlot
  BY DEF ConnInv, CallOwnsSlot, ConnectOwnsSlot
<1> QED
  BY <1>1, ConnectorInvariant, PTL

(* When the slot is free nothing of an earlier generation is still running.*)
THEOREM FreedSlotIsQuiet == Spec => []FreeSlotIsQuiet
<1>1. ConnInv => FreeSlotIsQuiet
  BY DEF ConnInv
<1> QED
  BY <1>1, ConnectorInvariant, PTL

(* pumpDone is never closed twice.                                         *)
THEOREM PumpDoneNeverPanics == Spec => []PumpDoneClosedOnce
<1>1. ConnInv => PumpDoneClosedOnce
  BY DEF ConnInv, TypeOK, PumpFollowsSlot, PumpDoneClosedOnce, PumpState
<1> QED
  BY <1>1, ConnectorInvariant, PTL

LEMMA HeardAtMostOne ==
  ASSUME ConnInv, NEW s \in Sub
  PROVE  Cardinality(src[s]) <= 1
<1>1. CASE src[s] = {}
  BY <1>1, FS_EmptySet
<1>2. CASE src[s] # {}
  <2>1. PICK g \in src[s] : src[s] = {g}
    BY <1>2 DEF ConnInv, HeardOnlyRunning
  <2>2. Cardinality({g}) = 1
    BY FS_Singleton
  <2> QED
    BY <2>1, <2>2
<1> QED
  BY <1>1, <1>2

(* A subscription hears at most one session.                               *)
THEOREM OneSessionHeard == Spec => []OneSessionPerSub
<1>1. ConnInv => OneSessionPerSub
  BY HeardAtMostOne DEF OneSessionPerSub
<1> QED
  BY <1>1, ConnectorInvariant, PTL

(* A closed subscriber was closed by its own consumer or by the pump of    *)
(* the instance that holds the slot.                                       *)
THEOREM SubsClosedOnlyByOwner == Spec => SubsClosedByOwner
<1>1. ConnInv /\ [Next]_connVars =>
        [\A s \in Sub : sst[s] = "open" /\ sst'[s] = "closed" =>
           \/ Unsubscribe(s)
           \/ slot # None /\ PumpTail(slot)]_connVars
  <2> SUFFICES ASSUME ConnInv, Next, NEW s \in Sub,
                      sst[s] = "open", sst'[s] = "closed"
               PROVE  Unsubscribe(s) \/ (slot # None /\ PumpTail(slot))
    BY DEF connVars
  <2>1. ASSUME NEW c \in Caller,
               CallerBegin(c) \/ ConnectStep(c) \/ DisconnectStep(c) \/ Return(c)
        PROVE  FALSE
    <3>1. UNCHANGED sst
      BY <2>1 DEF CallerBegin, ConnectStep, DisconnectStep, Return, ConnectReserve,
         ConnectConflict, ShutdownSnapshot, DisconnectBegin, DisconnectConflict, DialOk,
         DialErr, ConnectAbort, ConnectCommit, ProviderDisconnectOk,
         ProviderDisconnectErr, DisconnectRollback, DisconnectAwait, subVars
    <3> QED
      BY <3>1
  <2>2. ASSUME NEW g \in Provider, Emit(g) \/ PumpStep(g)
        PROVE  slot # None /\ PumpTail(slot)
    <3>1. PumpTail(g)
      BY <2>2 DEF Emit, PumpStep, PumpDeliver, PumpExit, subVars
    <3>2. slot = g
      BY <3>1 DEF ConnInv, FreeSlotIsQuiet, PumpTail
    <3> QED
      BY <3>1, <3>2, ConnectorAssumption
  <2>3. ASSUME NEW t \in Sub, Subscribe(t) \/ Unsubscribe(t) \/ Receive(t)
        PROVE  Unsubscribe(s)
    BY <2>3 DEF ConnInv, TypeOK, Subscribe, Unsubscribe, Receive, SubState
  <2> QED
    BY <2>1, <2>2, <2>3 DEF Next
<1> QED
  BY <1>1, ConnectorInvariant, PTL DEF Spec, SubsClosedByOwner

-----------------------------------------------------------------------------
(* Implementation of AccountStream.  A session starts at ConnectCommit and *)
(* stops at PumpTail; at most one pump is in its loop, so the CHOOSE of the*)
(* refinement mapping has one candidate.                                   *)

SessionOf == IF Running = {} THEN None ELSE CHOOSE g \in Running : TRUE
UsedOf    == {g \in Provider : pump[g] # "none"}
OpenOf    == {s \in Sub : sst[s] = "open"}
ClosedOf  == {s \in Sub : sst[s] = "closed"}

LEMMA SessionIsTheLoop ==
  ASSUME ConnInv
  PROVE  /\ \A g \in Provider : pump[g] = "loop" => SessionOf = g
         /\ (\A g \in Provider : pump[g] # "loop") => SessionOf = None
<1>1. ASSUME NEW g \in Provider, pump[g] = "loop" PROVE Running = {g}
  BY <1>1 DEF ConnInv, FreeSlotIsQuiet, Running
<1>2. ASSUME NEW g \in Provider, pump[g] = "loop" PROVE SessionOf = g
  BY <1>1, <1>2 DEF SessionOf
<1>3. (\A g \in Provider : pump[g] # "loop") => SessionOf = None
  BY DEF SessionOf, Running
<1> QED
  BY <1>2, <1>3

LEMMA StreamStutter ==
  ASSUME UNCHANGED <<pump, sst, src>>
  PROVE  UNCHANGED <<SessionOf, UsedOf, OpenOf, ClosedOf, src>>
<1>1. Running' = Running
  BY DEF Running
<1> QED
  BY <1>1 DEF SessionOf, UsedOf, OpenOf, ClosedOf

LEMMA CommitStarts ==
  ASSUME ConnInv, NEW c \in Caller, ConnectCommit(c)
  PROVE  \E g \in Provider : Stream!Start(g)
<1>1. PICK g \in Provider : /\ slot = g /\ pump[g] = "none" /\ call[c].at = "commit"
  BY ConnectorAssumption
  DEF ConnInv, TypeOK, CallOwnsSlot, PumpFollowsSlot, ConnectCommit, ConnectAt
<1>2. /\ pump' = [pump EXCEPT ![g] = "loop"]
      /\ pump \in [Provider -> PumpState]
      /\ UNCHANGED <<sst, src>>
  BY <1>1, ConnectorAssumption DEF ConnectCommit, subVars, ConnInv, TypeOK
<1>3. SessionOf = None /\ SessionOf' = g
  <2>1. \A h \in Provider : pump[h] # "loop"
    BY <1>1 DEF ConnInv, FreeSlotIsQuiet
  <2>2. Running' = {g}
    BY <1>1, <1>2, <2>1 DEF Running
  <2> QED
    BY <2>1, <2>2, SessionIsTheLoop DEF SessionOf
<1>4. g \notin UsedOf /\ UsedOf' = UsedOf \cup {g}
  BY <1>1, <1>2 DEF UsedOf
<1>5. OpenOf' = OpenOf /\ ClosedOf' = ClosedOf
  BY <1>2 DEF OpenOf, ClosedOf
<1>6. Stream!Start(g)
  BY <1>2, <1>3, <1>4, <1>5 DEF Stream!Start, SessionOf, UsedOf, OpenOf, ClosedOf
<1> QED
  BY <1>6

LEMMA TailStops ==
  ASSUME ConnInv, NEW g \in Provider, PumpTail(g)
  PROVE  Stream!Stop
<1>1. /\ pump[g] = "loop" /\ subs = OpenOf
      /\ \A h \in Provider : pump[h] = "loop" => h = g
  BY DEF ConnInv, TypeOK, FreeSlotIsQuiet, RegisteredIffOpen, PumpTail, OpenOf
<1>2. /\ pump' = [pump EXCEPT ![g] = "closing"]
      /\ pump \in [Provider -> PumpState] /\ sst \in [Sub -> SubState]
      /\ sst' = [s \in Sub |-> IF s \in subs THEN "closed" ELSE sst[s]]
      /\ src' = src
  BY DEF PumpTail, ConnInv, TypeOK
<1>3. SessionOf = g /\ SessionOf' = None
  <2>1. Running' = {}
    BY <1>1, <1>2 DEF Running
  <2> QED
    BY <1>1, <2>1, SessionIsTheLoop DEF SessionOf
<1>4. UsedOf' = UsedOf
  BY <1>1, <1>2 DEF UsedOf
<1>5. OpenOf' = {} /\ ClosedOf' = ClosedOf \cup OpenOf
  BY <1>1, <1>2 DEF OpenOf, ClosedOf
<1>6. g # None
  BY ConnectorAssumption
<1> QED
  BY <1>2, <1>3, <1>4, <1>5, <1>6
  DEF Stream!Stop, SessionOf, UsedOf, OpenOf, ClosedOf

LEMMA PumpDelivers ==
  ASSUME ConnInv, NEW g \in Provider, PumpDeliver(g)
  PROVE  \E S \in SUBSET Sub : Stream!Deliver(S)
<1> DEFINE S == {s \in subs : HasRoom(s)}
<1>1. SessionOf = g /\ g # None
  BY SessionIsTheLoop, ConnectorAssumption DEF PumpDeliver
<1>2. S \in SUBSET Sub /\ S \subseteq OpenOf
  BY DEF ConnInv, TypeOK, HasRoom, OpenOf
<1>3. src' = [s \in Sub |-> IF s \in S THEN src[s] \cup {g} ELSE src[s]]
  BY DEF PumpDeliver
<1>4. Running' = Running /\ UNCHANGED <<pump, sst>>
  BY DEF PumpDeliver, Running
<1>5. UNCHANGED <<SessionOf, UsedOf, OpenOf, ClosedOf>>
  BY <1>4 DEF SessionOf, UsedOf, OpenOf, ClosedOf
<1>6. Stream!Deliver(S)
  BY <1>1, <1>2, <1>3, <1>5 DEF Stream!Deliver, SessionOf, UsedOf, OpenOf, ClosedOf
<1> QED
  BY <1>2, <1>6

LEMMA SubscribeJoins ==
  ASSUME ConnInv, NEW s \in Sub, Subscribe(s)
  PROVE  Stream!Join(s)
<1>1. Running' = Running /\ UNCHANGED <<pump, src>>
  BY DEF Subscribe, Running
<1>2. SessionOf' = SessionOf /\ UsedOf' = UsedOf
  BY <1>1 DEF SessionOf, UsedOf
<1>3. s \notin OpenOf \cup ClosedOf /\ OpenOf' = OpenOf \cup {s} /\ ClosedOf' = ClosedOf
  BY DEF ConnInv, TypeOK, Subscribe, OpenOf, ClosedOf
<1> QED
  BY <1>1, <1>2, <1>3 DEF Stream!Join, SessionOf, UsedOf, OpenOf, ClosedOf

LEMMA UnsubscribeLeaves ==
  ASSUME ConnInv, NEW s \in Sub, Unsubscribe(s)
  PROVE  Stream!Leave(s) \/ UNCHANGED <<SessionOf, UsedOf, OpenOf, ClosedOf, src>>
<1>1. Running' = Running /\ UNCHANGED <<pump, src>>
  BY DEF Unsubscribe, Running
<1>2. SessionOf' = SessionOf /\ UsedOf' = UsedOf
  BY <1>1 DEF SessionOf, UsedOf
<1>3. CASE sst[s] = "open"
  <2>1. s \in OpenOf /\ OpenOf' = OpenOf \ {s} /\ ClosedOf' = ClosedOf \cup {s}
    BY <1>3 DEF ConnInv, TypeOK, Unsubscribe, OpenOf, ClosedOf
  <2> QED
    BY <1>1, <1>2, <2>1 DEF Stream!Leave, SessionOf, UsedOf, OpenOf, ClosedOf
<1>4. CASE sst[s] # "open"
  <2>1. sst' = sst
    BY <1>4 DEF ConnInv, TypeOK, Unsubscribe, SubState
  <2> QED
    BY <1>1, <1>2, <2>1 DEF OpenOf, ClosedOf
<1> QED
  BY <1>3, <1>4

LEMMA PumpExitStutters ==
  ASSUME ConnInv, NEW g \in Provider, PumpExit(g)
  PROVE  UNCHANGED <<SessionOf, UsedOf, OpenOf, ClosedOf, src>>
<1>1. Running' = Running /\ UsedOf' = UsedOf /\ UNCHANGED <<sst, src>>
  BY DEF ConnInv, TypeOK, PumpExit, Running, UsedOf, subVars
<1> QED
  BY <1>1 DEF SessionOf, OpenOf, ClosedOf

(* The Connector implements the abstract account stream: one session at a  *)
(* time, and the subscriptions of a session end with it and with no other. *)
THEOREM ConnectorImplementsStream == Spec => ImplementsStream
<1>1. Init => Stream!StreamInit
  BY DEF Init, Running, Stream!StreamInit
<1>2. ASSUME ConnInv, [Next]_connVars
      PROVE  [Stream!StreamNext]_(Stream!streamVars)
  <2> DEFINE Still == UNCHANGED <<SessionOf, UsedOf, OpenOf, ClosedOf, src>>
  <2>1. Still => UNCHANGED Stream!streamVars
    BY DEF Stream!streamVars, SessionOf, UsedOf, OpenOf, ClosedOf
  <2>2. ASSUME NEW c \in Caller, ConnectCommit(c)
        PROVE  Stream!StreamNext
    BY <1>2, <2>2, CommitStarts DEF Stream!StreamNext
  <2>3. ASSUME NEW c \in Caller,
               CallerBegin(c) \/ ConnectStep(c) \/ DisconnectStep(c) \/ Return(c)
        PROVE  Still \/ Stream!StreamNext
    <3>1. CASE pump' = pump
      <4>1. UNCHANGED <<pump, sst, src>>
        BY <2>3, <3>1 DEF CallerBegin, ConnectStep, DisconnectStep, Return, ConnectReserve,
           ConnectConflict, ShutdownSnapshot, DisconnectBegin, DisconnectConflict, DialOk,
           DialErr, ConnectAbort, ConnectCommit, ProviderDisconnectOk,
           ProviderDisconnectErr, DisconnectRollback, DisconnectAwait, subVars
      <4> QED
        BY <4>1, StreamStutter
    <3>2. CASE pump' # pump
      <4>1. ConnectCommit(c)
        BY <2>3, <3>2 DEF CallerBegin, ConnectStep, DisconnectStep, Return, ConnectReserve,
           ConnectConflict, ShutdownSnapshot, DisconnectBegin, DisconnectConflict, DialOk,
           DialErr, ConnectAbort, ProviderDisconnectOk, ProviderDisconnectErr,
           DisconnectRollback, DisconnectAwait
      <4> QED
        BY <2>2, <3>2, <4>1
    <3> QED
      BY <3>1, <3>2
  <2>4. ASSUME NEW g \in Provider, Emit(g) \/ PumpStep(g)
        PROVE  Still \/ Stream!StreamNext
    <3>1. CASE Emit(g)
      BY <3>1, StreamStutter DEF Emit, subVars
    <3>2. CASE PumpStep(g)
      BY <1>2, <3>2, PumpDelivers, TailStops, PumpExitStutters DEF PumpStep, Stream!StreamNext
    <3> QED
      BY <2>4, <3>1, <3>2
  <2>5. ASSUME NEW s \in Sub, Subscribe(s) \/ Unsubscribe(s) \/ Receive(s)
        PROVE  Still \/ Stream!StreamNext
    <3>1. CASE Receive(s)
      BY <3>1, StreamStutter DEF Receive
    <3>2. CASE ~Receive(s)
      BY <1>2, <2>5, <3>2, SubscribeJoins, UnsubscribeLeaves DEF Stream!StreamNext
    <3> QED
      BY <3>1, <3>2
  <2>6. CASE UNCHANGED connVars
    BY <2>6, StreamStutter, <2>1 DEF connVars
  <2> QED
    BY <1>2, <2>1, <2>3, <2>4, <2>5, <2>6 DEF Next
<1> QED
  BY <1>1, <1>2, ConnectorInvariant, PTL DEF Spec, ImplementsStream, Stream!StreamSpec

-----------------------------------------------------------------------------
(* No hidden session *)

(* What the requests do to the Connector is a step of the Connector, except*)
(* for the crash, which forgets it.                                        *)
LEMMA LifecycleUsesConnector ==
  ASSUME LifecycleTypeOK, CallsOfRequests, [LifecycleNext]_allVars
  PROVE  [Next]_connVars \/ MemoryLost
<1>1. ASSUME NEW c \in Caller, RequestBegin(c) PROVE UNCHANGED connVars
  BY <1>1 DEF RequestBegin, OnlineGet, OfflineCheck, DeleteCheck
<1>2. ASSUME NEW c \in Caller, OnlineStep(c) PROVE [Next]_connVars
  <2>1. CASE OnlineConnect(c)
    BY <2>1 DEF OnlineConnect, Next, CallerBegin
  <2>2. CASE OnlineConnected(c) \/ OnlineUndone(c)
    BY <2>2 DEF OnlineConnected, OnlineUndone, Next
  <2>3. CASE OnlineUndo(c)
    BY <2>3 DEF OnlineUndo, Next, CallerBegin
  <2>4. CASE OnlineAttach(c)
    BY <2>4 DEF OnlineAttach, Next
  <2>5. CASE OnlineCommit(c) \/ OnlineTxFail(c)
    BY <2>5 DEF OnlineCommit, OnlineTxFail
  <2> QED
    BY <1>2, <2>1, <2>2, <2>3, <2>4, <2>5 DEF OnlineStep
<1>3. ASSUME NEW c \in Caller, OfflineStep(c) PROVE [Next]_connVars
  <2>1. CASE OfflineUnsubscribe(c)
    BY <2>1 DEF OfflineUnsubscribe, Next, CallsOfRequests
  <2>2. CASE OfflineDisconnect(c)
    BY <2>2 DEF OfflineDisconnect, Next, CallerBegin
  <2>3. CASE OfflineDone(c)
    BY <2>3 DEF OfflineDone, Next
  <2>4. CASE OfflineCommit(c) \/ OfflineTxFail(c) \/ OfflineDetach(c)
    BY <2>4 DEF OfflineCommit, OfflineTxFail, OfflineDetach
  <2> QED
    BY <1>3, <2>1, <2>2, <2>3, <2>4 DEF OfflineStep
<1>4. ASSUME NEW c \in Caller, RequestStep(c) PROVE [Next]_connVars
  <2>1. CASE DeleteTx(c)
    BY <2>1 DEF DeleteTx
  <2>2. CASE ConnectStep(c) \/ DisconnectStep(c)
    BY <2>2 DEF Next
  <2> QED
    BY <1>2, <1>3, <1>4, <2>1, <2>2 DEF RequestStep
<1>5. ASSUME NEW g \in Provider, ProviderStep(g) PROVE [Next]_connVars
  BY <1>5 DEF ProviderStep, Next
<1>6. ASSUME NEW s \in Sub, RunStep(s) PROVE [Next]_connVars
  BY <1>6 DEF RunStep, RunEvent, RunClosed, RunExit, Next
<1>7. Crash => MemoryLost
  BY DEF Crash
<1>8. Boot \/ UNCHANGED allVars => UNCHANGED connVars
  BY DEF Boot, allVars
<1> QED
  BY <1>1, <1>4, <1>5, <1>6, <1>7, <1>8 DEF LifecycleNext

LEMMA MemoryLostInv == MemoryLost => ConnInv'
  BY ConnectorAssumption
  DEF MemoryLost, Idle, ConnInv, TypeOK, CallOwnsSlot, SlotUserIsAlone, FreeSlotIsQuiet,
      PumpFollowsSlot, HeardOnlyRunning, RegisteredIffOpen, ConnectAt, DisconnectAt,
      InstanceState, ProviderState, PumpState, SubState

-----------------------------------------------------------------------------

LifeRest ==
    /\ LifecycleTypeOK
    /\ SessionIsSettled
    /\ SlotHasUser
    /\ CallsOfRequests
    /\ DownIsEmpty

(* Accepting a request touches no session.                                 *)
LEMMA OnlineGetSettles ==
  ASSUME LifeInv, ConnInv', daemon = "up", NEW c \in Caller, OnlineGet(c)
  PROVE  LifeRest'
  BY ConnectorAssumption
  DEF LifeInv, ConnInv, TypeOK, CallOwnsSlot, FreeSlotIsQuiet, LifeRest, LifecycleTypeOK, SessionIsSettled, SlotHasUser, CallsOfRequests,
      DownIsEmpty, WillSettle, At, OnlineGet,
      Step, StepTo, ReqAt, OnlineAt, OfflineAt, DeleteAt, connVars

(* An offline request is accepted while the slot is online.                *)
LEMMA OfflineCheckSettles ==
  ASSUME LifeInv, ConnInv', daemon = "up", NEW c \in Caller, OfflineCheck(c)
  PROVE  LifeRest'
  BY ConnectorAssumption
  DEF LifeInv, ConnInv, TypeOK, CallOwnsSlot, FreeSlotIsQuiet, LifeRest, LifecycleTypeOK, SessionIsSettled, SlotHasUser, CallsOfRequests,
      DownIsEmpty, WillSettle, At, OfflineCheck,
      Step, StepTo, ReqAt, OnlineAt, OfflineAt, DeleteAt, connVars

(* A delete request is accepted while the slot is free.                    *)
LEMMA DeleteCheckSettles ==
  ASSUME LifeInv, ConnInv', daemon = "up", NEW c \in Caller, DeleteCheck(c)
  PROVE  LifeRest'
  BY ConnectorAssumption
  DEF LifeInv, ConnInv, TypeOK, CallOwnsSlot, FreeSlotIsQuiet, LifeRest, LifecycleTypeOK, SessionIsSettled, SlotHasUser, CallsOfRequests,
      DownIsEmpty, WillSettle, At, DeleteCheck,
      Step, StepTo, ReqAt, OnlineAt, OfflineAt, DeleteAt, connVars

(* Connect is called: the caller becomes the user of the slot it reserves. *)
LEMMA OnlineConnectSettles ==
  ASSUME LifeInv, ConnInv', daemon = "up", NEW c \in Caller, OnlineConnect(c)
  PROVE  LifeRest'
<1> USE ConnectorAssumption
<1>1. /\ req' = [req EXCEPT ![c] = [at |-> "on_dialing", s |-> None]]
      /\ req \in [Caller -> [at : ReqAt, s : Sub \cup {None}]]
      /\ call[c].at = "idle" /\ At(c, "on_connect")
      /\ history' \in {"sequential", "overlapped"}
      /\ UNCHANGED <<daemon, row, attached, runner>>
  BY DEF LifeInv, LifecycleTypeOK, OnlineConnect, StepTo, Step, ConnectReserve,
     ConnectConflict
<1>2. LifecycleTypeOK'
  BY <1>1 DEF LifeInv, LifecycleTypeOK, ReqAt, OnlineAt, OfflineAt, DeleteAt
<1>3. CASE \E g \in Provider : ConnectReserve(c, g)
  <2>1. PICK g \in Provider : ConnectReserve(c, g)
    BY <1>3
  <2>2. call'[c].at = "dial" /\ slot' = g /\ ist'[g] = "connecting"
    BY <2>1 DEF ConnectReserve, Goto, LifeInv, ConnInv, TypeOK
  <2>3. SlotHasUser'
    BY <2>2 DEF SlotHasUser, ConnectAt
  <2>4. SessionIsSettled'
    BY <1>1, <2>1 DEF LifeInv, ConnInv, TypeOK, FreeSlotIsQuiet, SessionIsSettled,
       ConnectReserve
  <2>5. CallsOfRequests'
    BY <1>1, <2>1 DEF LifeInv, ConnInv, TypeOK, CallsOfRequests, ConnectReserve, Goto, At,
       ConnectAt, DisconnectAt
  <2>6. DownIsEmpty'
    BY <1>1 DEF DownIsEmpty
  <2> QED
    BY <1>2, <2>3, <2>4, <2>5, <2>6 DEF LifeRest
<1>4. CASE ConnectConflict(c)
  <2>1. /\ call' = [call EXCEPT ![c] = [at |-> "conflict", g |-> None]]
        /\ UNCHANGED <<slot, ist, pst>>
    BY <1>4 DEF ConnectConflict, Goto, slotVars
  <2>2. SlotHasUser' /\ SessionIsSettled'
    BY <1>1, <2>1 DEF LifeInv, ConnInv, TypeOK, SlotHasUser, SessionIsSettled, WillSettle,
       At, ConnectAt, DisconnectAt
  <2>3. CallsOfRequests' /\ DownIsEmpty'
    BY <1>1, <2>1 DEF LifeInv, ConnInv, TypeOK, CallsOfRequests, DownIsEmpty, At, ConnectAt,
       DisconnectAt
  <2> QED
    BY <1>2, <2>2, <2>3 DEF LifeRest
<1> QED
  BY <1>3, <1>4 DEF OnlineConnect

(* A connected request goes on to record the session.                      *)
LEMMA OnlineConnectedSettles ==
  ASSUME LifeInv, ConnInv', daemon = "up", NEW c \in Caller, OnlineConnected(c)
  PROVE  LifeRest'
<1> USE ConnectorAssumption
<1>1. /\ req' = [req EXCEPT ![c] = [at |-> IF call[c].at = "connected" THEN "on_tx" ELSE "idle",
                                    s  |-> None]]
      /\ req \in [Caller -> [at : ReqAt, s : Sub \cup {None}]]
      /\ call[c].at \in Answer /\ At(c, "on_dialing")
      /\ call' = [call EXCEPT ![c] = Idle]
      /\ history' \in {"sequential", "overlapped"}
      /\ UNCHANGED <<slot, ist, pst, daemon, row, attached, runner>>
  BY DEF LifeInv, LifecycleTypeOK, OnlineConnected, StepTo, Step, Return, slotVars
<1>2. call \in [Caller -> [at : InFlight \cup Answer \cup {"idle"}, g : Provider \cup {None}]]
  BY DEF LifeInv, ConnInv, TypeOK
<1>3. LifecycleTypeOK' /\ DownIsEmpty'
  BY <1>1 DEF LifeInv, LifecycleTypeOK, DownIsEmpty, ReqAt, OnlineAt, OfflineAt, DeleteAt
<1>4. SlotHasUser'
  BY <1>1, <1>2 DEF LifeInv, SlotHasUser, Idle, Answer, ConnectAt, DisconnectAt
<1>5. CallsOfRequests'
  BY <1>1, <1>2 DEF LifeInv, CallsOfRequests, Idle, At, ConnectAt, DisconnectAt
<1>6. SessionIsSettled'
  <2>1. ASSUME NEW d \in Caller, WillSettle(d) PROVE WillSettle(d)'
    <3>1. CASE d = c
      BY <1>1, <1>2, <2>1, <3>1 DEF WillSettle, At, Answer
    <3>2. CASE d # c
      BY <1>1, <1>2, <2>1, <3>2 DEF WillSettle, At
    <3> QED
      BY <3>1, <3>2
  <2> QED
    BY <1>1, <2>1 DEF LifeInv, SessionIsSettled
<1> QED
  BY <1>3, <1>4, <1>5, <1>6 DEF LifeRest

(* The session is recorded.                                                *)
LEMMA OnlineCommitSettles ==
  ASSUME LifeInv, ConnInv', daemon = "up", NEW c \in Caller, OnlineCommit(c)
  PROVE  LifeRest'
  BY ConnectorAssumption
  DEF LifeInv, ConnInv, TypeOK, CallOwnsSlot, FreeSlotIsQuiet, LifeRest, LifecycleTypeOK, SessionIsSettled, SlotHasUser, CallsOfRequests,
      DownIsEmpty, WillSettle, At, OnlineCommit,
      Step, StepTo, ReqAt, OnlineAt, OfflineAt, DeleteAt, RowState, connVars

(* It could not be recorded: the request will disconnect it.               *)
LEMMA OnlineTxFailSettles ==
  ASSUME LifeInv, ConnInv', daemon = "up", NEW c \in Caller, OnlineTxFail(c)
  PROVE  LifeRest'
  BY ConnectorAssumption
  DEF LifeInv, ConnInv, TypeOK, CallOwnsSlot, FreeSlotIsQuiet, LifeRest, LifecycleTypeOK, SessionIsSettled, SlotHasUser, CallsOfRequests,
      DownIsEmpty, WillSettle, At, OnlineTxFail,
      Step, StepTo, ReqAt, OnlineAt, OfflineAt, DeleteAt, connVars

(* A Disconnect that is refused leaves an open session to the request that *)
(* is inside Connect or Disconnect of the same slot.                       *)
LEMMA RefusedWhileBusy ==
  ASSUME LifeInv, ~SlotOnline, NEW g \in Provider, pst[g] = "open"
  PROVE  \E d \in Caller : call[d].at \in {"commit", "closing"}
<1>1. slot = g /\ ist[g] \in {"connecting", "disconnecting"}
  BY ConnectorAssumption
  DEF LifeInv, ConnInv, TypeOK, FreeSlotIsQuiet, PumpFollowsSlot, SlotOnline, InstanceState
<1>2. CASE ist[g] = "connecting"
  <2>1. PICK d \in Caller : call[d].at \in ConnectAt
    BY <1>1, <1>2, ConnectorAssumption DEF LifeInv, SlotHasUser
  <2> QED
    BY <1>1, <2>1 DEF LifeInv, ConnInv, CallOwnsSlot, ConnectAt
<1>3. CASE ist[g] = "disconnecting"
  <2>1. PICK d \in Caller : call[d].at \in DisconnectAt
    BY <1>1, <1>3, ConnectorAssumption DEF LifeInv, SlotHasUser
  <2> QED
    BY <1>1, <2>1 DEF LifeInv, ConnInv, CallOwnsSlot, DisconnectAt
<1> QED
  BY <1>1, <1>2, <1>3

(* Disconnect as the undo of a failed online and as the end of an offline  *)
(* calls it: either the caller is going to close the session, or somebody  *)
(* else is inside Connect or Disconnect, or there is no session.           *)
LEMMA DisconnectCallSettles ==
  ASSUME LifeInv, ConnInv', NEW c \in Caller, NEW to \in {"on_undoing", "off_waiting"},
         At(c, "on_undo") \/ At(c, "off_disc"),
         DisconnectBegin(c) \/ DisconnectConflict(c),
         StepTo(c, to), UNCHANGED <<daemon, row, attached, runner>>
  PROVE  LifeRest'
<1> USE ConnectorAssumption
<1>1. /\ req' = [req EXCEPT ![c] = [at |-> to, s |-> None]]
      /\ req \in [Caller -> [at : ReqAt, s : Sub \cup {None}]]
      /\ call \in [Caller -> [at : InFlight \cup Answer \cup {"idle"}, g : Provider \cup {None}]]
      /\ call[c].at \in {"idle", "snapshot"}
      /\ history' \in {"sequential", "overlapped"}
      /\ pst' = pst /\ slot' = slot
  BY DEF LifeInv, ConnInv, TypeOK, LifecycleTypeOK, StepTo, Step, DisconnectBegin,
     DisconnectConflict, slotVars
<1>2. LifecycleTypeOK'
  BY <1>1 DEF LifeInv, LifecycleTypeOK, ReqAt, OnlineAt, OfflineAt, DeleteAt
<1>3. DownIsEmpty'
  BY <1>1 DEF LifeInv, DownIsEmpty
<1>4. CASE DisconnectBegin(c)
  <2>1. /\ call' = [call EXCEPT ![c] = [at |-> "closing", g |-> slot]]
        /\ slot # None /\ slot \in Provider
        /\ ist' = [ist EXCEPT ![slot] = "disconnecting"] /\ ist \in [Provider -> InstanceState]
    BY <1>4 DEF DisconnectBegin, Goto, SlotOnline, LifeInv, ConnInv, TypeOK
  <2>2. call'[c].at = "closing"
    BY <1>1, <2>1
  <2>3. SlotHasUser' /\ SessionIsSettled'
    BY <1>1, <2>1, <2>2 DEF SlotHasUser, SessionIsSettled, WillSettle, DisconnectAt
  <2>4. CallsOfRequests'
    BY <1>1, <2>1 DEF LifeInv, CallsOfRequests, At, ConnectAt, DisconnectAt
  <2> QED
    BY <1>2, <1>3, <2>3, <2>4 DEF LifeRest
<1>5. CASE DisconnectConflict(c)
  <2>1. /\ call' = [call EXCEPT ![c] = [at |-> "conflict", g |-> None]]
        /\ ist' = ist /\ ~SlotOnline
    BY <1>5 DEF DisconnectConflict, Goto, slotVars
  <2>2. SlotHasUser'
    BY <1>1, <2>1 DEF LifeInv, SlotHasUser, ConnectAt, DisconnectAt
  <2>3. SessionIsSettled'
    <3>1. ASSUME NEW g \in Provider, pst[g] = "open"
          PROVE  \E d \in Caller : call'[d].at \in {"commit", "closing"}
      <4>1. PICK d \in Caller : call[d].at \in {"commit", "closing"}
        BY <2>1, <3>1, RefusedWhileBusy
      <4>2. d # c
        BY <1>1, <4>1
      <4> QED
        BY <1>1, <2>1, <4>1, <4>2
    <3> QED
      BY <1>1, <3>1 DEF SessionIsSettled, WillSettle
  <2>4. CallsOfRequests'
    BY <1>1, <2>1 DEF LifeInv, CallsOfRequests, At, ConnectAt, DisconnectAt
  <2> QED
    BY <1>2, <1>3, <2>2, <2>3, <2>4 DEF LifeRest
<1> QED
  BY <1>4, <1>5

(* The undo is over.                                                       *)
LEMMA OnlineUndoneSettles ==
  ASSUME LifeInv, ConnInv', daemon = "up", NEW c \in Caller, OnlineUndone(c)
  PROVE  LifeRest'
<1>1. /\ req' = [req EXCEPT ![c] = NoReq]
      /\ req \in [Caller -> [at : ReqAt, s : Sub \cup {None}]]
      /\ call[c].at \in Answer /\ At(c, "on_undoing")
      /\ call' = [call EXCEPT ![c] = Idle]
      /\ history' \in {"sequential", "overlapped"}
      /\ UNCHANGED <<slot, ist, pst, daemon, row, attached, runner>>
  BY DEF LifeInv, LifecycleTypeOK, OnlineUndone, StepTo, Step, Return, slotVars, NoReq
<1>2. call \in [Caller -> [at : InFlight \cup Answer \cup {"idle"}, g : Provider \cup {None}]]
  BY DEF LifeInv, ConnInv, TypeOK
<1>3. LifecycleTypeOK' /\ DownIsEmpty'
  BY <1>1 DEF LifeInv, LifecycleTypeOK, DownIsEmpty, ReqAt, NoReq
<1>4. SlotHasUser'
  BY <1>1, <1>2 DEF LifeInv, SlotHasUser, Idle, Answer, ConnectAt, DisconnectAt
<1>5. CallsOfRequests'
  BY <1>1, <1>2 DEF LifeInv, CallsOfRequests, Idle, NoReq, At, ConnectAt, DisconnectAt
<1>6. SessionIsSettled'
  <2>1. ~(call[c].at \in {"commit", "closing"})
    BY <1>1 DEF Answer
  <2>2. call[c].at # "connected"
    BY <1>1 DEF LifeInv, CallsOfRequests, At, ConnectAt
  <2>3. ASSUME NEW d \in Caller, WillSettle(d) PROVE WillSettle(d)'
    BY <1>1, <1>2, <2>1, <2>2, <2>3 DEF WillSettle, At
  <2> QED
    BY <1>1, <2>3 DEF LifeInv, SessionIsSettled
<1> QED
  BY <1>3, <1>4, <1>5, <1>6 DEF LifeRest

(* The ingester is attached after the session was recorded.                *)
LEMMA OnlineAttachSettles ==
  ASSUME LifeInv, ConnInv', daemon = "up", NEW c \in Caller, OnlineAttach(c)
  PROVE  LifeRest'
<1>1. /\ req' = [req EXCEPT ![c] = NoReq] /\ At(c, "on_attach")
      /\ history' \in {"sequential", "overlapped"}
      /\ UNCHANGED <<slot, ist, pst, call, daemon, row>>
  BY DEF LifeInv, LifecycleTypeOK, OnlineAttach, StepTo, Step, Subscribe, NoReq, connVars,
     slotVars
<1>2. runner' \in [Sub -> RunState] /\ attached' \in Sub \cup {None}
  BY DEF LifeInv, LifecycleTypeOK, OnlineAttach, RunState
<1>3. LifecycleTypeOK' /\ DownIsEmpty'
  BY <1>1, <1>2 DEF LifeInv, LifecycleTypeOK, DownIsEmpty, ReqAt, NoReq
<1>4. SlotHasUser'
  BY <1>1 DEF LifeInv, SlotHasUser
<1>5. CallsOfRequests'
  BY <1>1 DEF LifeInv, LifecycleTypeOK, CallsOfRequests, NoReq, At, ConnectAt, DisconnectAt
<1>6. SessionIsSettled'
  <2>1. ASSUME NEW d \in Caller, WillSettle(d) PROVE WillSettle(d)'
    BY <1>1, <2>1 DEF LifeInv, LifecycleTypeOK, WillSettle, At
  <2> QED
    BY <1>1, <2>1 DEF LifeInv, SessionIsSettled
<1> QED
  BY <1>3, <1>4, <1>5, <1>6 DEF LifeRest

(* The row says offline: from here on this request will disconnect.        *)
LEMMA OfflineCommitSettles ==
  ASSUME LifeInv, ConnInv', daemon = "up", NEW c \in Caller, OfflineCommit(c)
  PROVE  LifeRest'
  BY ConnectorAssumption
  DEF LifeInv, ConnInv, TypeOK, CallOwnsSlot, FreeSlotIsQuiet, LifeRest, LifecycleTypeOK, SessionIsSettled, SlotHasUser, CallsOfRequests,
      DownIsEmpty, WillSettle, At, OfflineCommit,
      Step, StepTo, ReqAt, OnlineAt, OfflineAt, DeleteAt, RowState, connVars

(* Nothing was written, the row still says what it said.                   *)
LEMMA OfflineTxFailSettles ==
  ASSUME LifeInv, ConnInv', daemon = "up", NEW c \in Caller, OfflineTxFail(c)
  PROVE  LifeRest'
  BY ConnectorAssumption
  DEF LifeInv, ConnInv, TypeOK, CallOwnsSlot, FreeSlotIsQuiet, LifeRest, LifecycleTypeOK, SessionIsSettled, SlotHasUser, CallsOfRequests,
      DownIsEmpty, WillSettle, At, OfflineTxFail,
      Step, StepTo, ReqAt, OnlineAt, OfflineAt, DeleteAt, connVars

(* The ingester is detached on the way to the Disconnect.                  *)
LEMMA OfflineDetachSettles ==
  ASSUME LifeInv, ConnInv', daemon = "up", NEW c \in Caller, OfflineDetach(c)
  PROVE  LifeRest'
  BY ConnectorAssumption
  DEF LifeInv, ConnInv, TypeOK, CallOwnsSlot, FreeSlotIsQuiet, LifeRest, LifecycleTypeOK, SessionIsSettled, SlotHasUser, CallsOfRequests,
      DownIsEmpty, WillSettle, At, OfflineDetach,
      Step, StepTo, ReqAt, OnlineAt, OfflineAt, DeleteAt, connVars

(* Its subscription is closed.                                             *)
LEMMA OfflineUnsubscribeSettles ==
  ASSUME LifeInv, ConnInv', daemon = "up", NEW c \in Caller, OfflineUnsubscribe(c)
  PROVE  LifeRest'
  BY ConnectorAssumption
  DEF LifeInv, ConnInv, TypeOK, CallOwnsSlot, FreeSlotIsQuiet, LifeRest, LifecycleTypeOK, SessionIsSettled, SlotHasUser, CallsOfRequests,
      DownIsEmpty, WillSettle, At, OfflineUnsubscribe,
      Step, StepTo, ReqAt, OnlineAt, OfflineAt, DeleteAt, Unsubscribe, slotVars

(* The offline request is over.                                            *)
LEMMA OfflineDoneSettles ==
  ASSUME LifeInv, ConnInv', daemon = "up", NEW c \in Caller, OfflineDone(c)
  PROVE  LifeRest'
  BY ConnectorAssumption
  DEF LifeInv, ConnInv, TypeOK, CallOwnsSlot, FreeSlotIsQuiet, LifeRest, LifecycleTypeOK, SessionIsSettled, SlotHasUser, CallsOfRequests,
      DownIsEmpty, WillSettle, At, OfflineDone,
      Step, StepTo, ReqAt, OnlineAt, OfflineAt, DeleteAt, Return, Idle, Answer, slotVars, subVars, ConnectAt, DisconnectAt

(* A deleted row is one of the states that settle a session.               *)
LEMMA DeleteTxSettles ==
  ASSUME LifeInv, ConnInv', daemon = "up", NEW c \in Caller, DeleteTx(c)
  PROVE  LifeRest'
  BY ConnectorAssumption
  DEF LifeInv, ConnInv, TypeOK, CallOwnsSlot, FreeSlotIsQuiet, LifeRest, LifecycleTypeOK, SessionIsSettled, SlotHasUser, CallsOfRequests,
      DownIsEmpty, WillSettle, At, DeleteTx,
      Step, StepTo, ReqAt, OnlineAt, OfflineAt, DeleteAt, RowState, connVars

(* Inside Connect: the session appears, and the caller goes on with it.    *)
LEMMA ConnectStepSettles ==
  ASSUME LifeInv, ConnInv', daemon = "up", NEW c \in Caller, ConnectStep(c),
         UNCHANGED lifeVars
  PROVE  LifeRest'
<1> USE ConnectorAssumption
<1>1. CASE DialOk(c)
  <2>1. /\ call' = [call EXCEPT ![c] = [at |-> "commit", g |-> call[c].g]]
        /\ call \in [Caller -> [at : InFlight \cup Answer \cup {"idle"}, g : Provider \cup {None}]]
        /\ call[c].at = "dial" /\ At(c, "on_dialing")
        /\ UNCHANGED <<slot, ist, lifeVars>>
    BY <1>1 DEF DialOk, Goto, slotVars, LifeInv, ConnInv, TypeOK, CallsOfRequests, ConnectAt
  <2>2. call'[c].at = "commit"
    BY <2>1
  <2>3. SessionIsSettled' /\ DownIsEmpty' /\ LifecycleTypeOK'
    BY <2>1, <2>2 DEF LifeInv, SessionIsSettled, WillSettle, DownIsEmpty, LifecycleTypeOK,
       lifeVars
  <2>4. SlotHasUser' /\ CallsOfRequests'
    BY <2>1, <2>2 DEF LifeInv, SlotHasUser, CallsOfRequests, At, ConnectAt, DisconnectAt,
       lifeVars
  <2> QED
    BY <2>3, <2>4 DEF LifeRest
<1>2. CASE DialErr(c)
  BY <1>2 DEF LifeInv, ConnInv, TypeOK, CallOwnsSlot, FreeSlotIsQuiet,
       LifeRest, LifecycleTypeOK, SessionIsSettled, SlotHasUser, CallsOfRequests,
       DownIsEmpty, WillSettle, At,
       DialErr, Goto, slotVars, subVars, lifeVars, ConnectAt, DisconnectAt
<1>3. CASE ConnectAbort(c)
  BY <1>3 DEF LifeInv, ConnInv, TypeOK, CallOwnsSlot, FreeSlotIsQuiet,
       LifeRest, LifecycleTypeOK, SessionIsSettled, SlotHasUser, CallsOfRequests,
       DownIsEmpty, WillSettle, At,
       ConnectAbort, Goto, slotVars, subVars, lifeVars, ConnectAt, DisconnectAt, SlotUserIsAlone
<1>4. CASE ConnectCommit(c)
  <2>1. /\ call[c].at = "commit" /\ slot \in Provider /\ At(c, "on_dialing")
        /\ call' = [call EXCEPT ![c] = [at |-> "connected", g |-> slot]]
        /\ call \in [Caller -> [at : InFlight \cup Answer \cup {"idle"}, g : Provider \cup {None}]]
        /\ ist' = [ist EXCEPT ![slot] = "online"] /\ ist \in [Provider -> InstanceState]
        /\ UNCHANGED <<slot, pst, lifeVars>>
    BY <1>4 DEF ConnectCommit, Goto, LifeInv, ConnInv, TypeOK, CallOwnsSlot,
       CallsOfRequests, ConnectAt
  <2>2. call'[c].at = "connected" /\ ist'[slot] = "online"
    BY <2>1
  <2>3. SessionIsSettled' /\ DownIsEmpty' /\ LifecycleTypeOK'
    BY <2>1, <2>2 DEF LifeInv, SessionIsSettled, WillSettle, DownIsEmpty, LifecycleTypeOK,
       lifeVars
  <2>4. SlotHasUser' /\ CallsOfRequests'
    BY <2>1, <2>2 DEF LifeInv, SlotHasUser, CallsOfRequests, At, ConnectAt, DisconnectAt,
       lifeVars
  <2> QED
    BY <2>3, <2>4 DEF LifeRest
<1> QED
  BY <1>1, <1>2, <1>3, <1>4 DEF ConnectStep

(* Inside Disconnect: the session is closed before the caller moves on.    *)
LEMMA DisconnectStepSettles ==
  ASSUME LifeInv, ConnInv', NEW c \in Caller, DisconnectStep(c), UNCHANGED lifeVars
  PROVE  LifeRest'
<1> USE ConnectorAssumption
<1>1. CASE ProviderDisconnectOk(c)
  BY <1>1 DEF LifeInv, ConnInv, TypeOK, CallOwnsSlot, FreeSlotIsQuiet,
       LifeRest, LifecycleTypeOK, SessionIsSettled, SlotHasUser, CallsOfRequests,
       DownIsEmpty, WillSettle, At,
       ProviderDisconnectOk, CloseProvider, Goto, slotVars, subVars, lifeVars, ConnectAt, DisconnectAt,
       ProviderState
<1>2. CASE ProviderDisconnectErr(c)
  BY <1>2 DEF LifeInv, ConnInv, TypeOK, CallOwnsSlot, FreeSlotIsQuiet,
       LifeRest, LifecycleTypeOK, SessionIsSettled, SlotHasUser, CallsOfRequests,
       DownIsEmpty, WillSettle, At,
       ProviderDisconnectErr, CloseProvider, Goto, slotVars, subVars, lifeVars, ConnectAt, DisconnectAt,
       ProviderState
<1>3. CASE DisconnectRollback(c)
  BY <1>3 DEF LifeInv, ConnInv, TypeOK, CallOwnsSlot, FreeSlotIsQuiet,
       LifeRest, LifecycleTypeOK, SessionIsSettled, SlotHasUser, CallsOfRequests,
       DownIsEmpty, WillSettle, At,
       DisconnectRollback, Goto, slotVars, subVars, lifeVars, ConnectAt, DisconnectAt
<1>4. CASE DisconnectAwait(c)
  BY <1>4 DEF LifeInv, ConnInv, TypeOK, CallOwnsSlot, FreeSlotIsQuiet,
       LifeRest, LifecycleTypeOK, SessionIsSettled, SlotHasUser, CallsOfRequests,
       DownIsEmpty, WillSettle, At,
       DisconnectAwait, Goto, slotVars, subVars, lifeVars, ConnectAt, DisconnectAt
<1> QED
  BY <1>1, <1>2, <1>3, <1>4 DEF DisconnectStep

(* A step that leaves sessions, requests and rows alone settles nothing    *)
(* and unsettles nothing.                                                  *)
LEMMA SameSettles ==
  ASSUME LifeInv, UNCHANGED <<slot, ist, pst, call, daemon, row, attached, runner, req, history>>
  PROVE  LifeRest'
  BY DEF LifeInv, LifeRest, LifecycleTypeOK, SessionIsSettled, SlotHasUser,
     CallsOfRequests, DownIsEmpty, WillSettle, At

(* Events and pumps are such steps.                                        *)
LEMMA ProviderStepSettles ==
  ASSUME LifeInv, NEW g \in Provider, ProviderStep(g)
  PROVE  LifeRest'
<1>1. UNCHANGED <<slot, ist, pst, call, daemon, row, attached, runner, req, history>>
  BY DEF ProviderStep, Emit, PumpStep, PumpDeliver, PumpTail, PumpExit, slotVars, lifeVars
<1> QED
  BY <1>1, SameSettles

(* ... and neither do the ingester's goroutines.                           *)
LEMMA RunStepSettles ==
  ASSUME LifeInv, NEW s \in Sub, RunStep(s)
  PROVE  LifeRest'
<1>1. UNCHANGED <<slot, ist, pst, call, daemon, row, req, history>>
  BY DEF RunStep, RunEvent, RunClosed, RunExit, Receive, connVars, slotVars, lifeVars
<1>2. PICK to \in RunState : runner' = [runner EXCEPT ![s] = to] \/ runner' = runner
  BY DEF RunStep, RunEvent, RunClosed, RunExit, lifeVars, RunState
<1>3. attached' \in {attached, None}
  BY DEF RunStep, RunEvent, RunClosed, RunExit, lifeVars
<1>4. LifecycleTypeOK'
  BY <1>1, <1>2, <1>3 DEF LifeInv, LifecycleTypeOK
<1> QED
  BY <1>1, <1>4 DEF LifeInv, LifeRest, SessionIsSettled, SlotHasUser, CallsOfRequests,
     DownIsEmpty, WillSettle, At

(* A crash takes the sessions with it; booting finds none.                 *)
LEMMA CrashSettles ==
  ASSUME LifeInv, Crash
  PROVE  LifeRest'
  BY ConnectorAssumption
  DEF Crash, LifeInv, MemoryLost, NoReq, Idle, LifeRest, LifecycleTypeOK, SessionIsSettled,
      SlotHasUser, CallsOfRequests, DownIsEmpty, At, ConnectAt, DisconnectAt, ReqAt,
      RunState

LEMMA BootSettles ==
  ASSUME LifeInv, Boot
  PROVE  LifeRest'
  BY DEF Boot, LifeInv, LifeRest, LifecycleTypeOK, SessionIsSettled, SlotHasUser,
     CallsOfRequests, DownIsEmpty, RowState, At, connVars

-----------------------------------------------------------------------------

LEMMA LifeInitInv == LifecycleInit => LifeInv
<1>1. LifecycleInit => ConnInv
  BY InitInv DEF LifecycleInit
<1>2. LifecycleInit => LifeRest
  BY ConnectorAssumption
  DEF LifecycleInit, Init, Idle, NoReq, LifeRest, LifecycleTypeOK, SessionIsSettled,
      SlotHasUser, CallsOfRequests, DownIsEmpty, At, ConnectAt, DisconnectAt, ReqAt,
      RunState, RowState
<1> QED
  BY <1>1, <1>2 DEF LifeInv, LifeRest

LEMMA LifeNextInv == LifeInv /\ [LifecycleNext]_allVars => LifeInv'
<1> SUFFICES ASSUME LifeInv, [LifecycleNext]_allVars PROVE LifeInv'
  OBVIOUS
<1>1. ConnInv'
  BY LifecycleUsesConnector, NextInv, MemoryLostInv DEF LifeInv
<1> SUFFICES LifeRest'
  BY <1>1 DEF LifeInv, LifeRest
<1>2. ASSUME daemon = "up", NEW c \in Caller, RequestBegin(c) PROVE LifeRest'
  BY <1>1, <1>2, OnlineGetSettles, OfflineCheckSettles, DeleteCheckSettles DEF RequestBegin
<1>3. ASSUME daemon = "up", NEW c \in Caller, OnlineStep(c) PROVE LifeRest'
  <2>1. CASE OnlineUndo(c)
    BY <1>1, <2>1, DisconnectCallSettles DEF OnlineUndo
  <2> QED
    BY <1>1, <1>3, <2>1, OnlineConnectSettles, OnlineConnectedSettles, OnlineCommitSettles,
       OnlineTxFailSettles, OnlineUndoneSettles, OnlineAttachSettles DEF OnlineStep
<1>4. ASSUME daemon = "up", NEW c \in Caller, OfflineStep(c) PROVE LifeRest'
  <2>1. CASE OfflineDisconnect(c)
    BY <1>1, <2>1, DisconnectCallSettles DEF OfflineDisconnect
  <2> QED
    BY <1>1, <1>4, <2>1, OfflineCommitSettles, OfflineTxFailSettles, OfflineDetachSettles,
       OfflineUnsubscribeSettles, OfflineDoneSettles DEF OfflineStep
<1>5. ASSUME daemon = "up", NEW c \in Caller, RequestStep(c) PROVE LifeRest'
  BY <1>1, <1>3, <1>4, <1>5, DeleteTxSettles, ConnectStepSettles, DisconnectStepSettles
  DEF RequestStep
<1>6. CASE /\ daemon = "up"
           /\ \/ \E c \in Caller : RequestBegin(c) \/ RequestStep(c)
              \/ \E g \in Provider : ProviderStep(g)
              \/ \E s \in Sub : RunStep(s)
  BY <1>2, <1>5, <1>6, ProviderStepSettles, RunStepSettles
<1>7. CASE Crash \/ Boot
  BY <1>7, CrashSettles, BootSettles
<1>8. CASE UNCHANGED allVars
  <2>1. UNCHANGED <<slot, ist, pst, call, daemon, row, attached, runner, req, history>>
    BY <1>8 DEF allVars, connVars, lifeVars
  <2> QED
    BY <2>1, SameSettles
<1> QED
  BY <1>6, <1>7, <1>8 DEF LifecycleNext

(* The inductive invariant of the whole composition.                       *)
THEOREM LifecycleInvariant == LifecycleSpec => []LifeInv
<1>1. LifecycleInit => LifeInv
  BY LifeInitInv
<1>2. LifeInv /\ [LifecycleNext]_allVars => LifeInv'
  BY LifeNextInv
<1> QED
  BY <1>1, <1>2, PTL DEF LifecycleSpec

(* Type correctness of the request, ingester and daemon state.             *)
THEOREM LifecycleTypes == LifecycleSpec => []LifecycleTypeOK
<1>1. LifeInv => LifecycleTypeOK
  BY DEF LifeInv
<1> QED
  BY <1>1, LifecycleInvariant, PTL

(* When no request is under way, a session that is open belongs to an      *)
(* account whose row says online or was deleted, whatever requests,        *)
(* failures and crashes came before.                                       *)
THEOREM NoSessionIsHidden == LifecycleSpec => []NoHiddenSession
<1>1. ASSUME LifeInv PROVE NoHiddenSession
  <2>1. ASSUME \A c \in Caller : req[c] = NoReq, NEW d \in Caller, WillSettle(d)
        PROVE  FALSE
    BY <1>1, <2>1 DEF LifeInv, CallsOfRequests, WillSettle, At, NoReq, ConnectAt, DisconnectAt
  <2> QED
    BY <1>1, <2>1 DEF LifeInv, SessionIsSettled, NoHiddenSession
<1> QED
  BY <1>1, LifecycleInvariant, PTL

(* The requests keep the Connector's promise: one session per account.     *)
THEOREM OneSessionPerAccount == LifecycleSpec => []OneLiveSession
<1>1. LifeInv => OneLiveSession
  BY DEF LifeInv, ConnInv, FreeSlotIsQuiet, OneLiveSession
<1> QED
  BY <1>1, LifecycleInvariant, PTL

-----------------------------------------------------------------------------
(* Online is served *)

\* What the row promises: an open session in an online slot, with a drain
\* goroutine on a registered subscription.
Served ==
    /\ SlotOnline
    /\ pst[slot] = "open"
    /\ \E s \in subs : runner[s] = "draining"

\* From the return of Connect until the ingester is attached the request has
\* an open session in hand.
HasSession(c) == call[c].at = "connected" \/ At(c, "on_tx") \/ At(c, "on_attach")

\* A request here is about to open or to close the session.
ChangesSession(c) ==
    \/ call[c].at \in ConnectAt \cup {"connected"}
    \/ req[c].at \in {"on_tx", "on_undo", "on_undoing", "off_detach", "off_unsub",
                      "off_disc", "off_waiting"}

\* What holds as long as the requests of this boot came one after the other.
OneByOne ==
    /\ \A c, d \in Caller : req[c] # NoReq /\ req[d] # NoReq => c = d
    /\ row = "online" => Served \/ \E c \in Caller : At(c, "on_attach")
    /\ \A c \in Caller :
          /\ ChangesSession(c) => row # "online"
          /\ HasSession(c) => SlotOnline /\ pst[slot] = "open"
          /\ At(c, "on_attach") => attached = None /\ row = "online"
          /\ At(c, "del_tx") => slot = None
          /\ row = "deleted" => At(c, "idle") \/ At(c, "del_tx")
    /\ row = "deleted" => slot = None
    /\ attached # None => row = "online" \/ \E c \in Caller : At(c, "off_detach")

DownForgets ==
    daemon = "down" =>
        /\ attached = None
        /\ slot = None
        /\ \A c \in Caller : req[c] = NoReq

ServeInv ==
    /\ LifeInv
    /\ DownForgets
    /\ daemon = "up" /\ history = "sequential" => OneByOne

\* OneByOne, seen from the one request c that can be under way.
Lone(c) ==
    /\ row = "online" => Served \/ At(c, "on_attach")
    /\ ChangesSession(c) => row # "online"
    /\ HasSession(c) => SlotOnline /\ pst[slot] = "open"
    /\ At(c, "on_attach") => attached = None /\ row = "online"
    /\ At(c, "del_tx") => slot = None
    /\ row = "deleted" => slot = None
    /\ row = "deleted" => At(c, "idle") \/ At(c, "del_tx")
    /\ attached # None => row = "online" \/ At(c, "off_detach")

OthersRest(c) == \A d \in Caller : d # c => req[d] = NoReq

(* The other requests rest, so they are nowhere that matters.              *)
LEMMA RestIsNowhere ==
  ASSUME CallsOfRequests, NEW d \in Caller, req[d] = NoReq
  PROVE  /\ ~ChangesSession(d) /\ ~HasSession(d)
         /\ ~At(d, "on_attach") /\ ~At(d, "del_tx") /\ ~At(d, "off_detach")
         /\ At(d, "idle")
  BY DEF CallsOfRequests, ChangesSession, HasSession, At, NoReq

LEMMA RestIsNowhereNext ==
  ASSUME CallsOfRequests', NEW d \in Caller, req'[d] = NoReq
  PROVE  /\ ~ChangesSession(d)' /\ ~HasSession(d)'
         /\ ~At(d, "on_attach")' /\ ~At(d, "del_tx")' /\ ~At(d, "off_detach")'
         /\ At(d, "idle")'
  BY DEF CallsOfRequests, ChangesSession, HasSession, At, NoReq

LEMMA OneByOneIsLone ==
  ASSUME CallsOfRequests, OneByOne, NEW c \in Caller, OthersRest(c)
  PROVE  Lone(c)
<1>1. \A d \in Caller : At(d, "on_attach") \/ At(d, "off_detach") => d = c
  BY RestIsNowhere DEF OthersRest
<1> QED
  BY <1>1 DEF OneByOne, Lone

LEMMA LoneIsOneByOne ==
  ASSUME CallsOfRequests', NEW c \in Caller, OthersRest(c)', Lone(c)'
  PROVE  OneByOne'
<1>1. \A d, e \in Caller : req'[d] # NoReq /\ req'[e] # NoReq => d = e
  BY DEF OthersRest
<1>2. ASSUME NEW d \in Caller
      PROVE  /\ ChangesSession(d)' => row' # "online"
             /\ HasSession(d)' => SlotOnline' /\ pst'[slot'] = "open"
             /\ At(d, "on_attach")' => attached' = None /\ row' = "online"
             /\ At(d, "del_tx")' => slot' = None
             /\ row' = "deleted" => At(d, "idle")' \/ At(d, "del_tx")'
  <2>1. CASE d = c
    BY <2>1 DEF Lone
  <2>2. CASE d # c
    <3>1. req'[d] = NoReq
      BY <2>2 DEF OthersRest
    <3> QED
      BY <3>1, RestIsNowhereNext
  <2> QED
    BY <2>1, <2>2
<1> QED
  BY <1>1, <1>2 DEF OneByOne, Lone

(* A request that moves while the history stays sequential is alone.       *)
LEMMA MoverIsAlone ==
  ASSUME LifecycleTypeOK, NEW c \in Caller, NEW to \in ReqAt, NEW s, Step(c, to, s),
         history' = "sequential"
  PROVE  /\ history = "sequential"
         /\ OthersRest(c) /\ OthersRest(c)'
         /\ req'[c] = [at |-> to, s |-> s]
<1>1. \A d \in Caller \ {c} : req[d] = NoReq
  BY DEF Step
<1>2. \A d \in Caller : d # c => req'[d] = req[d]
  BY DEF Step, LifecycleTypeOK
<1> QED
  BY <1>1, <1>2 DEF Step, OthersRest, LifecycleTypeOK

(* So does a request that is inside Connect or Disconnect.                 *)
LEMMA BusyIsAlone ==
  ASSUME OneByOne, NEW c \in Caller, req[c] # NoReq
  PROVE  OthersRest(c)
  BY DEF OneByOne, OthersRest

(* A request that begins has touched nothing yet.                          *)
LEMMA OnlineGetServes ==
  ASSUME LifeInv, LifeInv', NEW c \in Caller, Lone(c), OnlineGet(c)
  PROVE  Lone(c)'
  BY ConnectorAssumption
  DEF OnlineGet, Lone, Served, SlotOnline, HasSession, ChangesSession, At, StepTo, Step,
      LifeInv, LifecycleTypeOK, ConnInv, TypeOK, CallsOfRequests, connVars, ConnectAt, NoReq


(* ... nor has one that finds the session it is to close.                  *)
LEMMA OfflineCheckServes ==
  ASSUME LifeInv, LifeInv', NEW c \in Caller, Lone(c), OfflineCheck(c)
  PROVE  Lone(c)'
  BY ConnectorAssumption
  DEF OfflineCheck, Lone, Served, SlotOnline, HasSession, ChangesSession, At, StepTo, Step,
      LifeInv, LifecycleTypeOK, ConnInv, TypeOK, CallsOfRequests, connVars, ConnectAt

(* An account is deleted only while its slot is free.                      *)
LEMMA DeleteCheckServes ==
  ASSUME LifeInv, LifeInv', NEW c \in Caller, Lone(c), DeleteCheck(c)
  PROVE  Lone(c)'
  BY ConnectorAssumption
  DEF DeleteCheck, Lone, Served, SlotOnline, HasSession, ChangesSession, At, StepTo, Step,
      LifeInv, LifecycleTypeOK, ConnInv, TypeOK, CallsOfRequests, connVars, ConnectAt

(* A reservation needs a free slot, and an online row has a session in it. *)
LEMMA OnlineConnectServes ==
  ASSUME LifeInv, LifeInv', NEW c \in Caller, Lone(c), OnlineConnect(c)
  PROVE  Lone(c)'
  BY ConnectorAssumption
  DEF OnlineConnect, Lone, Served, SlotOnline, HasSession, ChangesSession, At, StepTo, Step,
      LifeInv, LifecycleTypeOK, ConnInv, TypeOK, CallsOfRequests, ConnectReserve, ConnectConflict, Goto, slotVars, subVars, ConnectAt

(* Only a Connect that succeeded goes on with a session.                   *)
LEMMA OnlineConnectedServes ==
  ASSUME LifeInv, LifeInv', NEW c \in Caller, Lone(c), OnlineConnected(c)
  PROVE  Lone(c)'
  BY ConnectorAssumption
  DEF OnlineConnected, Lone, Served, SlotOnline, HasSession, ChangesSession, At, StepTo, Step,
      LifeInv, LifecycleTypeOK, ConnInv, TypeOK, CallsOfRequests, Return, Idle, Answer, slotVars, subVars, ConnectAt

(* The row says online, and the attach is next.                            *)
LEMMA OnlineCommitServes ==
  ASSUME LifeInv, LifeInv', NEW c \in Caller, Lone(c), OnlineCommit(c)
  PROVE  Lone(c)'
  BY ConnectorAssumption
  DEF OnlineCommit, Lone, Served, SlotOnline, HasSession, ChangesSession, At, StepTo, Step,
      LifeInv, LifecycleTypeOK, ConnInv, TypeOK, connVars, ConnectAt, CallsOfRequests

(* The row was not written, and still does not say online.                 *)
LEMMA OnlineTxFailServes ==
  ASSUME LifeInv, LifeInv', NEW c \in Caller, Lone(c), OnlineTxFail(c)
  PROVE  Lone(c)'
  BY ConnectorAssumption
  DEF OnlineTxFail, Lone, Served, SlotOnline, HasSession, ChangesSession, At, StepTo, Step,
      LifeInv, LifecycleTypeOK, ConnInv, TypeOK, connVars, ConnectAt, CallsOfRequests

(* The undo closes a session the row does not promise.                     *)
LEMMA OnlineUndoServes ==
  ASSUME LifeInv, LifeInv', NEW c \in Caller, Lone(c), OnlineUndo(c)
  PROVE  Lone(c)'
  BY ConnectorAssumption
  DEF OnlineUndo, Lone, Served, SlotOnline, HasSession, ChangesSession, At, StepTo, Step,
      LifeInv, LifecycleTypeOK, ConnInv, TypeOK, DisconnectBegin, DisconnectConflict, Goto, slotVars, subVars, ConnectAt, CallsOfRequests

(* The undo is over.                                                       *)
LEMMA OnlineUndoneServes ==
  ASSUME LifeInv, LifeInv', NEW c \in Caller, Lone(c), OnlineUndone(c)
  PROVE  Lone(c)'
  BY ConnectorAssumption
  DEF OnlineUndone, Lone, Served, SlotOnline, HasSession, ChangesSession, At, StepTo, Step,
      LifeInv, LifecycleTypeOK, ConnInv, TypeOK, Return, Idle, Answer, slotVars, subVars, ConnectAt, CallsOfRequests

(* The attach finds no entry of an earlier session, and subscribes.        *)
LEMMA OnlineAttachServes ==
  ASSUME LifeInv, LifeInv', NEW c \in Caller, Lone(c), OnlineAttach(c)
  PROVE  Lone(c)'
  BY ConnectorAssumption
  DEF OnlineAttach, Lone, Served, SlotOnline, HasSession, ChangesSession, At, StepTo, Step,
      LifeInv, LifecycleTypeOK, ConnInv, TypeOK, Subscribe, slotVars, connVars, ConnectAt, CallsOfRequests, RunState

(* From here on the row does not say online.                               *)
LEMMA OfflineCommitServes ==
  ASSUME LifeInv, LifeInv', NEW c \in Caller, Lone(c), OfflineCommit(c)
  PROVE  Lone(c)'
  BY ConnectorAssumption
  DEF OfflineCommit, Lone, Served, SlotOnline, HasSession, ChangesSession, At, StepTo, Step,
      LifeInv, LifecycleTypeOK, ConnInv, TypeOK, connVars, ConnectAt, CallsOfRequests

(* Nothing was written.                                                    *)
LEMMA OfflineTxFailServes ==
  ASSUME LifeInv, LifeInv', NEW c \in Caller, Lone(c), OfflineTxFail(c)
  PROVE  Lone(c)'
  BY ConnectorAssumption
  DEF OfflineTxFail, Lone, Served, SlotOnline, HasSession, ChangesSession, At, StepTo, Step,
      LifeInv, LifecycleTypeOK, ConnInv, TypeOK, connVars, ConnectAt, CallsOfRequests

(* The entry is taken.                                                     *)
LEMMA OfflineDetachServes ==
  ASSUME LifeInv, LifeInv', NEW c \in Caller, Lone(c), OfflineDetach(c)
  PROVE  Lone(c)'
  BY ConnectorAssumption
  DEF OfflineDetach, Lone, Served, SlotOnline, HasSession, ChangesSession, At, StepTo, Step,
      LifeInv, LifecycleTypeOK, ConnInv, TypeOK, connVars, ConnectAt, CallsOfRequests

(* Its subscription is closed.                                             *)
LEMMA OfflineUnsubscribeServes ==
  ASSUME LifeInv, LifeInv', NEW c \in Caller, Lone(c), OfflineUnsubscribe(c)
  PROVE  Lone(c)'
  BY ConnectorAssumption
  DEF OfflineUnsubscribe, Lone, Served, SlotOnline, HasSession, ChangesSession, At, StepTo, Step,
      LifeInv, LifecycleTypeOK, ConnInv, TypeOK, Unsubscribe, slotVars, ConnectAt, CallsOfRequests

(* The session is closed.                                                  *)
LEMMA OfflineDisconnectServes ==
  ASSUME LifeInv, LifeInv', NEW c \in Caller, Lone(c), OfflineDisconnect(c)
  PROVE  Lone(c)'
  BY ConnectorAssumption
  DEF OfflineDisconnect, Lone, Served, SlotOnline, HasSession, ChangesSession, At, StepTo, Step,
      LifeInv, LifecycleTypeOK, ConnInv, TypeOK, DisconnectBegin, DisconnectConflict, Goto, slotVars, subVars, ConnectAt, CallsOfRequests

(* The offline request is over.                                            *)
LEMMA OfflineDoneServes ==
  ASSUME LifeInv, LifeInv', NEW c \in Caller, Lone(c), OfflineDone(c)
  PROVE  Lone(c)'
  BY ConnectorAssumption
  DEF OfflineDone, Lone, Served, SlotOnline, HasSession, ChangesSession, At, StepTo, Step,
      LifeInv, LifecycleTypeOK, ConnInv, TypeOK, Return, Idle, Answer, slotVars, subVars, ConnectAt, CallsOfRequests

(* The slot is still free, so the row does not say online.                 *)
LEMMA DeleteTxServes ==
  ASSUME LifeInv, LifeInv', NEW c \in Caller, Lone(c), DeleteTx(c)
  PROVE  Lone(c)'
  BY ConnectorAssumption
  DEF DeleteTx, Lone, Served, SlotOnline, HasSession, ChangesSession, At, StepTo, Step,
      LifeInv, LifecycleTypeOK, ConnInv, TypeOK, connVars, ConnectAt, CallsOfRequests, NoReq

(* Connect opens its session while the row does not say online, and its    *)
(* success puts an open session in an online slot.                         *)
LEMMA ConnectStepServes ==
  ASSUME LifeInv, LifeInv', NEW c \in Caller, Lone(c), ConnectStep(c), UNCHANGED lifeVars
  PROVE  Lone(c)'
<1> USE ConnectorAssumption
<1>1. /\ call[c].at \in ConnectAt /\ At(c, "on_dialing") /\ row # "online"
      /\ UNCHANGED <<row, attached, req>>
  BY DEF ConnectStep, DialOk, DialErr, ConnectAbort, ConnectCommit, ConnectAt, Lone,
     ChangesSession, LifeInv, CallsOfRequests, lifeVars
<1>2. HasSession(c)' => SlotOnline' /\ pst'[slot'] = "open"
  BY <1>1
  DEF ConnectStep, DialOk, DialErr, ConnectAbort, ConnectCommit, Goto, HasSession, At,
      SlotOnline, LifeInv, ConnInv, TypeOK, CallOwnsSlot, ConnectAt
<1> QED
  BY <1>1, <1>2 DEF Lone, At

(* Disconnect works on a session the row no longer promises.               *)
LEMMA DisconnectStepServes ==
  ASSUME LifeInv, LifeInv', NEW c \in Caller, Lone(c), DisconnectStep(c),
         UNCHANGED lifeVars
  PROVE  Lone(c)'
<1>1. /\ call[c].at \in DisconnectAt
      /\ At(c, "on_undoing") \/ At(c, "off_waiting")
      /\ UNCHANGED <<row, attached, req>>
  BY DEF DisconnectStep, ProviderDisconnectOk, ProviderDisconnectErr, DisconnectRollback,
     DisconnectAwait, DisconnectAt, LifeInv, CallsOfRequests, lifeVars
<1>2. row # "online"
  BY <1>1 DEF Lone, ChangesSession, At
<1>3. ~HasSession(c)'
  BY <1>1
  DEF DisconnectStep, ProviderDisconnectOk, ProviderDisconnectErr, DisconnectRollback,
      DisconnectAwait, Goto, HasSession, At, LifeInv, ConnInv, TypeOK
<1> QED
  BY <1>1, <1>2, <1>3 DEF Lone, At

(* A pump closes subscribers only once its provider is closed, and the one *)
(* of an open session is not.                                              *)
LEMMA ProviderStepServes ==
  ASSUME LifeInv, OneByOne, NEW g \in Provider, ProviderStep(g)
  PROVE  OneByOne'
<1>1. UNCHANGED <<slot, ist, pst, call, daemon, row, attached, runner, req>>
  BY DEF ProviderStep, Emit, PumpStep, PumpDeliver, PumpTail, PumpExit, slotVars, lifeVars
<1>2. ASSUME Served PROVE Served'
  <2>1. ~PumpTail(g)
    BY <1>2 DEF Served, PumpTail, LifeInv, ConnInv, FreeSlotIsQuiet
  <2>2. subs' = subs
    BY <2>1 DEF ProviderStep, Emit, PumpStep, PumpDeliver, PumpExit, subVars
  <2> QED
    BY <1>1, <1>2, <2>2 DEF Served, SlotOnline
<1> QED
  BY <1>1, <1>2 DEF OneByOne, ChangesSession, HasSession, SlotOnline, At

(* A drain goroutine ends only after its subscription was closed, and      *)
(* closed subscriptions are not registered.                                *)
LEMMA RunStepServes ==
  ASSUME LifeInv, OneByOne, NEW s \in Sub, RunStep(s)
  PROVE  OneByOne'
<1>1. /\ UNCHANGED <<slot, ist, pst, subs, call, daemon, row, req>>
      /\ attached' \in {attached, None}
  BY DEF RunStep, RunEvent, RunClosed, RunExit, Receive, connVars, slotVars, lifeVars
<1>2. ASSUME Served PROVE Served'
  <2>1. PICK t \in subs : runner[t] = "draining"
    BY <1>2 DEF Served
  <2>2. runner'[t] = "draining"
    BY <2>1 DEF RunStep, RunEvent, RunClosed, RunExit, lifeVars, LifeInv, ConnInv, TypeOK,
       RegisteredIffOpen, LifecycleTypeOK
  <2> QED
    BY <1>1, <1>2, <2>1, <2>2 DEF Served, SlotOnline
<1> QED
  BY <1>1, <1>2 DEF OneByOne, ChangesSession, HasSession, SlotOnline, At

(* A crash forgets the requests and the attachment.                        *)
LEMMA CrashForgets ==
  ASSUME Crash
  PROVE  DownForgets' /\ daemon' = "down"
  BY DEF Crash, MemoryLost, DownForgets

(* The boot takes back what an online row promised, and nothing else is    *)
(* left to keep.                                                           *)
LEMMA BootServes ==
  ASSUME LifeInv, LifeInv', DownForgets, Boot
  PROVE  DownForgets' /\ OneByOne'
<1>1. /\ row' # "online" /\ attached' = None /\ slot' = None
      /\ \A c \in Caller : req'[c] = NoReq
  BY DEF Boot, DownForgets, LifeInv, LifecycleTypeOK, RowState, connVars
<1> QED
  BY <1>1, RestIsNowhereNext DEF OneByOne, DownForgets, LifeInv

-----------------------------------------------------------------------------

(* One request at a time: a request that moves is the only one.            *)
LEMMA RequestServes ==
  ASSUME LifeInv, LifeInv', NEW c \in Caller, RequestBegin(c) \/ RequestStep(c),
         history = "sequential" => OneByOne, history' = "sequential"
  PROVE  OneByOne'
<1>1. CASE (ConnectStep(c) \/ DisconnectStep(c)) /\ UNCHANGED lifeVars
  <2>1. req[c] # NoReq /\ history = "sequential" /\ req' = req
    BY <1>1
    DEF LifeInv, CallsOfRequests, At, NoReq, lifeVars, ConnectStep, DialOk, DialErr,
        ConnectAbort, ConnectCommit, DisconnectStep, ProviderDisconnectOk,
        ProviderDisconnectErr, DisconnectRollback, DisconnectAwait, ConnectAt, DisconnectAt
  <2>2. OthersRest(c) /\ OthersRest(c)'
    BY <2>1, BusyIsAlone DEF OthersRest
  <2>3. Lone(c)
    BY <2>1, <2>2, OneByOneIsLone DEF LifeInv
  <2>4. Lone(c)'
    BY <1>1, <2>3, ConnectStepServes, DisconnectStepServes
  <2> QED
    BY <2>2, <2>4, LoneIsOneByOne DEF LifeInv
<1>2. CASE RequestBegin(c) \/ OnlineStep(c) \/ OfflineStep(c) \/ DeleteTx(c)
  <2>1. \E to \in ReqAt : \E s \in Sub \cup {None} : Step(c, to, s)
    BY <1>2
    DEF RequestBegin, OnlineGet, OfflineCheck, DeleteCheck, OnlineStep, OnlineConnect,
        OnlineConnected, OnlineCommit, OnlineTxFail, OnlineUndo, OnlineUndone, OnlineAttach,
        OfflineStep, OfflineCommit, OfflineTxFail, OfflineDetach, OfflineUnsubscribe,
        OfflineDisconnect, OfflineDone, DeleteTx, StepTo, ReqAt, OnlineAt, OfflineAt,
        DeleteAt, LifeInv, LifecycleTypeOK
  <2>2. history = "sequential" /\ OthersRest(c) /\ OthersRest(c)'
    BY <2>1, MoverIsAlone DEF LifeInv
  <2>3. Lone(c)
    BY <2>2, OneByOneIsLone DEF LifeInv
  <2>4. CASE RequestBegin(c)
    BY <2>3, <2>4, OnlineGetServes, OfflineCheckServes, DeleteCheckServes, <2>2,
       LoneIsOneByOne DEF RequestBegin, LifeInv
  <2>5. CASE OnlineStep(c)
    <3>1. Lone(c)'
      BY <2>3, <2>5, OnlineConnectServes, OnlineConnectedServes, OnlineCommitServes,
         OnlineTxFailServes, OnlineUndoServes, OnlineUndoneServes, OnlineAttachServes
      DEF OnlineStep
    <3> QED
      BY <2>2, <3>1, LoneIsOneByOne DEF LifeInv
  <2>6. CASE OfflineStep(c)
    <3>1. Lone(c)'
      BY <2>3, <2>6, OfflineCommitServes, OfflineTxFailServes, OfflineDetachServes,
         OfflineUnsubscribeServes, OfflineDisconnectServes, OfflineDoneServes
      DEF OfflineStep
    <3> QED
      BY <2>2, <3>1, LoneIsOneByOne DEF LifeInv
  <2>7. CASE DeleteTx(c)
    BY <2>2, <2>3, <2>7, DeleteTxServes, LoneIsOneByOne DEF LifeInv
  <2> QED
    BY <1>2, <2>4, <2>5, <2>6, <2>7
<1> QED
  BY <1>1, <1>2 DEF RequestStep

LEMMA ServeInitInv == LifecycleInit => ServeInv
<1> SUFFICES ASSUME LifecycleInit PROVE ServeInv
  OBVIOUS
<1>1. /\ LifeInv /\ daemon = "up" /\ row = "created" /\ attached = None
      /\ \A c \in Caller : req[c] = NoReq
  BY LifeInitInv DEF LifecycleInit
<1>2. OneByOne
  BY <1>1, RestIsNowhere DEF OneByOne, LifeInv
<1> QED
  BY <1>1, <1>2 DEF ServeInv, DownForgets

LEMMA ServeNextInv == ServeInv /\ [LifecycleNext]_allVars => ServeInv'
<1> SUFFICES ASSUME ServeInv, [LifecycleNext]_allVars PROVE ServeInv'
  OBVIOUS
<1>1. LifeInv /\ LifeInv' /\ DownForgets
  BY LifeNextInv DEF ServeInv
<1>2. CASE /\ daemon = "up"
           /\ \/ \E c \in Caller : RequestBegin(c) \/ RequestStep(c)
              \/ \E g \in Provider : ProviderStep(g)
              \/ \E s \in Sub : RunStep(s)
  <2>1. daemon' = "up"
    BY <1>2
    DEF RequestBegin, OnlineGet, OfflineCheck, DeleteCheck, RequestStep, OnlineStep,
        OnlineConnect, OnlineConnected, OnlineCommit, OnlineTxFail, OnlineUndo,
        OnlineUndone, OnlineAttach, OfflineStep, OfflineCommit, OfflineTxFail,
        OfflineDetach, OfflineUnsubscribe, OfflineDisconnect, OfflineDone, DeleteTx,
        ProviderStep, RunStep, RunEvent, RunClosed, RunExit, lifeVars
  <2>2. history = "sequential" => OneByOne
    BY <1>2 DEF ServeInv
  <2>3. ASSUME history' = "sequential" PROVE OneByOne'
    <3>1. CASE \E c \in Caller : RequestBegin(c) \/ RequestStep(c)
      BY <1>1, <2>2, <2>3, <3>1, RequestServes
    <3>2. CASE \E g \in Provider : ProviderStep(g)
      BY <1>1, <2>2, <2>3, <3>2, ProviderStepServes DEF ProviderStep, lifeVars
    <3>3. CASE \E s \in Sub : RunStep(s)
      BY <1>1, <2>2, <2>3, <3>3, RunStepServes
      DEF RunStep, RunEvent, RunClosed, RunExit, lifeVars
    <3> QED
      BY <1>2, <3>1, <3>2, <3>3
  <2> QED
    BY <1>1, <2>1, <2>3 DEF ServeInv, DownForgets
<1>3. CASE Crash
  BY <1>1, <1>3, CrashForgets DEF ServeInv
<1>4. CASE Boot
  BY <1>1, <1>4, BootServes DEF ServeInv
<1>5. CASE UNCHANGED allVars
  <2>1. UNCHANGED <<slot, ist, pst, subs, call, daemon, row, attached, runner, req, history>>
    BY <1>5 DEF allVars, connVars, lifeVars
  <2>2. OneByOne => OneByOne'
    BY <2>1 DEF OneByOne, Served, ChangesSession, HasSession, SlotOnline, At
  <2> QED
    BY <1>1, <2>1, <2>2 DEF ServeInv, DownForgets
<1> QED
  BY <1>2, <1>3, <1>4, <1>5 DEF LifecycleNext

(* The invariant behind OnlineIsServed.                                    *)
THEOREM ServeInvariant == LifecycleSpec => []ServeInv
<1>1. LifecycleInit => ServeInv
  BY ServeInitInv
<1>2. ServeInv /\ [LifecycleNext]_allVars => ServeInv'
  BY ServeNextInv
<1> QED
  BY <1>1, <1>2, PTL DEF LifecycleSpec

(* When the requests since the boot came one after the other, an account   *)
(* the table calls online has its session, and a goroutine that drains a   *)
(* subscription of it, whatever failed and whenever the daemon died.       *)
THEOREM OnlineAccountsAreServed == LifecycleSpec => []OnlineIsServed
<1>1. ASSUME ServeInv PROVE OnlineIsServed
  <2> SUFFICES ASSUME Quiet, history = "sequential", row = "online" PROVE Served
    BY DEF OnlineIsServed, Served
  <2>1. OneByOne /\ \A c \in Caller : ~At(c, "on_attach")
    BY <1>1 DEF ServeInv, Quiet, At, NoReq
  <2> QED
    BY <2>1 DEF OneByOne
<1> QED
  BY <1>1, ServeInvariant, PTL

(* An account that was deleted by requests that came one after the other   *)
(* leaves no session behind: it takes an online request that overlaps the  *)
(* delete.                                                                 *)
THEOREM LoneDeleteLeavesNothing ==
  LifecycleSpec => [](history = "sequential" /\ row = "deleted"
                        => \A g \in Provider : pst[g] # "open")
<1>1. ServeInv => (history = "sequential" /\ row = "deleted"
                     => \A g \in Provider : pst[g] # "open")
  <2> SUFFICES ASSUME ServeInv, history = "sequential", row = "deleted", NEW g \in Provider
               PROVE  pst[g] # "open"
    OBVIOUS
  <2>1. slot = None
    BY DEF ServeInv, DownForgets, OneByOne, LifeInv, LifecycleTypeOK
  <2> QED
    BY <2>1, ConnectorAssumption DEF ServeInv, LifeInv, ConnInv, FreeSlotIsQuiet
<1> QED
  BY <1>1, ServeInvariant, PTL

-----------------------------------------------------------------------------
(* Nobody waits in vain *)

\* A request that waits for the Connector is inside it, and only such a one.
Inside(c) ==
    /\ At(c, "on_dialing") => call[c].at \in ConnectAt \cup Answer
    /\ At(c, "on_undoing") \/ At(c, "off_waiting") => call[c].at \in DisconnectAt \cup Answer
    /\ req[c].at \notin {"on_dialing", "on_undoing", "off_waiting"} => call[c].at = "idle"

WaitersAreInside == \A c \in Caller : Inside(c)

\* Who waits for pumpDone waits for one that is closed already, or for a
\* pump of its own instance whose provider is closed, so that it will end.
PumpIsEnding ==
    \A c \in Caller : call[c].at = "await" =>
        \/ done[slot] > 0
        \/ pst[slot] = "closed" /\ pump[slot] \in {"loop", "closing"}

LEMMA MoverStaysInside ==
  ASSUME LifeInv, LifeInv', WaitersAreInside, NEW c \in Caller, Inside(c)',
         \A d \in Caller : d # c => req'[d] = req[d] /\ call'[d] = call[d]
  PROVE  WaitersAreInside'
  BY DEF WaitersAreInside, Inside, At

(* Every step of a request takes its own call along.                       *)
LEMMA OnlineStepStaysInside ==
  ASSUME LifeInv, LifeInv', WaitersAreInside, NEW c \in Caller, OnlineStep(c)
  PROVE  WaitersAreInside'
<1>1. \A d \in Caller : d # c => req'[d] = req[d] /\ call'[d] = call[d]
  BY DEF OnlineStep, OnlineConnect, OnlineConnected, OnlineCommit, OnlineTxFail, OnlineUndo,
     OnlineUndone, OnlineAttach, StepTo, Step, ConnectReserve, ConnectConflict, Goto,
     DisconnectBegin, DisconnectConflict, Return, Subscribe, connVars, LifeInv,
     LifecycleTypeOK, ConnInv, TypeOK
<1>2. Inside(c)'
  BY DEF OnlineStep, OnlineConnect, OnlineConnected, OnlineCommit, OnlineTxFail, OnlineUndo,
     OnlineUndone, OnlineAttach, StepTo, Step, ConnectReserve, ConnectConflict, Goto,
     DisconnectBegin, DisconnectConflict, Return, Idle, Subscribe, connVars, LifeInv,
     LifecycleTypeOK, ConnInv, TypeOK, WaitersAreInside, Inside, At, ConnectAt,
     DisconnectAt, Answer
<1> QED
  BY <1>1, <1>2, MoverStaysInside

LEMMA OfflineStepStaysInside ==
  ASSUME LifeInv, LifeInv', WaitersAreInside, NEW c \in Caller,
         OfflineStep(c) \/ DeleteTx(c) \/ RequestBegin(c)
  PROVE  WaitersAreInside'
<1>1. \A d \in Caller : d # c => req'[d] = req[d] /\ call'[d] = call[d]
  BY DEF OfflineStep, OfflineCommit, OfflineTxFail, OfflineDetach, OfflineUnsubscribe,
     OfflineDisconnect, OfflineDone, DeleteTx, RequestBegin, OnlineGet, OfflineCheck,
     DeleteCheck, StepTo, Step, Goto, DisconnectBegin, DisconnectConflict, Return,
     Unsubscribe, connVars, LifeInv, LifecycleTypeOK, ConnInv, TypeOK
<1>2. Inside(c)'
  BY DEF OfflineStep, OfflineCommit, OfflineTxFail, OfflineDetach, OfflineUnsubscribe,
     OfflineDisconnect, OfflineDone, DeleteTx, RequestBegin, OnlineGet, OfflineCheck,
     DeleteCheck, StepTo, Step, Goto, DisconnectBegin, DisconnectConflict, Return, Idle,
     Unsubscribe, connVars, LifeInv, LifecycleTypeOK, ConnInv, TypeOK, WaitersAreInside,
     Inside, At, ConnectAt, DisconnectAt, Answer
<1> QED
  BY <1>1, <1>2, MoverStaysInside

(* Inside the Connector a call goes on inside it, or comes back.           *)
LEMMA CallStaysInside ==
  ASSUME LifeInv, LifeInv', WaitersAreInside, NEW c \in Caller,
         ConnectStep(c) \/ DisconnectStep(c), UNCHANGED lifeVars
  PROVE  WaitersAreInside'
<1>1. /\ call[c].at \in ConnectAt => At(c, "on_dialing")
      /\ call[c].at \in DisconnectAt => At(c, "on_undoing") \/ At(c, "off_waiting")
  BY DEF LifeInv, CallsOfRequests
<1>2. /\ \A d \in Caller : d # c => call'[d] = call[d]
      /\ req' = req
      /\ \/ call[c].at \in ConnectAt /\ call'[c].at \in ConnectAt \cup Answer
         \/ call[c].at \in DisconnectAt /\ call'[c].at \in DisconnectAt \cup Answer
  BY DEF ConnectStep, DialOk, DialErr, ConnectAbort, ConnectCommit, DisconnectStep,
     ProviderDisconnectOk, ProviderDisconnectErr, DisconnectRollback, DisconnectAwait,
     Goto, lifeVars, LifeInv, ConnInv, TypeOK, ConnectAt, DisconnectAt, Answer
<1>3. Inside(c)'
  BY <1>1, <1>2 DEF Inside, At
<1> QED
  BY <1>2, <1>3, MoverStaysInside

LEMMA InsideNext ==
  ASSUME LifeInv, LifeInv', WaitersAreInside, [LifecycleNext]_allVars
  PROVE  WaitersAreInside'
<1>1. ASSUME NEW c \in Caller, RequestBegin(c) \/ RequestStep(c) PROVE WaitersAreInside'
  BY <1>1, OnlineStepStaysInside, OfflineStepStaysInside, CallStaysInside DEF RequestStep
<1>2. CASE \/ \E g \in Provider : ProviderStep(g)
           \/ \E s \in Sub : RunStep(s)
           \/ Boot
           \/ UNCHANGED allVars
  <2>1. UNCHANGED <<call, req>>
    BY <1>2 DEF ProviderStep, Emit, PumpStep, PumpDeliver, PumpTail, PumpExit, RunStep,
       RunEvent, RunClosed, RunExit, Receive, Boot, allVars, connVars, lifeVars
  <2> QED
    BY <2>1 DEF WaitersAreInside, Inside, At
<1>3. CASE Crash
  BY <1>3 DEF Crash, MemoryLost, WaitersAreInside, Inside, At, NoReq, Idle
<1> QED
  BY <1>1, <1>2, <1>3 DEF LifecycleNext

(* A request that waits for Connect or Disconnect is inside it, and the    *)
(* pumpDone it may wait for will be closed: the safety half of             *)
(* EveryRequestEnds and EveryCallReturns.                                  *)
THEOREM NobodyWaitsInVain == LifecycleSpec => [](WaitersAreInside /\ PumpIsEnding)
<1>1. LifecycleInit => WaitersAreInside
  BY DEF LifecycleInit, Init, WaitersAreInside, Inside, At, NoReq, Idle
<1>2. LifeInv => PumpIsEnding
  BY DEF LifeInv, ConnInv, TypeOK, CallOwnsSlot, PumpFollowsSlot, PumpIsEnding,
     DisconnectAt, PumpState
<1>3. LifeInv /\ LifeInv' /\ WaitersAreInside /\ [LifecycleNext]_allVars
         => WaitersAreInside'
  BY InsideNext
<1> QED
  BY <1>1, <1>2, <1>3, LifecycleInvariant, PTL DEF LifecycleSpec

-----------------------------------------------------------------------------
(* The Connector under the requests *)

(* The requests, the ingester and the boot use the Connector only through  *)
(* its operations; a crash is all that happens to it besides.              *)
THEOREM RequestsUseTheConnector ==
  LifecycleSpec => [][Next \/ MemoryLost]_connVars
<1>1. LifeInv /\ [LifecycleNext]_allVars => [Next \/ MemoryLost]_connVars
  BY LifecycleUsesConnector DEF LifeInv
<1> QED
  BY <1>1, LifecycleInvariant, PTL DEF LifecycleSpec

(* What the Connector promises its callers it also promises these requests,*)
(* in every life of the daemon.                                            *)
THEOREM PromisesHoldForRequests ==
  LifecycleSpec => [](ConnectOwnsSlot /\ PumpDoneClosedOnce /\ OneSessionPerSub
                        /\ FreeSlotIsQuiet)
<1>1. ConnInv => ConnectOwnsSlot
  BY DEF ConnInv, CallOwnsSlot, ConnectOwnsSlot
<1>2. ConnInv => PumpDoneClosedOnce
  BY DEF ConnInv, TypeOK, PumpFollowsSlot, PumpDoneClosedOnce, PumpState
<1>3. ConnInv => OneSessionPerSub
  BY HeardAtMostOne DEF OneSessionPerSub
<1>4. LifeInv => ConnInv /\ FreeSlotIsQuiet
  BY DEF LifeInv, ConnInv
<1> QED
  BY <1>1, <1>2, <1>3, <1>4, LifecycleInvariant, PTL
=============================================================================
