------------------------- MODULE MessageSyncProofs -------------------------
(***************************************************************************)
(* Theorems about MessageSync for any accounts, messages, contents and     *)
(* echoes.  SyncInv is inductive; NoOneStale and RecordOnlyGrows follow    *)
(* step by step, and the steps are steps of the Inbox.                     *)
(***************************************************************************)
EXTENDS MessageSync, TLAPS

SendStep(m) == SendCheck(m) \/ SendRefused(m) \/ Post(m) \/ SendTxFail(m)

LEMMA SyncInit == Init => SyncInv /\ NoOneStale
<1> SUFFICES ASSUME Init PROVE SyncInv /\ NoOneStale
    OBVIOUS
<1> USE DEF Init
<1>1. TypeOK
    BY DEF TypeOK
<1>2. RowsFollowSends /\ MergedRecord /\ StayedGetIt
    BY DEF RowsFollowSends, MergedRecord, StayedGetIt, Posted
<1>3. NoOneStale
    BY DEF NoOneStale, Visible
<1> QED BY <1>1, <1>2, <1>3 DEF SyncInv

LEMMA SyncSend ==
    ASSUME SyncInv, NEW m \in Msg, SendStep(m)
    PROVE  SyncInv'
<1> USE MessageAssumption DEF SyncInv, SendStep, SendCheck, SendRefused, Post, SendTxFail,
        rowVars, roomVars, busVars
<1>1. TypeOK'
    BY DEF TypeOK
<1>2. RowsFollowSends'
    BY DEF RowsFollowSends, TypeOK, Posted
<1>3. MergedRecord'
    BY DEF MergedRecord, RowsFollowSends, TypeOK, Posted
<1>4. StayedGetIt'
    BY DEF StayedGetIt, RowsFollowSends, TypeOK, Posted
<1> QED BY <1>1, <1>2, <1>3, <1>4

LEMMA SyncSendTx ==
    ASSUME SyncInv, NEW m \in Msg, SendTx(m)
    PROVE  SyncInv'
<1> USE MessageAssumption DEF SyncInv, SendTx, UpsertStates, AddMentions, AddFiles, roomVars
<1>1. TypeOK'
    BY DEF TypeOK, RowsFollowSends
<1>2. RowsFollowSends'
    BY DEF RowsFollowSends, TypeOK, Posted
<1>3. \A n \in Msg : n # m =>
          /\ send'[n] = send[n] /\ row'[n] = row[n] /\ mention'[n] = mention[n]
          /\ unread'[n] = unread[n] /\ read'[n] = read[n] /\ files'[n] = files[n]
          /\ n \in everyone => n \in everyone'
    BY DEF TypeOK
<1>4. /\ send'[m] = "recorded" /\ row'[m] = "sender"
      /\ mention'[m] = mention[m] \cup named[m]
      /\ m \in SendAll => m \in everyone'
      /\ m \in everyone => m \in everyone'
      /\ By[m] \in read'[m] \ unread'[m]
      /\ files'[m] = IF m \in Files /\ row[m] = "none" THEN files[m] + 1 ELSE files[m]
    BY DEF TypeOK
<1>5. unread'[m] \cup read'[m] = unread[m] \cup read[m] \cup member \cup {By[m]}
    BY DEF TypeOK
<1>6. MergedRecord'
    BY <1>3, <1>4 DEF MergedRecord, TypeOK
<1>7. StayedGetIt'
    <2> SUFFICES ASSUME NEW n \in Msg, row'[n] # "none"
                 PROVE  stayed'[n] \subseteq unread'[n] \cup read'[n]
        BY DEF StayedGetIt
    <2>1. CASE n = m
        BY <2>1, <1>5 DEF RowsFollowSends, TypeOK
    <2>2. CASE n # m
        BY <2>2, <1>3 DEF StayedGetIt
    <2> QED BY <2>1, <2>2
<1> QED BY <1>1, <1>2, <1>6, <1>7

LEMMA SyncIngest ==
    ASSUME SyncInv, NEW m \in Msg, IngestNew(m) \/ IngestEcho(m)
    PROVE  SyncInv'
<1> USE MessageAssumption DEF SyncInv, IngestNew, IngestEcho, UpsertStates, AddMentions,
        AddFiles, FanOut, Author, Heard, Notify, roomVars, sendVars
<1>1. TypeOK'
    BY DEF TypeOK
<1>2. RowsFollowSends'
    BY DEF RowsFollowSends, TypeOK, Posted
<1>3. MergedRecord'
    BY DEF MergedRecord, RowsFollowSends, TypeOK, Posted
<1>4. StayedGetIt'
    BY DEF StayedGetIt, RowsFollowSends, TypeOK, Posted
<1> QED BY <1>1, <1>2, <1>3, <1>4

LEMMA SyncRead ==
    ASSUME SyncInv, NEW a \in Account, ReadRoom(a)
    PROVE  SyncInv'
<1> USE DEF SyncInv, ReadRoom, roomVars, sendVars
<1>1. TypeOK'
    BY DEF TypeOK
<1>2. RowsFollowSends'
    BY DEF RowsFollowSends, TypeOK, Posted
<1>3. MergedRecord'
    BY DEF MergedRecord, RowsFollowSends, TypeOK, Posted
<1>4. StayedGetIt'
    BY DEF StayedGetIt, RowsFollowSends, TypeOK, Posted
<1> QED BY <1>1, <1>2, <1>3, <1>4

RoomStep ==
    \/ ChannelDeleted \/ ArchiveRoom \/ PublishRoom
    \/ \E a \in Account : Join(a) \/ Leave(a) \/ Publish(a)

LEMMA SyncRoom ==
    ASSUME SyncInv, RoomStep
    PROVE  SyncInv'
<1> USE DEF SyncInv, RoomStep, ChannelDeleted, ArchiveRoom, PublishRoom, Join, Leave,
        Publish, rowVars, roomVars, sendVars
<1>1. TypeOK'
    BY DEF TypeOK
<1>2. RowsFollowSends'
    BY DEF RowsFollowSends, TypeOK, Posted
<1>3. MergedRecord'
    BY DEF MergedRecord, RowsFollowSends, TypeOK, Posted
<1>4. StayedGetIt'
    BY DEF StayedGetIt, RowsFollowSends, TypeOK, Posted
<1> QED BY <1>1, <1>2, <1>3, <1>4

LEMMA SyncNext == SyncInv /\ [Next]_vars => SyncInv'
<1> SUFFICES ASSUME SyncInv, [Next]_vars PROVE SyncInv'
    OBVIOUS
<1>1. CASE \E m \in Msg : SendStep(m)
    BY <1>1, SyncSend
<1>2. CASE \E m \in Msg : SendTx(m)
    BY <1>2, SyncSendTx
<1>3. CASE \E m \in Msg : IngestNew(m) \/ IngestEcho(m)
    BY <1>3, SyncIngest
<1>4. CASE \E a \in Account : ReadRoom(a)
    BY <1>4, SyncRead
<1>5. CASE RoomStep
    BY <1>5, SyncRoom
<1>6. CASE UNCHANGED vars
    BY <1>6 DEF SyncInv, TypeOK, RowsFollowSends, MergedRecord, StayedGetIt, Posted,
        vars, rowVars, roomVars, busVars, sendVars
<1> QED BY <1>1, <1>2, <1>3, <1>4, <1>5, <1>6 DEF Next, SendStep, RoomStep

----------------------------------------------------------------------------
(* What the bus shows *)

LEMMA StaleSend ==
    ASSUME TypeOK, NoOneStale, NEW m \in Msg, SendStep(m) \/ SendTx(m)
    PROVE  NoOneStale'
<1> USE DEF SendStep, SendCheck, SendRefused, Post, SendTxFail, rowVars, roomVars, busVars
<1>1. CASE SendStep(m)
    BY <1>1 DEF NoOneStale, Visible, Badge
<1>2. CASE SendTx(m)
    BY <1>2 DEF SendTx, NoOneStale, Visible, Badge
<1> QED BY <1>1, <1>2

LEMMA StaleIngest ==
    ASSUME TypeOK, NoOneStale, NEW m \in Msg, IngestNew(m) \/ IngestEcho(m)
    PROVE  NoOneStale'
<1> USE DEF Heard, Notify, AddMentions, roomVars, sendVars
<1>1. CASE IngestNew(m)
    BY <1>1 DEF IngestNew, NoOneStale, Visible, Badge
<1>2. CASE IngestEcho(m) /\ (m \in EchoAll \/ Heard(m) # {})
    BY <1>2 DEF IngestEcho, NoOneStale, Visible, Badge
<1>3. CASE IngestEcho(m) /\ ~(m \in EchoAll \/ Heard(m) # {})
    <2>1. everyone' = everyone /\ mention' = mention
        BY <1>3 DEF IngestEcho, TypeOK
    <2> QED BY <1>3, <2>1 DEF IngestEcho, NoOneStale, Visible, Badge
<1> QED BY <1>1, <1>2, <1>3

LEMMA StaleRead ==
    ASSUME TypeOK, NoOneStale, NEW a \in Account, ReadRoom(a)
    PROVE  NoOneStale'
<1> SUFFICES ASSUME NEW b \in Account, b # a
             PROVE  shown'[b] = Visible(b)' \/ b \in owed' \/ (fanout' = "due" /\ b \in member')
    BY DEF NoOneStale, ReadRoom
<1>1. \A n \in Msg : b \in unread'[n] <=> b \in unread[n]
    BY DEF ReadRoom, TypeOK
<1>2. Visible(b)' = Visible(b)
    BY <1>1 DEF Visible, Badge, ReadRoom, roomVars
<1> QED BY <1>2 DEF NoOneStale, ReadRoom, roomVars

LEMMA StaleRoom ==
    ASSUME TypeOK, NoOneStale, RoomStep
    PROVE  NoOneStale'
<1> USE DEF TypeOK, NoOneStale, Visible, Badge, rowVars, roomVars
<1>1. CASE ChannelDeleted
    BY <1>1 DEF ChannelDeleted
<1>2. CASE ArchiveRoom
    BY <1>2 DEF ArchiveRoom
<1>3. CASE PublishRoom
    <2>1. \A a \in Account : Visible(a)' = Visible(a)
        BY <1>3 DEF PublishRoom
    <2>2. \A a \in Account : shown'[a] = IF a \in member THEN Visible(a) ELSE shown[a]
        BY <1>3, Zenon DEF PublishRoom
    <2> QED BY <1>3, <2>1, <2>2, Zenon DEF PublishRoom
<1>4. CASE \E a \in Account : Join(a)
    BY <1>4 DEF Join
<1>5. CASE \E a \in Account : Leave(a)
    BY <1>5 DEF Leave
<1>6. CASE \E a \in Account : Publish(a)
    <2>1. PICK a \in Account : Publish(a)
        BY <1>6
    <2>2. \A b \in Account : Visible(b)' = Visible(b)
        BY <2>1 DEF Publish
    <2>3. /\ shown'[a] = Visible(a)
          /\ \A b \in Account : b # a => shown'[b] = shown[b]
          /\ \A b \in Account : b # a /\ b \in owed => b \in owed'
        BY <2>1 DEF Publish
    <2> HIDE DEF Visible
    <2> QED BY <2>1, <2>2, <2>3 DEF Publish
<1> QED BY <1>1, <1>2, <1>3, <1>4, <1>5, <1>6 DEF RoomStep

LEMMA StaleNext == TypeOK /\ NoOneStale /\ [Next]_vars => NoOneStale'
<1> SUFFICES ASSUME TypeOK, NoOneStale, [Next]_vars PROVE NoOneStale'
    OBVIOUS
<1>1. CASE \E m \in Msg : SendStep(m) \/ SendTx(m)
    BY <1>1, StaleSend
<1>2. CASE \E m \in Msg : IngestNew(m) \/ IngestEcho(m)
    BY <1>2, StaleIngest
<1>3. CASE \E a \in Account : ReadRoom(a)
    BY <1>3, StaleRead
<1>4. CASE RoomStep
    BY <1>4, StaleRoom
<1>5. CASE UNCHANGED vars
    BY <1>5 DEF NoOneStale, Visible, Badge, vars, rowVars, roomVars, busVars
<1> QED BY <1>1, <1>2, <1>3, <1>4, <1>5 DEF Next, SendStep, RoomStep

----------------------------------------------------------------------------
(* Nothing is taken away, and the steps are steps of the Inbox. *)

Grows(m) ==
    /\ row[m] = "sender" => row'[m] = "sender"
    /\ row[m] # "none" => row'[m] # "none"
    /\ m \in everyone => m \in everyone'
    /\ mention[m] \subseteq mention'[m]
    /\ read[m] \subseteq read'[m]
    /\ unread[m] \subseteq unread'[m] \cup read'[m]

LEMMA StepGrows == SyncInv /\ [Next]_vars => \A m \in Msg : Grows(m)
<1> SUFFICES ASSUME SyncInv, [Next]_vars, NEW n \in Msg PROVE Grows(n)
    OBVIOUS
<1> USE DEF SyncInv, TypeOK, Grows
<1>1. CASE UNCHANGED rowVars
    BY <1>1 DEF rowVars
<1>2. CASE \E m \in Msg : SendTx(m)
    BY <1>2 DEF SendTx, AddMentions, UpsertStates
<1>3. CASE \E m \in Msg : IngestNew(m)
    BY <1>3 DEF IngestNew, AddMentions, UpsertStates
<1>4. CASE \E m \in Msg : IngestEcho(m)
    BY <1>4 DEF IngestEcho, AddMentions
<1>5. CASE \E a \in Account : ReadRoom(a)
    BY <1>5 DEF ReadRoom
<1> QED BY <1>1, <1>2, <1>3, <1>4, <1>5 DEF Next, SendCheck, SendRefused, Post, SendTxFail,
        ChannelDeleted, ArchiveRoom, PublishRoom, Join, Leave, Publish, vars

InboxUnchanged == UNCHANGED <<row, unread, read>>

LEMMA StuttersInInbox == InboxUnchanged => UNCHANGED Promise!inboxVars
    BY DEF InboxUnchanged, Promise!inboxVars, Box

LEMMA RecordInInbox ==
    ASSUME SyncInv, NEW m \in Msg, SendTx(m)
    PROVE  Promise!Record(m, member \cup {By[m]})
<1> USE DEF SyncInv, TypeOK, SendTx, UpsertStates
<1>1. row[m] # "sender"
    BY DEF RowsFollowSends
<1>2. \A n \in Msg : n # m => unread'[n] = unread[n] /\ read'[n] = read[n]
    OBVIOUS
<1>3. \A a \in Account : Box'[m][a] =
          IF a \in member \cup {By[m]} /\ a = By[m] THEN "read"
          ELSE IF a \in member \cup {By[m]} /\ Box[m][a] = "absent" THEN "unread"
          ELSE Box[m][a]
    BY DEF Box, RowsFollowSends
<1>4. Box' = [Box EXCEPT ![m] = Promise!Delivered(m, member \cup {By[m]})]
    <2>1. Box'[m] = Promise!Delivered(m, member \cup {By[m]})
        <3>1. Box'[m] = [a \in Account |-> Box'[m][a]]
            BY DEF Box
        <3> QED BY <3>1, <1>3 DEF Promise!Delivered
    <2>2. \A n \in Msg : n # m => Box'[n] = Box[n]
        BY <1>2 DEF Box
    <2>3. /\ Box = [n \in Msg |-> Box[n]]
          /\ Box' = [n \in Msg |-> Box'[n]]
        BY DEF Box
    <2> QED BY <2>1, <2>2, <2>3
<1> QED BY <1>1, <1>4 DEF Promise!Record

LEMMA StoreInInbox ==
    ASSUME SyncInv, NEW m \in Msg, IngestNew(m)
    PROVE  Promise!Store(m, member)
<1> USE DEF SyncInv, TypeOK, IngestNew, UpsertStates, FanOut, Author
<1>1. \A n \in Msg : n # m => unread'[n] = unread[n] /\ read'[n] = read[n]
    OBVIOUS
<1>2. \A a \in Account : Box'[m][a] =
          IF a \in member /\ a = By[m] THEN "read"
          ELSE IF a \in member /\ Box[m][a] = "absent" THEN "unread"
          ELSE Box[m][a]
    BY DEF Box, RowsFollowSends
<1>3. Box' = [Box EXCEPT ![m] = Promise!Delivered(m, member)]
    <2>1. Box'[m] = Promise!Delivered(m, member)
        <3>1. Box'[m] = [a \in Account |-> Box'[m][a]]
            BY DEF Box
        <3> QED BY <3>1, <1>2 DEF Promise!Delivered
    <2>2. \A n \in Msg : n # m => Box'[n] = Box[n]
        BY <1>1 DEF Box
    <2>3. /\ Box = [n \in Msg |-> Box[n]]
          /\ Box' = [n \in Msg |-> Box'[n]]
        BY DEF Box
    <2> QED BY <2>1, <2>2, <2>3
<1> QED BY <1>3 DEF Promise!Store

LEMMA ReadInInbox ==
    ASSUME SyncInv, NEW a \in Account, ReadRoom(a)
    PROVE  \E S \in SUBSET Msg : Promise!Read(a, S)
<1>1. PICK page \in SUBSET {m \in Msg : a \in unread[m]} :
        /\ unread' = [m \in Msg |-> IF m \in page THEN unread[m] \ {a} ELSE unread[m]]
        /\ read' = [m \in Msg |-> IF m \in page THEN read[m] \cup {a} ELSE read[m]]
    BY DEF ReadRoom
<1>2. \A m \in page : Box[m][a] = "unread"
    BY DEF Box, SyncInv, RowsFollowSends
<1>3. \A m \in Msg, b \in Account :
        Box'[m][b] = IF m \in page /\ b = a THEN "read" ELSE Box[m][b]
    BY <1>1 DEF Box
<1>4. Box' = [m \in Msg |-> IF m \in page THEN [Box[m] EXCEPT ![a] = "read"] ELSE Box[m]]
    BY <1>3 DEF Box
<1> QED BY <1>2, <1>4 DEF Promise!Read, ReadRoom

LEMMA StepInInbox == SyncInv /\ [Next]_vars => [Promise!InboxNext]_(Promise!inboxVars)
<1> SUFFICES ASSUME SyncInv, [Next]_vars PROVE [Promise!InboxNext]_(Promise!inboxVars)
    OBVIOUS
<1>1. CASE InboxUnchanged
    BY <1>1, StuttersInInbox
<1>2. CASE \E m \in Msg : SendTx(m)
    <2>1. PICK m \in Msg : SendTx(m)
        BY <1>2
    <2>2. member \cup {By[m]} \in SUBSET Account
        BY <2>1 DEF SyncInv, TypeOK, RowsFollowSends, SendTx
    <2> QED BY <2>1, <2>2, RecordInInbox DEF Promise!InboxNext
<1>3. CASE \E m \in Msg : IngestNew(m)
    <2>1. member \in SUBSET Account
        BY DEF SyncInv, TypeOK
    <2> QED BY <1>3, <2>1, StoreInInbox DEF Promise!InboxNext
<1>4. CASE \E a \in Account : ReadRoom(a)
    BY <1>4, ReadInInbox DEF Promise!InboxNext
<1> QED BY <1>1, <1>2, <1>3, <1>4 DEF InboxUnchanged, Next, SendCheck, SendRefused, Post,
        SendTxFail, IngestEcho, ChannelDeleted, ArchiveRoom, PublishRoom, Join, Leave,
        Publish, vars, rowVars

----------------------------------------------------------------------------
(* The inductive invariant holds in every reachable state.                 *)
THEOREM SyncAlways == Spec => []SyncInv
<1>1. Init => SyncInv
    BY SyncInit
<1> QED BY <1>1, SyncNext, PTL DEF Spec

(* Types are kept.                                                         *)
THEOREM SyncTypes == Spec => []TypeOK
    BY SyncAlways, PTL DEF SyncInv

(* Send and echoes merge into one record, in any order.                    *)
THEOREM SendAndEchoesMerge == Spec => []MergedRecord
    BY SyncAlways, PTL DEF SyncInv

(* Every member since the post has a stored message in the inbox.          *)
THEOREM MembersGetIt == Spec => []StayedGetIt
    BY SyncAlways, PTL DEF SyncInv

(* No commit that changes an account's state forgets to publish it.        *)
THEOREM NobodyIsForgotten == Spec => []NoOneStale
<1>1. Init => NoOneStale
    BY SyncInit
<1>2. Spec => []TypeOK
    BY SyncTypes
<1> QED BY <1>1, <1>2, StaleNext, PTL DEF Spec

(* Late, repeated and reordered events take nothing away.                  *)
THEOREM NothingIsLost == Spec => RecordOnlyGrows
<1>1. SyncInv /\ [Next]_vars => [\A m \in Msg : Grows(m)]_vars
    BY StepGrows
<1> QED BY <1>1, SyncAlways, PTL DEF Spec, RecordOnlyGrows, Grows

(* Sends, echoes and reads implement the Inbox.                            *)
THEOREM SyncImplementsInbox == Spec => ImplementsInbox
<1>1. Init => Promise!InboxInit
    BY DEF Init, Promise!InboxInit, Box
<1> QED BY <1>1, StepInInbox, SyncAlways, PTL DEF Spec, ImplementsInbox, Promise!InboxSpec
=============================================================================
