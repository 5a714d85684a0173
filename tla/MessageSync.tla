---------------------------- MODULE MessageSync ----------------------------
(***************************************************************************)
(* The messages of one room: a send request (SendMessage in                *)
(* internal/api/v1/messages.go) posts on Discord and then writes its row,  *)
(* while the gateway echoes the same message to every online bot of the    *)
(* room and each bot's ingester writes it too (internal/message/           *)
(* ingester.go).  Echoes come before or after the send's write, several    *)
(* times (one per bot, replays) or never (dropped events).  Accounts read  *)
(* (ReadRoom), join and leave, and the room is archived meanwhile.         *)
(*                                                                         *)
(* A transaction is one step; what is published to the state bus after it  *)
(* commits is a later step, and the bus shows what it reads then (that it  *)
(* gets there is assumed here; StateBus.tla models the bus).  Every        *)
(* membership is a subscribed one, the room is not deleted, and accounts   *)
(* keep their role and their bot.  The contents of the messages are        *)
(* constants; author, priority and reply target are one thing here, the    *)
(* sender's version of the row.                                            *)
(***************************************************************************)
EXTENDS Naturals, FiniteSets

CONSTANTS
    Account,
    Admin,      \* accounts that may send to and read a room they are not in
    Msg,        \* messages that can ever appear on Discord
    None,
    By,         \* By[m]: the account that sends m by request; None: an outsider
    Names,      \* Names[m]: the accounts whose @name is in its content
    SendAll,    \* messages whose content says @everyone
    Echoed,     \* Echoed[m]: the accounts Discord reports as mentioned
    EchoAll,    \* messages Discord reports as mentioning everyone
    Files,      \* messages with an attachment
    ReadMax     \* most unread messages one read returns (200 in ReadRoom)

ASSUME MessageAssumption ==
    /\ Admin \subseteq Account
    /\ None \notin Account
    /\ By \in [Msg -> Account \cup {None}]
    /\ Names \in [Msg -> SUBSET Account]
    /\ Echoed \in [Msg -> SUBSET Account]

VARIABLES
    member,     \* memberships of the room
    room,       \* rooms.archived: "open" or "archived"
    send,       \* send[m]: where the request that sends m stands
    named,      \* named[m]: the mentions it resolved
    row,        \* messages: "none", the "gateway"'s or the "sender"'s version
    everyone,   \* messages whose mention_everyone is set
    mention,    \* message_mentions
    unread,     \* message_states with read_at NULL
    read,       \* message_states with read_at set
    files,      \* number of attachments rows
    owed,       \* accounts that a finished transaction is still to publish
    fanout,     \* publishRoomMembers: "idle", or "due" after a transaction
    shown,      \* shown[a]: what a's state said when it was last published
    stayed,     \* history, stayed[m]: members ever since m was posted
    seen        \* history: messages a gateway event of which was ingested

rowVars  == <<row, everyone, mention, unread, read, files, seen>>
roomVars == <<member, room, stayed>>
busVars  == <<owed, fanout, shown>>
sendVars == <<send, named>>
vars     == <<rowVars, roomVars, busVars, sendVars>>

\* m is on Discord.
Posted(m) == send[m] \in {"posted", "recorded", "lost"}

\* What the state of account a says about the room: its unread messages, and
\* of each which version it is and whether it mentions a.
Badge(a, m) == <<m, row[m], m \in everyone, a \in mention[m]>>
Visible(a) ==
    IF a \in member /\ room = "open"
    THEN {Badge(a, m) : m \in {n \in Msg : a \in unread[n]}}
    ELSE {}

TypeOK ==
    /\ member   \subseteq Account
    /\ room     \in {"open", "archived"}
    /\ send     \in [Msg -> {"new", "checked", "posted", "recorded", "lost", "refused"}]
    /\ named    \in [Msg -> SUBSET Account]
    /\ row      \in [Msg -> {"none", "gateway", "sender"}]
    /\ everyone \subseteq Msg
    /\ mention  \in [Msg -> SUBSET Account]
    /\ unread   \in [Msg -> SUBSET Account]
    /\ read     \in [Msg -> SUBSET Account]
    /\ files    \in [Msg -> Nat]
    /\ owed     \subseteq Account
    /\ fanout   \in {"idle", "due"}
    /\ DOMAIN shown = Account
    /\ stayed   \in [Msg -> SUBSET Account]
    /\ seen     \subseteq Msg

Init ==
    /\ member \in SUBSET Account
    /\ room = "open"
    /\ send = [m \in Msg |-> "new"]
    /\ named = [m \in Msg |-> {}]
    /\ row = [m \in Msg |-> "none"]
    /\ everyone = {}
    /\ mention = [m \in Msg |-> {}]
    /\ unread = [m \in Msg |-> {}]
    /\ read = [m \in Msg |-> {}]
    /\ files = [m \in Msg |-> 0]
    /\ owed = {}
    /\ fanout = "idle"
    /\ shown = [a \in Account |-> {}]
    /\ stayed = [m \in Msg |-> {}]
    /\ seen = {}

----------------------------------------------------------------------------
(* The tables.  A mutant is the operator with a plausible bug in its code. *)

\* Mutant: without the COALESCE, an upsert without a read time clears it.
UpsertResets(m, To, Seen) ==
    /\ unread' = [unread EXCEPT ![m] = (@ \cup To) \ Seen]
    /\ read'   = [read EXCEPT ![m] = (@ \ To) \cup Seen]

\* MessageStates.Upsert for every account in To, those in Seen with a read
\* time: the first read_at is kept.
UpsertStates(m, To, Seen) ==
    /\ unread' = [unread EXCEPT ![m] = (@ \cup (To \ read[m])) \ Seen]
    /\ read'   = [read EXCEPT ![m] = @ \cup Seen]

SetMentions(m, A) == mention' = [mention EXCEPT ![m] = A]    \* mutant

\* MessageMentions.AddForMessage
AddMentions(m, A) == mention' = [mention EXCEPT ![m] = @ \cup A]

AddFilesAgain(m) ==                                         \* mutant
    files' = [files EXCEPT ![m] = IF m \in Files THEN @ + 1 ELSE @]

\* Attachments.Create, unless the message was found with its rows
AddFiles(m) ==
    files' = [files EXCEPT ![m] = IF m \in Files /\ row[m] = "none" THEN @ + 1 ELSE @]

----------------------------------------------------------------------------
(* SendMessage *)

\* The first transaction: the room is open, the actor is a member or an
\* admin; and the @names are resolved among the members it read.
SendCheck(m) ==
    /\ send[m] = "new"
    /\ room = "open"
    /\ By[m] \in member \cup Admin
    /\ send' = [send EXCEPT ![m] = "checked"]
    /\ named' = [named EXCEPT ![m] = Names[m] \cap member]
    /\ UNCHANGED <<rowVars, roomVars, busVars>>

\* Refused by a check, or by Discord
SendRefused(m) ==
    /\ By[m] # None
    /\ send[m] \in {"new", "checked"}
    /\ send' = [send EXCEPT ![m] = "refused"]
    /\ UNCHANGED <<named, rowVars, roomVars, busVars>>

\* Provider.SendMessage: the message is on Discord.  An outsider's message
\* has no request that would go on.
Post(m) ==
    /\ \/ send[m] = "checked" /\ send' = [send EXCEPT ![m] = "posted"]
       \/ By[m] = None /\ send[m] = "new" /\ send' = [send EXCEPT ![m] = "lost"]
    /\ stayed' = [stayed EXCEPT ![m] = member]
    /\ UNCHANGED <<member, room, named, rowVars, busVars>>

\* The second transaction: insert the row, or apply the sender's columns to
\* the one the gateway left; then mentions, a state for every member and the
\* author, attachments.  publishRoomMembers follows.
SendTx(m) ==
    /\ send[m] = "posted"
    /\ send' = [send EXCEPT ![m] = "recorded"]
    /\ row' = [row EXCEPT ![m] = "sender"]
    /\ everyone' = everyone \cup ({m} \cap SendAll)
    /\ AddMentions(m, named[m])
    /\ UpsertStates(m, member \cup {By[m]}, {By[m]})
    /\ AddFiles(m)
    /\ fanout' = "due"
    /\ UNCHANGED <<seen, roomVars, owed, shown, named>>

\* Discord's answer is lost or the transaction fails (the client is gone, the
\* daemon dies): nothing is written, and the message stays on Discord.
SendTxFail(m) ==
    /\ send[m] = "posted"
    /\ send' = [send EXCEPT ![m] = "lost"]
    /\ UNCHANGED <<named, rowVars, roomVars, busVars>>

----------------------------------------------------------------------------
(* The ingesters: any of the room's bots, any number of times *)

\* resolveAuthor, among those who get a state: an outsider is nobody.
Author(m) == member \cap {By[m]}

\* Mutant: the states of a message sent by request are left to the send.
FanOutOutsiders(m) == IF By[m] = None THEN member ELSE {}

\* Who gets a state: every current member, whoever sent the message
FanOut(m) == member

\* resolveMentions: of the bots Discord reports, those of current members
Heard(m) == Echoed[m] \cap member

NotifyNobody(m) == {}                                       \* mutant

\* Whom an echo of a stored message publishes: nobody if it had no mentions
Notify(m) == IF m \in EchoAll \/ Heard(m) # {} THEN member ELSE {}

\* ingestNew, the message is not stored yet
IngestNew(m) ==
    /\ Posted(m) /\ row[m] = "none"
    /\ row' = [row EXCEPT ![m] = "gateway"]
    /\ everyone' = everyone \cup ({m} \cap EchoAll)
    /\ AddMentions(m, Heard(m))
    /\ UpsertStates(m, FanOut(m), Author(m))
    /\ AddFiles(m)
    /\ owed' = owed \cup member
    /\ seen' = seen \cup {m}
    /\ UNCHANGED <<fanout, shown, roomVars, sendVars>>

\* ingestNew of a message that is stored: only mentions are merged, and the
\* members are published if the event carried any.
IngestEcho(m) ==
    /\ Posted(m) /\ row[m] # "none"
    /\ everyone' = everyone \cup ({m} \cap EchoAll)
    /\ AddMentions(m, Heard(m))
    /\ owed' = owed \cup Notify(m)
    /\ seen' = seen \cup {m}
    /\ UNCHANGED <<row, unread, read, files, fanout, shown, roomVars, sendVars>>

\* ingestChannelDeleted: the room is archived.
ChannelDeleted ==
    /\ room = "open"
    /\ room' = "archived"
    /\ owed' = owed \cup member
    /\ UNCHANGED <<member, stayed, fanout, shown, rowVars, sendVars>>

----------------------------------------------------------------------------
(* The other requests on the room *)

\* ReadRoom without "before": up to ReadMax unread messages become read.
ReadRoom(a) ==
    LET mine == {m \in Msg : a \in unread[m]} IN
    /\ a \in member \cup Admin
    /\ \E page \in SUBSET mine :
        /\ Cardinality(page) <= ReadMax
        /\ page # mine => Cardinality(page) = ReadMax
        /\ page # {}
        /\ unread' = [m \in Msg |-> IF m \in page THEN unread[m] \ {a} ELSE unread[m]]
        /\ read' = [m \in Msg |-> IF m \in page THEN read[m] \cup {a} ELSE read[m]]
    /\ owed' = owed \cup {a}
    /\ UNCHANGED <<row, everyone, mention, files, seen, fanout, shown, roomVars, sendVars>>

\* ArchiveRoom (archived rooms may be archived again)
ArchiveRoom ==
    /\ room' = "archived"
    /\ fanout' = "due"
    /\ UNCHANGED <<member, stayed, owed, shown, rowVars, sendVars>>

\* The transaction of InviteMember and what it publishes
Join(a) ==
    /\ member' = member \cup {a}
    /\ owed' = owed \cup {a}
    /\ UNCHANGED <<room, stayed, fanout, shown, rowVars, sendVars>>

\* Mutant: whoever is removed is not published.
LeaveSilently(a) ==
    /\ a \in member
    /\ member' = member \ {a}
    /\ stayed' = [m \in Msg |-> stayed[m] \ {a}]
    /\ UNCHANGED <<room, busVars, rowVars, sendVars>>

\* The transaction of KickMember and what it publishes
Leave(a) ==
    /\ a \in member
    /\ member' = member \ {a}
    /\ stayed' = [m \in Msg |-> stayed[m] \ {a}]
    /\ owed' = owed \cup {a}
    /\ UNCHANGED <<room, fanout, shown, rowVars, sendVars>>

----------------------------------------------------------------------------
(* The state bus: a published account is shown what the tables say now. *)

\* publishRoomMembers reads the members when it runs.
PublishRoom ==
    /\ fanout = "due"
    /\ fanout' = "idle"
    /\ shown' = [a \in Account |-> IF a \in member THEN Visible(a) ELSE shown[a]]
    /\ UNCHANGED <<owed, rowVars, roomVars, sendVars>>

Publish(a) ==
    /\ a \in owed
    /\ owed' = owed \ {a}
    /\ shown' = [shown EXCEPT ![a] = Visible(a)]
    /\ UNCHANGED <<fanout, rowVars, roomVars, sendVars>>

Next ==
    \/ \E m \in Msg :
        \/ SendCheck(m) \/ SendRefused(m) \/ Post(m) \/ SendTx(m) \/ SendTxFail(m)
        \/ IngestNew(m) \/ IngestEcho(m)
    \/ ChannelDeleted \/ ArchiveRoom \/ PublishRoom
    \/ \E a \in Account : ReadRoom(a) \/ Join(a) \/ Leave(a) \/ Publish(a)

Spec == Init /\ [][Next]_vars

\* A goroutine that is to publish runs.  Nothing else has to happen: requests
\* may hang and the gateway may lose every event.
LiveSpec ==
    /\ Spec
    /\ WF_vars(PublishRoom)
    /\ \A a \in Account : WF_vars(Publish(a))

----------------------------------------------------------------------------
(* Properties *)

\* In whichever order the send's transaction and the echoes of the same
\* message commit, the row ends with everything each of them knew: the
\* sender's columns, both @everyone flags, both sets of mentions, one
\* attachment row per file, and the sender has read it.
MergedRecord ==
    \A m \in Msg :
        /\ send[m] = "recorded" =>
            /\ row[m] = "sender"
            /\ m \in SendAll => m \in everyone
            /\ named[m] \subseteq mention[m]
            /\ By[m] \in read[m] \ unread[m]
        /\ m \in seen =>
            /\ row[m] # "none"
            /\ m \in EchoAll => m \in everyone
            /\ Echoed[m] \cap stayed[m] \subseteq mention[m]
        /\ files[m] = IF m \in Files /\ row[m] # "none" THEN 1 ELSE 0

\* Whoever has been a member since the message was posted has it in the
\* inbox as soon as it is stored, by whichever path ("every current member
\* gets a message_state row").
StayedGetIt ==
    \A m \in Msg : row[m] # "none" => stayed[m] \subseteq unread[m] \cup read[m]

\* Nothing is stored of a message before it is posted, a stored one has the
\* version its request says, and an inbox entry is unread or read, not both.
RowsFollowSends ==
    \A m \in Msg :
        /\ row[m] # "none" => Posted(m)
        /\ row[m] = "sender" <=> send[m] = "recorded"
        /\ send[m] \in {"checked", "posted", "recorded"} => By[m] \in Account
        /\ unread[m] \cap read[m] = {}
        /\ stayed[m] \subseteq member

\* The inductive invariant: the invariants above hold together with it.
SyncInv == TypeOK /\ RowsFollowSends /\ MergedRecord /\ StayedGetIt

\* An account is shown what the tables say, or a publish for it is still to
\* come: no commit that changes an account's state forgets to tell it.
NoOneStale ==
    \A a \in Account :
        \/ shown[a] = Visible(a)
        \/ a \in owed
        \/ fanout = "due" /\ a \in member

\* An event that comes late, twice or out of order takes nothing away: no
\* mention or flag is lost, nothing read becomes unread, no inbox entry is
\* dropped, the sender's row is not replaced.
RecordOnlyGrows ==
    [][\A m \in Msg :
        /\ row[m] = "sender" => row'[m] = "sender"
        /\ row[m] # "none" => row'[m] # "none"
        /\ m \in everyone => m \in everyone'
        /\ mention[m] \subseteq mention'[m]
        /\ read[m] \subseteq read'[m]
        /\ unread[m] \subseteq unread'[m] \cup read'[m]]_vars

\* Every account is published with its true state again and again: no sequence
\* of commits leaves one behind for ever.
EveryoneCatchesUp == \A a \in Account : []<>(shown[a] = Visible(a))

\* resolveMentions' comment (ingester.go:442): "non-members must not end up
\* in message_mentions".
MentionsAreMembers ==
    [][\A m \in Msg : mention'[m] \ mention[m] \subseteq member]_vars

\* The inbox a reader sees
Box == [m \in Msg |-> [a \in Account |->
            IF a \in read[m] THEN "read" ELSE IF a \in unread[m] THEN "unread" ELSE "absent"]]

Promise == INSTANCE Inbox WITH version <- row, box <- Box

\* Sends, echoes and reads are steps of the Inbox.
ImplementsInbox == Promise!InboxSpec
=============================================================================
