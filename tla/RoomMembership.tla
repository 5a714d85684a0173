--------------------------- MODULE RoomMembership ---------------------------
(***************************************************************************)
(* internal/api/v1/rooms.go: a room is a row here and a channel at         *)
(* Discord, a member a row here and a permission there.  Every request     *)
(* changes the two one after the other, outside any common transaction,    *)
(* and publishes whose state it changed when both are done.                *)
(*                                                                         *)
(* A call to Discord succeeds, is refused, or succeeds while its answer is *)
(* lost.  A transaction is one step; it fails when what it needs is gone   *)
(* or the client's context has ended.                                      *)
(***************************************************************************)
EXTENDS Naturals, FiniteSets

CONSTANTS
    Account,
    Bot,        \* Discord identities; two accounts may have the same one
    Room,       \* rooms, each with its own channel, that can ever be created
    Op,         \* requests that run at the same time
    None

ASSUME RoomAssumption == None \notin Account \cup Bot \cup Room

VARIABLES
    acct,       \* acct[a]: "live" or "deleted"
    bot,        \* bot[a]: bot_user_id, None while it was never captured
    row,        \* row[r]: rooms row: "none", "open", "archived" or "gone"
    name,       \* name[r]: its name, the first or the second
    chan,       \* chan[r]: the channel: "none", "up" or "down"
    grant,      \* grant[r]: the bots that have VIEW_CHANNEL
    member,     \* member[r][a]: "out", "watching" or "subscribed"
    op,         \* op[o]: where request o stands
    event,      \* event[r]: "sent" while bots still get channel-deleted
    notify,     \* notify[r]: whom the ingester has yet to publish for it
    shown,      \* shown[a]: the rooms in the state a was published last
    settled,    \* settled[r]: history, the last invite or kick ran undisturbed
    missed,     \* history: accounts whose state changed with nobody to publish
    left        \* history: channels whose creation was given up

rowVars  == <<acct, bot, row, name, member>>
discVars == <<chan, grant, event>>
histVars == <<settled, missed, left>>
vars == <<rowVars, discVars, histVars, op, notify, shown>>

Idle == [at |-> "idle", r |-> None, a |-> None, uid |-> None, sub |-> "out", todo |-> {},
         clean |-> "no"]

Live(r) == row[r] \in {"open", "archived"}
Members(r) == {a \in Account : member[r][a] # "out"}

\* The rooms of a snapshot: subscribed and not archived, with their names.
View(a) == {<<r, name[r]>> : r \in {q \in Room : row[q] = "open" /\ member[q][a] = "subscribed"}}

\* Requests that have changed bot b's permission and not yet the row
Between(r, b) == {o \in Op : op[o].at \in {"granted", "removed"} /\ op[o].r = r /\ op[o].uid = b}

Request == [at : {"idle", "made", "undo", "snapped", "dropped", "asked",
                 "granted", "kicking", "removed", "publish", "fan"},
            r : Room \cup {None}, a : Account \cup {None},
            uid : Bot \cup {None},
            sub : {"out", "watching", "subscribed"},
            todo : SUBSET Account, clean : {"yes", "no"}]

TypeOK ==
    /\ acct    \in [Account -> {"live", "deleted"}]
    /\ bot     \in [Account -> Bot \cup {None}]
    /\ row     \in [Room -> {"none", "open", "archived", "gone"}]
    /\ name    \in [Room -> {0, 1}]
    /\ chan    \in [Room -> {"none", "up", "down"}]
    /\ grant   \in [Room -> SUBSET Bot]
    /\ member  \in [Room -> [Account -> {"out", "watching", "subscribed"}]]
    /\ op      \in [Op -> Request]
    /\ event   \in [Room -> {"none", "sent"}]
    /\ notify  \in [Room -> SUBSET Account]
    /\ shown   \in [Account -> SUBSET (Room \X {0, 1})]
    /\ settled \in [Room -> SUBSET Account]
    /\ missed  \subseteq Account
    /\ left    \subseteq Room

Init ==
    /\ acct = [a \in Account |-> "live"]
    /\ bot = [a \in Account |-> None]
    /\ row = [r \in Room |-> "none"]
    /\ name = [r \in Room |-> 0]
    /\ chan = [r \in Room |-> "none"]
    /\ grant = [r \in Room |-> {}]
    /\ member = [r \in Room |-> [a \in Account |-> "out"]]
    /\ op = [o \in Op |-> Idle]
    /\ event = [r \in Room |-> "none"]
    /\ notify = [r \in Room |-> {}]
    /\ shown = [a \in Account |-> {}]
    /\ settled = [r \in Room |-> {}]
    /\ missed = {}
    /\ left = {}

----------------------------------------------------------------------------
(* room_repo, membership_repo *)

SetRow(r, state) == row' = [row EXCEPT ![r] = state]
PutMember(r, a, sub) == member' = [member EXCEPT ![r] = [@ EXCEPT ![a] = sub]]
DropMember(r, a) == member' = [member EXCEPT ![r] = [@ EXCEPT ![a] = "out"]]
DropMembers(r) == member' = [member EXCEPT ![r] = [a \in Account |-> "out"]]

----------------------------------------------------------------------------
(* Steps that several requests share *)

\* Request o stands at `at`, about the pair (r, a).
Goes(o, at, r, a) ==
    op' = [op EXCEPT ![o] = [at |-> at, r |-> r, a |-> a, uid |-> None, sub |-> "out",
                             todo |-> {}, clean |-> "no"]]

\* Request o has committed and will publish the accounts of A.
WillPublish(o, A) ==
    op' = [op EXCEPT ![o] = [at |-> "publish", r |-> None, a |-> None, uid |-> None,
                             sub |-> "out", todo |-> A, clean |-> "no"]]

Ends(o) == op' = [op EXCEPT ![o] = Idle]

\* Every account of A is published: its snapshot is built now or later.
Published(A) ==
    /\ shown' = [a \in Account |-> IF a \in A THEN View(a) ELSE shown[a]]
    /\ missed' = missed \ A

\* The channel's permissions go with it, and nothing is left to agree with.
ChannelGone(r) ==
    /\ chan' = [chan EXCEPT ![r] = "down"]
    /\ grant' = [grant EXCEPT ![r] = {}]
    /\ settled' = [settled EXCEPT ![r] = {}]

\* A request gives up: the client gets an error and may try again.
GivesUp(o) ==
    /\ Ends(o)
    /\ UNCHANGED <<rowVars, discVars, histVars, notify, shown>>

\* bus.Publish, bus.PublishMany at the end of a handler.
Publish(o) ==
    /\ op[o].at = "publish"
    /\ Published(op[o].todo)
    /\ Ends(o)
    /\ UNCHANGED <<rowVars, discVars, settled, left, notify>>

\* publishRoomMembers reads the members when it runs, after the commit.
FanOut(o) ==
    /\ op[o].at = "fan"
    /\ Published(Members(op[o].r))
    /\ Ends(o)
    /\ UNCHANGED <<rowVars, discVars, settled, left, notify>>

\* publishRoomMembers fails or times out: nobody is published.
FanFail(o) ==
    /\ op[o].at = "fan"
    /\ missed' = missed \cup Members(op[o].r)
    /\ Ends(o)
    /\ UNCHANGED <<rowVars, discVars, settled, left, notify, shown>>

----------------------------------------------------------------------------
(* CreateRoom: channel, then row and creator's membership *)

CreateChannel(o, r, a) ==
    /\ op[o].at = "idle"
    /\ chan[r] = "none"
    /\ acct[a] # "deleted"
    /\ chan' = [chan EXCEPT ![r] = "up"]
    /\ \/ Goes(o, "made", r, a) /\ UNCHANGED left
       \/ UNCHANGED op /\ left' = left \cup {r}        \* the answer is lost
    /\ UNCHANGED <<rowVars, grant, event, settled, missed, notify, shown>>

CreateCommit(o) ==
    LET r == op[o].r  a == op[o].a IN
    /\ op[o].at = "made"
    /\ acct[a] # "deleted"
    /\ SetRow(r, "open")
    /\ PutMember(r, a, "watching")
    /\ WillPublish(o, {a})
    /\ UNCHANGED <<acct, bot, name, discVars, histVars, notify, shown>>

CreateFail(o) ==
    /\ op[o].at = "made"
    /\ Goes(o, "undo", op[o].r, op[o].a)
    /\ UNCHANGED <<rowVars, discVars, histVars, notify, shown>>

\* The best-effort DeleteChannel; its error is ignored.
CreateUndo(o) ==
    LET r == op[o].r IN
    /\ op[o].at = "undo"
    /\ \/ ChannelGone(r) /\ UNCHANGED left
       \/ left' = left \cup {r} /\ UNCHANGED <<chan, grant, settled>>
    /\ Ends(o)
    /\ UNCHANGED <<rowVars, event, missed, notify, shown>>

----------------------------------------------------------------------------
(* UpdateRoom, ArchiveRoom, UpdateMembership: rows only *)

Rename(o, r) ==
    /\ op[o].at = "idle"
    /\ Live(r)
    /\ name[r] = 0                                     \* bound: renamed once
    /\ name' = [name EXCEPT ![r] = 1]
    /\ Goes(o, "fan", r, None)
    /\ UNCHANGED <<acct, bot, row, member, discVars, histVars, notify, shown>>

Archive(o, r) ==
    /\ op[o].at = "idle"
    /\ Live(r)
    /\ SetRow(r, "archived")
    /\ Goes(o, "fan", r, None)
    /\ UNCHANGED <<acct, bot, name, member, discVars, histVars, notify, shown>>

UpdateMembership(o, r, a, sub) ==
    /\ op[o].at = "idle"
    /\ member[r][a] # "out"
    /\ PutMember(r, a, sub)
    /\ WillPublish(o, {a})
    /\ UNCHANGED <<acct, bot, row, name, discVars, histVars, notify, shown>>

----------------------------------------------------------------------------
(* DeleteRoom: members noted, channel, then row *)

DeleteSnapshot(o, r) ==
    /\ op[o].at = "idle"
    /\ Live(r)
    /\ op' = [op EXCEPT ![o] = [at |-> "snapped", r |-> r, a |-> None, uid |-> None, sub |-> "out",
                                todo |-> Members(r), clean |-> "no"]]
    /\ UNCHANGED <<rowVars, discVars, histVars, notify, shown>>

\* The channel is gone now, or was already ("Unknown Channel" is success);
\* every other bot hears of it.
DeleteChannel(o) ==
    LET r == op[o].r IN
    /\ op[o].at = "snapped"
    /\ ChannelGone(r)
    /\ event' = [event EXCEPT ![r] = IF chan[r] = "up" THEN "sent" ELSE @]
    /\ \/ op' = [op EXCEPT ![o] = [at |-> "dropped", r |-> r, a |-> None, uid |-> None, sub |-> "out",
                                   todo |-> op[o].todo, clean |-> "no"]]
       \/ chan[r] = "up" /\ Ends(o)                    \* the answer is lost
    /\ UNCHANGED <<rowVars, missed, left, notify, shown>>

\* Mutant: an error of Discord is swallowed and the row deleted all the same.
DeleteGoesOn(o) ==
    /\ op[o].at = "snapped"
    /\ op' = [op EXCEPT ![o] = [at |-> "dropped", r |-> op[o].r, a |-> None, uid |-> None, sub |-> "out",
                                todo |-> op[o].todo, clean |-> "no"]]
    /\ UNCHANGED <<rowVars, discVars, histVars, notify, shown>>

DeleteRefused(o) ==
    /\ op[o].at = "snapped"
    /\ GivesUp(o)

\* The row goes with its memberships.  Who joined after the snapshot is not
\* in the list that is published.
DeleteCommit(o) ==
    LET r == op[o].r IN
    /\ op[o].at = "dropped"
    /\ Live(r)
    /\ SetRow(r, "gone")
    /\ DropMembers(r)
    /\ missed' = missed \cup {a \in Account \ op[o].todo : member[r][a] = "subscribed"}
    /\ WillPublish(o, op[o].todo)
    /\ UNCHANGED <<acct, bot, name, discVars, settled, left, notify, shown>>

DeleteFail(o) ==
    /\ op[o].at = "dropped"
    /\ GivesUp(o)

----------------------------------------------------------------------------
(* InviteMember: permission, then row.  KickMember: the same way round. *)

\* The call of request o has changed bot b's permission: requests that called
\* for the bot before it and have not committed are disturbed by it.
Disturbs(o, r, b, rec) ==
    /\ op' = [p \in Op |-> IF p = o THEN rec
                           ELSE IF p \in Between(r, b) THEN [op[p] EXCEPT !.clean = "no"]
                           ELSE op[p]]
    /\ settled' = [settled EXCEPT ![r] = {a \in @ : bot[a] # b}]

\* The id was read before the call; the account may have another one by now.
Called(o, at) ==
    [at |-> at, r |-> op[o].r, a |-> op[o].a, uid |-> op[o].uid, sub |-> op[o].sub,
     todo |-> {}, clean |-> IF op[o].uid = bot[op[o].a] THEN "yes" ELSE "no"]

\* The room may be archived; the target must have a bot_user_id.
InviteRead(o, r, a, sub) ==
    /\ op[o].at = "idle"
    /\ Live(r)
    /\ acct[a] = "live"
    /\ bot[a] # None
    /\ op' = [op EXCEPT ![o] = [at |-> "asked", r |-> r, a |-> a, uid |-> bot[a], sub |-> sub,
                                todo |-> {}, clean |-> "no"]]
    /\ UNCHANGED <<rowVars, discVars, histVars, notify, shown>>

AddMember(o) ==
    LET r == op[o].r  b == op[o].uid IN
    /\ op[o].at = "asked"
    /\ chan[r] = "up"
    /\ grant' = [grant EXCEPT ![r] = @ \cup {b}]
    /\ \/ Disturbs(o, r, b, Called(o, "granted"))
       \/ Disturbs(o, r, b, Idle)                      \* the answer is lost
    /\ UNCHANGED <<rowVars, chan, event, missed, left, notify, shown>>

AddRefused(o) ==
    /\ op[o].at = "asked"
    /\ GivesUp(o)

\* Who commits last decides what the row says; the pair is settled when the
\* call was for the account's bot and neither another call for this bot nor a
\* change of identity came between the call and the commit.
Settle(o) ==
    LET r == op[o].r  a == op[o].a IN
    settled' = [settled EXCEPT ![r] = IF op[o].clean = "yes" THEN @ \cup {a} ELSE @ \ {a}]

\* Mutant: the tables do not know the foreign keys.
InviteNoKeys(o) ==
    LET r == op[o].r  a == op[o].a IN
    /\ op[o].at = "granted"
    /\ PutMember(r, a, op[o].sub)
    /\ Settle(o)
    /\ WillPublish(o, {a})
    /\ UNCHANGED <<acct, bot, row, name, discVars, missed, left, notify, shown>>

\* Mutant: only a new membership is published.
InviteFreshOnly(o) ==
    LET r == op[o].r  a == op[o].a IN
    /\ op[o].at = "granted"
    /\ Live(r)
    /\ acct[a] # "deleted"
    /\ PutMember(r, a, op[o].sub)
    /\ Settle(o)
    /\ IF member[r][a] = "out" THEN WillPublish(o, {a}) ELSE Ends(o)
    /\ UNCHANGED <<acct, bot, row, name, discVars, missed, left, notify, shown>>

\* The upsert needs the room and the account (foreign keys).  Only a
\* subscribed membership is published, so one that stops to be is not.
InviteCommit(o) ==
    LET r == op[o].r  a == op[o].a IN
    /\ op[o].at = "granted"
    /\ Live(r)
    /\ acct[a] # "deleted"
    /\ PutMember(r, a, op[o].sub)
    /\ Settle(o)
    /\ IF op[o].sub = "subscribed"
       THEN WillPublish(o, {a}) /\ UNCHANGED missed
       ELSE /\ Ends(o)
            /\ missed' = IF member[r][a] = "subscribed" THEN missed \cup {a} ELSE missed
    /\ UNCHANGED <<acct, bot, row, name, discVars, left, notify, shown>>

\* The permission stays without a row.
InviteFail(o) ==
    /\ op[o].at = "granted"
    /\ GivesUp(o)

\* An account whose bot was never seen has no permission to remove.
KickRead(o, r, a) ==
    /\ op[o].at = "idle"
    /\ Live(r)
    /\ member[r][a] # "out"
    /\ op' = [op EXCEPT ![o] =
                 [at |-> IF bot[a] = None THEN "removed" ELSE "kicking",
                  r |-> r, a |-> a, uid |-> bot[a], sub |-> "out", todo |-> {},
                  clean |-> IF bot[a] = None THEN "yes" ELSE "no"]]
    /\ UNCHANGED <<rowVars, discVars, histVars, notify, shown>>

RemoveMember(o) ==
    LET r == op[o].r  b == op[o].uid IN
    /\ op[o].at = "kicking"
    /\ chan[r] = "up"
    /\ grant' = [grant EXCEPT ![r] = @ \ {b}]
    /\ \/ Disturbs(o, r, b, Called(o, "removed"))
       \/ Disturbs(o, r, b, Idle)                      \* the answer is lost
    /\ UNCHANGED <<rowVars, chan, event, missed, left, notify, shown>>

\* Mutant: Discord's error is swallowed and the row deleted all the same.
RemoveGoesOn(o) ==
    /\ op[o].at = "kicking"
    /\ Disturbs(o, op[o].r, op[o].uid, Called(o, "removed"))
    /\ UNCHANGED <<rowVars, discVars, missed, left, notify, shown>>

RemoveRefused(o) ==
    /\ op[o].at = "kicking"
    /\ GivesUp(o)

KickCommit(o) ==
    LET r == op[o].r  a == op[o].a IN
    /\ op[o].at = "removed"
    /\ member[r][a] # "out"
    /\ DropMember(r, a)
    /\ Settle(o)
    /\ WillPublish(o, {a})
    /\ UNCHANGED <<acct, bot, row, name, discVars, missed, left, notify, shown>>

\* The row stays without the permission.
KickFail(o) ==
    /\ op[o].at = "removed"
    /\ GivesUp(o)

----------------------------------------------------------------------------
(* Accounts, the gateway, and the end of the process *)

\* The account's identity is not what it was: nothing is known to agree with
\* it, and no call under way was for it.
IdentityLost(a) ==
    /\ op' = [o \in Op |-> IF op[o].a = a THEN [op[o] EXCEPT !.clean = "no"] ELSE op[o]]
    /\ settled' = [r \in Room |-> settled[r] \ {a}]

\* A session that has opened, or a new token, tells the account's bot_user_id.
\* What the rooms granted to the former one is left as it is.
CaptureIdentity(a, b) ==
    /\ acct[a] = "live"
    /\ bot[a] # b
    /\ bot' = [bot EXCEPT ![a] = b]
    /\ IdentityLost(a)
    /\ UNCHANGED <<acct, row, name, member, discVars, missed, left, notify, shown>>

\* The account's rows go with it; its permissions at Discord do not.
DeleteAccount(a) ==
    /\ acct[a] # "deleted"
    /\ acct' = [acct EXCEPT ![a] = "deleted"]
    /\ bot' = [bot EXCEPT ![a] = None]
    /\ member' = [r \in Room |-> [member[r] EXCEPT ![a] = "out"]]
    /\ IdentityLost(a)
    /\ missed' = missed \ {a}
    /\ UNCHANGED <<row, name, discVars, left, notify, shown>>

\* Somebody deletes the channel in Discord.
ChannelRemoved(r) ==
    /\ chan[r] = "up"
    /\ ChannelGone(r)
    /\ event' = [event EXCEPT ![r] = "sent"]
    /\ UNCHANGED <<rowVars, missed, left, op, notify, shown>>

\* A bot's drain goroutine: the room is archived, once.
IngestChannelDeleted(r) ==
    /\ event[r] = "sent"
    /\ row[r] = "open"
    /\ SetRow(r, "archived")
    /\ notify' = [notify EXCEPT ![r] = Members(r)]
    /\ UNCHANGED <<acct, bot, name, member, discVars, histVars, op, shown>>

NotifyArchived(r) ==
    /\ notify[r] # {}
    /\ Published(notify[r])
    /\ notify' = [notify EXCEPT ![r] = {}]
    /\ UNCHANGED <<rowVars, discVars, settled, left, op>>

\* Every bot has had the event, or lost it.
EventOver(r) ==
    /\ event[r] = "sent"
    /\ event' = [event EXCEPT ![r] = "none"]
    /\ UNCHANGED <<rowVars, chan, grant, histVars, op, notify, shown>>

\* The daemon dies and starts again; watchers come back and get a first
\* snapshot.
Crash ==
    /\ op' = [o \in Op |-> Idle]
    /\ event' = [r \in Room |-> "none"]
    /\ notify' = [r \in Room |-> {}]
    /\ shown' = [a \in Account |-> View(a)]
    /\ missed' = {}
    /\ left' = left \cup {r \in Room : \E o \in Op : op[o].at \in {"made", "undo"} /\ op[o].r = r}
    /\ UNCHANGED <<rowVars, chan, grant, settled>>

----------------------------------------------------------------------------

Begin(o) ==
    \E r \in Room :
        \/ Rename(o, r) \/ Archive(o, r) \/ DeleteSnapshot(o, r)
        \/ \E a \in Account :
              \/ CreateChannel(o, r, a)
              \/ KickRead(o, r, a)
              \/ \E sub \in {"watching", "subscribed"} :
                    InviteRead(o, r, a, sub) \/ UpdateMembership(o, r, a, sub)

Continue(o) ==
    \/ CreateCommit(o) \/ CreateFail(o) \/ CreateUndo(o)
    \/ DeleteChannel(o) \/ DeleteRefused(o) \/ DeleteCommit(o) \/ DeleteFail(o)
    \/ AddMember(o) \/ AddRefused(o) \/ InviteCommit(o) \/ InviteFail(o)
    \/ RemoveMember(o) \/ RemoveRefused(o) \/ KickCommit(o) \/ KickFail(o)
    \/ Publish(o) \/ FanOut(o) \/ FanFail(o)

World ==
    \/ \E a \in Account : DeleteAccount(a) \/ \E b \in Bot : CaptureIdentity(a, b)
    \/ \E r \in Room :
        \/ ChannelRemoved(r)
        \/ IngestChannelDeleted(r)
        \/ NotifyArchived(r)
        \/ EventOver(r)
    \/ Crash

Next == World \/ \E o \in Op : Begin(o) \/ Continue(o)

Spec == Init /\ [][Next]_vars

----------------------------------------------------------------------------
(* Properties *)

\* DeleteRoom deletes the row only of a channel that is gone, and a channel
\* without a row is that of a CreateRoom under way or one whose creation was
\* given up with an error of Discord or a crash (M4-P3-001).
ChannelsAreOwned ==
    \A r \in Room :
        /\ row[r] = "gone" => chan[r] = "down"
        /\ row[r] = "none" /\ chan[r] = "up" =>
              r \in left \/ \E o \in Op : op[o].at \in {"made", "undo"} /\ op[o].r = r

\* Invite and kick leave the row and the permission of the account's bot in
\* agreement, whatever failed or raced before, once one of them ran with no
\* other call for the same bot and no change of the account's identity
\* between its reads and its commit (M4-P3-002, M4-P3-003).  The agreement
\* ends with the identity: a new bot_user_id has the memberships of the
\* former one and none of its permissions, which nothing in the code carries
\* over, until the next invite.
RowsMatchPermissions ==
    \A r \in Room : \A a \in settled[r] :
        Live(r) /\ chan[r] = "up" => (bot[a] \in grant[r] <=> member[r][a] # "out")

\* No request brings a membership back to a room or an account deleted while
\* it was calling Discord.
NoMemberOfNothing ==
    \A r \in Room, a \in Account : member[r][a] # "out" => Live(r) /\ acct[a] # "deleted"

\* The rooms an account was shown last are the rooms it has, unless somebody
\* is about to publish it, or it is one of the cases in which nobody will:
\* downgraded by an invite, joined while the room was being deleted, or
\* member of a room whose publishRoomMembers failed.
StaleIsPending ==
    \A a \in Account :
        acct[a] # "deleted" /\ shown[a] # View(a) =>
            \/ a \in missed
            \/ \E r \in Room : a \in notify[r]
            \/ \E o \in Op : op[o].at = "publish" /\ a \in op[o].todo
            \/ \E o \in Op : op[o].at = "fan" /\ member[op[o].r][a] # "out"

=============================================================================
