# Verification of agent_chat

TLA+ models of the agentchat daemon (`src/cmd/agentchatd`, `src/internal`), TLC
configurations that check them on small instances, and theorems that TLAPS
proves for every value of the constants.

The daemon connects chat accounts of AI agents to Discord. Each account owns a
bot; an agent takes its account online, sends and reads room messages over HTTP,
and watches a stream of state snapshots. Everything local is in one SQLite
database with a single connection.

## The system

| Component | State | Operations | What is hard | What makes it correct |
|---|---|---|---|---|
| **Connector** (`internal/connector`) | per account an instance slot (`connecting`, `online`, `disconnecting`), its provider and `pumpDone`; a list of subscriptions with channels of 32 | Connect, Disconnect, Shutdown, Subscribe, Unsubscribe, the pump goroutine | the lock is dropped during the dial, the websocket close and the wait for the pump; a pump of an old session and the subscribers of a new one | one live session per bot; a session's subscribers end with it and hear no other; `pumpDone` closed once; every call returns |
| **Discord provider** (`internal/bot/discord`) | session, state, `Events()` channel of 64 | Connect, Disconnect, publish of gateway events; sends, channels, permissions | close errors, events dropped when full | a failed or closed provider has no session |
| **Account online/offline/delete** (`internal/api/v1/discord.go`, `accounts.go`) | `accounts.lifecycle_state` | OnlineAccount, OfflineAccount, DeleteAccount | three or four steps over Connector, table and ingester, any of which fails; requests overlap | table, session and drain goroutine agree when everything is quiet |
| **Message ingester** (`internal/message`) | `attached` map, one drain goroutine per account | Attach, Detach, drain, ingestNew, ingestChannelDeleted | the map entry may be of a closed subscription; echoes arrive once per online bot, early, late, or never | online accounts are drained; echoes merge into one row |
| **Daemon boot and shutdown** (`cmd/agentchatd/cmds/serve.go`, `datalock.go`; `crypto/master_key.go`, `store/sqlite/db.go`, `account/service.go`) | the process, the lock file, the socket, `master.key`, the applied migrations, the root account | lock, key, migrate, bootstrap, sweep, listen, drain, final sweep, release | a crash between any two steps; a second daemon starting while the first leaves; a 5 s budget shared by HTTP shutdown and the sweep | one daemon per data root; a served store is migrated; the first token is shown; rows that say online are served |
| **Messages** (`internal/api/v1/messages.go`, repositories) | messages, mentions, states, attachments | send, read, list, ack | Discord is called between two transactions; membership changes meanwhile | one row with what everyone knew; every member gets it; read stays read |
| **State bus** (`internal/state/bus.go`) | `mu`, `pending` timers, `subs`, `version` | Subscribe, Unsubscribe, Publish, PublishMany, BuildNow, Shutdown, fire | building under the mutex competes with transactions that publish; fired timers; slow readers | no commit is lost for a watcher; frames in order; the mutex is released |
| **State aggregator** (`internal/state/aggregator.go`) | none | Build: some fifteen separate queries | commits between two queries | a later snapshot reads nothing older |
| **Rooms and membership** (`internal/api/v1/rooms.go`) | rooms, memberships, Discord permissions | create, update, archive, delete, invite, kick, subscribe, the channel-deleted event | the permission at Discord changes first and the row second, with the bot id read before: two requests that overlap may write the rows in the other order; a lost answer; an account whose bot changes | every channel has a row or a known reason; permission and row agree after an undisturbed change; nobody belongs to what is deleted; changes are announced |
| **Announcements** (`internal/api/v1/announcements.go`) | versions, reads, frames under construction | create, read, ack, mirror to Discord, four queries of a build | an ack of a version that was just superseded; a frame torn between two queries | the latest version counts as unread until it was given; a torn or old frame is replaced |
| **Attachment downloader** (`internal/attachment`) | attachment rows, temporary and final files, attempts and backoff in memory | poll 50 oldest pending rows, fetch, rename, mark, Shutdown | backoff keeps its place in the batch; a send marks the same row; a crash between rename and mark | a marked file is whole; the documented retry schedule; good rows arrive; Shutdown returns |
| **Accounts, tokens, auth** (`internal/account`, `internal/auth`) | accounts, bot tokens, API tokens | create, patch, set-discord, delete, mint, revoke | Discord is renamed before the row; handlers write back what they read before the call | names agree after an undisturbed change; no stale write-back; identity follows the bot token; no token outlives its account |
| **Store** (`internal/store`) | SQLite, one connection | WithTx | every query waits for the one connection | a transaction is atomic |
| Audit, config, crypto, error codes; HTTP plumbing; CLI and client; mock provider | none of their own | | | |

How they interact. HTTP handlers call the Connector, the store and the bus.
The Connector starts a pump goroutine per session, which feeds the
subscriptions; the ingester subscribes for an account and writes what it
receives to the store. Every handler or ingester transaction that changes what
an account sees is followed by `Publish`, directly or by the goroutine
`publishRoomMembers`; the bus rebuilds the account's snapshot by reading the
store and queues it to the watchers of `GET /v1/state/watch`.

`PROJECT.json` lists every component with its status, and under `hazards` the
places in the code where something can go wrong that a test would hardly reach,
with the properties that would notice.

## Modules

```
AccountStream  <-- implements --  Connector  <-- EXTENDS --  AccountLifecycle
Inbox          <-- implements --  MessageSync
                                  StateBus
                                  RoomMembership
                                  Announcements
                                  Downloader
                                  Daemon
                                  Identity
```

The modules without an arrow meet at rows and calls that the other side treats as
arbitrary: MessageSync takes joins, kicks and archives at any time,
RoomMembership has what stands behind them; Daemon sees of a request only
what rows and shutdown depend on, AccountLifecycle has the request; MessageSync and
Announcements take "published" for "shown", StateBus has what lies between.

Every module `X` that is checked has an `MCX` (values of the constants for TLC) and an
`XProofs` (theorems; AccountLifecycleProofs has the Connector's too, because the
composition's proofs go through them). Definitions marked `Mutant` are the mutated forms of the
definition that follows them; no specification uses them. They show that the
properties can fail.

### AccountStream, Connector

`AccountStream` is the promise: at most one session, every open subscription
hears only that session, and ends when it ends. `Connector` is
`connector.go` for one account (no operation relates two), one action per
section of `c.mu`:

| Model | Code |
|---|---|
| `slot`, `ist`, `done` | `instances[id]`, `instance.state`, closes of `pumpDone` |
| `pst`, `buf`, `pump` | the provider's session, `Events()`, the pump goroutine |
| `subs`, `sst`, `q`, `src` | `subs[id]`, a subscription's channel, its queue; `src` is history |
| `call` | where each calling goroutine stands between two lock sections |
| `ConnectReserve/Conflict`, `DialOk/DialErr`, `ConnectCommit/Abort` | Connect |
| `DisconnectBegin/Conflict`, `CloseProvider`, `ProviderDisconnectOk/Err`, `DisconnectRollback`, `DisconnectAwait` | Disconnect; `ShutdownSnapshot` then enters it |
| `Emit`, `PumpDeliver`, `PumpTail`, `PumpExit` | provider events, the pump's loop, tail and deferred close |

### AccountLifecycle

EXTENDS Connector with the three requests, the ingester's bookkeeping, and
crashes. Each request is a small program counter in `req`; a transaction is one
action with a failing twin (`OnlineTxFail`, `OfflineTxFail`: the row is gone, or
the client's context was cancelled). `row` is the lifecycle column, `attached`
the ingester's map entry, `runner` its goroutines. `Crash` drops all memory and
keeps `row`; `Boot` is `reconcileStaleOnlineLifecycles`. Storage itself does not
fail at boot. Graceful shutdown is in Daemon.

### Inbox, MessageSync

`Inbox` is the promise to the reader of a room: a message is stored once, the
sender's version is never replaced, it reaches an inbox once, and read stays
read. `MessageSync` is one room with every message that can appear in it:
`SendCheck`/`Post`/`SendTx` are the first transaction, the Discord call and the second
transaction of `SendMessage` (with refusals and failures), `IngestNew` an echo
of a message that is not stored yet, `IngestEcho` one of a message that is, `ReadRoom`,
`ArchiveRoom`, `Join` and `Leave` (committing transactions of InviteMember and
KickMember), `ChannelDeleted`. What a snapshot says of the room is
`Visible`; `owed` and `fanout` are the publishes a committed transaction still
owes, `shown` what was published last. Memberships are all subscribed, and the
bus is abstracted to "publishing shows the present state", which is what
StateBus is about. The gateway may lose, repeat and reorder events; the echo
of any message can come from any bot at any time.

### StateBus

`bus.go` whole, with what it competes with. `holder` is who builds under
`Bus.mu`; `pend`, `stray` and `firing` are the timer in `Bus.pending`, the armed
timers no longer in it (fire deletes whatever entry is there), and the fire
goroutines waiting for the mutex. A snapshot is a pair `lo`, `hi`: how many
commits concerning the account its first and its last query saw. A
`publishRoomMembers` goroutine (`fan`) holds the database connection from
`FanBegin` to its last `FanPublish`, and a build's queries need that connection
(`ConnFree`): the circular wait the code resolves only by two 5 s timeouts is
part of the model. `missed` is history: why a watcher was legitimately left
behind ("full" channel, or "failed" build or publish).

### RoomMembership

`rooms.go` whole, for the rows and permissions of any rooms and accounts. A request
`op[o]` is where its goroutine stands between two steps:

| Model | Code |
|---|---|
| `row`, `name`, `member`, `acct`, `bot` | `rooms`, `memberships`, `accounts` (`bot`: `bot_user_id`) as one transaction sees them |
| `chan`, `grant`, `event` | at Discord: the channel, the bots that have VIEW_CHANNEL, the channel-deleted event on its way |
| `CreateChannel`, `CreateCommit/Fail/Undo` | CreateRoom: the channel first, the compensating delete last |
| `Rename`, `Archive`, `UpdateMembership` | UpdateRoom, ArchiveRoom, UpdateMembership: rows only |
| `DeleteSnapshot`, `DeleteChannel`, `DeleteGoesOn/Refused`, `DeleteCommit/Fail` | DeleteRoom: members read before the channel goes |
| `InviteRead`, `AddMember/AddRefused`, `InviteCommit/Fail` | InviteMember: permission, then row |
| `KickRead`, `RemoveMember`, `RemoveGoesOn/Refused`, `KickCommit/Fail` | KickMember: permission, then row |
| `Publish`, `FanOut/FanFail` | the trailing publishes, directly or by `publishRoomMembers` |
| `CaptureIdentity`, `DeleteAccount` | SetDiscord and OnlineAccount as they replace `bot_user_id`, any number of times; DeleteAccount |
| `ChannelRemoved`, `IngestChannelDeleted`, `NotifyArchived`, `EventOver` | a channel deleted in Discord and `ingestChannelDeleted` |

A Discord call succeeds, is refused, or succeeds with its answer lost.
InviteMember and KickMember read the bot id in their first transaction (`uid`) and call
with it; permissions belong to bots. `settled`, `missed` and `left` are histories: which
accounts' row was last written by a request that no other call for the bot came
into (`Disturbs`), nor a change of the account's identity before or after it
(`IdentityLost`), whose change nobody will publish, which channels CreateRoom gave up.

### Announcements

`announcements.go` over its two repositories, and the four queries with which a
state frame reads them. Unread is not stored: it is the room's highest version
without a row in `announcement_reads`. `op` is a request between its transaction, its
mirror to Discord and its publishes; `due`, `build`, `shown` are the watchers to
be published, the frame being read query by query (`CountUnread`, `ListUnread`,
`CountSysUnread`, `Deliver`), and the frame delivered last. `known` is history:
versions whose content an account was given. One room: no operation relates two.

### Downloader

`downloader.go` with the other writers of the table. `stage` and `todo` follow
the goroutine through a cycle (`CycleStart`, `Skip`, `FetchStart`, `Respond`, `Copied`, `Commit`,
`MarkDownloaded`, `FetchFail`, `CycleEnd`); `temp` and `file` are the temporary and
the final file of a row, each nothing, torn, all of a short answer or all of the promised
one. The code compares the length only where the gateway gave one (`Sized`), so a
short answer may become a file without a size: what `MarkedIsWhole` says there is
that it is all of one answer and not torn. `tries` and `since` are the map of failures in memory,
lost by a `Crash`. Time passes `Poll` seconds at a `Tick`. `backoffFor` is the
code's shift in a signed word of `Word` values, against the documented schedule
`Schedule`; both double by the recursive function `Pow2`. `Arrive` (ingest), `SendMarks` (the send's own echo) and `RowDeleted`
write beside it.

### Daemon

`runServe` from the lock to the last defer, for several processes on one data
root, each of which may fail at any step or be killed:

| Model | Code |
|---|---|
| `path`, `fd`; `OpenLock`, `Flock`, `FlockRefused`, `CloseLock`, `RemoveLock` | `acquireDataRootLock` and `Release`: the path, the inode a process has open |
| `keyfile`, `mem`; `ReadKey`, `OpenKeyFile`, `WriteKeyFile` | `LoadOrCreateMasterKey`; a crash between create and write leaves a torn key |
| `stmt`, `ddl`, `recorded`; `MigrateStatement/Record/Done` | `sqlite.Open`: statements, then the row in `schema_migrations` |
| `root`; `CountAccounts`, `CreateRoot`, `IssueToken`, `PrintToken` | `bootstrapRoot` |
| `BootSweep`, `Listen`, `BootFails` | `reconcileStaleOnlineLifecycles`, the socket, errors of the boot |
| `req`, `session`, `watch` | requests that take an account on- or offline, as many at once for one account as there are slots in `Op`; state streams |
| `OnlineBegin`, `OnlineConnect/ConnectFails`, `OnlineCommit/OnlineUndo` | OnlineAccount: the Connector refuses an account with a session or a dial, nothing else keeps requests apart |
| `OfflineCheck`, `OfflineCommit/OfflineFails`, `OfflineDisconnect` | OfflineAccount: `conn.Provider` is asked, not the row |
| `Signal`, `DrainDone/DrainTimeout`, `FinalSweep`, `CloseParts`, `CloseDb` | `srv.Shutdown` under `ctx2`, the sweep under what is left of it, the defers |

`raced`, `shown`, `lost`, `stale` and `crossed` are histories of the five things that can go
wrong, so that each property says "unless exactly this happened". `crossed` are the
accounts whose online and offline requests overlapped: an offline request between the
dial and the transaction of an online one leaves the row online without a session
(the finding `NoSplitState`), until a request that has the account to itself, or a
sweep, writes the row. A Disconnect is one step here; AccountLifecycle has its parts.

### Identity

`accounts.go`, `tokens.go`, SetDiscord and the parts of the online, offline and
delete requests that touch a token or an identity. `name`, `role`, `bot`, `user` are
columns of the row, `dname` what Discord calls the bot, `tok` the API tokens,
`session` the bot an account is online as. `op` keeps what a handler read before its
call to Discord. `Verify` and `Admit` are the two reads of the auth
middleware: the second looks at the account only. `settled`, `asked`, `held`, `crossed` are histories: the last renaming
was undisturbed, what was last asked for, and whether the token was replaced
while an online request was connecting with the old one.

## What is checked

| Run | Instance (distinct states) | Shows |
|---|---|---|
| `connector` | 2 callers, 2 instances, 2 subscriptions, `Events()` of 2, channels of 1 (164,898) | `OneLiveSession`, `ConnectOwnsSlot`, `PumpDoneClosedOnce`, `OneSessionPerSub`, `SubsClosedByOwner`; refinement of AccountStream; every call returns (`EveryCallReturns`) and every consumer of a closed stream is told (`ClosedStreamReachesSubs`) |
| `lifecycle` | 2 requests, 2 instances, 2 subscriptions, symmetry (76,111) | `NoHiddenSession`; `OnlineIsServed` for requests that do not overlap |
| `lifecycle_live` | 2 requests, 1 instance, 1 subscription (9,615) | `EveryRequestEnds`; no drain goroutine leaks (`ClosedRunnerEnds`) |
| `messages` | 2 accounts (one admin), a send with a name, @everyone and a file, an outsider's message (309,037) | `MergedRecord`, `StayedGetIt`, `NoOneStale`, `RecordOnlyGrows`, refinement of Inbox, `EveryoneCatchesUp` |
| `statebus` | 1 account, 2 watchers under a cap of 1, channels of 1, 2 publishers, 2 commits (94,922) | `NobodyLeftBehind`, `FramesInOrder`, `WatchersCatchUp`, `BusIsReleased` |
| `rooms` | 1 room, 2 accounts, 2 bots, 2 requests, symmetry (4,562,526) | `ChannelsAreOwned`, `RowsMatchPermissions`, `NoMemberOfNothing`, `StaleIsPending` |
| `downloader` | 3 rows (one dead, one of unknown size, one an echo whose message may go), batches of 2, backoff up to 3 s at 2 s a tick (30,526) | `MarkedIsWhole`, `RetriesAreSpaced`, `GoodRowsArrive`, `ShutdownReturns` |
| `announcements` | 1 user who is watched, an admin or a member, 2 requests, 2 versions, 1 system announcement (919,375) | `NothingPassesUnread`, `StaleFrameIsReplaced` |
| `daemon` | 2 processes, 2 inodes, 1 account, 2 requests, 2 migrations of 2 statements, symmetry (1,552,631) | `DataRootIsExclusive`, `SchemaIsWhole`, `RootTokenIsShown`, `OnlineRowsAreServed` |
| `identity` | root and 1 account, 3 names, 2 bots, 2 API tokens, 2 requests, symmetry (573,754) | `NamesInSync`, `FieldsAsAsked`, `IdentityMatchesToken`, `NoOrphanToken` |

The type invariants and inductive invariants of the modules with proofs are not
in these configurations any more: their theorems hold for every value of the
constants. `TypeOK` can be added to the INVARIANTS of any of them before a
module is changed; so can the inductive invariant, in a module that extends the
`MCX` and has a copy of it where it is defined in `XProofs`.

Two runs end in a counterexample to what the repository says:

| Run | Claim | Counterexample |
|---|---|---|
| `lifecycle_drain` | an online account is being drained (`OnlineIsDrained`) | AttachAccount trusts the entry of a closed subscription |
| `daemon_lock` | a second daemon is refused (`OneDaemon`) | `Release` closes the lock file and then removes the path: a process that has locked the old inode in between runs beside one that creates a new file |

The other findings of `PROJECT.json` come from statements that the modules keep but no
run checks. Put the definition into the INVARIANTS (or PROPERTIES) of the
configuration in place of its properties, and TLC shows the behaviour:

| Definition, configuration | Claim | Behaviour |
|---|---|---|
| `NoSplitState`, `MCLifecycle.cfg` | OfflineAccount's order removes the split state | offline overlapping online leaves the row online with an empty slot |
| `OfflineCanReconnect`, `MCLifecycle.cfg` | after a failed Disconnect "the next online attempt will recover" | the slot stays taken, online answers Conflict |
| `DeletedHasNoSession`, `MCLifecycle.cfg` | DeleteAccount's guard leaves no unreachable session | online reserves after the guard has looked |
| `MentionsAreMembers` (PROPERTY), `MCMessageSync.cfg` | non-members are not in `message_mentions` | an account kicked between check and write |
| `PublishNeverBlocks`, `MCStateBus.cfg` | Publish "never blocks the caller" | `publishRoomMembers` in its transaction waits for a build that waits for its connection |
| `GapMeansMissed` (PROPERTY), `MCStateBus.cfg` with `MaxGet = 2` | a gap in versions means a missed frame | a `GET /v1/state` takes a version of its own |

Four more lie in the condition under which a checked property holds; without it TLC
finds the behaviour:

* `RowsMatchPermissions` speaks of pairs in `settled`. An invite and a kick that
  overlap may call Discord in one order and commit in the other; and a new
  `bot_user_id` keeps the memberships of the old one and has none of its permissions.
* `GoodRowsArrive` needs fewer dead rows than a batch holds. Fifty dead rows keep
  their places in the batch, and no younger row is ever looked at.
* `RootTokenIsShown` excepts a first boot that ended between the row and its
  print (`lost`): no later boot makes another root.
* `SchemaIsWhole` speaks of stores that were opened. A crash between a
  statement and its record makes every later boot fail.

**Why the bounds are enough.** Two callers are what an overlap takes: the slot
admits one owner, so a third caller is refused like the second. Two instances
give a generation and its successor, which is where an old pump meets a new
session. Channels of one or two reach "full". One message of each origin has
every pair of write orders; two accounts are a sender and another, one of them
an admin that may send without being a member. In `statebus` two commits make a
second publish meet each stage of the first one's timer and build, a channel of
one is full after the initial frame, the second watcher meets the cap or
replaces the first. In `rooms` two requests for two accounts are every
overlap of invite, kick, delete and archive; in `downloader` a batch of two with one dead row is
half starved, and a third row waits outside it; in `announcements` one account
suffices because no rule relates two, and two versions are a version and its
successor; in `daemon` two processes are one that leaves and one that starts,
and since each has one inode open, two inodes are the one that was removed and the
new one, and two requests are an online and the offline that comes between its steps
(`Bound`: once two daemons run on one root they handle one request in all; what
requests do there is in no property); in `identity` the second account (root) is what a name or a bot can collide
with. Counters are bounded by `Provider`, `Sub`,
`Msg`, `Fan`, `MaxData`, `MaxGet`, `MaxTries`, `MaxVersion`, `System` and `InstanceLeft` (a request starts only if an instance is
left for it: a bound of the model, not a refusal of the code). The
theorems below do not depend on these bounds.

**Fairness.** Assumed: a goroutine that can run is scheduled, a dial and a
websocket close come back, armed timers fire, and context deadlines pass (so in
StateBus someone gives up a circular wait). Not assumed: that clients send
requests, read their channel or go away, that the gateway delivers events, that
a transaction succeeds, or that the daemon crashes or comes back. Liveness is
stated of whole actions of one goroutine (weak fairness), because Go's mutexes
and channels do not starve a waiter for ever.
`EveryoneCatchesUp` and `WatchersCatchUp` also use it for the goroutines that publish.
The Downloader needs strong fairness in three places: a `select` whose
`ctx.Done()` is ready again and again takes it at last, a query or an update that is tried infinitely
often succeeds once, and so does a fetch of a file that is there.

## What is proved

TLAPS, for any finite or infinite sets of callers, providers, subscriptions,
accounts, messages, rooms, requests, processes, watchers and publishers, and any
capacities above zero. The
assumptions are the `...Assumption` of each module:
the nil value is none of the others, capacities are positive, and the constants
have their types. The Downloader also assumes that its word holds the shifts the
code lets through (`ShiftsFit`; the code caps before it shifts by 7 or more).

* **AccountLifecycleProofs**, first the Connector by itself, for any callers. The
  inductive invariant is `ConnInv`. `OneLiveSession`
  alone is not inductive: a Connect between two lock sections must still own
  its reservation (`CallOwnsSlot`), no second caller may be in there
  (`SlotUserIsAlone`), and a pump runs exactly while its generation may still
  own the slot (`PumpFollowsSlot`, `FreeSlotIsQuiet`). From it follow type correctness,
  one session, slot ownership, `pumpDone` closed once, one session per
  subscription, and that every step is a step or a stutter of AccountStream.
  Then the requests:
  `RequestsUseTheConnector` says that each of their steps is a Connector step, a
  crash or a stutter, and `PromisesHoldForRequests` repeats the promises for
  them. `LifeInv` adds that an open session the table does
  not know of has a request that will record or close it (`SessionIsSettled`,
  `WillSettle`), and that only requests inside Connect or Disconnect keep a
  slot busy. `NoHiddenSession` follows, for any number of overlapping
  requests, failed transactions and crashes.
  `OnlineIsServed` is about requests that do not overlap and needs more than its
  own two ends: `ServeInv` says at each program point of the only request
  under way which of row, slot, session, subscription and drain goroutine are
  already there (`OneByOne`, `Served`); a step of a second request ends the
  history it speaks of (`MoverIsAlone`). It also gives `LoneDeleteLeavesNothing`: a
  deleted account keeps its session only if an online request overlapped the delete.
  `NobodyWaitsInVain` is the safety half of the liveness properties: whoever waits for a call
  is inside it, and the pump a Disconnect waits for is ending.
* **MessageSyncProofs.** `SyncInv` ties the rows to where each send stands
  (`RowsFollowSends`), without which the merge is not inductive. From it: the
  merged record, delivery to members, `RecordOnlyGrows`, and the refinement of
  Inbox. `NoOneStale` is proved step by step: each commit changes `Visible` only
  for accounts it then owes a publish.
* **StateBusProofs.** `BusInv` says of the build under way what the properties
  say of finished frames: it is newer than every frame its watchers have
  (`OrderInv`), and a commit it has not seen still has a publish or a timer to
  come (`LateCommitIsPublished`). From it: `NobodyLeftBehind`, and
  `FramesInOrder` because only the end of a fire sends to a registered watcher.
  `WatchersAreCapped`: the cap is checked before the first build and the watcher
  registered after it; `WatcherCap` carries the count across, because whoever
  builds holds the mutex.
* **RoomMembershipProofs.** `IInv` is `Core` (types, where a request stands and
  what must then be true of its room: `Stands`, `OneCreator`, `RoomOrder`)
  with `CleanIsRight`, `RowsMatchPermissions` and
  `NoMemberOfNothing`. `CleanIsRight` is what makes the agreement of row and permission inductive: a
  request nobody disturbed knows, between its call and its commit, what the
  permission is, and that the bot it called for is still the account's. `ChannelsAreOwned` and `StaleIsPending` follow from the core and
  from `StaleIsServed`, step by step.
* **DownloaderProofs.** What was copied is all of one answer (`CopiedIsWhole`), whole
  when the attachment has a size; so a renamed file is (`RenamedIsWhole`), through crashes
  and the send's mark, hence `MarkedIsWhole`; and a row that is being fetched had
  waited its backoff when the cycle took it (`TakenHaveWaited`), hence
  `NoFetchInBackoff`. `RetriesAreSpaced` also needs that `backoffFor` is never
  shorter than the documented schedule (`BackoffCoversSchedule`), a fact about two
  recursive functions. The library's induction theorems cannot be used here; the proof takes the least number
  at which the claim fails (`LeastElement`, from the well-founded order of
  the naturals), which is a theorem about a set. `BatchNeverGrows` counts the batch;
  `NoCyclePassesIt` is the step behind `GoodRowsArrive`: while fewer rows are
  dead than a cycle takes, each cycle takes the oldest good one.
* **IdentityProofs.** A handler reads the row, waits for Discord and writes: `IInv` says of each
  request what it read and what is still true of it (`Stands`), what one that renames
  knows of the name at Discord if nobody disturbed it (`KnowsTheName`), and that one
  which connects with a replaced token is `crossed` (`OldTokenIsCrossed`). The run's
  four properties are its conjuncts about rows.
* **AnnouncementsProofs.** `NothingPassesUnread` from: a read of the latest version is
  recorded only for who was given it. `StaleFrameIsReplaced` from `FrameOK`:
  whatever a build has read so far is right, or the watcher is due again.
* **DaemonProofs.** `IInv` is `Lock` (`FdIsOpen`, `FlockIsExclusive`, `PathIsOpen`:
  a lock file that is open is the one the path names, until somebody races),
  `Key`, `StatementsAreRecorded`, `RequestsEnd`, `AloneIs`, `ConnectedHasSession` and
  `RowsAreServed`: only a request that has its account to itself, and then has the
  session it connected, makes a row count as served; of those that overlap one still
  has to write, or the account is `crossed`. The four
  properties of the run follow for any number of processes, accounts,
  migrations and statements.

Every safety invariant and every action property of the passing runs is a
theorem. Only model-checked: the liveness properties (fairness and ENABLED are
out of this prover's reach) and the two violations.

## Not modelled, and why

* Discord itself: a call succeeds or fails, the gateway delivers anything or nothing.
* SQL text, what a migration's statements do, JSON shapes, paging, rendering: pure data or I/O.
* The CLI and the client library: one HTTP request per command, no protocol state.
* `FetchHistory`, the gateway library and the mock provider.
* Hashing of tokens and the best-effort `last_used_at` stamp.
* Loss of whole storage, `SQLITE_FULL` and the like: a transaction fails only
  because its row is gone or its context is cancelled.
* Time. Debounce and deadlines are "may fire" and "will pass"; how long a burst
  of publishes may delay a frame is not expressed.
* What the plan below still has.

## Plan

Done, each with runs, mutants and proofs: AccountStream, Connector,
AccountLifecycle; Inbox, MessageSync; StateBus; RoomMembership; Downloader;
Announcements; Daemon; Identity.

Left, in this order:

1. **Pure algorithms**: `ParseMentions` and `safeFilename` over bounded inputs,
   against reference definitions.
2. **MessageSync with RoomMembership**: the ingester's channel-deleted against a send
   that has posted and not yet committed, with the real invites and kicks in place of `Join` and `Leave`.
3. **History**: `FetchHistory` and the room listing's paging.
