------------------------------ MODULE StateBus ------------------------------
(***************************************************************************)
(* internal/state/bus.go: who changes an account's data asks for it to be  *)
(* published; a debounce timer then rebuilds the account's snapshot and    *)
(* queues it to its watchers.  Building holds the bus mutex and reads the  *)
(* tables through the only database connection; publishRoomMembers         *)
(* (internal/api/v1/messages.go) holds that connection while it publishes. *)
(*                                                                         *)
(* The data of an account is a counter of the commits that concern it.  A  *)
(* snapshot is many queries; its first and its last one bound what the     *)
(* others see.  A lock section of the mutex in which nothing waits is one  *)
(* step.  A query fails only by its context: the storage does not.         *)
(***************************************************************************)
EXTENDS Naturals, FiniteSets

CONSTANTS
    Account,
    Sub,        \* watchers that can ever subscribe
    Of,         \* Of[s]: the account s watches
    Fan,        \* publishRoomMembers goroutines that can ever run
    Member,     \* the members of the room they publish (one without members
                \* publishes nobody)
    MaxSubs,    \* MaxSubscribersPerAccount      (8 in the code)
    Buf,        \* capacity of a watcher's channel (8 in the code)
    MaxData,    \* bound: commits per account
    MaxGet,     \* bound: GET /v1/state takes no version above it
    None

ASSUME BusAssumption ==
    /\ Of \in [Sub -> Account]
    /\ Member \subseteq Account /\ Member # {}
    /\ None \notin Account \cup Sub
    /\ Account \cap Sub = {}
    /\ Buf \in Nat \ {0}
    /\ MaxSubs \in Nat \ {0}

VARIABLES
    data,       \* data[a]: commits that concern account a
    owed,       \* owed[a]: requests that have committed and will call Publish(a)
    fan,        \* fan[f]: where goroutine f stands, and whom it has to publish
    version,    \* Bus.version
    holder,     \* who builds under Bus.mu: an account (its fire), a watcher or None
    build,      \* what that build has: its version and its first query's answer
    pend,       \* pend[a]: Bus.pending, no timer or one that is armed or fired
    stray,      \* stray[a]: armed timers of a that are not in Bus.pending
    firing,     \* firing[a]: fire goroutines of a that wait for the mutex
    watch,      \* watch[s]: "new", "open" or "closed"
    queue,      \* queue[s]: frames waiting in its channel
    last,       \* last[s]: the frame queued last
    missed      \* missed[s]: history, what kept the newest state from s, or "no"

dataVars  == <<data, owed>>
timerVars == <<pend, stray, firing>>
watchVars == <<watch, queue, last, missed>>
vars == <<dataVars, timerVars, watchVars, fan, version, holder, build>>

NoBuild == [v |-> 0, lo |-> None]

\* Watchers of a that are in Bus.subs
Subs(a) == {s \in Sub : Of[s] = a /\ watch[s] = "open"}

\* The connection is free for a query.
ConnFree == \A f \in Fan : fan[f].at # "holding"

TypeOK ==
    /\ data    \in [Account -> Nat]
    /\ owed    \in [Account -> Nat]
    /\ fan     \in [Fan -> [at : {"idle", "due", "holding", "late"}, todo : SUBSET Account]]
    /\ version \in Nat
    /\ holder  \in Account \cup Sub \cup {None}
    /\ build   \in [v : Nat, lo : Nat \cup {None}]
    /\ pend    \in [Account -> {"none", "armed", "fired"}]
    /\ stray   \in [Account -> Nat]
    /\ firing  \in [Account -> Nat]
    /\ watch   \in [Sub -> {"new", "open", "closed"}]
    /\ queue   \in [Sub -> 0..Buf]
    /\ last    \in [Sub -> [v : Nat, lo : Nat, hi : Nat]]
    /\ missed  \in [Sub -> {"no", "full", "failed"}]

Init ==
    /\ data = [a \in Account |-> 0]
    /\ owed = [a \in Account |-> 0]
    /\ fan = [f \in Fan |-> [at |-> "idle", todo |-> {}]]
    /\ version = 0
    /\ holder = None
    /\ build = NoBuild
    /\ pend = [a \in Account |-> "none"]
    /\ stray = [a \in Account |-> 0]
    /\ firing = [a \in Account |-> 0]
    /\ watch = [s \in Sub |-> "new"]
    /\ queue = [s \in Sub |-> 0]
    /\ last = [s \in Sub |-> [v |-> 0, lo |-> 0, hi |-> 0]]
    /\ missed = [s \in Sub |-> "no"]

----------------------------------------------------------------------------
(* Commits, and who publishes them *)

\* Mutant: the armed timer is stopped and not reset.
PublishStops(a) ==
    /\ pend' = [pend EXCEPT ![a] = CASE Subs(a) = {}  -> @
                                    [] @ = "armed"   -> "none"
                                    [] OTHER         -> "armed"]
    /\ UNCHANGED <<stray, firing>>

\* Bus.Publish, holding the mutex: nothing without a watcher; an armed timer
\* is reset; otherwise (no timer, or one that has fired) a new one is armed.
PublishLocked(a) ==
    /\ pend' = [pend EXCEPT ![a] = IF Subs(a) = {} THEN @ ELSE "armed"]
    /\ UNCHANGED <<stray, firing>>

\* A request commits and will publish a.
Commit(a) ==
    /\ ConnFree
    /\ data[a] < MaxData
    /\ data' = [data EXCEPT ![a] = @ + 1]
    /\ owed' = [owed EXCEPT ![a] = @ + 1]
    /\ UNCHANGED <<fan, version, holder, build, timerVars, watchVars>>

\* Mutant: so as never to block, Publish gives up when the mutex is taken.
TryPublish(a) ==
    /\ owed[a] > 0
    /\ IF holder = None THEN PublishLocked(a) ELSE UNCHANGED timerVars
    /\ owed' = [owed EXCEPT ![a] = @ - 1]
    /\ UNCHANGED <<data, fan, version, holder, build, watchVars>>

Publish(a) ==
    /\ owed[a] > 0
    /\ holder = None
    /\ PublishLocked(a)
    /\ owed' = [owed EXCEPT ![a] = @ - 1]
    /\ UNCHANGED <<data, fan, version, holder, build, watchVars>>

\* A request commits a change for every member of the room and starts
\* publishRoomMembers.
CommitRoom(f) ==
    /\ ConnFree
    /\ fan[f].at = "idle"
    /\ \A a \in Member : data[a] < MaxData
    /\ data' = [a \in Account |-> IF a \in Member THEN data[a] + 1 ELSE data[a]]
    /\ fan' = [fan EXCEPT ![f] = [at |-> "due", todo |-> Member]]
    /\ UNCHANGED <<owed, version, holder, build, timerVars, watchVars>>

\* Its transaction takes the connection and lists the members.
FanBegin(f) ==
    /\ fan[f].at = "due"
    /\ ConnFree
    /\ fan' = [fan EXCEPT ![f].at = "holding"]
    /\ UNCHANGED <<dataVars, version, holder, build, timerVars, watchVars>>

\* PublishMany, one account after the other, inside the transaction; it ends
\* with the last one.
FanPublish(f) ==
    /\ fan[f].at \in {"holding", "late"}
    /\ holder = None
    /\ \E a \in fan[f].todo :
        /\ PublishLocked(a)
        /\ fan' = [fan EXCEPT ![f] =
             [at |-> IF @.todo = {a} THEN "idle" ELSE @.at, todo |-> @.todo \ {a}]]
    /\ UNCHANGED <<dataVars, version, holder, build, watchVars>>

\* Mutant: publishRoomMembers runs without a deadline.
FanWaits(f) == fan[f].at = "holding" /\ FALSE /\ UNCHANGED vars

\* Its 5 s are over while it waits for the mutex: database/sql rolls the
\* transaction back and frees the connection; PublishMany goes on.
FanTimeout(f) ==
    /\ fan[f].at = "holding"
    /\ holder # None
    /\ fan' = [fan EXCEPT ![f].at = "late"]
    /\ UNCHANGED <<dataVars, version, holder, build, timerVars, watchVars>>

\* Its 5 s are over before it gets the connection: nobody is published.
FanFail(f) ==
    /\ fan[f].at = "due"
    /\ ~ConnFree
    /\ fan' = [fan EXCEPT ![f] = [at |-> "idle", todo |-> {}]]
    /\ missed' = [s \in Sub |-> IF Of[s] \in Member THEN "failed" ELSE missed[s]]
    /\ UNCHANGED <<dataVars, version, holder, build, timerVars, watch, queue, last>>

----------------------------------------------------------------------------
(* Timers and fire *)

TimerFires(a) ==
    /\ \/ pend[a] = "armed" /\ pend' = [pend EXCEPT ![a] = "fired"] /\ UNCHANGED stray
       \/ stray[a] > 0 /\ stray' = [stray EXCEPT ![a] = @ - 1] /\ UNCHANGED pend
    /\ firing' = [firing EXCEPT ![a] = @ + 1]
    /\ UNCHANGED <<dataVars, fan, version, holder, build, watchVars>>

\* Mutant: the version is read and not taken.
SameVersion == version

\* buildNowLocked: the version of the next build
NextVersion == version + 1

\* fire takes the mutex and deletes whatever timer is pending, even one that
\* was armed after its own; without a watcher it returns.
FireStart(a) ==
    /\ firing[a] > 0
    /\ holder = None
    /\ firing' = [firing EXCEPT ![a] = @ - 1]
    /\ stray' = [stray EXCEPT ![a] = IF pend[a] = "armed" THEN @ + 1 ELSE @]
    /\ pend' = [pend EXCEPT ![a] = "none"]
    /\ IF Subs(a) = {}
         THEN UNCHANGED <<version, holder, build>>
         ELSE /\ version' = NextVersion
              /\ holder' = a
              /\ build' = [v |-> NextVersion, lo |-> None]
    /\ UNCHANGED <<dataVars, fan, watchVars>>

\* The account whose snapshot is being built
Target == IF holder \in Sub THEN Of[holder] ELSE holder

\* The first query of a build
BuildFirst ==
    /\ holder # None
    /\ build.lo = None
    /\ ConnFree
    /\ build' = [build EXCEPT !.lo = data[Target]]
    /\ UNCHANGED <<dataVars, fan, version, holder, timerVars, watchVars>>

\* The last query has answered.
Frame == [v |-> build.v, lo |-> build.lo, hi |-> data[Target]]
BuildLast == holder # None /\ build.lo # None /\ ConnFree

\* The watcher's channel has room.
CanQueue(s) == queue[s] < Buf

\* fire queues the frame to the account's watchers; a full channel drops it.
FireSend ==
    LET got == {s \in Subs(holder) : CanQueue(s)}
    IN  /\ holder \in Account
        /\ BuildLast
        /\ holder' = None
        /\ build' = NoBuild
        /\ queue' = [s \in Sub |-> IF s \in got THEN queue[s] + 1 ELSE queue[s]]
        /\ last' = [s \in Sub |-> IF s \in got THEN Frame ELSE last[s]]
        /\ missed' = [s \in Sub |->
             IF s \notin Subs(holder) \/ (missed[s] = "failed" /\ build.lo # data[holder])
             THEN missed[s]
             ELSE IF s \in got THEN "no" ELSE "full"]
        /\ UNCHANGED <<dataVars, fan, version, timerVars, watch>>

\* The 5 s of the build are over while it waits for the connection.
FireTimeout ==
    /\ holder \in Account
    /\ ~ConnFree
    /\ holder' = None
    /\ build' = NoBuild
    /\ missed' = [s \in Sub |-> IF s \in Subs(holder) THEN "failed" ELSE missed[s]]
    /\ UNCHANGED <<dataVars, fan, version, timerVars, watch, queue, last>>

----------------------------------------------------------------------------
(* Watchers *)

\* Subscribe takes the mutex, is refused at the cap, and builds.
SubscribeStart(s) ==
    /\ watch[s] = "new"
    /\ holder = None
    /\ IF Cardinality(Subs(Of[s])) >= MaxSubs
         THEN watch' = [watch EXCEPT ![s] = "closed"] /\ UNCHANGED <<version, holder, build>>
         ELSE /\ version' = NextVersion
              /\ holder' = s
              /\ build' = [v |-> NextVersion, lo |-> None]
              /\ UNCHANGED watch
    /\ UNCHANGED <<dataVars, fan, timerVars, queue, last, missed>>

\* The initial frame is queued and the watcher registered.
SubscribeDone ==
    /\ holder \in Sub
    /\ BuildLast
    /\ holder' = None
    /\ build' = NoBuild
    /\ watch' = [watch EXCEPT ![holder] = "open"]
    /\ queue' = [queue EXCEPT ![holder] = 1]
    /\ last' = [last EXCEPT ![holder] = Frame]
    /\ missed' = [missed EXCEPT ![holder] = IF build.lo = data[Target] THEN "no" ELSE @]
    /\ UNCHANGED <<dataVars, fan, version, timerVars>>

\* The client goes away during the initial build.
SubscribeFail ==
    /\ holder \in Sub
    /\ holder' = None
    /\ build' = NoBuild
    /\ watch' = [watch EXCEPT ![holder] = "closed"]
    /\ UNCHANGED <<dataVars, fan, version, timerVars, queue, last, missed>>

Receive(s) ==
    /\ queue[s] > 0
    /\ queue' = [queue EXCEPT ![s] = @ - 1]
    /\ UNCHANGED <<dataVars, fan, version, holder, build, timerVars, watch, last, missed>>

Unsubscribe(s) ==
    /\ holder = None
    /\ watch[s] = "open"
    /\ watch' = [watch EXCEPT ![s] = "closed"]
    /\ UNCHANGED <<dataVars, fan, version, holder, build, timerVars, queue, last, missed>>

\* Bus.Shutdown: the timers in Bus.pending are stopped (one that has fired
\* is not), all channels are closed.
Shutdown ==
    /\ holder = None
    /\ pend' = [a \in Account |-> "none"]
    /\ watch' = [s \in Sub |-> IF watch[s] = "open" THEN "closed" ELSE watch[s]]
    /\ UNCHANGED <<dataVars, fan, version, holder, build, stray, firing, queue, last, missed>>

\* GET /v1/state: BuildNow takes a version, without the mutex.
GetState ==
    /\ version < MaxGet
    /\ version' = version + 1
    /\ UNCHANGED <<dataVars, fan, holder, build, timerVars, watchVars>>

Next ==
    \/ \E a \in Account : Commit(a) \/ Publish(a) \/ TimerFires(a) \/ FireStart(a)
    \/ \E f \in Fan : CommitRoom(f) \/ FanBegin(f) \/ FanPublish(f) \/ FanTimeout(f)
                      \/ FanFail(f)
    \/ BuildFirst \/ FireSend \/ FireTimeout \/ SubscribeDone \/ SubscribeFail
    \/ \E s \in Sub : SubscribeStart(s) \/ Receive(s) \/ Unsubscribe(s)
    \/ Shutdown \/ GetState

Spec == Init /\ [][Next]_vars

\* Goroutines that can run do, timers fire and deadlines pass.  Watchers need
\* not read, and nobody has to commit, subscribe or leave.
LiveSpec ==
    /\ Spec
    /\ \A a \in Account : WF_vars(Publish(a)) /\ WF_vars(TimerFires(a)) /\ WF_vars(FireStart(a))
    /\ \A f \in Fan : WF_vars(FanBegin(f)) /\ WF_vars(FanPublish(f)) /\ WF_vars(FanTimeout(f))
    /\ WF_vars(BuildFirst) /\ WF_vars(FireSend \/ SubscribeDone) /\ WF_vars(FireTimeout)

----------------------------------------------------------------------------
(* Properties *)

\* Somebody is still going to publish a, or a timer of a is still to run.
PublishComing(a) == owed[a] > 0 \/ \E f \in Fan : a \in fan[f].todo
FireComing(a) == pend[a] = "armed" \/ stray[a] > 0 \/ firing[a] > 0

\* The build of a that is running will see everything committed so far.
BuildSees(a) == holder = a /\ build.lo \in {None, data[a]}

\* No lost publish: a watcher has been queued all that is committed, or a
\* publish, timer or build that will see the rest is on its way, or it was
\* too slow, or the build or the publish timed out.  Publishes that find no
\* watcher, meet a fired timer, or come during the initial build lose nothing.
NobodyLeftBehind ==
    \A s \in Sub : watch[s] = "open" =>
        \/ last[s].lo = data[Of[s]]
        \/ PublishComing(Of[s]) \/ FireComing(Of[s]) \/ BuildSees(Of[s])
        \/ missed[s] # "no"

\* A frame's version has been taken and its queries ran in order; the frame
\* being built is newer, in version and in what it read, than every frame its
\* account's watchers have.
OrderInv ==
    /\ \A s \in Sub : watch[s] = "open" =>
         last[s].v <= version /\ last[s].lo <= last[s].hi /\ last[s].hi <= data[Of[s]]
    /\ holder \in Sub => watch[holder] = "new"
    /\ holder # None =>
         /\ build.v <= version
         /\ build.lo # None => build.lo <= data[Target]
         /\ \A s \in Subs(Target) :
              last[s].v < build.v /\ (build.lo # None => last[s].hi <= build.lo)

\* A commit that the running build has not seen is still going to be
\* published, or that publish timed out.
LateCommitIsPublished ==
    /\ \A f \in Fan : fan[f].todo \subseteq Member
    /\ \A a \in Account : holder = a /\ build.lo \notin {None, data[a]} =>
         PublishComing(a) \/ FireComing(a) \/ \A s \in Subs(a) : missed[s] = "failed"
    /\ holder \in Sub /\ build.lo \notin {None, data[Of[holder]]} =>
         PublishComing(Of[holder]) \/ missed[holder] = "failed"

\* The inductive invariant.
BusInv == TypeOK /\ OrderInv /\ LateCommitIsPublished /\ NobodyLeftBehind

InOrder(s) ==
    watch[s] = "open" /\ last'[s] # last[s] =>
        last'[s].v > last[s].v /\ last'[s].lo >= last[s].hi

\* "version order matches send order" (bus.go): a watcher's frames come with
\* rising versions, and every query of a frame sees at least what every
\* query of the frame before saw.
FramesInOrder == [][\A s \in Sub : InOrder(s)]_vars

\* A watcher that is not too slow is brought up to date, as long as no build
\* for it fails.
WatchersCatchUp ==
    \A s \in Sub : watch[s] = "open" ~>
        last[s].lo = data[Of[s]] \/ watch[s] = "closed" \/ missed[s] # "no"

\* Nobody holds the bus mutex for ever.
BusIsReleased == holder # None ~> holder = None

(* Claims of comments and documents that the code does not keep *)

\* "Safe to call from any goroutine; never blocks the caller" (Publish): no
\* Publish waits for a build that waits for what its caller holds.
PublishNeverBlocks ==
    ~ \E f \in Fan : fan[f].at = "holding" /\ fan[f].todo # {} /\ holder # None

\* docs/USAGE-USER.md:80: a frame more than one version after the one before
\* means that a frame was missed.
GapMeansMissed ==
    [][\A s \in Sub : watch[s] = "open" /\ last'[s].v > last[s].v + 1 => missed[s] # "no"]_vars
=============================================================================
