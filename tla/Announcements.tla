--------------------------- MODULE Announcements ----------------------------
(***************************************************************************)
(* internal/api/v1/announcements.go over announcement_repo.go and          *)
(* system_announcement_repo.go: announcements that must be read.  A room   *)
(* has versions, of which only the highest counts; system announcements    *)
(* are for everybody.  Unread is derived: no row says the account has      *)
(* read it.  What an account is told of it is a state frame, read from the *)
(* tables by four queries in no common transaction (aggregator.go).        *)
(*                                                                         *)
(* One room; an announcement is its version.                               *)
(***************************************************************************)
EXTENDS Naturals, FiniteSets, FiniteSetsExt

CONSTANTS
    Account,
    Admin,      \* accounts with the admin role
    Watcher,    \* accounts whose state is watched
    Op,         \* requests that run at the same time
    System,     \* system announcements that can ever be made
    MaxVersion  \* bound: versions a room gets

ASSUME AnnouncementsAssumption ==
    /\ Admin \cup Watcher \subseteq Account
    /\ IsFiniteSet(System)
    /\ MaxVersion \in Nat

VARIABLES
    room,       \* "open", "archived" or "gone"
    member,     \* accounts with a membership, subscribed or not
    ann,        \* versions of the room's announcements
    read,       \* announcement_reads: <<version, account>>
    sys,        \* system announcements
    sread,      \* system_announcement_reads: <<announcement, account>>
    op,         \* op[o]: where request o stands
    due,        \* watchers published, their frame not yet begun
    build,      \* build[a]: the frame being read
    shown,      \* shown[a]: the frame delivered last
    known,      \* known[a]: history, versions whose content a was given
    missed      \* history: watchers whose frame changed with nobody to say so

tableVars == <<room, member, ann, read, sys, sread>>
busVars   == <<due, build, shown, known>>
vars == <<tableVars, op, busVars, missed>>

Idle == [at |-> "idle", todo |-> {}]
Empty == [total |-> 0, list |-> {}, sysTotal |-> 0, sysList |-> {}]
NoBuild == [at |-> "none", frame |-> Empty]

Latest == Max(ann)
NextVersion == IF ann = {} THEN 1 ELSE Latest + 1

\* The room's highest version, for a member who has not read it.
Unread(a) ==
    IF ann # {} /\ a \in member /\ <<Latest, a>> \notin read THEN {Latest} ELSE {}

SysUnread(a) == {s \in sys : <<s, a>> \notin sread}

\* The frame a build with nothing in between would give.
Frame(a) == [total |-> Cardinality(Unread(a)), list |-> Unread(a),
             sysTotal |-> Cardinality(SysUnread(a)), sysList |-> SysUnread(a)]

FrameType == [total : {0, 1}, list : SUBSET (1..MaxVersion),
              sysTotal : 0..Cardinality(System), sysList : SUBSET System]

TypeOK ==
    /\ room   \in {"open", "archived", "gone"}
    /\ member \subseteq Account
    /\ ann    \subseteq 1..MaxVersion
    /\ read   \subseteq (1..MaxVersion) \X Account
    /\ sys    \subseteq System
    /\ sread  \subseteq System \X Account
    /\ op     \in [Op -> [at : {"idle", "mirror", "fan", "publish"},
                          todo : SUBSET Account]]
    /\ due    \subseteq Watcher
    /\ build  \in [Watcher -> [at : {"none", "count", "list", "sysCount", "sysList"},
                               frame : FrameType]]
    /\ shown  \in [Watcher -> FrameType]
    /\ known  \in [Account -> SUBSET (1..MaxVersion)]
    /\ missed \subseteq Watcher

Init ==
    /\ room = "open"
    /\ member = {}
    /\ ann = {}
    /\ read = {}
    /\ sys = {}
    /\ sread = {}
    /\ op = [o \in Op |-> Idle]
    /\ due = {}
    /\ build = [a \in Watcher |-> NoBuild]
    /\ shown = [a \in Watcher |-> Empty]
    /\ known = [a \in Account |-> {}]
    /\ missed = {}

\* Request o has committed and publishes the accounts of A.
WillPublish(o, A) == op' = [op EXCEPT ![o] = [at |-> "publish", todo |-> A]]

\* Room announcements are for members, and for administrators.
MayRead(a) == a \in member \cup Admin

----------------------------------------------------------------------------
(* Requests *)

\* The transaction: version allocated and row inserted together.
CreateAnnouncement(o, a) ==
    /\ op[o].at = "idle"
    /\ room = "open"
    /\ MayRead(a)
    /\ NextVersion <= MaxVersion
    /\ ann' = ann \cup {NextVersion}
    /\ op' = [op EXCEPT ![o] = [at |-> "mirror", todo |-> {}]]
    /\ UNCHANGED <<room, member, read, sys, sread, busVars, missed>>

\* The courtesy to readers of the channel: an ordinary message, or none when
\* the bot is offline or Discord refuses.  Nobody is published before it.
Mirror(o) ==
    /\ op[o].at = "mirror"
    /\ op' = [op EXCEPT ![o] = [at |-> "fan", todo |-> {}]]
    /\ UNCHANGED <<tableVars, busVars, missed>>

\* publishRoomMembers, in a goroutine of its own: the members of now.
FanOut(o) ==
    /\ op[o].at = "fan"
    /\ WillPublish(o, member)
    /\ UNCHANGED <<tableVars, busVars, missed>>

FanFail(o) ==
    /\ op[o].at = "fan"
    /\ missed' = missed \cup (member \cap Watcher)
    /\ op' = [op EXCEPT ![o] = Idle]
    /\ UNCHANGED <<tableVars, busVars>>

\* The client has the latest version's content.
GetAnnouncement(a) ==
    /\ room # "gone"
    /\ MayRead(a)
    /\ ann # {}
    /\ known' = [known EXCEPT ![a] = @ \cup {Latest}]
    /\ UNCHANGED <<tableVars, op, due, build, shown, missed>>

\* Mutant: the room's latest version is marked, not the one the client has.
MarkLatestRead(o, a, v) ==
    /\ op[o].at = "idle"
    /\ v \in known[a] \cap ann
    /\ MayRead(a)
    /\ read' = read \cup {<<Latest, a>>}
    /\ WillPublish(o, {a})
    /\ UNCHANGED <<room, member, ann, sys, sread, busVars, missed>>

\* By id, whatever has been posted since; again is harmless.
MarkAnnouncementRead(o, a, v) ==
    /\ op[o].at = "idle"
    /\ v \in known[a] \cap ann
    /\ MayRead(a)
    /\ read' = read \cup {<<v, a>>}
    /\ WillPublish(o, {a})
    /\ UNCHANGED <<room, member, ann, sys, sread, busVars, missed>>

\* The accounts are listed in the transaction that inserts.
CreateSystemAnnouncement(o, s) ==
    /\ op[o].at = "idle"
    /\ s \notin sys
    /\ sys' = sys \cup {s}
    /\ WillPublish(o, Account)
    /\ UNCHANGED <<room, member, ann, read, sread, busVars, missed>>

MarkSystemAnnouncementRead(o, a, s) ==
    /\ op[o].at = "idle"
    /\ s \in sys
    /\ sread' = sread \cup {<<s, a>>}
    /\ WillPublish(o, {a})
    /\ UNCHANGED <<room, member, ann, read, sys, busVars, missed>>

\* bus.Publish, bus.PublishMany: the account's frame is due, again when it
\* is being read.
Publish(o) ==
    /\ op[o].at = "publish"
    /\ due' = due \cup (op[o].todo \cap Watcher)
    /\ missed' = missed \ op[o].todo
    /\ op' = [op EXCEPT ![o] = Idle]
    /\ UNCHANGED <<tableVars, build, shown, known>>

----------------------------------------------------------------------------
(* What rooms.go does to the members.  An unsubscribed invite is not       *)
(* published, though its announcements count.                              *)

Joins(o, a, subscribed) ==
    /\ op[o].at = "idle"
    /\ room # "gone"
    /\ a \notin member
    /\ member' = member \cup {a}
    /\ IF subscribed = "yes"
       THEN WillPublish(o, {a}) /\ UNCHANGED missed
       ELSE missed' = missed \cup ({a} \cap Watcher) /\ UNCHANGED op
    /\ UNCHANGED <<room, ann, read, sys, sread, busVars>>

\* Kicked.  What the account has read stays on record.
Leaves(o, a) ==
    /\ op[o].at = "idle"
    /\ a \in member
    /\ member' = member \ {a}
    /\ WillPublish(o, {a})
    /\ UNCHANGED <<room, ann, read, sys, sread, busVars, missed>>

Archived ==
    /\ room = "open"
    /\ room' = "archived"
    /\ UNCHANGED <<member, ann, read, sys, sread, op, busVars, missed>>

\* Everything of the room goes with it; those who joined while Discord was
\* called are not in the list that is published.
RoomDeleted(o) ==
    /\ op[o].at = "idle"
    /\ room # "gone"
    /\ room' = "gone"
    /\ member' = {}
    /\ ann' = {}
    /\ read' = {}
    /\ \E A \in SUBSET member : WillPublish(o, A) /\ missed' = missed \cup ((member \ A) \cap Watcher)
    /\ UNCHANGED <<sys, sread, busVars>>

----------------------------------------------------------------------------
(* The bus goroutine of an account, and the aggregator's queries *)

Step(a, from, to, frame) ==
    /\ build[a].at = from
    /\ build' = [build EXCEPT ![a] = [at |-> to, frame |-> frame]]
    /\ UNCHANGED <<tableVars, op, shown, known, missed>>

BuildBegins(a) ==
    /\ a \in due
    /\ due' = due \ {a}
    /\ Step(a, "none", "count", Empty)

CountUnread(a) ==
    /\ Step(a, "count", "list", [build[a].frame EXCEPT !.total = Cardinality(Unread(a))])
    /\ UNCHANGED due

ListUnread(a) ==
    /\ Step(a, "list", "sysCount", [build[a].frame EXCEPT !.list = Unread(a)])
    /\ UNCHANGED due

CountSysUnread(a) ==
    /\ Step(a, "sysCount", "sysList",
            [build[a].frame EXCEPT !.sysTotal = Cardinality(SysUnread(a))])
    /\ UNCHANGED due

\* Mutant: who is published while his frame is read is forgotten.
DeliverForgets(a) ==
    LET f == [build[a].frame EXCEPT !.sysList = SysUnread(a)] IN
    /\ build[a].at = "sysList"
    /\ shown' = [shown EXCEPT ![a] = f]
    /\ known' = [known EXCEPT ![a] = @ \cup f.list]
    /\ build' = [build EXCEPT ![a] = NoBuild]
    /\ due' = due \ {a}
    /\ UNCHANGED <<tableVars, op, missed>>

\* The last query; the frame goes out.
Deliver(a) ==
    LET f == [build[a].frame EXCEPT !.sysList = SysUnread(a)] IN
    /\ build[a].at = "sysList"
    /\ shown' = [shown EXCEPT ![a] = f]
    /\ known' = [known EXCEPT ![a] = @ \cup f.list]
    /\ build' = [build EXCEPT ![a] = NoBuild]
    /\ UNCHANGED <<tableVars, op, due, missed>>

BuildStep(a) ==
    \/ BuildBegins(a) \/ CountUnread(a) \/ ListUnread(a) \/ CountSysUnread(a) \/ Deliver(a)

\* The daemon dies and starts again: watchers come back and get a first
\* frame.
Crash ==
    /\ op' = [o \in Op |-> Idle]
    /\ build' = [a \in Watcher |-> NoBuild]
    /\ due' = Watcher
    /\ missed' = {}
    /\ UNCHANGED <<tableVars, shown, known>>

----------------------------------------------------------------------------

OpStep(o) == Mirror(o) \/ FanOut(o) \/ FanFail(o) \/ Publish(o)

Request(o) ==
    \/ RoomDeleted(o)
    \/ \E s \in System : CreateSystemAnnouncement(o, s)
    \/ \E a \in Account :
          \/ CreateAnnouncement(o, a)
          \/ Leaves(o, a)
          \/ \E v \in 1..MaxVersion : MarkAnnouncementRead(o, a, v)
          \/ \E s \in System : MarkSystemAnnouncementRead(o, a, s)
          \/ \E subscribed \in {"yes", "no"} : Joins(o, a, subscribed)

Next ==
    \/ \E o \in Op : OpStep(o) \/ Request(o)
    \/ \E a \in Account : GetAnnouncement(a)
    \/ \E a \in Watcher : BuildStep(a)
    \/ Archived
    \/ Crash

Spec == Init /\ [][Next]_vars

----------------------------------------------------------------------------
(* Properties *)

\* Mandatory reading: whoever has not been given the room's latest version
\* is told it is unread by every frame built from now on, also when he
\* acknowledges an older version while the newer is being posted.
NothingPassesUnread ==
    \A a \in member : ann # {} /\ Latest \notin known[a] => Unread(a) = {Latest}

\* Somebody is about to make the account's frame be read again, or it is a
\* case in which nobody will: unsubscribed invite, failed
\* publishRoomMembers, joined during DeleteRoom.
FrameIsDue(a) ==
    \/ a \in due \cup missed
    \/ \E o \in Op : a \in op[o].todo
    \/ a \in member /\ \E o \in Op : op[o].at \in {"mirror", "fan"}

\* What the build has read so far is what it would read now.
BuildIsRight(a) ==
    LET at == build[a].at  f == build[a].frame IN
    /\ at \in {"list", "sysCount", "sysList"} => f.total = Cardinality(Unread(a))
    /\ at \in {"sysCount", "sysList"} => f.list = Unread(a)
    /\ at = "sysList" => f.sysTotal = Cardinality(SysUnread(a))

\* A frame that is out of date, or torn (a total and a list that disagree,
\* because a commit came between two of the queries), is replaced: it is
\* due, or it is being read and right so far.
StaleFrameIsReplaced ==
    \A a \in Watcher :
        \/ FrameIsDue(a)
        \/ IF build[a].at = "none" THEN shown[a] = Frame(a) ELSE BuildIsRight(a)
=============================================================================
