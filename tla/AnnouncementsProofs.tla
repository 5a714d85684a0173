------------------------ MODULE AnnouncementsProofs -------------------------
(***************************************************************************)
(* Announcements for every number of accounts, requests, versions and      *)
(* system announcements: no latest version passes an account unread, and a *)
(* state frame that is out of date or torn is always replaced.             *)
(***************************************************************************)
EXTENDS Announcements, FiniteSetTheorems, TLAPS

\* Versions are given without gaps, so the highest exists and the next is new.
Gapless == \E n \in 0..MaxVersion : ann = 1..n

\* Nobody acknowledges what he was not given.
ReadIsKnown == \A a \in Account, v \in 1..MaxVersion : <<v, a>> \in read => v \in known[a]

\* Only a request that publishes has accounts to publish.
TodoIsPublished == \A o \in Op : op[o].at # "publish" => op[o].todo = {}

----------------------------------------------------------------------------
(* Values *)

LEMMA LatestValue ==
    ASSUME NEW n \in Nat \ {0}, ann = 1..n
    PROVE  Latest = n
<1>1. n \in 1..n /\ \A m \in 1..n : n >= m
  OBVIOUS
<1>2. \A x \in 1..n : (\A m \in 1..n : x >= m) => x = n
  BY <1>1
<1> QED BY <1>1, <1>2 DEF Latest, Max

LEMMA NextValue ==
    ASSUME NEW n \in Nat, ann = 1..n
    PROVE  NextVersion = n + 1
<1>1. CASE n = 0
  BY <1>1 DEF NextVersion
<1>2. CASE n # 0
  <2>1. 1 \in 1..n
    BY <1>2
  <2> QED BY <1>2, <2>1, LatestValue DEF NextVersion
<1> QED BY <1>1, <1>2

LEMMA LatestType == Gapless /\ ann # {} => Latest \in 1..MaxVersion /\ Latest \in ann
<1> SUFFICES ASSUME Gapless, ann # {} PROVE Latest \in 1..MaxVersion /\ Latest \in ann
  OBVIOUS
<1>1. PICK n \in 0..MaxVersion : ann = 1..n
  BY DEF Gapless
<1>2. n # 0
  BY <1>1
<1>3. Latest = n
  BY <1>1, <1>2, LatestValue
<1> QED BY <1>1, <1>2, <1>3, AnnouncementsAssumption

LEMMA UnreadType ==
    ASSUME TypeOK, Gapless, NEW a
    PROVE  Unread(a) \subseteq 1..MaxVersion /\ Cardinality(Unread(a)) \in {0, 1}
<1>1. CASE Unread(a) = {}
  BY <1>1, FS_EmptySet
<1>2. CASE Unread(a) # {}
  <2>1. Unread(a) = {Latest} /\ Latest \in 1..MaxVersion
    BY <1>2, LatestType DEF Unread
  <2>2. Cardinality({Latest}) = 1
    BY FS_Singleton
  <2> QED BY <2>1, <2>2
<1> QED BY <1>1, <1>2

LEMMA SysUnreadType ==
    ASSUME TypeOK, NEW a
    PROVE  SysUnread(a) \subseteq System
           /\ Cardinality(SysUnread(a)) \in 0..Cardinality(System)
<1>1. SysUnread(a) \subseteq System
  BY DEF SysUnread, TypeOK
<1>2. IsFiniteSet(SysUnread(a)) /\ Cardinality(SysUnread(a)) <= Cardinality(System)
  BY <1>1, FS_Subset, AnnouncementsAssumption
<1>3. Cardinality(SysUnread(a)) \in Nat /\ Cardinality(System) \in Nat
  BY <1>2, FS_CardinalityType, AnnouncementsAssumption
<1> QED BY <1>1, <1>2, <1>3

LEMMA EmptyType == Empty \in FrameType
<1>1. Cardinality(System) \in Nat
  BY FS_CardinalityType, AnnouncementsAssumption
<1> QED BY <1>1 DEF Empty, FrameType

----------------------------------------------------------------------------
(* Types and the record of acknowledgements *)

Core == TypeOK /\ Gapless /\ ReadIsKnown /\ TodoIsPublished

LEMMA CoreInit == Init => Core
<1> SUFFICES ASSUME Init PROVE Core
  OBVIOUS
<1>1. TypeOK
  BY EmptyType, AnnouncementsAssumption DEF Init, TypeOK, Idle, NoBuild
<1>2. Gapless
  <2>1. 0 \in 0..MaxVersion /\ {} = 1..0
    BY AnnouncementsAssumption
  <2> QED BY <2>1 DEF Init, Gapless
<1>3. ReadIsKnown /\ TodoIsPublished
  BY DEF Init, ReadIsKnown, TodoIsPublished, Idle
<1> QED BY <1>1, <1>2, <1>3 DEF Core

LEMMA CoreOp == ASSUME Core, NEW o \in Op, OpStep(o) PROVE Core'
<1> USE DEF Core, TypeOK, Gapless, ReadIsKnown, TodoIsPublished, tableVars, busVars
<1>1. CASE Mirror(o)
  BY <1>1 DEF Mirror
<1>2. CASE FanOut(o)
  BY <1>2 DEF FanOut, WillPublish
<1>3. CASE FanFail(o)
  BY <1>3 DEF FanFail, Idle
<1>4. CASE Publish(o)
  BY <1>4 DEF Publish, Idle
<1> QED BY <1>1, <1>2, <1>3, <1>4 DEF OpStep

LEMMA CoreCreate ==
    ASSUME Core, NEW o \in Op, NEW a \in Account, CreateAnnouncement(o, a)
    PROVE  Core'
<1>1. PICK n \in 0..MaxVersion : ann = 1..n
  BY DEF Core, Gapless
<1>2. NextVersion = n + 1
  BY <1>1, NextValue, AnnouncementsAssumption
<1>3. n + 1 \in 0..MaxVersion /\ ann' = 1..(n + 1)
  BY <1>1, <1>2, AnnouncementsAssumption DEF CreateAnnouncement
<1>4. Gapless'
  BY <1>3, AnnouncementsAssumption DEF Gapless
<1>5. ann' \subseteq 1..MaxVersion
  BY <1>3, AnnouncementsAssumption
<1> QED BY <1>4, <1>5 DEF Core, CreateAnnouncement, TypeOK, ReadIsKnown, TodoIsPublished,
                       tableVars, busVars

LEMMA CoreRequest == ASSUME Core, NEW o \in Op, Request(o) PROVE Core'
<1>1. CASE RoomDeleted(o)
  <2>1. Gapless'
    <3>1. 0 \in 0..MaxVersion /\ {} = 1..0
      BY AnnouncementsAssumption
    <3> QED BY <1>1, <3>1 DEF RoomDeleted, Gapless
  <2> QED BY <1>1, <2>1 DEF RoomDeleted, WillPublish, Core, TypeOK, ReadIsKnown,
                           TodoIsPublished, busVars
<1> USE DEF Core, TypeOK, Gapless, ReadIsKnown, TodoIsPublished, tableVars, busVars
<1>2. ASSUME NEW s \in System, CreateSystemAnnouncement(o, s) PROVE Core'
  BY <1>2 DEF CreateSystemAnnouncement, WillPublish
<1>3. ASSUME NEW a \in Account, CreateAnnouncement(o, a) PROVE Core'
  BY <1>3, CoreCreate
<1>4. ASSUME NEW a \in Account, Leaves(o, a) PROVE Core'
  BY <1>4 DEF Leaves, WillPublish
<1>5. ASSUME NEW a \in Account, NEW v \in 1..MaxVersion, MarkAnnouncementRead(o, a, v)
      PROVE  Core'
  <2>1. ReadIsKnown'
    BY <1>5 DEF MarkAnnouncementRead
  <2> QED BY <1>5, <2>1 DEF MarkAnnouncementRead, WillPublish
<1>6. ASSUME NEW a \in Account, NEW s \in System, MarkSystemAnnouncementRead(o, a, s)
      PROVE  Core'
  BY <1>6 DEF MarkSystemAnnouncementRead, WillPublish
<1>7. ASSUME NEW a \in Account, NEW subscribed, Joins(o, a, subscribed) PROVE Core'
  BY <1>7 DEF Joins, WillPublish
<1> QED BY <1>1, <1>2, <1>3, <1>4, <1>5, <1>6, <1>7 DEF Request

LEMMA CoreBuild == ASSUME Core, NEW a \in Watcher, BuildStep(a) PROVE Core'
<1> USE DEF Core, Gapless, ReadIsKnown, TodoIsPublished, tableVars, busVars
<1>1. Unread(a) \subseteq 1..MaxVersion /\ Cardinality(Unread(a)) \in {0, 1}
  BY UnreadType
<1>2. SysUnread(a) \subseteq System /\ Cardinality(SysUnread(a)) \in 0..Cardinality(System)
  BY SysUnreadType
<1>3. build[a].frame \in FrameType /\ a \in Account
  BY AnnouncementsAssumption DEF TypeOK
<1>4. CASE BuildBegins(a)
  BY <1>4, EmptyType DEF BuildBegins, Step, TypeOK
<1>5. CASE CountUnread(a)
  <2>1. [build[a].frame EXCEPT !.total = Cardinality(Unread(a))] \in FrameType
    BY <1>1, <1>3 DEF FrameType
  <2> QED BY <1>5, <2>1 DEF CountUnread, Step, TypeOK
<1>6. CASE ListUnread(a)
  <2>1. [build[a].frame EXCEPT !.list = Unread(a)] \in FrameType
    BY <1>1, <1>3 DEF FrameType
  <2> QED BY <1>6, <2>1 DEF ListUnread, Step, TypeOK
<1>7. CASE CountSysUnread(a)
  <2>1. [build[a].frame EXCEPT !.sysTotal = Cardinality(SysUnread(a))] \in FrameType
    BY <1>2, <1>3 DEF FrameType
  <2> QED BY <1>7, <2>1 DEF CountSysUnread, Step, TypeOK
<1>8. CASE Deliver(a)
  <2> DEFINE f == [build[a].frame EXCEPT !.sysList = SysUnread(a)]
  <2>1. f \in FrameType /\ f.list \subseteq 1..MaxVersion
    BY <1>2, <1>3 DEF FrameType
  <2>2. /\ shown' = [shown EXCEPT ![a] = f]
        /\ known' = [known EXCEPT ![a] = @ \cup f.list]
        /\ build' = [build EXCEPT ![a] = NoBuild]
        /\ UNCHANGED <<tableVars, op, due, missed>>
    BY <1>8 DEF Deliver
  <2> HIDE DEF f
  <2>3. TypeOK'
    BY <1>3, <2>1, <2>2, EmptyType DEF TypeOK, NoBuild
  <2>4. ReadIsKnown'
    BY <1>3, <2>2 DEF TypeOK
  <2> QED BY <2>2, <2>3, <2>4
<1> QED BY <1>4, <1>5, <1>6, <1>7, <1>8 DEF BuildStep

LEMMA CoreNext == Core /\ [Next]_vars => Core'
<1> SUFFICES ASSUME Core, [Next]_vars PROVE Core'
  OBVIOUS
<1> USE DEF tableVars, busVars
<1>1. ASSUME NEW a \in Account, GetAnnouncement(a) PROVE Core'
  <2>1. Latest \in 1..MaxVersion
    BY <1>1, LatestType DEF GetAnnouncement, Core
  <2> QED BY <1>1, <2>1 DEF GetAnnouncement, Core, TypeOK, Gapless, ReadIsKnown, TodoIsPublished
<1>2. CASE Archived
  BY <1>2 DEF Archived, Core, TypeOK, Gapless, ReadIsKnown, TodoIsPublished
<1>3. CASE Crash
  BY <1>3, EmptyType DEF Crash, Core, TypeOK, Gapless, ReadIsKnown, TodoIsPublished, Idle, NoBuild
<1>4. CASE UNCHANGED vars
  BY <1>4 DEF vars, Core, TypeOK, Gapless, ReadIsKnown, TodoIsPublished
<1> QED BY <1>1, <1>2, <1>3, <1>4, CoreOp, CoreRequest, CoreBuild DEF Next

\* Type correctness: every variable keeps its type.
THEOREM TypeCorrect == Spec => []TypeOK
<1>1. Core => TypeOK
  BY DEF Core
<1> QED BY <1>1, CoreInit, CoreNext, PTL DEF Spec

\* No latest version passes an account unread, whichever order posting,
\* reading, acknowledging, leaving and joining again come in.
THEOREM MandatoryReading == Spec => []NothingPassesUnread
<1>1. Core => NothingPassesUnread
  <2> SUFFICES ASSUME Core, NEW a \in member, ann # {}, Latest \notin known[a]
               PROVE  Unread(a) = {Latest}
    BY DEF NothingPassesUnread
  <2>1. Latest \in 1..MaxVersion /\ a \in Account
    BY LatestType DEF Core, TypeOK
  <2>2. <<Latest, a>> \notin read
    BY <2>1 DEF Core, ReadIsKnown
  <2> QED BY <2>2 DEF Unread
<1> QED BY <1>1, CoreInit, CoreNext, PTL DEF Spec

----------------------------------------------------------------------------
(* Frames *)

\* The part of StaleFrameIsReplaced about one watcher.
FrameOK(a) ==
    \/ FrameIsDue(a)
    \/ IF build[a].at = "none" THEN shown[a] = Frame(a) ELSE BuildIsRight(a)

\* A step that leaves a watcher's bus goroutine alone keeps his frame right
\* when it keeps what he has unread, and keeps it due.
LEMMA FrameKept ==
    ASSUME Core, NEW a \in Watcher, FrameOK(a),
           build' = build, shown' = shown,
           Unread(a)' = Unread(a), SysUnread(a)' = SysUnread(a),
           FrameIsDue(a) => FrameIsDue(a)'
    PROVE  FrameOK(a)'
BY DEF FrameOK, Frame, BuildIsRight

LEMMA FrameOp ==
    ASSUME Core, NEW a \in Watcher, FrameOK(a), NEW o \in Op, OpStep(o)
    PROVE  FrameOK(a)'
<1>1. /\ build' = build /\ shown' = shown
      /\ Unread(a)' = Unread(a) /\ SysUnread(a)' = SysUnread(a)
  BY DEF OpStep, Mirror, FanOut, FanFail, Publish, Unread, SysUnread, Latest,
         tableVars, busVars
<1>2. FrameIsDue(a) => FrameIsDue(a)'
  <2> USE DEF FrameIsDue, Core, TypeOK, TodoIsPublished, tableVars, busVars
  <2>1. CASE Mirror(o)
    BY <2>1 DEF Mirror
  <2>2. CASE FanOut(o)
    BY <2>2 DEF FanOut, WillPublish
  <2>3. CASE FanFail(o)
    BY <2>3 DEF FanFail, Idle
  <2>4. CASE Publish(o)
    BY <2>4 DEF Publish, Idle
  <2> QED BY <2>1, <2>2, <2>3, <2>4 DEF OpStep
<1> QED BY <1>1, <1>2, FrameKept

\* A request that publishes accounts keeps what was due due.
LEMMA DueKept ==
    ASSUME Core, NEW a \in Watcher, NEW o \in Op, op[o].at = "idle",
           NEW A \in SUBSET Account, WillPublish(o, A),
           FrameIsDue(a), due' = due, missed \subseteq missed',
           a \in member => a \in member'
    PROVE  FrameIsDue(a)'
<1>1. op[o].todo = {}
  BY DEF Core, TodoIsPublished
<1> QED BY <1>1 DEF FrameIsDue, WillPublish, Core, TypeOK

\* Whom a request publishes is due.
LEMMA PublishedIsDue ==
    ASSUME Core, NEW o \in Op, NEW A, WillPublish(o, A), NEW a \in A
    PROVE  FrameIsDue(a)'
BY DEF WillPublish, FrameIsDue, Core, TypeOK

LEMMA FrameRequest ==
    ASSUME Core, NEW a \in Watcher, FrameOK(a), NEW o \in Op, Request(o)
    PROVE  FrameOK(a)'
<1>0. a \in Account
  BY AnnouncementsAssumption
<1> USE DEF tableVars, busVars
<1>1. CASE RoomDeleted(o)
  <2>1. PICK A \in SUBSET member :
          WillPublish(o, A) /\ missed' = missed \cup ((member \ A) \cap Watcher)
    BY <1>1 DEF RoomDeleted
  <2>2. CASE a \in member
    <3>1. CASE a \in A
      BY <3>1, <2>1, PublishedIsDue DEF FrameOK
    <3>2. CASE a \notin A
      BY <3>2, <2>2, <2>1 DEF FrameOK, FrameIsDue
    <3> QED BY <3>1, <3>2
  <2>3. CASE a \notin member
    <3>1. Unread(a)' = Unread(a) /\ SysUnread(a)' = SysUnread(a)
      BY <1>1, <2>3 DEF RoomDeleted, Unread, SysUnread
    <3>2. FrameIsDue(a) => FrameIsDue(a)'
      BY <1>1, <2>1, <2>3, DueKept DEF RoomDeleted, Core, TypeOK
    <3> QED BY <1>1, <3>1, <3>2, FrameKept DEF RoomDeleted
  <2> QED BY <2>2, <2>3
<1>2. ASSUME NEW s \in System, CreateSystemAnnouncement(o, s) PROVE FrameOK(a)'
  BY <1>0, <1>2, PublishedIsDue DEF CreateSystemAnnouncement, FrameOK
<1>3. ASSUME NEW b \in Account, CreateAnnouncement(o, b) PROVE FrameOK(a)'
  <2>1. CASE a \in member
    BY <1>3, <2>1 DEF CreateAnnouncement, FrameOK, FrameIsDue, Core, TypeOK
  <2>2. CASE a \notin member
    <3>1. Unread(a)' = Unread(a) /\ SysUnread(a)' = SysUnread(a)
      BY <1>3, <2>2 DEF CreateAnnouncement, Unread, SysUnread
    <3>2. FrameIsDue(a) => FrameIsDue(a)'
      <4>1. op[o].todo = {}
        BY <1>3 DEF CreateAnnouncement, Core, TodoIsPublished
      <4> QED BY <1>3, <4>1, <2>2 DEF CreateAnnouncement, FrameIsDue, Core, TypeOK
    <3> QED BY <1>3, <3>1, <3>2, FrameKept DEF CreateAnnouncement
  <2> QED BY <2>1, <2>2
<1>4. ASSUME NEW b \in Account, Leaves(o, b) PROVE FrameOK(a)'
  <2>1. CASE a = b
    BY <1>4, <2>1, PublishedIsDue DEF Leaves, FrameOK
  <2>2. CASE a # b
    <3>1. Unread(a)' = Unread(a) /\ SysUnread(a)' = SysUnread(a)
      BY <1>4, <2>2 DEF Leaves, Unread, SysUnread, Latest
    <3>2. FrameIsDue(a) => FrameIsDue(a)'
      BY <1>4, <2>2, DueKept DEF Leaves
    <3> QED BY <1>4, <3>1, <3>2, FrameKept DEF Leaves
  <2> QED BY <2>1, <2>2
<1>5. ASSUME NEW b \in Account, NEW v \in 1..MaxVersion, MarkAnnouncementRead(o, b, v)
      PROVE  FrameOK(a)'
  <2>1. CASE a = b
    BY <1>5, <2>1, PublishedIsDue DEF MarkAnnouncementRead, FrameOK
  <2>2. CASE a # b
    <3>1. Unread(a)' = Unread(a) /\ SysUnread(a)' = SysUnread(a)
      <4>1. \A w : <<w, a>> \in read' <=> <<w, a>> \in read
        BY <1>5, <2>2 DEF MarkAnnouncementRead
      <4> QED BY <1>5, <4>1 DEF MarkAnnouncementRead, Unread, SysUnread, Latest
    <3>2. FrameIsDue(a) => FrameIsDue(a)'
      BY <1>5, <2>2, DueKept DEF MarkAnnouncementRead
    <3> QED BY <1>5, <3>1, <3>2, FrameKept DEF MarkAnnouncementRead
  <2> QED BY <2>1, <2>2
<1>6. ASSUME NEW b \in Account, NEW s \in System, MarkSystemAnnouncementRead(o, b, s)
      PROVE  FrameOK(a)'
  <2>1. CASE a = b
    BY <1>6, <2>1, PublishedIsDue DEF MarkSystemAnnouncementRead, FrameOK
  <2>2. CASE a # b
    <3>1. Unread(a)' = Unread(a) /\ SysUnread(a)' = SysUnread(a)
      <4>1. \A w : <<w, a>> \in sread' <=> <<w, a>> \in sread
        BY <1>6, <2>2 DEF MarkSystemAnnouncementRead
      <4> QED BY <1>6, <4>1 DEF MarkSystemAnnouncementRead, Unread, SysUnread, Latest
    <3>2. FrameIsDue(a) => FrameIsDue(a)'
      BY <1>6, <2>2, DueKept DEF MarkSystemAnnouncementRead
    <3> QED BY <1>6, <3>1, <3>2, FrameKept DEF MarkSystemAnnouncementRead
  <2> QED BY <2>1, <2>2
<1>7. ASSUME NEW b \in Account, NEW subscribed, Joins(o, b, subscribed) PROVE FrameOK(a)'
  <2>1. CASE a = b /\ subscribed = "yes"
    BY <1>7, <2>1, PublishedIsDue DEF Joins, FrameOK
  <2>2. CASE a = b /\ subscribed # "yes"
    BY <1>7, <2>2 DEF Joins, FrameOK, FrameIsDue
  <2>3. CASE a # b
    <3>1. Unread(a)' = Unread(a) /\ SysUnread(a)' = SysUnread(a)
      BY <1>7, <2>3 DEF Joins, Unread, SysUnread, Latest
    <3>2. FrameIsDue(a) => FrameIsDue(a)'
      <4>1. CASE subscribed = "yes"
        BY <1>7, <2>3, <4>1, DueKept DEF Joins
      <4>2. CASE subscribed # "yes"
        BY <1>7, <4>2 DEF Joins, FrameIsDue
      <4> QED BY <4>1, <4>2
    <3> QED BY <1>7, <3>1, <3>2, FrameKept DEF Joins
  <2> QED BY <2>1, <2>2, <2>3
<1> QED BY <1>1, <1>2, <1>3, <1>4, <1>5, <1>6, <1>7 DEF Request

LEMMA FrameBuild ==
    ASSUME Core, NEW a \in Watcher, FrameOK(a), NEW b \in Watcher, BuildStep(b)
    PROVE  FrameOK(a)'
<1> USE DEF tableVars, busVars
<1>1. Unread(a)' = Unread(a) /\ SysUnread(a)' = SysUnread(a)
  BY DEF BuildStep, BuildBegins, CountUnread, ListUnread, CountSysUnread, Deliver, Step,
         Unread, SysUnread, Latest
<1>2. CASE a # b
  <2>1. build'[a] = build[a] /\ shown'[a] = shown[a]
    BY <1>2 DEF BuildStep, BuildBegins, CountUnread, ListUnread, CountSysUnread, Deliver,
                Step, Core, TypeOK
  <2>2. FrameIsDue(a) => FrameIsDue(a)'
    BY <1>2 DEF BuildStep, BuildBegins, CountUnread, ListUnread, CountSysUnread, Deliver,
                Step, FrameIsDue
  <2> QED BY <1>1, <2>1, <2>2 DEF FrameOK, Frame, BuildIsRight
<1>3. CASE a = b
  <2> USE <1>3
  <2>1. CASE BuildBegins(a)
    BY <2>1 DEF BuildBegins, Step, FrameOK, BuildIsRight, Core, TypeOK
  <2>2. CASE CountUnread(a) \/ ListUnread(a) \/ CountSysUnread(a)
    <3>1. FrameIsDue(a) => FrameIsDue(a)'
      BY <2>2 DEF CountUnread, ListUnread, CountSysUnread, Step, FrameIsDue
    <3>2. BuildIsRight(a) /\ build[a].at # "none" => BuildIsRight(a)' /\ build'[a].at # "none"
      BY <2>2, <1>1 DEF CountUnread, ListUnread, CountSysUnread, Step, BuildIsRight,
                        Core, TypeOK, FrameType
    <3> QED BY <2>2, <3>1, <3>2
            DEF FrameOK, CountUnread, ListUnread, CountSysUnread, Step
  <2>3. CASE Deliver(a)
    <3>1. FrameIsDue(a) => FrameIsDue(a)'
      BY <2>3 DEF Deliver, FrameIsDue
    <3>2. build[a].frame \in FrameType
      BY DEF Core, TypeOK
    <3>3. BuildIsRight(a) => [build[a].frame EXCEPT !.sysList = SysUnread(a)] = Frame(a)
      BY <2>3, <3>2 DEF Deliver, BuildIsRight, Frame, FrameType
    <3>4. build'[a].at = "none"
          /\ shown'[a] = [build[a].frame EXCEPT !.sysList = SysUnread(a)]
          /\ build[a].at # "none"
      BY <2>3 DEF Deliver, NoBuild, Core, TypeOK
    <3>5. Frame(a)' = Frame(a)
      BY <1>1 DEF Frame
    <3> QED BY <3>1, <3>3, <3>4, <3>5 DEF FrameOK
  <2> QED BY <2>1, <2>2, <2>3 DEF BuildStep
<1> QED BY <1>2, <1>3

FrameInv == Core /\ \A a \in Watcher : FrameOK(a)

LEMMA FrameNext == FrameInv /\ [Next]_vars => FrameInv'
<1> SUFFICES ASSUME FrameInv, [Next]_vars, NEW a \in Watcher PROVE FrameOK(a)'
  BY CoreNext DEF FrameInv
<1>0. Core /\ FrameOK(a)
  BY DEF FrameInv
<1> USE DEF tableVars, busVars
<1>1. ASSUME NEW b \in Account, GetAnnouncement(b) PROVE FrameOK(a)'
  BY <1>0, <1>1 DEF GetAnnouncement, FrameOK, FrameIsDue, Frame, BuildIsRight,
                    Unread, SysUnread, Latest
<1>2. CASE Archived
  BY <1>0, <1>2 DEF Archived, FrameOK, FrameIsDue, Frame, BuildIsRight,
                    Unread, SysUnread, Latest
<1>3. CASE Crash
  BY <1>3 DEF Crash, FrameOK, FrameIsDue
<1>4. CASE UNCHANGED vars
  BY <1>0, <1>4 DEF vars, FrameOK, FrameIsDue, Frame, BuildIsRight,
                    Unread, SysUnread, Latest
<1> QED BY <1>0, <1>1, <1>2, <1>3, <1>4, FrameOp, FrameRequest, FrameBuild DEF Next

\* A state frame that is out of date or torn is replaced, wherever between
\* the aggregator's queries a commit comes.
THEOREM StaleFramesAreReplaced == Spec => []StaleFrameIsReplaced
<1>1. Init => FrameInv
  <2> SUFFICES ASSUME Init, NEW a \in Watcher PROVE FrameOK(a)
    BY CoreInit DEF FrameInv
  <2>1. Unread(a) = {} /\ SysUnread(a) = {}
    BY DEF Init, Unread, SysUnread
  <2>2. Cardinality({}) = 0
    BY FS_EmptySet
  <2> QED BY <2>1, <2>2 DEF Init, FrameOK, Frame, Empty, NoBuild
<1>2. FrameInv => StaleFrameIsReplaced
  BY DEF FrameInv, FrameOK, StaleFrameIsReplaced
<1> QED BY <1>1, <1>2, FrameNext, PTL DEF Spec
=============================================================================
