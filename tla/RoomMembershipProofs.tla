------------------------ MODULE RoomMembershipProofs ------------------------
(***************************************************************************)
(* RoomMembership for every number of accounts, rooms and requests: no     *)
(* channel is lost without an error, rows and permissions agree once a     *)
(* request ran undisturbed, nothing belongs to what was deleted, and who   *)
(* is shown an old state is about to be published.                         *)
(*                                                                         *)
(* The four properties are not inductive: what a request does next rests   *)
(* on what was true where it stands (Stands), and what it will write on    *)
(* what nobody has changed since it called Discord (CleanIsRight).         *)
(***************************************************************************)
EXTENDS RoomMembership, TLAPS

Creating == {"made", "undo"}
OnPair   == {"asked", "granted", "kicking", "removed"}

\* What is true of a request where it stands.
Stands ==
    \A o \in Op :
        /\ op[o].at \in Creating =>
              op[o].r \in Room /\ op[o].a \in Account
              /\ row[op[o].r] = "none" /\ chan[op[o].r] # "none"
        /\ op[o].at \in {"snapped", "dropped"} => op[o].r \in Room /\ row[op[o].r] # "none"
        /\ op[o].at = "dropped" => chan[op[o].r] = "down"
        /\ op[o].at \in OnPair =>
              op[o].r \in Room /\ op[o].a \in Account /\ row[op[o].r] # "none"
        /\ op[o].at \in {"asked", "granted", "kicking"} => op[o].uid \in Bot
        /\ op[o].at \in {"asked", "granted"} => op[o].sub # "out"
        /\ op[o].at = "fan" => op[o].r \in Room

\* A channel is created by one request.
OneCreator ==
    \A o, p \in Op :
        op[o].at \in Creating /\ op[p].at \in Creating /\ op[o].r = op[p].r => o = p

\* A room's row comes after its channel and is closed once.
RoomOrder ==
    \A r \in Room :
        /\ row[r] # "none" => chan[r] # "none"
        /\ row[r] = "gone" => chan[r] = "down"
        /\ row[r] = "none" => settled[r] = {}
        /\ row[r] \in {"none", "open"} => notify[r] = {}

Core == TypeOK /\ Stands /\ OneCreator /\ RoomOrder

\* A request that was not disturbed called for the account's bot and finds
\* the permission as it left it.
CleanIsRight ==
    \A o \in Op :
        op[o].clean = "yes" /\ op[o].at \in OnPair =>
            /\ op[o].uid = bot[op[o].a]
            /\ chan[op[o].r] = "up" =>
                  /\ op[o].at = "granted" => op[o].uid \in grant[op[o].r]
                  /\ op[o].at = "removed" => op[o].uid \notin grant[op[o].r]

\* Who is only a watcher of the room needs no fan-out of it.
Serves(o, a) ==
    \/ op[o].at = "publish" /\ a \in op[o].todo
    \/ op[o].at = "fan" /\ member[op[o].r][a] = "subscribed"

Served(a) ==
    a \in missed \/ (\E r \in Room : a \in notify[r]) \/ \E o \in Op : Serves(o, a)

StaleIsServed ==
    \A a \in Account : acct[a] # "deleted" /\ shown[a] # View(a) => Served(a)

IInv == Core /\ CleanIsRight /\ RowsMatchPermissions /\ NoMemberOfNothing
        /\ ChannelsAreOwned /\ StaleIsServed

----------------------------------------------------------------------------
(* Types, and where requests stand *)

USE DEF rowVars, discVars, histVars

LEMMA UncleanIs ==
    ASSUME NEW x \in Request
    PROVE  /\ [x EXCEPT !.clean = "no"] \in Request
           /\ [x EXCEPT !.clean = "no"].at = x.at
           /\ [x EXCEPT !.clean = "no"].r = x.r
           /\ [x EXCEPT !.clean = "no"].a = x.a
           /\ [x EXCEPT !.clean = "no"].uid = x.uid
           /\ [x EXCEPT !.clean = "no"].sub = x.sub
           /\ [x EXCEPT !.clean = "no"].todo = x.todo
           /\ [x EXCEPT !.clean = "no"].clean = "no"
BY DEF Request

\* The call of o for bot b leaves the other requests where they are, takes
\* from those in between that they are clean, and unsettles b's accounts.
LEMMA DisturbsKeeps ==
    ASSUME TypeOK, NEW o \in Op, NEW r \in Room, NEW b, NEW rec \in Request,
           Disturbs(o, r, b, rec)
    PROVE  /\ op' \in [Op -> Request]
           /\ op'[o] = rec
           /\ \A p \in Op \ {o} :
                 /\ op'[p].at = op[p].at /\ op'[p].r = op[p].r /\ op'[p].a = op[p].a
                 /\ op'[p].uid = op[p].uid /\ op'[p].sub = op[p].sub /\ op'[p].todo = op[p].todo
                 /\ op'[p].clean = "yes" => op[p].clean = "yes" /\ p \notin Between(r, b)
           /\ settled' = [settled EXCEPT ![r] = {a \in @ : bot[a] # b}]
<1>1. \A p \in Op : op[p] \in Request
  BY DEF TypeOK
<1>2. op' = [p \in Op |-> IF p = o THEN rec
                         ELSE IF p \in Between(r, b) THEN [op[p] EXCEPT !.clean = "no"]
                         ELSE op[p]]
  BY DEF Disturbs
<1> HIDE DEF Request, Between
<1>3. op' \in [Op -> Request] /\ op'[o] = rec
  BY <1>1, <1>2, UncleanIs
<1>4. ASSUME NEW p \in Op \ {o}
      PROVE  /\ op'[p].at = op[p].at /\ op'[p].r = op[p].r /\ op'[p].a = op[p].a
             /\ op'[p].uid = op[p].uid /\ op'[p].sub = op[p].sub /\ op'[p].todo = op[p].todo
             /\ op'[p].clean = "yes" => op[p].clean = "yes" /\ p \notin Between(r, b)
  <2>1. op'[p] = IF p \in Between(r, b) THEN [op[p] EXCEPT !.clean = "no"] ELSE op[p]
    BY <1>2
  <2>2. CASE p \in Between(r, b)
    BY <1>1, <2>1, <2>2, UncleanIs
  <2>3. CASE p \notin Between(r, b)
    BY <2>1, <2>3
  <2> QED BY <2>2, <2>3
<1> QED BY <1>3, <1>4 DEF Disturbs

\* A change of a's identity leaves the requests where they are, takes from
\* those about a that they are clean, and unsettles a.
LEMMA IdentityLostKeeps ==
    ASSUME TypeOK, NEW a \in Account, IdentityLost(a)
    PROVE  /\ op' \in [Op -> Request]
           /\ settled' \in [Room -> SUBSET Account]
           /\ \A r \in Room : settled'[r] = settled[r] \ {a}
           /\ \A p \in Op :
                 /\ op'[p].at = op[p].at /\ op'[p].r = op[p].r /\ op'[p].a = op[p].a
                 /\ op'[p].uid = op[p].uid /\ op'[p].sub = op[p].sub /\ op'[p].todo = op[p].todo
                 /\ op'[p].clean = "yes" => op[p].clean = "yes" /\ op[p].a # a
<1>1. \A p \in Op : op[p] \in Request
  BY DEF TypeOK
<1>2. op' = [p \in Op |-> IF op[p].a = a THEN [op[p] EXCEPT !.clean = "no"] ELSE op[p]]
  BY DEF IdentityLost
<1>3. settled' \in [Room -> SUBSET Account] /\ \A r \in Room : settled'[r] = settled[r] \ {a}
  BY DEF IdentityLost, TypeOK
<1> HIDE DEF Request
<1>4. op' \in [Op -> Request]
  BY <1>1, <1>2, UncleanIs
<1>5. ASSUME NEW p \in Op
      PROVE  /\ op'[p].at = op[p].at /\ op'[p].r = op[p].r /\ op'[p].a = op[p].a
             /\ op'[p].uid = op[p].uid /\ op'[p].sub = op[p].sub /\ op'[p].todo = op[p].todo
             /\ op'[p].clean = "yes" => op[p].clean = "yes" /\ op[p].a # a
  <2>1. CASE op[p].a = a
    BY <1>1, <1>2, <2>1, UncleanIs
  <2>2. CASE op[p].a # a
    BY <1>2, <2>2
  <2> QED BY <2>1, <2>2
<1> QED BY <1>3, <1>4, <1>5

LEMMA CoreInit == Init => Core
BY RoomAssumption DEF Init, Core, TypeOK, Stands, OneCreator, RoomOrder, Idle, Request,
                      Creating, OnPair

\* A request that is over, or about to publish, stands on nothing; the others
\* are where they were.
LEMMA OthersStand ==
    ASSUME Core, NEW o \in Op, NEW rec \in Request, op' = [op EXCEPT ![o] = rec],
           UNCHANGED <<acct, row>>,
           \A q \in Room : /\ chan[q] # "none" => chan'[q] # "none"
                           /\ chan[q] = "down" => chan'[q] = "down",
           \/ rec.at \in {"idle", "publish"}
           \/ rec.at = "dropped" /\ rec.r \in Room /\ row[rec.r] # "none" /\ chan'[rec.r] = "down"
    PROVE  op' \in [Op -> Request] /\ Stands' /\ OneCreator'
<1>1. op' \in [Op -> Request] /\ op'[o] = rec /\ \A p \in Op \ {o} : op'[p] = op[p]
  BY DEF Core, TypeOK
<1>2. Stands'
  <2> DEFINE Stand(p) ==
        /\ op[p].at \in Creating =>
              op[p].r \in Room /\ op[p].a \in Account
              /\ row[op[p].r] = "none" /\ chan[op[p].r] # "none"
        /\ op[p].at \in {"snapped", "dropped"} => op[p].r \in Room /\ row[op[p].r] # "none"
        /\ op[p].at = "dropped" => chan[op[p].r] = "down"
        /\ op[p].at \in OnPair =>
              op[p].r \in Room /\ op[p].a \in Account /\ row[op[p].r] # "none"
        /\ op[p].at \in {"asked", "granted", "kicking"} => op[p].uid \in Bot
        /\ op[p].at \in {"asked", "granted"} => op[p].sub # "out"
        /\ op[p].at = "fan" => op[p].r \in Room
  <2>1. Stand(o)'
    BY <1>1 DEF Creating, OnPair
  <2>2. ASSUME NEW p \in Op \ {o} PROVE Stand(p)'
    <3>1. Stand(p)
      BY <2>2 DEF Core, Stands
    <3>2. op'[p] = op[p] /\ acct' = acct /\ row' = row
      BY <1>1, <2>2
    <3> DEFINE x == op[p]
    <3>3. x.r \in Room => /\ chan[x.r] # "none" => chan'[x.r] # "none"
                          /\ chan[x.r] = "down" => chan'[x.r] = "down"
      OBVIOUS
    <3>4. x.at \in Creating => x.r \in Room /\ x.a \in Account /\ row[x.r] = "none" /\ chan'[x.r] # "none"
      BY <3>1, <3>3
    <3>5. x.at = "dropped" => chan'[x.r] = "down"
      BY <3>1, <3>3
    <3> QED BY <3>1, <3>2, <3>4, <3>5
  <2> QED BY <2>1, <2>2 DEF Stands
<1>3. OneCreator'
  BY <1>1 DEF Core, OneCreator, Creating
<1> QED BY <1>1, <1>2, <1>3

LEMMA WillPublishIs ==
    ASSUME TypeOK, NEW o \in Op, NEW A \in SUBSET Account, WillPublish(o, A)
    PROVE  \E rec \in Request : rec.at = "publish" /\ rec.todo = A /\ op' = [op EXCEPT ![o] = rec]
<1> DEFINE rec == [at |-> "publish", r |-> None, a |-> None, uid |-> None, sub |-> "out",
                   todo |-> A, clean |-> "no"]
<1>1. rec \in Request /\ rec.at = "publish" /\ rec.todo = A
  BY DEF Request
<1>2. op' = [op EXCEPT ![o] = rec]
  BY DEF WillPublish
<1> HIDE DEF rec
<1> QED BY <1>1, <1>2

LEMMA IdleIs == Idle \in Request /\ Idle.at = "idle" /\ Idle.clean = "no"
BY DEF Idle, Request

LEMMA CoreShared ==
    ASSUME Core, NEW o \in Op, Publish(o) \/ FanOut(o) \/ FanFail(o)
    PROVE  Core'
<1> USE DEF Core, TypeOK, Request, Stands, OneCreator, RoomOrder, Creating, OnPair, Ends, Idle
<1>1. ASSUME NEW A, Published(A) PROVE shown' \in [Account -> SUBSET (Room \X {0, 1})]
  <2>1. \A a \in Account : View(a) \subseteq Room \X {0, 1}
    BY DEF View
  <2> QED BY <1>1, <2>1 DEF Published
<1>2. CASE Publish(o)
  <2>1. shown' \in [Account -> SUBSET (Room \X {0, 1})] /\ missed' \subseteq Account
    BY <1>1, <1>2 DEF Publish, Published
  <2> QED BY <1>2, <2>1 DEF Publish
<1>3. CASE FanOut(o)
  <2>1. shown' \in [Account -> SUBSET (Room \X {0, 1})] /\ missed' \subseteq Account
    BY <1>1, <1>3 DEF FanOut, Published
  <2> QED BY <1>3, <2>1 DEF FanOut
<1>4. CASE FanFail(o)
  <2>1. missed' \subseteq Account
    BY <1>4 DEF FanFail, Members
  <2> QED BY <1>4, <2>1 DEF FanFail
<1> QED BY <1>2, <1>3, <1>4

LEMMA CoreCreate ==
    ASSUME Core, NEW o \in Op,
           \/ \E r \in Room, a \in Account : CreateChannel(o, r, a)
           \/ CreateCommit(o) \/ CreateFail(o) \/ CreateUndo(o)
    PROVE  Core'
<1>1. CASE CreateUndo(o)
  <2> DEFINE r == op[o].r
  <2>1. op' = [op EXCEPT ![o] = Idle] /\ UNCHANGED <<acct, row, notify>> /\ r \in Room
    BY <1>1 DEF CreateUndo, Ends, Core, Stands, Creating
  <2>2. \/ chan' = [chan EXCEPT ![r] = "down"] /\ settled' = [settled EXCEPT ![r] = {}]
           /\ grant' = [grant EXCEPT ![r] = {}] /\ UNCHANGED left
        \/ UNCHANGED <<chan, grant, settled>> /\ left' = left \cup {r}
    BY <1>1 DEF CreateUndo, ChannelGone
  <2>3. UNCHANGED <<rowVars, event, missed, notify, shown>>
    BY <1>1 DEF CreateUndo
  <2> HIDE DEF r
  <2>4. \A q \in Room : /\ chan[q] # "none" => chan'[q] # "none"
                        /\ chan[q] = "down" => chan'[q] = "down"
    BY <2>1, <2>2 DEF Core, TypeOK
  <2>5. op' \in [Op -> Request] /\ Stands' /\ OneCreator'
    BY <2>1, <2>4, OthersStand, IdleIs
  <2>6. TypeOK'
    BY <2>1, <2>2, <2>3, <2>5 DEF Core, TypeOK
  <2>7. RoomOrder'
    BY <2>1, <2>2, <2>4 DEF Core, TypeOK, RoomOrder
  <2> QED BY <2>5, <2>6, <2>7 DEF Core
<1> USE DEF Core, TypeOK, Request, Stands, OneCreator, RoomOrder, Creating, OnPair, Ends, Idle, Goes
<1>2. ASSUME NEW r \in Room, NEW a \in Account, CreateChannel(o, r, a) PROVE Core'
  <2>1. CASE Goes(o, "made", r, a) /\ UNCHANGED left
    <3>1. TypeOK'
      BY <1>2, <2>1 DEF CreateChannel
    <3>2. Stands' /\ OneCreator'
      BY <1>2, <2>1 DEF CreateChannel
    <3> QED BY <1>2, <2>1, <3>1, <3>2 DEF CreateChannel
  <2>2. CASE UNCHANGED op
    BY <1>2, <2>2 DEF CreateChannel
  <2> QED BY <1>2, <2>1, <2>2 DEF CreateChannel
<1>3. CASE CreateCommit(o)
  BY <1>3 DEF CreateCommit, SetRow, PutMember, WillPublish
<1>4. CASE CreateFail(o)
  BY <1>4 DEF CreateFail
<1> QED BY <1>1, <1>2, <1>3, <1>4

LEMMA CoreRows ==
    ASSUME Core, NEW o \in Op, NEW r \in Room,
           \/ Rename(o, r) \/ Archive(o, r) \/ DeleteSnapshot(o, r)
           \/ \E a \in Account, sub \in {"watching", "subscribed"} : UpdateMembership(o, r, a, sub)
    PROVE  Core'
<1> USE DEF Core, TypeOK, Request, Stands, OneCreator, RoomOrder, Creating, OnPair, Goes, Live
<1>1. CASE Rename(o, r)
  BY <1>1 DEF Rename
<1>2. CASE Archive(o, r)
  BY <1>2 DEF Archive, SetRow
<1>3. CASE DeleteSnapshot(o, r)
  BY <1>3 DEF DeleteSnapshot, Members
<1>4. ASSUME NEW a \in Account, NEW sub \in {"watching", "subscribed"}, UpdateMembership(o, r, a, sub)
      PROVE  Core'
  BY <1>4 DEF UpdateMembership, PutMember, WillPublish
<1> QED BY <1>1, <1>2, <1>3, <1>4

LEMMA CoreDelete ==
    ASSUME Core, NEW o \in Op,
           DeleteChannel(o) \/ DeleteRefused(o) \/ DeleteCommit(o) \/ DeleteFail(o)
    PROVE  Core'
<1> USE DEF Core, TypeOK, Request, Stands, OneCreator, RoomOrder, Creating, OnPair, Ends, Idle
<1>1. CASE DeleteChannel(o)
  <2> DEFINE r == op[o].r
             rec == [at |-> "dropped", r |-> r, a |-> None, uid |-> None, sub |-> "out",
                     todo |-> op[o].todo, clean |-> "no"]
  <2>1. rec \in Request /\ rec.at = "dropped" /\ rec.r = r /\ r \in Room /\ row[r] # "none"
    BY <1>1 DEF DeleteChannel
  <2>2. op' = [op EXCEPT ![o] = rec] \/ op' = [op EXCEPT ![o] = Idle]
    BY <1>1 DEF DeleteChannel
  <2>3. ChannelGone(r) /\ UNCHANGED <<rowVars, missed, left, notify, shown>>
        /\ event' = [event EXCEPT ![r] = IF chan[r] = "up" THEN "sent" ELSE @]
    BY <1>1 DEF DeleteChannel
  <2> HIDE DEF rec
  <2>4. op' \in [Op -> Request] /\ Stands' /\ OneCreator'
    <3>1. chan'[r] = "down" /\ \A q \in Room : /\ chan[q] # "none" => chan'[q] # "none"
                                               /\ chan[q] = "down" => chan'[q] = "down"
      BY <2>1, <2>3 DEF ChannelGone
    <3> HIDE DEF Core, TypeOK, Request, Stands, OneCreator, RoomOrder, Ends, Idle, r
    <3> QED BY <2>1, <2>2, <2>3, <3>1, OthersStand, IdleIs
  <2>5. TypeOK'
    BY <2>1, <2>3, <2>4 DEF ChannelGone
  <2>6. RoomOrder'
    BY <2>1, <2>3 DEF ChannelGone
  <2> QED BY <2>4, <2>5, <2>6
<1>2. CASE DeleteRefused(o)
  BY <1>2 DEF DeleteRefused, GivesUp
<1>3. CASE DeleteCommit(o)
  BY <1>3 DEF DeleteCommit, SetRow, DropMembers, WillPublish, Live
<1>4. CASE DeleteFail(o)
  BY <1>4 DEF DeleteFail, GivesUp
<1> QED BY <1>1, <1>2, <1>3, <1>4

\* A request that has called Discord for the bot it read.
LEMMA CoreCalls ==
    ASSUME Core, NEW o \in Op, NEW r \in Room, NEW b \in Bot, NEW rec \in Request,
           Disturbs(o, r, b, rec), row[r] # "none",
           \/ rec.at = "idle"
           \/ rec.at \in {"granted", "removed"} /\ rec.r = r /\ rec.a \in Account /\ rec.uid = b,
           rec.at = "granted" => rec.sub # "out",
           UNCHANGED <<rowVars, chan, event, missed, left, notify, shown>>,
           grant' \in [Room -> SUBSET Bot]
    PROVE  Core'
<1>1. /\ op' \in [Op -> Request] /\ op'[o] = rec
      /\ \A p \in Op \ {o} :
            /\ op'[p].at = op[p].at /\ op'[p].r = op[p].r /\ op'[p].a = op[p].a
            /\ op'[p].uid = op[p].uid /\ op'[p].sub = op[p].sub
      /\ settled' = [settled EXCEPT ![r] = {a \in @ : bot[a] # b}]
  BY DisturbsKeeps DEF Core
<1>2. TypeOK'
  BY <1>1 DEF Core, TypeOK
<1>3. Stands'
  BY <1>1 DEF Core, Stands, Creating, OnPair
<1>4. OneCreator'
  BY <1>1 DEF Core, OneCreator, Creating
<1>5. RoomOrder'
  BY <1>1 DEF Core, RoomOrder, TypeOK
<1> QED BY <1>2, <1>3, <1>4, <1>5 DEF Core

LEMMA CalledIs ==
    ASSUME TypeOK, NEW o \in Op, NEW at \in {"granted", "removed"}
    PROVE  /\ Called(o, at) \in Request /\ Called(o, at).at = at /\ Called(o, at).r = op[o].r
           /\ Called(o, at).a = op[o].a /\ Called(o, at).uid = op[o].uid
           /\ Called(o, at).sub = op[o].sub
           /\ Called(o, at).clean = "yes" => op[o].uid = bot[op[o].a]
BY DEF Called, TypeOK, Request

LEMMA CoreInvite ==
    ASSUME Core, NEW o \in Op,
           \/ \E r \in Room, a \in Account, sub \in {"watching", "subscribed"} : InviteRead(o, r, a, sub)
           \/ AddMember(o) \/ AddRefused(o) \/ InviteCommit(o) \/ InviteFail(o)
    PROVE  Core'
<1>1. CASE AddMember(o)
  <2>1. /\ op[o].r \in Room /\ op[o].a \in Account /\ row[op[o].r] # "none"
        /\ op[o].uid \in Bot /\ op[o].sub # "out"
    BY <1>1 DEF AddMember, Core, Stands, OnPair
  <2>2. grant' \in [Room -> SUBSET Bot]
    BY <1>1, <2>1 DEF AddMember, Core, TypeOK
  <2>3. \/ Disturbs(o, op[o].r, op[o].uid, Called(o, "granted"))
        \/ Disturbs(o, op[o].r, op[o].uid, Idle)
    BY <1>1 DEF AddMember
  <2>4. TypeOK /\ UNCHANGED <<rowVars, chan, event, missed, left, notify, shown>>
    BY <1>1 DEF AddMember, Core
  <2> HIDE DEF rowVars
  <2> QED BY <2>1, <2>2, <2>3, <2>4, CoreCalls, CalledIs, IdleIs
<1> USE DEF Core, TypeOK, Request, Stands, OneCreator, RoomOrder, Creating, OnPair, Ends, Idle
<1>2. ASSUME NEW r \in Room, NEW a \in Account, NEW sub \in {"watching", "subscribed"},
             InviteRead(o, r, a, sub)
      PROVE  Core'
  BY <1>2 DEF InviteRead, Live
<1>3. CASE AddRefused(o)
  BY <1>3 DEF AddRefused, GivesUp
<1>4. CASE InviteCommit(o)
  <2>1. op[o].r \in Room /\ op[o].a \in Account /\ op[o].sub \in {"watching", "subscribed"}
    BY <1>4 DEF InviteCommit
  <2>2. op' \in [Op -> Request] /\ Stands' /\ OneCreator'
    <3>1. WillPublish(o, {op[o].a}) \/ op' = [op EXCEPT ![o] = Idle]
      BY <1>4 DEF InviteCommit
    <3>2. {op[o].a} \in SUBSET Account /\ UNCHANGED <<acct, row, chan>>
      BY <1>4, <2>1 DEF InviteCommit
    <3> HIDE DEF TypeOK, Request, Stands, OneCreator, RoomOrder, Ends, Idle
    <3> QED BY <3>1, <3>2, OthersStand, WillPublishIs, IdleIs
  <2>3. /\ member' \in [Room -> [Account -> {"out", "watching", "subscribed"}]]
        /\ settled' \in [Room -> SUBSET Account] /\ missed' \subseteq Account
    BY <1>4, <2>1 DEF InviteCommit, PutMember, Settle
  <2>4. TypeOK'
    BY <1>4, <2>2, <2>3 DEF InviteCommit
  <2>5. RoomOrder'
    BY <1>4, <2>1 DEF InviteCommit, Settle, Live
  <2> QED BY <2>2, <2>4, <2>5
<1>5. CASE InviteFail(o)
  BY <1>5 DEF InviteFail, GivesUp
<1> QED BY <1>1, <1>2, <1>3, <1>4, <1>5

LEMMA CoreKick ==
    ASSUME Core, NEW o \in Op,
           \/ \E r \in Room, a \in Account : KickRead(o, r, a)
           \/ RemoveMember(o) \/ RemoveRefused(o) \/ KickCommit(o) \/ KickFail(o)
    PROVE  Core'
<1>2. CASE RemoveMember(o)
  <2>1. /\ op[o].r \in Room /\ op[o].a \in Account /\ row[op[o].r] # "none"
        /\ op[o].uid \in Bot
    BY <1>2 DEF RemoveMember, Core, Stands, OnPair
  <2>2. grant' \in [Room -> SUBSET Bot]
    BY <1>2, <2>1 DEF RemoveMember, Core, TypeOK
  <2>3. \/ Disturbs(o, op[o].r, op[o].uid, Called(o, "removed"))
        \/ Disturbs(o, op[o].r, op[o].uid, Idle)
    BY <1>2 DEF RemoveMember
  <2>4. TypeOK /\ UNCHANGED <<rowVars, chan, event, missed, left, notify, shown>>
    BY <1>2 DEF RemoveMember, Core
  <2> HIDE DEF rowVars
  <2> QED BY <2>1, <2>2, <2>3, <2>4, CoreCalls, CalledIs, IdleIs
<1> USE DEF Core, TypeOK, Request, Stands, OneCreator, RoomOrder, Creating, OnPair, Ends, Idle
<1>1. ASSUME NEW r \in Room, NEW a \in Account, KickRead(o, r, a) PROVE Core'
  <2> DEFINE rec == [at |-> IF bot[a] = None THEN "removed" ELSE "kicking",
                     r |-> r, a |-> a, uid |-> bot[a], sub |-> "out", todo |-> {},
                     clean |-> IF bot[a] = None THEN "yes" ELSE "no"]
  <2>1. /\ rec \in Request /\ rec.r = r /\ rec.a = a /\ rec.at \in {"removed", "kicking"}
        /\ rec.at = "kicking" => rec.uid \in Bot
    OBVIOUS
  <2>2. op' = [op EXCEPT ![o] = rec] /\ row[r] # "none"
        /\ UNCHANGED <<rowVars, discVars, histVars, notify, shown>>
    BY <1>1 DEF KickRead, Live
  <2> HIDE DEF rec
  <2>3. TypeOK'
    BY <2>1, <2>2
  <2>4. op'[o] = rec /\ \A p \in Op \ {o} : op'[p] = op[p]
    BY <2>2
  <2>5. Stands'
    BY <2>1, <2>2, <2>4
  <2>6. OneCreator' /\ RoomOrder'
    BY <2>1, <2>2, <2>4
  <2> QED BY <2>3, <2>5, <2>6
<1>3. CASE RemoveRefused(o)
  BY <1>3 DEF RemoveRefused, GivesUp
<1>4. CASE KickCommit(o)
  <2>1. TypeOK'
    BY <1>4 DEF KickCommit, DropMember, Settle, WillPublish
  <2>2. Stands' /\ OneCreator'
    BY <1>4 DEF KickCommit, WillPublish
  <2>3. RoomOrder'
    BY <1>4 DEF KickCommit, Settle
  <2> QED BY <2>1, <2>2, <2>3
<1>5. CASE KickFail(o)
  BY <1>5 DEF KickFail, GivesUp
<1> QED BY <1>1, <1>2, <1>3, <1>4, <1>5

LEMMA StandsKept ==
    ASSUME Stands, UNCHANGED <<row, chan>>,
           \A p \in Op : /\ op'[p].at = op[p].at /\ op'[p].r = op[p].r /\ op'[p].a = op[p].a
                         /\ op'[p].uid = op[p].uid /\ op'[p].sub = op[p].sub
    PROVE  Stands'
BY DEF Stands

LEMMA CoreWorld == ASSUME Core, World PROVE Core'
<1> USE DEF Core, TypeOK, Stands, OneCreator, RoomOrder, Creating, OnPair
<1>0. \A a \in Account : View(a) \subseteq Room \X {0, 1}
  BY DEF View
<1>1. ASSUME NEW a \in Account, NEW b \in Bot, CaptureIdentity(a, b) PROVE Core'
  <2>1. /\ op' \in [Op -> Request] /\ settled' \in [Room -> SUBSET Account]
        /\ \A r \in Room : settled'[r] = settled[r] \ {a}
        /\ \A p \in Op : /\ op'[p].at = op[p].at /\ op'[p].r = op[p].r /\ op'[p].a = op[p].a
                          /\ op'[p].uid = op[p].uid /\ op'[p].sub = op[p].sub
    BY <1>1, IdentityLostKeeps DEF CaptureIdentity
  <2>2. TypeOK'
    BY <1>1, <2>1 DEF CaptureIdentity
  <2>3. Stands'
    <3>1. UNCHANGED <<row, chan>> /\ Stands
      BY <1>1 DEF CaptureIdentity
    <3> HIDE DEF Core, TypeOK, Stands
    <3> QED BY <2>1, <3>1, StandsKept
  <2>4. OneCreator'
    BY <2>1
  <2>5. RoomOrder'
    BY <1>1, <2>1 DEF CaptureIdentity
  <2> QED BY <2>2, <2>3, <2>4, <2>5
<1>2. ASSUME NEW a \in Account, DeleteAccount(a) PROVE Core'
  <2>1. /\ op' \in [Op -> Request] /\ settled' \in [Room -> SUBSET Account]
        /\ \A r \in Room : settled'[r] = settled[r] \ {a}
        /\ \A p \in Op : /\ op'[p].at = op[p].at /\ op'[p].r = op[p].r /\ op'[p].a = op[p].a
                          /\ op'[p].uid = op[p].uid /\ op'[p].sub = op[p].sub
    BY <1>2, IdentityLostKeeps DEF DeleteAccount
  <2>2. TypeOK'
    BY <1>2, <2>1 DEF DeleteAccount
  <2>3. Stands'
    <3>1. UNCHANGED <<row, chan>> /\ Stands
      BY <1>2 DEF DeleteAccount
    <3> HIDE DEF Core, TypeOK, Stands
    <3> QED BY <2>1, <3>1, StandsKept
  <2>4. OneCreator'
    BY <2>1
  <2>5. RoomOrder'
    BY <1>2, <2>1 DEF DeleteAccount
  <2> QED BY <2>2, <2>3, <2>4, <2>5
<1>3. ASSUME NEW r \in Room, ChannelRemoved(r) PROVE Core'
  BY <1>3 DEF ChannelRemoved, ChannelGone
<1>4. ASSUME NEW r \in Room, IngestChannelDeleted(r) PROVE Core'
  BY <1>4 DEF IngestChannelDeleted, SetRow, Members
<1>5. ASSUME NEW r \in Room, NotifyArchived(r) PROVE Core'
  <2>1. shown' \in [Account -> SUBSET (Room \X {0, 1})] /\ missed' \subseteq Account
    BY <1>0, <1>5 DEF NotifyArchived, Published
  <2> QED BY <1>5, <2>1 DEF NotifyArchived
<1>6. ASSUME NEW r \in Room, EventOver(r) PROVE Core'
  BY <1>6 DEF EventOver
<1>7. CASE Crash
  BY <1>0, <1>7 DEF Crash, Idle, Request
<1> QED BY <1>1, <1>2, <1>3, <1>4, <1>5, <1>6, <1>7 DEF World

LEMMA CoreNext == Core /\ [Next]_vars => Core'
<1> SUFFICES ASSUME Core, [Next]_vars PROVE Core'
  OBVIOUS
<1>1. CASE World
  BY <1>1, CoreWorld
<1>2. ASSUME NEW o \in Op, Begin(o) PROVE Core'
  BY <1>2, CoreCreate, CoreRows, CoreInvite, CoreKick DEF Begin
<1>3. ASSUME NEW o \in Op, Continue(o) PROVE Core'
  BY <1>3, CoreCreate, CoreDelete, CoreInvite, CoreKick, CoreShared DEF Continue
<1>4. CASE UNCHANGED vars
  BY <1>4 DEF vars, Core, TypeOK, Stands, OneCreator, RoomOrder
<1> QED BY <1>1, <1>2, <1>3, <1>4 DEF Next

----------------------------------------------------------------------------
(* What the steps leave alone *)

\* The steps of a request that change no row and publish nobody.
Quiet(o) ==
    \/ \E r \in Room, a \in Account : CreateChannel(o, r, a) \/ KickRead(o, r, a)
    \/ \E r \in Room : DeleteSnapshot(o, r)
    \/ \E r \in Room, a \in Account, sub \in {"watching", "subscribed"} : InviteRead(o, r, a, sub)
    \/ CreateFail(o) \/ CreateUndo(o) \/ DeleteChannel(o) \/ DeleteRefused(o) \/ DeleteFail(o)
    \/ AddMember(o) \/ AddRefused(o) \/ InviteFail(o)
    \/ RemoveMember(o) \/ RemoveRefused(o) \/ KickFail(o)

\* The steps that change a row.
Changes(o) ==
    \/ \E r \in Room : Rename(o, r) \/ Archive(o, r)
    \/ \E r \in Room, a \in Account, sub \in {"watching", "subscribed"} : UpdateMembership(o, r, a, sub)
    \/ CreateCommit(o) \/ DeleteCommit(o) \/ InviteCommit(o) \/ KickCommit(o)

LEMMA Steps ==
    ASSUME [Next]_vars
    PROVE  \/ World \/ UNCHANGED vars
           \/ \E o \in Op : Quiet(o) \/ Changes(o) \/ Publish(o) \/ FanOut(o) \/ FanFail(o)
BY DEF Next, Begin, Continue, Quiet, Changes

LEMMA QuietKeeps ==
    ASSUME NEW o \in Op, Quiet(o)
    PROVE  UNCHANGED <<rowVars, notify, shown, missed>> /\ op[o].at \notin {"publish", "fan"}
<1> USE DEF GivesUp
<1>1. ASSUME NEW r \in Room, NEW a \in Account, CreateChannel(o, r, a) \/ KickRead(o, r, a)
      PROVE  UNCHANGED <<rowVars, notify, shown, missed>> /\ op[o].at \notin {"publish", "fan"}
  BY <1>1 DEF CreateChannel, KickRead
<1>2. ASSUME NEW r \in Room, DeleteSnapshot(o, r)
      PROVE  UNCHANGED <<rowVars, notify, shown, missed>> /\ op[o].at \notin {"publish", "fan"}
  BY <1>2 DEF DeleteSnapshot
<1>3. ASSUME NEW r \in Room, NEW a \in Account, NEW sub \in {"watching", "subscribed"}, InviteRead(o, r, a, sub)
      PROVE  UNCHANGED <<rowVars, notify, shown, missed>> /\ op[o].at \notin {"publish", "fan"}
  BY <1>3 DEF InviteRead
<1>4. CASE CreateFail(o) \/ CreateUndo(o) \/ DeleteChannel(o) \/ DeleteRefused(o) \/ DeleteFail(o)
  BY <1>4 DEF CreateFail, CreateUndo, DeleteChannel, DeleteRefused, DeleteFail
<1>5. CASE AddMember(o) \/ AddRefused(o) \/ InviteFail(o)
  BY <1>5 DEF AddMember, AddRefused, InviteFail
<1>6. CASE RemoveMember(o) \/ RemoveRefused(o) \/ KickFail(o)
  BY <1>6 DEF RemoveMember, RemoveRefused, KickFail
<1> QED BY <1>1, <1>2, <1>3, <1>4, <1>5, <1>6 DEF Quiet

\* A request moves only itself.
LEMMA OthersStay ==
    ASSUME Core, NEW o \in Op, Begin(o) \/ Continue(o), NEW p \in Op \ {o}
    PROVE  /\ op'[p].at = op[p].at /\ op'[p].r = op[p].r /\ op'[p].a = op[p].a
           /\ op'[p].uid = op[p].uid /\ op'[p].todo = op[p].todo
           /\ op'[p].clean = "yes" => op[p].clean = "yes"
<1> DEFINE Same == /\ op'[p].at = op[p].at /\ op'[p].r = op[p].r /\ op'[p].a = op[p].a
                   /\ op'[p].uid = op[p].uid /\ op'[p].todo = op[p].todo
                   /\ op'[p].clean = "yes" => op[p].clean = "yes"
<1>1. ASSUME NEW r \in Room, NEW b, NEW rec \in Request, Disturbs(o, r, b, rec) PROVE Same
  BY <1>1, DisturbsKeeps DEF Core
<1>2. ASSUME op'[p] = op[p] PROVE Same
  BY <1>2
<1>3. op \in [Op -> Request] /\ p # o
  BY DEF Core, TypeOK
<1> SUFFICES Same
  OBVIOUS
<1> HIDE DEF Same
<1> USE <1>2, <1>3 DEF Ends, Goes, GivesUp, WillPublish
<1>4. ASSUME NEW r \in Room, NEW a \in Account, CreateChannel(o, r, a) PROVE Same
  BY <1>4 DEF CreateChannel
<1>5. ASSUME NEW r \in Room, NEW a \in Account, KickRead(o, r, a) PROVE Same
  BY <1>5 DEF KickRead
<1>6. ASSUME NEW r \in Room, Rename(o, r) \/ Archive(o, r) \/ DeleteSnapshot(o, r) PROVE Same
  BY <1>6 DEF Rename, Archive, DeleteSnapshot
<1>7. ASSUME NEW r \in Room, NEW a \in Account, NEW sub \in {"watching", "subscribed"},
             InviteRead(o, r, a, sub) \/ UpdateMembership(o, r, a, sub)
      PROVE  Same
  BY <1>7 DEF InviteRead, UpdateMembership
<1>8. CASE CreateCommit(o) \/ CreateFail(o) \/ CreateUndo(o)
  BY <1>8 DEF CreateCommit, CreateFail, CreateUndo
<1>9. CASE DeleteChannel(o) \/ DeleteRefused(o) \/ DeleteCommit(o) \/ DeleteFail(o)
  BY <1>9 DEF DeleteChannel, DeleteRefused, DeleteCommit, DeleteFail
<1>10. CASE AddMember(o) \/ RemoveMember(o)
  <2>1. op[o].r \in Room
    BY <1>10 DEF AddMember, RemoveMember, Core, Stands, OnPair
  <2>2. Called(o, "granted") \in Request /\ Called(o, "removed") \in Request /\ Idle \in Request
    BY CalledIs, IdleIs DEF Core
  <2>3. PICK rec \in Request : Disturbs(o, op[o].r, op[o].uid, rec)
    BY <1>10, <2>2 DEF AddMember, RemoveMember
  <2> QED BY <1>1, <2>1, <2>3
<1>11. CASE AddRefused(o) \/ InviteCommit(o) \/ InviteFail(o)
  BY <1>11 DEF AddRefused, InviteCommit, InviteFail
<1>12. CASE RemoveRefused(o) \/ KickCommit(o) \/ KickFail(o)
  BY <1>12 DEF RemoveRefused, KickCommit, KickFail
<1>13. CASE Publish(o) \/ FanOut(o) \/ FanFail(o)
  BY <1>13 DEF Publish, FanOut, FanFail
<1>14. CASE Begin(o)
  BY <1>14, <1>4, <1>5, <1>6, <1>7 DEF Begin
<1>15. CASE Continue(o)
  BY <1>15, <1>8, <1>9, <1>10, <1>11, <1>12, <1>13 DEF Continue
<1> QED BY <1>14, <1>15

----------------------------------------------------------------------------
(* Memberships *)

LEMMA NoMemberNext ==
    ASSUME Core, NoMemberOfNothing, [Next]_vars
    PROVE  NoMemberOfNothing'
<1> USE DEF NoMemberOfNothing, Live
<1>1. ASSUME UNCHANGED rowVars PROVE NoMemberOfNothing'
  BY <1>1
<1>2. ASSUME NEW o \in Op, Quiet(o) PROVE NoMemberOfNothing'
  BY <1>1, <1>2, QuietKeeps
<1>3. ASSUME NEW o \in Op, Publish(o) \/ FanOut(o) \/ FanFail(o) PROVE NoMemberOfNothing'
  BY <1>1, <1>3 DEF Publish, FanOut, FanFail
<1>4. ASSUME NEW o \in Op, Changes(o) PROVE NoMemberOfNothing'
  <2> USE DEF Core, TypeOK, SetRow, PutMember
  <2>1. ASSUME NEW r \in Room, Rename(o, r) \/ Archive(o, r) PROVE NoMemberOfNothing'
    BY <2>1 DEF Rename, Archive
  <2>2. ASSUME NEW r \in Room, NEW a \in Account, NEW sub \in {"watching", "subscribed"},
               UpdateMembership(o, r, a, sub)
        PROVE  NoMemberOfNothing'
    BY <2>2 DEF UpdateMembership
  <2>3. CASE CreateCommit(o)
    BY <2>3 DEF CreateCommit, Stands, Creating
  <2>4. CASE DeleteCommit(o)
    BY <2>4 DEF DeleteCommit, DropMembers, Stands
  <2>5. CASE InviteCommit(o)
    BY <2>5 DEF InviteCommit, Stands, OnPair
  <2>6. CASE KickCommit(o)
    BY <2>6 DEF KickCommit, DropMember, Stands, OnPair
  <2> QED BY <1>4, <2>1, <2>2, <2>3, <2>4, <2>5, <2>6 DEF Changes
<1>5. CASE World
  <2>1. ASSUME NEW a \in Account, DeleteAccount(a) \/ \E b \in Bot : CaptureIdentity(a, b)
        PROVE  NoMemberOfNothing'
    BY <2>1 DEF CaptureIdentity, DeleteAccount, Core, TypeOK
  <2>2. ASSUME NEW r \in Room, IngestChannelDeleted(r) PROVE NoMemberOfNothing'
    BY <2>2 DEF IngestChannelDeleted, SetRow, Core, TypeOK
  <2>3. ASSUME NEW r \in Room, ChannelRemoved(r) \/ NotifyArchived(r) \/ EventOver(r)
        PROVE  NoMemberOfNothing'
    BY <1>1, <2>3 DEF ChannelRemoved, NotifyArchived, EventOver
  <2>4. CASE Crash
    BY <1>1, <2>4 DEF Crash
  <2> QED BY <1>5, <2>1, <2>2, <2>3, <2>4 DEF World
<1> QED BY <1>1, <1>2, <1>3, <1>4, <1>5, Steps DEF vars

----------------------------------------------------------------------------
(* Permissions *)

\* The steps of a request at Discord.
Calls(o) ==
    \/ \E r \in Room, a \in Account : CreateChannel(o, r, a)
    \/ CreateUndo(o) \/ DeleteChannel(o) \/ AddMember(o) \/ RemoveMember(o)

LEMMA OtherwiseKept ==
    ASSUME NEW o \in Op, Begin(o) \/ Continue(o), ~Calls(o)
    PROVE  UNCHANGED <<bot, chan, grant>>
<1> USE DEF GivesUp
<1>1. ASSUME NEW r \in Room,
             \/ Rename(o, r) \/ Archive(o, r) \/ DeleteSnapshot(o, r)
             \/ \E a \in Account : KickRead(o, r, a)
             \/ \E a \in Account, sub \in {"watching", "subscribed"} :
                    InviteRead(o, r, a, sub) \/ UpdateMembership(o, r, a, sub)
      PROVE  UNCHANGED <<bot, chan, grant>>
  BY <1>1 DEF Rename, Archive, DeleteSnapshot, KickRead, InviteRead, UpdateMembership
<1>2. CASE Begin(o)
  BY <1>1, <1>2 DEF Begin, Calls
<1>3. CASE Continue(o)
  BY <1>3 DEF Continue, Calls, CreateCommit, CreateFail, DeleteRefused, DeleteCommit, DeleteFail,
        AddRefused, InviteCommit, InviteFail, RemoveRefused, KickCommit, KickFail,
        Publish, FanOut, FanFail
<1> QED BY <1>2, <1>3

\* Request p is right where it stands.
Right(p) ==
    op[p].clean = "yes" /\ op[p].at \in OnPair =>
        /\ op[p].uid = bot[op[p].a]
        /\ chan[op[p].r] = "up" =>
              /\ op[p].at = "granted" => op[p].uid \in grant[op[p].r]
              /\ op[p].at = "removed" => op[p].uid \notin grant[op[p].r]

\* A step after which the permissions of open channels are the same, and the
\* request itself has not just called.
LEMMA CleanStep ==
    ASSUME Core, CleanIsRight, NEW o \in Op, Begin(o) \/ Continue(o), UNCHANGED bot,
           Right(o)',
           \A q \in Room : row[q] # "none" /\ chan'[q] = "up" => chan[q] = "up" /\ grant'[q] = grant[q]
    PROVE  CleanIsRight'
<1> SUFFICES ASSUME NEW p \in Op \ {o}, op'[p].clean = "yes", op'[p].at \in OnPair
             PROVE  Right(p)'
  BY DEF CleanIsRight, Right
<1>1. /\ op'[p].at = op[p].at /\ op'[p].r = op[p].r /\ op'[p].a = op[p].a
      /\ op'[p].uid = op[p].uid /\ op[p].clean = "yes"
  BY OthersStay
<1>2. op[p].r \in Room /\ row[op[p].r] # "none"
  BY <1>1 DEF Core, Stands
<1> QED BY <1>1, <1>2 DEF CleanIsRight, Right

\* The request has called for bot b: it finds the permission as it left it,
\* and whoever called for the bot before it is disturbed.
LEMMA CleanCall ==
    ASSUME Core, CleanIsRight, NEW o \in Op, NEW r \in Room, NEW b \in Bot, NEW rec \in Request,
           Disturbs(o, r, b, rec), UNCHANGED <<bot, chan>>,
           \/ rec.at = "idle"
           \/ rec.at = "granted" /\ rec.r = r /\ rec.uid = b /\ b \in grant'[r]
           \/ rec.at = "removed" /\ rec.r = r /\ rec.uid = b /\ b \notin grant'[r],
           rec.at # "idle" /\ rec.clean = "yes" => rec.uid = bot[rec.a],
           \A q \in Room, c \in Bot \cup {None} :
              <<q, c>> # <<r, b>> => (c \in grant'[q] <=> c \in grant[q])
    PROVE  CleanIsRight'
<1> SUFFICES ASSUME NEW p \in Op, op'[p].clean = "yes", op'[p].at \in OnPair
             PROVE  Right(p)'
  BY DEF CleanIsRight, Right
<1>1. CASE p = o
  <2>1. op'[o] = rec
    BY DisturbsKeeps DEF Core
  <2> QED BY <1>1, <2>1 DEF OnPair, Right
<1>2. CASE p # o
  <2>1. /\ op'[p].at = op[p].at /\ op'[p].r = op[p].r /\ op'[p].a = op[p].a /\ op'[p].uid = op[p].uid
        /\ op[p].clean = "yes" /\ p \notin Between(r, b)
    BY <1>2, DisturbsKeeps DEF Core
  <2>2. op[p].r \in Room /\ op[p].uid \in Bot \cup {None}
    BY <2>1 DEF Core, Stands, TypeOK, Request
  <2>3. op[p].at \in {"granted", "removed"} => <<op[p].r, op[p].uid>> # <<r, b>>
    BY <2>1 DEF Between
  <2> QED BY <2>1, <2>2, <2>3 DEF CleanIsRight, Right
<1> QED BY <1>1, <1>2

\* What a call that answers, or loses its answer, does to the permission.
LEMMA CallIs ==
    ASSUME Core, NEW o \in Op, AddMember(o) \/ RemoveMember(o)
    PROVE  /\ op[o].r \in Room /\ op[o].uid \in Bot
           /\ UNCHANGED <<rowVars, chan>>
           /\ \A q \in Room, c \in Bot \cup {None} :
                 <<q, c>> # <<op[o].r, op[o].uid>> => (c \in grant'[q] <=> c \in grant[q])
           /\ \E rec \in Request :
                 /\ Disturbs(o, op[o].r, op[o].uid, rec)
                 /\ \/ rec.at = "idle"
                    \/ rec.at = "granted" /\ rec.r = op[o].r /\ rec.uid = op[o].uid /\ op[o].uid \in grant'[op[o].r]
                    \/ rec.at = "removed" /\ rec.r = op[o].r /\ rec.uid = op[o].uid /\ op[o].uid \notin grant'[op[o].r]
                 /\ rec.at # "idle" /\ rec.clean = "yes" => rec.uid = bot[rec.a]
<1>1. op[o].r \in Room /\ op[o].uid \in Bot
  BY DEF AddMember, RemoveMember, Core, Stands, OnPair
<1>2. UNCHANGED <<rowVars, chan>>
  BY DEF AddMember, RemoveMember
<1>3. grant \in [Room -> SUBSET Bot]
  BY DEF Core, TypeOK
<1>4. CASE AddMember(o)
  <2>1. grant' = [grant EXCEPT ![op[o].r] = @ \cup {op[o].uid}]
    BY <1>4 DEF AddMember
  <2>2. Disturbs(o, op[o].r, op[o].uid, Called(o, "granted")) \/ Disturbs(o, op[o].r, op[o].uid, Idle)
    BY <1>4 DEF AddMember
  <2>3. TypeOK
    BY DEF Core
  <2> HIDE DEF rowVars
  <2> QED BY <1>1, <1>2, <1>3, <2>1, <2>2, <2>3, CalledIs, IdleIs
<1>5. CASE RemoveMember(o)
  <2>1. grant' = [grant EXCEPT ![op[o].r] = @ \ {op[o].uid}]
    BY <1>5 DEF RemoveMember
  <2>2. Disturbs(o, op[o].r, op[o].uid, Called(o, "removed")) \/ Disturbs(o, op[o].r, op[o].uid, Idle)
    BY <1>5 DEF RemoveMember
  <2>3. TypeOK
    BY DEF Core
  <2> HIDE DEF rowVars
  <2> QED BY <1>1, <1>2, <1>3, <2>1, <2>2, <2>3, CalledIs, IdleIs
<1> QED BY <1>4, <1>5

\* A kick that finds no bot has no call to make: nobody granted to nothing.
LEMMA KickReadIsRight ==
    ASSUME Core, NEW o \in Op, NEW r \in Room, NEW a \in Account, KickRead(o, r, a)
    PROVE  Right(o)' /\ UNCHANGED <<rowVars, discVars, histVars>>
<1>1. /\ op'[o].r = r /\ op'[o].a = a /\ op'[o].uid = bot[a]
      /\ op'[o].clean = "yes" => op'[o].at = "removed" /\ bot[a] = None
      /\ UNCHANGED <<rowVars, discVars, histVars>>
  BY DEF KickRead, Core, TypeOK
<1>2. None \notin grant[r]
  BY RoomAssumption DEF Core, TypeOK
<1> QED BY <1>1, <1>2 DEF Right

LEMMA CleanNext ==
    ASSUME Core, CleanIsRight, [Next]_vars
    PROVE  CleanIsRight'
<1>0. op \in [Op -> Request]
  BY DEF Core, TypeOK
<1>1. ASSUME NEW o \in Op, Begin(o) \/ Continue(o), UNCHANGED <<bot, chan, grant>>,
             op'[o].clean = "no" \/ op'[o].at \notin OnPair
      PROVE  CleanIsRight'
  <2>1. Right(o)'
    BY <1>1 DEF Right
  <2> QED BY <1>1, <2>1, CleanStep
<1>2. ASSUME NEW o \in Op, Begin(o) PROVE CleanIsRight'
  <2> USE <1>0 DEF Goes, WillPublish
  <2>1. ASSUME NEW r \in Room, NEW a \in Account, CreateChannel(o, r, a) PROVE CleanIsRight'
    <3>1. Right(o)' /\ UNCHANGED bot
      BY <2>1 DEF CreateChannel, OnPair, Right
    <3>2. \A q \in Room : row[q] # "none" /\ chan'[q] = "up" => chan[q] = "up" /\ grant'[q] = grant[q]
      BY <2>1 DEF CreateChannel, Core, TypeOK, RoomOrder
    <3> QED BY <1>2, <3>1, <3>2, CleanStep
  <2>2. ASSUME NEW r \in Room, NEW a \in Account, KickRead(o, r, a) PROVE CleanIsRight'
    <3>1. Right(o)' /\ UNCHANGED <<bot, chan, grant>>
      BY <2>2, KickReadIsRight
    <3> QED BY <1>2, <3>1, CleanStep
  <2>3. ASSUME NEW r \in Room, Rename(o, r) \/ Archive(o, r) \/ DeleteSnapshot(o, r) PROVE CleanIsRight'
    <3>1. op'[o].clean = "no" /\ UNCHANGED <<bot, chan, grant>>
      BY <2>3 DEF Rename, Archive, DeleteSnapshot
    <3> QED BY <1>1, <1>2, <3>1
  <2>4. ASSUME NEW r \in Room, NEW a \in Account, NEW sub \in {"watching", "subscribed"},
               InviteRead(o, r, a, sub) \/ UpdateMembership(o, r, a, sub)
        PROVE  CleanIsRight'
    <3>1. op'[o].clean = "no" /\ UNCHANGED <<bot, chan, grant>>
      BY <2>4 DEF InviteRead, UpdateMembership
    <3> QED BY <1>1, <1>2, <3>1
  <2> QED BY <1>2, <2>1, <2>2, <2>3, <2>4 DEF Begin
<1>3. ASSUME NEW o \in Op, Continue(o) PROVE CleanIsRight'
  <2>1. CASE AddMember(o) \/ RemoveMember(o)
    <3>1. PICK rec \in Request :
             /\ Disturbs(o, op[o].r, op[o].uid, rec)
             /\ \/ rec.at = "idle"
                \/ rec.at = "granted" /\ rec.r = op[o].r /\ rec.uid = op[o].uid /\ op[o].uid \in grant'[op[o].r]
                \/ rec.at = "removed" /\ rec.r = op[o].r /\ rec.uid = op[o].uid /\ op[o].uid \notin grant'[op[o].r]
             /\ rec.at # "idle" /\ rec.clean = "yes" => rec.uid = bot[rec.a]
      BY <2>1, CallIs
    <3>2. /\ op[o].r \in Room /\ op[o].uid \in Bot /\ UNCHANGED <<bot, chan>>
          /\ \A q \in Room, c \in Bot \cup {None} :
                <<q, c>> # <<op[o].r, op[o].uid>> => (c \in grant'[q] <=> c \in grant[q])
      BY <2>1, CallIs
    <3> QED BY <3>1, <3>2, CleanCall
  <2>2. CASE CreateUndo(o) \/ DeleteChannel(o)
    <3>1. Right(o)' /\ UNCHANGED bot
      BY <1>0, <2>2 DEF CreateUndo, DeleteChannel, Ends, Idle, Right
    <3>2. \A q \in Room : row[q] # "none" /\ chan'[q] = "up" => chan[q] = "up" /\ grant'[q] = grant[q]
      BY <2>2 DEF CreateUndo, DeleteChannel, ChannelGone, Core, TypeOK, Stands, Creating
    <3> QED BY <1>3, <3>1, <3>2, CleanStep
  <2>3. CASE ~Calls(o)
    <3>1. op'[o].clean = "no"
      BY <1>0, <1>3, <2>3 DEF Continue, Calls, CreateCommit, CreateFail, DeleteRefused, DeleteCommit, DeleteFail,
        AddRefused, InviteCommit, InviteFail, RemoveRefused, KickCommit, KickFail,
        Publish, FanOut, FanFail, GivesUp, Ends, Idle, Goes, WillPublish
    <3> QED BY <1>1, <1>3, <2>3, <3>1, OtherwiseKept
  <2>4. CASE \E r \in Room, a \in Account : CreateChannel(o, r, a)
    BY <1>2, <2>4 DEF Begin
  <2> QED BY <2>1, <2>2, <2>3, <2>4 DEF Calls
<1>4. CASE World
  <2> USE DEF CleanIsRight
  <2>1. ASSUME NEW r \in Room, ChannelRemoved(r) PROVE CleanIsRight'
    BY <2>1 DEF ChannelRemoved, ChannelGone, Core, TypeOK, Stands
  <2>2. CASE Crash
    BY <2>2 DEF Crash, Idle
  <2>3. ASSUME NEW a \in Account, IdentityLost(a), UNCHANGED <<chan, grant>>,
               \A x \in Account \ {a} : bot'[x] = bot[x]
        PROVE  CleanIsRight'
    <3> SUFFICES ASSUME NEW p \in Op, op'[p].clean = "yes", op'[p].at \in OnPair
                 PROVE  Right(p)'
      BY DEF Right
    <3>1. /\ op'[p].at = op[p].at /\ op'[p].r = op[p].r /\ op'[p].a = op[p].a
          /\ op'[p].uid = op[p].uid /\ op[p].clean = "yes" /\ op[p].a # a
      BY <2>3, IdentityLostKeeps DEF Core
    <3>2. op[p].a \in Account
      BY <3>1 DEF Core, Stands
    <3> QED BY <2>3, <3>1, <3>2 DEF Right
  <2>4. ASSUME NEW a \in Account, DeleteAccount(a) \/ \E b \in Bot : CaptureIdentity(a, b)
        PROVE  CleanIsRight'
    <3>1. IdentityLost(a) /\ UNCHANGED <<chan, grant>> /\ \A x \in Account \ {a} : bot'[x] = bot[x]
      BY <2>4 DEF CaptureIdentity, DeleteAccount, Core, TypeOK
    <3> QED BY <2>3, <3>1
  <2> QED BY <1>4, <2>1, <2>2, <2>4 DEF World, IngestChannelDeleted, NotifyArchived, EventOver
<1>5. CASE UNCHANGED vars
  BY <1>5 DEF vars, CleanIsRight
<1> QED BY <1>2, <1>3, <1>4, <1>5 DEF Next

----------------------------------------------------------------------------
(* Rows agree with permissions *)

\* Nothing was settled in this step, and what is settled kept both its row
\* and its permission.
LEMMA RowsKept ==
    ASSUME RowsMatchPermissions,
           \A r \in Room : \A a \in settled'[r] :
              row'[r] \in {"open", "archived"} /\ chan'[r] = "up" =>
                 /\ a \in settled[r] /\ Live(r) /\ chan[r] = "up"
                 /\ bot'[a] \in grant'[r] <=> bot[a] \in grant[r]
                 /\ member'[r][a] # "out" <=> member[r][a] # "out"
    PROVE  RowsMatchPermissions'
BY DEF RowsMatchPermissions, Live

LEMMA RowsNext ==
    ASSUME Core, CleanIsRight, RowsMatchPermissions, [Next]_vars
    PROVE  RowsMatchPermissions'
<1>0. ASSUME UNCHANGED <<bot, row, member, chan, grant, settled>> PROVE RowsMatchPermissions'
  BY <1>0 DEF RowsMatchPermissions, Live
<1>1. ASSUME NEW r \in Room, ChannelGone(r), UNCHANGED rowVars PROVE RowsMatchPermissions'
  BY <1>1, RowsKept DEF ChannelGone, Core, TypeOK, Live
<1>2. ASSUME NEW o \in Op, NEW r \in Room, NEW b \in Bot, NEW rec \in Request,
             Disturbs(o, r, b, rec), UNCHANGED <<rowVars, chan>>,
             \A q \in Room, c \in Bot \cup {None} :
                <<q, c>> # <<r, b>> => (c \in grant'[q] <=> c \in grant[q])
      PROVE  RowsMatchPermissions'
  <2>1. settled' = [settled EXCEPT ![r] = {x \in @ : bot[x] # b}]
    BY <1>2 DEF Disturbs
  <2> QED BY <1>2, <2>1, RowsKept DEF Core, TypeOK, Live
<1>3. ASSUME NEW o \in Op, Quiet(o) PROVE RowsMatchPermissions'
  <2>1. ASSUME NEW r \in Room, NEW a \in Account, CreateChannel(o, r, a) PROVE RowsMatchPermissions'
    BY <2>1, RowsKept DEF CreateChannel, Core, TypeOK, RoomOrder, Live
  <2>2. ASSUME NEW r \in Room, NEW a \in Account, KickRead(o, r, a) PROVE RowsMatchPermissions'
    BY <1>0, <2>2 DEF KickRead
  <2>3. CASE CreateUndo(o) \/ DeleteChannel(o)
    <3>1. op[o].r \in Room
      BY <2>3 DEF CreateUndo, DeleteChannel, Core, Stands, Creating
    <3> QED BY <1>0, <1>1, <2>3, <3>1 DEF CreateUndo, DeleteChannel
  <2>4. CASE AddMember(o) \/ RemoveMember(o)
    <3>1. PICK rec \in Request : Disturbs(o, op[o].r, op[o].uid, rec)
      BY <2>4, CallIs
    <3>2. /\ op[o].r \in Room /\ op[o].uid \in Bot /\ UNCHANGED <<rowVars, chan>>
          /\ \A q \in Room, c \in Bot \cup {None} :
                <<q, c>> # <<op[o].r, op[o].uid>> => (c \in grant'[q] <=> c \in grant[q])
      BY <2>4, CallIs
    <3> HIDE DEF rowVars
    <3> QED BY <1>2, <3>1, <3>2
  <2>5. CASE \/ \E r \in Room : DeleteSnapshot(o, r)
             \/ \E r \in Room, a \in Account, sub \in {"watching", "subscribed"} : InviteRead(o, r, a, sub)
             \/ CreateFail(o) \/ DeleteRefused(o) \/ DeleteFail(o)
             \/ AddRefused(o) \/ InviteFail(o) \/ RemoveRefused(o) \/ KickFail(o)
    BY <1>0, <2>5 DEF DeleteSnapshot, InviteRead, CreateFail, DeleteRefused, DeleteFail,
          AddRefused, InviteFail, RemoveRefused, KickFail, GivesUp
  <2> QED BY <1>3, <2>1, <2>2, <2>3, <2>4, <2>5 DEF Quiet
<1>4. ASSUME NEW o \in Op, Changes(o) PROVE RowsMatchPermissions'
  <2> USE DEF Core, TypeOK, SetRow, PutMember, Live
  <2>1. ASSUME NEW r \in Room, Rename(o, r) \/ Archive(o, r) PROVE RowsMatchPermissions'
    BY <2>1, RowsKept DEF Rename, Archive
  <2>2. ASSUME NEW r \in Room, NEW a \in Account, NEW sub \in {"watching", "subscribed"},
               UpdateMembership(o, r, a, sub)
        PROVE  RowsMatchPermissions'
    BY <2>2, RowsKept DEF UpdateMembership
  <2>3. CASE CreateCommit(o)
    BY <2>3, RowsKept DEF CreateCommit, Stands, Creating, RoomOrder
  <2>4. CASE DeleteCommit(o)
    BY <2>4, RowsKept DEF DeleteCommit, DropMembers, Stands
  <2>5. CASE InviteCommit(o)
    <3>1. op[o].r \in Room /\ op[o].a \in Account /\ op[o].sub # "out"
      BY <2>5 DEF InviteCommit, Stands, OnPair
    <3>2. op[o].clean = "yes" /\ chan[op[o].r] = "up" => bot[op[o].a] \in grant[op[o].r]
      BY <2>5 DEF InviteCommit, CleanIsRight, OnPair
    <3> QED BY <2>5, <3>1, <3>2 DEF InviteCommit, Settle, RowsMatchPermissions
  <2>6. CASE KickCommit(o)
    <3>1. op[o].r \in Room /\ op[o].a \in Account
      BY <2>6 DEF KickCommit, Stands, OnPair
    <3>2. op[o].clean = "yes" /\ chan[op[o].r] = "up" => bot[op[o].a] \notin grant[op[o].r]
      BY <2>6 DEF KickCommit, CleanIsRight, OnPair
    <3> QED BY <2>6, <3>1, <3>2 DEF KickCommit, DropMember, Settle, RowsMatchPermissions
  <2> QED BY <1>4, <2>1, <2>2, <2>3, <2>4, <2>5, <2>6 DEF Changes
<1>5. CASE World
  <2> USE DEF Core, TypeOK, Live
  <2>1. ASSUME NEW a \in Account, DeleteAccount(a) \/ \E b \in Bot : CaptureIdentity(a, b)
        PROVE  RowsMatchPermissions'
    BY <2>1, RowsKept DEF CaptureIdentity, DeleteAccount, IdentityLost
  <2>2. ASSUME NEW r \in Room, IngestChannelDeleted(r) PROVE RowsMatchPermissions'
    BY <2>2, RowsKept DEF IngestChannelDeleted, SetRow
  <2>3. ASSUME NEW r \in Room, ChannelRemoved(r) \/ NotifyArchived(r) \/ EventOver(r)
        PROVE  RowsMatchPermissions'
    BY <1>0, <1>1, <2>3 DEF ChannelRemoved, NotifyArchived, EventOver
  <2>4. CASE Crash
    BY <1>0, <2>4 DEF Crash
  <2> QED BY <1>5, <2>1, <2>2, <2>3, <2>4 DEF World
<1>6. ASSUME NEW o \in Op, Publish(o) \/ FanOut(o) \/ FanFail(o) PROVE RowsMatchPermissions'
  BY <1>0, <1>6 DEF Publish, FanOut, FanFail
<1> QED BY <1>0, <1>3, <1>4, <1>5, <1>6, Steps DEF vars

----------------------------------------------------------------------------
(* Channels *)

\* What nobody owns was given up, as long as requests only finish what they
\* create.
LEMMA OwnersKept ==
    ASSUME RoomOrder', ChannelsAreOwned,
           \A r \in Room : row'[r] = "none" /\ chan'[r] = "up" =>
              \/ r \in left'
              \/ \E o \in Op : op'[o].at \in Creating /\ op'[o].r = r
    PROVE  ChannelsAreOwned'
BY DEF ChannelsAreOwned, RoomOrder, Creating

LEMMA ChannelsNext ==
    ASSUME Core, ChannelsAreOwned, [Next]_vars
    PROVE  ChannelsAreOwned'
<1>0. op \in [Op -> Request] /\ RoomOrder'
  BY CoreNext DEF Core, TypeOK
<1> SUFFICES ASSUME NEW r \in Room, row'[r] = "none", chan'[r] = "up"
             PROVE  r \in left' \/ \E p \in Op : op'[p].at \in Creating /\ op'[p].r = r
  BY <1>0, OwnersKept
<1>1. ASSUME NEW o \in Op, NEW q \in Room, NEW a \in Account, CreateChannel(o, q, a), q = r
      PROVE  r \in left' \/ \E p \in Op : op'[p].at \in Creating /\ op'[p].r = r
  <2>1. CASE Goes(o, "made", q, a)
    <3>1. op'[o].at \in Creating /\ op'[o].r = r
      BY <1>0, <1>1, <2>1 DEF Goes, Creating
    <3> QED BY <3>1
  <2>2. CASE left' = left \cup {q}
    BY <1>1, <2>2
  <2> QED BY <1>1, <2>1, <2>2 DEF CreateChannel
<1>2. ASSUME NEW o \in Op, Begin(o) \/ Continue(o),
             ~ \E q \in Room, a \in Account : CreateChannel(o, q, a) /\ q = r
      PROVE  r \in left' \/ \E p \in Op : op'[p].at \in Creating /\ op'[p].r = r
  <2> DEFINE Before == row[r] = "none" /\ chan[r] = "up" /\ left \subseteq left'
             Hands  == op[o].at \in Creating /\ op[o].r = r =>
                          r \in left' \/ (op'[o].at \in Creating /\ op'[o].r = r)
  <2>1. Before /\ Hands
    <3> USE <1>0 DEF GivesUp, Core, TypeOK, SetRow, ChannelGone, Creating, Goes, Ends
    <3>1. ASSUME NEW q \in Room, Rename(o, q) \/ Archive(o, q) \/ DeleteSnapshot(o, q)
          PROVE  Before /\ Hands
      BY <3>1 DEF Rename, Archive, DeleteSnapshot, Live
    <3>2. ASSUME NEW q \in Room, NEW a \in Account, CreateChannel(o, q, a) \/ KickRead(o, q, a)
          PROVE  Before /\ Hands
      BY <1>2, <3>2 DEF CreateChannel, KickRead
    <3>3. ASSUME NEW q \in Room, NEW a \in Account, NEW sub \in {"watching", "subscribed"},
                 InviteRead(o, q, a, sub) \/ UpdateMembership(o, q, a, sub)
          PROVE  Before /\ Hands
      BY <3>3 DEF InviteRead, UpdateMembership
    <3>4. CASE CreateCommit(o)
      BY <3>4 DEF CreateCommit, Stands
    <3>5. CASE CreateFail(o)
      BY <3>5 DEF CreateFail, Stands
    <3>6. CASE CreateUndo(o)
      BY <3>6 DEF CreateUndo, Stands
    <3>7. CASE DeleteChannel(o) \/ DeleteRefused(o) \/ DeleteCommit(o) \/ DeleteFail(o)
      BY <3>7 DEF DeleteChannel, DeleteRefused, DeleteCommit, DeleteFail, Stands
    <3>8. CASE AddMember(o) \/ AddRefused(o) \/ InviteCommit(o) \/ InviteFail(o)
      <4>1. op[o].at \notin Creating
        BY <3>8 DEF AddMember, AddRefused, InviteCommit, InviteFail
      <4>2. UNCHANGED <<row, chan, left>>
        BY <3>8 DEF AddMember, AddRefused, InviteCommit, InviteFail
      <4> QED BY <4>1, <4>2
    <3>9. CASE RemoveMember(o) \/ RemoveRefused(o) \/ KickCommit(o) \/ KickFail(o)
      <4>1. op[o].at \notin Creating
        BY <3>9 DEF RemoveMember, RemoveRefused, KickCommit, KickFail
      <4>2. UNCHANGED <<row, chan, left>>
        BY <3>9 DEF RemoveMember, RemoveRefused, KickCommit, KickFail
      <4> QED BY <4>1, <4>2
    <3>10. CASE Publish(o) \/ FanOut(o) \/ FanFail(o)
      BY <3>10 DEF Publish, FanOut, FanFail
    <3> HIDE DEF Before, Hands
    <3>11. CASE Begin(o)
      BY <3>11, <3>1, <3>2, <3>3 DEF Begin
    <3>12. CASE Continue(o)
      BY <3>12, <3>4, <3>5, <3>6, <3>7, <3>8, <3>9, <3>10 DEF Continue
    <3> QED BY <1>2, <3>11, <3>12
  <2>2. CASE r \in left
    BY <2>1, <2>2
  <2>3. ASSUME NEW p \in Op, op[p].at \in Creating, op[p].r = r
        PROVE  r \in left' \/ \E x \in Op : op'[x].at \in Creating /\ op'[x].r = r
    BY <1>2, <2>1, <2>3, OthersStay
  <2> QED BY <2>1, <2>2, <2>3 DEF ChannelsAreOwned, Creating
<1>3. ASSUME NEW o \in Op, Begin(o) \/ Continue(o)
      PROVE  r \in left' \/ \E p \in Op : op'[p].at \in Creating /\ op'[p].r = r
  BY <1>1, <1>2, <1>3
<1>4. CASE World
  <2> USE DEF ChannelsAreOwned, Creating, Core, TypeOK
  <2>1. ASSUME NEW a \in Account, DeleteAccount(a) \/ \E b \in Bot : CaptureIdentity(a, b)
        PROVE  r \in left' \/ \E p \in Op : op'[p].at \in Creating /\ op'[p].r = r
    <3>1. IdentityLost(a) /\ UNCHANGED <<row, chan, left>>
      BY <2>1 DEF CaptureIdentity, DeleteAccount
    <3>2. \A p \in Op : op'[p].at = op[p].at /\ op'[p].r = op[p].r
      BY <3>1, IdentityLostKeeps
    <3> QED BY <3>1, <3>2
  <2>2. ASSUME NEW q \in Room,
               ChannelRemoved(q) \/ IngestChannelDeleted(q) \/ NotifyArchived(q) \/ EventOver(q)
        PROVE  r \in left' \/ \E p \in Op : op'[p].at \in Creating /\ op'[p].r = r
    <3>1. row[r] = "none" /\ chan[r] = "up"
      BY <2>2 DEF ChannelRemoved, ChannelGone, IngestChannelDeleted, SetRow, NotifyArchived, EventOver
    <3>2. UNCHANGED <<op, left>>
      BY <2>2 DEF ChannelRemoved, IngestChannelDeleted, NotifyArchived, EventOver
    <3> QED BY <3>1, <3>2
  <2>3. CASE Crash
    BY <2>3 DEF Crash
  <2> QED BY <1>4, <2>1, <2>2, <2>3 DEF World
<1>5. CASE UNCHANGED vars
  BY <1>5 DEF vars, ChannelsAreOwned, Creating
<1> QED BY <1>3, <1>4, <1>5 DEF Next

----------------------------------------------------------------------------
(* What the accounts are shown *)

Lists(r, a) == row[r] = "open" /\ member[r][a] = "subscribed"

LEMMA ViewKept ==
    ASSUME NEW a, \A q \in Room : Lists(q, a)' <=> Lists(q, a),
           \A q \in Room : Lists(q, a) => name'[q] = name[q]
    PROVE  View(a)' = View(a)
BY DEF View, Lists

\* A request that was not to publish takes nobody from those who are.
LEMMA ServersStay ==
    ASSUME Core, NEW o \in Op, Begin(o) \/ Continue(o), op[o].at \notin {"publish", "fan"},
           UNCHANGED notify, missed \subseteq missed',
           NEW a \in Account, Served(a),
           \A q \in Room : member[q][a] = "subscribed" => member'[q][a] = "subscribed"
    PROVE  Served(a)'
<1>1. CASE a \in missed \/ \E r \in Room : a \in notify[r]
  BY <1>1 DEF Served
<1>2. ASSUME NEW p \in Op, Serves(p, a) PROVE Served(a)'
  <2>1. p # o
    BY <1>2 DEF Serves
  <2>2. op'[p].at = op[p].at /\ op'[p].r = op[p].r /\ op'[p].todo = op[p].todo
    BY <2>1, OthersStay
  <2>3. op[p].at = "fan" => op[p].r \in Room
    BY DEF Core, Stands
  <2>4. Serves(p, a)'
    BY <1>2, <2>2, <2>3 DEF Serves
  <2> QED BY <2>4 DEF Served
<1> QED BY <1>1, <1>2 DEF Served

\* One account in a step of a request that was not to publish: it is served
\* afterwards, or the step is none of its business.
LEMMA StaleStep ==
    ASSUME Core, StaleIsServed, NEW o \in Op, Begin(o) \/ Continue(o), op[o].at \notin {"publish", "fan"},
           UNCHANGED <<acct, shown, notify>>, missed \subseteq missed', NEW a \in Account,
           \/ Served(a)'
           \/ /\ View(a)' = View(a)
              /\ \A q \in Room : member[q][a] = "subscribed" => member'[q][a] = "subscribed"
    PROVE  acct'[a] # "deleted" /\ shown'[a] # View(a)' => Served(a)'
BY ServersStay DEF StaleIsServed

\* After request o: whom it publishes, and whose fan-out it is, is served.
LEMMA NowServes ==
    ASSUME NEW o \in Op, NEW rec, op \in [Op -> Request], op' = [op EXCEPT ![o] = rec],
           NEW a, \/ rec.at = "publish" /\ a \in rec.todo
                  \/ rec.at = "fan" /\ member'[rec.r][a] = "subscribed"
    PROVE  Served(a)'
<1>1. op'[o] = rec
  OBVIOUS
<1>2. Serves(o, a)'
  BY <1>1 DEF Serves
<1> QED BY <1>2 DEF Served

LEMMA FannedOut ==
    ASSUME NEW o \in Op, NEW r, op \in [Op -> Request], Goes(o, "fan", r, None),
           NEW a, member'[r][a] = "subscribed"
    PROVE  Served(a)'
<1> DEFINE rec == [at |-> "fan", r |-> r, a |-> None, uid |-> None, sub |-> "out",
                   todo |-> {}, clean |-> "no"]
<1>1. op' = [op EXCEPT ![o] = rec] /\ rec.at = "fan" /\ rec.r = r
  BY DEF Goes
<1> HIDE DEF rec
<1> QED BY <1>1, NowServes

LEMMA ToBePublished ==
    ASSUME NEW o \in Op, NEW A, op \in [Op -> Request], WillPublish(o, A), NEW a \in A
    PROVE  Served(a)'
<1> DEFINE rec == [at |-> "publish", r |-> None, a |-> None, uid |-> None, sub |-> "out",
                   todo |-> A, clean |-> "no"]
<1>1. op' = [op EXCEPT ![o] = rec] /\ rec.at = "publish" /\ rec.todo = A
  BY DEF WillPublish
<1> HIDE DEF rec
<1> QED BY <1>1, NowServes

LEMMA StaleChanges ==
    ASSUME Core, NoMemberOfNothing, StaleIsServed, NEW o \in Op, Changes(o), NEW b \in Account
    PROVE  acct'[b] # "deleted" /\ shown'[b] # View(b)' => Served(b)'
<1> DEFINE Fresh == acct'[b] # "deleted" /\ shown'[b] # View(b)' => Served(b)'
<1> SUFFICES Fresh
  OBVIOUS
<1>0. op \in [Op -> Request] /\ member \in [Room -> [Account -> {"out", "watching", "subscribed"}]]
      /\ row \in [Room -> {"none", "open", "archived", "gone"}] /\ name \in [Room -> {0, 1}]
  BY DEF Core, TypeOK
<1>1. ASSUME NEW r \in Room, Rename(o, r) \/ Archive(o, r) PROVE Fresh
  <2>1. /\ Begin(o) /\ op[o].at = "idle" /\ Goes(o, "fan", r, None)
        /\ UNCHANGED <<acct, shown, notify, member, missed>>
    BY <1>1 DEF Begin, Rename, Archive
  <2>2. CASE member[r][b] = "subscribed"
    BY <1>0, <2>1, <2>2, FannedOut
  <2>3. CASE member[r][b] # "subscribed"
    <3>1. View(b)' = View(b)
      BY <1>0, <1>1, <2>3, ViewKept DEF Rename, Archive, SetRow, Lists
    <3> QED BY <2>1, <3>1, StaleStep
  <2> QED BY <2>2, <2>3
<1>2. ASSUME NEW r \in Room, NEW a \in Account, NEW sub \in {"watching", "subscribed"},
             UpdateMembership(o, r, a, sub)
      PROVE  Fresh
  <2>1. /\ Begin(o) /\ op[o].at = "idle" /\ WillPublish(o, {a}) /\ PutMember(r, a, sub)
        /\ UNCHANGED <<acct, row, name, shown, notify, missed>>
    BY <1>2 DEF Begin, UpdateMembership
  <2>2. CASE b = a
    BY <1>0, <2>1, <2>2, ToBePublished
  <2>3. CASE b # a
    <3>1. \A q \in Room : member'[q][b] = member[q][b]
      BY <1>0, <2>1, <2>3 DEF PutMember
    <3>2. View(b)' = View(b)
      BY <2>1, <3>1, ViewKept DEF Lists
    <3> QED BY <2>1, <3>1, <3>2, StaleStep
  <2> QED BY <2>2, <2>3
<1>3. CASE CreateCommit(o)
  <2>1. /\ Continue(o) /\ op[o].at = "made" /\ op[o].r \in Room /\ op[o].a \in Account
        /\ row[op[o].r] = "none" /\ UNCHANGED <<acct, name, shown, notify, missed>>
    BY <1>3 DEF Continue, CreateCommit, Core, Stands, Creating
  <2>2. \A c \in Account : member[op[o].r][c] = "out"
    BY <2>1 DEF NoMemberOfNothing, Live
  <2>3. \A q \in Room : member[q][b] = "subscribed" <=> member'[q][b] = "subscribed"
    BY <1>0, <1>3, <2>1, <2>2 DEF CreateCommit, PutMember
  <2>4. View(b)' = View(b)
    BY <1>0, <1>3, <2>1, <2>2, <2>3, ViewKept DEF CreateCommit, SetRow, Lists
  <2> QED BY <2>1, <2>3, <2>4, StaleStep
<1>4. CASE DeleteCommit(o)
  <2>1. /\ Continue(o) /\ op[o].at = "dropped" /\ op[o].r \in Room /\ WillPublish(o, op[o].todo)
        /\ missed' = missed \cup {a \in Account \ op[o].todo : member[op[o].r][a] = "subscribed"}
        /\ UNCHANGED <<acct, name, shown, notify>>
    BY <1>4 DEF Continue, DeleteCommit, Core, Stands
  <2>2. CASE b \in op[o].todo
    BY <1>0, <2>1, <2>2, ToBePublished
  <2>3. CASE b \notin op[o].todo /\ member[op[o].r][b] = "subscribed"
    BY <2>1, <2>3 DEF Served
  <2>4. CASE member[op[o].r][b] # "subscribed"
    <3>1. \A q \in Room : member'[q][b] = "subscribed" <=> member[q][b] = "subscribed"
      BY <1>0, <1>4, <2>1, <2>4 DEF DeleteCommit, DropMembers
    <3>2. View(b)' = View(b)
      BY <1>0, <1>4, <2>1, <2>4, <3>1, ViewKept DEF DeleteCommit, SetRow, Lists
    <3> QED BY <2>1, <3>1, <3>2, StaleStep
  <2> QED BY <2>2, <2>3, <2>4
<1>5. CASE InviteCommit(o)
  <2>1. /\ Continue(o) /\ op[o].at = "granted" /\ op[o].r \in Room /\ op[o].a \in Account
        /\ op[o].sub \in {"watching", "subscribed"}
        /\ PutMember(op[o].r, op[o].a, op[o].sub)
        /\ UNCHANGED <<acct, row, name, shown, notify>>
    BY <1>5 DEF Continue, InviteCommit, Core, TypeOK, Request, Stands, OnPair
  <2>2. missed \subseteq missed'
    BY <1>5 DEF InviteCommit
  <2>3. CASE b = op[o].a /\ op[o].sub = "subscribed"
    BY <1>0, <1>5, <2>3, ToBePublished DEF InviteCommit
  <2>4. CASE b = op[o].a /\ op[o].sub = "watching" /\ member[op[o].r][b] = "subscribed"
    BY <1>5, <2>4 DEF InviteCommit, Served
  <2>5. CASE b # op[o].a \/ (op[o].sub = "watching" /\ member[op[o].r][b] # "subscribed")
    <3>1. \A q \in Room : member'[q][b] = "subscribed" <=> member[q][b] = "subscribed"
      BY <1>0, <2>1, <2>5 DEF PutMember
    <3>2. View(b)' = View(b)
      BY <2>1, <3>1, ViewKept DEF Lists
    <3> QED BY <2>1, <2>2, <3>1, <3>2, StaleStep
  <2> QED BY <2>1, <2>3, <2>4, <2>5
<1>6. CASE KickCommit(o)
  <2>1. /\ Continue(o) /\ op[o].at = "removed" /\ op[o].r \in Room /\ op[o].a \in Account
        /\ DropMember(op[o].r, op[o].a) /\ WillPublish(o, {op[o].a})
        /\ UNCHANGED <<acct, row, name, shown, notify, missed>>
    BY <1>6 DEF Continue, KickCommit, Core, Stands, OnPair
  <2>2. CASE b = op[o].a
    BY <1>0, <2>1, <2>2, ToBePublished
  <2>3. CASE b # op[o].a
    <3>1. \A q \in Room : member'[q][b] = member[q][b]
      BY <1>0, <2>1, <2>3 DEF DropMember
    <3>2. View(b)' = View(b)
      BY <2>1, <3>1, ViewKept DEF Lists
    <3> QED BY <2>1, <3>1, <3>2, StaleStep
  <2> QED BY <2>2, <2>3
<1> QED BY <1>1, <1>2, <1>3, <1>4, <1>5, <1>6 DEF Changes

\* Publishing shows the accounts of A their rooms, and the others are still
\* served by whoever served them, unless it was this publication.
LEMMA StalePublished ==
    ASSUME Core, StaleIsServed, NEW A, Published(A), UNCHANGED rowVars,
           NEW b \in Account, b \notin A /\ Served(b) => Served(b)'
    PROVE  acct'[b] # "deleted" /\ shown'[b] # View(b)' => Served(b)'
<1>1. View(b)' = View(b)
  BY ViewKept DEF Lists
<1>2. CASE b \in A
  BY <1>1, <1>2 DEF Published
<1>3. CASE b \notin A
  BY <1>1, <1>3 DEF Published, StaleIsServed
<1> QED BY <1>2, <1>3

LEMMA StaleShared ==
    ASSUME Core, StaleIsServed, NEW o \in Op, Publish(o) \/ FanOut(o) \/ FanFail(o), NEW b \in Account
    PROVE  acct'[b] # "deleted" /\ shown'[b] # View(b)' => Served(b)'
<1>0. Continue(o) /\ UNCHANGED <<rowVars, notify>>
  BY DEF Continue, Publish, FanOut, FanFail
<1>1. ASSUME NEW p \in Op \ {o}, Serves(p, b) PROVE Served(b)'
  <2>1. op'[p].at = op[p].at /\ op'[p].r = op[p].r /\ op'[p].todo = op[p].todo /\ UNCHANGED member
    BY <1>0, OthersStay
  <2>2. Serves(p, b)'
    BY <1>1, <2>1 DEF Serves
  <2> QED BY <2>2 DEF Served
<1>2. CASE Publish(o)
  <2>1. b \notin op[o].todo /\ Served(b) => Served(b)'
    BY <1>0, <1>1, <1>2 DEF Publish, Published, Served, Serves
  <2> QED BY <1>0, <1>2, <2>1, StalePublished DEF Publish
<1>3. CASE FanOut(o)
  <2>1. b \notin Members(op[o].r) /\ Served(b) => Served(b)'
    BY <1>0, <1>1, <1>3 DEF FanOut, Published, Served, Serves, Members
  <2> QED BY <1>0, <1>3, <2>1, StalePublished DEF FanOut
<1>4. CASE FanFail(o)
  <2>1. View(b)' = View(b)
    BY <1>0, ViewKept DEF Lists
  <2>2. Served(b) => Served(b)'
    <3>1. CASE Serves(o, b)
      BY <1>4, <3>1 DEF FanFail, Served, Serves, Members
    <3>2. CASE b \in missed \/ \E r \in Room : b \in notify[r]
      BY <1>0, <1>4, <3>2 DEF FanFail, Served
    <3> QED BY <1>1, <3>1, <3>2 DEF Served
  <2> QED BY <1>0, <1>4, <2>1, <2>2 DEF FanFail, StaleIsServed
<1> QED BY <1>2, <1>3, <1>4

LEMMA StaleWorld ==
    ASSUME Core, StaleIsServed, World, NEW b \in Account
    PROVE  acct'[b] # "deleted" /\ shown'[b] # View(b)' => Served(b)'
<1> DEFINE Fresh == acct'[b] # "deleted" /\ shown'[b] # View(b)' => Served(b)'
<1> SUFFICES Fresh
  OBVIOUS
<1> USE DEF Core, TypeOK
<1>1. ASSUME UNCHANGED <<row, name, shown>>, acct'[b] # "deleted" => acct[b] # "deleted",
             \A p \in Op : op'[p].at = op[p].at /\ op'[p].r = op[p].r /\ op'[p].todo = op[p].todo,
             \A q \in Room : member'[q][b] = member[q][b],
             b \in missed => b \in missed',
             \A r \in Room : b \in notify[r] => b \in notify'[r]
      PROVE  Fresh
  <2>1. View(b)' = View(b)
    BY <1>1, ViewKept DEF Lists
  <2>2. Served(b) => Served(b)'
    BY <1>1 DEF Served, Serves, Stands
  <2> QED BY <1>1, <2>1, <2>2 DEF StaleIsServed
<1>2. ASSUME NEW a \in Account, DeleteAccount(a) \/ \E c \in Bot : CaptureIdentity(a, c) PROVE Fresh
  <2>1. IdentityLost(a)
    BY <1>2 DEF CaptureIdentity, DeleteAccount
  <2>2. \A p \in Op : op'[p].at = op[p].at /\ op'[p].r = op[p].r /\ op'[p].todo = op[p].todo
    BY <2>1, IdentityLostKeeps
  <2>3. CASE \E c \in Bot : CaptureIdentity(a, c)
    BY <1>1, <2>2, <2>3 DEF CaptureIdentity
  <2>4. CASE DeleteAccount(a) /\ a = b
    BY <2>4 DEF DeleteAccount
  <2>5. CASE DeleteAccount(a) /\ a # b
    BY <1>1, <2>2, <2>5 DEF DeleteAccount
  <2> QED BY <1>2, <2>3, <2>4, <2>5
<1>3. ASSUME NEW r \in Room, ChannelRemoved(r) \/ EventOver(r) PROVE Fresh
  BY <1>1, <1>3 DEF ChannelRemoved, EventOver
<1>4. ASSUME NEW r \in Room, IngestChannelDeleted(r) PROVE Fresh
  <2>1. CASE member[r][b] # "out"
    <3>1. b \in notify'[r]
      BY <1>4, <2>1 DEF IngestChannelDeleted, Members
    <3> QED BY <3>1 DEF Served
  <2>2. CASE member[r][b] = "out"
    <3>1. View(b)' = View(b)
      BY <1>4, <2>2, ViewKept DEF IngestChannelDeleted, SetRow, Lists
    <3>2. \A q \in Room : b \in notify[q] => b \in notify'[q]
      BY <1>4 DEF IngestChannelDeleted, RoomOrder
    <3>3. Served(b) => Served(b)'
      BY <1>4, <3>2 DEF IngestChannelDeleted, Served, Serves
    <3> QED BY <1>4, <3>1, <3>3 DEF IngestChannelDeleted, StaleIsServed
  <2> QED BY <2>1, <2>2
<1>5. ASSUME NEW r \in Room, NotifyArchived(r) PROVE Fresh
  <2>1. Published(notify[r]) /\ UNCHANGED <<rowVars, op>>
    BY <1>5 DEF NotifyArchived
  <2>2. b \notin notify[r] /\ Served(b) => Served(b)'
    BY <1>5 DEF NotifyArchived, Published, Served, Serves
  <2> QED BY <2>1, <2>2, StalePublished
<1>6. CASE Crash
  <2>1. View(b)' = View(b)
    BY <1>6, ViewKept DEF Crash, Lists
  <2> QED BY <1>6, <2>1 DEF Crash
<1> QED BY <1>2, <1>3, <1>4, <1>5, <1>6 DEF World

LEMMA StaleNext ==
    ASSUME Core, NoMemberOfNothing, StaleIsServed, [Next]_vars
    PROVE  StaleIsServed'
<1> SUFFICES ASSUME NEW b \in Account
             PROVE  acct'[b] # "deleted" /\ shown'[b] # View(b)' => Served(b)'
  BY DEF StaleIsServed
<1>1. ASSUME NEW o \in Op, Quiet(o) PROVE acct'[b] # "deleted" /\ shown'[b] # View(b)' => Served(b)'
  <2>1. Begin(o) \/ Continue(o)
    BY <1>1 DEF Quiet, Begin, Continue
  <2>2. UNCHANGED <<rowVars, notify, shown, missed>> /\ op[o].at \notin {"publish", "fan"}
    BY <1>1, QuietKeeps
  <2>3. View(b)' = View(b)
    BY <2>2, ViewKept DEF Lists
  <2> QED BY <2>1, <2>2, <2>3, StaleStep
<1>2. CASE UNCHANGED vars
  <2>1. View(b)' = View(b)
    BY <1>2, ViewKept DEF vars, Lists
  <2> QED BY <1>2, <2>1 DEF vars, StaleIsServed, Served, Serves
<1> QED BY <1>1, <1>2, Steps, StaleChanges, StaleShared, StaleWorld

----------------------------------------------------------------------------
(* The invariant *)

LEMMA InvariantInit == Init => IInv
<1> SUFFICES ASSUME Init PROVE IInv
  OBVIOUS
<1>1. Core
  BY CoreInit
<1>2. CleanIsRight /\ RowsMatchPermissions /\ NoMemberOfNothing /\ ChannelsAreOwned
  BY DEF Init, Idle, OnPair, CleanIsRight, RowsMatchPermissions, NoMemberOfNothing,
         ChannelsAreOwned
<1>3. StaleIsServed
  BY DEF Init, StaleIsServed, View
<1> QED BY <1>1, <1>2, <1>3 DEF IInv

LEMMA InvariantNext == IInv /\ [Next]_vars => IInv'
BY CoreNext, NoMemberNext, CleanNext, RowsNext, ChannelsNext, StaleNext DEF IInv

\* Every state the requests, the gateway and a crash can reach satisfies IInv.
THEOREM Invariant == Spec => []IInv
BY InvariantInit, InvariantNext, PTL DEF Spec

\* The variables keep their types, whatever is created, deleted and lost.
THEOREM TypeCorrect == Spec => []TypeOK
<1>1. IInv => TypeOK
  BY DEF IInv, Core
<1> QED BY <1>1, Invariant, PTL

\* rooms.go: no channel is left behind but by a creation that was given up,
\* and no row of a room is deleted before its channel.
THEOREM NoChannelIsLost == Spec => []ChannelsAreOwned
<1>1. IInv => ChannelsAreOwned
  BY DEF IInv
<1> QED BY <1>1, Invariant, PTL

\* InviteMember, KickMember: one that ran without another call for the same
\* bot and without a change of the account's identity leaves the row and the
\* permission of its bot in agreement, until one of the two comes, for any
\* number of accounts, bots and requests and also where bots are shared.
THEOREM UndisturbedRequestsSettle == Spec => []RowsMatchPermissions
<1>1. IInv => RowsMatchPermissions
  BY DEF IInv
<1> QED BY <1>1, Invariant, PTL

\* No commit revives the membership of a room or an account that was deleted
\* while the request was at Discord.
THEOREM MembersExist == Spec => []NoMemberOfNothing
<1>1. IInv => NoMemberOfNothing
  BY DEF IInv
<1> QED BY <1>1, Invariant, PTL

\* state.Bus: an account whose rooms have changed is about to be published,
\* except in the three cases in which the code publishes nobody.
THEOREM ChangesAreAnnounced == Spec => []StaleIsPending
<1>1. IInv => StaleIsPending
  <2> SUFFICES ASSUME IInv, NEW a \in Account, acct[a] # "deleted", shown[a] # View(a)
               PROVE  \/ a \in missed
                      \/ \E r \in Room : a \in notify[r]
                      \/ \E o \in Op : op[o].at = "publish" /\ a \in op[o].todo
                      \/ \E o \in Op : op[o].at = "fan" /\ member[op[o].r][a] # "out"
    BY DEF StaleIsPending
  <2>1. Served(a)
    BY DEF IInv, StaleIsServed
  <2> QED BY <2>1 DEF Served, Serves
<1> QED BY <1>1, Invariant, PTL

=============================================================================
