--------------------------- MODULE StateBusProofs ---------------------------
(***************************************************************************)
(* Theorems about StateBus for any accounts, watchers, publishers, channel *)
(* capacities and caps.  BusInv is inductive: one lemma per action.        *)
(***************************************************************************)
EXTENDS StateBus, TLAPS, FiniteSetTheorems

LEMMA BusCommit ==
    ASSUME BusInv, NEW a \in Account, Commit(a)
    PROVE  BusInv'
<1> USE BusAssumption DEF BusInv, Commit, timerVars, watchVars
<1>1. TypeOK'
    BY DEF TypeOK, NoBuild, Frame, CanQueue, NextVersion
<1>2. OrderInv'
    BY <1>1 DEF OrderInv, TypeOK, Subs, Target
<1>3. LateCommitIsPublished'
    BY <1>1 DEF LateCommitIsPublished, TypeOK, Subs, PublishComing, FireComing
<1>4. NobodyLeftBehind'
    BY <1>1 DEF NobodyLeftBehind, LateCommitIsPublished, TypeOK, Subs, PublishComing,
        FireComing, BuildSees
<1> QED BY <1>1, <1>2, <1>3, <1>4

LEMMA BusPublish ==
    ASSUME BusInv, NEW a \in Account, Publish(a)
    PROVE  BusInv'
<1> USE BusAssumption DEF BusInv, Publish, PublishLocked, timerVars, watchVars
<1>1. TypeOK'
    BY DEF TypeOK, NoBuild, Frame, CanQueue, NextVersion
<1>2. OrderInv'
    BY <1>1 DEF OrderInv, TypeOK, Subs, Target
<1>3. LateCommitIsPublished'
    BY <1>1 DEF LateCommitIsPublished, TypeOK, Subs, PublishComing, FireComing
<1>4. NobodyLeftBehind'
    BY <1>1 DEF NobodyLeftBehind, LateCommitIsPublished, TypeOK, Subs, PublishComing,
        FireComing, BuildSees
<1> QED BY <1>1, <1>2, <1>3, <1>4

LEMMA BusCommitRoom ==
    ASSUME BusInv, NEW f \in Fan, CommitRoom(f)
    PROVE  BusInv'
<1> USE BusAssumption DEF BusInv, CommitRoom, timerVars, watchVars
<1>1. TypeOK'
    BY DEF TypeOK, BusAssumption
<1>2. OrderInv'
    BY <1>1 DEF OrderInv, TypeOK, Subs, Target
<1>3. LateCommitIsPublished'
    BY <1>1 DEF LateCommitIsPublished, TypeOK, Subs, PublishComing, FireComing
<1>4. NobodyLeftBehind'
    BY <1>1 DEF NobodyLeftBehind, LateCommitIsPublished, TypeOK, Subs, PublishComing,
        FireComing, BuildSees
<1> QED BY <1>1, <1>2, <1>3, <1>4

LEMMA BusFanBegin ==
    ASSUME BusInv, NEW f \in Fan, FanBegin(f)
    PROVE  BusInv'
<1> USE BusAssumption DEF BusInv, FanBegin, dataVars, timerVars, watchVars
<1>1. TypeOK'
    BY DEF TypeOK, NoBuild, Frame, CanQueue, NextVersion
<1>2. OrderInv'
    BY <1>1 DEF OrderInv, TypeOK, Subs, Target
<1>3. LateCommitIsPublished'
    BY <1>1 DEF LateCommitIsPublished, TypeOK, Subs, PublishComing, FireComing
<1>4. NobodyLeftBehind'
    BY <1>1 DEF NobodyLeftBehind, LateCommitIsPublished, TypeOK, Subs, PublishComing,
        FireComing, BuildSees
<1> QED BY <1>1, <1>2, <1>3, <1>4

LEMMA BusFanPublish ==
    ASSUME BusInv, NEW f \in Fan, FanPublish(f)
    PROVE  BusInv'
<1> USE BusAssumption DEF BusInv, FanPublish, PublishLocked, dataVars, timerVars, watchVars
<1>1. TypeOK'
    BY DEF TypeOK, NoBuild, Frame, CanQueue, NextVersion
<1>2. OrderInv'
    BY <1>1 DEF OrderInv, TypeOK, Subs, Target
<1>3. LateCommitIsPublished'
    BY <1>1 DEF LateCommitIsPublished, TypeOK, Subs, PublishComing, FireComing
<1>4. NobodyLeftBehind'
    BY <1>1 DEF NobodyLeftBehind, LateCommitIsPublished, TypeOK, Subs, PublishComing,
        FireComing, BuildSees
<1> QED BY <1>1, <1>2, <1>3, <1>4

LEMMA BusFanTimeout ==
    ASSUME BusInv, NEW f \in Fan, FanTimeout(f)
    PROVE  BusInv'
<1> USE BusAssumption DEF BusInv, FanTimeout, dataVars, timerVars, watchVars
<1>1. TypeOK'
    BY DEF TypeOK, NoBuild, Frame, CanQueue, NextVersion
<1>2. OrderInv'
    BY <1>1 DEF OrderInv, TypeOK, Subs, Target
<1>3. LateCommitIsPublished'
    BY <1>1 DEF LateCommitIsPublished, TypeOK, Subs, PublishComing, FireComing
<1>4. NobodyLeftBehind'
    BY <1>1 DEF NobodyLeftBehind, LateCommitIsPublished, TypeOK, Subs, PublishComing,
        FireComing, BuildSees
<1> QED BY <1>1, <1>2, <1>3, <1>4

LEMMA BusFanFail ==
    ASSUME BusInv, NEW f \in Fan, FanFail(f)
    PROVE  BusInv'
<1> USE BusAssumption DEF BusInv, FanFail, dataVars, timerVars, watchVars
<1>1. TypeOK'
    BY DEF TypeOK, NoBuild, Frame, CanQueue, NextVersion
<1>2. OrderInv'
    BY <1>1 DEF OrderInv, TypeOK, Subs, Target
<1>3. LateCommitIsPublished'
    BY <1>1 DEF LateCommitIsPublished, TypeOK, Subs, PublishComing, FireComing
<1>4. NobodyLeftBehind'
    BY <1>1 DEF NobodyLeftBehind, LateCommitIsPublished, TypeOK, Subs, PublishComing,
        FireComing, BuildSees
<1> QED BY <1>1, <1>2, <1>3, <1>4

LEMMA BusTimerFires ==
    ASSUME BusInv, NEW a \in Account, TimerFires(a)
    PROVE  BusInv'
<1> USE BusAssumption DEF BusInv, TimerFires, dataVars, watchVars
<1>1. TypeOK'
    BY DEF TypeOK, NoBuild, Frame, CanQueue, NextVersion
<1>2. OrderInv'
    BY <1>1 DEF OrderInv, TypeOK, Subs, Target
<1>3. LateCommitIsPublished'
    BY <1>1 DEF LateCommitIsPublished, TypeOK, Subs, PublishComing, FireComing
<1>4. NobodyLeftBehind'
    BY <1>1 DEF NobodyLeftBehind, LateCommitIsPublished, TypeOK, Subs, PublishComing,
        FireComing, BuildSees
<1> QED BY <1>1, <1>2, <1>3, <1>4

LEMMA BusFireStart ==
    ASSUME BusInv, NEW a \in Account, FireStart(a)
    PROVE  BusInv'
<1> USE BusAssumption DEF BusInv, FireStart, dataVars, watchVars
<1>1. TypeOK'
    BY DEF TypeOK, NextVersion
<1>2. OrderInv'
    <2>1. CASE Subs(a) = {}
        BY <2>1 DEF OrderInv, TypeOK, Subs, Target
    <2>2. CASE Subs(a) # {}
        <3>1. holder' = a /\ Target' = a /\ a \notin Sub /\ build' = [v |-> version + 1, lo |-> None]
              /\ version' = version + 1
            BY <2>2 DEF Target, NextVersion, BusAssumption
        <3>2. Subs(a)' = Subs(a)
            BY DEF Subs
        <3> QED BY <1>1, <3>1, <3>2 DEF OrderInv, TypeOK, Subs
    <2> QED BY <2>1, <2>2
<1>3. LateCommitIsPublished'
    BY <1>1 DEF LateCommitIsPublished, TypeOK, Subs, PublishComing, FireComing
<1>4. NobodyLeftBehind'
    BY <1>1 DEF NobodyLeftBehind, LateCommitIsPublished, TypeOK, Subs, PublishComing,
        FireComing, BuildSees
<1> QED BY <1>1, <1>2, <1>3, <1>4

(* A build is for an account, and its last query reads that account.       *)
LEMMA TargetType ==
    ASSUME TypeOK, holder # None
    PROVE  Target \in Account
BY BusAssumption DEF Target, TypeOK, BusAssumption

(* What the last query of a build knows of its frame.                      *)
LEMMA FrameType ==
    ASSUME TypeOK, OrderInv, BuildLast
    PROVE  /\ Frame \in [v : Nat, lo : Nat, hi : Nat]
           /\ Frame.v = build.v /\ Frame.lo = build.lo /\ Frame.hi = data[Target]
           /\ build.lo \in Nat /\ build.lo <= data[Target] /\ build.v <= version
<1>1. data[Target] \in Nat /\ build.lo \in Nat /\ build.v \in Nat
    BY TargetType DEF TypeOK, BuildLast
<1> QED BY <1>1 DEF Frame, OrderInv, BuildLast

LEMMA BusBuildFirst ==
    ASSUME BusInv, BuildFirst
    PROVE  BusInv'
<1> USE BusAssumption DEF BusInv, BuildFirst, dataVars, timerVars, watchVars
<1>1. Target \in Account /\ data[Target] \in Nat /\ Target' = Target
    BY TargetType DEF TypeOK, Target
<1>2. build'.v = build.v /\ build'.lo = data[Target] /\ build' \in [v : Nat, lo : Nat \cup {None}]
    BY <1>1 DEF TypeOK
<1>3. TypeOK'
    BY <1>2 DEF TypeOK
<1>4. OrderInv'
    BY <1>1, <1>2, <1>3 DEF OrderInv, TypeOK, Subs
<1>5. LateCommitIsPublished'
    BY <1>1, <1>2, <1>3 DEF LateCommitIsPublished, TypeOK, Target, PublishComing, BusAssumption
<1>6. NobodyLeftBehind'
    BY <1>1, <1>2, <1>3 DEF NobodyLeftBehind, TypeOK, Target, PublishComing,
        FireComing, BuildSees, BusAssumption
<1> QED BY <1>3, <1>4, <1>5, <1>6

LEMMA BusFireSend ==
    ASSUME BusInv, FireSend
    PROVE  BusInv'
<1> USE BusAssumption DEF BusInv
<1>1. /\ holder \in Account /\ holder # None /\ holder \notin Sub /\ Target = holder
      /\ holder' = None /\ build' = NoBuild
      /\ UNCHANGED <<dataVars, fan, version, timerVars, watch>>
    BY DEF FireSend, Target, BusAssumption
<1>2. BuildLast
    BY DEF FireSend
<1> DEFINE got == {s \in Subs(holder) : CanQueue(s)}
<1>3. \A s \in Sub :
        /\ s \in got => /\ queue[s] < Buf /\ queue'[s] = queue[s] + 1 /\ last'[s] = Frame
        /\ s \notin got => /\ queue'[s] = queue[s] /\ last'[s] = last[s]
    BY DEF FireSend, CanQueue
<1>4. \A s \in Sub :
        missed'[s] = IF s \notin Subs(holder) \/ (missed[s] = "failed" /\ build.lo # data[holder])
                     THEN missed[s]
                     ELSE IF s \in got THEN "no" ELSE "full"
    BY DEF FireSend
<1>5. TypeOK'
    <2>1. queue' \in [Sub -> 0..Buf]
        <3>1. DOMAIN queue' = Sub /\ queue' = [s \in Sub |-> queue'[s]]
            BY DEF FireSend
        <3>2. \A s \in Sub : queue'[s] \in 0..Buf
            BY <1>3 DEF TypeOK, BusAssumption
        <3> QED BY <3>1, <3>2
    <2>2. last' \in [Sub -> [v : Nat, lo : Nat, hi : Nat]]
        BY <1>2, FrameType DEF FireSend, TypeOK
    <2>3. missed' \in [Sub -> {"no", "full", "failed"}]
        BY DEF FireSend, TypeOK
    <2> QED BY <1>1, <2>1, <2>2, <2>3 DEF TypeOK, NoBuild, dataVars, timerVars
<1> HIDE DEF got
<1>6. OrderInv'
    <2>1. \A s \in got : s \in Subs(holder)
        BY DEF got
    <2> QED BY <1>1, <1>2, <1>3, <1>5, <2>1, FrameType DEF OrderInv, TypeOK, NoBuild, Subs,
            dataVars, BusAssumption
<1>7. LateCommitIsPublished'
    BY <1>1, <1>5 DEF LateCommitIsPublished, BusAssumption, NoBuild
<1>8. NobodyLeftBehind'
    <2> SUFFICES ASSUME NEW s \in Sub, watch'[s] = "open"
                 PROVE  \/ last'[s].lo = data'[Of[s]]
                        \/ PublishComing(Of[s])' \/ FireComing(Of[s])' \/ BuildSees(Of[s])'
                        \/ missed'[s] # "no"
        BY DEF NobodyLeftBehind
    <2>1. PublishComing(Of[s])' = PublishComing(Of[s]) /\ FireComing(Of[s])' = FireComing(Of[s])
        BY <1>1 DEF PublishComing, FireComing, dataVars, timerVars
    <2>2. CASE s \notin Subs(holder)
        <3>1. s \notin got /\ holder # Of[s]
            BY <1>1, <2>2 DEF got, Subs
        <3> QED BY <1>1, <1>3, <1>4, <2>1, <2>2, <3>1 DEF NobodyLeftBehind, BuildSees, dataVars
    <2>3. CASE s \in Subs(holder) /\ build.lo = data[holder]
        BY <1>1, <1>2, <1>3, <1>4, <2>3, FrameType DEF Subs, dataVars
    <2>4. CASE s \in Subs(holder) /\ build.lo # data[holder]
        <3>1. PublishComing(holder) \/ FireComing(holder) \/ missed[s] = "failed"
            BY <1>1, <1>2, <2>4 DEF LateCommitIsPublished, BuildLast
        <3>2. Of[s] = holder
            BY <2>4 DEF Subs
        <3> QED BY <1>4, <2>1, <2>4, <3>1, <3>2
    <2> QED BY <2>2, <2>3, <2>4
<1> QED BY <1>5, <1>6, <1>7, <1>8

LEMMA BusFireTimeout ==
    ASSUME BusInv, FireTimeout
    PROVE  BusInv'
<1> USE BusAssumption DEF BusInv, FireTimeout, dataVars, timerVars, watchVars
<1>1. TypeOK'
    BY DEF TypeOK, NoBuild, Frame, CanQueue, NextVersion
<1>2. OrderInv'
    BY <1>1 DEF OrderInv, TypeOK, Subs, Target
<1>3. LateCommitIsPublished'
    BY <1>1 DEF LateCommitIsPublished, TypeOK, Subs, PublishComing, FireComing
<1>4. NobodyLeftBehind'
    BY <1>1 DEF NobodyLeftBehind, LateCommitIsPublished, TypeOK, Subs, PublishComing,
        FireComing, BuildSees
<1> QED BY <1>1, <1>2, <1>3, <1>4

LEMMA BusSubscribeStart ==
    ASSUME BusInv, NEW s \in Sub, SubscribeStart(s)
    PROVE  BusInv'
<1> USE BusAssumption DEF BusInv, SubscribeStart, dataVars, timerVars, watchVars
<1>1. TypeOK'
    BY DEF TypeOK, NextVersion
<1>2. OrderInv'
    <2>1. CASE holder' = None
        BY <1>1, <2>1 DEF OrderInv, TypeOK, Subs, Target, BusAssumption
    <2>2. CASE holder' # None
        <3>1. /\ holder' = s /\ watch' = watch /\ version' = version + 1
              /\ build' = [v |-> version + 1, lo |-> None]
            BY <2>2 DEF NextVersion
        <3>2. Target' = Of[s] /\ Subs(Of[s])' = Subs(Of[s])
            BY <3>1 DEF Target, Subs
        <3> QED BY <1>1, <3>1, <3>2 DEF OrderInv, TypeOK, Subs
    <2> QED BY <2>1, <2>2
<1>3. LateCommitIsPublished'
    BY <1>1 DEF LateCommitIsPublished, TypeOK, Subs, PublishComing, FireComing
<1>4. NobodyLeftBehind'
    BY <1>1 DEF NobodyLeftBehind, LateCommitIsPublished, TypeOK, Subs, PublishComing,
        FireComing, BuildSees
<1> QED BY <1>1, <1>2, <1>3, <1>4

LEMMA BusSubscribeDone ==
    ASSUME BusInv, SubscribeDone
    PROVE  BusInv'
<1> USE BusAssumption DEF BusInv
<1>1. /\ holder \in Sub /\ holder # None /\ Target = Of[holder] /\ BuildLast
      /\ holder' = None /\ build' = NoBuild
      /\ UNCHANGED <<dataVars, fan, version, timerVars>>
    BY DEF SubscribeDone, Target, BusAssumption
<1>2. /\ watch' = [watch EXCEPT ![holder] = "open"]
      /\ queue' = [queue EXCEPT ![holder] = 1]
      /\ last' = [last EXCEPT ![holder] = Frame]
      /\ missed' = [missed EXCEPT ![holder] = IF build.lo = data[Target] THEN "no" ELSE @]
    BY DEF SubscribeDone
<1>3. TypeOK'
    BY <1>1, <1>2, FrameType DEF TypeOK, NoBuild, dataVars, timerVars, BusAssumption
<1>4. OrderInv'
    BY <1>1, <1>2, <1>3, FrameType DEF OrderInv, TypeOK, NoBuild, dataVars, BusAssumption
<1>5. LateCommitIsPublished'
    BY <1>1 DEF LateCommitIsPublished, BusAssumption, NoBuild
<1>6. NobodyLeftBehind'
    <2> SUFFICES ASSUME NEW s \in Sub, watch'[s] = "open"
                 PROVE  \/ last'[s].lo = data'[Of[s]]
                        \/ PublishComing(Of[s])' \/ FireComing(Of[s])' \/ BuildSees(Of[s])'
                        \/ missed'[s] # "no"
        BY DEF NobodyLeftBehind
    <2>1. PublishComing(Of[s])' = PublishComing(Of[s]) /\ FireComing(Of[s])' = FireComing(Of[s])
        BY <1>1 DEF PublishComing, FireComing, dataVars, timerVars
    <2>2. CASE s # holder
        <3>1. watch[s] = "open" /\ last'[s] = last[s] /\ missed'[s] = missed[s] /\ ~BuildSees(Of[s])
            BY <1>1, <1>2, <2>2 DEF TypeOK, BuildSees, BusAssumption
        <3> QED BY <1>1, <2>1, <3>1 DEF NobodyLeftBehind, dataVars
    <2>3. CASE s = holder
        <3>1. last'[s].lo = build.lo
            BY <1>1, <1>2, <2>3, FrameType DEF TypeOK
        <3>2. missed'[s] = IF build.lo = data[Of[s]] THEN "no" ELSE missed[s]
            BY <1>1, <1>2, <2>3 DEF TypeOK
        <3> QED BY <1>1, <2>1, <2>3, <3>1, <3>2 DEF LateCommitIsPublished, BuildLast, dataVars
    <2> QED BY <2>2, <2>3
<1> QED BY <1>3, <1>4, <1>5, <1>6

LEMMA BusSubscribeFail ==
    ASSUME BusInv, SubscribeFail
    PROVE  BusInv'
<1> USE BusAssumption DEF BusInv, SubscribeFail, dataVars, timerVars, watchVars
<1>1. TypeOK'
    BY DEF TypeOK, NoBuild, Frame, CanQueue, NextVersion
<1>2. OrderInv'
    BY <1>1 DEF OrderInv, TypeOK, Subs, Target
<1>3. LateCommitIsPublished'
    BY <1>1 DEF LateCommitIsPublished, TypeOK, Subs, PublishComing, FireComing
<1>4. NobodyLeftBehind'
    BY <1>1 DEF NobodyLeftBehind, LateCommitIsPublished, TypeOK, Subs, PublishComing,
        FireComing, BuildSees
<1> QED BY <1>1, <1>2, <1>3, <1>4

LEMMA BusReceive ==
    ASSUME BusInv, NEW s \in Sub, Receive(s)
    PROVE  BusInv'
<1> USE BusAssumption DEF BusInv, Receive, dataVars, timerVars, watchVars
<1>1. TypeOK'
    BY DEF TypeOK, NoBuild, Frame, CanQueue, NextVersion
<1>2. OrderInv'
    BY <1>1 DEF OrderInv, TypeOK, Subs, Target
<1>3. LateCommitIsPublished'
    BY <1>1 DEF LateCommitIsPublished, TypeOK, Subs, PublishComing, FireComing
<1>4. NobodyLeftBehind'
    BY <1>1 DEF NobodyLeftBehind, LateCommitIsPublished, TypeOK, Subs, PublishComing,
        FireComing, BuildSees
<1> QED BY <1>1, <1>2, <1>3, <1>4

LEMMA BusUnsubscribe ==
    ASSUME BusInv, NEW s \in Sub, Unsubscribe(s)
    PROVE  BusInv'
<1> USE BusAssumption DEF BusInv, Unsubscribe, dataVars, timerVars, watchVars
<1>1. TypeOK'
    BY DEF TypeOK, NoBuild, Frame, CanQueue, NextVersion
<1>2. OrderInv'
    BY <1>1 DEF OrderInv, TypeOK, Subs, Target
<1>3. LateCommitIsPublished'
    BY <1>1 DEF LateCommitIsPublished, TypeOK, Subs, PublishComing, FireComing
<1>4. NobodyLeftBehind'
    BY <1>1 DEF NobodyLeftBehind, LateCommitIsPublished, TypeOK, Subs, PublishComing,
        FireComing, BuildSees
<1> QED BY <1>1, <1>2, <1>3, <1>4

LEMMA BusShutdown ==
    ASSUME BusInv, Shutdown
    PROVE  BusInv'
<1> USE BusAssumption DEF BusInv, Shutdown, dataVars, timerVars, watchVars
<1>1. TypeOK'
    BY DEF TypeOK, NoBuild, Frame, CanQueue, NextVersion
<1>2. OrderInv'
    BY <1>1 DEF OrderInv, TypeOK, Subs, Target
<1>3. LateCommitIsPublished'
    BY <1>1 DEF LateCommitIsPublished, TypeOK, Subs, PublishComing, FireComing
<1>4. NobodyLeftBehind'
    BY <1>1 DEF NobodyLeftBehind, LateCommitIsPublished, TypeOK, Subs, PublishComing,
        FireComing, BuildSees
<1> QED BY <1>1, <1>2, <1>3, <1>4

LEMMA BusGetState ==
    ASSUME BusInv, GetState
    PROVE  BusInv'
<1> USE BusAssumption DEF BusInv, GetState, dataVars, timerVars, watchVars
<1>1. TypeOK'
    BY DEF TypeOK, NoBuild, Frame, CanQueue, NextVersion
<1>2. OrderInv'
    BY <1>1 DEF OrderInv, TypeOK, Subs, Target
<1>3. LateCommitIsPublished'
    BY <1>1 DEF LateCommitIsPublished, TypeOK, Subs, PublishComing, FireComing
<1>4. NobodyLeftBehind'
    BY <1>1 DEF NobodyLeftBehind, LateCommitIsPublished, TypeOK, Subs, PublishComing,
        FireComing, BuildSees
<1> QED BY <1>1, <1>2, <1>3, <1>4

LEMMA BusInit == Init => BusInv
<1> SUFFICES ASSUME Init PROVE BusInv
    OBVIOUS
<1> USE BusAssumption DEF Init
<1>1. TypeOK
    BY DEF TypeOK, NoBuild, BusAssumption
<1>2. OrderInv /\ LateCommitIsPublished /\ NobodyLeftBehind
    BY DEF OrderInv, LateCommitIsPublished, NobodyLeftBehind, NoBuild, BusAssumption
<1> QED BY <1>1, <1>2 DEF BusInv

LEMMA BusNext == BusInv /\ [Next]_vars => BusInv'
<1> SUFFICES ASSUME BusInv, [Next]_vars PROVE BusInv'
    OBVIOUS
<1>1. CASE UNCHANGED vars
    BY <1>1 DEF vars, dataVars, timerVars, watchVars, BusInv, TypeOK, OrderInv,
        LateCommitIsPublished, NobodyLeftBehind, Subs, Target, PublishComing, FireComing, BuildSees
<1>2. CASE \E a \in Account : Commit(a) \/ Publish(a) \/ TimerFires(a) \/ FireStart(a)
    BY <1>2, BusCommit, BusPublish, BusTimerFires, BusFireStart
<1>3. CASE \E f \in Fan : CommitRoom(f) \/ FanBegin(f) \/ FanPublish(f) \/ FanTimeout(f) \/ FanFail(f)
    BY <1>3, BusCommitRoom, BusFanBegin, BusFanPublish, BusFanTimeout, BusFanFail
<1>4. CASE BuildFirst \/ FireSend \/ FireTimeout \/ SubscribeDone \/ SubscribeFail
    BY <1>4, BusBuildFirst, BusFireSend, BusFireTimeout, BusSubscribeDone, BusSubscribeFail
<1>5. CASE \E s \in Sub : SubscribeStart(s) \/ Receive(s) \/ Unsubscribe(s)
    BY <1>5, BusSubscribeStart, BusReceive, BusUnsubscribe
<1>6. CASE Shutdown \/ GetState
    BY <1>6, BusShutdown, BusGetState
<1> QED BY <1>1, <1>2, <1>3, <1>4, <1>5, <1>6 DEF Next

(* Only the end of a fire queues a frame to a watcher already registered,  *)
(* and that frame is newer than the watcher's last.                        *)
LEMMA BusStepInOrder == BusInv /\ [Next]_vars => [\A s \in Sub : InOrder(s)]_vars
<1> SUFFICES ASSUME BusInv, [Next]_vars, NEW s \in Sub, watch[s] = "open", last'[s] # last[s]
             PROVE  last'[s].v > last[s].v /\ last'[s].lo >= last[s].hi
    BY DEF InOrder
<1> USE BusAssumption DEF BusInv
<1>1. ~SubscribeDone
    BY DEF SubscribeDone, OrderInv, TypeOK
<1>2. FireSend
    BY <1>1 DEF Next, vars, dataVars, timerVars, watchVars, Commit, Publish, TimerFires, FireStart,
        CommitRoom, FanBegin, FanPublish, FanTimeout, FanFail, BuildFirst, FireTimeout,
        SubscribeFail, SubscribeStart, Receive, Unsubscribe, Shutdown, GetState
<1>3. BuildLast /\ Target = holder /\ s \in Subs(holder) /\ last'[s] = Frame
    BY <1>2 DEF FireSend, Target, BusAssumption
<1> QED BY <1>3, FrameType DEF OrderInv, TypeOK, BuildLast, Subs

----------------------------------------------------------------------------
(* The cap on an account's watchers.  It is checked when Subscribe starts  *)
(* and the watcher is registered after its build; the mutex in between     *)
(* keeps the count.                                                        *)
WatcherCap ==
    /\ \A a \in Account : IsFiniteSet(Subs(a)) /\ Cardinality(Subs(a)) <= MaxSubs
    /\ holder \in Sub => Cardinality(Subs(Of[holder])) < MaxSubs

(* Who leaves leaves fewer behind.                                         *)
LEMMA FewerWatchers ==
    ASSUME TypeOK, WatcherCap, holder' \notin Sub,
           \A s \in Sub : watch'[s] = "open" => watch[s] = "open"
    PROVE  WatcherCap'
<1> SUFFICES ASSUME NEW a \in Account
             PROVE  IsFiniteSet(Subs(a)') /\ Cardinality(Subs(a)') <= MaxSubs
    BY DEF WatcherCap
<1>1. Subs(a)' \subseteq Subs(a)
    BY DEF Subs
<1>2. /\ IsFiniteSet(Subs(a)') /\ Cardinality(Subs(a)') <= Cardinality(Subs(a))
      /\ Cardinality(Subs(a)') \in Nat /\ Cardinality(Subs(a)) \in Nat
      /\ Cardinality(Subs(a)) <= MaxSubs
    BY <1>1, FS_Subset, FS_CardinalityType DEF WatcherCap
<1> QED BY <1>2, BusAssumption DEF BusAssumption

(* The registration adds one watcher to an account that was below the cap. *)
LEMMA OneMoreWatcher ==
    ASSUME BusInv, WatcherCap, SubscribeDone
    PROVE  WatcherCap'
<1>0. PICK acc \in Account : acc = Of[holder]
    BY BusAssumption DEF SubscribeDone, BusAssumption
<1>1. /\ holder \in Sub /\ acc = Of[holder] /\ holder' = None /\ None \notin Sub
      /\ watch' = [watch EXCEPT ![holder] = "open"] /\ watch \in [Sub -> {"new", "open", "closed"}]
    BY <1>0, BusAssumption DEF SubscribeDone, BusInv, TypeOK, BusAssumption
<1>2. Subs(acc)' = Subs(acc) \cup {holder}
    BY <1>1 DEF Subs
<1>3. \A a \in Account \ {acc} : Subs(a)' = Subs(a)
    BY <1>1 DEF Subs
<1>4. holder \notin Subs(acc)
    BY <1>1 DEF Subs, BusInv, OrderInv
<1>5. IsFiniteSet(Subs(acc)) /\ Cardinality(Subs(acc)) < MaxSubs
    BY <1>1 DEF WatcherCap
<1>6. /\ IsFiniteSet(Subs(acc)') /\ Cardinality(Subs(acc)') = Cardinality(Subs(acc)) + 1
      /\ Cardinality(Subs(acc)) \in Nat
    BY <1>2, <1>4, <1>5, FS_AddElement, FS_CardinalityType
<1>7. IsFiniteSet(Subs(acc)') /\ Cardinality(Subs(acc)') <= MaxSubs
    BY <1>5, <1>6, BusAssumption DEF BusAssumption
<1>8. \A a \in Account : IsFiniteSet(Subs(a)') /\ Cardinality(Subs(a)') <= MaxSubs
    BY <1>3, <1>7 DEF WatcherCap
<1> QED BY <1>1, <1>8 DEF WatcherCap

LEMMA CapInit == Init => WatcherCap
<1> SUFFICES ASSUME Init PROVE WatcherCap
    OBVIOUS
<1>1. \A a \in Account : Subs(a) = {}
    BY DEF Init, Subs
<1>2. holder \notin Sub
    BY BusAssumption DEF Init, BusAssumption
<1> QED BY <1>1, <1>2, FS_EmptySet, BusAssumption DEF WatcherCap, BusAssumption

LEMMA CapNext == BusInv /\ WatcherCap /\ [Next]_vars => WatcherCap'
<1> SUFFICES ASSUME BusInv, WatcherCap, [Next]_vars PROVE WatcherCap'
    OBVIOUS
<1> USE DEF dataVars, timerVars, watchVars
<1>1. CASE UNCHANGED <<watch, holder>>
    BY <1>1 DEF WatcherCap, Subs
<1>2. ASSUME NEW s \in Sub, SubscribeStart(s) PROVE WatcherCap'
    <2>1. CASE Cardinality(Subs(Of[s])) >= MaxSubs
        BY <1>2, <2>1, FewerWatchers, BusAssumption DEF SubscribeStart, BusInv, TypeOK, BusAssumption
    <2>2. CASE ~(Cardinality(Subs(Of[s])) >= MaxSubs)
        <3>1. holder' = s /\ watch' = watch
            BY <1>2, <2>2 DEF SubscribeStart
        <3>2. \A a \in Account : Subs(a)' = Subs(a)
            BY <3>1 DEF Subs
        <3>3. Of[s] \in Account
            BY BusAssumption DEF BusAssumption
        <3>4. Cardinality(Subs(Of[s])) \in Nat
            BY <3>3, FS_CardinalityType DEF WatcherCap
        <3>5. Cardinality(Subs(Of[s])) < MaxSubs
            BY <2>2, <3>4, BusAssumption DEF BusAssumption
        <3> QED BY <3>1, <3>2, <3>3, <3>5 DEF WatcherCap
    <2> QED BY <2>1, <2>2
<1>3. CASE SubscribeDone
    BY <1>3, OneMoreWatcher
<1>4. ASSUME NEW s \in Sub, Unsubscribe(s) PROVE WatcherCap'
    BY <1>4, FewerWatchers, BusAssumption DEF Unsubscribe, BusInv, TypeOK, BusAssumption
<1>5. CASE Shutdown
    BY <1>5, FewerWatchers, BusAssumption DEF Shutdown, BusInv, TypeOK, BusAssumption
<1>6. CASE SubscribeFail
    BY <1>6, FewerWatchers, BusAssumption DEF SubscribeFail, BusInv, TypeOK, BusAssumption
<1>7. ASSUME NEW a \in Account, FireStart(a) PROVE WatcherCap'
    BY <1>7, FewerWatchers, BusAssumption DEF FireStart, BusInv, TypeOK, BusAssumption
<1>8. CASE FireSend \/ FireTimeout
    BY <1>8, FewerWatchers, BusAssumption DEF FireSend, FireTimeout, BusInv, TypeOK, BusAssumption
<1> QED BY <1>1, <1>2, <1>3, <1>4, <1>5, <1>6, <1>7, <1>8 DEF Next, vars, Commit, Publish,
        TimerFires, CommitRoom, FanBegin, FanPublish, FanTimeout, FanFail, BuildFirst, Receive,
        GetState

----------------------------------------------------------------------------
(* The inductive invariant holds in every reachable state.                 *)
THEOREM BusAlways == Spec => []BusInv
BY BusInit, BusNext, PTL DEF Spec

(* Types are kept; no channel ever holds more than its capacity.           *)
THEOREM BusTypes == Spec => []TypeOK
BY BusAlways, PTL DEF BusInv

(* Debouncing, late timers and subscriptions in flight lose no commit.     *)
THEOREM NoCommitIsLost == Spec => []NobodyLeftBehind
BY BusAlways, PTL DEF BusInv

(* A watcher's frames come in order of version and of what they saw.       *)
THEOREM FramesComeInOrder == Spec => FramesInOrder
BY BusAlways, BusStepInOrder, PTL DEF Spec, FramesInOrder

(* However subscriptions overlap, with each other, with builds and with a  *)
(* shutdown, no account has more registered watchers than the cap.         *)
THEOREM WatchersAreCapped ==
    Spec => [](\A a \in Account : IsFiniteSet(Subs(a)) /\ Cardinality(Subs(a)) <= MaxSubs)
<1>1. WatcherCap => \A a \in Account : IsFiniteSet(Subs(a)) /\ Cardinality(Subs(a)) <= MaxSubs
    BY DEF WatcherCap
<1> QED BY <1>1, BusAlways, CapInit, CapNext, PTL DEF Spec

=============================================================================
