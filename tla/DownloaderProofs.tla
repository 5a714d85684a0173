-------------------------- MODULE DownloaderProofs --------------------------
(***************************************************************************)
(* Downloader for every number of rows, every batch size and every backoff *)
(* schedule: a row marked as cached has its file, whole, no row is fetched  *)
(* while it is in backoff, the backoff is the documented schedule, and a   *)
(* batch has room for the oldest row whose file is there.                  *)
(***************************************************************************)
EXTENDS Downloader, TLAPS, WellFoundedInduction, FiniteSetTheorems

\* A body that has been copied is all of an answer, and between the rename
\* and the mark the file is there.
CopiedIsWhole == stage = "copied" => temp[Cur] \in {"short", "full"}
RenamedIsWhole == stage = "renamed" => Whole(Cur)

\* What the cycle took out of backoff at its now stays out of it.
TakenHaveWaited == \A i \in todo \ resting : ~inBackoff(i)

IInv == TypeOK /\ MarkedIsWhole /\ CopiedIsWhole /\ RenamedIsWhole

LEMMA LesserType ==
    ASSUME NEW m \in Int, NEW n \in Int
    PROVE  Lesser(m, n) \in Int /\ Lesser(m, n) <= m /\ Lesser(m, n) <= n
                /\ (Lesser(m, n) = m \/ Lesser(m, n) = n)
BY DEF Lesser

LEMMA PassedType ==
    ASSUME NEW s \in 0..MaxBackoff
    PROVE  Passed(s) \in 0..MaxBackoff /\ s <= Passed(s)
BY DownloaderAssumption DEF Passed, Lesser

LEMMA FailsType ==
    ASSUME TypeOK, NEW i, Fails(i)
    PROVE  /\ tries' \in [Row -> 0..MaxTries]
           /\ since' \in [Row -> 0..MaxBackoff]
           /\ temp' \in [Row -> {"none", "torn", "short", "full"}]
           /\ todo' \subseteq Row /\ stage' = "scan"
<1>1. CASE i \in Row
  <2>1. Lesser(tries[i] + 1, MaxTries) \in 0..MaxTries
    BY <1>1, DownloaderAssumption DEF TypeOK, Lesser
  <2> QED BY <2>1, <1>1 DEF TypeOK, Fails
<1>2. CASE i \notin Row
  BY <1>2 DEF TypeOK, Fails
<1> QED BY <1>1, <1>2

LEMMA OldestAreRows == Oldest \subseteq Row
BY DEF Oldest, Pending

LEMMA TypeInit == Init => TypeOK
BY DownloaderAssumption DEF Init, TypeOK

LEMMA TypeNext == TypeOK /\ [Next]_vars => TypeOK'
<1> SUFFICES ASSUME TypeOK, [Next]_vars PROVE TypeOK'
  OBVIOUS
<1>1. CASE Work
  <2> USE DownloaderAssumption DEF tableVars, diskVars, failVars, cycleVars
  <2>1. CASE CycleStart
    BY <2>1, OldestAreRows DEF CycleStart, TypeOK
  <2>2. CASE CycleFail \/ CycleEnd \/ Skip \/ FetchStart
    BY <2>2 DEF CycleFail, CycleEnd, Skip, FetchStart, TypeOK
  <2>3. CASE FetchFail
    BY <2>3, FailsType DEF FetchFail, TypeOK
  <2>4. CASE Return
    BY <2>4 DEF Return, Forgets, TypeOK
  <2>5. ASSUME NEW i \in Row, Respond(i) \/ Copied(i) PROVE TypeOK'
    BY <2>5 DEF Respond, Copied, TypeOK
  <2>6. ASSUME NEW i \in Row, Commit(i) PROVE TypeOK'
    BY <2>6 DEF Commit, TypeOK
  <2>7. ASSUME NEW i \in Row, MarkDownloaded(i) PROVE TypeOK'
    BY <2>7 DEF MarkDownloaded, TypeOK
  <2> QED BY <1>1, <2>1, <2>2, <2>3, <2>4, <2>5, <2>6, <2>7 DEF Work, Fetch
<1>2. CASE Others
  BY <1>2 DEF Others, Arrive, SendMarks, RowDeleted, TypeOK,
              tableVars, diskVars, failVars, cycleVars
<1>3. CASE Tick
  <2>1. \A i \in Row : Passed(since[i]) \in 0..MaxBackoff
    BY PassedType DEF TypeOK
  <2>2. Passed(age) \in 0..MaxBackoff /\ 0 \in 0..MaxBackoff
    BY PassedType, DownloaderAssumption DEF TypeOK
  <2> QED BY <1>3, <2>1, <2>2 DEF Tick, TypeOK, tableVars, diskVars
<1>4. CASE Shutdown \/ Crash \/ Restart
  BY <1>4, DownloaderAssumption DEF Shutdown, Crash, Restart, Forgets, TypeOK,
              tableVars, diskVars, failVars, cycleVars
<1>5. CASE UNCHANGED vars
  BY <1>5 DEF vars, TypeOK, tableVars, diskVars, failVars, cycleVars
<1> QED BY <1>1, <1>2, <1>3, <1>4, <1>5 DEF Next

\* Type correctness: every variable keeps its type, whatever the constants.
THEOREM TypeCorrect == Spec => []TypeOK
<1> QED BY TypeInit, TypeNext, PTL DEF Spec

LEMMA WholeNext == IInv /\ [Next]_vars => IInv'
<1> SUFFICES ASSUME IInv, [Next]_vars 
             PROVE  MarkedIsWhole' /\ CopiedIsWhole' /\ RenamedIsWhole'
  BY TypeNext DEF IInv
<1> USE DEF IInv, MarkedIsWhole, CopiedIsWhole, RenamedIsWhole, Whole, Cur,
            tableVars, diskVars, failVars, cycleVars
<1>1. CASE CycleStart \/ CycleFail \/ CycleEnd \/ Skip \/ FetchStart
  BY <1>1 DEF CycleStart, CycleFail, CycleEnd, Skip, FetchStart
<1>2. CASE FetchFail
  BY <1>2 DEF FetchFail, Fails
<1>3. CASE Return \/ Shutdown \/ Crash \/ Restart
  BY <1>3 DEF Return, Shutdown, Crash, Restart, Forgets
<1>4. ASSUME NEW i \in Row, Respond(i) \/ Copied(i)
      PROVE  MarkedIsWhole' /\ CopiedIsWhole' /\ RenamedIsWhole'
  BY <1>4 DEF Respond, Copied, TypeOK
<1>5. ASSUME NEW i \in Row, Commit(i)
      PROVE  MarkedIsWhole' /\ CopiedIsWhole' /\ RenamedIsWhole'
  BY <1>5 DEF Commit, TypeOK
<1>6. ASSUME NEW i \in Row, MarkDownloaded(i)
      PROVE  MarkedIsWhole' /\ CopiedIsWhole' /\ RenamedIsWhole'
  BY <1>6 DEF MarkDownloaded, TypeOK
<1>7. ASSUME NEW i \in Row, Arrive(i) \/ SendMarks(i) \/ RowDeleted(i)
      PROVE  MarkedIsWhole' /\ CopiedIsWhole' /\ RenamedIsWhole'
  BY <1>7 DEF Arrive, SendMarks, RowDeleted, TypeOK
<1>8. CASE Tick
  BY <1>8 DEF Tick
<1>9. CASE UNCHANGED vars
  BY <1>9 DEF vars
<1> QED
  BY <1>1, <1>2, <1>3, <1>4, <1>5, <1>6, <1>7, <1>8, <1>9
     DEF Next, Work, Fetch, Others

\* A row that points into the cache points to a file that is all of one
\* answer, of the gateway's length where the gateway gave one, for every
\* interleaving of the fetch with sends, deletions, crashes and restarts.
THEOREM CachedIsWhole == Spec => []MarkedIsWhole
<1>1. Init => IInv
  BY TypeInit DEF Init, IInv, MarkedIsWhole, CopiedIsWhole, RenamedIsWhole
<1>2. IInv => MarkedIsWhole
  BY DEF IInv
<1> QED BY <1>1, <1>2, WholeNext, PTL DEF Spec

----------------------------------------------------------------------------
(* The schedule: what the recursive definitions compute *)

LEMMA LeastElement ==
    ASSUME NEW T, T \subseteq Nat, T # {}
    PROVE  \E m \in T : \A n \in T : m <= n
<1>1. PICK m \in T : \A n \in T : ~(<<n, m>> \in OpToRel(<, Nat))
  BY NatLessThanWellFounded, WFMin
<1>2. m \in Nat /\ \A n \in T : n \in Nat /\ ~(n < m)
  BY <1>1 DEF OpToRel
<1>3. \A n \in T : m <= n
  BY <1>2
<1> QED BY <1>3

\* f takes the first n steps from a.
Steps(f, n, a, step) == f[0] = a /\ \A k \in 1..n : f[k] = step[f[k - 1]]

LEMMA StepsAgree ==
    ASSUME NEW a, NEW step, NEW f, NEW g, NEW n \in Nat, NEW o \in Nat,
           Steps(f, n, a, step), Steps(g, o, a, step),
           NEW k \in Nat, k <= n, k <= o
    PROVE  f[k] = g[k]
<1> DEFINE T == {i \in Nat : i <= n /\ i <= o /\ f[i] # g[i]}
<1> SUFFICES ASSUME T # {} PROVE FALSE
  OBVIOUS
<1>1. PICK m \in T : \A i \in T : m <= i
  BY LeastElement
<1>2. m # 0
  BY <1>1 DEF Steps
<1>3. m - 1 \in Nat /\ m - 1 \notin T /\ m \in 1..n /\ m \in 1..o
  BY <1>1, <1>2
<1>4. f[m - 1] = g[m - 1]
  BY <1>3
<1> QED BY <1>1, <1>3, <1>4 DEF Steps

\* F takes every step from a.
Iterates(F, a, step) == F[0] = a /\ \A n \in Nat \ {0} : F[n] = step[F[n - 1]]

\* A function on the naturals may be defined by its first value and a step.
LEMMA RecursionExists ==
    ASSUME NEW X, NEW a \in X, NEW step \in [X -> X]
    PROVE  \E F \in [Nat -> X] : Iterates(F, a, step)
<1> DEFINE Chain(n) == {f \in [0..n -> X] : Steps(f, n, a, step)}
<1>1. \A n \in Nat : Chain(n) # {}
  <2> DEFINE T == {n \in Nat : Chain(n) = {}}
  <2> SUFFICES ASSUME T # {} PROVE FALSE
    OBVIOUS
  <2>1. PICK m \in T : \A i \in T : m <= i
    BY LeastElement
  <2>2. m # 0
    <3>1. [i \in 0..0 |-> a] \in Chain(0)
      BY DEF Steps
    <3> QED BY <2>1, <3>1
  <2>3. m - 1 \in Nat /\ m - 1 \notin T
    BY <2>1, <2>2
  <2>4. PICK f \in [0..(m - 1) -> X] : Steps(f, m - 1, a, step)
    BY <2>3
  <2> DEFINE h == [i \in 0..m |-> IF i = m THEN step[f[m - 1]] ELSE f[i]]
  <2>5. h \in [0..m -> X]
    BY <2>1, <2>3, <2>4
  <2>6. h[0] = a
    BY <2>1, <2>2, <2>4 DEF Steps
  <2>7. ASSUME NEW k \in 1..m PROVE h[k] = step[h[k - 1]]
    <3>1. CASE k = m
      BY <2>1, <2>3, <3>1
    <3>2. CASE k # m
      <4>1. k \in 1..(m - 1) /\ k \in 0..m /\ k - 1 \in 0..m /\ k - 1 # m
        BY <2>1, <3>2
      <4> QED BY <2>4, <3>2, <4>1 DEF Steps
    <3> QED BY <3>1, <3>2
  <2>8. h \in Chain(m)
    BY <2>5, <2>6, <2>7 DEF Steps
  <2> QED BY <2>1, <2>8
<1> DEFINE At(n) == CHOOSE f : f \in Chain(n)
           F == [n \in Nat |-> At(n)[n]]
<1>2. \A n \in Nat : At(n) \in Chain(n)
  BY <1>1
<1> HIDE DEF At
<1>3. \A n \in Nat : At(n) \in [0..n -> X] /\ Steps(At(n), n, a, step)
  BY <1>2
<1>4. F \in [Nat -> X]
  BY <1>3
<1>5. F[0] = a
  BY <1>3 DEF Steps
<1>6. ASSUME NEW n \in Nat \ {0} PROVE F[n] = step[F[n - 1]]
  <2>1. n - 1 \in Nat /\ n \in 1..n /\ n \in Nat
    OBVIOUS
  <2>2. At(n)[n] = step[At(n)[n - 1]]
    BY <1>3, <2>1 DEF Steps
  <2>3. At(n)[n - 1] = At(n - 1)[n - 1]
    BY <1>3, <2>1, StepsAgree
  <2> QED BY <2>1, <2>2, <2>3
<1> QED BY <1>4, <1>5, <1>6 DEF Iterates

LEMMA Pow2Is ==
    /\ Pow2 \in [Nat -> Nat]
    /\ Pow2[0] = 1
    /\ \A n \in Nat \ {0} : Pow2[n] = 2 * Pow2[n - 1]
<1> DEFINE Double == [x \in Nat |-> 2 * x]
<1>1. Double \in [Nat -> Nat]
  OBVIOUS
<1>2. \A x \in Nat : Double[x] = 2 * x
  OBVIOUS
<1> HIDE DEF Double
<1>3. PICK F \in [Nat -> Nat] : Iterates(F, 1, Double)
  BY <1>1, RecursionExists, Zenon
<1>4. ASSUME NEW n \in Nat \ {0} PROVE n - 1 \in Nat /\ F[n] = 2 * F[n - 1]
  <2>1. n - 1 \in Nat /\ F[n - 1] \in Nat
    OBVIOUS
  <2> QED BY <1>2, <1>3, <2>1 DEF Iterates
<1>5. F = [n \in Nat |-> IF n = 0 THEN 1 ELSE 2 * F[n - 1]]
  BY <1>3, <1>4 DEF Iterates
<1>6. Pow2 = [n \in Nat |-> IF n = 0 THEN 1 ELSE 2 * Pow2[n - 1]]
  BY <1>5 DEF Pow2
<1>7. Pow2[0] = 1 /\ \A n \in Nat \ {0} : Pow2[n] = 2 * Pow2[n - 1]
  BY <1>6
<1>8. Pow2 = F
  <2>1. \A n \in Nat \ {0} : n - 1 \in Nat
    OBVIOUS
  <2> DEFINE T == {n \in Nat : Pow2[n] # F[n]}
  <2>2. ASSUME T # {} PROVE FALSE
    <3>1. PICK m \in T : \A i \in T : m <= i
      BY <2>2, LeastElement
    <3>2. m # 0
      BY <1>3, <1>7, <3>1 DEF Iterates
    <3>3. m - 1 \in Nat /\ m - 1 \notin T
      BY <3>1, <3>2
    <3> QED BY <1>4, <1>7, <3>1, <3>2, <3>3
  <2>3. \A n \in Nat : Pow2[n] = F[n]
    BY <2>2
  <2>4. Pow2 = [n \in Nat |-> Pow2[n]]
    BY <1>6
  <2> QED BY <2>3, <2>4
<1> QED BY <1>3, <1>7, <1>8

\* The doubling waits are the powers of two, up to the limit.
LEMMA ScheduleIs ==
    Schedule = [n \in Nat |-> IF n = 0 THEN 0 ELSE Lesser(Pow2[n], MaxBackoff)]
<1> DEFINE G == [n \in Nat |-> IF n = 0 THEN 0 ELSE Lesser(Pow2[n], MaxBackoff)]
<1>1. \A n \in Nat : Pow2[n] \in Nat
  BY Pow2Is
<1>2. Pow2[1] = 2
  BY Pow2Is
<1>3. ASSUME NEW n \in Nat, n # 0, n # 1
      PROVE  G[n] = Lesser(2 * G[n - 1], MaxBackoff)
  <2>1. n - 1 \in Nat /\ n - 1 # 0 /\ Pow2[n] = 2 * Pow2[n - 1]
    BY <1>3, Pow2Is
  <2>2. Lesser(2 * Lesser(Pow2[n - 1], MaxBackoff), MaxBackoff)
          = Lesser(2 * Pow2[n - 1], MaxBackoff)
    BY <1>1, <2>1, DownloaderAssumption DEF Lesser
  <2> QED BY <2>1, <2>2
<1>4. G = [n \in Nat |-> IF n = 0 THEN 0 ELSE IF n = 1 THEN Lesser(2, MaxBackoff)
                         ELSE Lesser(2 * G[n - 1], MaxBackoff)]
  BY <1>2, <1>3
<1>5. Schedule = [n \in Nat |-> IF n = 0 THEN 0 ELSE IF n = 1 THEN Lesser(2, MaxBackoff)
                                ELSE Lesser(2 * Schedule[n - 1], MaxBackoff)]
  BY <1>4 DEF Schedule
<1> HIDE DEF G
<1>6. ASSUME NEW n \in Nat PROVE Schedule[n] = G[n]
  <2> DEFINE T == {k \in Nat : Schedule[k] # G[k]}
  <2>1. ASSUME T # {} PROVE FALSE
    <3>1. PICK m \in T : \A i \in T : m <= i
      BY <2>1, LeastElement
    <3>2. m \in Nat /\ Schedule[m] # G[m]
      BY <3>1
    <3>3. m # 0 /\ m # 1
      BY <1>4, <1>5, <3>2
    <3>4. m - 1 \in Nat /\ m - 1 \notin T
      BY <3>1, <3>3
    <3>5. Schedule[m - 1] = G[m - 1]
      BY <3>4
    <3> QED BY <1>4, <1>5, <3>2, <3>3, <3>5
  <2> QED BY <2>1
<1>7. Schedule = [n \in Nat |-> Schedule[n]]
  BY <1>5
<1>8. G = [n \in Nat |-> G[n]]
  BY <1>4
<1> QED BY <1>6, <1>7, <1>8 DEF G

LEMMA ScheduleAt ==
    ASSUME NEW n \in Nat
    PROVE  /\ Pow2[n] \in Nat
           /\ n = 0 => Schedule[n] = 0
           /\ n # 0 => Schedule[n] = Lesser(Pow2[n], MaxBackoff)
           /\ Schedule[n] \in 0..MaxBackoff
<1>1. Pow2[n] \in Nat
  BY Pow2Is
<1>2. Schedule[n] = IF n = 0 THEN 0 ELSE Lesser(Pow2[n], MaxBackoff)
  BY ScheduleIs
<1> QED BY <1>1, <1>2, DownloaderAssumption DEF Lesser

\* What the code waits is what the schedule says, for every number of
\* failures: the shift is exact where it is taken, and where it is not the
\* schedule has no more to give than the limit.
LEMMA BackoffCoversSchedule ==
    ASSUME NEW n \in Nat
    PROVE  Schedule[n] <= backoffFor(n)
<1>1. Pow2[n] \in Nat /\ Schedule[n] \in 0..MaxBackoff
  BY ScheduleAt
<1>2. CASE n = 0
  BY <1>1, <1>2, ScheduleAt DEF backoffFor
<1>3. CASE n # 0 /\ n >= Saturate
  BY <1>1, <1>3, DownloaderAssumption DEF backoffFor
<1>4. CASE n # 0 /\ n < Saturate
  <2>1. n \in 0..(Saturate - 1)
    BY <1>4, DownloaderAssumption
  <2>2. 2 * Pow2[n] < Word
    BY <2>1, ShiftsFit
  <2>3. Pow2[n] % Word = Pow2[n]
    BY <1>1, <2>2, DownloaderAssumption
  <2>4. Shift(n) = Pow2[n]
    BY <1>1, <2>2, <2>3, DownloaderAssumption DEF Shift
  <2>5. backoffFor(n) = Lesser(Pow2[n], MaxBackoff)
    BY <1>4, <2>4, DownloaderAssumption DEF backoffFor
  <2>6. Schedule[n] = Lesser(Pow2[n], MaxBackoff)
    BY <1>4, ScheduleAt
  <2> QED BY <1>1, <2>5, <2>6, DownloaderAssumption
<1> QED BY <1>2, <1>3, <1>4, DownloaderAssumption

----------------------------------------------------------------------------
(* Nothing is fetched in backoff *)

\* The row being fetched was not in backoff when the cycle began.
FetchedWasTaken == stage = "get" => Cur \in todo \ resting

\* A row that a cycle fetches is not in backoff, though time has passed
\* and other rows have failed since the cycle's now.
NoFetchInBackoff == stage = "get" => ~inBackoff(Cur)

WaitInv == TypeOK /\ TakenHaveWaited /\ FetchedWasTaken

LEMMA ShiftType == ASSUME NEW n \in Nat PROVE Shift(n) \in Int
<1>1. Pow2[n] \in Nat
  BY Pow2Is
<1>2. Pow2[n] % Word \in Int
  BY <1>1, DownloaderAssumption
<1> QED BY <1>2, DownloaderAssumption DEF Shift

LEMMA BackoffType == ASSUME NEW n \in Nat PROVE backoffFor(n) \in Int
BY ShiftType, LesserType, DownloaderAssumption DEF backoffFor

\* Time only ends a backoff.
LEMMA TickEndsBackoff ==
    ASSUME TypeOK, Tick, NEW i \in Row, ~inBackoff(i)
    PROVE  ~inBackoff(i)'
<1>1. tries[i] \in Nat /\ since[i] \in 0..MaxBackoff
  BY DownloaderAssumption DEF TypeOK
<1>2. tries'[i] = tries[i] /\ since'[i] = Passed(since[i])
  BY DEF Tick, TypeOK
<1>3. backoffFor(tries[i]) \in Int
  BY <1>1, BackoffType
<1>4. Passed(since[i]) \in 0..MaxBackoff /\ since[i] <= Passed(since[i])
  BY <1>1, PassedType
<1>5. ~(tries[i] > 0 /\ since[i] < backoffFor(tries[i]))
  BY DEF inBackoff
<1>6. ~(tries[i] > 0 /\ Passed(since[i]) < backoffFor(tries[i]))
  BY <1>1, <1>3, <1>4, <1>5, DownloaderAssumption
<1> QED BY <1>2, <1>6 DEF inBackoff

LEMMA WaitNext == WaitInv /\ [Next]_vars => WaitInv'
<1> SUFFICES ASSUME WaitInv, [Next]_vars
             PROVE  TakenHaveWaited' /\ FetchedWasTaken'
  BY TypeNext DEF WaitInv
<1> USE DEF WaitInv, TakenHaveWaited, FetchedWasTaken, Cur,
            tableVars, diskVars, failVars, cycleVars
<1>1. CASE CycleStart
  BY <1>1 DEF CycleStart, inBackoff
<1>2. CASE CycleFail \/ CycleEnd \/ Skip \/ FetchStart
  BY <1>2 DEF CycleFail, CycleEnd, Skip, FetchStart, inBackoff
<1>3. CASE FetchFail
  BY <1>3 DEF FetchFail, Fails, inBackoff, TypeOK
<1>4. CASE Return \/ Shutdown \/ Crash \/ Restart
  BY <1>4 DEF Return, Shutdown, Crash, Restart, Forgets, inBackoff
<1>5. ASSUME NEW i \in Row, Respond(i) \/ Copied(i) \/ Commit(i)
      PROVE  TakenHaveWaited' /\ FetchedWasTaken'
  BY <1>5 DEF Respond, Copied, Commit, inBackoff
<1>6. ASSUME NEW i \in Row, MarkDownloaded(i)
      PROVE  TakenHaveWaited' /\ FetchedWasTaken'
  BY <1>6 DEF MarkDownloaded, inBackoff, TypeOK
<1>7. ASSUME NEW i \in Row, Arrive(i) \/ SendMarks(i) \/ RowDeleted(i)
      PROVE  TakenHaveWaited' /\ FetchedWasTaken'
  BY <1>7 DEF Arrive, SendMarks, RowDeleted, inBackoff
<1>8. CASE Tick
  <2>1. todo' = todo /\ resting' = resting /\ stage' = stage
    BY <1>8 DEF Tick
  <2>2. \A i \in todo \ resting : ~inBackoff(i)'
    BY <1>8, TickEndsBackoff DEF TypeOK
  <2> QED BY <2>1, <2>2
<1>9. CASE UNCHANGED vars
  BY <1>9 DEF vars, inBackoff
<1> QED
  BY <1>1, <1>2, <1>3, <1>4, <1>5, <1>6, <1>7, <1>8, <1>9
     DEF Next, Work, Fetch, Others

\* A row in backoff is never fetched, for every backoff schedule and batch.
THEOREM BackoffIsKept == Spec => []NoFetchInBackoff
<1>1. Init => WaitInv
  BY TypeInit DEF Init, WaitInv, TakenHaveWaited, FetchedWasTaken
<1>2. WaitInv => NoFetchInBackoff
  BY DEF WaitInv, TakenHaveWaited, FetchedWasTaken, NoFetchInBackoff
<1> QED BY <1>1, <1>2, WaitNext, PTL DEF Spec

\* A row that has failed n times waits out the n-th wait of the schedule,
\* for every n, every batch size and every limit.
THEOREM RetriesKeepTheSchedule == Spec => []RetriesAreSpaced
<1>1. ASSUME WaitInv PROVE RetriesAreSpaced
  <2> SUFFICES ASSUME stage = "get" PROVE since[Cur] >= Schedule[tries[Cur]]
    BY DEF RetriesAreSpaced
  <2>1. Cur \in Row /\ ~inBackoff(Cur)
    BY <1>1 DEF WaitInv, TypeOK, TakenHaveWaited, FetchedWasTaken
  <2>2. tries[Cur] \in Nat /\ since[Cur] \in Nat
    BY <1>1, <2>1, DownloaderAssumption DEF WaitInv, TypeOK
  <2>3. /\ Schedule[tries[Cur]] <= backoffFor(tries[Cur])
        /\ backoffFor(tries[Cur]) \in Int
    BY <2>2, BackoffCoversSchedule, BackoffType
  <2>4. CASE tries[Cur] = 0
    BY <2>2, <2>4, ScheduleAt
  <2>5. CASE tries[Cur] # 0
    <3>1. ~(since[Cur] < backoffFor(tries[Cur]))
      BY <2>1, <2>2, <2>5 DEF inBackoff
    <3>2. Schedule[tries[Cur]] \in Int
      BY <2>2, ScheduleAt, DownloaderAssumption
    <3> QED BY <2>2, <2>3, <3>1, <3>2
  <2> QED BY <2>4, <2>5
<1>2. Init => WaitInv
  BY TypeInit DEF Init, WaitInv, TakenHaveWaited, FetchedWasTaken
<1> QED BY <1>1, <1>2, WaitNext, PTL DEF Spec

----------------------------------------------------------------------------
(* The batch *)

LEMMA RowsAreFinite ==
    ASSUME NEW S, S \subseteq Row
    PROVE  IsFiniteSet(S) /\ Cardinality(S) \in Nat
<1>1. IsFiniteSet(Row)
  BY FS_Interval, DownloaderAssumption DEF Row
<1> QED BY <1>1, FS_Subset, FS_CardinalityType

LEMMA LastRow ==
    ASSUME NEW S, S \subseteq Row, S # {}
    PROVE  \E m \in S : \A i \in S : i <= m
<1> DEFINE T == {k \in Nat : \A i \in S : i <= k}
<1>1. \A i \in S : i \in Nat /\ 1 <= i /\ i <= N
  BY DownloaderAssumption DEF Row
<1>2. N \in T
  BY <1>1, DownloaderAssumption
<1>3. PICK k \in T : \A j \in T : k <= j
  BY <1>2, LeastElement
<1>4. ASSUME k \notin S PROVE FALSE
  <2>1. \A i \in S : i <= k - 1
    BY <1>1, <1>3, <1>4
  <2>2. k - 1 \in Nat
    BY <1>1, <2>1, <1>3
  <2> QED BY <1>3, <2>1, <2>2
<1> QED BY <1>3, <1>4

LEMMA OldestIsBounded == Cardinality(Oldest) <= Limit
<1>1. CASE Oldest = {}
  BY <1>1, FS_EmptySet, DownloaderAssumption
<1>2. CASE Oldest # {}
  <2> DEFINE Before(m) == {j \in Pending : j < m}
  <2>1. PICK m \in Oldest : \A i \in Oldest : i <= m
    BY <1>2, OldestAreRows, LastRow
  <2>2. Oldest \subseteq Before(m) \cup {m}
    <3> SUFFICES ASSUME NEW i \in Oldest, i # m PROVE i \in Before(m)
      OBVIOUS
    <3>1. i \in Pending /\ i <= m
      BY <2>1 DEF Oldest
    <3>2. i \in Int /\ m \in Int
      BY <2>1, OldestAreRows DEF Row
    <3> QED BY <3>1, <3>2
  <2>3. Cardinality(Before(m)) < Limit
    BY <2>1 DEF Oldest
  <2>4. IsFiniteSet(Before(m)) /\ Cardinality(Before(m)) \in Nat
    BY RowsAreFinite DEF Pending
  <2> HIDE DEF Before
  <2>5. /\ IsFiniteSet(Before(m) \cup {m})
        /\ Cardinality(Before(m) \cup {m}) <= Cardinality(Before(m)) + 1
    BY <2>4, FS_AddElement
  <2>6. Cardinality(Oldest) <= Cardinality(Before(m) \cup {m})
    BY <2>2, <2>5, FS_Subset
  <2>7. Cardinality(Oldest) \in Nat /\ Cardinality(Before(m) \cup {m}) \in Nat
    BY <2>5, OldestAreRows, RowsAreFinite, FS_CardinalityType
  <2> QED BY <2>3, <2>4, <2>5, <2>6, <2>7, DownloaderAssumption
<1> QED BY <1>1, <1>2

\* A cycle never holds more rows than it asked the table for.
BatchIsBounded == Cardinality(todo) <= Limit

LEMMA TodoShrinks ==
    ASSUME TypeOK, BatchIsBounded, todo' \subseteq todo
    PROVE  BatchIsBounded'
<1>1. IsFiniteSet(todo) /\ Cardinality(todo) \in Nat
  BY RowsAreFinite DEF TypeOK
<1>2. /\ Cardinality(todo') <= Cardinality(todo)
      /\ IsFiniteSet(todo') /\ Cardinality(todo') \in Nat
  BY <1>1, FS_Subset, FS_CardinalityType
<1> QED BY <1>1, <1>2, DownloaderAssumption DEF BatchIsBounded

\* Whatever arrives, fails or is deleted meanwhile, a cycle works on at most
\* Limit rows.
THEOREM BatchNeverGrows == Spec => []BatchIsBounded
<1>1. Init => BatchIsBounded
  BY FS_EmptySet, DownloaderAssumption DEF Init, BatchIsBounded
<1>2. TypeOK /\ BatchIsBounded /\ [Next]_vars => BatchIsBounded'
  <2> SUFFICES ASSUME TypeOK, BatchIsBounded, [Next]_vars PROVE BatchIsBounded'
    OBVIOUS
  <2>1. CASE CycleStart
    BY <2>1, OldestIsBounded DEF CycleStart, BatchIsBounded
  <2>2. CASE ~CycleStart
    <3>1. todo' \subseteq todo
      BY <2>2 DEF Next, Work, Others, Fetch, CycleFail, CycleEnd, Skip, FetchStart,
         FetchFail, Fails, Return, Respond, Copied, Commit, MarkDownloaded, Arrive, SendMarks,
         RowDeleted, Tick, Shutdown, Crash, Restart, Forgets, vars, cycleVars
    <3> QED BY <3>1, TodoShrinks
  <2> QED BY <2>1, <2>2
<1> QED BY <1>1, <1>2, TypeCorrect, PTL DEF Spec

\* The row, of those whose file is there, that has waited longest.
OldestGood(i) == i \in Pending \ Dead /\ \A j \in Pending \ Dead : i <= j

LEMMA OldestGoodIsTaken ==
    ASSUME Cardinality(Dead) < Limit, NEW i, OldestGood(i)
    PROVE  i \in Oldest
<1> DEFINE Before == {j \in Pending : j < i}
<1>1. i \in Row /\ Pending \subseteq Row
  BY DEF OldestGood, Pending
<1>2. Before \subseteq Dead
  <2> SUFFICES ASSUME NEW j \in Pending, j < i, j \notin Dead PROVE FALSE
    OBVIOUS
  <2>1. i <= j
    BY DEF OldestGood
  <2>2. i \in Int /\ j \in Int
    BY <1>1 DEF Row
  <2> QED BY <2>1, <2>2
<1>3. IsFiniteSet(Dead) /\ Cardinality(Dead) \in Nat
  BY RowsAreFinite, DownloaderAssumption
<1>4. Cardinality(Before) <= Cardinality(Dead) /\ Cardinality(Before) \in Nat
  BY <1>1, <1>2, <1>3, FS_Subset, RowsAreFinite
<1>5. Cardinality(Before) < Limit
  BY <1>3, <1>4, DownloaderAssumption
<1> QED BY <1>5 DEF Oldest, OldestGood

\* One failure does not stop other rows, step by step: while fewer rows are
\* dead than a cycle takes, every cycle takes the oldest row whose file is
\* there.
THEOREM NoCyclePassesIt ==
    ASSUME Cardinality(Dead) < Limit
    PROVE  Spec => [][CycleStart => \A i \in Row : OldestGood(i) => i \in todo']_vars
<1>1. [CycleStart => \A i \in Row : OldestGood(i) => i \in todo']_vars
  BY OldestGoodIsTaken DEF CycleStart
<1> QED BY <1>1, PTL
=============================================================================
