----------------------------- MODULE Downloader -----------------------------
(***************************************************************************)
(* internal/attachment/downloader.go: one goroutine polls the attachments  *)
(* table for rows without a downloaded_at, fetches each file into a        *)
(* temporary file, renames it to its final path and marks the row.  Rows   *)
(* that fail rest for a time that doubles up to a limit; what is known of  *)
(* failures lives in memory.                                               *)
(*                                                                         *)
(* Beside it run the ingester, which inserts rows, the send path, which    *)
(* marks the row of its own gateway echo with the path it uploaded from,   *)
(* and deletions that take rows with their message.  Time is counted in    *)
(* seconds, Poll of them at a time.                                        *)
(***************************************************************************)
EXTENDS Integers, FiniteSets, FiniteSetsExt

CONSTANTS
    N,          \* rows that are ever inserted, in the order of created_at, id
    Limit,      \* rows a cycle takes (50)
    Dead,       \* rows whose file never comes: expired URL, too large
    Echo,       \* rows that are the echo of a send with attachments
    Lost,       \* rows whose message may be deleted
    Sized,      \* rows whose size the gateway supplied (a.Size > 0)
    Poll,       \* seconds between two ticks (2)
    Saturate,   \* attempts from which the backoff is MaxBackoff (7)
    MaxBackoff, \* seconds (120)
    Word,       \* 2^w, w the bits of a time.Duration in seconds
    MaxTries    \* bound: attempts are counted up to here

Row == 1..N

ASSUME DownloaderAssumption ==
    /\ N \in Nat /\ Limit \in Nat \ {0} /\ Poll \in Nat \ {0}
    /\ Dead \subseteq Row /\ Echo \subseteq Row /\ Lost \subseteq Row
    /\ Sized \subseteq Row
    /\ Saturate \in Nat /\ MaxBackoff \in Nat /\ Word \in Nat \ {0}
    /\ MaxTries \in Nat \ {0}

VARIABLES
    row,        \* row[i]: "none", "pending", "done" or "gone"
    path,       \* path[i]: local_path: "none", "source" or "cache"
    temp,       \* temp[i]: the temporary file: "none", "torn" (still written,
                \* or left so), "short" (all of an answer of another length)
                \* or "full"
    file,       \* file[i]: the file at the final path, in the same words
    tries,      \* failed[i].attempts, 0 when there is no entry
    since,      \* seconds since failed[i].lastFailedAt, up to MaxBackoff
    mode,       \* "run", "stopping" (ctx cancelled), "stopped" or "dead"
    stage,      \* "idle", "scan", "get", "stream", "copied" or "renamed"
    todo,       \* rows of the cycle still to look at
    resting,    \* those of them in backoff at the cycle's now
    age,        \* seconds since the cycle's now, up to MaxBackoff
    tick        \* "due" when the ticker has fired

tableVars == <<row, path>>
diskVars  == <<temp, file>>
failVars  == <<tries, since>>
cycleVars == <<stage, todo, resting, age, tick>>
vars == <<tableVars, diskVars, failVars, mode, cycleVars>>

Lesser(m, n) == IF m < n THEN m ELSE n
Passed(s) == Lesser(s + Poll, MaxBackoff)

Pending == {i \in Row : row[i] = "pending"}

\* Mutant: one row too few is taken.
OldestButOne == {i \in Pending : Cardinality({j \in Pending : j <= i}) < Limit}

\* ORDER BY created_at, id LIMIT: those with fewer than Limit before them.
Oldest == {i \in Pending : Cardinality({j \in Pending : j < i}) < Limit}

\* 1 << n in a signed integer: what n doublings leave in its bits
Pow2[n \in Nat] == IF n = 0 THEN 1 ELSE 2 * Pow2[n - 1]
Shift(n) == LET m == Pow2[n] % Word IN IF 2 * m >= Word THEN m - Word ELSE m

\* The shifts that are taken fit: 1 << 6 is far from the sign bit.
ASSUME ShiftsFit == \A n \in 0..(Saturate - 1) : 2 * Pow2[n] < Word

\* Mutant: the shift is taken before the attempts are capped.
BackoffUncapped(n) == IF n <= 0 THEN 0 ELSE Lesser(Shift(n), MaxBackoff)

backoffFor(n) ==
    IF n <= 0 THEN 0
    ELSE IF n >= Saturate THEN MaxBackoff
    ELSE Lesser(Shift(n), MaxBackoff)

inBackoff(i) == tries[i] > 0 /\ since[i] < backoffFor(tries[i])

\* The row the cycle is at
Cur == Min(todo)

TypeOK ==
    /\ row   \in [Row -> {"none", "pending", "done", "gone"}]
    /\ path  \in [Row -> {"none", "source", "cache"}]
    /\ temp  \in [Row -> {"none", "torn", "short", "full"}]
    /\ file  \in [Row -> {"none", "torn", "short", "full"}]
    /\ tries \in [Row -> 0..MaxTries]
    /\ since \in [Row -> 0..MaxBackoff]
    /\ mode  \in {"run", "stopping", "stopped", "dead"}
    /\ stage \in {"idle", "scan", "get", "stream", "copied", "renamed"}
    /\ todo \subseteq Row
    /\ resting \subseteq Row
    /\ age  \in 0..MaxBackoff
    /\ tick \in {"due", "waiting"}

Init ==
    /\ row = [i \in Row |-> "none"]
    /\ path = [i \in Row |-> "none"]
    /\ temp = [i \in Row |-> "none"]
    /\ file = [i \in Row |-> "none"]
    /\ tries = [i \in Row |-> 0]
    /\ since = [i \in Row |-> 0]
    /\ mode = "run"
    /\ stage = "idle"
    /\ todo = {}
    /\ resting = {}
    /\ age = 0
    /\ tick = "due"

----------------------------------------------------------------------------
(* The other writers of the table *)

\* The ingester inserts the placeholder of an attachment.
Arrive(i) ==
    /\ mode # "dead"
    /\ row[i] = "none"
    /\ \A j \in 1..(i - 1) : row[j] # "none"
    /\ row' = [row EXCEPT ![i] = "pending"]
    /\ UNCHANGED <<path, diskVars, failVars, mode, cycleVars>>

\* The send whose echo came first marks the placeholder with its own path.
SendMarks(i) ==
    /\ mode # "dead"
    /\ i \in Echo
    /\ row[i] \in {"pending", "done"}
    /\ row' = [row EXCEPT ![i] = "done"]
    /\ path' = [path EXCEPT ![i] = "source"]
    /\ UNCHANGED <<diskVars, failVars, mode, cycleVars>>

\* The message is deleted with its room: ON DELETE CASCADE.
RowDeleted(i) ==
    /\ mode # "dead"
    /\ i \in Lost
    /\ row[i] \in {"pending", "done"}
    /\ row' = [row EXCEPT ![i] = "gone"]
    /\ path' = [path EXCEPT ![i] = "none"]
    /\ UNCHANGED <<diskVars, failVars, mode, cycleVars>>

----------------------------------------------------------------------------
(* processOnce *)

CycleStart ==
    /\ mode \in {"run", "stopping"}
    /\ stage = "idle"
    /\ tick = "due"
    /\ todo' = Oldest
    /\ resting' = {i \in Oldest : inBackoff(i)}
    /\ age' = 0
    /\ tick' = "waiting"
    /\ stage' = "scan"
    /\ UNCHANGED <<tableVars, diskVars, failVars, mode>>

\* ListPendingDownloads fails: the cycle is logged and over.
CycleFail ==
    /\ mode \in {"run", "stopping"}
    /\ stage = "idle"
    /\ tick = "due"
    /\ tick' = "waiting"
    /\ UNCHANGED <<tableVars, diskVars, failVars, mode, stage, todo, resting, age>>

\* The batch is done, or ctx.Err() is seen between two rows.
CycleEnd ==
    /\ mode \in {"run", "stopping"}
    /\ stage = "scan"
    /\ todo = {} \/ mode = "stopping"
    /\ stage' = "idle"
    /\ todo' = {}
    /\ resting' = {}
    /\ age' = 0
    /\ UNCHANGED <<tableVars, diskVars, failVars, mode, tick>>

Skip ==
    /\ mode = "run"
    /\ stage = "scan"
    /\ todo # {}
    /\ Cur \in todo \cap resting
    /\ todo' = todo \ {Cur}
    /\ UNCHANGED <<tableVars, diskVars, failVars, mode, stage, resting, age, tick>>

FetchStart ==
    /\ mode = "run"
    /\ stage = "scan"
    /\ todo # {}
    /\ Cur \in todo \ resting
    /\ stage' = "get"
    /\ UNCHANGED <<tableVars, diskVars, failVars, mode, todo, resting, age, tick>>

\* recordFailure, stamped with the cycle's now.  The deferred Remove takes
\* the temporary file.
Fails(i) ==
    /\ tries' = [tries EXCEPT ![i] = Lesser(@ + 1, MaxTries)]
    /\ since' = [since EXCEPT ![i] = age]
    /\ temp' = [temp EXCEPT ![i] = "none"]
    /\ todo' = todo \ {i}
    /\ stage' = "scan"

\* Any call of fetchOne may fail, the cancelled ctx among the reasons.
FetchFail ==
    /\ mode \in {"run", "stopping"}
    /\ stage \in {"get", "stream", "copied", "renamed"}
    /\ Fails(Cur)
    /\ UNCHANGED <<tableVars, file, mode, resting, age, tick>>

\* A 2xx answer: the temporary file is made, its bytes begin to come.
Respond(i) ==
    /\ mode = "run"
    /\ stage = "get"
    /\ i = Cur
    /\ i \notin Dead
    /\ temp' = [temp EXCEPT ![i] = "torn"]
    /\ stage' = "stream"
    /\ UNCHANGED <<tableVars, file, failVars, mode, todo, resting, age, tick>>

\* The body has ended without an error and is synced and closed.  Its length
\* may not be the one the gateway promised.
Copied(i) ==
    /\ mode = "run"
    /\ stage = "stream"
    /\ i = Cur
    /\ \E got \in {"short", "full"} : temp' = [temp EXCEPT ![i] = got]
    /\ stage' = "copied"
    /\ UNCHANGED <<tableVars, file, failVars, mode, todo, resting, age, tick>>

\* Mutant: the length is never compared.
CommitAnything(i) ==
    /\ mode \in {"run", "stopping"}
    /\ stage = "copied"
    /\ i = Cur
    /\ file' = [file EXCEPT ![i] = temp[i]]
    /\ temp' = [temp EXCEPT ![i] = "none"]
    /\ stage' = "renamed"
    /\ UNCHANGED <<tableVars, failVars, mode, todo, resting, age, tick>>

\* Of the promised length, where one was promised; renamed.
Commit(i) ==
    /\ mode \in {"run", "stopping"}
    /\ stage = "copied"
    /\ i = Cur
    /\ i \in Sized => temp[i] = "full"
    /\ file' = [file EXCEPT ![i] = temp[i]]
    /\ temp' = [temp EXCEPT ![i] = "none"]
    /\ stage' = "renamed"
    /\ UNCHANGED <<tableVars, failVars, mode, todo, resting, age, tick>>

\* The row is there, whoever has marked it meanwhile; clearFailure.
MarkDownloaded(i) ==
    /\ mode = "run"
    /\ stage = "renamed"
    /\ i = Cur
    /\ row[i] \in {"pending", "done"}
    /\ row' = [row EXCEPT ![i] = "done"]
    /\ path' = [path EXCEPT ![i] = "cache"]
    /\ tries' = [tries EXCEPT ![i] = 0]
    /\ since' = [since EXCEPT ![i] = 0]
    /\ todo' = todo \ {i}
    /\ stage' = "scan"
    /\ UNCHANGED <<diskVars, mode, resting, age, tick>>

----------------------------------------------------------------------------
(* Time, Shutdown, and the end of the process *)

Tick ==
    /\ mode \in {"run", "stopping"}
    /\ since' = [i \in Row |-> Passed(since[i])]
    /\ age' = IF stage = "idle" THEN 0 ELSE Passed(age)
    /\ tick' = "due"
    /\ UNCHANGED <<tableVars, diskVars, tries, mode, stage, todo, resting>>

Shutdown ==
    /\ mode = "run"
    /\ mode' = "stopping"
    /\ UNCHANGED <<tableVars, diskVars, failVars, cycleVars>>

\* The goroutine is no more; the next process has no failures on record and
\* leaves old temporary files where they are.
Forgets ==
    /\ tries' = [i \in Row |-> 0]
    /\ since' = [i \in Row |-> 0]
    /\ stage' = "idle"
    /\ todo' = {}
    /\ resting' = {}
    /\ age' = 0
    /\ tick' = "due"

\* Mutant: the loop leaves only when nothing is pending.
ReturnDrained ==
    /\ mode = "stopping"
    /\ stage = "idle"
    /\ Pending = {}
    /\ mode' = "stopped"
    /\ Forgets
    /\ UNCHANGED <<tableVars, diskVars>>

\* run sees ctx.Done and returns; wg.Wait ends.  The select may take a due
\* tick first.
Return ==
    /\ mode = "stopping"
    /\ stage = "idle"
    /\ mode' = "stopped"
    /\ Forgets
    /\ UNCHANGED <<tableVars, diskVars>>

Crash ==
    /\ mode \in {"run", "stopping"}
    /\ mode' = "dead"
    /\ Forgets
    /\ UNCHANGED <<tableVars, diskVars>>

Restart ==
    /\ mode \in {"stopped", "dead"}
    /\ mode' = "run"
    /\ UNCHANGED <<tableVars, diskVars, failVars, cycleVars>>

Fetch(i) == Respond(i) \/ Copied(i) \/ Commit(i) \/ MarkDownloaded(i)

Work ==
    \/ CycleStart \/ CycleFail \/ CycleEnd \/ Skip \/ FetchStart \/ FetchFail
    \/ Return
    \/ \E i \in Row : Fetch(i)

Others == \E i \in Row : Arrive(i) \/ SendMarks(i) \/ RowDeleted(i)

Next == Work \/ Others \/ Tick \/ Shutdown \/ Crash \/ Restart

Spec == Init /\ [][Next]_vars

\* The goroutine runs, time passes, a select does not ignore ctx.Done for
\* ever, and a table or a file that answers infinitely often works once.
Fairness ==
    /\ WF_vars(Work)
    /\ WF_vars(Tick)
    /\ SF_vars(Return)
    /\ SF_vars(CycleStart)
    /\ SF_vars(\E i \in Row : Respond(i))
    /\ SF_vars(\E i \in Row : Copied(i) /\ temp'[i] = "full")
    /\ SF_vars(\E i \in Row : Commit(i))
    /\ SF_vars(\E i \in Row : MarkDownloaded(i))

FairSpec == Spec /\ Fairness

----------------------------------------------------------------------------
(* Properties *)

\* What may be at the final path: all of an answer, never a part of one, and
\* of the promised length when the gateway promised one.
Whole(i) == file[i] \in {"short", "full"} /\ (i \in Sized => file[i] = "full")

\* A row that says its file is in the cache has the file there, and no reader
\* sees a half-written one, also after a crash between the rename and the
\* mark or a cycle that fetches over an older file (M8-Q-P1-004).  A body of
\* another length than the gateway's is never marked; where the gateway gave
\* no length the code checks none, and says so (M8-S-P2-003).
MarkedIsWhole == \A i \in Row : path[i] = "cache" => row[i] = "done" /\ Whole(i)

\* "2s, 4s, 8s, ... then capped": the wait before the next attempt.
Schedule[n \in Nat] ==
    IF n = 0 THEN 0 ELSE IF n = 1 THEN Lesser(2, MaxBackoff)
    ELSE Lesser(2 * Schedule[n - 1], MaxBackoff)

\* A row that has failed n times is not fetched again before the n-th wait
\* of the schedule is over, for every n (M7-P3-003, M7-P3-004).
RetriesAreSpaced ==
    stage = "get" /\ todo # {} => since[Cur] >= Schedule[tries[Cur]]

\* One failure does not stop other rows: while fewer rows are dead than a
\* cycle takes, every row whose file is there is downloaded.
GoodRowsArrive ==
    Cardinality(Dead) < Limit =>
        \A i \in Row \ Dead : row[i] = "pending" ~> (row[i] # "pending" \/ mode # "run")

\* Shutdown returns, whatever the goroutine is doing.
ShutdownReturns == mode = "stopping" ~> mode # "stopping"
=============================================================================
