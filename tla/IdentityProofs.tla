---------------------------- MODULE IdentityProofs ----------------------------
(***************************************************************************)
(* Identity for every number of accounts, bots, names, tokens and          *)
(* requests: names agree once a change ran undisturbed, nothing is written *)
(* back stale, bot_user_id follows the bot token, and no API token         *)
(* outlives its account.                                                   *)
(*                                                                         *)
(* The properties are not inductive by themselves: what a request that     *)
(* waited for Discord is about to write rests on what it still knows       *)
(* (KnowsTheName), what a connecting one will store on what it connected   *)
(* with (OldTokenIsCrossed).                                               *)
(***************************************************************************)
EXTENDS Identity, TLAPS

OfBot == {"calling", "probing", "probed", "connecting", "captured"}

\* What a request q needs where it stands: an account, whose id has been
\* used (a delete does not look before its transaction), a bot to ask, a
\* name to give.
Stands(q) ==
    /\ q.at \notin {"idle", "admitted"} => q.a \in Account
    /\ q.at \notin {"idle", "admitted", "deleting"} => acct[q.a] # "new"
    /\ q.at \in OfBot => q.b \in Bot
    /\ q.at \in {"calling", "probed"} => q.n \in Name
    /\ q.at = "minted" => q.t \in Token

\* A request nobody disturbed since it called Discord still knows what
\* Discord calls the bot, and a renaming also whose bot it is.
KnowsTheName(q) ==
    /\ q.at \in {"patch", "probed"} /\ q.clean = "yes" => q.b \in Bot /\ q.n = dname[q.b]
    /\ q.at = "patch" /\ q.clean = "yes" /\ Live(q.a) => bot[q.a] = q.b

\* Whoever is connecting with a token that was replaced since is remembered.
OldTokenIsCrossed(q) ==
    q.at \in {"connecting", "captured"} /\ Live(q.a) /\ q.b # bot[q.a] => q.a \in crossed

RequestsAreRight ==
    \A o \in Op : Stands(op[o]) /\ KnowsTheName(op[o]) /\ OldTokenIsCrossed(op[o])

\* An id that was never used has no bot and no identity.
NewIsBlank ==
    \A a \in Account : acct[a] = "new" => bot[a] = None /\ user[a] = None /\ held[a] = None

\* Everything the rows say, the requests left aside.
RowsAreRight ==
    /\ NewIsBlank
    /\ NamesInSync
    /\ FieldsAsAsked
    /\ IdentityMatchesToken
    /\ NoOrphanToken

IInv == TypeOK /\ RequestsAreRight /\ RowsAreRight

Request == [at : {"idle", "verified", "admitted", "calling", "patch", "probing",
                  "probed", "deleting", "minted", "connecting", "captured"},
            a : Account \cup {None}, n : Name \cup {None},
            r : {"keep", "admin", "user"}, b : Bot \cup {None},
            t : Token \cup {None}, clean : {"yes", "no"}]

Right(q) == q \in Request /\ Stands(q) /\ KnowsTheName(q) /\ OldTokenIsCrossed(q)

LEMMA Unfolded ==
    IInv <=> /\ TypeOK
             /\ \A o \in Op : Right(op[o])
             /\ RowsAreRight
BY DEF IInv, RequestsAreRight, Right, TypeOK, Request

LEMMA IdleIsRight == Right(Idle)
BY IdentityAssumption DEF Right, Idle, Request, Stands, KnowsTheName, OldTokenIsCrossed, OfBot

\* A step that only moves one request keeps the invariant if what it moves
\* to is right.
LEMMA MoveInv ==
    ASSUME IInv, NEW o \in Op, NEW q, Right(q), Goes(o, q),
           UNCHANGED <<rowVars, histVars, dname, tok>>,
           session' \in [Account -> Bot \cup {None}]
    PROVE  IInv'
<1> USE DEF rowVars, histVars
<1>1. op \in [Op -> Request] /\ op' = [op EXCEPT ![o] = q] /\ q \in Request
  BY DEF IInv, TypeOK, Request, Goes, Right
<1>2. TypeOK'
  BY <1>1 DEF IInv, TypeOK, Request
<1>3. RowsAreRight'
  BY DEF IInv, RowsAreRight, NewIsBlank, NamesInSync, FieldsAsAsked, IdentityMatchesToken,
         NoOrphanToken, Live
<1>4. ASSUME NEW p \in Op
      PROVE  Stands(op[p])' /\ KnowsTheName(op[p])' /\ OldTokenIsCrossed(op[p])'
  <2>1. op'[p] = op[p] \/ op'[p] = q
    BY <1>1
  <2>2. Right(op[p])
    BY Unfolded
  <2> QED
    BY <2>1, <2>2 DEF Right, Stands, KnowsTheName, OldTokenIsCrossed, Live
<1> QED BY <1>2, <1>3, <1>4 DEF IInv, RequestsAreRight

LEMMA GivesUpInv == ASSUME IInv, NEW o \in Op, NEW at, GivesUp(o, at) PROVE IInv'
<1>1. Goes(o, Idle) /\ UNCHANGED <<rowVars, histVars, dname, tok, session>>
  BY DEF GivesUp, Ends, Goes
<1> QED BY <1>1, IdleIsRight, MoveInv DEF IInv, TypeOK

----------------------------------------------------------------------------
(* The steps that only read *)

LEMMA VerifyInv == ASSUME IInv, NEW o \in Op, NEW t \in Token, Verify(o, t) PROVE IInv'
<1> DEFINE q == [Idle EXCEPT !.at = "verified", !.a = tok[t].owner]
<1>1. tok[t].owner \in Account /\ Live(tok[t].owner)
  BY DEF Verify, IInv, RowsAreRight, NoOrphanToken
<1>2. Right(q)
  BY <1>1, IdentityAssumption
     DEF Right, Idle, Request, Stands, KnowsTheName, OldTokenIsCrossed, OfBot, Live
<1> HIDE DEF q
<1> QED BY <1>2, MoveInv DEF Verify, q, IInv, TypeOK

LEMMA AdmitInv == ASSUME IInv, NEW o \in Op, Admit(o) PROVE IInv'
<1> DEFINE q == [Idle EXCEPT !.at = "admitted"]
<1>1. Right(q)
  BY IdentityAssumption DEF Right, Idle, Request, Stands, KnowsTheName, OldTokenIsCrossed, OfBot
<1>2. Goes(o, q) \/ Goes(o, Idle)
  BY DEF Admit, Ends, Goes
<1>3. UNCHANGED <<rowVars, histVars, dname, tok, session>>
  BY DEF Admit
<1> HIDE DEF q
<1> QED BY <1>1, <1>2, <1>3, IdleIsRight, MoveInv DEF IInv, TypeOK

LEMMA DeleteCheckInv ==
    ASSUME IInv, NEW o \in Op, NEW a \in Account, DeleteCheck(o, a)
    PROVE  IInv'
<1> DEFINE q == [Idle EXCEPT !.at = "deleting", !.a = a]
<1>1. Right(q)
  BY IdentityAssumption DEF Right, Idle, Request, Stands, KnowsTheName, OldTokenIsCrossed, OfBot
<1> HIDE DEF q
<1> QED BY <1>1, MoveInv DEF DeleteCheck, q, IInv, TypeOK

\* The plan has no name that Discord confirmed yet.
LEMMA PatchPlanInv ==
    ASSUME IInv, NEW o \in Op, NEW a \in Account, NEW n \in Name \cup {None},
           NEW r \in {"keep", "admin", "user"}, PatchPlan(o, a, n, r)
    PROVE  IInv'
<1> DEFINE calls == n \notin {None, name[a]} /\ bot[a] # None
           at == IF calls THEN "calling" ELSE "patch"
           b == IF calls THEN bot[a] ELSE None
           q == [Idle EXCEPT !.at = at, !.a = a, !.n = n, !.r = r, !.b = b]
<1>1. /\ Goes(o, q)
      /\ Live(a)
      /\ UNCHANGED <<rowVars, histVars, dname, tok, session>>
  BY DEF PatchPlan
<1>2. \/ at = "calling" /\ n \in Name /\ b \in Bot
      \/ at = "patch" /\ b = None
  <2>1. bot[a] \in Bot \cup {None}
    BY DEF IInv, TypeOK
  <2>2. CASE calls
    <3>1. n \in Name /\ bot[a] \in Bot
      BY <2>1, <2>2
    <3> HIDE DEF calls
    <3> QED BY <2>2, <3>1
  <2>3. CASE ~calls
    <3> HIDE DEF calls
    <3> QED BY <2>3
  <2> QED BY <2>2, <2>3
<1> HIDE DEF calls, at, b
<1>3. Right(q)
  BY <1>1, <1>2, IdentityAssumption
     DEF Right, Idle, Request, Stands, KnowsTheName, OldTokenIsCrossed, OfBot, Live
<1> HIDE DEF q
<1> QED BY <1>1, <1>3, MoveInv DEF IInv, TypeOK

LEMMA SetReadInv ==
    ASSUME IInv, NEW o \in Op, NEW a \in Account, NEW b \in Bot, SetRead(o, a, b)
    PROVE  IInv'
<1> DEFINE q == [Idle EXCEPT !.at = "probing", !.a = a, !.b = b]
<1>1. Right(q)
  BY IdentityAssumption
     DEF SetRead, Right, Idle, Request, Stands, KnowsTheName, OldTokenIsCrossed, OfBot, Live
<1> HIDE DEF q
<1> QED BY <1>1, MoveInv DEF SetRead, q, IInv, TypeOK

\* The answer of Discord is what Discord calls the bot.
LEMMA ProbeInv == ASSUME IInv, NEW o \in Op, Probe(o) PROVE IInv'
<1> DEFINE q == [op[o] EXCEPT !.at = "probed", !.n = dname[op[o].b], !.clean = "yes"]
<1>1. Right(op[o]) /\ op[o].at = "probing"
  BY Unfolded DEF Probe
<1>2. op[o].b \in Bot /\ dname[op[o].b] \in Name
  BY <1>1 DEF Right, Stands, OfBot, IInv, TypeOK
<1>3. Right(q)
  BY <1>1, <1>2 DEF Right, Request, Stands, KnowsTheName, OldTokenIsCrossed, OfBot
<1> HIDE DEF q
<1> QED BY <1>3, MoveInv DEF Probe, q, IInv, TypeOK

LEMMA PrepareTokenInv ==
    ASSUME IInv, NEW o \in Op, NEW a \in Account, NEW t \in Token, PrepareToken(o, a, t)
    PROVE  IInv'
<1> DEFINE q == [Idle EXCEPT !.at = "minted", !.a = a, !.t = t]
<1>1. Right(q)
  BY IdentityAssumption
     DEF PrepareToken, Right, Idle, Request, Stands, KnowsTheName, OldTokenIsCrossed, OfBot
<1> HIDE DEF q
<1> QED BY <1>1, MoveInv DEF PrepareToken, q, IInv, TypeOK

LEMMA OnlineReadInv ==
    ASSUME IInv, NEW o \in Op, NEW a \in Account, OnlineRead(o, a)
    PROVE  IInv'
<1> DEFINE q == [Idle EXCEPT !.at = "connecting", !.a = a, !.b = bot[a]]
<1>1. Live(a) /\ bot[a] \in Bot
  BY DEF OnlineRead, IInv, TypeOK
<1>2. Right(q)
  BY <1>1, IdentityAssumption
     DEF Right, Idle, Request, Stands, KnowsTheName, OldTokenIsCrossed, OfBot, Live
<1> HIDE DEF q
<1> QED BY <1>2, MoveInv DEF OnlineRead, q, IInv, TypeOK

LEMMA ConnectedInv == ASSUME IInv, NEW o \in Op, Connected(o) PROVE IInv'
<1> DEFINE q == [op[o] EXCEPT !.at = "captured"]
<1>1. Right(op[o]) /\ op[o].at = "connecting"
  BY Unfolded DEF Connected
<1>2. Right(q)
  BY <1>1 DEF Right, Request, Stands, KnowsTheName, OldTokenIsCrossed, OfBot
<1>3. session' \in [Account -> Bot \cup {None}]
  BY <1>1 DEF Connected, Right, Stands, OfBot, IInv, TypeOK
<1>4. Goes(o, q) /\ UNCHANGED <<rowVars, histVars, dname, tok>>
  BY DEF Connected
<1> HIDE DEF q
<1> QED BY <1>2, <1>3, <1>4, MoveInv

LEMMA SessionDownInv ==
    ASSUME IInv, NEW o \in Op, NEW a \in Account, OnlineFails(o) \/ OfflineAccount(o, a)
    PROVE  IInv'
<1>1. session' \in [Account -> Bot \cup {None}]
  BY DEF OnlineFails, OfflineAccount, IInv, TypeOK
<1>2. Goes(o, Idle) /\ UNCHANGED <<rowVars, histVars, dname, tok>>
  BY DEF OnlineFails, OfflineAccount, Ends, Goes
<1> QED BY <1>1, <1>2, IdleIsRight, MoveInv

----------------------------------------------------------------------------
(* The steps that write *)

\* An id that was never used gets a row: no request knows it yet but a
\* delete, and it has no bot whose name or identity could differ.
LEMMA CreateAccountInv ==
    ASSUME IInv, NEW o \in Op, NEW a \in Account, NEW n \in Name, NEW r \in {"admin", "user"},
           CreateAccount(o, a, n, r)
    PROVE  IInv'
<1>1. /\ acct[a] = "new" /\ bot[a] = None /\ user[a] = None /\ held[a] = None
      /\ acct' = [acct EXCEPT ![a] = "live"]
      /\ name' = [name EXCEPT ![a] = n]
      /\ role' = [role EXCEPT ![a] = r]
      /\ asked' = [asked EXCEPT ![a] = r]
      /\ op' = [op EXCEPT ![o] = Idle]
      /\ UNCHANGED <<bot, user, dname, tok, session, settled, held, crossed>>
  BY DEF CreateAccount, Ends, IInv, RowsAreRight, NewIsBlank
<1>2. TypeOK'
  BY <1>1, IdleIsRight DEF IInv, TypeOK, Right, Request
<1>3. RowsAreRight'
  BY <1>1 DEF IInv, TypeOK, RowsAreRight, NewIsBlank, NamesInSync, FieldsAsAsked,
              IdentityMatchesToken, NoOrphanToken, Live
<1>4. ASSUME NEW p \in Op PROVE Right(op[p])'
  <2>1. CASE p = o
    BY <1>1, <2>1, IdentityAssumption
       DEF IInv, TypeOK, Right, Idle, Request, Stands, KnowsTheName, OldTokenIsCrossed, OfBot
  <2>2. CASE p # o
    <3>1. op'[p] = op[p] /\ Right(op[p])
      BY <1>1, <2>2, Unfolded
    <3>2. op[p].at \in {"patch", "probed", "connecting", "captured"} => op[p].a # a
      BY <1>1, <3>1 DEF Right, Stands
    <3> QED
      BY <1>1, <3>1, <3>2
         DEF IInv, TypeOK, Right, Stands, KnowsTheName, OldTokenIsCrossed, Live, OfBot
  <2> QED BY <2>1, <2>2
<1> QED BY <1>2, <1>3, <1>4 DEF IInv, RequestsAreRight, Right

\* Row and tokens go together.
LEMMA DeleteTxInv == ASSUME IInv, NEW o \in Op, DeleteTx(o) PROVE IInv'
<1> DEFINE a == op[o].a
<1>1. a \in Account
  BY Unfolded DEF DeleteTx, Right, Stands
<1>2. /\ Live(a)
      /\ acct' = [acct EXCEPT ![a] = "deleted"]
      /\ name' = [name EXCEPT ![a] = None]
      /\ role' = [role EXCEPT ![a] = "user"]
      /\ asked' = [asked EXCEPT ![a] = "user"]
      /\ bot' = [bot EXCEPT ![a] = None]
      /\ held' = [held EXCEPT ![a] = None]
      /\ user' = [user EXCEPT ![a] = None]
      /\ settled' = settled \ {a}
      /\ crossed' = crossed \ {a}
      /\ tok' = [t \in Token |-> IF tok[t].owner = a THEN [owner |-> None, st |-> "none"] ELSE tok[t]]
      /\ op' = [op EXCEPT ![o] = Idle]
      /\ UNCHANGED <<dname, session>>
  BY DEF DeleteTx, Ends
<1> HIDE DEF a
<1>3. TypeOK'
  <2>1. tok' \in [Token -> [owner : Account \cup {None}, st : {"none", "valid", "revoked"}]]
    BY <1>2 DEF IInv, TypeOK
  <2> QED
    BY <1>1, <1>2, <2>1, IdleIsRight DEF IInv, TypeOK, Right, Request
<1>4. (NewIsBlank /\ NamesInSync /\ FieldsAsAsked /\ IdentityMatchesToken)'
  BY <1>1, <1>2 DEF IInv, TypeOK, RowsAreRight, NewIsBlank, NamesInSync, FieldsAsAsked,
                    IdentityMatchesToken, Live
<1>5. NoOrphanToken'
  BY <1>1, <1>2 DEF IInv, TypeOK, RowsAreRight, NoOrphanToken, Live
<1>6. ASSUME NEW p \in Op PROVE Right(op[p])'
  <2>1. CASE p = o
    BY <1>2, <2>1, IdentityAssumption
       DEF IInv, TypeOK, Right, Idle, Request, Stands, KnowsTheName, OldTokenIsCrossed, OfBot
  <2>2. CASE p # o
    <3>1. op'[p] = op[p] /\ Right(op[p])
      BY <1>2, <2>2, Unfolded
    <3>2. \A x : Live(x)' => Live(x) /\ x # a
      BY <1>1, <1>2, IdentityAssumption DEF IInv, TypeOK, Live
    <3>3. \A x : acct'[x] = "new" => acct[x] = "new"
      BY <1>1, <1>2, IdentityAssumption DEF IInv, TypeOK
    <3> QED
      BY <1>1, <1>2, <3>1, <3>2, <3>3
         DEF IInv, TypeOK, Right, Stands, KnowsTheName, OldTokenIsCrossed, OfBot
  <2> QED BY <2>1, <2>2
<1> QED BY <1>3, <1>4, <1>5, <1>6 DEF IInv, RequestsAreRight, RowsAreRight, Right

\* A token is stored for an account that is still there.
LEMMA TokenInv ==
    ASSUME IInv, NEW o \in Op, NEW t \in Token, TokenCommit(o) \/ RevokeToken(o, t)
    PROVE  IInv'
<1>1. /\ op' = [op EXCEPT ![o] = Idle]
      /\ UNCHANGED <<rowVars, histVars, dname, session>>
  BY DEF TokenCommit, RevokeToken, Ends
<1>2. PICK u \in Token, x \in Account, st \in {"valid", "revoked"} :
         Live(x) /\ tok' = [tok EXCEPT ![u] = [owner |-> x, st |-> st]]
  <2>1. CASE TokenCommit(o)
    BY <2>1, Unfolded DEF TokenCommit, Right, Stands
  <2>2. CASE RevokeToken(o, t)
    BY <2>2 DEF RevokeToken, IInv, RowsAreRight, NoOrphanToken
  <2> QED BY <2>1, <2>2
<1>3. TypeOK'
  BY <1>1, <1>2, IdleIsRight DEF IInv, TypeOK, Right, Request, rowVars, histVars
<1>4. NoOrphanToken'
  BY <1>1, <1>2 DEF IInv, TypeOK, RowsAreRight, NoOrphanToken, Live, rowVars
<1>5. (NewIsBlank /\ NamesInSync /\ FieldsAsAsked /\ IdentityMatchesToken)'
  BY <1>1 DEF IInv, RowsAreRight, NewIsBlank, NamesInSync, FieldsAsAsked,
              IdentityMatchesToken, Live, rowVars, histVars
<1>6. ASSUME NEW p \in Op PROVE Right(op[p])'
  <2>1. Right(op[p]) /\ (op'[p] = op[p] \/ op'[p] = Idle)
    BY <1>1, Unfolded DEF IInv, TypeOK
  <2> QED
    BY <1>1, <2>1, IdleIsRight
       DEF Right, Stands, KnowsTheName, OldTokenIsCrossed, Live, rowVars, histVars
<1> QED BY <1>3, <1>4, <1>5, <1>6 DEF IInv, RequestsAreRight, RowsAreRight, Right

\* What Discord calls a bot changes: whoever had agreed with it before, or
\* is about to write the old name, is no longer counted on.
LEMMA RenamedInv ==
    ASSUME IInv, NEW b \in Bot, NEW n \in Name, NEW o, NEW q,
           o \in Op => q \in Request /\ Stands(q) /\ OldTokenIsCrossed(q)
                       /\ (q.at = "patch" /\ q.clean = "yes" =>
                             q.b = b /\ q.n = n /\ (Live(q.a) => bot[q.a] = b))
                       /\ q.at # "probed",
           Renamed(b, n, o, q),
           UNCHANGED <<rowVars, tok, session, asked, held, crossed>>
    PROVE  IInv'
<1>1. /\ dname' = [dname EXCEPT ![b] = n]
      /\ settled' = settled \ {a \in Account : bot[a] = b}
      /\ \A p \in Op : op'[p] = IF p = o THEN q
                                ELSE IF Unsure(p, b) THEN [op[p] EXCEPT !.clean = "no"]
                                ELSE op[p]
      /\ UNCHANGED <<acct, name, role, bot, user, tok, session, asked, held, crossed>>
  BY DEF Renamed, rowVars
<1>2. ASSUME NEW p \in Op PROVE Right(op[p])'
  <2>1. Right(op[p])
    BY Unfolded
  <2>2. CASE p = o
    <3>1. op'[p] = q
      BY <1>1, <2>2
    <3>2. dname'[b] = n
      BY <1>1 DEF IInv, TypeOK
    <3>3. Stands(q)' /\ OldTokenIsCrossed(q)'
      BY <1>1, <2>2 DEF Stands, OldTokenIsCrossed, Live
    <3>4. KnowsTheName(q)'
      BY <1>1, <2>2, <3>2 DEF KnowsTheName, Live
    <3> QED BY <2>2, <3>1, <3>3, <3>4 DEF Right
  <2>3. CASE p # o /\ Unsure(p, b)
    <3>1. op'[p] = [op[p] EXCEPT !.clean = "no"]
      BY <1>1, <2>3
    <3> QED BY <1>1, <2>1, <3>1 DEF Right, Request, Stands, KnowsTheName, OldTokenIsCrossed, Live
  <2>4. CASE p # o /\ ~Unsure(p, b)
    <3>1. op'[p] = op[p]
      BY <1>1, <2>4
    <3>2. op[p].at \in {"patch", "probed"} => op[p].b # b
      BY <2>4 DEF Unsure
    <3>3. \A x \in Bot : x # b => dname'[x] = dname[x]
      BY <1>1 DEF IInv, TypeOK
    <3> QED
      BY <1>1, <2>1, <3>1, <3>2, <3>3 DEF Right, Stands, KnowsTheName, OldTokenIsCrossed, Live
  <2> QED BY <2>2, <2>3, <2>4
<1>3. TypeOK'
  <2>1. op' \in [Op -> Request]
    BY <1>2 DEF Renamed, Right
  <2> QED BY <1>1, <2>1 DEF IInv, TypeOK, Request
<1>4. NamesInSync'
  BY <1>1 DEF IInv, TypeOK, RowsAreRight, NamesInSync, Live
<1>5. (NewIsBlank /\ FieldsAsAsked /\ IdentityMatchesToken /\ NoOrphanToken)'
  BY <1>1 DEF IInv, RowsAreRight, NewIsBlank, FieldsAsAsked, IdentityMatchesToken,
              NoOrphanToken, Live
<1> QED BY <1>2, <1>3, <1>4, <1>5 DEF IInv, RequestsAreRight, RowsAreRight, Right

LEMMA RenameInv == ASSUME IInv, NEW o \in Op, Rename(o) PROVE IInv'
<1> DEFINE a == op[o].a  b == op[o].b
           q == [op[o] EXCEPT !.at = "patch",
                              !.clean = IF Live(a) /\ bot[a] = b THEN "yes" ELSE "no"]
<1>1. Right(op[o]) /\ op[o].at = "calling" /\ b \in Bot /\ op[o].n \in Name
  BY Unfolded DEF Rename, Right, Stands, OfBot
<1>2. /\ q \in Request /\ Stands(q) /\ OldTokenIsCrossed(q) /\ q.at = "patch"
      /\ q.b = b /\ q.n = op[o].n /\ q.a = a
      /\ q.clean = "yes" => Live(a) /\ bot[a] = b
  BY <1>1 DEF Right, Request, Stands, OldTokenIsCrossed, OfBot
<1>3. /\ UNCHANGED <<rowVars, tok, session, asked, held, crossed>>
      /\ Renamed(b, op[o].n, o, q) \/ Renamed(b, op[o].n, o, Idle)
  BY DEF Rename
<1>4. Right(Idle) /\ Idle.at = "idle"
  BY IdleIsRight DEF Idle
<1> HIDE DEF a, b, q
<1>5. CASE Renamed(b, op[o].n, o, q)
  BY <1>1, <1>2, <1>3, <1>5, RenamedInv
<1>6. CASE Renamed(b, op[o].n, o, Idle)
  BY <1>1, <1>3, <1>4, <1>6, RenamedInv DEF Right
<1> QED BY <1>3, <1>5, <1>6

LEMMA RenamedElsewhereInv ==
    ASSUME IInv, NEW b \in Bot, NEW n \in Name, RenamedElsewhere(b, n)
    PROVE  IInv'
<1>1. Right(Idle) /\ Idle.at = "idle"
  BY IdleIsRight DEF Idle
<1> QED BY <1>1, RenamedInv DEF RenamedElsewhere, Right

\* The second transaction of a renaming writes what Discord confirmed, or
\* the account is no longer counted on.
LEMMA PatchCommitInv == ASSUME IInv, NEW o \in Op, PatchCommit(o) PROVE IInv'
<1> DEFINE a == op[o].a  n == op[o].n  r == op[o].r
<1>1. /\ Right(op[o]) /\ op[o].at = "patch" /\ a \in Account
      /\ n \in Name \cup {None} /\ r \in {"keep", "admin", "user"}
  BY Unfolded DEF PatchCommit, Right, Stands, Request
<1>2. /\ Live(a)
      /\ name' = IF n = None THEN name ELSE [name EXCEPT ![a] = n]
      /\ role' = IF r = "keep" THEN role ELSE [role EXCEPT ![a] = r]
      /\ asked' = IF r = "keep" THEN asked ELSE [asked EXCEPT ![a] = r]
      /\ Settle(o, a, n)
      /\ op' = [op EXCEPT ![o] = Idle]
      /\ UNCHANGED <<acct, bot, user, dname, tok, session, held, crossed>>
  BY DEF PatchCommit, Ends
<1>3. op[o].clean = "yes" => n = dname[op[o].b] /\ bot[a] = op[o].b
  BY <1>1, <1>2 DEF Right, KnowsTheName
<1> HIDE DEF a, n, r
<1>4. settled' \subseteq Account
  BY <1>1, <1>2 DEF Settle, IInv, TypeOK
<1>5. TypeOK'
  <2>1. name' \in [Account -> Name \cup {None}]
    BY <1>1, <1>2 DEF IInv, TypeOK
  <2>2. role' \in [Account -> {"admin", "user"}] /\ asked' \in [Account -> {"admin", "user"}]
    BY <1>1, <1>2 DEF IInv, TypeOK
  <2>3. op' \in [Op -> Request]
    BY <1>2, IdleIsRight DEF Right, IInv, TypeOK, Request
  <2> QED BY <1>2, <1>4, <2>1, <2>2, <2>3 DEF IInv, TypeOK, Request
<1>6. NamesInSync'
  <2> SUFFICES ASSUME NEW x \in settled', Live(x)', bot'[x] # None
               PROVE  name'[x] = dname'[bot'[x]]
    BY DEF NamesInSync
  <2>1. Live(x) /\ bot[x] # None /\ bot' = bot /\ dname' = dname
    BY <1>2 DEF Live
  <2>2. CASE n \in {None, name[a]}
    <3>1. x \in settled /\ name' = name
      BY <1>1, <1>2, <2>2 DEF Settle, IInv, TypeOK
    <3> QED BY <2>1, <3>1 DEF IInv, RowsAreRight, NamesInSync
  <2>3. CASE n \notin {None, name[a]}
    <3>1. name' = [name EXCEPT ![a] = n]
      BY <1>2, <2>3
    <3>2. CASE x = a
      <4>1. op[o].clean = "yes"
        BY <1>2, <2>3, <3>2 DEF Settle
      <4>2. name'[a] = n
        BY <1>1, <3>1 DEF IInv, TypeOK
      <4> QED BY <1>3, <2>1, <3>2, <4>1, <4>2
    <3>3. CASE x # a
      <4>1. x \in settled /\ name'[x] = name[x]
        BY <1>2, <1>4, <2>3, <3>1, <3>3 DEF Settle, IInv, TypeOK
      <4> QED BY <2>1, <4>1 DEF IInv, RowsAreRight, NamesInSync
    <3> QED BY <3>2, <3>3
  <2> QED BY <2>2, <2>3
<1>7. FieldsAsAsked'
  BY <1>1, <1>2 DEF IInv, TypeOK, RowsAreRight, FieldsAsAsked, Live
<1>8. (NewIsBlank /\ IdentityMatchesToken /\ NoOrphanToken)'
  BY <1>2 DEF IInv, RowsAreRight, NewIsBlank, IdentityMatchesToken, NoOrphanToken, Live
<1>9. ASSUME NEW p \in Op PROVE Right(op[p])'
  <2>1. Right(op[p]) /\ (op'[p] = op[p] \/ op'[p] = Idle)
    BY <1>2, Unfolded DEF IInv, TypeOK
  <2> QED
    BY <1>2, <2>1, IdleIsRight DEF Right, Stands, KnowsTheName, OldTokenIsCrossed, Live
<1> QED BY <1>5, <1>6, <1>7, <1>8, <1>9 DEF IInv, RequestsAreRight, RowsAreRight, Right

\* The row takes token, identity and name of one answer.  Who renamed the old
\* bot no longer knows; who connects with the old token is remembered.
LEMMA SetCommitInv == ASSUME IInv, NEW o \in Op, SetCommit(o) PROVE IInv'
<1> DEFINE a == op[o].a  b == op[o].b
<1>1. /\ Right(op[o]) /\ op[o].at = "probed" /\ a \in Account /\ b \in Bot
      /\ op[o].n \in Name
      /\ op[o].clean = "yes" => op[o].n = dname[b]
  BY Unfolded DEF SetCommit, Right, Stands, KnowsTheName, OfBot
<1>2. /\ Live(a)
      /\ bot' = [bot EXCEPT ![a] = b]
      /\ user' = [user EXCEPT ![a] = b]
      /\ held' = [held EXCEPT ![a] = b]
      /\ name' = [name EXCEPT ![a] = op[o].n]
      /\ settled' = IF op[o].clean = "yes" THEN settled \cup {a} ELSE settled \ {a}
      /\ \A p \in Op : op'[p] = IF p = o THEN Idle
                                ELSE IF op[p].at = "patch" /\ op[p].a = a /\ op[p].b # b
                                THEN [op[p] EXCEPT !.clean = "no"] ELSE op[p]
      /\ crossed' = IF \E p \in Op : Connecting(p, a) /\ op[p].b # b
                    THEN crossed \cup {a} ELSE crossed \ {a}
      /\ UNCHANGED <<acct, role, dname, tok, session, asked>>
  BY DEF SetCommit, Replaced
<1>3. op' = [p \in Op |-> op'[p]]
  BY DEF SetCommit, Replaced
<1> HIDE DEF a, b
<1>4. ASSUME NEW p \in Op PROVE Right(op[p])'
  <2>1. Right(op[p])
    BY Unfolded
  <2>2. CASE p = o
    <3>1. op'[p] = Idle
      BY <1>2, <2>2
    <3> QED
      BY <3>1, IdleIsRight
         DEF Right, Idle, Stands, KnowsTheName, OldTokenIsCrossed, OfBot
  <2>3. CASE p # o /\ op[p].at = "patch" /\ op[p].a = a /\ op[p].b # b
    <3>1. op'[p] = [op[p] EXCEPT !.clean = "no"]
      BY <1>2, <2>3
    <3> QED
      BY <1>2, <2>1, <2>3, <3>1
         DEF Right, Request, Stands, KnowsTheName, OldTokenIsCrossed, OfBot
  <2>4. CASE p # o /\ ~(op[p].at = "patch" /\ op[p].a = a /\ op[p].b # b)
    <3>1. op'[p] = op[p]
      BY <1>2, <2>4
    <3>2. Stands(op[p])'
      BY <1>2, <2>1, <3>1 DEF Right, Stands
    <3>3. KnowsTheName(op[p])'
      BY <1>1, <1>2, <2>1, <2>4, <3>1 DEF Right, Stands, KnowsTheName, Live, IInv, TypeOK
    <3>4. OldTokenIsCrossed(op[p])'
      <4>1. CASE op[p].a = a
        BY <1>1, <1>2, <3>1, <4>1 DEF OldTokenIsCrossed, Connecting, IInv, TypeOK
      <4>2. CASE op[p].a # a
        <5>1. bot'[op[p].a] = bot[op[p].a] \/ op[p].a \notin Account
          BY <1>1, <1>2, <4>2 DEF IInv, TypeOK
        <5>2. crossed \ {a} \subseteq crossed'
          BY <1>2
        <5> QED
          BY <1>2, <2>1, <3>1, <4>2, <5>1, <5>2 DEF OldTokenIsCrossed, Right, Stands, Live
      <4> QED BY <4>1, <4>2
    <3> QED BY <2>1, <3>1, <3>2, <3>3, <3>4 DEF Right
  <2> QED BY <2>2, <2>3, <2>4
<1>5. TypeOK'
  <2>1. op' \in [Op -> Request]
    BY <1>3, <1>4 DEF Right
  <2>2. settled' \subseteq Account /\ crossed' \subseteq Account
    BY <1>1, <1>2 DEF IInv, TypeOK
  <2>3. /\ bot' \in [Account -> Bot \cup {None}]
        /\ user' \in [Account -> Bot \cup {None}]
        /\ held' \in [Account -> Bot \cup {None}]
        /\ name' \in [Account -> Name \cup {None}]
    BY <1>1, <1>2 DEF IInv, TypeOK
  <2> QED BY <1>2, <2>1, <2>2, <2>3 DEF IInv, TypeOK, Request
<1>6. NamesInSync'
  BY <1>1, <1>2 DEF IInv, TypeOK, RowsAreRight, NamesInSync, Live
<1>7. (NewIsBlank /\ FieldsAsAsked /\ NoOrphanToken)'
  BY <1>1, <1>2 DEF IInv, TypeOK, RowsAreRight, NewIsBlank, FieldsAsAsked, NoOrphanToken, Live
<1>8. IdentityMatchesToken'
  <2>1. crossed \ {a} \subseteq crossed'
    BY <1>2
  <2> QED
    BY <1>1, <1>2, <2>1 DEF IInv, TypeOK, RowsAreRight, IdentityMatchesToken, Live
<1> QED BY <1>4, <1>5, <1>6, <1>7, <1>8 DEF IInv, RequestsAreRight, RowsAreRight, Right

\* The identity of the session is that of the token, unless the account is
\* crossed - and it stays crossed while somebody holds an old token.
LEMMA OnlineCommitInv == ASSUME IInv, NEW o \in Op, OnlineCommit(o) PROVE IInv'
<1> DEFINE a == op[o].a  b == op[o].b
<1>1. /\ Right(op[o]) /\ op[o].at = "captured" /\ a \in Account /\ b \in Bot
      /\ b # bot[a] => a \in crossed
  BY Unfolded DEF OnlineCommit, Right, Stands, OldTokenIsCrossed, OfBot
<1>2. /\ Live(a)
      /\ user' = [user EXCEPT ![a] = b]
      /\ crossed' = IF \E p \in Op : (p = o \/ Connecting(p, a)) /\ op[p].b # bot[a]
                    THEN crossed ELSE crossed \ {a}
      /\ op' = [op EXCEPT ![o] = Idle]
      /\ UNCHANGED <<acct, name, role, bot, dname, tok, session, settled, asked, held>>
  BY DEF OnlineCommit, Ends
<1>3. b # bot[a] => crossed' = crossed
  BY <1>2
<1> HIDE DEF a, b
<1>4. TypeOK'
  <2>1. op' \in [Op -> Request]
    BY <1>2, IdleIsRight DEF Right, IInv, TypeOK, Request
  <2>2. user' \in [Account -> Bot \cup {None}] /\ crossed' \subseteq Account
    BY <1>1, <1>2 DEF IInv, TypeOK
  <2> QED BY <1>2, <2>1, <2>2 DEF IInv, TypeOK, Request
<1>5. IdentityMatchesToken'
  <2>1. crossed \ {a} \subseteq crossed'
    BY <1>2
  <2> QED
    BY <1>1, <1>2, <1>3, <2>1 DEF IInv, TypeOK, RowsAreRight, IdentityMatchesToken, Live
<1>6. (NewIsBlank /\ NamesInSync /\ FieldsAsAsked /\ NoOrphanToken)'
  BY <1>1, <1>2 DEF IInv, TypeOK, RowsAreRight, NewIsBlank, NamesInSync, FieldsAsAsked,
                    NoOrphanToken, Live
<1>7. ASSUME NEW p \in Op PROVE Right(op[p])'
  <2>1. Right(op[p])
    BY Unfolded
  <2>2. CASE p = o
    <3>1. op'[p] = Idle
      BY <1>2, <2>2 DEF IInv, TypeOK
    <3> QED
      BY <3>1, IdleIsRight
         DEF Right, Idle, Stands, KnowsTheName, OldTokenIsCrossed, OfBot
  <2>3. CASE p # o
    <3>1. op'[p] = op[p]
      BY <1>2, <2>3
    <3>2. Stands(op[p])' /\ KnowsTheName(op[p])'
      BY <1>2, <2>1, <3>1 DEF Right, Stands, KnowsTheName, Live
    <3>3. OldTokenIsCrossed(op[p])'
      BY <1>2, <2>1, <3>1 DEF Right, OldTokenIsCrossed, Connecting, Live
    <3> QED BY <2>1, <3>1, <3>2, <3>3 DEF Right
  <2> QED BY <2>2, <2>3
<1> QED BY <1>4, <1>5, <1>6, <1>7 DEF IInv, RequestsAreRight, RowsAreRight, Right

LEMMA CrashInv == ASSUME IInv, Crash PROVE IInv'
<1>1. /\ op' = [o \in Op |-> Idle]
      /\ session' = [a \in Account |-> None]
      /\ UNCHANGED <<rowVars, histVars, dname, tok>>
  BY DEF Crash
<1>2. TypeOK'
  BY <1>1, IdleIsRight DEF IInv, TypeOK, Right, Request, rowVars, histVars
<1>3. RowsAreRight'
  BY <1>1 DEF IInv, RowsAreRight, NewIsBlank, NamesInSync, FieldsAsAsked,
              IdentityMatchesToken, NoOrphanToken, Live, rowVars, histVars
<1>4. ASSUME NEW p \in Op PROVE (Stands(op[p]) /\ KnowsTheName(op[p]) /\ OldTokenIsCrossed(op[p]))'
  BY <1>1 DEF Idle, Stands, KnowsTheName, OldTokenIsCrossed, OfBot
<1> QED BY <1>2, <1>3, <1>4 DEF IInv, RequestsAreRight

----------------------------------------------------------------------------

LEMMA InitInv == Init => IInv
<1> SUFFICES ASSUME Init PROVE IInv
  OBVIOUS
<1>1. TypeOK
  <2>1. Idle \in Request
    BY IdleIsRight DEF Right
  <2> QED BY <2>1, IdentityAssumption DEF Init, TypeOK, Request
<1>2. RequestsAreRight
  BY DEF Init, Idle, RequestsAreRight, Stands, KnowsTheName, OldTokenIsCrossed, OfBot
<1>3. RowsAreRight
  BY IdentityAssumption
     DEF Init, RowsAreRight, NewIsBlank, NamesInSync, FieldsAsAsked, IdentityMatchesToken,
         NoOrphanToken, Live
<1> QED BY <1>1, <1>2, <1>3 DEF IInv

LEMMA NextInv == IInv /\ [Next]_vars => IInv'
<1> SUFFICES ASSUME IInv, [Next]_vars PROVE IInv'
  OBVIOUS
<1>1. ASSUME NEW o \in Op, NEW t \in Token, Verify(o, t) \/ RevokeToken(o, t)
      PROVE  IInv'
  BY <1>1, VerifyInv, TokenInv
<1>2. ASSUME NEW o \in Op, Admit(o) PROVE IInv'
  BY <1>2, AdmitInv
<1>3. ASSUME NEW o \in Op, NEW a \in Target,
             DeleteCheck(o, a) \/ OnlineRead(o, a) \/ OfflineAccount(o, a)
      PROVE  IInv'
  BY <1>3, IdentityAssumption, DeleteCheckInv, OnlineReadInv, SessionDownInv
<1>4. ASSUME NEW o \in Op, NEW a \in Target, NEW n \in Name, NEW r \in {"admin", "user"},
             CreateAccount(o, a, n, r)
      PROVE  IInv'
  BY <1>4, IdentityAssumption, CreateAccountInv
<1>5. ASSUME NEW o \in Op, NEW a \in Target, NEW n \in Name \cup {None},
             NEW r \in {"keep", "admin", "user"}, PatchPlan(o, a, n, r)
      PROVE  IInv'
  BY <1>5, IdentityAssumption, PatchPlanInv
<1>6. ASSUME NEW o \in Op, NEW a \in Target, NEW b \in Bot, SetRead(o, a, b)
      PROVE  IInv'
  BY <1>6, IdentityAssumption, SetReadInv
<1>7. ASSUME NEW o \in Op, NEW a \in Target, NEW t \in Token, PrepareToken(o, a, t)
      PROVE  IInv'
  BY <1>7, IdentityAssumption, PrepareTokenInv
<1>8. ASSUME NEW o \in Op, Begin(o) PROVE IInv'
  BY <1>1, <1>2, <1>3, <1>4, <1>5, <1>6, <1>7, <1>8 DEF Begin
<1>9. ASSUME NEW o \in Op, Continue(o) PROVE IInv'
  <2>1. Rename(o) \/ PatchCommit(o) \/ SetCommit(o) \/ DeleteTx(o) \/ Probe(o) => IInv'
    BY RenameInv, PatchCommitInv, SetCommitInv, DeleteTxInv, ProbeInv
  <2>2. ASSUME TokenCommit(o) PROVE IInv'
    BY <2>2, IdentityAssumption, TokenInv
  <2>3. ASSUME OnlineFails(o) PROVE IInv'
    BY <2>3, IdentityAssumption, SessionDownInv
  <2>4. Connected(o) \/ OnlineCommit(o) => IInv'
    BY ConnectedInv, OnlineCommitInv
  <2>5. \A at : GivesUp(o, at) => IInv'
    BY GivesUpInv
  <2> QED
    BY <1>9, <2>1, <2>2, <2>3, <2>4, <2>5
       DEF Continue, RenameFails, PatchFails, ProbeFails, SetFails, TokenFails, ConnectFails
<1>10. ASSUME NEW b \in Bot, NEW n \in Name, RenamedElsewhere(b, n) PROVE IInv'
  BY <1>10, RenamedElsewhereInv
<1>11. CASE Crash
  BY <1>11, CrashInv
<1>12. CASE UNCHANGED vars
  BY <1>12 DEF vars, rowVars, histVars, IInv, TypeOK, RequestsAreRight, Stands, KnowsTheName,
               OldTokenIsCrossed, RowsAreRight, NewIsBlank, NamesInSync, FieldsAsAsked,
               IdentityMatchesToken, NoOrphanToken, Live
<1> QED BY <1>8, <1>9, <1>10, <1>11, <1>12 DEF Next

\* Whatever requests overlap, what each of them knows is right for where it
\* stands, and so is every row.
THEOREM Invariant == Spec => []IInv
<1> QED BY InitInv, NextInv, PTL DEF Spec

\* Every variable keeps its type, whatever requests overlap.
THEOREM TypeCorrect == Spec => []TypeOK
<1>1. IInv => TypeOK
  BY DEF IInv
<1> QED BY <1>1, Invariant, PTL

\* After a change of name or token that nothing disturbed, the row has the
\* name Discord has, until one of the two is changed again.
THEOREM NamesAgree == Spec => []NamesInSync
<1>1. IInv => NamesInSync
  BY DEF IInv, RowsAreRight
<1> QED BY <1>1, Invariant, PTL

\* A handler that waited for Discord writes no field it was not asked to.
THEOREM NothingIsWrittenBack == Spec => []FieldsAsAsked
<1>1. IInv => FieldsAsAsked
  BY DEF IInv, RowsAreRight
<1> QED BY <1>1, Invariant, PTL

\* The identity the ingester goes by is that of the bot token, unless the
\* token was replaced under a request that was connecting.
THEOREM IdentityFollowsToken == Spec => []IdentityMatchesToken
<1>1. IInv => IdentityMatchesToken
  BY DEF IInv, RowsAreRight
<1> QED BY <1>1, Invariant, PTL

\* A deleted account leaves no API token, nor does one get it later.
THEOREM TokensDieWithAccounts == Spec => []NoOrphanToken
<1>1. IInv => NoOrphanToken
  BY DEF IInv, RowsAreRight
<1> QED BY <1>1, Invariant, PTL
=============================================================================
