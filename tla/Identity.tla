------------------------------- MODULE Identity -------------------------------
(***************************************************************************)
(* internal/api/v1/accounts.go, discord.go, tokens.go, internal/auth: who  *)
(* an account is - its row here, the Discord bot whose token it holds, and *)
(* the API tokens that let a client act for it.  A name lives in two       *)
(* places, the row and Discord; handlers that touch both call Discord      *)
(* outside every transaction and act on what they read before.             *)
(*                                                                         *)
(* A call to Discord succeeds, fails, or succeeds while its answer is      *)
(* lost.  A transaction is one step.                                       *)
(***************************************************************************)
EXTENDS Naturals, FiniteSets

CONSTANTS
    Account,    \* account ids; a deleted one is not used again
    Target,     \* bound: the accounts that requests are about
    Root,       \* the account that bootstrapRoot made
    Name,       \* account names, and bot usernames
    RootName,
    Bot,        \* Discord bots; a bot token stands for its bot
    RootBot,    \* the bot that root was given
    Token,      \* API token ids
    RootToken,
    Op,         \* requests that run at the same time
    None

ASSUME IdentityAssumption ==
    /\ Target \subseteq Account
    /\ Root \in Account /\ RootName \in Name /\ RootToken \in Token /\ RootBot \in Bot
    /\ None \notin Account \cup Name \cup Bot \cup Token

VARIABLES
    acct,       \* acct[a]: "new", "live" or "deleted"
    name, role, \* name[a], role[a]
    bot,        \* bot[a]: the bot whose token is in bot_token_enc, or None
    user,       \* user[a]: bot_user_id, or None
    dname,      \* dname[b]: what Discord calls b
    tok,        \* tok[t]: its account and whether it is revoked
    session,    \* session[a]: the bot the account is online as, or None
    op,         \* op[o]: where request o stands
    settled,    \* history: accounts whose last renaming ran undisturbed
    asked,      \* history: asked[a], the role last asked for
    held,       \* history: held[a], the bot last set
    crossed     \* history: token replaced while an online request held the old

rowVars  == <<acct, name, role, bot, user>>
histVars == <<settled, asked, held, crossed>>
vars == <<rowVars, histVars, dname, tok, session, op>>

Idle == [at |-> "idle", a |-> None, n |-> None, r |-> "keep", b |-> None, t |-> None, clean |-> "no"]

TypeOK ==
    /\ acct    \in [Account -> {"new", "live", "deleted"}]
    /\ name    \in [Account -> Name \cup {None}]
    /\ role    \in [Account -> {"admin", "user"}]
    /\ bot     \in [Account -> Bot \cup {None}]
    /\ user    \in [Account -> Bot \cup {None}]
    /\ dname   \in [Bot -> Name]
    /\ tok     \in [Token -> [owner : Account \cup {None}, st : {"none", "valid", "revoked"}]]
    /\ session \in [Account -> Bot \cup {None}]
    /\ op      \in [Op -> [at : {"idle", "verified", "admitted", "calling", "patch", "probing",
                                 "probed", "deleting", "minted", "connecting", "captured"},
                           a : Account \cup {None}, n : Name \cup {None},
                           r : {"keep", "admin", "user"}, b : Bot \cup {None},
                           t : Token \cup {None}, clean : {"yes", "no"}]]
    /\ settled \subseteq Account
    /\ asked   \in [Account -> {"admin", "user"}]
    /\ held    \in [Account -> Bot \cup {None}]
    /\ crossed \subseteq Account

\* Root has been set up; everything else is to come.
Init ==
    /\ acct = [a \in Account |-> IF a = Root THEN "live" ELSE "new"]
    /\ name = [a \in Account |-> IF a = Root THEN RootName ELSE None]
    /\ role = [a \in Account |-> IF a = Root THEN "admin" ELSE "user"]
    /\ bot = [a \in Account |-> IF a = Root THEN RootBot ELSE None]
    /\ user = bot
    /\ dname \in {d \in [Bot -> Name] : d[RootBot] = RootName}
    /\ tok = [t \in Token |-> IF t = RootToken THEN [owner |-> Root, st |-> "valid"]
                                               ELSE [owner |-> None, st |-> "none"]]
    /\ session = [a \in Account |-> None]
    /\ op = [o \in Op |-> Idle]
    /\ settled = {Root}
    /\ asked = role
    /\ held = bot
    /\ crossed = {}

Live(a) == acct[a] = "live"

\* The UNIQUE constraint on accounts.name.
Free(n, a) == \A x \in Account \ {a} : Live(x) => name[x] # n

Ends(o) == op' = [op EXCEPT ![o] = Idle]
Goes(o, rec) == op' = [op EXCEPT ![o] = rec]

GivesUp(o, at) ==
    /\ op[o].at = at
    /\ Ends(o)
    /\ UNCHANGED <<rowVars, histVars, dname, tok, session>>

----------------------------------------------------------------------------
(* The auth middleware *)

\* Manager.Verify: the token's row, once.
Verify(o, t) ==
    /\ op[o].at = "idle"
    /\ tok[t].st = "valid"
    /\ Goes(o, [Idle EXCEPT !.at = "verified", !.a = tok[t].owner])
    /\ UNCHANGED <<rowVars, histVars, dname, tok, session>>

\* The account is read next, and may be gone; RequireAdmin looks at the copy.
Admit(o) ==
    /\ op[o].at = "verified"
    /\ IF Live(op[o].a) /\ role[op[o].a] = "admin"
       THEN Goes(o, [Idle EXCEPT !.at = "admitted"])
       ELSE Ends(o)
    /\ UNCHANGED <<rowVars, histVars, dname, tok, session>>

----------------------------------------------------------------------------
(* CreateAccount, DeleteAccount *)

CreateAccount(o, a, n, r) ==
    /\ op[o].at = "admitted"
    /\ acct[a] = "new"
    /\ Free(n, a)
    /\ acct' = [acct EXCEPT ![a] = "live"]
    /\ name' = [name EXCEPT ![a] = n]
    /\ role' = [role EXCEPT ![a] = r]
    /\ asked' = [asked EXCEPT ![a] = r]
    /\ Ends(o)
    /\ UNCHANGED <<bot, user, dname, tok, session, settled, held, crossed>>

\* conn.IsRegistered, before the transaction.
DeleteCheck(o, a) ==
    /\ op[o].at = "admitted"
    /\ session[a] = None
    /\ \A p \in Op : ~(op[p].at = "connecting" /\ op[p].a = a)
    /\ Goes(o, [Idle EXCEPT !.at = "deleting", !.a = a])
    /\ UNCHANGED <<rowVars, histVars, dname, tok, session>>

\* The row and the account's tokens are gone.
DeleteTx(o) ==
    LET a == op[o].a IN
    /\ op[o].at = "deleting"
    /\ Live(a)
    /\ acct' = [acct EXCEPT ![a] = "deleted"]
    /\ name' = [name EXCEPT ![a] = None]
    /\ role' = [role EXCEPT ![a] = "user"]
    /\ asked' = [asked EXCEPT ![a] = "user"]
    /\ bot' = [bot EXCEPT ![a] = None]
    /\ held' = [held EXCEPT ![a] = None]
    /\ user' = [user EXCEPT ![a] = None]
    /\ settled' = settled \ {a}
    /\ crossed' = crossed \ {a}
    /\ tok' = [t \in Token |-> IF tok[t].owner = a THEN [owner |-> None, st |-> "none"] ELSE tok[t]]
    /\ Ends(o)
    /\ UNCHANGED <<dname, session>>

----------------------------------------------------------------------------
(* UpdateAccount: Discord first when the name changes, then the row *)

\* What Discord calls b changes, or with whom b is changes: requests that
\* have not committed yet no longer know.
Unsure(p, b) == op[p].at \in {"patch", "probed"} /\ op[p].b = b
Renamed(b, n, o, rec) ==
    /\ dname' = [dname EXCEPT ![b] = n]
    /\ op' = [p \in Op |-> IF p = o THEN rec
                           ELSE IF Unsure(p, b) THEN [op[p] EXCEPT !.clean = "no"]
                           ELSE op[p]]
    /\ settled' = settled \ {a \in Account : bot[a] = b}

\* The first transaction plans the change and takes the bot token along, if
\* the name is to change and there is one.
PatchPlan(o, a, n, r) ==
    /\ op[o].at = "admitted"
    /\ Live(a)
    /\ n # None <=> r = "keep"                         \* bound: one field each
    /\ LET calls == n \notin {None, name[a]} /\ bot[a] # None
       IN  Goes(o, [Idle EXCEPT !.at = IF calls THEN "calling" ELSE "patch", !.a = a,
                                !.n = n, !.r = r, !.b = IF calls THEN bot[a] ELSE None])
    /\ UNCHANGED <<rowVars, histVars, dname, tok, session>>

\* IdentityProber.Rename with the token that was read.
Rename(o) ==
    LET a == op[o].a  b == op[o].b IN
    /\ op[o].at = "calling"
    /\ \/ Renamed(b, op[o].n, o, [op[o] EXCEPT !.at = "patch",
                                               !.clean = IF Live(a) /\ bot[a] = b THEN "yes" ELSE "no"])
       \/ Renamed(b, op[o].n, o, Idle)                 \* the answer is lost
    /\ UNCHANGED <<rowVars, tok, session, asked, held, crossed>>

RenameFails(o) == GivesUp(o, "calling")

\* Whose name is what Discord has: the request's, if nothing came between.
\* A request that names nothing new leaves that as it is.
Settle(o, a, n) ==
    settled' = IF n \in {None, name[a]} THEN settled
               ELSE IF op[o].clean = "yes" THEN settled \cup {a} ELSE settled \ {a}

\* Mutant: the plan of the first transaction is written, with the token it
\* had read.
PatchStale(o) ==
    LET a == op[o].a  n == op[o].n  r == op[o].r IN
    /\ op[o].at = "patch"
    /\ Live(a)
    /\ n # None => Free(n, a)
    /\ name' = IF n = None THEN name ELSE [name EXCEPT ![a] = n]
    /\ role' = IF r = "keep" THEN role ELSE [role EXCEPT ![a] = r]
    /\ bot' = [bot EXCEPT ![a] = op[o].b]
    /\ asked' = IF r = "keep" THEN asked ELSE [asked EXCEPT ![a] = r]
    /\ Settle(o, a, n)
    /\ Ends(o)
    /\ UNCHANGED <<acct, user, dname, tok, session, held, crossed>>

\* The second transaction reads the row again and plans again.
PatchCommit(o) ==
    LET a == op[o].a  n == op[o].n  r == op[o].r IN
    /\ op[o].at = "patch"
    /\ Live(a)
    /\ n # None => Free(n, a)
    /\ name' = IF n = None THEN name ELSE [name EXCEPT ![a] = n]
    /\ role' = IF r = "keep" THEN role ELSE [role EXCEPT ![a] = r]
    /\ asked' = IF r = "keep" THEN asked ELSE [asked EXCEPT ![a] = r]
    /\ Settle(o, a, n)
    /\ Ends(o)
    /\ UNCHANGED <<acct, bot, user, dname, tok, session, held, crossed>>

\* A name that is taken, an account that is gone, a client that went away:
\* the bot keeps its new name.
PatchFails(o) == GivesUp(o, "patch")

----------------------------------------------------------------------------
(* SetDiscord: Discord is asked first, then the row is written *)

SetRead(o, a, b) ==
    /\ op[o].at = "admitted"
    /\ Live(a)
    /\ Goes(o, [Idle EXCEPT !.at = "probing", !.a = a, !.b = b])
    /\ UNCHANGED <<rowVars, histVars, dname, tok, session>>

\* IdentityProber.Probe.
Probe(o) ==
    /\ op[o].at = "probing"
    /\ Goes(o, [op[o] EXCEPT !.at = "probed", !.n = dname[op[o].b], !.clean = "yes"])
    /\ UNCHANGED <<rowVars, histVars, dname, tok, session>>

ProbeFails(o) == GivesUp(o, "probing")

\* The token of a is another bot's from now on: who renamed the old one is
\* too late, and who is connecting with it brings its identity.
Connecting(p, a) == op[p].at \in {"connecting", "captured"} /\ op[p].a = a
Replaced(o, a, b) ==
    /\ op' = [p \in Op |-> IF p = o THEN Idle
                           ELSE IF op[p].at = "patch" /\ op[p].a = a /\ op[p].b # b
                                THEN [op[p] EXCEPT !.clean = "no"]
                           ELSE op[p]]
    /\ crossed' = IF \E p \in Op : Connecting(p, a) /\ op[p].b # b
                  THEN crossed \cup {a} ELSE crossed \ {a}

\* Mutant: the token is stored and bot_user_id left to the next session.
SetKeepsUser(o) ==
    LET a == op[o].a  b == op[o].b IN
    /\ op[o].at = "probed"
    /\ Live(a)
    /\ Free(op[o].n, a)
    /\ bot' = [bot EXCEPT ![a] = b]
    /\ held' = [held EXCEPT ![a] = b]
    /\ name' = [name EXCEPT ![a] = op[o].n]
    /\ settled' = IF op[o].clean = "yes" THEN settled \cup {a} ELSE settled \ {a}
    /\ Replaced(o, a, b)
    /\ UNCHANGED <<acct, role, user, dname, tok, session, asked>>

\* Mutant: only the token and the identity are stored.
SetKeepsName(o) ==
    LET a == op[o].a  b == op[o].b IN
    /\ op[o].at = "probed"
    /\ Live(a)
    /\ bot' = [bot EXCEPT ![a] = b]
    /\ user' = [user EXCEPT ![a] = b]
    /\ held' = [held EXCEPT ![a] = b]
    /\ settled' = IF op[o].clean = "yes" THEN settled \cup {a} ELSE settled \ {a}
    /\ Replaced(o, a, b)
    /\ UNCHANGED <<acct, name, role, dname, tok, session, asked>>

\* The row snaps to what Discord said; nothing asks whether another account
\* holds the same token, or whether this one is online.
SetCommit(o) ==
    LET a == op[o].a  b == op[o].b IN
    /\ op[o].at = "probed"
    /\ Live(a)
    /\ Free(op[o].n, a)
    /\ bot' = [bot EXCEPT ![a] = b]
    /\ user' = [user EXCEPT ![a] = b]
    /\ held' = [held EXCEPT ![a] = b]
    /\ name' = [name EXCEPT ![a] = op[o].n]
    /\ settled' = IF op[o].clean = "yes" THEN settled \cup {a} ELSE settled \ {a}
    /\ Replaced(o, a, b)
    /\ UNCHANGED <<acct, role, dname, tok, session, asked>>

SetFails(o) == GivesUp(o, "probed")

----------------------------------------------------------------------------
(* CreateToken, RevokeToken *)

\* PrepareToken: id, secret and hash, outside the transaction.
PrepareToken(o, a, t) ==
    /\ op[o].at = "admitted"
    /\ tok[t].st = "none"
    /\ \A p \in Op : ~(op[p].at = "minted" /\ op[p].t = t)
    /\ acct[a] # "new"                                 \* an id somebody has seen
    /\ Goes(o, [Idle EXCEPT !.at = "minted", !.a = a, !.t = t])
    /\ UNCHANGED <<rowVars, histVars, dname, tok, session>>

\* Mutant: the account is not looked up again, and no foreign key does.
TokenNoCheck(o) ==
    /\ op[o].at = "minted"
    /\ tok' = [tok EXCEPT ![op[o].t] = [owner |-> op[o].a, st |-> "valid"]]
    /\ Ends(o)
    /\ UNCHANGED <<rowVars, histVars, dname, session>>

TokenCommit(o) ==
    /\ op[o].at = "minted"
    /\ Live(op[o].a)
    /\ tok' = [tok EXCEPT ![op[o].t] = [owner |-> op[o].a, st |-> "valid"]]
    /\ Ends(o)
    /\ UNCHANGED <<rowVars, histVars, dname, session>>

TokenFails(o) == GivesUp(o, "minted")

RevokeToken(o, t) ==
    /\ op[o].at = "admitted"
    /\ tok[t].st = "valid"
    /\ tok' = [tok EXCEPT ![t] = [owner |-> tok[t].owner, st |-> "revoked"]]
    /\ Ends(o)
    /\ UNCHANGED <<rowVars, histVars, dname, session>>

----------------------------------------------------------------------------
(* OnlineAccount, OfflineAccount: as far as the identity goes *)

\* The token is read, then the Connector's slot reserved for it.
OnlineRead(o, a) ==
    /\ op[o].at = "admitted"
    /\ Live(a)
    /\ bot[a] # None
    /\ session[a] = None
    /\ \A p \in Op : ~(op[p].at = "connecting" /\ op[p].a = a)
    /\ Goes(o, [Idle EXCEPT !.at = "connecting", !.a = a, !.b = bot[a]])
    /\ UNCHANGED <<rowVars, histVars, dname, tok, session>>

Connected(o) ==
    /\ op[o].at = "connecting"
    /\ session' = [session EXCEPT ![op[o].a] = op[o].b]
    /\ Goes(o, [op[o] EXCEPT !.at = "captured"])
    /\ UNCHANGED <<rowVars, histVars, dname, tok>>

ConnectFails(o) == GivesUp(o, "connecting")

\* The identity of the session is stored.
OnlineCommit(o) ==
    LET a == op[o].a IN
    /\ op[o].at = "captured"
    /\ Live(a)
    /\ user' = [user EXCEPT ![a] = op[o].b]
    /\ crossed' = IF \E p \in Op : (p = o \/ Connecting(p, a)) /\ op[p].b # bot[a]
                  THEN crossed ELSE crossed \ {a}
    /\ Ends(o)
    /\ UNCHANGED <<acct, name, role, bot, dname, tok, session, settled, asked, held>>

\* The transaction fails and the session is taken down again.
OnlineFails(o) ==
    /\ op[o].at = "captured"
    /\ session' = [session EXCEPT ![op[o].a] = None]
    /\ Ends(o)
    /\ UNCHANGED <<rowVars, histVars, dname, tok>>

OfflineAccount(o, a) ==
    /\ op[o].at = "admitted"
    /\ session[a] # None
    /\ session' = [session EXCEPT ![a] = None]
    /\ Ends(o)
    /\ UNCHANGED <<rowVars, histVars, dname, tok>>

----------------------------------------------------------------------------

\* Somebody renames the bot at Discord.
RenamedElsewhere(b, n) ==
    /\ dname[b] # n
    /\ Renamed(b, n, None, Idle)
    /\ UNCHANGED <<rowVars, tok, session, asked, held, crossed>>

\* The daemon dies and starts again.
Crash ==
    /\ op' = [o \in Op |-> Idle]
    /\ session' = [a \in Account |-> None]
    /\ UNCHANGED <<rowVars, histVars, dname, tok>>

Begin(o) ==
    \/ \E t \in Token : Verify(o, t) \/ RevokeToken(o, t)
    \/ Admit(o)
    \/ \E a \in Target :
        \/ DeleteCheck(o, a) \/ OnlineRead(o, a) \/ OfflineAccount(o, a)
        \/ \E n \in Name, r \in {"admin", "user"} : CreateAccount(o, a, n, r)
        \/ \E n \in Name \cup {None}, r \in {"keep", "admin", "user"} : PatchPlan(o, a, n, r)
        \/ \E b \in Bot : SetRead(o, a, b)
        \/ \E t \in Token : PrepareToken(o, a, t)

Continue(o) ==
    \/ Rename(o) \/ RenameFails(o) \/ PatchCommit(o) \/ PatchFails(o)
    \/ Probe(o) \/ ProbeFails(o) \/ SetCommit(o) \/ SetFails(o)
    \/ DeleteTx(o) \/ GivesUp(o, "deleting") \/ GivesUp(o, "admitted")
    \/ TokenCommit(o) \/ TokenFails(o)
    \/ Connected(o) \/ ConnectFails(o) \/ OnlineCommit(o) \/ OnlineFails(o)

Next ==
    \/ \E o \in Op : Begin(o) \/ Continue(o)
    \/ \E b \in Bot, n \in Name : RenamedElsewhere(b, n)
    \/ Crash

Spec == Init /\ [][Next]_vars

----------------------------------------------------------------------------
(* Properties *)

\* UpdateAccount's and SetDiscord's comments: the row has the name Discord
\* has, once one of them ran with nothing else changing the bot's name or the
\* account's token between its call to Discord and its commit; two accounts
\* with one bot then cannot both be in agreement.
NamesInSync ==
    \A a \in settled : Live(a) /\ bot[a] # None => name[a] = dname[bot[a]]

\* Requests that waited for Discord do not write back what they read before:
\* role and token of an account are those last asked for (M2-P3-002).
FieldsAsAsked ==
    \A a \in Account : Live(a) => role[a] = asked[a] /\ bot[a] = held[a]

\* bot_user_id, by which the ingester knows its author, is the bot's whose
\* token the account holds, unless the token was replaced while an online
\* request was connecting with the old one.
IdentityMatchesToken ==
    \A a \in Account \ crossed : Live(a) => user[a] = bot[a]

\* No API token outlives its account, not even one that was being minted when
\* the account was deleted.
NoOrphanToken ==
    \A t \in Token : tok[t].st # "none" => tok[t].owner \in Account /\ Live(tok[t].owner)
=============================================================================
