---------------------------- MODULE AccountStream ----------------------------
(***************************************************************************)
(* What the Connector promises the rest of the daemon about one account:   *)
(* at any time there is at most one session with the chat backend; every   *)
(* open subscription hears that session, possibly with gaps; when the      *)
(* session ends every subscription open at that moment ends with it, and   *)
(* a subscription never outlives the session it heard.  Connector.tla is   *)
(* shown to implement this module.                                         *)
(***************************************************************************)
EXTENDS Naturals, FiniteSets

CONSTANTS Provider,   \* sessions that can ever be started
          Sub,        \* subscriptions that can ever be made
          None        \* "no session"

VARIABLES session,    \* the running session, or None
          used,       \* sessions that have been started
          listening,  \* subscriptions that are open
          ended,      \* subscriptions whose channel has been closed
          heard       \* heard[s]: the sessions s has had an event of

streamVars == <<session, used, listening, ended, heard>>

StreamInit ==
    /\ session = None
    /\ used = {}
    /\ listening = {}
    /\ ended = {}
    /\ heard = [s \in Sub |-> {}]

Start(g) ==
    /\ session = None
    /\ g \notin used
    /\ session' = g
    /\ used' = used \cup {g}
    /\ UNCHANGED <<listening, ended, heard>>

\* An event reaches some of the open subscriptions; the others were full.
Deliver(S) ==
    /\ session # None
    /\ S \subseteq listening
    /\ heard' = [s \in Sub |-> IF s \in S THEN heard[s] \cup {session} ELSE heard[s]]
    /\ UNCHANGED <<session, used, listening, ended>>

Stop ==
    /\ session # None
    /\ session' = None
    /\ listening' = {}
    /\ ended' = ended \cup listening
    /\ UNCHANGED <<used, heard>>

Join(s) ==
    /\ s \notin listening \cup ended
    /\ listening' = listening \cup {s}
    /\ UNCHANGED <<session, used, ended, heard>>

Leave(s) ==
    /\ s \in listening
    /\ listening' = listening \ {s}
    /\ ended' = ended \cup {s}
    /\ UNCHANGED <<session, used, heard>>

StreamNext ==
    \/ \E g \in Provider : Start(g)
    \/ \E S \in SUBSET Sub : Deliver(S)
    \/ Stop
    \/ \E s \in Sub : Join(s) \/ Leave(s)

StreamSpec == StreamInit /\ [][StreamNext]_streamVars
=============================================================================
