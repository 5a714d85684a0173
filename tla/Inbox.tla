-------------------------------- MODULE Inbox --------------------------------
(***************************************************************************)
(* What an agent is promised about the messages of a room: a message is    *)
(* stored once, as the gateway saw it or as its sender sent it, and the    *)
(* sender's version is never replaced by the gateway's; it reaches an      *)
(* account's inbox once, unread unless the account wrote it; and once read *)
(* it stays read.  MessageSync.tla is shown to implement this module.      *)
(***************************************************************************)
CONSTANTS Account, Msg,
          By          \* By[m]: the account that sends m (or no account)

VARIABLES version,    \* version[m]: "none", "gateway" or "sender"
          box         \* box[m][a]: "absent", "unread" or "read"

inboxVars == <<version, box>>

InboxInit ==
    /\ version = [m \in Msg |-> "none"]
    /\ box = [m \in Msg |-> [a \in Account |-> "absent"]]

\* The accounts in To that do not have m yet get it; whoever wrote it has
\* read it.
Delivered(m, To) ==
    [a \in Account |->
        IF a \in To /\ a = By[m] THEN "read"
        ELSE IF a \in To /\ box[m][a] = "absent" THEN "unread"
        ELSE box[m][a]]

\* Seen on the gateway, for the first time
Store(m, To) ==
    /\ version[m] = "none"
    /\ version' = [version EXCEPT ![m] = "gateway"]
    /\ box' = [box EXCEPT ![m] = Delivered(m, To)]

\* Recorded by its sender, whether it was seen on the gateway or not
Record(m, To) ==
    /\ version[m] # "sender"
    /\ By[m] \in To
    /\ version' = [version EXCEPT ![m] = "sender"]
    /\ box' = [box EXCEPT ![m] = Delivered(m, To)]

\* a reads messages that are unread in its inbox.
Read(a, S) ==
    /\ \A m \in S : box[m][a] = "unread"
    /\ box' = [m \in Msg |-> IF m \in S THEN [box[m] EXCEPT ![a] = "read"] ELSE box[m]]
    /\ UNCHANGED version

InboxNext ==
    \/ \E m \in Msg, To \in SUBSET Account : Store(m, To) \/ Record(m, To)
    \/ \E a \in Account, S \in SUBSET Msg : Read(a, S)

InboxSpec == InboxInit /\ [][InboxNext]_inboxVars
=============================================================================
