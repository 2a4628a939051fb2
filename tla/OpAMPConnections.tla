-------------------------- MODULE OpAMPConnections --------------------------
(***************************************************************************)
(* The connection index of the OpAMP adapter: which connection owns an     *)
(* agent's InstanceUID, what its callbacks tell the event loop, and what   *)
(* the inventory ends up saying.  An agent that restarts or is replaced    *)
(* opens a new connection, often before the server sees the old one close. *)
(*                                                                         *)
(* The maps are keyed by InstanceUID, so one identity is the whole of it.  *)
(* Each connection has callbacks of its own, which run one after another,  *)
(* and holds Adapter.mu only while it updates the maps.                    *)
(***************************************************************************)
EXTENDS Naturals, Sequences

CONSTANTS
    Conns,       \* the connections that the agent opens
    EventCap,    \* capacity of Adapter.events (128 in the code)
    MaxChanges   \* bound on how often the agent's health changes

Nothing == "none"   \* no connection, nothing known
Free == "free"   \* nobody holds the mutex

ASSUME OpAMPConnectionsAssumption ==
    /\ Nothing \notin Conns /\ Free \notin Conns
    /\ EventCap \in Nat \ {0} /\ MaxChanges \in Nat

Health == {"up", "down"}
Event  == [type : {"connected", "updated", "disconnected"}, health : Health]

VARIABLES
    link,       \* each connection is absent, open or closed
    health,     \* the health of the collector at its other end
    told,       \* that health was reported on this connection
    order,      \* the connections that spoke, in order (history)
    byConn,     \* the health merged from the messages of each connection
    byUID,      \* the connection that owns the InstanceUID
    mu,         \* holder of Adapter.mu between two steps
    sending,    \* the event a callback has yet to put on the channel
    events,     \* Adapter.events
    loop,       \* the event loop: idle, or delivering to a new member
    inventory,  \* the agent record: connected and health
    changes

ends  == <<link, health, told, changes>>
index == <<byConn, byUID, order>>
presenceVars ==  <<ends, index, mu, sending, events, loop, inventory>>

---------------------------------------------------------------------------
(* The collectors.                                                           *)

Open(c) ==
    /\ link[c] = "absent"
    /\ link' = [link EXCEPT ![c] = "open"]
    /\ UNCHANGED <<health, told, changes, index, mu, sending, events, loop, inventory>>

HealthChanges(c) ==
    /\ link[c] = "open" /\ changes < MaxChanges
    /\ health' = [health EXCEPT ![c] = IF @ = "up" THEN "down" ELSE "up"]
    /\ told' = [told EXCEPT ![c] = FALSE]
    /\ changes' = changes + 1
    /\ UNCHANGED <<link, index, mu, sending, events, loop, inventory>>

---------------------------------------------------------------------------
(* The callbacks.                                                            *)

Known(c) == byConn[c] # Nothing

\* Mutant: a late message of a replaced connection takes the UID back.
NeverSuperseded(c) == FALSE
Superseded(c) == Known(c) /\ byUID # Nothing /\ byUID # c

(* An incremental message leaves the health out.                             *)
MergeForgets(c, full) == IF full THEN health[c] ELSE "down"   \* mutant
MergeUnknown(c, full) == IF full THEN health[c] ELSE byConn[c]   \* mutant
Merge(c, full) ==
    IF full THEN health[c] ELSE IF Known(c) THEN byConn[c] ELSE "down"

\* Mutant: the callback sends its event before it unlocks.
KeepLock(c) == c
Unlock(c) == Free

MayRun(c) == sending[c] = << >> /\ mu = Free

(* onMessage up to the unlock: the event is sent afterwards.                 *)
OnMessage(c, full) ==
    /\ link[c] = "open" /\ MayRun(c)
    /\ byConn' = [byConn EXCEPT ![c] = Merge(c, full)]
    /\ told' = [told EXCEPT ![c] = @ \/ full]
    /\ order' = IF Known(c) THEN order ELSE Append(order, c)
    /\ IF Superseded(c)
       THEN UNCHANGED <<byUID, sending, mu>>
       ELSE /\ byUID' = c
            /\ sending' = [sending EXCEPT ![c] =
                  <<[type |-> IF Known(c) THEN "updated" ELSE "connected",
                     health |-> Merge(c, full)]>>]
            /\ mu' = Unlock(c)
    /\ UNCHANGED <<link, health, changes, events, loop, inventory>>

(* onConnectionClose: only the owner of the UID reports the agent gone.      *)
NotIndexed(c) == FALSE   \* mutant: the index keeps the connection
Owns(c) == byUID = c

OnConnectionClose(c) ==
    /\ link[c] = "open" /\ MayRun(c)
    /\ link' = [link EXCEPT ![c] = "closed"]
    /\ byConn' = [byConn EXCEPT ![c] = Nothing]
    /\ IF Known(c) /\ Owns(c)
       THEN /\ byUID' = Nothing
            /\ sending' = [sending EXCEPT ![c] =
                  <<[type |-> "disconnected", health |-> "down"]>>]
       ELSE UNCHANGED <<byUID, sending>>
    /\ UNCHANGED <<health, told, changes, order, mu, events, loop, inventory>>

(* A callback puts its event on the channel, which blocks while it is full.  *)
Emit(c) ==
    /\ sending[c] # << >> /\ Len(events) < EventCap
    /\ events' = Append(events, Head(sending[c]))
    /\ sending' = [sending EXCEPT ![c] = << >>]
    /\ mu' = IF mu = c THEN Free ELSE mu
    /\ UNCHANGED <<ends, index, loop, inventory>>

---------------------------------------------------------------------------
(* The event loop.  It may deliver a configuration to an agent that joins a  *)
(* dynamic group, for which SendRemoteConfig takes Adapter.mu.               *)

TakeEvent ==
    /\ loop = "idle" /\ events # << >>
    /\ events' = Tail(events)
    /\ inventory' = [connected |-> Head(events).type # "disconnected",
                     health    |-> Head(events).health]
    /\ loop' \in IF Head(events).type = "disconnected" THEN {"idle"} ELSE {"idle", "deliver"}
    /\ UNCHANGED <<ends, index, mu, sending>>

LookUp ==
    /\ loop = "deliver" /\ mu = Free
    /\ loop' = "idle"
    /\ UNCHANGED <<ends, index, mu, sending, events, inventory>>

---------------------------------------------------------------------------

PresenceInit ==
    /\ link = [c \in Conns |-> "absent"]
    /\ health = [c \in Conns |-> "up"]
    /\ told = [c \in Conns |-> FALSE]
    /\ changes = 0
    /\ order = << >>
    /\ byConn = [c \in Conns |-> Nothing] /\ byUID = Nothing
    /\ mu = Free /\ sending = [c \in Conns |-> << >>]
    /\ events = << >> /\ loop = "idle"
    /\ inventory = [connected |-> FALSE, health |-> "down"]

PresenceNext ==
    \/ \E c \in Conns :
          \/ Open(c) \/ HealthChanges(c)
          \/ \E full \in BOOLEAN : OnMessage(c, full)
          \/ OnConnectionClose(c) \/ Emit(c)
    \/ TakeEvent \/ LookUp

PresenceSpec == PresenceInit /\ [][PresenceNext]_presenceVars

(* Callbacks and the loop are scheduled; senders that wait for a channel are *)
(* served in turn, which is strong fairness.  An open connection goes on     *)
(* sending messages, and a full one again and again among them: the OpAMP    *)
(* client answers ReportFullState and reports a change of health.            *)
PresenceFairness ==
    /\ \A c \in Conns : SF_presenceVars(Emit(c)) /\ SF_presenceVars(OnMessage(c, TRUE))
    /\ WF_presenceVars(TakeEvent) /\ WF_presenceVars(LookUp)

PresenceFairSpec == PresenceSpec /\ PresenceFairness

---------------------------------------------------------------------------
(* Properties.                                                               *)

PresenceTypeOK ==
    /\ link \in [Conns -> {"absent", "open", "closed"}]
    /\ health \in [Conns -> Health]
    /\ told \in [Conns -> BOOLEAN]
    /\ changes \in Nat
    /\ order \in Seq(Conns)
    /\ byConn \in [Conns -> Health \cup {Nothing}]
    /\ byUID \in Conns \cup {Nothing}
    /\ mu \in Conns \cup {Free}
    /\ sending \in [Conns -> Seq(Event)]
    /\ events \in Seq(Event)
    /\ loop \in {"idle", "deliver"}
    /\ inventory \in [connected : BOOLEAN, health : Health]

(* The index never points at a connection that is gone, so an offer is not   *)
(* handed to a closed socket while a replacement is known, and the record    *)
(* SendRemoteConfig reads beside it exists.                                  *)
IndexLive == byUID # Nothing => link[byUID] = "open" /\ byConn[byUID] # Nothing

Newer(c, d, o) == \E i, j \in DOMAIN o : o[i] = d /\ o[j] = c /\ i < j

Newest(c, o) == o # << >> /\ o[Len(o)] = c

(* While it is owned, the UID is only handed on to a connection that spoke   *)
(* later for the first time: a replaced collector never takes it back from   *)
(* its replacement.                                                          *)
HandedOn == byUID # Nothing /\ byUID' # Nothing /\ byUID' # byUID => Newer(byUID', byUID, order')
OwnerMovesForward == [][HandedOn]_presenceVars

(* No callback waits for ever: what it has to send is taken, however small   *)
(* the channel, because it blocks without the mutex that the loop needs.     *)
CallbacksReturn == \A c \in Conns : sending[c] # << >> ~> sending[c] = << >>

Live(c) == link[c] = "open" /\ Newest(c, order)

Shows(c) == inventory.connected /\ inventory.health = health[c]

(* If the newest connection stays, the inventory ends up showing the agent   *)
(* connected with the health of the collector behind that connection,        *)
(* whatever older connections still say and however late they close.         *)
PresenceConverges == \A c \in Conns : <>[]Live(c) => <>[]Shows(c)

(* The onConnectionClose comment: a socket that closes beside its            *)
(* replacement must not mark the replacement disconnected.                   *)
Quiet == events = << >> /\ \A c \in Conns : sending[c] = << >>
ReplacementStaysUp ==
    Quiet => \A c \in Conns : Live(c) /\ told[c] => inventory.connected
=============================================================================
