--------------------------------- MODULE Hub ---------------------------------
(***************************************************************************)
(* WebSocket connections and their subscriptions: WSHub and wsHandler of   *)
(* internal/server/ws.go.                                                  *)
(*                                                                         *)
(* Each connection has a goroutine that serves it; a step is one critical  *)
(* section of the hub's RWMutex.  A broadcast holds the read lock while it *)
(* writes to one connection after the other, so it keeps the writers of    *)
(* the hub waiting, and only them: reading messages goes on.               *)
(***************************************************************************)
EXTENDS Naturals

CONSTANTS Connections, Viewers, Channels

VARIABLES
  socket,    \* what the goroutine of a connection does, for whom, about which games
  clients,   \* hub.clients
  gameSub,   \* hub.gameSub
  userSubs,  \* hub.userSubs
  sending,   \* connections the broadcast under way has still to write to
  asked,     \* history: games a connection copied from its user's list or asked for
  late       \* history: a broadcast wrote to a connection that was closed

hubVars == <<socket, clients, gameSub, userSubs, sending, asked, late>>

Phases == {"new", "registered", "restore", "read", "track", "leaving", "closed"}
Socket == [at : Phases, user : Viewers \cup {"nobody"}, games : SUBSET Channels]

HubTypeOK ==
  /\ socket \in [Connections -> Socket]
  /\ \A c \in Connections : socket[c].at # "new" => socket[c].user \in Viewers
  /\ clients \subseteq Connections /\ sending \subseteq Connections
  /\ gameSub \in [Channels -> SUBSET Connections]
  /\ userSubs \in [Viewers -> SUBSET Channels]
  /\ asked \in [Connections -> SUBSET Channels]
  /\ late \in BOOLEAN

HubInit ==
  /\ socket = [c \in Connections |-> [at |-> "new", user |-> "nobody", games |-> {}]]
  /\ clients = {} /\ sending = {}
  /\ gameSub = [g \in Channels |-> {}]
  /\ userSubs = [u \in Viewers |-> {}]
  /\ asked = [c \in Connections |-> {}]
  /\ late = FALSE

Phase(c, phase) == socket[c].at = phase
Enter(c, phase, games) ==
  socket' = [socket EXCEPT ![c] = [at |-> phase, user |-> socket[c].user, games |-> games]]

\* The write lock waits for the broadcast that holds the read lock.
LockFree == sending = {}
-----------------------------------------------------------------------------
\* wsHandler with a valid token: upgrade and Register.  The hub's userConn,
\* which nothing reads, is left out.
Connect(c, u) ==
  /\ Phase(c, "new") /\ LockFree
  /\ socket' = [socket EXCEPT ![c] = [at |-> "registered", user |-> u, games |-> {}]]
  /\ clients' = clients \cup {c}
  /\ UNCHANGED <<gameSub, userSubs, sending, asked, late>>

\* RestoreSubs copies the list of the user under the lock ...
CopySubs(c) ==
  /\ Phase(c, "registered") /\ LockFree
  /\ Enter(c, "restore", userSubs[socket[c].user])
  /\ asked' = [asked EXCEPT ![c] = userSubs[socket[c].user]]
  /\ UNCHANGED <<clients, gameSub, userSubs, sending, late>>

Subscribed(g, c) == [gameSub EXCEPT ![g] = gameSub[g] \cup {c}]

\* ... and subscribes to one after the other without it.
RestoreSub(c, g) ==
  /\ Phase(c, "restore") /\ g \in socket[c].games /\ LockFree
  /\ gameSub' = Subscribed(g, c)
  /\ Enter(c, "restore", socket[c].games \ {g})
  /\ UNCHANGED <<clients, userSubs, sending, asked, late>>

ReadLoop(c) ==
  /\ Phase(c, "restore") /\ socket[c].games = {}
  /\ Enter(c, "read", {})
  /\ UNCHANGED <<clients, gameSub, userSubs, sending, asked, late>>

\* A "subscribe" message: Subscribe, then TrackUserSub.
Subscribe(c, g) ==
  /\ Phase(c, "read") /\ LockFree
  /\ gameSub' = Subscribed(g, c)
  /\ Enter(c, "track", {g})
  /\ asked' = [asked EXCEPT ![c] = asked[c] \cup {g}]
  /\ UNCHANGED <<clients, userSubs, sending, late>>

\* A game that is on the list is not added again.
TrackUserSub(c) ==
  /\ Phase(c, "track") /\ LockFree
  /\ userSubs' = [userSubs EXCEPT ![socket[c].user] = userSubs[socket[c].user] \cup socket[c].games]
  /\ Enter(c, "read", {})
  /\ UNCHANGED <<clients, gameSub, sending, asked, late>>

\* ReadMessage fails: the deferred Unregister comes before the deferred Close.
ReadFails(c) ==
  /\ Phase(c, "read")
  /\ Enter(c, "leaving", {})
  /\ UNCHANGED <<clients, gameSub, userSubs, sending, asked, late>>

\* Mutant: all connections of the user lose their subscriptions.
Unregister_User(c) ==
  /\ Phase(c, "leaving") /\ LockFree
  /\ clients' = clients \ {c}
  /\ gameSub' = [g \in Channels |->
                   {d \in gameSub[g] : socket[d].user # socket[c].user}]
  /\ Enter(c, "closed", {})
  /\ UNCHANGED <<userSubs, sending, asked, late>>

\* Mutant: the mutex is not taken.
Unregister_Unlocked(c) ==
  /\ Phase(c, "leaving")
  /\ clients' = clients \ {c}
  /\ gameSub' = [g \in Channels |-> gameSub[g] \ {c}]
  /\ Enter(c, "closed", {})
  /\ UNCHANGED <<userSubs, sending, asked, late>>

Unregister(c) ==
  /\ Phase(c, "leaving") /\ LockFree
  /\ clients' = clients \ {c}
  /\ gameSub' = [g \in Channels |-> gameSub[g] \ {c}]
  /\ Enter(c, "closed", {})
  /\ UNCHANGED <<userSubs, sending, asked, late>>

\* Broadcast and BroadcastToGame; two of them are two of the same.
Broadcast ==
  /\ LockFree
  /\ \/ sending' = clients
     \/ \E g \in Channels : sending' = gameSub[g]
  /\ UNCHANGED <<socket, clients, gameSub, userSubs, asked, late>>

\* An error of the write is logged.
Write(c) ==
  /\ c \in sending
  /\ sending' = sending \ {c}
  /\ late' = (late \/ Phase(c, "closed"))
  /\ UNCHANGED <<socket, clients, gameSub, userSubs, asked>>

HubNext ==
  \/ \E c \in Connections :
       \/ \E u \in Viewers : Connect(c, u)
       \/ CopySubs(c) \/ ReadLoop(c) \/ TrackUserSub(c) \/ ReadFails(c) \/ Unregister(c) \/ Write(c)
       \/ \E g \in Channels : RestoreSub(c, g) \/ Subscribe(c, g)
  \/ Broadcast

HubSpec == HubInit /\ [][HubNext]_hubVars
-----------------------------------------------------------------------------
(***************************************************************************)
(* Properties.                                                             *)
(***************************************************************************)

\* Served(c): from the copy of the list on, all of what c asked for that it
\* has not still to restore.
Served(c) == {g \in Channels : c \in gameSub[g]}

\* A connection that reads is subscribed to exactly the games its user's list
\* held when it came and those it asked for since, whatever older or newer
\* connections of the same user do and whenever they end; one that ended is
\* subscribed to nothing and gets no broadcast.
ConnectionHasItsGames ==
  \A c \in Connections :
    /\ socket[c].at \in {"read", "track", "leaving"} => Served(c) = asked[c] /\ c \in clients
    /\ Phase(c, "restore") => Served(c) = asked[c] \ socket[c].games /\ c \in clients
    /\ socket[c].at \in {"new", "closed"} => Served(c) = {} /\ c \notin clients

\* A broadcast never writes to a connection whose handler has closed it.
WritesReachOpenConnections == ~late
=============================================================================
