------------------------------ MODULE RvListen ------------------------------
(***************************************************************************)
(* Network paths (components/rv9_io/src/nfm.c): connections made outward,  *)
(* and listeners that outlive the connections they accept.  Sockets are    *)
(* the host's; lwIP is what is done with them here.                        *)
(*                                                                         *)
(* What is done to the table of listeners is done under s_listen_lock and  *)
(* is one action; waiting for a client, or for a handshake, is sleeping    *)
(* between two looks.                                                      *)
(***************************************************************************)
EXTENDS Integers, FiniteSets

CONSTANTS
  Daemons,       \* whoever opens network paths, one each
  Ports, NoPort,
  NListeners,    \* MAX_LISTENERS
  Grace,         \* LISTEN_GRACE_MS, in ticks of the model's clock
  Sockets,       \* the host's sockets
  NoSocket

VARIABLES
  listeners,     \* s_listeners: port, fd, users, and how long ago idle_since_ms was
  net,           \* per daemon where it is, its socket and its listener's slot
  unused         \* how long nobody has waited on a port or had a connection by it

netVars == <<listeners, net, unused>>

ASSUME ListenAssumption ==
  /\ NListeners \in Nat \ {0} /\ Grace \in Nat \ {0}
  /\ NoPort \notin Ports /\ NoSocket \notin Sockets /\ IsFiniteSet(Daemons)

ListenSlots == 1..NListeners
FreeSlot == [port |-> NoPort, fd |-> NoSocket, users |-> 0, idle |-> Grace]
NoPath == [is |-> "closed", fd |-> NoSocket, slot |-> 0]

ListenInit ==
  /\ listeners = [s \in ListenSlots |-> FreeSlot]
  /\ net = [d \in Daemons |-> NoPath]
  /\ unused = [q \in Ports |-> Grace]

\* The sockets somebody has, of listeners ls and paths ps.
SocketsOf(ls, ps) == ({ls[s].fd : s \in ListenSlots} \cup {ps[d].fd : d \in Daemons}) \ {NoSocket}

(***************************************************************************)
(* Listeners.                                                              *)
(***************************************************************************)
\* reap_listeners_locked.
ReapListeners(ls) ==
  [s \in ListenSlots |->
     IF ls[s].port # NoPort /\ ls[s].users = 0 /\ ls[s].idle >= Grace THEN FreeSlot ELSE ls[s]]

\* Bug: when the last use ended is not noted.
PutUnstamped(ls, s) ==
  ReapListeners([ls EXCEPT ![s].users = @ - 1])

\* listener_put: one use of a listener has ended.
PutListener(ls, s) ==
  ReapListeners([ls EXCEPT ![s].users = @ - 1,
                           ![s].idle = IF ls[s].users = 1 THEN 0 ELSE @])

\* listener_get: the one there is for the port, or one made in the first slot
\* that is free.
Listen(d, q) ==
  LET ls == ReapListeners(listeners)
      there == {s \in ListenSlots : ls[s].port = q}
      room == {s \in ListenSlots : ls[s].port = NoPort}
  IN /\ net[d].is = "closed"
     /\ \/ \E s \in there :
             /\ listeners' = [ls EXCEPT ![s].users = @ + 1]
             /\ net' = [net EXCEPT ![d] = [is |-> "accepting", fd |-> NoSocket, slot |-> s]]
        \/ /\ there = {}
           /\ \E s \in room, f \in Sockets \ SocketsOf(ls, net) :
                /\ \A r \in room : s <= r
                /\ listeners' = [ls EXCEPT ![s] = [port |-> q, fd |-> f, users |-> 1, idle |-> Grace]]
                /\ net' = [net EXCEPT ![d] = [is |-> "accepting", fd |-> NoSocket, slot |-> s]]
        \* No slot, no socket, or the port cannot be had.
        \/ there = {} /\ listeners' = ls /\ UNCHANGED net

\* accept_in: somebody connected.  The connection keeps its use of the listener.
Accept(d) ==
  /\ net[d].is = "accepting"
  /\ \E f \in Sockets \ SocketsOf(listeners, net) :
       net' = [net EXCEPT ![d].is = "open", ![d].fd = f]
  /\ UNCHANGED listeners

\* accept failed, or whoever waits is being stopped.
StopAccepting(d) ==
  /\ net[d].is = "accepting"
  /\ listeners' = PutListener(listeners, net[d].slot)
  /\ net' = [net EXCEPT ![d] = NoPath]

(***************************************************************************)
(* connect_out, and nfm_close.                                             *)
(***************************************************************************)
ConnectOut(d) ==
  /\ net[d].is = "closed"
  /\ \E f \in Sockets \ SocketsOf(listeners, net) :
       net' = [net EXCEPT ![d] = [is |-> "connecting", fd |-> f, slot |-> 0]]
  /\ UNCHANGED listeners

Connected(d) ==
  /\ net[d].is = "connecting" /\ net' = [net EXCEPT ![d].is = "open"]
  /\ UNCHANGED listeners

\* Refused, timed out, or being stopped.
NotConnected(d) ==
  /\ net[d].is = "connecting" /\ net' = [net EXCEPT ![d] = NoPath]
  /\ UNCHANGED listeners

ClosePath(d) ==
  /\ net[d].is = "open" /\ net' = [net EXCEPT ![d] = NoPath]
  /\ listeners' = IF net[d].slot # 0 THEN PutListener(listeners, net[d].slot)
                  ELSE ReapListeners(listeners)

(***************************************************************************)
(* Time.                                                                   *)
(***************************************************************************)
Later(t) == IF t < Grace THEN t + 1 ELSE t

\* Those that wait on a port or have a connection that came by it.
ServedBy(q) == {d \in Daemons : net[d].slot # 0 /\ listeners[net[d].slot].port = q}

Passes ==
  /\ listeners' = [s \in ListenSlots |-> [listeners[s] EXCEPT !.idle = Later(@)]]
  /\ unused' = [q \in Ports |-> IF ServedBy(q) # {} THEN 0 ELSE Later(unused[q])]
  /\ UNCHANGED net

Tracked == unused' = [q \in Ports |-> IF ServedBy(q) # {} \/ ServedBy(q)' # {} THEN 0 ELSE unused[q]]

ListenNext ==
  \/ Passes
  \/ /\ \E d \in Daemons :
          \/ \E q \in Ports : Listen(d, q)
          \/ Accept(d) \/ StopAccepting(d) \/ ConnectOut(d) \/ Connected(d) \/ NotConnected(d)
          \/ ClosePath(d)
     /\ Tracked

ListenSpec == ListenInit /\ [][ListenNext]_netVars

(***************************************************************************)
(* Properties.                                                             *)
(***************************************************************************)
\* A port goes on answering between one connection and the next: whoever served
\* it until less than LISTEN_GRACE_MS ago has a listener there, so that "a
\* connection arriving between them waits in the backlog ... instead of being
\* turned away" (nfm.c:181-182).  A listener counts those that use it and no
\* others, a port has one, and no socket is lost or two paths'.
ListenersLast ==
  /\ \A q \in Ports : unused[q] < Grace => \E s \in ListenSlots : listeners[s].port = q
  /\ \A s \in ListenSlots :
       /\ listeners[s].users = Cardinality({d \in Daemons : net[d].slot = s})
       /\ listeners[s].port = NoPort <=> listeners[s].fd = NoSocket
       /\ listeners[s].users > 0 => listeners[s].port # NoPort
       /\ \A t \in ListenSlots \ {s} : listeners[s].port = listeners[t].port =>
            listeners[s].port = NoPort
  /\ Cardinality(SocketsOf(listeners, net)) =
       Cardinality({s \in ListenSlots : listeners[s].port # NoPort})
       + Cardinality({d \in Daemons : net[d].is \in {"connecting", "open"}})
=============================================================================
