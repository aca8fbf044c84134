------------------------------ MODULE JackClient ------------------------------
(***************************************************************************)
(* JackClient (src/src/drivers/jack/JackClient.cpp): its connection to the *)
(* server, its ports with one audio buffer per port name, and the port     *)
(* connections.  One thread calls it; its callbacks change nothing here.   *)
(* A port name stands for the full name "client:port".                     *)
(***************************************************************************)
EXTENDS Naturals, Sequences, SequencesExt

CONSTANTS Ports, Sizes, FirstSize, MaxPortEntries

VARIABLES
  client,   (* JackClient::Impl                                              *)
  twice     (* history: ports that were created while they existed           *)

clientVars == <<client, twice>>

NoEntries == [p \in {} |-> 0]

(* The states of a client with buffers for the ports D and connections from E. *)
Clients(D, E) ==
  [connected : BOOLEAN, active : BOOLEAN, bufferSize : Sizes, lambda : BOOLEAN,
   ownPorts : Seq(Ports), audioBuffers : [D -> Sizes], portConnections : [E -> Seq(Ports)]]

IsClient(c) == \E D, E \in SUBSET Ports : c \in Clients(D, E)

NewClient ==
  [connected |-> FALSE, active |-> FALSE, bufferSize |-> FirstSize, lambda |-> FALSE,
   ownPorts |-> <<>>, audioBuffers |-> NoEntries, portConnections |-> NoEntries]

ClientTypeOK == IsClient(client) /\ twice \subseteq Ports

-----------------------------------------------------------------------------
(* Faulty variants of definitions below, used by no action.                   *)
BuffersKept(c, n) == [c EXCEPT !.bufferSize = n]
BufferLeft(f, p) == f

Without(f, p) == [q \in DOMAIN f \ {p} |-> f[q]]

(* map::operator[] followed by an assignment.                                 *)
With(f, p, x) == [q \in DOMAIN f \union {p} |-> IF q = p THEN x ELSE f[q]]

Targets(c, p) == IF p \in DOMAIN c.portConnections THEN c.portConnections[p] ELSE <<>>
Exists(c, p) == Contains(c.ownPorts, p)

Connected(c) == [c EXCEPT !.connected = TRUE]

(* disconnect() does nothing, ports included, unless connected.               *)
Disconnected(c) ==
  IF ~c.connected THEN c
  ELSE [c EXCEPT !.connected = FALSE, !.active = FALSE, !.ownPorts = <<>>,
                 !.audioBuffers = NoEntries, !.portConnections = NoEntries]

Activated(c) == [c EXCEPT !.active = c.connected]
Deactivated(c) == [c EXCEPT !.active = FALSE]

ResizeAll(c, n) ==
  [c EXCEPT !.bufferSize = n, !.audioBuffers = [p \in DOMAIN c.audioBuffers |-> n]]

(* setBufferSize() is refused while active.                                   *)
Resized(c, n) == IF c.active THEN c ELSE ResizeAll(c, n)

Created(c, p) ==
  [c EXCEPT !.ownPorts = Append(@, p), !.audioBuffers = With(@, p, c.bufferSize)]

(* The audio buffers after unregisterPort(p).                                 *)
BuffersWithout(f, p) == Without(f, p)

(* The connections that lead to the port from others stay.                    *)
Unregistered(c, p) ==
  [c EXCEPT !.ownPorts = RemoveFirst(@, p), !.audioBuffers = BuffersWithout(@, p),
            !.portConnections = Without(@, p)]

PortsConnected(c, src, dst) ==
  [c EXCEPT !.portConnections = With(@, src, Append(Targets(c, src), dst))]

PortsDisconnected(c, src, dst) ==
  IF Contains(Targets(c, src), dst)
  THEN [c EXCEPT !.portConnections[src] = RemoveFirst(@, dst)] ELSE c

AllDisconnected(c, p) ==
  IF p \in DOMAIN c.portConnections THEN [c EXCEPT !.portConnections[p] = <<>>] ELSE c

-----------------------------------------------------------------------------
ClientInit == client = NewClient /\ twice = {}

Server ==
  /\ \/ client' \in {Connected(client), Disconnected(client), Activated(client),
                     Deactivated(client)}
     \/ \E n \in Sizes : client' = Resized(client, n)
  /\ twice' = twice \intersect Range(client'.ownPorts)

CreatePort(p) ==
  /\ Len(client.ownPorts) < MaxPortEntries
  /\ client' = Created(client, p)
  /\ twice' = IF Exists(client, p) THEN twice \union {p} ELSE twice

UnregisterPort(p) ==
  /\ Exists(client, p)
  /\ client' = Unregistered(client, p)
  /\ twice' = twice \intersect Range(client'.ownPorts)

Wire(src, dst) ==
  /\ \/ Len(Targets(client, src)) < 2 /\ client' = PortsConnected(client, src, dst)
     \/ client' = PortsDisconnected(client, src, dst)
     \/ client' = AllDisconnected(client, src)
  /\ UNCHANGED twice

ClientNext ==
  \/ Server
  \/ \E p \in Ports : CreatePort(p) \/ UnregisterPort(p)
  \/ \E src, dst \in Ports : Wire(src, dst)

-----------------------------------------------------------------------------
(* Each port has a buffer of the current size and each buffer has its port,   *)
(* through every order of connecting, resizing, creating and unregistering.   *)
(* Only a name that was created twice may have lost its buffer: the first     *)
(* unregisterPort() takes the buffer of both.                                 *)
PortsHaveBuffers ==
  /\ DOMAIN client.audioBuffers \subseteq Range(client.ownPorts)
  /\ Range(client.ownPorts) \ DOMAIN client.audioBuffers \subseteq twice
  /\ \A p \in DOMAIN client.audioBuffers : client.audioBuffers[p] = client.bufferSize
=============================================================================
