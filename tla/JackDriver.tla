------------------------------ MODULE JackDriver ------------------------------
(***************************************************************************)
(* JackDriver (src/src/drivers/jack/JackDriver.cpp) and the JackClient it  *)
(* owns.  Driver and client each keep their idea of the connection, of     *)
(* what runs and of the buffer size; nothing but the order of the calls    *)
(* keeps the two equal.  The server, which calls the process callback with *)
(* the client's buffer size, is external.                                  *)
(*                                                                         *)
(* Left out: transport, timebase, port names and sample data.              *)
(***************************************************************************)
EXTENDS JackClient

CONSTANTS NoClient, MaxFrames

VARIABLES
  connectedToServer, jackRunning, bufferSize,  (* JackDriver::Impl; its buffers hold bufferSize frames *)
  hasCallback,       (* audioCallback has a target                           *)
  framePosition,
  torn,              (* history: initialize() while connected or disconnectFromServer() while running *)
  resized            (* history: setBufferSize() since connectToServer()     *)

jackVars == <<client, twice, connectedToServer, jackRunning, bufferSize, hasCallback,
              framePosition, torn, resized>>

DriverInit ==
  /\ connectedToServer = FALSE /\ jackRunning = FALSE /\ hasCallback = FALSE
  /\ bufferSize = FirstSize /\ framePosition = 0
  /\ torn = FALSE /\ resized = FALSE

JackInit == DriverInit /\ client = NoClient /\ twice = {}

HasClient == client # NoClient

-----------------------------------------------------------------------------
(* Faulty variants of definitions below, used by no action.                   *)
SizeKept == bufferSize

(* The driver's buffer size after connectToServer().                          *)
SizeFromServer == client.bufferSize

(* A new client, whatever the old one was doing.                              *)
InitializeJack ==
  /\ client' = NewClient
  /\ torn' = (torn \/ connectedToServer \/ jackRunning)
  /\ UNCHANGED <<twice, connectedToServer, jackRunning, bufferSize, hasCallback, framePosition,
                 resized>>

ShutdownJack ==
  /\ client' = NoClient
  /\ jackRunning' = FALSE /\ connectedToServer' = FALSE /\ torn' = FALSE
  /\ UNCHANGED <<twice, bufferSize, hasCallback, framePosition, resized>>

(* start(): activate() of a client that is not connected is refused, and the  *)
(* refusal ignored.                                                           *)
StartJack ==
  /\ connectedToServer /\ ~jackRunning
  /\ jackRunning' = TRUE /\ framePosition' = 0
  /\ client' = IF HasClient THEN Activated(client) ELSE client
  /\ UNCHANGED <<twice, connectedToServer, bufferSize, hasCallback, torn, resized>>

StopJack ==
  /\ jackRunning
  /\ jackRunning' = FALSE
  /\ client' = IF HasClient THEN Deactivated(client) ELSE client
  /\ UNCHANGED <<twice, connectedToServer, bufferSize, hasCallback, framePosition, torn, resized>>

(* selectDevice() is connectToServer().                                       *)
ConnectToServer ==
  /\ ~connectedToServer /\ HasClient
  /\ client' = Connected(client)
  /\ connectedToServer' = TRUE
  /\ bufferSize' = SizeFromServer
  /\ resized' = FALSE
  /\ UNCHANGED <<twice, jackRunning, hasCallback, framePosition, torn>>

(* running keeps its value.                                                   *)
DisconnectFromServer ==
  /\ connectedToServer
  /\ client' = IF HasClient THEN Disconnected(client) ELSE client
  /\ connectedToServer' = FALSE
  /\ torn' = (torn \/ jackRunning)
  /\ UNCHANGED <<twice, jackRunning, bufferSize, hasCallback, framePosition, resized>>

(* Only the client learns of the size.                                        *)
SetJackBufferSize(n) ==
  /\ HasClient /\ ~client.active
  /\ client' = Resized(client, n)
  /\ resized' = TRUE
  /\ UNCHANGED <<twice, connectedToServer, jackRunning, bufferSize, hasCallback, framePosition,
                 torn>>

(* The client, if there is one, is given the lambda.                          *)
SetJackCallback ==
  /\ hasCallback' \in BOOLEAN
  /\ client' = IF HasClient THEN [client EXCEPT !.lambda = TRUE] ELSE client
  /\ UNCHANGED <<twice, connectedToServer, jackRunning, bufferSize, framePosition, torn, resized>>

(* connectPorts() and disconnectPorts() go to the client.                     *)
WireJack(src, dst) ==
  /\ HasClient
  /\ client' \in {PortsConnected(client, src, dst), PortsDisconnected(client, src, dst)}
  /\ Len(Targets(client', src)) <= 1
  /\ UNCHANGED <<twice, connectedToServer, jackRunning, bufferSize, hasCallback, framePosition,
                 torn, resized>>

(* The server's thread calls the lambda with the client's buffer size.        *)
Process ==
  /\ HasClient /\ client.active /\ client.lambda /\ hasCallback
  /\ framePosition' = framePosition + client.bufferSize
  /\ framePosition' <= MaxFrames
  /\ UNCHANGED <<client, twice, connectedToServer, jackRunning, bufferSize, hasCallback, torn,
                 resized>>

JackNext ==
  \/ InitializeJack \/ ShutdownJack \/ StartJack \/ StopJack \/ ConnectToServer
  \/ DisconnectFromServer \/ SetJackCallback \/ Process
  \/ \E n \in Sizes : SetJackBufferSize(n)
  \/ \E src, dst \in Ports : WireJack(src, dst)

-----------------------------------------------------------------------------
(* What runs is active, unless the client was replaced or disconnected under  *)
(* the driver since the last shutdown(): then start() answers true and the    *)
(* server never calls.  Nothing is active that does not run.                  *)
RunningIsActive ==
  /\ jackRunning /\ ~torn => HasClient /\ client.active /\ client.connected
  /\ HasClient /\ client.active => jackRunning /\ connectedToServer

(* The frames the server asks for fit the buffers the callback is handed,     *)
(* unless the client was resized after connecting.                            *)
BuffersFit == HasClient /\ client.active /\ ~torn /\ ~resized => client.bufferSize <= bufferSize

DriverMatchesClient == RunningIsActive /\ BuffersFit
=============================================================================
