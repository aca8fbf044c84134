---------------------------- MODULE AlsaMidiPorts ----------------------------
(***************************************************************************)
(* AlsaMidiDriver (src/src/drivers/alsa/AlsaMidiDriver.cpp): its life      *)
(* cycle, its list of ports, the names of the ports it created, and the    *)
(* names it is connected to.  Its input thread only sleeps, so that        *)
(* stop() always joins it.  Sending changes nothing and is left out; what  *)
(* sendPitchBend() puts into an event is in MidiMessage.                   *)
(***************************************************************************)
EXTENDS Naturals, Sequences, FiniteSets, SequencesExt

CONSTANTS
  PortNames,    (* names the application gives to ports                      *)
  MaxCreated,   (* bound on the ports there are at once                      *)
  MaxConnected  (* bound on the connections in each direction                *)

VARIABLES
  midiInitialized, midiRunning,
  ports,                          (* Impl::ports                             *)
  createdPorts,                   (* Impl::createdPorts                      *)
  connectedInputs, connectedOutputs,
  deleted                         (* history: names given to deletePort()    *)

midiVars == <<midiInitialized, midiRunning, ports, createdPorts, connectedInputs,
              connectedOutputs, deleted>>

Port(n, i, in, out) == [name |-> n, portId |-> i, isInput |-> in, isOutput |-> out]

(* populatePorts().                                                           *)
BuiltIn ==
  << Port("Virtual Input", 0, TRUE, FALSE), Port("Virtual Output", 1, FALSE, TRUE),
     Port("USB MIDI Interface", 0, TRUE, TRUE) >>

MidiInit ==
  /\ midiInitialized = FALSE /\ midiRunning = FALSE
  /\ ports = <<>> /\ createdPorts = <<>>
  /\ connectedInputs = <<>> /\ connectedOutputs = <<>>
  /\ deleted = {}

-----------------------------------------------------------------------------
(* Faulty variants of definitions below, used by no action.                   *)
PortLeft(n) == ports

(* The ports that remain after deletePort(n): remove_if keeps the others in   *)
(* their order.                                                               *)
PortsWithout(n) ==
  LET kept[i \in 0..Len(ports)] ==
        IF i = 0 THEN <<>>
        ELSE IF ports[i].name = n THEN kept[i - 1] ELSE Append(kept[i - 1], ports[i])
  IN  kept[Len(ports)]

InitializeMidi ==
  /\ ~midiInitialized
  /\ midiInitialized' = TRUE /\ ports' = BuiltIn
  /\ UNCHANGED <<midiRunning, createdPorts, connectedInputs, connectedOutputs, deleted>>

ShutdownMidi ==
  /\ midiInitialized' = FALSE /\ midiRunning' = FALSE
  /\ ports' = <<>> /\ createdPorts' = <<>>
  /\ connectedInputs' = <<>> /\ connectedOutputs' = <<>>
  /\ deleted' = {}

StartStop ==
  /\ midiRunning' \in {midiInitialized, FALSE}
  /\ UNCHANGED <<midiInitialized, ports, createdPorts, connectedInputs, connectedOutputs, deleted>>

CreateInputPort(n) ==
  /\ midiInitialized /\ Len(createdPorts) < MaxCreated
  /\ ports' = Append(ports, Port(n, Len(createdPorts), TRUE, FALSE))
  /\ createdPorts' = Append(createdPorts, n)
  /\ UNCHANGED <<midiInitialized, midiRunning, connectedInputs, connectedOutputs, deleted>>

CreateOutputPort(n) ==
  /\ midiInitialized /\ Len(createdPorts) < MaxCreated
  /\ ports' = Append(ports, Port(n, Len(createdPorts), FALSE, TRUE))
  /\ createdPorts' = Append(createdPorts, n)
  /\ UNCHANGED <<midiInitialized, midiRunning, connectedInputs, connectedOutputs, deleted>>

(* One entry of createdPorts goes, and every port of the name, a built-in one *)
(* included.                                                                  *)
DeletePort(n) ==
  /\ Contains(createdPorts, n)
  /\ createdPorts' = RemoveFirst(createdPorts, n)
  /\ ports' = PortsWithout(n)
  /\ deleted' = deleted \union {n}
  /\ UNCHANGED <<midiInitialized, midiRunning, connectedInputs, connectedOutputs>>

(* Connections are kept by name; the port need not exist.                     *)
ConnectInput(n) ==
  /\ midiInitialized /\ Len(connectedInputs) < MaxConnected
  /\ connectedInputs' = Append(connectedInputs, n)
  /\ UNCHANGED <<midiInitialized, midiRunning, ports, createdPorts, connectedOutputs, deleted>>

ConnectOutput(n) ==
  /\ midiInitialized /\ Len(connectedOutputs) < MaxConnected
  /\ connectedOutputs' = Append(connectedOutputs, n)
  /\ UNCHANGED <<midiInitialized, midiRunning, ports, createdPorts, connectedInputs, deleted>>

DisconnectInput(n) ==
  /\ Contains(connectedInputs, n)
  /\ connectedInputs' = RemoveFirst(connectedInputs, n)
  /\ UNCHANGED <<midiInitialized, midiRunning, ports, createdPorts, connectedOutputs, deleted>>

DisconnectOutput(n) ==
  /\ Contains(connectedOutputs, n)
  /\ connectedOutputs' = RemoveFirst(connectedOutputs, n)
  /\ UNCHANGED <<midiInitialized, midiRunning, ports, createdPorts, connectedInputs, deleted>>

MidiNext ==
  \/ InitializeMidi \/ ShutdownMidi \/ StartStop
  \/ \E n \in PortNames :
       \/ CreateInputPort(n) \/ CreateOutputPort(n) \/ DeletePort(n)
       \/ ConnectInput(n) \/ ConnectOutput(n) \/ DisconnectInput(n) \/ DisconnectOutput(n)

-----------------------------------------------------------------------------
PortsNamed(list, n) == Cardinality({i \in 1..Len(list) : list[i].name = n})
Occurrences(list, n) == Cardinality({i \in 1..Len(list) : list[i] = n})
Expected(n) == Occurrences(createdPorts, n) + PortsNamed(BuiltIn, n)

(* The list and the names of the created ports agree: a name stands for as    *)
(* many ports as were created under it.  Only after a deletePort() of a name  *)
(* may the list have fewer, and never more; and until some port is deleted    *)
(* the created ports have different ids.                                      *)
PortListAgrees ==
  midiInitialized =>
    /\ \A n \in PortNames : PortsNamed(ports, n) <= Expected(n)
    /\ \A n \in PortNames \ deleted : PortsNamed(ports, n) = Expected(n)
    /\ deleted = {} => \A i, j \in 4..Len(ports) : ports[i].portId = ports[j].portId => i = j
=============================================================================
