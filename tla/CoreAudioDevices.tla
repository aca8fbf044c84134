--------------------------- MODULE CoreAudioDevices ---------------------------
(***************************************************************************)
(* CoreAudioDeviceList and what CoreAudioDriver does with it               *)
(* (src/src/drivers/coreaudio).  getDeviceById() finds a device under the  *)
(* list's mutex and returns a pointer into the list; selectDevice() and    *)
(* deviceSupportsFormat() read through it with the mutex released, while   *)
(* another thread may enumerate, which empties and refills the list.       *)
(*                                                                         *)
(* A pointer is a place in the vector: once the constructor has filled it, *)
(* the vector never grows again and keeps its storage.  Left out: formats, *)
(* volume, hog mode; the audio thread is in AudioThreadDriver.             *)
(***************************************************************************)
EXTENDS Naturals, Sequences, SequencesExt

VARIABLES
  devices,          (* CoreAudioDeviceList::Impl::devices                     *)
  listMutex,        (* "free", "lister" or "selector"                         *)
  lister,           (* a thread in enumerateDevices()                         *)
  selector,         (* a thread in selectDevice() or deviceSupportsFormat()   *)
  wanted, found,    (* the id it looks for, and the place it was given        *)
  currentDeviceId, inputChannels, outputChannels,  (* CoreAudioDriver::Impl   *)
  hasAggregate,
  crossed           (* history: it read the list while that was refilled      *)

current == <<currentDeviceId, inputChannels, outputChannels>>
listVars == <<devices, listMutex, lister, selector, wanted, found, current, hasAggregate, crossed>>

(* The simulated devices in the order of populateDefaultDevices().            *)
Catalogue ==
  << [id |-> "BuiltInSpeaker", in |-> 0, out |-> 2],
     [id |-> "BuiltInMicrophone", in |-> 2, out |-> 0],
     [id |-> "ExternalAudioInterface", in |-> 8, out |-> 8] >>
Ids == {Catalogue[i].id : i \in 1..3}

ListInit ==
  /\ devices = Catalogue /\ listMutex = "free"
  /\ lister = "idle" /\ selector = "idle"
  /\ wanted = "" /\ found = 0
  /\ currentDeviceId = "" /\ inputChannels = 2 /\ outputChannels = 2
  /\ hasAggregate = FALSE /\ crossed = FALSE

-----------------------------------------------------------------------------
(* Faulty variants of definitions below, used by no action.                   *)
NewestFirst(n) == Catalogue[3 - n]

(* The device pushed when n are in the list.                                  *)
NextDevice(n) == Catalogue[n + 1]

(* refresh(): the list is emptied and refilled under the mutex.               *)
RefreshBegin ==
  /\ lister = "idle" /\ listMutex = "free"
  /\ lister' = "filling" /\ listMutex' = "lister"
  /\ devices' = <<>>
  /\ UNCHANGED <<selector, wanted, found, current, hasAggregate, crossed>>

PushDevice ==
  /\ lister = "filling" /\ Len(devices) < 3
  /\ devices' = Append(devices, NextDevice(Len(devices)))
  /\ UNCHANGED <<listMutex, lister, selector, wanted, found, current, hasAggregate, crossed>>

RefreshEnd ==
  /\ lister = "filling" /\ Len(devices) = 3
  /\ lister' = "idle" /\ listMutex' = "free"
  /\ UNCHANGED <<devices, selector, wanted, found, current, hasAggregate, crossed>>

(* getDeviceById(), for selectDevice() or for deviceSupportsFormat(); an id   *)
(* that is not listed gives the null pointer and the call ends.               *)
GetDeviceById(id) ==
  /\ selector = "idle" /\ listMutex = "free"
  /\ selector' \in {"selecting", "comparing"}
  /\ wanted' = id
  /\ found' = SelectInSeq(devices, LAMBDA d : d.id = id)
  /\ crossed' = (crossed /\ selector' = "comparing")
  /\ UNCHANGED <<devices, listMutex, lister, current, hasAggregate>>

Live == found <= Len(devices)

(* What the next read through the pointer can yield: a device that was        *)
(* destroyed yields anything.                                                 *)
Channels(dir) == IF Live THEN {devices[found][dir]} ELSE {0, 2, 8}

(* The two reads of selectDevice(); allocateBuffers() follows the second.     *)
ReadInput ==
  /\ selector = "selecting" /\ selector' = "selecting2"
  /\ currentDeviceId' = wanted
  /\ inputChannels' \in Channels("in")
  /\ crossed' = (crossed \/ ~Live)
  /\ UNCHANGED <<devices, listMutex, lister, wanted, found, outputChannels, hasAggregate>>

ReadOutput ==
  /\ selector = "selecting2" /\ selector' = "idle"
  /\ outputChannels' \in Channels("out")
  /\ crossed' = (crossed \/ ~Live)
  /\ UNCHANGED <<devices, listMutex, lister, wanted, found, currentDeviceId, inputChannels,
                 hasAggregate>>

(* deviceSupportsFormat() compares and keeps nothing.                         *)
Compare ==
  /\ selector = "comparing" /\ selector' = "idle"
  /\ UNCHANGED <<devices, listMutex, lister, wanted, found, current, hasAggregate, crossed>>

(* Creating an aggregate replaces the one there is; shutdown() destroys it.   *)
Aggregate ==
  /\ selector = "idle"
  /\ hasAggregate' = ~hasAggregate
  /\ UNCHANGED <<devices, listMutex, lister, selector, wanted, found, current, crossed>>

ListNext ==
  \/ RefreshBegin \/ PushDevice \/ RefreshEnd
  \/ \E id \in Ids : GetDeviceById(id)
  \/ ReadInput \/ ReadOutput \/ Compare \/ Aggregate

-----------------------------------------------------------------------------
(* The pointer is only dead while the other thread refills the list, and once *)
(* the list is full again it is the device that was asked for; so the         *)
(* selected device has its own channels unless the selection crossed a        *)
(* refill.                                                                    *)
SelectedDeviceAgrees ==
  /\ selector # "idle" => IF Live THEN devices[found].id = wanted ELSE lister = "filling"
  /\ selector = "idle" /\ currentDeviceId # "" /\ ~crossed =>
       \E i \in 1..3 : Catalogue[i] = [id |-> currentDeviceId, in |-> inputChannels, out |-> outputChannels]
=============================================================================
