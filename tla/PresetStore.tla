---------------------------- MODULE PresetStore ----------------------------
(***************************************************************************)
(* What nap::PresetManager promises: named presets, each with a content of *)
(* its own.  A call that fails changes nothing, except that a save that    *)
(* breaks off may leave anything in the preset it was for: what does not   *)
(* load, all of it, or a part that loads.                                  *)
(***************************************************************************)
EXTENDS FiniteSets, Integers

CONSTANTS
  PresetNames, (* names of presets                                            *)
  Contents,  (* what a file may hold                                          *)
  Whole,     (* what a save writes, of Contents                               *)
  Broken,    (* what does not load, one of Contents                           *)
  Missing,   (* the file of a preset is gone                                  *)
  NoPreset   (* the empty name                                                *)

VARIABLES
  store,     (* the presets by name, and what each would load                 *)
  current,   (* the preset loaded or saved last                               *)
  modified,  (* the unsaved-changes flag                                      *)
  meddling   (* how often other programs have changed files                   *)

storeVars == <<store, current, modified, meddling>>

Listed == DOMAIN store
Put(n, c) == [m \in Listed \union {n} |-> IF m = n THEN c ELSE store[m]]
Drop(n) == [m \in Listed \ {n} |-> store[m]]

StoreInit ==
  /\ store = [n \in {} |-> Missing]
  /\ current = NoPreset /\ modified = FALSE /\ meddling = 0

Saved(n, c) ==
  /\ store' = Put(n, c) /\ current' = n /\ modified' = FALSE /\ UNCHANGED meddling

BrokeOff(n, c) ==
  /\ n \in Listed /\ store' = Put(n, c) /\ UNCHANGED <<current, modified, meddling>>

Loaded(n) ==
  /\ n \in Listed /\ store[n] \notin {Missing, Broken}
  /\ current' = n /\ modified' = FALSE /\ UNCHANGED <<store, meddling>>

Deleted(n) ==
  /\ n \in Listed /\ store' = Drop(n)
  /\ current' = IF current = n THEN NoPreset ELSE current
  /\ UNCHANGED <<modified, meddling>>

Renamed(n, m) ==
  /\ n \in Listed /\ m \notin Listed
  /\ store' = [k \in (Listed \ {n}) \union {m} |-> IF k = m THEN store[n] ELSE store[k]]
  /\ current' = IF current = n THEN m ELSE current
  /\ UNCHANGED <<modified, meddling>>

Duplicated(n, m) ==
  /\ n \in Listed /\ m \notin Listed /\ store' = Put(m, store[n])
  /\ UNCHANGED <<current, modified, meddling>>

Marked(flag) == modified' = flag /\ UNCHANGED <<store, current, meddling>>

(* A scan lists what it finds.                                                *)
Rescanned ==
  /\ \E S \in SUBSET PresetNames : store' \in [S -> Contents]
  /\ UNCHANGED <<current, modified, meddling>>

Meddled ==
  /\ meddling' = meddling + 1
  /\ store' \in [Listed -> Contents \union {Missing}] /\ UNCHANGED <<current, modified>>

StoreNext ==
  \/ \E n \in PresetNames :
       \/ \E c \in Whole : Saved(n, c)
       \/ \E c \in Contents : BrokeOff(n, c)
       \/ Loaded(n) \/ Deleted(n)
       \/ \E m \in PresetNames : Renamed(n, m) \/ Duplicated(n, m)
  \/ \E flag \in BOOLEAN : Marked(flag)
  \/ Rescanned \/ Meddled

StoreSpec == StoreInit /\ [][StoreNext]_storeVars
=============================================================================
