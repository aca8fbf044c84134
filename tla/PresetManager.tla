--------------------------- MODULE PresetManager ---------------------------
(***************************************************************************)
(* nap::PresetManager (src/src/core/serialization/PresetManager.cpp) over  *)
(* a file system whose operations may fail and which other programs use,   *)
(* with the file operations of JsonSerializer and BinarySerializer.  A     *)
(* path is a directory, a name and an extension.  Callbacks run at the end *)
(* of a call, so that what they call follows it.  A serializer reads any   *)
(* file that begins, and for JSON ends, as one of its own: a part of what  *)
(* it has written may do.                                                  *)
(***************************************************************************)
EXTENDS Integers, FiniteSets, Functions

CONSTANTS
  Dirs,         (* directories, the empty path among them                     *)
  Unset,        (* the empty path: files would be put below "/"               *)
  PresetNames,  (* names of presets                                           *)
  NoPreset,     (* the empty name                                             *)
  Formats,      (* serializers: each has an extension of its own              *)
  NoSerializer, (* none is bound: the extension is then ".preset"             *)
  Variants,     (* settings of a serializer that show in what it writes       *)
  Cut,          (* a part of a file that still reads: the binary header, or   *)
                (* JSON text up to an inner brace                             *)
  Missing,      (* there is no such file                                      *)
  Broken,       (* a file no serializer reads: half written, or another's     *)
  MaxFiles,     (* bound: the disk is full then                               *)
  MaxMeddling   (* bound: how often other programs change a file              *)

Path == [dir : Dirs, name : PresetNames, ext : Formats \union {NoSerializer}]
Whole == [format : Formats, variant : Variants]
Readable(s) == [format : {s}, variant : Variants \union {Cut}]
Contents == [format : Formats, variant : Variants \union {Cut}] \union {Broken}

(* What writing c may have left when it breaks off, all of c included.        *)
Parts(c) ==
  {c, Broken} \union [format : IF c = Broken THEN Formats ELSE {c.format}, variant : {Cut}]

ASSUME PresetAssumption ==
  /\ Unset \in Dirs /\ NoPreset \notin PresetNames /\ NoSerializer \notin Formats
  /\ Missing \notin Contents /\ Cut \notin Variants
  /\ Broken \notin [format : Formats, variant : Variants \union {Cut}]
  /\ MaxFiles \in Nat /\ MaxMeddling \in Nat

VARIABLES
  file,             (* the disk                                               *)
  presetDirectory,  (* Impl::presetDirectory                                  *)
  presets,          (* Impl::presets: the path kept for each name             *)
  currentPreset,    (* Impl::currentPresetName                                *)
  modified,         (* Impl::modified                                         *)
  serializer,       (* Impl::serializer                                       *)
  meddling,         (* how often other programs changed a file                *)
  rescanned         (* history: a scan left the current preset unlisted       *)

presetVars ==
  <<file, presetDirectory, presets, currentPreset, modified, serializer, meddling, rescanned>>
settings == <<presetDirectory, serializer>>

PresetTypeOK ==
  /\ file \in [Path -> Contents \union {Missing}]
  /\ presetDirectory \in Dirs /\ serializer \in Formats \union {NoSerializer}
  /\ DOMAIN presets \subseteq PresetNames /\ Range(presets) \subseteq Path
  /\ currentPreset \in PresetNames \union {NoPreset} /\ modified \in BOOLEAN
  /\ meddling \in 0..MaxMeddling /\ rescanned \in BOOLEAN

-----------------------------------------------------------------------------
BuildPresetPath(n) == [dir |-> presetDirectory, name |-> n, ext |-> serializer]
Exists(f) == file[f] # Missing
Room(f) == Exists(f) \/ Cardinality({g \in Path : Exists(g)}) < MaxFiles
Indexed(n, f) == [m \in DOMAIN presets \union {n} |-> IF m = n THEN f ELSE presets[m]]
Unindexed(n) == [m \in DOMAIN presets \ {n} |-> presets[m]]

(* Faulty variants of definitions below, used by no action.                   *)
KeepsPath(n, m) == [k \in (DOMAIN presets \ {n}) \union {m} |-> IF k = m THEN presets[n] ELSE presets[k]]

(* The index and the current name after a preset was renamed.                 *)
Moved(n, m) ==
  [k \in (DOMAIN presets \ {n}) \union {m} |-> IF k = m THEN BuildPresetPath(m) ELSE presets[k]]
CurrentAfter(n, m) == IF currentPreset = n THEN m ELSE currentPreset

(* Files of earlier sessions come by Meddle.                                  *)
PresetInit ==
  /\ file = [f \in Path |-> Missing]
  /\ presetDirectory = Unset /\ serializer = NoSerializer
  /\ presets = [n \in {} |-> Missing] /\ currentPreset = NoPreset /\ modified = FALSE
  /\ meddling = 0 /\ rescanned = FALSE

SetPresetDirectory(d) ==
  /\ presetDirectory' = d
  /\ UNCHANGED <<file, presets, currentPreset, modified, serializer, meddling, rescanned>>

SetSerializer(s) ==
  /\ serializer' = s
  /\ UNCHANGED <<file, presetDirectory, presets, currentPreset, modified, meddling, rescanned>>

(* Files are listed under their stem: of two that differ in the extension     *)
(* only, the directory's order decides.  A failure leaves what was listed     *)
(* until then; without a directory nothing is.                                *)
Scannable == {f \in Path : Exists(f) /\ f.dir = presetDirectory /\ presetDirectory # Unset}
ScanPresets ==
  /\ \E S \in SUBSET {f.name : f \in Scannable} :
       presets' \in {found \in [S -> Scannable] : \A n \in S : found[n].name = n}
  /\ rescanned' = (currentPreset \notin DOMAIN presets' \union {NoPreset})
  /\ UNCHANGED <<file, settings, currentPreset, modified, meddling>>

CanSave == serializer # NoSerializer /\ presetDirectory # Unset

SavePreset(n) ==
  /\ CanSave /\ Room(BuildPresetPath(n))
  /\ \E v \in Variants :
       file' = [file EXCEPT ![BuildPresetPath(n)] = [format |-> serializer, variant |-> v]]
  /\ presets' = Indexed(n, BuildPresetPath(n))
  /\ currentPreset' = n /\ modified' = FALSE /\ rescanned' = FALSE
  /\ UNCHANGED <<settings, meddling>>

(* The file was opened, what was in it is gone, and a write or close() fails. *)
SaveBreaksOff(n) ==
  /\ CanSave /\ Room(BuildPresetPath(n))
  /\ \E v \in Variants : \E c \in Parts([format |-> serializer, variant |-> v]) :
       file' = [file EXCEPT ![BuildPresetPath(n)] = c]
  /\ UNCHANGED <<settings, presets, currentPreset, modified, meddling, rescanned>>

(* A serializer reads what one of its kind has written, or a part of it.      *)
LoadPreset(n) ==
  /\ serializer # NoSerializer /\ n \in DOMAIN presets
  /\ file[presets[n]] \in Readable(serializer)
  /\ currentPreset' = n /\ modified' = FALSE /\ rescanned' = FALSE
  /\ UNCHANGED <<file, settings, presets, meddling>>

(* remove() does not mind that the file is gone already.                      *)
DeletePreset(n) ==
  /\ n \in DOMAIN presets
  /\ file' = [file EXCEPT ![presets[n]] = Missing]
  /\ presets' = Unindexed(n) /\ currentPreset' = CurrentAfter(n, NoPreset)
  /\ rescanned' = (rescanned /\ currentPreset # n)
  /\ UNCHANGED <<settings, modified, meddling>>

(* rename() replaces a file the index does not know; with the directory and   *)
(* the serializer of now, not those the preset was saved with.                *)
RenamePreset(n, m) ==
  /\ n \in DOMAIN presets /\ m \notin DOMAIN presets /\ Exists(presets[n])
  /\ file' = [file EXCEPT ![BuildPresetPath(m)] = file[presets[n]], ![presets[n]] = Missing]
  /\ presets' = Moved(n, m) /\ currentPreset' = CurrentAfter(n, m)
  /\ UNCHANGED <<settings, modified, meddling, rescanned>>

(* copy_file() does not replace one ...                                       *)
CanCopy(n, m) ==
  /\ n \in DOMAIN presets /\ m \notin DOMAIN presets /\ Exists(presets[n])
  /\ ~Exists(BuildPresetPath(m)) /\ Room(BuildPresetPath(m))

DuplicatePreset(n, m) ==
  /\ CanCopy(n, m)
  /\ file' = [file EXCEPT ![BuildPresetPath(m)] = file[presets[n]]]
  /\ presets' = Indexed(m, BuildPresetPath(m))
  /\ UNCHANGED <<settings, currentPreset, modified, meddling, rescanned>>

(* ... and leaves what it has copied when it breaks off.                      *)
CopyBreaksOff(n, m) ==
  /\ CanCopy(n, m)
  /\ \E c \in Parts(file[presets[n]]) : file' = [file EXCEPT ![BuildPresetPath(m)] = c]
  /\ UNCHANGED <<settings, presets, currentPreset, modified, meddling, rescanned>>

MarkAsModified(flag) ==
  /\ modified' = flag
  /\ UNCHANGED <<file, settings, presets, currentPreset, meddling, rescanned>>

(* Another program writes or removes a file.                                  *)
Meddle(f, c) ==
  /\ meddling < MaxMeddling /\ meddling' = meddling + 1
  /\ c # Missing => Room(f)
  /\ file' = [file EXCEPT ![f] = c]
  /\ UNCHANGED <<settings, presets, currentPreset, modified, rescanned>>

PresetNext ==
  \/ \E d \in Dirs : SetPresetDirectory(d)
  \/ \E s \in Formats \union {NoSerializer} : SetSerializer(s)
  \/ ScanPresets
  \/ \E n \in PresetNames :
       \/ SavePreset(n) \/ SaveBreaksOff(n) \/ LoadPreset(n) \/ DeletePreset(n)
       \/ \E m \in PresetNames : RenamePreset(n, m) \/ DuplicatePreset(n, m) \/ CopyBreaksOff(n, m)
  \/ \E flag \in BOOLEAN : MarkAsModified(flag)
  \/ \E f \in Path, c \in Contents \union {Missing} : Meddle(f, c)

PresetSpec == PresetInit /\ [][PresetNext]_presetVars

-----------------------------------------------------------------------------
(* The file of every preset is the preset's own: names, not the index, tell   *)
(* files apart, over changes of the directory and of the serializer, and no   *)
(* call on one preset reaches the file of another.                            *)
OwnFile == \A n \in DOMAIN presets : presets[n].name = n

(* The current preset is in the index, whatever is deleted and renamed, until *)
(* a scan no longer finds it.                                                 *)
CurrentListed == currentPreset \in DOMAIN presets \union {NoPreset} \/ rescanned

(* The index with the files behind it is a store of presets: what a preset    *)
(* loads changes by calls on that preset only, survives renaming, and a call  *)
(* that fails leaves names, current preset and flag as they were.  A save     *)
(* that breaks off may leave a part that loads.                               *)
Store == INSTANCE PresetStore WITH
  store <- [n \in DOMAIN presets |-> file[presets[n]]], current <- currentPreset
IsPresetStore == Store!StoreSpec
=============================================================================
