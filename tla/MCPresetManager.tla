-------------------------- MODULE MCPresetManager --------------------------
(* Two presets, a directory beside none, both serializers beside none: a name *)
(* has six paths.  Two files are enough for one that the index does not know. *)
EXTENDS PresetManager, TLC
CONSTANTS n1, n2, v1, v2, json, napb
Symmetry ==
  Permutations({n1, n2}) \union Permutations({v1, v2}) \union Permutations({json, napb})
=============================================================================
