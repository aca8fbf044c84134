---------------------------- MODULE MCParameters ----------------------------
(* Two instances in one run.  Trees: groups are built, renamed and taken      *)
(* apart while the parameters are triggers nobody uses.  Values: p1 is of any *)
(* kind beside p2 and p3, which are simple, and the groups, once built, stay. *)
EXTENDS Parameters

CONSTANTS p1, p2, p3, g1, g2, g3, name1, name2

MCNameOf == (p1 :> name1) @@ (p2 :> name2) @@ (p3 :> name1)
Simple(k) == [kind |-> k, default |-> 0]
Trees == (p1 :> Simple("trigger")) @@ (p2 :> Simple("trigger")) @@ (p3 :> Simple("trigger"))
Makes ==
  [kind : {"float"}, default : {0, 3}, range : {<<0, 2>>}]
  \union [kind : {"int"}, default : {0, 3}, range : {<<0, 3>>}, step : {1, 2}]
  \union [kind : {"enum"}, default : {2}, options : {0, 2}]
MCMakings ==
  {Trees} \union {(p1 :> m) @@ (p2 :> Simple(k)) @@ (p3 :> Simple("trigger")) : m \in Makes, k \in {"bool", "trigger"}}

MCNumbers == -1..3
MCRanges == {<<0, 2>>, <<1, 3>>}

(* Bounds: g1 is the root, p3 is in no other group, and each of the two       *)
(* instances has the operations it is for.                                    *)
OnlyTrees == \A x \in Params : kind[x] = "trigger"
Rooted ==
  /\ name'[g1] = name1 /\ \A x \in {g2, g3} : g1 \notin Range(groups'[x]) /\ p3 \notin Range(parameters'[x])
Building ==
  \/ AddParameter(g1, p1)
  \/ parameters[g1] = <<p1>> /\ AddParameter(g2, p2)
  \/ parameters[g2] = <<p2>> /\ AddGroup(g1, g2)
Built == groups[g1] # <<>>

MCInit == Init /\ name[g1] = name1
          /\ (~OnlyTrees => (name[g2] = name2 /\ name[g3] = name2))
MCNext ==
  \/ OnlyTrees /\ (Continue \/ ResetAll(g1) \/ (ChangeGroups /\ Rooted))
  \/ ~OnlyTrees /\ ~Built /\ Building /\ UNCHANGED <<kind, object, calls, heard, lapsed>>
  \/ ~OnlyTrees /\ Built /\ (Continue \/ ResetAll(g1) \/ \E x \in {p1, p2} : Call(x))
MCSpec == MCInit /\ [][MCNext]_vars
=============================================================================
