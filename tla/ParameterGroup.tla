--------------------------- MODULE ParameterGroup ---------------------------
(***************************************************************************)
(* nap::ParameterGroup (src/src/core/parameters/ParameterGroup.cpp): a     *)
(* tree of groups, each with a vector of parameters and one of groups, and *)
(* an index by name beside each vector.  Parameters are shared: one may be *)
(* in several groups.  Positions are counted from one.                     *)
(***************************************************************************)
EXTENDS Integers, FiniteSets, Sequences, SequencesExt

CONSTANTS
  Params,   (* parameters                                                     *)
  NameOf,   (* the name a parameter was constructed with                      *)
  Groups,   (* ParameterGroup objects: in a tree, or in the caller's hands    *)
  Names     (* names of parameters and groups                                 *)

ASSUME GroupAssumption == IsFiniteSet(Groups) /\ NameOf \in [Params -> Names]

VARIABLES
  name,            (* Impl::name                                              *)
  parameters,      (* Impl::parameters                                        *)
  parameterIndex,  (* Impl::parameterIndex                                    *)
  groups,          (* Impl::groups                                            *)
  groupIndex       (* Impl::groupIndex                                        *)

groupVars == <<name, parameters, parameterIndex, groups, groupIndex>>

IndexOf(s) == UNION {[D -> 1..Len(s)] : D \in SUBSET Names}

GroupTypeOK ==
  /\ name \in [Groups -> Names]
  /\ parameters \in [Groups -> Seq(Params)] /\ groups \in [Groups -> Seq(Groups)]
  /\ DOMAIN parameterIndex = Groups /\ DOMAIN groupIndex = Groups
  /\ \A g \in Groups :
       parameterIndex[g] \in IndexOf(parameters[g]) /\ groupIndex[g] \in IndexOf(groups[g])

GroupInit ==
  /\ name \in [Groups -> Names]
  /\ parameters = [g \in Groups |-> <<>>] /\ parameterIndex = [g \in Groups |-> <<>>]
  /\ groups = [g \in Groups |-> <<>>] /\ groupIndex = [g \in Groups |-> <<>>]

-----------------------------------------------------------------------------
(* The groups a set of groups owns, and all levels down: what is in every set *)
(* that holds g and whatever a group of the set owns.                         *)
Owned(S) == UNION {Range(groups[g]) : g \in S}
Tree(g) == {h \in Groups : \A S \in SUBSET Groups : g \in S /\ Owned(S) \subseteq S => h \in S}
Free(h) == h \notin Owned(Groups)

(* Faulty variants of definitions below, used by no action.                   *)
WithoutShift(index, n) == [m \in DOMAIN index \ {n} |-> index[m]]
OwnOnly(g) == <<>>

(* Both indices, after an entry was added and after one was erased.           *)
With(index, n, i) == [m \in DOMAIN index \union {n} |-> IF m = n THEN i ELSE index[m]]
Without(index, n) ==
  [m \in DOMAIN index \ {n} |-> IF index[m] > index[n] THEN index[m] - 1 ELSE index[m]]

AddParameter(g, p) ==
  /\ NameOf[p] \notin DOMAIN parameterIndex[g]
  /\ parameterIndex' = [parameterIndex EXCEPT ![g] = With(@, NameOf[p], Len(parameters[g]) + 1)]
  /\ parameters' = [parameters EXCEPT ![g] = Append(@, p)]
  /\ UNCHANGED <<name, groups, groupIndex>>

RemoveParameter(g, n) ==
  /\ n \in DOMAIN parameterIndex[g]
  /\ parameters' = [parameters EXCEPT ![g] = RemoveAt(@, parameterIndex[g][n])]
  /\ parameterIndex' = [parameterIndex EXCEPT ![g] = Without(@, n)]
  /\ UNCHANGED <<name, groups, groupIndex>>

(* A unique_ptr has one owner, and a group does not come to own itself.       *)
AddGroup(g, h) ==
  /\ Free(h) /\ g \notin Tree(h)
  /\ name[h] \notin DOMAIN groupIndex[g]
  /\ groupIndex' = [groupIndex EXCEPT ![g] = With(@, name[h], Len(groups[g]) + 1)]
  /\ groups' = [groups EXCEPT ![g] = Append(@, h)]
  /\ UNCHANGED <<name, parameters, parameterIndex>>

(* Erasing a group destroys its tree: the objects can be constructed again.   *)
Destroyed(f, gone) == [h \in Groups |-> IF h \in gone THEN <<>> ELSE f[h]]

RemoveGroup(g, n) ==
  /\ n \in DOMAIN groupIndex[g]
  /\ LET i == groupIndex[g][n]
         gone == Tree(groups[g][i])
     IN /\ groups' = Destroyed([groups EXCEPT ![g] = RemoveAt(@, i)], gone)
        /\ groupIndex' = Destroyed([groupIndex EXCEPT ![g] = Without(@, n)], gone)
        /\ parameters' = Destroyed(parameters, gone)
        /\ parameterIndex' = Destroyed(parameterIndex, gone)
  /\ UNCHANGED name

(* clear() of a group in the caller's hands keeps the object, not the tree.   *)
Clear(g) ==
  /\ parameters' = Destroyed(parameters, Tree(g))
  /\ parameterIndex' = Destroyed(parameterIndex, Tree(g))
  /\ groups' = Destroyed(groups, Tree(g)) /\ groupIndex' = Destroyed(groupIndex, Tree(g))
  /\ UNCHANGED name

(* Renaming a group leaves the index of the group that owns it as it is.      *)
SetName(g, n) ==
  /\ name' = [name EXCEPT ![g] = n]
  /\ UNCHANGED <<parameters, parameterIndex, groups, groupIndex>>

GroupNext ==
  \E g \in Groups :
    \/ \E p \in Params : AddParameter(g, p)
    \/ \E n \in Names : RemoveParameter(g, n) \/ RemoveGroup(g, n) \/ SetName(g, n)
    \/ \E h \in Groups : AddGroup(g, h)
    \/ Clear(g)

(* The groups resetAll() calls after the parameters of g.                     *)
Below(g) == groups[g]

-----------------------------------------------------------------------------
(* The indices agree with the vectors after any sequence of additions,        *)
(* removals and renamings: getParameter() finds every parameter of a group    *)
(* under its own name and no other, getGroup() reaches every group of a group *)
(* under exactly one name, and a group has one owner at most.                 *)
LookupsExact ==
  \A g \in Groups :
    /\ {<<n, parameterIndex[g][n]>> : n \in DOMAIN parameterIndex[g]}
         = {<<NameOf[parameters[g][i]], i>> : i \in DOMAIN parameters[g]}
    /\ IsInjective(groupIndex[g]) /\ Range(groupIndex[g]) = DOMAIN groups[g]
    /\ IsInjective(groups[g]) /\ g \notin Owned(Tree(g))
    /\ \A h \in Groups \ {g} : Range(groups[g]) \intersect Range(groups[h]) = {}
=============================================================================
