----------------------------- MODULE Parameters -----------------------------
(***************************************************************************)
(* The parameters of src/src/core/parameters: Float, Int, Enum, Bool and   *)
(* TriggerParameter, with their change callbacks, and resetAll() over a    *)
(* tree of groups.  Setters call the callback before they return, and a    *)
(* callback may call setters again: the calls in progress are a stack.     *)
(* All of this is one thread; another one consumes triggers.  The numbers  *)
(* of a FloatParameter are told apart by their order only.                 *)
(***************************************************************************)
EXTENDS ParameterGroup

CONSTANTS
  Makings,    (* the classes and constructor arguments the parameters may have*)
  Numbers,    (* arguments of the setters                                     *)
  Ranges,     (* arguments of setRange(), as pairs                            *)
  Steps,      (* arguments of setStepSize()                                   *)
  MaxOptions, (* bound: options of an EnumParameter                           *)
  MaxCalls,   (* bound: calls in progress                                     *)
  Nobody      (* no callback is installed                                     *)

Kinds == {"float", "int", "enum", "bool", "trigger"}
Intervals == {r \in Int \X Int : r[1] <= r[2]}
Making ==
  [kind : {"float"}, default : Int, range : Intervals]
  \union [kind : {"int"}, default : Int, range : Intervals, step : Int]
  \union [kind : {"enum"}, default : Nat, options : Nat]
  \union [kind : {"bool", "trigger"}, default : {0, 1}]
ASSUME ParametersAssumption ==
  /\ Makings \subseteq [Params -> Making]
  /\ Numbers \subseteq Int /\ Nobody \notin Int
  /\ Ranges \subseteq Intervals /\ Steps \subseteq Int
  /\ MaxOptions \in Nat /\ MaxCalls \in Nat

VARIABLES
  kind,     (* the class of each parameter                                    *)
  object,   (* its fields: an EnumParameter has as many options as its range  *)
  calls,    (* the calls in progress, the innermost last                      *)
  heard,    (* what each change callback was told last                        *)
  lapsed    (* history: <<parameter, what was lost by a change without a set>>*)

vars == <<groupVars, kind, object, calls, heard, lapsed>>

Fields == [value : Int, lo : Int, hi : Int, default : Int, step : Int, smoothed : Int, smoothing : BOOLEAN]
Frames == [op : {"callback"}] \union [op : {"reset"}, param : Params]
            \union [op : {"resetAll"}, group : Groups, left : Seq(Params), below : Seq(Groups),
                    touched : SUBSET Params]
Losses == {"heard", "grid", "smooth", "options"}

TypeOK ==
  /\ GroupTypeOK
  /\ kind \in [Params -> Kinds] /\ object \in [Params -> Fields]
  /\ calls \in Seq(Frames)
  /\ heard \in [Params -> Int \union {Nobody}] /\ lapsed \subseteq Params \X Losses

-----------------------------------------------------------------------------
Clamp(v, lo, hi) == IF v < lo THEN lo ELSE IF v > hi THEN hi ELSE v
Truncated(d, s) == IF d >= 0 THEN d \div s ELSE -((-d) \div s)
Quantize(v, lo, step) == IF step <= 1 THEN v ELSE lo + Truncated(v - lo, step) * step

(* What a setter makes of its argument.                                       *)
Target(o, v) == Clamp(Quantize(v, o.lo, o.step), o.lo, o.hi)
EmptyEnum(p) == kind[p] = "enum" /\ object[p].hi < object[p].lo

(* Faulty variants of definitions below, used by no action.                   *)
Unclamped(p, v) == Quantize(v, object[p].lo, object[p].step)
AsRequested(p, v) == v
WithoutQuantize(o, s) == o.value

(* The value after setValue(v), and the new value the callback is given.      *)
Accepted(p, v) == IF EmptyEnum(p) THEN object[p].value ELSE Target(object[p], v)
Told(p, v) == Accepted(p, v)

Pairs(p, losses) == {p} \X losses

(* setValue(), called by the innermost call of stack.                         *)
Set(p, v, stack) ==
  LET changes == Accepted(p, v) # object[p].value
      called == changes /\ heard[p] # Nobody
  IN /\ object' = [object EXCEPT ![p].value = Accepted(p, v)]
     /\ heard' = IF called THEN [heard EXCEPT ![p] = Told(p, v)] ELSE heard
     /\ calls' = IF called THEN Append(stack, [op |-> "callback"]) ELSE stack
     /\ lapsed' = lapsed \ ((IF EmptyEnum(p) THEN {} ELSE Pairs(p, {"grid", "options"}))
                             \union (IF called THEN Pairs(p, {"heard"}) ELSE {}))

(* reset(): a float still has its smoothed value to set, a trigger is cleared *)
(* without a callback.                                                        *)
ResetParam(p, stack) ==
  IF kind[p] = "trigger"
  THEN object' = [object EXCEPT ![p].value = 0] /\ calls' = stack /\ UNCHANGED <<heard, lapsed>>
  ELSE Set(p, object[p].default,
           IF kind[p] = "float" THEN Append(stack, [op |-> "reset", param |-> p]) ELSE stack)

-----------------------------------------------------------------------------
(* Constructors.  The bounds are those given for a number, and those of the   *)
(* index or of the flag otherwise.                                            *)
New(m) ==
  LET lo == IF m.kind \in {"float", "int"} THEN m.range[1] ELSE 0
      hi == IF m.kind \in {"float", "int"} THEN m.range[2] ELSE IF m.kind = "enum" THEN m.options - 1 ELSE 1
      o == [value |-> m.default, lo |-> lo, hi |-> hi, default |-> m.default,
            step |-> IF m.kind = "int" THEN m.step ELSE 1, smoothed |-> m.default, smoothing |-> FALSE]
      v == IF hi < lo THEN 0 ELSE Target(o, m.default)
  IN [o EXCEPT !.value = v, !.smoothed = v]

Arguments(k) ==
  CASE k = "enum" -> Numbers \intersect Nat [] k = "bool" -> {0, 1} [] OTHER -> Numbers

Init ==
  /\ GroupInit
  /\ \E m \in Makings :
       /\ kind = [p \in Params |-> m[p].kind] /\ object = [p \in Params |-> New(m[p])]
  /\ calls = <<>> /\ heard = [p \in Params |-> Nobody] /\ lapsed = {}

(* The application calls from the outside or from a callback.  What it sets   *)
(* while a resetAll() is under way is noted there.                            *)
Running == Len(calls) <= MaxCalls /\ (calls # <<>> => Last(calls).op = "callback")
Noted(p) ==
  [i \in DOMAIN calls |->
     IF calls[i].op = "resetAll" THEN [calls[i] EXCEPT !.touched = @ \union {p}] ELSE calls[i]]

(* setSelectedValue() and setNormalizedValue() end here too, with an option   *)
(* and with a number of the range.                                            *)
SetValue(p, v) ==
  /\ Running /\ kind[p] # "trigger"
  /\ Set(p, v, Noted(p)) /\ UNCHANGED <<groupVars, kind>>

(* increment() and decrement(), toggle(), selectNext() and selectPrevious().  *)
Neighbours(p) ==
  LET o == object[p] IN
  CASE kind[p] = "int" -> {o.value + o.step, o.value - o.step}
    [] kind[p] = "bool" -> {1 - o.value}
    [] kind[p] = "enum" /\ ~EmptyEnum(p) ->
         {(o.value + 1) % (o.hi + 1), IF o.value = 0 THEN o.hi ELSE o.value - 1}
    [] OTHER -> {}

StepValue(p) ==
  /\ Running
  /\ \E v \in Neighbours(p) : Set(p, v, Noted(p))
  /\ UNCHANGED <<groupVars, kind>>

(* The value follows without the callback.                                    *)
Silently(p, o, losses) ==
  /\ object' = [object EXCEPT ![p] = o]
  /\ lapsed' = lapsed \union
       Pairs(p, losses \union IF o.value # object[p].value /\ heard[p] # Nobody THEN {"heard"} ELSE {})
  /\ calls' = Noted(p) /\ UNCHANGED <<groupVars, kind, heard>>

SetRange(p, r) ==
  /\ Running /\ kind[p] \in {"float", "int"}
  /\ Silently(p, [object[p] EXCEPT !.lo = r[1], !.hi = r[2], !.value = Clamp(@, r[1], r[2])],
              {"grid", "smooth"})

Requantized(o, s) == Quantize(o.value, o.lo, s)
SetStepSize(p, n) ==
  /\ Running /\ kind[p] = "int"
  /\ LET s == IF n < 1 THEN 1 ELSE n IN
     Silently(p, [object[p] EXCEPT !.step = s, !.value = Requantized(object[p], s)], {})

(* No options leave the selected index as it was, for the options that come.  *)
SetOptions(p, n) ==
  /\ Running /\ kind[p] = "enum"
  /\ Silently(p, [object[p] EXCEPT !.hi = n - 1, !.value = IF n > 0 /\ @ >= n THEN n - 1 ELSE @],
              IF n = 0 THEN {"options"} ELSE {})

AddOption(p) ==
  /\ Running /\ kind[p] = "enum" /\ object[p].hi + 1 < MaxOptions
  /\ Silently(p, [object[p] EXCEPT !.hi = @ + 1], {})

EnableSmoothing(p, on) ==
  /\ Running /\ kind[p] = "float"
  /\ object' = [object EXCEPT ![p].smoothing = on, ![p].smoothed = IF on THEN @ ELSE object[p].value]
  /\ lapsed' = IF on THEN lapsed ELSE lapsed \ Pairs(p, {"smooth"})
  /\ UNCHANGED <<groupVars, kind, calls, heard>>

(* One step of the filter ends between where it was and the value.            *)
Between(o) ==
  (IF o.smoothed < o.value THEN o.smoothed ELSE o.value)..(IF o.smoothed < o.value THEN o.value ELSE o.smoothed)
GetSmoothedValue(p) ==
  /\ Running /\ kind[p] = "float" /\ object[p].smoothing
  /\ \E x \in Between(object[p]) : object' = [object EXCEPT ![p].smoothed = x]
  /\ UNCHANGED <<groupVars, kind, calls, heard, lapsed>>

Trigger(p) ==
  /\ Running /\ kind[p] = "trigger"
  /\ object' = [object EXCEPT ![p].value = 1]
  /\ calls' = IF heard[p] = Nobody THEN Noted(p) ELSE Append(Noted(p), [op |-> "callback"])
  /\ UNCHANGED <<groupVars, kind, heard, lapsed>>

(* Any thread, at any moment.                                                 *)
Consume(p) ==
  /\ kind[p] = "trigger" /\ object[p].value = 1
  /\ object' = [object EXCEPT ![p].value = 0]
  /\ UNCHANGED <<groupVars, kind, calls, heard, lapsed>>

(* Callbacks are replaced while none runs.  Their owner reads the value then. *)
SetChangeCallback(p) ==
  /\ calls = <<>>
  /\ heard' = [heard EXCEPT ![p] = object[p].value] /\ lapsed' = lapsed \ Pairs(p, {"heard"})
  /\ UNCHANGED <<groupVars, kind, object, calls>>

RemoveChangeCallback(p) ==
  /\ calls = <<>>
  /\ heard' = [heard EXCEPT ![p] = Nobody] /\ lapsed' = lapsed \ Pairs(p, {"heard"})
  /\ UNCHANGED <<groupVars, kind, object, calls>>

Reset(p) == Running /\ ResetParam(p, Noted(p)) /\ UNCHANGED <<groupVars, kind>>

Resetting(g) ==
  [op |-> "resetAll", group |-> g, left |-> parameters[g], below |-> Below(g), touched |-> {}]

ResetAll(g) ==
  /\ Running
  /\ calls' = Append(calls, Resetting(g))
  /\ UNCHANGED <<groupVars, kind, object, heard, lapsed>>

-----------------------------------------------------------------------------
(* What the calls in progress do next.                                        *)
ReturnFromCallback ==
  /\ calls # <<>> /\ Last(calls).op = "callback"
  /\ calls' = Front(calls) /\ UNCHANGED <<groupVars, kind, object, heard, lapsed>>

FinishReset ==
  /\ calls # <<>> /\ Last(calls).op = "reset"
  /\ LET p == Last(calls).param IN
     /\ object' = [object EXCEPT ![p].smoothed = object[p].value]
     /\ lapsed' = lapsed \ Pairs(p, {"smooth"})
  /\ calls' = Front(calls) /\ UNCHANGED <<groupVars, kind, heard>>

ResetNext ==
  /\ calls # <<>> /\ Last(calls).op = "resetAll" /\ Last(calls).left # <<>>
  /\ ResetParam(Head(Last(calls).left),
                Append(Front(calls), [Last(calls) EXCEPT !.left = Tail(@)]))
  /\ UNCHANGED <<groupVars, kind>>

Descend ==
  /\ calls # <<>> /\ Last(calls).op = "resetAll"
  /\ Last(calls).left = <<>> /\ Last(calls).below # <<>>
  /\ calls' = Append(Append(Front(calls), [Last(calls) EXCEPT !.below = Tail(@)]),
                     Resetting(Head(Last(calls).below)))
  /\ UNCHANGED <<groupVars, kind, object, heard, lapsed>>

Finished(f) == f.op = "resetAll" /\ f.left = <<>> /\ f.below = <<>>
ReturnFromResetAll ==
  /\ calls # <<>> /\ Finished(Last(calls))
  /\ calls' = Front(calls) /\ UNCHANGED <<groupVars, kind, object, heard, lapsed>>

(* Groups are changed while no call is in progress: a callback that did it    *)
(* would change the vector that resetAll() is going through.                  *)
ChangeGroups == calls = <<>> /\ GroupNext /\ UNCHANGED <<kind, object, calls, heard, lapsed>>

Continue == ReturnFromCallback \/ FinishReset \/ ResetNext \/ Descend \/ ReturnFromResetAll

Call(p) ==
  \/ \E v \in Arguments(kind[p]) : SetValue(p, v)
  \/ StepValue(p) \/ AddOption(p) \/ GetSmoothedValue(p) \/ Trigger(p) \/ Consume(p)
  \/ \E r \in Ranges : SetRange(p, r)
  \/ \E n \in Steps : SetStepSize(p, n)
  \/ \E n \in 0..MaxOptions : SetOptions(p, n)
  \/ \E on \in BOOLEAN : EnableSmoothing(p, on)
  \/ SetChangeCallback(p) \/ RemoveChangeCallback(p) \/ Reset(p)

Next == Continue \/ ChangeGroups \/ (\E p \in Params : Call(p)) \/ (\E g \in Groups : ResetAll(g))

Spec == Init /\ [][Next]_vars

-----------------------------------------------------------------------------
(* A value, smoothed or not, is inside its range at every moment, also inside *)
(* callbacks and after the step or the options have changed.  Exceptions are  *)
(* the index of an enum whose options were all removed, and the smoothed      *)
(* value from a setRange() to the next reset() or end of smoothing.           *)
Inside(x, o) == x \in o.lo..o.hi
InRange == \A p \in Params :
  /\ <<p, "options">> \in lapsed \/ EmptyEnum(p) \/ Inside(object[p].value, object[p])
  /\ (kind[p] = "float" /\ <<p, "smooth">> \notin lapsed) => Inside(object[p].smoothed, object[p])

(* An IntParameter is on the grid of its step or at the upper end, except     *)
(* from a setRange() to the next change.                                      *)
OnGrid == \A p \in Params :
  kind[p] = "int" =>
    \/ object[p].step <= 1 \/ (object[p].value - object[p].lo) % object[p].step = 0
    \/ object[p].value = object[p].hi \/ <<p, "grid">> \in lapsed

(* However setters, ranges, steps, options, resets and callbacks follow each  *)
(* other, a parameter holds a value that its own setter could have given it:  *)
(* of its type, in its range and on its grid.                                 *)
ValuesLegal == TypeOK /\ InRange /\ OnGrid

(* What a change callback was told last is the value, also when it or another *)
(* callback has set the parameter again; changes of the range, the step and   *)
(* the options alone are not told.                                            *)
HeardIsCurrent == \A p \in Params :
  (kind[p] # "trigger" /\ heard[p] # Nobody /\ <<p, "heard">> \notin lapsed) => heard[p] = object[p].value

(* A parameter as reset() leaves it, and the parameters of a set of groups.   *)
AtDefault(p) ==
  kind[p] # "trigger" => EmptyEnum(p) \/ object[p].value = Target(object[p], object[p].default)
ParametersOf(S) == UNION {Range(parameters[g]) : g \in S}

(* When resetAll() returns, every parameter of the tree of groups that no     *)
(* callback has changed meanwhile is at its default.                          *)
ResetReaches ==
  calls # <<>> /\ Finished(Last(calls)) =>
    \A p \in ParametersOf(Tree(Last(calls).group)) \ Last(calls).touched : AtDefault(p)

=============================================================================
