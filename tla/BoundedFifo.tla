---------------------------- MODULE BoundedFifo ----------------------------
(***************************************************************************)
(* What a stream buffer between one producer and one consumer promises: a  *)
(* first-in first-out queue of at most Bound values.  The producer gathers *)
(* the values of a call in offered and appends them in one step; the       *)
(* consumer takes, looks at or skips a prefix in one step.  Values leave   *)
(* the queue only by a call that says so.  delivered is what the last      *)
(* taking or looking call gave the consumer.                               *)
(*                                                                         *)
(* A clear that overlaps a call of the other side crosses it: what is in   *)
(* the queue, and what calls return, is anyone's guess until both sides    *)
(* are idle.  Then the queue goes on from what it holds.                   *)
(***************************************************************************)
EXTENDS Integers, Sequences

CONSTANTS Values, Bound

VARIABLES queue, offered, delivered,
          call,     (* the call each side is in                               *)
          crossed   (* a clear has crossed a call, and both were never idle   *)
                    (* since                                                  *)

vars == <<queue, offered, delivered, call, crossed>>

Sides == {"producer", "consumer"}
Other(s) == IF s = "producer" THEN "consumer" ELSE "producer"
Calls(s) == IF s = "producer" THEN {"write", "clear"} ELSE {"read", "peek", "skip", "clear"}

Init ==
  /\ queue = <<>> /\ offered = <<>> /\ delivered = <<>>
  /\ call = [s \in Sides |-> "idle"] /\ crossed = FALSE

Begin(s, c) ==
  /\ call[s] = "idle" /\ call' = [call EXCEPT ![s] = c]
  /\ crossed' = (\/ crossed \/ call[Other(s)] = "clear"
                 \/ c = "clear" /\ call[Other(s)] # "idle")

End(s) ==
  /\ call[s] # "idle" /\ call' = [call EXCEPT ![s] = "idle"]
  /\ crossed' = (crossed /\ call[Other(s)] # "idle")

-----------------------------------------------------------------------------
(* While nothing is crossed.                                                  *)
BeginCall(s) ==
  /\ \E c \in Calls(s) \ {"clear"} : Begin(s, c)
  /\ UNCHANGED <<queue, offered, delivered>>

(* A clear empties the queue.                                                 *)
BeginClear(s) == Begin(s, "clear") /\ queue' = <<>> /\ UNCHANGED <<offered, delivered>>

EndClear(s) == call[s] = "clear" /\ End(s) /\ UNCHANGED <<queue, offered, delivered>>

Offer ==
  /\ call["producer"] = "write"
  /\ \E v \in Values : offered' = Append(offered, v)
  /\ UNCHANGED <<queue, delivered, call, crossed>>

Put ==
  /\ call["producer"] = "write" /\ End("producer")
  /\ queue' = queue \o offered /\ Len(queue') <= Bound
  /\ offered' = <<>>
  /\ UNCHANGED delivered

(* A call of the consumer ends: the oldest n values are given to it and leave *)
(* the queue, or stay, or only leave.                                         *)
Take ==
  /\ call["consumer"] = "read" /\ End("consumer")
  /\ \E n \in 0..Len(queue) : /\ delivered' = SubSeq(queue, 1, n)
                              /\ queue' = SubSeq(queue, n + 1, Len(queue))
  /\ UNCHANGED offered

Look ==
  /\ call["consumer"] = "peek" /\ End("consumer")
  /\ \E n \in 0..Len(queue) : delivered' = SubSeq(queue, 1, n)
  /\ UNCHANGED <<queue, offered>>

Skip ==
  /\ call["consumer"] = "skip" /\ End("consumer")
  /\ \E n \in 0..Len(queue) : queue' = SubSeq(queue, n + 1, Len(queue))
  /\ UNCHANGED <<offered, delivered>>

Quiet ==
  /\ ~crossed /\ ~crossed'
  /\ \/ \E s \in Sides : BeginCall(s) \/ BeginClear(s) \/ EndClear(s)
     \/ Offer \/ Put \/ Take \/ Look \/ Skip

-----------------------------------------------------------------------------
(* While a clear crosses a call: values of the type, never more than Bound.   *)
Crossed ==
  /\ crossed \/ crossed'
  /\ \/ \E s \in Sides : End(s) \/ \E c \in Calls(s) : Begin(s, c)
     \/ UNCHANGED <<call, crossed>>
  /\ queue' \in Seq(Values) /\ Len(queue') <= Bound
  /\ offered' \in Seq(Values) /\ delivered' \in Seq(Values)

Next == Quiet \/ Crossed

Spec == Init /\ [][Next]_vars
=============================================================================
