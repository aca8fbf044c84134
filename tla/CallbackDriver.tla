--------------------------- MODULE CallbackDriver ---------------------------
(***************************************************************************)
(* What a driver that calls the application promises, whoever owns the     *)
(* thread that calls: one call at a time, of the callback that is          *)
(* installed, from start() until stop() returns.  A driver that waits has  *)
(* nothing under way when stop() returns.  One that does not may begin one *)
(* call afterwards, never a second before the next start().                *)
(***************************************************************************)
CONSTANTS
  Functions,   (* the callbacks an application may install                    *)
  NoFunction,  (* none                                                        *)
  Waits        (* whether stop() waits for a call that is under way           *)

VARIABLES
  state,       (* "closed", "ready", "running", or "stopping" until stop() returns *)
  installed,   (* the callback, or NoFunction                                 *)
  called,      (* the callback each of the two threads is in, or NoFunction   *)
  overdue      (* a call has begun since stop() returned                      *)

promised == <<state, installed, called, overdue>>

Callers == {"app", "thread"}
Nobody == \A t \in Callers : called[t] = NoFunction

DriverInit ==
  /\ state = "closed" /\ installed = NoFunction /\ overdue = FALSE
  /\ called = [t \in Callers |-> NoFunction]

Goes(from, to) == state = from /\ state' = to

Opened == Goes("closed", "ready") /\ UNCHANGED <<installed, called, overdue>>
Closed == Goes("ready", "closed") /\ UNCHANGED <<installed, called, overdue>>
Started == Goes("ready", "running") /\ overdue' = FALSE /\ UNCHANGED <<installed, called>>
StopBegan == Goes("running", "stopping") /\ UNCHANGED <<installed, called, overdue>>

(* stop() returns, or the call that stops a driver and closes it.             *)
StopEnded ==
  /\ state = "stopping" /\ state' \in {"ready", "closed"}
  /\ Waits => Nobody
  /\ UNCHANGED <<installed, called, overdue>>

(* The callback changes between two calls.                                    *)
Installed ==
  /\ state # "stopping" /\ Nobody
  /\ installed' \in Functions \union {NoFunction}
  /\ UNCHANGED <<state, called, overdue>>

Enters(t) ==
  /\ Nobody /\ installed # NoFunction
  /\ called' = [called EXCEPT ![t] = installed]
  /\ UNCHANGED <<state, installed>>

(* The driver calls.                                                          *)
CalledInTime == Enters("thread") /\ state \in {"running", "stopping"} /\ UNCHANGED overdue
CalledLate == Enters("thread") /\ ~Waits /\ state \in {"ready", "closed"} /\ ~overdue /\ overdue' = TRUE

(* The application has a block processed itself.                              *)
CalledItself == Enters("app") /\ state # "stopping" /\ UNCHANGED overdue

Returned(t) ==
  /\ called[t] # NoFunction /\ called' = [called EXCEPT ![t] = NoFunction]
  /\ UNCHANGED <<state, installed, overdue>>

DriverNext ==
  \/ Opened \/ Closed \/ Started \/ StopBegan \/ StopEnded \/ Installed
  \/ CalledInTime \/ CalledLate \/ CalledItself \/ \E t \in Callers : Returned(t)

DriverSpec == DriverInit /\ [][DriverNext]_promised
=============================================================================
