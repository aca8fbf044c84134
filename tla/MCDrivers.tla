------------------------------ MODULE MCDrivers ------------------------------
(* Every driver in one run: "owner" says whose thread calls the application,  *)
(* the library's (AudioThreadDriver) or the host's (MCHostedDrivers).  The    *)
(* drivers of the other keep their first state.                               *)
EXTENDS AudioThreadDriver, MCHostedDrivers

VARIABLE owner

DriversInit ==
  /\ owner \in {"library", "host"}
  /\ Init /\ HostedInit
  /\ owner = "library" => which = "asio"
  /\ owner = "host" => mode = "native"

LibraryStep == owner = "library" /\ Next /\ UNCHANGED <<owner, hostedVars>>
HostStep == owner = "host" /\ HostedNext /\ UNCHANGED <<owner, vars>>

(* The fairness of FairSpec and of HostedSpec: in their first states the      *)
(* drivers of the other owner enable none of these actions.                   *)
DriversSpec ==
  /\ DriversInit /\ [][LibraryStep \/ HostStep]_<<owner, vars, hostedVars>>
  /\ WF_vars(Thread) /\ WF_vars(Finish)
  /\ WF_hostedVars(AppFinishes) /\ WF_hostedVars(HostFinishes)
=============================================================================
