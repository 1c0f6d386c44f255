------------------------------ MODULE Commands ------------------------------
(***************************************************************************)
(* The commands of the tekes-memory executable (run of main.rs) that have  *)
(* a state of their own: init, serve, kernel, call and stdio. A kernel     *)
(* hook makes its one request with the client of "call"; init and serve    *)
(* publish files in the same way. Each behaviour runs one of them.         *)
(***************************************************************************)
EXTENDS Client, Relay, Adapter, Publish, Service

VARIABLE command

commandVars == <<command, clientVars, relayVars, adapterVars, publishVars, serviceVars>>

CommandsInit ==
  /\ command \in {"init", "serve", "kernel", "call", "stdio"}
  /\ ClientInit /\ RelayInit /\ AdapterInit /\ PublishInit /\ ServiceInit

CommandsNext ==
  /\ UNCHANGED command
  /\ \/ /\ command = "call" /\ ClientNext
        /\ UNCHANGED <<relayVars, adapterVars, publishVars, serviceVars>>
     \/ /\ command = "stdio" /\ RelayNext
        /\ UNCHANGED <<clientVars, adapterVars, publishVars, serviceVars>>
     \/ /\ command = "kernel" /\ AdapterNext
        /\ UNCHANGED <<clientVars, relayVars, publishVars, serviceVars>>
     \/ /\ command = "init" /\ PublishNext
        /\ UNCHANGED <<clientVars, relayVars, adapterVars, serviceVars>>
     \/ /\ command = "serve" /\ ServiceNext
        /\ UNCHANGED <<clientVars, relayVars, adapterVars, publishVars>>

\* Each component runs under the fairness it states, when it is the one.
CommandsFairness ==
  /\ command = "call" => ClientFairness
  /\ command = "stdio" => RelayFairness
  /\ command = "serve" => ServiceFairness

CommandsSpec == CommandsInit /\ [][CommandsNext]_commandVars /\ CommandsFairness

=============================================================================
