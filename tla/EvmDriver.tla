------------------------------ MODULE EvmDriver ------------------------------
(***************************************************************************)
(* The two-phase driver of Ethereum-vm-256/Ethereum_App.c, composed with   *)
(* the interpreter of EvmInterpreter.                                      *)
(*                                                                         *)
(* PROCESS_THREAD builds the message, runs execute_contract over the       *)
(* constructor code (smart_contract), then calls init_machine again and    *)
(* runs execute_contract a second time over deployed_contract, the buffer  *)
(* the constructor's RETURN filled.  `phase' tells the two calls apart.     *)
(* Between them init_machine resets only PC, SP and GAS_Charge: MEM,       *)
(* STACK, STORAGE and the message, codesize included, keep what the        *)
(* constructor left; the second call is given DEPLOY_LENGTH bytes, not     *)
(* DeployLength.                                                           *)
(***************************************************************************)
EXTENDS EvmInterpreter

VARIABLE phase   \* "constructor" or "runtime": which execute_contract runs

dvars == <<vars, phase>>

DriverInit == Init /\ phase = "constructor"

\* An iteration of whichever execute_contract call is running.
Iteration == Next /\ UNCHANGED phase

\* The first execute_contract returned (whatever ended its loop):
\* init_machine(&MAIN_VM) sets PC, SP and GAS_Charge to 0, and
\* execute_contract(&MAIN_VM, deployed_contract, DEPLOY_LENGTH) starts.
Redeploy ==
    /\ phase = "constructor"
    /\ status \notin {"running", "outside"}
    /\ phase' = "runtime"
    /\ code' = [i \in 1 .. DEPLOY_LENGTH |-> deployed[i - 1]]
    /\ pc' = 0 /\ sp' = 0
    /\ ram' = WriteBytes(ram, GasAddr, U32Bytes(0))
    /\ status' = "running"
    /\ UNCHANGED <<deployed, DeployLength>>

DriverNext == Iteration \/ Redeploy

\* PROCESS_THREAD runs straight through: the loop of each call runs on its
\* own (LoopFairness) and, once the first call returned, the second is
\* eventually made (the process is never left waiting; it has no
\* PROCESS_WAIT between the calls).
DriverSpec == DriverInit /\ [][DriverNext]_dvars /\ LoopFairness /\ WF_dvars(Redeploy)

====
