---------------------------- MODULE MCEvmDriver ----------------------------
(***************************************************************************)
(* Model checking of EvmDriver: the constructor code buffers are a few    *)
(* written out below, in the shape a compiler gives a constructor (store  *)
(* the runtime code in memory, RETURN it), together with every buffer of  *)
(* up to MaxInstrs instructions from Instructions.                        *)
(***************************************************************************)
EXTENDS EvmDriver, MCEvmInterpreter

\* Stores the byte CODESIZE at MEM[0] and RETURNs MEM[0 .. 1]: the runtime
\* code is CODESIZE followed by STOP.
CodesizeCtor ==
    <<PUSH1, CODESIZE, PUSH1, 0, MSTORE8, PUSH1, 2, PUSH1, 0, RETURN, STOP>>

\* `PUSH1 0x00, PUSH1 0x00, RETURN' (spec section 7): a zero-length
\* runtime.  The trailing STOP is the byte the loop never decodes.
EmptyCtor == <<PUSH1, 0, PUSH1, 0, RETURN, STOP>>

\* Instructions from which the enumerated constructors are built.
DeployInstrs ==
    {<<PUSH1, 2>>, <<PUSH1, CODESIZE>>, <<MSTORE8>>, <<RETURN>>}
        \cup MessageInstrs

DriverPrograms == {CodesizeCtor, EmptyCtor} \cup MCPrograms

-----------------------------------------------------------------------------
(* Properties.                                                             *)

\* CODESIZE pushes the length of the code buffer being executed (spec
\* section 4.2: "for CODESIZE, the length of the currently executing code
\* buffer"), in both execute_contract calls.  The push must have happened:
\* on a full stack stack_push drops it.
CodesizeIsCodeLength ==
    [][Executing /\ Opcode = CODESIZE /\ sp' = sp + 1 =>
         Val(StackWord(ram', sp')) = Len(code)]_dvars

====
