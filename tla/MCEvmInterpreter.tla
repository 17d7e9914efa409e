-------------------------- MODULE MCEvmInterpreter --------------------------
(***************************************************************************)
(* Model checking of EvmInterpreter.  A code buffer is a concatenation of  *)
(* up to MaxInstrs instructions drawn from Instructions (an opcode byte     *)
(* and its immediate bytes); each cfg names the instruction set its        *)
(* question needs.  Jumps may still land inside an instruction.            *)
(***************************************************************************)
EXTENDS EvmInterpreter

CONSTANTS MaxInstrs,     \* the most instructions a code buffer holds
          Instructions   \* the instructions a code buffer is made of

\* The concatenations of at most k instructions of S.
RECURSIVE UpTo(_, _)
UpTo(S, k) ==
    IF k = 0 THEN {<<>>}
    ELSE { p \o i : p \in UpTo(S, k - 1), i \in S \cup {<<>>} }

MCPrograms == UpTo(Instructions, MaxInstrs) \ {<<>>}

\* The message Ethereum_App.c builds, scaled: the first SelectorBytes bytes
\* of data hold the function selector and the rest of data[] stays zero
\* (the arguments are memcpy'd far past it), datasize is 0x84, call_value
\* is 0, caller is set and address is left zero.
MCMessages ==
    {[call_value |-> Zero, caller |-> <<202, 53, 183, 217>>, address |-> Zero,
      data |-> <<7>> \o [i \in 1 .. MESSAGEDATASIZE - 1 |-> 0], datasize |-> 132]}

\* The digests SHA3 may push.
MCDigests == {<<1, 2, 3, 4>>, Zero}

\* Instruction sets.  PUSH<n> carries n immediate bytes.
StackInstrs ==
    {<<PUSH1, 1>>, <<PUSH1, 3>>, <<PUSH1 + 1, 1, 2>>, <<STOP>>, <<ADD>>,
     <<DIV>>, <<ADDMOD>>, <<NOT>>, <<POP>>, <<DUP1>>, <<DUP1 + 1>>,
     <<SWAP1>>, <<SWAP1 + 1>>, <<JUMP>>, <<JUMPI>>, <<BLOCKHASH>>,
     <<TIMESTAMP>>, <<SENSOR>>}

MemoryInstrs ==
    {<<PUSH1, 0>>, <<PUSH1, 1>>, <<PUSH1, 2>>, <<PUSH1, MEMORY_SPACE>>,
     <<MLOAD>>, <<MSTORE>>, <<MSTORE8>>, <<SSTORE>>, <<SLOAD>>, <<RETURN>>,
     <<REVERT>>, <<DUP1>>, <<SWAP1>>, <<MUL>>, <<ISZERO>>, <<SHA3>>, <<255>>}

\* The instruction sets of the runs that exhibit one behaviour each.
StopInstrs    == {<<STOP>>, <<PUSH1, 1>>, <<ADD>>}

MessageInstrs ==
    {<<PUSH1, 0>>, <<PUSH1, 1>>, <<PUSH1, 2>>, <<ADDRESS>>, <<CALLER>>,
     <<CALLVALUE>>, <<CALLDATASIZE>>, <<CODESIZE>>, <<CALLDATALOAD>>,
     <<CALLDATACOPY>>, <<CODECOPY>>}

\* The buffers of up to MaxInstrs instructions together with those of up
\* to four message instructions.
WithMessagePrograms == MCPrograms \cup (UpTo(MessageInstrs, 4) \ {<<>>})

\* Jumps and the uncharged opcodes a loop can be made of.
JumpInstrs  == {<<PUSH1, 1>>, <<PUSH1, 2>>, <<JUMPDEST>>, <<DUP1>>, <<JUMP>>, <<JUMPI>>}

\* Two operands then the copy; the byte after it is never executed.
BulkInstrs  == {<<PUSH1, 0>>, <<PUSH1, CodecopyBulk>>, <<CODECOPY>>}

-----------------------------------------------------------------------------
(* Views of the machine block.                                             *)

StackWord(r, k)   == ReadWord(r, StackAddr(k))
StorageWord(r, k) == ReadWord(r, StorageAddr(k))
MemAddr           == 0 .. MEMORY_SPACE - 1
GasAddrs          == GasAddr .. GasAddr + GasBytes - 1

\* An iteration decodes the opcode at PC in this step.
Executing == InLoop /\ Gas(ram) <= GAS_LIMIT

\* The stack slots an opcode reads or writes below the top: its operands,
\* and for SWAP<k> the slot k below the top.
Touched(op) == IF op \in SwapOps THEN op - SWAP1 + 2 ELSE Pops(op)

-----------------------------------------------------------------------------
(* Properties.                                                             *)

\* Every variable has the type the code gives it: in particular every byte
\* of the Machine block, GAS_Charge included, stays a byte whatever the
\* opcodes write into it.
TypeOK ==
    /\ code \in Seq(Byte)
    /\ pc \in Nat
    /\ sp \in Int
    /\ ram \in [Addr -> Byte]
    /\ status \in {"running", "end", "gas", "stop", "return", "error", "outside"}
    /\ deployed \in [0 .. DEPLOY_LENGTH - 1 -> Byte]
    /\ DeployLength \in Nat

\* An opcode leaves the stack below its operands alone: every live slot
\* STACK[1..SP - touched] keeps its word across the step.  STOP is left
\* out: shutdown_machine empties the stack.
StackFrame ==
    [][Executing /\ Opcode # STOP =>
         \A k \in 1 .. sp - Touched(Opcode) : StackWord(ram', k) = StackWord(ram, k)]_vars

\* The storage slots with keys in `keys' change only by an SSTORE of that
\* key (spec section 3: storage is mutated by SSTORE with a valid key).
OnlySstoreWrites(keys) ==
    Executing =>
        \A k \in keys :
            StorageWord(ram', k) # StorageWord(ram, k) =>
                Opcode = SSTORE /\ LowLimb(StackWord(ram, sp)) = k

\* STORAGE[1 .. STORAGE_SPACE-1] changes only by an SSTORE to that key.
\* STORAGE[0] is left out: stack_push lets a push on a full stack write
\* STACK[STACK_SPACE], which is STORAGE[0].
StorageFrame == [][OnlySstoreWrites(1 .. STORAGE_SPACE - 1)]_vars

\* STOP halts the interpreter (spec section 4.2): once the STOP case has
\* run, execute_contract leaves its loop.
StopHalts == [][Executing /\ Opcode = STOP => status' # "running"]_vars

\* CALLDATACOPY and CODECOPY write nothing outside MEM but GAS_Charge (spec
\* section 4.2: "any out-of-range source or destination range is rejected
\* ... and no memory mutation").
CopiesWithinMemory ==
    [][Executing /\ Opcode \in {CALLDATACOPY, CODECOPY} /\ status' # "outside" =>
         \A x \in Addr \ (MemAddr \cup GasAddrs) : ram'[x] = ram[x]]_vars

\* Every execution of execute_contract ends (spec section 5: a caller
\* bounds execution time by the gas limit, "the sole cooperative
\* checkpoint").  JUMP, JUMPI, JUMPDEST and DUP charge no gas, so this asks
\* whether a loop of them is still cut off by the gas check at the top of
\* the loop.
Terminates == <>(status # "running")

=============================================================================
