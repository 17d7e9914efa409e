--------------------------- MODULE EvmInterpreter ---------------------------
(***************************************************************************)
(* The TinyEVM interpreter loop (Ethereum-vm-256/eth_vm.c): execute_contract *)
(* and decode_instruction over one Machine.                                 *)
(*                                                                         *)
(* The Machine struct (evm.h) is one block of bytes:                        *)
(*   MEM[MEMORY_SPACE] | padding | STACK[STACK_SPACE] | STORAGE[STORAGE_SPACE]*)
(*   | GAS_Charge | message ...                                            *)
(* and the code indexes it without checks that would keep an access inside *)
(* the array it names.  The model therefore keeps that block as one byte   *)
(* array `ram', from MEM[0] to the first bytes of the message, and reads   *)
(* and writes a word as the WordBytes bytes of its native layout           *)
(* (NativeBytes/FromNative), exactly as memcpy and the struct copies do.   *)
(* STACK[-1] then lies over the end of MEM, STACK[STACK_SPACE] over        *)
(* STORAGE[0], and STORAGE[STORAGE_SPACE] over GAS_Charge, as in the code. *)
(* PC and SP, which precede MEM in the struct, are variables of their own; *)
(* an access that would reach them ends the behaviour in status "outside". *)
(*                                                                         *)
(* The sizes are constants, scaled down from the code's (MEMORY_SPACE 8089, *)
(* STACK_SPACE 96, STORAGE_SPACE 64, GAS_LIMIT 16000000, 7 padding bytes).  *)
(***************************************************************************)
EXTENDS EvmWord, Integers

CONSTANTS MEMORY_SPACE,   \* bytes of MEM
          PAD,            \* alignment bytes between MEM and STACK
          STACK_SPACE,    \* words of STACK
          STORAGE_SPACE,  \* words of STORAGE
          GAS_LIMIT,      \* the gas limit checked at the top of the loop
          GasBytes,       \* bytes of GAS_Charge (a uint32_t in the code)
          DEPLOY_LENGTH,  \* bytes of deployed_contract (Ethereum_App.c)
          Programs,       \* the code buffers execute_contract may be given
          OutOfRange,     \* the bytes a read past the code buffer may see
          Clock,          \* the values RTIMER_NOW() may return (TIMESTAMP)
          Digests,        \* the words get_keccak256 may return (SHA3)
          MESSAGEDATASIZE,\* bytes of message.data
          SelectorBytes,  \* bytes CALLDATALOAD at offset 0 reads (4 of 8)
          CodecopyBulk,   \* the length from which CODECOPY memcpys (100)
          Messages        \* the messages the driver may build

ASSUME /\ ByteBits = 8
       /\ MEMORY_SPACE \in Nat \ {0} /\ PAD \in Nat
       /\ STACK_SPACE \in Nat \ {0} /\ STORAGE_SPACE \in Nat \ {0}
       /\ GasBytes \in Nat \ {0}
       /\ GAS_LIMIT + 20000 < ByteBase^GasBytes
       /\ Programs \subseteq Seq(Byte) /\ OutOfRange \subseteq Byte
       /\ Clock \subseteq Limb /\ Digests \subseteq Word
       /\ SelectorBytes \in 1 .. LimbBytes
       /\ SelectorBytes <= MESSAGEDATASIZE
       /\ Messages \subseteq [call_value : Word, caller : Word, address : Word,
                              data : Seq(Byte), datasize : Limb]
       /\ \A msg \in Messages : Len(msg.data) = MESSAGEDATASIZE

VARIABLES code,          \* s_contract: the code buffer being executed
          pc,            \* machine_state->PC
          sp,            \* machine_state->SP
          ram,           \* MEM, padding, STACK, STORAGE, GAS_Charge, message
          status,        \* "running" or why execute_contract left its loop
          deployed,      \* deployed_contract (Ethereum_App.c)
          DeployLength   \* DeployLength (Ethereum_App.c)

vars == <<code, pc, sp, ram, status, deployed, DeployLength>>

-----------------------------------------------------------------------------
(* The layout of the Machine struct.                                       *)

\* x rounded up to a multiple of a: the alignment the compiler gives a field.
AlignUp(x, a) == ((x + a - 1) \div a) * a

StackBase      == MEMORY_SPACE + PAD
StackAddr(k)   == StackBase + k * WordBytes          \* &STACK[k]
StorageAddr(k) == StackAddr(STACK_SPACE + k)         \* &STORAGE[k]
GasAddr        == StorageAddr(STORAGE_SPACE)         \* &GAS_Charge

\* The Message_Ext fields: three words, data[MESSAGEDATASIZE], and the
\* uint32_t datasize and codesize (GasBytes bytes, like GAS_Charge).
CallValueAddr  == AlignUp(GasAddr + GasBytes, LimbBytes)
CallerAddr     == CallValueAddr + WordBytes
AddressAddr    == CallerAddr + WordBytes
DataAddr       == AddressAddr + WordBytes
DatasizeAddr   == AlignUp(DataAddr + MESSAGEDATASIZE, GasBytes)
CodesizeAddr   == DatasizeAddr + GasBytes
RamSize        == AlignUp(CodesizeAddr + GasBytes, LimbBytes)
Addr           == 0 .. RamSize - 1

\* The n bytes at address a.
Bytes(r, a, n) == [i \in 1..n |-> r[a + i - 1]]

\* memcpy of the byte sequence s to address a.
WriteBytes(r, a, s) ==
    [x \in Addr |-> IF x - a + 1 \in 1 .. Len(s) THEN s[x - a + 1] ELSE r[x]]

\* The word at address a, and a word stored at address a.
ReadWord(r, a)     == FromNative(Bytes(r, a, WordBytes))
WriteWord(r, a, w) == WriteBytes(r, a, NativeBytes(w))

\* A uint32_t field: a little-endian unsigned integer of GasBytes bytes.
U32(r, a)      == BigEndian(Reverse(Bytes(r, a, GasBytes)))
U32Bytes(v)    == [i \in 1..GasBytes |-> (v \div ByteBase^(i - 1)) % ByteBase]

\* GAS_Charge.
Gas(r) == U32(r, GasAddr)

\* The n bytes at address a, where those past the Machine (another static
\* object, or none) are the bytes g gives.
BytesOr(r, a, n, g) == [i \in 1..n |-> IF a + i - 1 < RamSize THEN r[a + i - 1] ELSE g[i]]

\* Mutant of Charge: the bytes of the new total are not masked to a byte.
ChargeUnmasked(r, cost) ==
    WriteBytes(r, GasAddr,
        [i \in 1..GasBytes |-> ((Gas(r) + cost) % ByteBase^GasBytes) \div ByteBase^(i - 1)])

\* GAS_Charge = GAS_Charge + cost, wrapping at the width of the field.
Charge(r, cost) ==
    WriteBytes(r, GasAddr,
        [i \in 1..GasBytes |->
            (((Gas(r) + cost) % ByteBase^GasBytes) \div ByteBase^(i - 1)) % ByteBase])

-----------------------------------------------------------------------------
(* The machine as a record, so that the steps of one handler compose.      *)

Machine == [pc |-> pc, sp |-> sp, ram |-> ram]

\* stack_pop: returns STACK[SP] and decrements SP, with no underflow check.
Top(m) == ReadWord(m.ram, StackAddr(m.sp))
Pop(m) == [m EXCEPT !.sp = @ - 1]

\* Mutant of stack_push: the item is stored before SP is incremented.
stack_push_early(m, w) ==
    IF m.sp >= STACK_SPACE THEN m
    ELSE [m EXCEPT !.sp = @ + 1, !.ram = WriteWord(@, StackAddr(m.sp), w)]

\* stack_push: refuses when SP >= STACK_SPACE, else SP++ and STACK[SP] = w.
stack_push(m, w) ==
    IF m.sp >= STACK_SPACE THEN m
    ELSE [m EXCEPT !.sp = @ + 1, !.ram = WriteWord(@, StackAddr(m.sp + 1), w)]

ChargeM(m, cost) == [m EXCEPT !.ram = Charge(@, cost)]

\* shutdown_machine: PC = 0, SP = 0, GAS_Charge = 0.
Shutdown(m) ==
    [m EXCEPT !.pc = 0, !.sp = 0,
              !.ram = WriteBytes(@, GasAddr, [i \in 1..GasBytes |-> 0])]

-----------------------------------------------------------------------------
(* Opcodes (enum OP_CODE, evm.h).                                          *)

STOP         == 0
ADD          == 1
MUL          == 2
SUB          == 3
DIV          == 4
SDIV         == 5
MOD          == 6
SMOD         == 7
ADDMOD       == 8
MULMOD       == 9
EXP          == 10
SIGNEXTEND   == 11
SENSOR       == 12
LED          == 13
TEMPERATURE  == 14
LT           == 16
GT           == 17
SLT          == 18
SGT          == 19
EQ           == 20
ISZERO       == 21
AND          == 22
OR           == 23
XOR          == 24
NOT          == 25
BYTE         == 26
SHL          == 27
SHR          == 28
SAR          == 29
SHA3         == 32
ADDRESS      == 48
BALANCE      == 49
CALLER       == 51
CALLVALUE    == 52
CALLDATALOAD == 53
CALLDATASIZE == 54
CALLDATACOPY == 55
CODESIZE     == 56
CODECOPY     == 57
BLOCKHASH    == 64
TIMESTAMP    == 66
POP          == 80
MLOAD        == 81
MSTORE       == 82
MSTORE8      == 83
SLOAD        == 84
SSTORE       == 85
JUMP         == 86
JUMPI        == 87
JUMPDEST     == 91
PUSH1        == 96
DUP1         == 128
SWAP1        == 144
LOG0         == 160
RETURN       == 243
REVERT       == 253
INVALID      == 254

\* The PUSH opcodes of the model: PUSH1 .. PUSH<WordBytes>.  The code's
\* PUSH9-16, PUSH17-24 and PUSH25-32 cases read into one more accumulator
\* each; with LimbBytes bytes per limb they become PUSH<LimbBytes+1> ... .
PushOps == PUSH1 .. PUSH1 + WordBytes - 1
DupOps  == DUP1 .. DUP1 + 15
SwapOps == SWAP1 .. SWAP1 + 15
LogOps  == LOG0 .. LOG0 + 4

\* Opcodes with a case in decode_instruction that the model does not
\* execute: the PUSHes wider than a model word.
NotModelled == PUSH1 + WordBytes .. PUSH1 + 31

ASSUME \A p \in Programs : \A i \in DOMAIN p : p[i] \notin NotModelled

\* Two operands popped (number_1 first), one result pushed.
BinaryOps == {ADD, MUL, SUB, DIV, SDIV, MOD, SMOD, EXP, LT, GT, SLT, SGT,
              EQ, AND, OR, XOR, BYTE, SHL, SHR, SAR}

\* The result each binary case pushes.  SLT/SGT/SDIV/SMOD/SAR are their
\* unsigned or logical counterparts; shift counts, exponents and byte
\* indexes are the low limb (LOWER(LOWER(..)) cast to uint32_t/uint64_t).
BinaryResult(op, n1, n2) ==
    CASE op = ADD  -> AddW(n1, n2)
      [] op = MUL  -> MulW(n1, n2)
      [] op = SUB  -> SubW(n1, n2)
      [] op = DIV  -> IF IsZeroW(n2) THEN Zero ELSE DivModW(n1, n2)[1]
      [] op = SDIV -> DivModW(n1, n2)[1]
      [] op \in {MOD, SMOD} -> DivModW(n1, n2)[2]
      [] op = EXP  -> ExpW(n1, LowLimb(n2))
      [] op \in {LT, SLT} -> IF GtW(n2, n1) THEN One ELSE Zero
      [] op \in {GT, SGT} -> IF GtW(n1, n2) THEN One ELSE Zero
      [] op = EQ   -> IF n1 = n2 THEN One ELSE Zero
      [] op = AND  -> AndW(n1, n2)
      [] op = OR   -> OrW(n1, n2)
      [] op = XOR  -> XorW(n1, n2)
      [] op = BYTE -> ByteW(LowLimb(n1), n2)
      [] op = SHL  -> ShlW(n2, LowLimb(n1))
      [] op \in {SHR, SAR} -> ShrW(n2, LowLimb(n1))

\* The gas each case adds (GAS_TABLE).  SUB, SHA3, SLOAD, JUMP, JUMPI, DUP,
\* SWAP and the stubs add nothing, and DIV, SDIV, MOD, SMOD and ADDMOD
\* `break' before their charge, so they add nothing either.
Cost(op) ==
    CASE op \in {ADD, LT, GT, SLT, SGT, EQ, ISZERO, AND, OR, XOR, NOT, BYTE,
                 SHL, SHR, SAR, MLOAD, MSTORE, MSTORE8} -> 3
      [] op \in PushOps \cup {STOP, POP, ADDRESS, CALLER, CALLVALUE,
                               CALLDATACOPY, CODECOPY} -> 2
      [] op = REVERT -> 3
      [] op \in {MUL, SIGNEXTEND} -> 5
      [] op = MULMOD -> 8
      [] op = EXP    -> 10
      [] op = SSTORE -> 20000
      [] OTHER       -> 0

\* The number of stack_pop calls of each case before its first push.
Pops(op) ==
    CASE op \in BinaryOps \cup {MSTORE, MSTORE8, SSTORE, JUMPI, SHA3,
                                RETURN, REVERT} -> 2
      [] op \in {ADDMOD, MULMOD, CALLDATACOPY, CODECOPY} -> 3
      [] op \in {ISZERO, NOT, POP, MLOAD, SLOAD, JUMP, CALLDATALOAD} -> 1
      [] OTHER -> 0

-----------------------------------------------------------------------------
(* The loop of execute_contract.                                           *)

\* while (PC < size - 1): the last byte of the buffer is never executed.
InLoop == status = "running" /\ pc < Len(code) - 1

\* The byte at PC (code is 1-indexed, PC 0-indexed).
Opcode == code[pc + 1]

\* The guard of an iteration that decodes op: the gas check passed, op is
\* the byte at PC, and its pops stay inside the modelled block.
Decode(op) ==
    /\ InLoop
    /\ Gas(ram) <= GAS_LIMIT
    /\ Opcode = op
    /\ Pops(op) = 0 \/ StackAddr(sp - Pops(op) + 1) >= 0

\* The rest of the iteration once decode_instruction returned ret on the
\* machine m: RETURN and negative results leave the loop; otherwise PC++
\* and the loop stops if the byte now at PC is STOP.  When PC has passed
\* the buffer (a PUSH whose immediates reach its end, or a jump) that byte
\* is read out of bounds: it may or may not be 0, and either way the loop
\* condition then ends the loop.
Finish(m, ret) ==
    /\ sp' = m.sp
    /\ ram' = m.ram
    /\ CASE ret = RETURN -> pc' = m.pc /\ status' = "return"
         [] ret < 0      -> pc' = m.pc /\ status' = "error"
         [] OTHER        ->
              /\ pc' = m.pc + 1
              /\ IF m.pc + 1 < Len(code)
                 THEN status' = IF code[m.pc + 2] = STOP THEN "stop" ELSE "running"
                 ELSE status' \in {"stop", "running"}
    /\ UNCHANGED code

Step(m, ret) == Finish(m, ret) /\ UNCHANGED <<deployed, DeployLength>>

-----------------------------------------------------------------------------
(* Leaving the loop before decoding.                                       *)

\* The loop condition PC < size - 1 fails.
EndOfCode ==
    /\ status = "running"
    /\ ~(pc < Len(code) - 1)
    /\ status' = "end"
    /\ UNCHANGED <<code, pc, sp, ram, deployed, DeployLength>>

\* GAS_Charge > GAS_LIMIT: "Run out of GAS!" and break.
OutOfGas ==
    /\ InLoop
    /\ Gas(ram) > GAS_LIMIT
    /\ status' = "gas"
    /\ UNCHANGED <<code, pc, sp, ram, deployed, DeployLength>>

\* The pops of the next opcode would reach below MEM, into PC and SP: the
\* model does not follow the behaviour further.
Outside ==
    /\ InLoop
    /\ Gas(ram) <= GAS_LIMIT
    /\ Pops(Opcode) > 0 /\ StackAddr(sp - Pops(Opcode) + 1) < 0
    /\ status' = "outside"
    /\ UNCHANGED <<code, pc, sp, ram, deployed, DeployLength>>

-----------------------------------------------------------------------------
(* decode_instruction, one action per case.                                *)

\* The bytes PUSH<n> at PC reads as it advances PC n times; a byte past
\* the buffer is whatever follows it in memory.
Immediates(p, n) ==
    { [i \in 1..n |-> IF p + i < Len(code) THEN code[p + i + 1] ELSE g[i]] :
        g \in [1..n -> OutOfRange] }

\* The PUSH1-8 ... PUSH25-32 cases for numberOfBytes n on machine m: the
\* overflow check counts the immediate bytes instead of the one word
\* pushed, SP++ is done directly (not through stack_push), and the
\* accumulators are stored as PushWord places them.  n <= 0 reads nothing.
PushCase(m, n, imm) ==
    IF m.sp + n >= STACK_SPACE THEN [m |-> m, ret |-> -1]
    ELSE [m |-> [m EXCEPT !.sp  = @ + 1,
                          !.pc  = @ + (IF n > 0 THEN n ELSE 0),
                          !.ram = Charge(WriteWord(@, StackAddr(m.sp + 1),
                                                   PushWord(imm)), 2)],
          ret |-> 0]

\* PUSH1 .. PUSH<WordBytes>.
Push ==
    \E op \in PushOps :
        /\ Decode(op)
        /\ \E imm \in Immediates(pc, op - PUSH1 + 1) :
               LET r == PushCase(Machine, op - PUSH1 + 1, imm)
               IN  Step(r.m, r.ret)

\* STOP: shutdown_machine, and then, for want of a `break', the PUSH1-8
\* case with numberOfBytes = STOP - PUSH1 + 1 = -95.
Stop ==
    /\ Decode(STOP)
    /\ LET r == PushCase(Shutdown(Machine), STOP - PUSH1 + 1, <<>>)
       IN  Step(r.m, r.ret)

\* ADD ... SAR: pop number_1, pop number_2, push the result, charge.
Binary ==
    \E op \in BinaryOps :
        /\ Decode(op)
        /\ LET m1 == Pop(Machine)
               m2 == Pop(m1)
           IN  Step(ChargeM(stack_push(m2, BinaryResult(op, Top(Machine), Top(m1))),
                            Cost(op)), 0)

\* ADDMOD and MULMOD: pop number_1, number_2 and modulo_N; push the
\* remainder of the sum or product by modulo_N.
Ternary ==
    \E op \in {ADDMOD, MULMOD} :
        /\ Decode(op)
        /\ LET m1 == Pop(Machine)
               m2 == Pop(m1)
               m3 == Pop(m2)
               x  == IF op = ADDMOD THEN AddW(Top(Machine), Top(m1))
                                    ELSE MulW(Top(Machine), Top(m1))
           IN  Step(ChargeM(stack_push(m3, DivModW(x, Top(m2))[2]), Cost(op)), 0)

\* ISZERO and NOT.
Unary ==
    \E op \in {ISZERO, NOT} :
        /\ Decode(op)
        /\ LET w == Top(Machine)
               r == IF op = NOT THEN NotW(w) ELSE IF IsZeroW(w) THEN One ELSE Zero
           IN  Step(ChargeM(stack_push(Pop(Machine), r), Cost(op)), 0)

\* The cases that only log, drive hardware or charge: SENSOR, LED,
\* TEMPERATURE (its body is compiled only with CC2538_CHIP, which is not
\* defined), SIGNEXTEND, BALANCE, JUMPDEST, LOG0-LOG4 and INVALID.
NoOp ==
    \E op \in {SENSOR, LED, TEMPERATURE, SIGNEXTEND, BALANCE, JUMPDEST,
               INVALID} \cup LogOps :
        /\ Decode(op)
        /\ Step(ChargeM(Machine, Cost(op)), 0)

\* BLOCKHASH pushes zero; TIMESTAMP pushes RTIMER_NOW() in its low limb.
Stub ==
    \/ /\ Decode(BLOCKHASH)
       /\ Step(stack_push(Machine, Zero), 0)
    \/ /\ Decode(TIMESTAMP)
       /\ \E t \in Clock : Step(stack_push(Machine, FromLimb(t)), 0)

\* POP: stack_pop and charge.
PopOp ==
    /\ Decode(POP)
    /\ Step(ChargeM(Pop(Machine), Cost(POP)), 0)

\* MLOAD: an offset up to MEMORY_SPACE (not MEMORY_SPACE - 32) is read
\* as 32 bytes; a larger offset pushes nothing.  Charged either way.
Mload ==
    /\ Decode(MLOAD)
    /\ LET offset == LowLimb(Top(Machine))
           m1     == Pop(Machine)
           m2     == IF offset > MEMORY_SPACE THEN m1
                     ELSE stack_push(m1, ReadWord(m1.ram, offset))
       IN  Step(ChargeM(m2, Cost(MLOAD)), 0)

\* MSTORE: pop offset, pop word, memcpy 32 bytes to MEM[offset] when
\* offset <= MEMORY_SPACE.
Mstore ==
    /\ Decode(MSTORE)
    /\ LET offset == LowLimb(Top(Machine))
           m1     == Pop(Machine)
           word   == Top(m1)
           m2     == Pop(m1)
           m3     == IF offset > MEMORY_SPACE THEN m2
                     ELSE [m2 EXCEPT !.ram = WriteWord(@, offset, word)]
       IN  Step(ChargeM(m3, Cost(MSTORE)), 0)

\* MSTORE8: MEM[offset] = the low byte of the popped word.
Mstore8 ==
    /\ Decode(MSTORE8)
    /\ LET offset == LowLimb(Top(Machine))
           m1     == Pop(Machine)
           word   == LowLimb(Top(m1)) % ByteBase
           m2     == Pop(m1)
           m3     == IF offset > MEMORY_SPACE THEN m2
                     ELSE [m2 EXCEPT !.ram = WriteBytes(@, offset, <<word>>)]
       IN  Step(ChargeM(m3, Cost(MSTORE8)), 0)

\* Mutant of Sstore: the value lands in the slot after STORAGE[key].
SstoreNextSlot ==
    /\ Decode(SSTORE)
    /\ LET key   == LowLimb(Top(Machine))
           m1    == Pop(Machine)
           m3    == IF key > STORAGE_SPACE THEN Pop(m1)
                    ELSE [Pop(m1) EXCEPT !.ram = WriteWord(@, StorageAddr(key + 1), Top(m1))]
       IN  Step(ChargeM(m3, Cost(SSTORE)), 0)

\* SSTORE: a key up to STORAGE_SPACE (not STORAGE_SPACE - 1) is written;
\* sstoreSetGas is charged either way.
Sstore ==
    /\ Decode(SSTORE)
    /\ LET key   == LowLimb(Top(Machine))
           m1    == Pop(Machine)
           value == Top(m1)
           m2    == Pop(m1)
           m3    == IF key > STORAGE_SPACE THEN m2
                    ELSE [m2 EXCEPT !.ram = WriteWord(@, StorageAddr(key), value)]
       IN  Step(ChargeM(m3, Cost(SSTORE)), 0)

\* SLOAD: pushes STORAGE[key] for a key up to STORAGE_SPACE.
Sload ==
    /\ Decode(SLOAD)
    /\ LET key == LowLimb(Top(Machine))
           m1  == Pop(Machine)
       IN  Step(IF key > STORAGE_SPACE THEN m1
                ELSE stack_push(m1, ReadWord(m1.ram, StorageAddr(key))), 0)

\* JUMP: PC = destination, unchecked; the loop's PC++ then resumes at the
\* byte after it.
Jump ==
    /\ Decode(JUMP)
    /\ Step([Pop(Machine) EXCEPT !.pc = LowLimb(Top(Machine))], 0)

\* JUMPI: pop destination, pop condition; jump when the low limb of the
\* condition is non-zero.
Jumpi ==
    /\ Decode(JUMPI)
    /\ LET m1   == Pop(Machine)
           dest == LowLimb(Top(Machine))
           cond == LowLimb(Top(m1))
       IN  Step([Pop(m1) EXCEPT !.pc = IF cond # 0 THEN dest ELSE @], 0)

\* DUP1-DUP16: index_to_clone = SP - (op - DUP1); a negative index is a
\* no-op, index 0 clones the unused slot STACK[0].
Dup ==
    \E op \in DupOps :
        /\ Decode(op)
        /\ LET index == sp - (op - DUP1)
           IN  Step(IF index < 0 THEN Machine
                    ELSE stack_push(Machine, ReadWord(ram, StackAddr(index))), 0)

\* SWAP1-SWAP16: exchange STACK[SP] and STACK[SP - (op - SWAP1 + 1)] unless
\* that offset is negative or above STACK_SPACE.
Swap ==
    \E op \in SwapOps :
        /\ Decode(op)
        /\ LET other == sp - (op - SWAP1 + 1)
               top   == ReadWord(ram, StackAddr(sp))
           IN  Step(IF other < 0 \/ other > STACK_SPACE THEN Machine
                    ELSE [Machine EXCEPT !.ram =
                            WriteWord(WriteWord(@, StackAddr(sp),
                                                ReadWord(@, StackAddr(other))),
                                      StackAddr(other), top)], 0)

\* SHA3: pop offset and length; a length above 256 returns -1; otherwise
\* the digest of 32 bytes taken from MEM[offset] (or of uninitialised
\* bytes for an offset above MEMORY_SPACE) is pushed, uncharged.  The hash
\* is not modelled: any of the Digests may come out.
Sha3 ==
    /\ Decode(SHA3)
    /\ LET m1     == Pop(Machine)
           m2     == Pop(m1)
           length == LowLimb(Top(m1))
       IN  IF length > 256 THEN Step(m2, -1)
           ELSE \E h \in Digests : Step(stack_push(m2, h), 0)

\* ADDRESS, CALLER and CALLVALUE push their message field and charge
\* stepGas2; CALLDATASIZE and CODESIZE push the uint32_t field in the low
\* limb, uncharged.
MessageField ==
    \E op \in {ADDRESS, CALLER, CALLVALUE, CALLDATASIZE, CODESIZE} :
        /\ Decode(op)
        /\ LET w == CASE op = ADDRESS   -> ReadWord(ram, AddressAddr)
                      [] op = CALLER    -> ReadWord(ram, CallerAddr)
                      [] op = CALLVALUE -> ReadWord(ram, CallValueAddr)
                      [] op = CALLDATASIZE -> FromLimb(U32(ram, DatasizeAddr))
                      [] op = CODESIZE  -> FromLimb(U32(ram, CodesizeAddr))
           IN  Step(ChargeM(stack_push(Machine, w), Cost(op)), 0)

\* The word CALLDATALOAD at offset 0 pushes: SelectorBytes bytes of
\* message.data memcpy'd into a zeroed uint64_t, swapLong'd into
\* UPPER(UPPER(..)).
SelectorWord(r) ==
    <<swapLong(BigEndian(Reverse(Bytes(r, DataAddr, SelectorBytes)))), 0, 0, 0>>

\* CALLDATALOAD: an offset above MESSAGEDATASIZE only logs; offset 0 pushes
\* the selector; any other offset memcpys WordBytes bytes from
\* message.data[offset] on (past data[] into datasize, codesize and beyond
\* the Machine) and swapLongs each limb.  Uncharged.
Calldataload ==
    /\ Decode(CALLDATALOAD)
    /\ LET offset == LowLimb(Top(Machine))
           m1     == Pop(Machine)
       IN  CASE offset > MESSAGEDATASIZE -> Step(m1, 0)
             [] offset = 0 -> Step(stack_push(m1, SelectorWord(ram)), 0)
             [] OTHER ->
                  \E g \in [1..WordBytes -> OutOfRange] :
                      LET w == FromNative(BytesOr(ram, DataAddr + offset, WordBytes, g))
                      IN  Step(stack_push(m1, Limbs(LAMBDA k : swapLong(w[k]))), 0)

\* The n bytes of the code buffer from index a (0-based) on; those past its
\* end are whatever follows it in memory, taken to be one byte repeated.
CodeBytes(a, n) ==
    { [i \in 1..n |-> IF a + i <= Len(code) THEN code[a + i] ELSE b] : b \in OutOfRange }

\* CALLDATACOPY: pop destOffset, offset, length; when destOffset + length
\* <= MEMORY_SPACE and offset + length <= MESSAGEDATASIZE, memcpy length
\* bytes to MEM[destOffset] from s_contract[offset] (the code buffer, not
\* message.data).  stepGas2 either way.
Calldatacopy ==
    /\ Decode(CALLDATACOPY)
    /\ LET dest   == LowLimb(Top(Machine))
           offset == LowLimb(Top(Pop(Machine)))
           length == LowLimb(Top(Pop(Pop(Machine))))
           m3     == Pop(Pop(Pop(Machine)))
       IN  IF dest + length > MEMORY_SPACE \/ offset + length > MESSAGEDATASIZE
           THEN Step(ChargeM(m3, Cost(CALLDATACOPY)), 0)
           ELSE \E s \in CodeBytes(offset, length) :
                    Step(ChargeM([m3 EXCEPT !.ram = WriteBytes(@, dest, s)],
                                 Cost(CALLDATACOPY)), 0)

\* CODECOPY: pop MEMOffset, Offset, length.  A MEMOffset above MEMORY_SPACE
\* only logs.  A length below CodecopyBulk runs the loop: each pass reads
\* WordBytes code bytes into four accumulators and memcpys all four to the
\* same MEM[MEMOffset], so what remains is the native (little-endian)
\* layout of the last LimbBytes bytes read.  A larger length memcpys length
\* bytes of code to MEM[MEMOffset], unbounded: past the Machine the model
\* stops following the behaviour.  stepGas2 in every case.
Codecopy ==
    /\ Decode(CODECOPY)
    /\ LET dest   == LowLimb(Top(Machine))
           offset == LowLimb(Top(Pop(Machine)))
           length == LowLimb(Top(Pop(Pop(Machine))))
           m3     == Pop(Pop(Pop(Machine)))
           passes == (length + WordBytes - 1) \div WordBytes
       IN  CASE dest > MEMORY_SPACE \/ length = 0 ->
                  Step(ChargeM(m3, Cost(CODECOPY)), 0)
             [] length < CodecopyBulk ->
                  \E s \in CodeBytes(offset + passes * WordBytes - LimbBytes, LimbBytes) :
                      Step(ChargeM([m3 EXCEPT !.ram = WriteBytes(@, dest, Reverse(s))],
                                   Cost(CODECOPY)), 0)
             [] dest + length > RamSize ->
                  /\ status' = "outside"
                  /\ UNCHANGED <<code, pc, sp, ram, deployed, DeployLength>>
             [] OTHER ->
                  \E s \in CodeBytes(offset, length) :
                      Step(ChargeM([m3 EXCEPT !.ram = WriteBytes(@, dest, s)],
                                   Cost(CODECOPY)), 0)

\* RETURN: pop offset and length; a range past MEMORY_SPACE is replaced by
\* offset 0 and length MEMORY_SPACE - 1; DeployLength = offset + length and
\* length bytes of MEM[offset] are copied into deployed_contract, whose
\* DEPLOY_LENGTH bytes are all the model keeps of that copy.
Return ==
    /\ Decode(RETURN)
    /\ LET m2      == Pop(Pop(Machine))
           out     == LowLimb(Top(Machine)) + LowLimb(Top(Pop(Machine))) > MEMORY_SPACE
           offset  == IF out THEN 0 ELSE LowLimb(Top(Machine))
           length  == IF out THEN MEMORY_SPACE - 1 ELSE LowLimb(Top(Pop(Machine)))
       IN  /\ DeployLength' = offset + length
           /\ deployed' = [i \in DOMAIN deployed |->
                              IF i < length THEN ram[offset + i] ELSE deployed[i]]
           /\ Finish(m2, RETURN)

\* REVERT: pop offset and length; an offset up to MEMORY_SPACE returns
\* RETURN, like RETURN but leaving deployed_contract alone; a larger one
\* charges stepGas3 and execution goes on.
Revert ==
    /\ Decode(REVERT)
    /\ LET m2 == Pop(Pop(Machine))
       IN  IF LowLimb(Top(Machine)) > MEMORY_SPACE
           THEN Step(ChargeM(m2, Cost(REVERT)), 0)
           ELSE Step(m2, RETURN)

\* The opcodes decode_instruction has a case for.
Handled == {STOP, SENSOR, LED, TEMPERATURE, SIGNEXTEND, ISZERO, NOT,
            ADDMOD, MULMOD, SHA3, ADDRESS, BALANCE, CALLER, CALLVALUE,
            CALLDATALOAD, CALLDATASIZE, CALLDATACOPY, CODESIZE, CODECOPY,
            BLOCKHASH, TIMESTAMP, POP, MLOAD, MSTORE, MSTORE8, SLOAD, SSTORE,
            JUMP, JUMPI, JUMPDEST, RETURN, REVERT, INVALID}
           \cup BinaryOps \cup (PUSH1 .. PUSH1 + 31) \cup DupOps \cup SwapOps
           \cup LogOps

\* default: "Unsupported OP_CODE" and return -1.
Unsupported ==
    /\ InLoop
    /\ Opcode \notin Handled
    /\ Decode(Opcode)
    /\ Step(Machine, -1)

-----------------------------------------------------------------------------
(* The specification of one execute_contract call.                         *)

\* The Machine with every byte zero but the message the driver wrote:
\* data, datasize, caller, call_value, and codesize = sizeof(smart_contract).
MessageRam(msg, codesize) ==
    LET r0 == [a \in Addr |-> 0]
        r1 == WriteWord(WriteWord(WriteWord(r0, CallValueAddr, msg.call_value),
                                  CallerAddr, msg.caller), AddressAddr, msg.address)
        r2 == WriteBytes(r1, DataAddr, msg.data)
    IN  WriteBytes(WriteBytes(r2, DatasizeAddr, U32Bytes(msg.datasize)),
                   CodesizeAddr, U32Bytes(codesize))

\* The static Machine and deployed_contract start zeroed; the driver writes
\* the message; init_machine sets PC, SP and GAS_Charge to 0.
Init ==
    /\ code \in Programs
    /\ pc = 0
    /\ sp = 0
    /\ \E msg \in Messages : ram = MessageRam(msg, Len(code))
    /\ status = "running"
    /\ deployed = [i \in 0 .. DEPLOY_LENGTH - 1 |-> 0]
    /\ DeployLength = 0

Next ==
    \/ EndOfCode \/ OutOfGas \/ Outside
    \/ Stop \/ Push \/ Binary \/ Ternary \/ Unary \/ NoOp \/ Stub \/ PopOp
    \/ Mload \/ Mstore \/ Mstore8 \/ Sstore \/ Sload \/ Jump \/ Jumpi
    \/ Dup \/ Swap \/ Sha3 \/ Return \/ Revert \/ Unsupported
    \/ MessageField \/ Calldataload \/ Calldatacopy \/ Codecopy

\* The loop runs on its own: while execute_contract has not left its loop
\* an iteration is eventually taken.  This is WF_vars(Next): Next is
\* enabled exactly when status = "running" (every byte has a case, and
\* every iteration changes PC, SP, GAS_Charge or status), and every step
\* of the specification that changes vars is a Next step.  It is written
\* without ENABLED, which TLC evaluates without the caching the word
\* operators rely on.
LoopFairness == []<>(status # "running") \/ []<><<TRUE>>_vars

Spec == Init /\ [][Next]_vars /\ LoopFairness

====
