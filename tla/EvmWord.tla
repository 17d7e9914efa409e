------------------------------- MODULE EvmWord -------------------------------
(***************************************************************************)
(* The 256-bit word of TinyEVM (uint256_t, Ethereum-vm-256/eth_vm.c).       *)
(*                                                                         *)
(* A word is four limbs, most significant first, exactly as uint256_t:     *)
(*   w[1] = UPPER(UPPER(x))   w[2] = LOWER(UPPER(x))                        *)
(*   w[3] = UPPER(LOWER(x))   w[4] = LOWER(LOWER(x))                        *)
(* A limb is LimbBytes bytes of ByteBits bits.  The code has ByteBits = 8   *)
(* and LimbBytes = 8; the models use smaller values so that TLC, whose     *)
(* integers are 32-bit, can hold a limb and enumerate words.  Words are    *)
(* never turned into one integer except by Val, which only the checks use. *)
(*                                                                         *)
(* The arithmetic primitives (add256, minus256, mul256, divmod256, gt256,  *)
(* shiftl256, ...) come from uint256.h, which is not part of the           *)
(* repository; they are written from the spec (section 4.1).  The PUSH     *)
(* immediate packing, the memcpy layout of a word in machine memory, EXP   *)
(* and BYTE are written from eth_vm.c.                                     *)
(***************************************************************************)
EXTENDS Naturals, Sequences, SequencesExt, Bitwise

CONSTANTS ByteBits,       \* bits of a byte (8 in the code)
          LimbBytes,      \* bytes of a limb (8 in the code: a uint64_t)
          ShiftValueBits  \* bits of BYTE's shift_value (32: a uint32_t)

ASSUME ByteBits \in Nat \ {0} /\ LimbBytes \in Nat \ {0}

\* As in the code (2^32 > 256): shift_value can hold every shift of a word.
ASSUME ShiftValueBits \in Nat /\ 2^ShiftValueBits > 4 * ByteBits * LimbBytes

ByteBase  == 2^ByteBits
LimbBits  == ByteBits * LimbBytes
LimbBase  == 2^LimbBits
WordBytes == 4 * LimbBytes
WordBits  == 4 * LimbBits

Byte == 0 .. ByteBase - 1
Limb == 0 .. LimbBase - 1
Word == [1..4 -> Limb]

UU == 1   \* UPPER(UPPER(x))
UL == 2   \* LOWER(UPPER(x))
LU == 3   \* UPPER(LOWER(x))
LL == 4   \* LOWER(LOWER(x))

Zero == <<0, 0, 0, 0>>
One  == <<0, 0, 0, 1>>

\* The word whose limb k is f(k).  Words are always built as explicit
\* tuples, so that a word is a value and not a function recomputed per use.
Limbs(f(_)) == <<f(1), f(2), f(3), f(4)>>

\* A word holding a value in its least significant limb, as the code builds
\* results with LOWER(LOWER(w)) = v on a zeroed uint256_t.
FromLimb(v) == <<0, 0, 0, v % LimbBase>>

\* LOWER(LOWER(w)): the 64-bit truncation the code applies to every offset,
\* key, length, destination, condition and exponent it pops.
LowLimb(w) == w[LL]

\* The unsigned value of a word (checks only).
Val(w) == ((w[UU] * LimbBase + w[UL]) * LimbBase + w[LU]) * LimbBase + w[LL]

\* The big-endian value of a byte sequence.
RECURSIVE BigEndian(_)
BigEndian(s) == IF s = <<>> THEN 0 ELSE BigEndian(Front(s)) * ByteBase + Last(s)

-----------------------------------------------------------------------------
(* Bytes of a limb and of a word.                                          *)

\* The bytes of a limb in little-endian order: how a uint64_t lies in memory
\* on the little-endian targets (ARM cc2538, x86 native).
LimbLE(x) == [i \in 1..LimbBytes |-> (x \div ByteBase^(i-1)) % ByteBase]

\* swapLong (eth_vm.c): reverses the byte order of a limb.  Applied to a
\* limb loaded from little-endian memory it yields the big-endian reading.
swapLong(x) == BigEndian(LimbLE(x))

\* memcpy(&MEM[offset], &word, 32): the native layout of a uint256_t is its
\* limbs in struct order (w[1] first), each limb little-endian.
NativeBytes(w) == LimbLE(w[UU]) \o LimbLE(w[UL]) \o LimbLE(w[LU]) \o LimbLE(w[LL])

\* memcpy(&word, &MEM[offset], 32): the inverse reading of WordBytes bytes.
FromNative(s) ==
    Limbs(LAMBDA k : BigEndian(Reverse(SubSeq(s, (k-1)*LimbBytes + 1, k*LimbBytes))))

-----------------------------------------------------------------------------
(* PUSH1..PUSH32 (eth_vm.c decode_instruction, cases PUSH1..PUSH32).       *)
(* The immediate bytes are shifted into up to four uint64 accumulators:    *)
(* the last LimbBytes bytes into element_low_low, the LimbBytes before     *)
(* them into element_low_upp, then element_upp_low, and the leading        *)
(* bytes into element_upp_upp.  The accumulators are stored as             *)
(*   LOWER(LOWER) = element_low_low   LOWER(UPPER) = element_low_upp       *)
(*   UPPER(LOWER) = element_upp_low   UPPER(UPPER) = element_upp_upp       *)

\* The j-th group of LimbBytes immediate bytes counted from the end (j = 1 is
\* the last LimbBytes bytes); the leading group may be shorter.
PushGroup(imm, j) ==
    LET hi == Len(imm) - (j - 1) * LimbBytes
        lo == IF hi - LimbBytes + 1 < 1 THEN 1 ELSE hi - LimbBytes + 1
    IN IF hi < 1 THEN 0 ELSE BigEndian(SubSeq(imm, lo, hi))

\* The limb each accumulator is written to: element_low_low, element_low_upp,
\* element_upp_low, element_upp_upp.
PushAccumulatorLimb == <<LL, UL, LU, UU>>

PushWord(imm) ==
    Limbs(LAMBDA k : PushGroup(imm, CHOOSE j \in 1..4 : PushAccumulatorLimb[j] = k))

-----------------------------------------------------------------------------
(* uint256.h primitives (spec section 4.1): arithmetic modulo 2^WordBits.  *)

\* add256: limb-wise addition with carry from the least significant limb.
AddW(a, b) ==
    LET s[k \in 1..4] == a[k] + b[k] + (IF k = LL THEN 0 ELSE s[k+1] \div LimbBase)
    IN Limbs(LAMBDA k : s[k] % LimbBase)

\* minus256: limb-wise subtraction with borrow, wrapping modulo 2^WordBits.
SubW(a, b) ==
    LET d[k \in 1..4] == a[k] - b[k] - (IF k = LL THEN 0 ELSE IF d[k+1] < 0 THEN 1 ELSE 0)
    IN Limbs(LAMBDA k : (d[k] + LimbBase) % LimbBase)

\* mul256: schoolbook product of the limbs, keeping the low four limbs.  The
\* limb of weight c (limb k has weight 4 - k) collects a[i] * b[j] with
\* i + j = 8 - c, plus the carry out of weight c - 1.
MulW(a, b) ==
    LET col(c) == LET term(i) == IF 8 - c - i \in 1..4 THEN a[i] * b[8 - c - i] ELSE 0
                  IN term(1) + term(2) + term(3) + term(4)
        t[c \in 0..3] == col(c) + (IF c = 0 THEN 0 ELSE t[c-1] \div LimbBase)
    IN Limbs(LAMBDA k : t[4 - k] % LimbBase)

\* gt256 / equal256 / zero256: comparison limb by limb, most significant first.
GtW(a, b) == \E k \in 1..4 : a[k] > b[k] /\ \A j \in 1..(k-1) : a[j] = b[j]
IsZeroW(a) == a = Zero

\* and256 / or256 / xor256 / not256.
AndW(a, b) == Limbs(LAMBDA k : a[k] & b[k])
OrW(a, b)  == Limbs(LAMBDA k : a[k] | b[k])
XorW(a, b) == Limbs(LAMBDA k : a[k] ^^ b[k])
NotW(a)    == Limbs(LAMBDA k : LimbBase - 1 - a[k])

\* Bit p of a word, p = 0 being the least significant bit.
BitOf(w, p) == (w[4 - p \div LimbBits] \div 2^(p % LimbBits)) % 2

\* shiftl256 / shiftr256: logical shifts; a shift of WordBits or more is 0.
\* A shift by n moves whole limbs by n \div LimbBits and then bits by the rest.
ShlW(w, n) ==
    LET m == n \div LimbBits
        r == n % LimbBits
        src(j) == IF j + m <= 4 THEN w[j + m] ELSE 0
    IN Limbs(LAMBDA k : ((src(k) * 2^r) % LimbBase) + (src(k + 1) \div 2^(LimbBits - r)))

ShrW(w, n) ==
    LET m == n \div LimbBits
        r == n % LimbBits
        src(j) == IF j - m >= 1 THEN w[j - m] ELSE 0
    IN Limbs(LAMBDA k : (src(k) \div 2^r) + ((src(k - 1) * 2^(LimbBits - r)) % LimbBase))

\* divmod256: restoring long division, one dividend bit at a time from the
\* most significant; a zero divisor gives quotient 0 and remainder 0.
\* DivStep brings down dividend bit i into the quotient and remainder qr of
\* the bits above it, then goes on with bit i - 1.
RECURSIVE DivStep(_, _, _, _)
DivStep(a, b, qr, i) ==
  IF i < 0 THEN qr ELSE
    LET r2   == AddW(ShlW(qr[2], 1), FromLimb(BitOf(a, i)))
        fits == BitOf(qr[2], WordBits - 1) = 1 \/ ~GtW(b, r2)
    IN DivStep(a, b, IF fits THEN <<AddW(ShlW(qr[1], 1), One), SubW(r2, b)>>
                             ELSE <<ShlW(qr[1], 1), r2>>, i - 1)

DivModW(a, b) ==
    IF IsZeroW(b) THEN <<Zero, Zero>>
    ELSE DivStep(a, b, <<Zero, Zero>>, WordBits - 1)

-----------------------------------------------------------------------------
(* Opcode arithmetic written in eth_vm.c itself.                           *)

\* EXP: `accumulator` starts at zero and each of the `exponent` iterations
\* sets result = base * accumulator; exponent 0 gives 1.
RECURSIVE ExpLoop(_, _, _)
ExpLoop(base, acc, i) == IF i = 0 THEN acc ELSE ExpLoop(base, MulW(base, acc), i - 1)

ExpW(base, exponent) ==
    IF exponent = 0 THEN One ELSE ExpLoop(base, Zero, exponent)

\* BYTE: shift_value = (uint32_t) LOWER(LOWER(i)), then shift_value = 248 -
\* shift_value * 8 in uint32_t arithmetic, then (x >> shift_value) & 0xFF.
\* `i' is the low limb.  The cast keeps its low ShiftValueBits bits, and the
\* difference wraps modulo 2^ShiftValueBits: an index past the word mostly
\* gives a shift of WordBits or more, hence 0, but an index whose product
\* wraps back below WordBits selects a real byte.
ByteW(i, x) ==
    LET M     == 2^ShiftValueBits
        index == i % M
        shift == ((WordBits - ByteBits) - ((index * ByteBits) % M)) % M
    IN AndW(ShrW(x, shift), FromLimb(ByteBase - 1))

=============================================================================
