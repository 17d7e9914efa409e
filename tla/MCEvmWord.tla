------------------------------ MODULE MCEvmWord ------------------------------
(***************************************************************************)
(* Checks EXP, the one piece of word arithmetic eth_vm.c writes itself     *)
(* rather than taking from uint256.h, against the power it stands for, for *)
(* every base word of a small width (the cfg fixes ByteBits and            *)
(* LimbBytes).  Every base is an initial state; nothing changes after.    *)
(***************************************************************************)
EXTENDS EvmWord

VARIABLE a

Modulus == 2^WordBits

Init == a \in Word

Next == UNCHANGED a

Spec == Init /\ [][Next]_a

\* EXP pushes base^exponent modulo 2^256 (spec section 4.2: "compute by
\* repeated multiplication ... exponent 0 yields 1").
ExpIsPower ==
    \A e \in 0..3 : Val(ExpW(a, e)) = (IF e = 0 THEN 1 ELSE Val(a)^e) % Modulus

=============================================================================
