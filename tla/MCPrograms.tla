------------------------------ MODULE MCPrograms ------------------------------
(* Programs on two networks, a chain of four blocks with a fork of three from *)
(* its first block and another first block, and with three small key pairs,   *)
(* the last with a g that has a factor of n, as generateKeyPair accepts it.   *)
EXTENDS Programs

CONSTANTS a, b, x

TwoNetworks == << 0, 1, 2, 3, 1, 5, 6, 0 >>
KeyPairs == << [p |-> 5, q |-> 7, g |-> 2], [p |-> 3, q |-> 5, g |-> 16],
               [p |-> 3, q |-> 5, g |-> 6] >>
RingsOfTwoSizes == [v \in {a, b} |-> IF v = a THEN << x >> ELSE << x, a >>]
===============================================================================
