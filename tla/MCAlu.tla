------------------------------- MODULE MCAlu -------------------------------
(* Four-bit values: every pair of operands of every operation.  Every       *)
(* instruction with an immediate of one bit, or of copies of the sign from *)
(* some bit on, and registers that differ.                                 *)
EXTENDS AluCheck

MCVariants ==
    {<<f, FALSE>> : f \in {"ADD_SUB", "SLL", "SLT", "SLTU", "XOR", "OR", "AND", "SRL_SRA"}}
        \union {<<"ADD_SUB", TRUE>>, <<"SRL_SRA", TRUE>>}

Hot(n, b) == [k \in 0 .. n - 1 |-> IF k = b THEN 1 ELSE 0]
SignOn(b) == [k \in 0 .. 31 |-> IF k >= b THEN 1 ELSE 0]

MCSample ==
    {i \in [op : Opcode, rd : {Hot(5, 0)}, rs1 : {Hot(5, 1)}, rs2 : {Hot(5, 3)},
            func3 : Bits(3), func7 : {Hot(7, 5)},
            imm : {Hot(32, b) : b \in 0 .. 31} \cup {SignOn(b) : b \in 0 .. 32}] :
        Encodable(i)}
=============================================================================
