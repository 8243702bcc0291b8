----------------------------- MODULE MCMemPort -----------------------------
(* A twelve-byte memory: two program words and one data word.              *)
EXTENDS MemPort

W(b0, b1, b2, b3) == [k \in 0..3 |-> <<b0, b1, b2, b3>>[k + 1]]

Op(o, f, a, d) == [op |-> o, func3 |-> f, addr |-> a, data |-> d]

MCCodeAddr == {0, 4}

MCInitRam == [a \in 0..11 |-> CASE a \in {0, 5, 7} -> 1 [] OTHER -> 0]

MCInitWord == W(1, 1, 1, 1)

\* Fetch against load and store: a word load overlapping a misaligned store,
\* and a load that ends at its first byte.
MCInstrs ==
    {Op("LOAD", "W", 8, ZeroWord), Op("STORE", "H", 9, W(1, 1, 0, 0)),
     Op("LOAD", "B", 10, ZeroWord)}
=============================================================================
