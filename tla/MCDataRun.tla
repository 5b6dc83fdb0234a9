----------------------------- MODULE MCDataRun -----------------------------
EXTENDS DataRun

Ins(o, d, dn, a, an, b, bn, c, relu, aam) ==
  [op |-> o, dst |-> d, dn |-> dn, src0 |-> a, n0 |-> an, src1 |-> b, n1 |-> bn, src2 |-> c,
   relu |-> relu, aam |-> aam]

Mov(d, dn, a, an) == Ins("MOV", d, dn, a, an, "NONE", 0, "NONE", FALSE, FALSE)
MovRelu(d, dn, a, an) == Ins("MOV", d, dn, a, an, "NONE", 0, "NONE", TRUE, FALSE)
Op(o, d, dn, a, an, b, bn) == Ins(o, d, dn, a, an, b, bn, "NONE", FALSE, FALSE)

E == "EVEN_BANK"
O == "ODD_BANK"
A == "GRF_A"
B == "GRF_B"
M == "SRF_M"
S == "SRF_A"

(* Of every operation a case after a load and one on registers only, as    *)
(* the mapping programs use them and beyond; registers 0 and 1 meet on     *)
(* every port.  A MAD after a load with its second factor in GRF_B is left *)
(* to MCDataMad.                                                           *)
MCMoves == {Mov(A, 0, E, 0), MovRelu(B, 1, O, 0), Mov(E, 0, A, 0), Mov(O, 0, B, 1),
            MovRelu(A, 1, B, 1), Mov(S, 1, A, 1), Mov(B, 0, M, 1)}
MCArithmetic ==
  { Op("ADD", A, 0, A, 0, E, 0), Op("ADD", B, 1, S, 1, O, 0), Op("ADD", A, 1, A, 0, B, 1),
    Op("MUL", B, 1, O, 0, M, 1), Op("MUL", A, 0, A, 1, B, 1),
    Ins("MAD", A, 1, E, 0, M, 1, S, FALSE, FALSE), Ins("MAD", B, 1, B, 1, E, 0, B, FALSE, FALSE),
    Ins("MAD", A, 0, A, 1, B, 1, B, FALSE, FALSE),
    Op("MAC", B, 1, A, 0, E, 0), Op("MAC", B, 1, B, 0, O, 0), Op("MAC", B, 0, B, 1, M, 1),
    Ins("MAC", B, 0, E, 0, A, 0, "NONE", FALSE, TRUE) }
MCInstructions == MCMoves \cup MCArithmetic

MCColumns == {[src |-> 1, dst |-> 0]}
MCBankWords == {3, -5}
MCHostWords == {7}

MCLoaded == [GRF_A |-> [n \in 0 .. 1 |-> 5 - 7 * n], GRF_B |-> [n \in 0 .. 1 |-> 11 * n - 3],
             SRF_M |-> [n \in 0 .. 1 |-> 9 + 4 * n], SRF_A |-> [n \in 0 .. 1 |-> 17 - 2 * n]]

(* nCCDL, and HBM_AB's times to turn the bus round, cut down to what the   *)
(* pipelines of the core as it is built, one stage to a unit, can tell     *)
(* apart.                                                                  *)
MCGap == [c \in Commands \X Commands |-> IF c = <<"RD", "WR">> THEN 4 ELSE 3]

(* The least gaps two stages to a unit allow: pipelines with a middle, and *)
(* enables with several taps.                                              *)
MCDeepGap == [c \in Commands \X Commands |-> IF c = <<"RD", "WR">> THEN 6 ELSE 5]
=============================================================================
