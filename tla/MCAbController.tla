--------------------------- MODULE MCAbController ---------------------------
EXTENDS AbController

(* Reads and writes of two rows, one of them through two banks.            *)
MCRequests == [type : Access, bank : Banks, row : Rows] \
                [type : Access, bank : {2}, row : {2}]

(* A refresh in 22 cycles instead of 79 to 260: longer than any other wait *)
(* of the two standards, and that is all the controller can tell.          *)
Short(t) == [t EXCEPT !.gap["REF"] = To(0, 0, 22, 0, 0, 22)]

(* The default standard, and the one whose row commands are closest.       *)
MCTimings == {Short(HBM_AB), Short(RRAM_AB)}

(* All standards meet what the theorems of AbControllerProof assume.       *)
ASSUME \A t \in {HBM_AB, HBM2_AB, GDDR5_AB, DDR4_AB, LPDDR4_AB, PCM_AB,
                 RRAM_AB, STTRAM_AB} : TimingOK(t)
=============================================================================
