------------------------------ MODULE DataIsa ------------------------------
(***************************************************************************)
(* What the data instructions MOV, ADD, MUL, MAD and MAC compute: the      *)
(* comments over the cases of the decoder ("DST(DST_N) = SRC0(SRC0_N) *    *)
(* SRC1(SRC1_N) + SRC2(SRC1_N)"), as one atomic step on the registers.     *)
(* This is the reference the pipelines of module DataPath are held         *)
(* against.  The lanes of a SIMD register go the same way, so a register   *)
(* holds one lane, of the integer type the build selects.                  *)
(***************************************************************************)
EXTENDS Integers

CONSTANTS
  GrfEntries,   \* registers of GRF_A and of GRF_B (GRF_ENTRIES, 8)
  SrfEntries,   \* registers of SRF_M and of SRF_A (SRF_M_ENTRIES, SRF_A_ENTRIES, 8)
  HalfRange     \* 2^(width of a lane - 1) (DATA_TYPE 4 is int8_t, 2^7)

ASSUME DataIsaAssumption ==
  /\ GrfEntries \in Nat /\ GrfEntries > 0
  /\ SrfEntries \in Nat /\ SrfEntries > 0
  /\ HalfRange \in Nat /\ HalfRange > 0

Grf == {"GRF_A", "GRF_B"}
Srf == {"SRF_M", "SRF_A"}
Banks == {"EVEN_BANK", "ODD_BANK"}

Entries(file) == IF file \in Grf THEN 0 .. GrfEntries - 1 ELSE 0 .. SrfEntries - 1

Lane == -HalfRange .. HalfRange - 1

(* Two's complement: a result is cut to the width of the lane. *)
Wrap(x) == ((x + HalfRange) % (2 * HalfRange)) - HalfRange
Plus(x, y) == Wrap(x + y)
Times(x, y) == Wrap(x * y)
Relu(x) == IF x < 0 THEN 0 ELSE x

(* The contents of all register files. *)
RegisterFiles == [GRF_A : [Entries("GRF_A") -> Lane], GRF_B : [Entries("GRF_B") -> Lane],
                  SRF_M : [Entries("SRF_M") -> Lane], SRF_A : [Entries("SRF_A") -> Lane]]

-----------------------------------------------------------------------------
(* An instruction names its destination, up to three sources and their     *)
(* indices; SRC2 has no index of its own, it shares that of SRC1.          *)
Arithmetic == {"ADD", "MUL", "MAD", "MAC"}

(* An index names a register in any file: it has 3 bits, and every file    *)
(* has 8 registers.                                                        *)
Index == Entries("GRF_A") \cap Entries("SRF_A")

Operands == Grf \cup Srf \cup Banks
DataInstructions ==
  [op : Arithmetic \cup {"MOV"}, dst : Operands, dn : Index, src0 : Operands, n0 : Index,
   src1 : Operands \cup {"NONE"}, n1 : Index, src2 : Operands \cup {"NONE"},
   relu : BOOLEAN, aam : BOOLEAN]

(* A register is moved to any register; a word of the even bank moves to   *)
(* and from GRF_A, one of the odd bank to and from GRF_B.  Other moves have *)
(* no effect.                                                              *)
Moves(i) ==
  /\ i.op = "MOV"
  /\ \/ <<i.dst, i.src0>> \in {<<"GRF_A", "EVEN_BANK">>, <<"GRF_B", "ODD_BANK">>,
                                <<"EVEN_BANK", "GRF_A">>, <<"ODD_BANK", "GRF_B">>}
     \/ i.dst \in Grf \cup Srf /\ i.src0 \in Grf \cup Srf

(* The operands the decoder has a case for.  The SRF has one read port,    *)
(* the cores see one bank at a time, and a bank word is on its bus for one *)
(* cycle only, so it cannot be the addend of a MAD.                        *)
Supported(i) ==
  /\ i.op = "MOV" => Moves(i)
  /\ i.op \in Arithmetic =>
       /\ i.dst \in IF i.op = "MAC" THEN {"GRF_B"} ELSE Grf
       /\ i.src0 \in Grf \cup Banks \cup (IF i.op = "ADD" THEN {"SRF_A"} ELSE {})
       /\ i.src1 \in Grf \cup Banks \cup (IF i.op = "ADD" THEN {"SRF_A"} ELSE {"SRF_M"})
       /\ ~(i.src0 \in Banks /\ i.src1 \in Banks /\ i.src0 # i.src1)
       /\ ~(i.src0 = "SRF_A" /\ i.src1 = "SRF_A")
       /\ i.op = "MAD" => i.src2 \in Grf \cup {"SRF_A"}

(* In address-aligned mode the command's address gives the indices: its    *)
(* low bits those of the factors, the next bits those of destination and   *)
(* addend.  MOV has no such mode.                                          *)
Aligned(i) == i.aam /\ i.op # "MOV"

Idx0(i, col) == IF Aligned(i) THEN col.src ELSE i.n0
Idx1(i, col) == IF Aligned(i) THEN col.src ELSE i.n1
IdxAddend(i, col) == IF Aligned(i) THEN col.dst ELSE i.n1
IdxDst(i, col) == IF Aligned(i) THEN col.dst ELSE i.dn

Loads(i) == i.src0 \in Banks \/ (i.op \in Arithmetic /\ i.src1 \in Banks)
Stores(i) == Moves(i) /\ i.dst \in Banks

(* The value of an operand; bank gives the words a load finds on the buses. *)
Operand(r, file, n, bank) == IF file \in Banks THEN bank[file] ELSE r[file][n]

Result(r, i, col, bank) ==
  LET a == Operand(r, i.src0, Idx0(i, col), bank)
      b == Operand(r, i.src1, Idx1(i, col), bank)
  IN CASE i.op = "MOV" -> IF i.relu /\ i.dst \in Grf THEN Relu(a) ELSE a
       [] i.op = "ADD" -> Plus(a, b)
       [] i.op = "MUL" -> Times(a, b)
       [] i.op = "MAD" -> Plus(Times(a, b), Operand(r, i.src2, IdxAddend(i, col), bank))
       [] i.op = "MAC" -> Plus(Times(a, b), r[i.dst][IdxDst(i, col)])

(* The registers after instruction i, and the word it leaves on each bus.  *)
Executed(r, i, col, bank) ==
  IF Stores(i) \/ (i.op = "MOV" /\ ~Moves(i)) THEN r
  ELSE [r EXCEPT ![i.dst][IdxDst(i, col)] = Result(r, i, col, bank)]

StoredWords(r, i) ==
  [b \in Banks |-> IF Stores(i) /\ i.dst = b THEN <<r[i.src0][i.n0]>> ELSE <<>>]
=============================================================================
