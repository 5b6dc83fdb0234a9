---------------------------- MODULE KernelFiles ----------------------------
(***************************************************************************)
(* What map_kernel writes, whichever kernel it maps: an assembly file and  *)
(* the address and data files the assembler reads while it walks through   *)
(* an EXEC.  One pseudo-channel with one core (CORES_PER_PCH = 1).         *)
(*                                                                         *)
(* A job is a kernel with its sizes and the build it is mapped for: the    *)
(* numbers of registers (CRF_ENTRIES, GRF_ENTRIES, SRF_M_ENTRIES).         *)
(*                                                                         *)
(* Data are symbolic.  A value is the sequence of products it is the sum   *)
(* of, in the order of the additions; a product is the set of its factors, *)
(* elements of the operands; 0 is the empty sum.  A line of the data file  *)
(* has one value per SIMD lane, or a single one for a scalar register.     *)
(***************************************************************************)
EXTENDS Integers, Sequences, SequencesExt

CONSTANTS
  SIMD_WIDTH,   \* lanes of a bank word
  COLPERROW     \* columns of a DRAM row

ASSUME KernelFilesAssumption ==
  /\ SIMD_WIDTH \in Nat \ {0, 1}
  /\ COLPERROW \in Nat \ {0}

Lanes == 0 .. SIMD_WIDTH - 1

CeilDiv(a, b) == (a + b - 1) \div b
Smaller(a, b) == IF a < b THEN a ELSE b

(* What the turns i of for (i=0; i<n; i++) write, one after the other. *)
For(n, Body(_)) == FlattenSeq([i \in 1 .. n |-> Body(i - 1)])
If(condition, lines) == IF condition THEN lines ELSE << >>

-----------------------------------------------------------------------------
(* Operands alternate between the even bank with GRF_A and the odd bank    *)
(* with GRF_B; the k-th pair of them shares a column and an index.         *)
Even(k) == k % 2 = 0
Bank(k) == <<IF Even(k) THEN "EVEN_BANK" ELSE "ODD_BANK", 0>>
Grf(k)  == <<IF Even(k) THEN "GRF_A" ELSE "GRF_B", k \div 2>>
SrfM(k) == <<"SRF_M", k>>
SrfA0   == <<"SRF_A", 0>>
Odd     == Bank(1)
GrfB0   == Grf(1)
IsBank(operand) == operand[1] \in {"EVEN_BANK", "ODD_BANK"}

Instr(op, dst, src) == [op |-> op, dst |-> dst, src |-> src]
Mov(dst, src) == Instr("MOV", dst, <<src>>)
EXIT == Instr("EXIT", << >>, << >>)

Loads(n)  == [k \in 1 .. n |-> Mov(Grf(k - 1), Bank(k - 1))]
Stores(n) == [k \in 1 .. n |-> Mov(Bank(k - 1), Grf(k - 1))]
Adds(n)   == [k \in 1 .. n |-> Instr("ADD", Grf(k - 1), <<Grf(k - 1), Bank(k - 1)>>)]
Macs(n, acc) == [k \in 1 .. n |-> Instr("MAC", acc, <<Grf(k - 1), Bank(k - 1)>>)]
ScalarMac(k) == Instr("MAC", GrfB0, <<Bank(k), SrfM(k)>>)

(* The last length instructions are run loops times; once needs no JUMP. *)
Jump(length, loops) == If(loops # 1, <<Instr("JUMP", <<length, loops - 1>>, << >>)>>)

(* The lines of the assembly file. *)
Section(at, instrs) == <<[line |-> "WRF CRF", at |-> at, instrs |-> instrs]>>
Scalar(reg) == <<[line |-> "WRF SRF", reg |-> reg]>>
Exec == <<[line |-> "EXEC"]>>
Weights(n) == For(n, LAMBDA k : Scalar(SrfM(k)))

-----------------------------------------------------------------------------
(* A column is its bank and its number, counted from the first row on.     *)
Column(operand, number) == <<operand[1], number>>
Columns(number, n) == [k \in 1 .. n |-> Column(Bank(k - 1), number + (k - 1) \div 2)]

Zero == << >>
Element(e) == << {e} >>
Line(Value(_)) == [x \in 1 .. SIMD_WIDTH |-> Value(x - 1)]
ZeroLine == Line(LAMBDA x : Zero)
ScalarLine(e) == <<Element(e)>>

Plus(a, b) == a \o b
Times(a, b) ==
  [i \in 1 .. Len(a) * Len(b) |-> a[1 + (i - 1) \div Len(b)] \cup b[1 + ((i - 1) % Len(b))]]

(* The sum over i < n of the products of two elements. *)
Products(n, Left(_), Right(_)) == [i \in 1 .. n |-> {Left(i - 1), Right(i - 1)}]
=============================================================================
