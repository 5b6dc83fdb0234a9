----------------------------- MODULE DataPath -----------------------------
(***************************************************************************)
(* The data path of a near-memory core: the data half of the instruction   *)
(* decoder with its control pipelines, the FPU with its two arithmetic     *)
(* pipelines, the register files and the buses of the even and odd bank.   *)
(*                                                                         *)
(* A data instruction is decoded in one cycle and controls the data path   *)
(* over the next 1 + MULT_STAGES + ADD_STAGES: every control signal goes   *)
(* through a shift register of its own.  Nothing interlocks: where two     *)
(* instructions meet on a signal, their values are ORed.  Here a signal    *)
(* that an instruction drives is a triple <<delay, signal, value>>, and    *)
(* all shift registers together are the set ctl of triples still to come;  *)
(* a signal nobody drives is 0.                                            *)
(***************************************************************************)
EXTENDS DataIsa, Sequences

CONSTANTS
  MULT_STAGES,   \* stages of a multiplier
  ADD_STAGES,    \* stages of an adder
  AddrBits       \* bits of a register index or of a select code

ASSUME DataPathAssumption ==
  /\ MULT_STAGES \in Nat /\ MULT_STAGES > 0
  /\ ADD_STAGES \in Nat /\ ADD_STAGES > 0
  /\ AddrBits \in Nat /\ 2 ^ AddrBits \in Nat /\ 2 ^ AddrBits >= 8
  /\ GrfEntries <= 2 ^ AddrBits /\ SrfEntries <= 2 ^ AddrBits

VARIABLES
  regs,      \* contents of GRF_A, GRF_B, SRF_M and SRF_A
  ctl,       \* control signals under way
  mulPipe,   \* pipeline of the multiplier
  addPipe,   \* pipeline of the adder
  bus        \* words the banks show on their buses in this cycle

dpVars == <<regs, ctl, mulPipe, addPipe, bus>>

-----------------------------------------------------------------------------
(* The select codes of opcodes.h (MUL1_SEL, MUL2_SEL, ADD_SEL, and         *)
(* MUX_STORAGE for what a register file stores), by the operand they are   *)
(* for.  The first operand of an instruction is read on port 1 of its      *)
(* file, the second on port 2.                                             *)
M1Sel == [GRF_A |-> 0, GRF_B |-> 2, EVEN_BANK |-> 4, ODD_BANK |-> 5]
M2Sel == [SRF_M |-> 0, GRF_A |-> 2, GRF_B |-> 4, EVEN_BANK |-> 5, ODD_BANK |-> 6]
A1Sel == [SRF_A |-> 1, GRF_A |-> 2, GRF_B |-> 4, EVEN_BANK |-> 6, ODD_BANK |-> 7]
A2Sel == [MULT_OUT |-> 0, SRF_A |-> 1, GRF_A |-> 3, GRF_B |-> 5, EVEN_BANK |-> 6, ODD_BANK |-> 7]
Mux == [EXT |-> 0, FPU |-> 1, GRF_A |-> 2, GRF_B |-> 3, SRF_M |-> 4, SRF_A |-> 4,
        EVEN_BANK |-> 5, ODD_BANK |-> 6]

Signals ==
  (Grf \X {"rd_addr1", "rd_addr2", "wr_en", "wr_addr", "wr_from", "relu_en"})
    \cup ({"SRF"} \X {"rd_addr", "rd_a_nm", "wr_en", "wr_addr", "wr_a_nm", "wr_from"})
    \cup ({"FPU"} \X {"mult_en", "mult_in1_sel", "mult_in2_sel", "add_en", "add_in1_sel",
                       "add_in2_sel", "out_sel"})
    \cup (Banks \X {"out_en"})

-----------------------------------------------------------------------------
(* The decoder.  What an instruction drives, d cycles after its decoding.  *)
Drive(d, unit, signal, v) == {<<d, <<unit, signal>>, v>>}

(* A pipeline of the FPU is enabled for as many cycles as it has stages. *)
Enable(d, stages, signal) == {<<k, <<"FPU", signal>>, 1>> : k \in d .. d + stages - 1}

ReadReg(d, file, port, n) ==
  IF file \in Grf THEN Drive(d, file, port, n)
  ELSE IF file \in Srf
       THEN Drive(d, "SRF", "rd_addr", n)
              \cup Drive(d, "SRF", "rd_a_nm", IF file = "SRF_A" THEN 1 ELSE 0)
       ELSE {}

WriteReg(d, file, n, from) ==
  LET unit == IF file \in Grf THEN file ELSE "SRF"
  IN Drive(d, unit, "wr_en", 1) \cup Drive(d, unit, "wr_addr", n)
       \cup Drive(d, unit, "wr_from", from)
       \cup (IF file \in Grf THEN {}
             ELSE Drive(d, "SRF", "wr_a_nm", IF file = "SRF_A" THEN 1 ELSE 0))

(* A bank word is on the bus one cycle after the command, so everything an *)
(* instruction does that loads one comes one cycle later ("AftLoad").      *)
(* (LateByTwo is a mutant: one more.)                                      *)
LateByTwo(i) == IF Loads(i) THEN 2 ELSE 0
Late(i) == IF Loads(i) THEN 1 ELSE 0

(* The register file that gets the index of the second factor.  For a MAD  *)
(* after a load, the case of GRF_B drives the address of GRF_A.            *)
Factor2File(i) == IF i.op = "MAD" /\ Loads(i) /\ i.src1 = "GRF_B" THEN "GRF_A" ELSE i.src1

Multiply(i, col) ==
  ReadReg(Late(i), i.src0, "rd_addr1", Idx0(i, col))
    \cup ReadReg(Late(i), Factor2File(i), "rd_addr2", Idx1(i, col))
    \cup Drive(Late(i), "FPU", "mult_in1_sel", M1Sel[i.src0])
    \cup Drive(Late(i), "FPU", "mult_in2_sel", M2Sel[i.src1])
    \cup Enable(Late(i), MULT_STAGES, "mult_en")

(* Mutants: the result is stored a cycle late; only one stage is enabled.  *)
AddStoredLate(d, in1, in2, file, n) ==
  Drive(d, "FPU", "add_in1_sel", A1Sel[in1]) \cup Drive(d, "FPU", "add_in2_sel", A2Sel[in2])
    \cup Enable(d, ADD_STAGES, "add_en")
    \cup WriteReg(d + ADD_STAGES + 1, file, n, Mux.FPU)

AddOneStage(d, in1, in2, file, n) ==
  Drive(d, "FPU", "add_in1_sel", A1Sel[in1]) \cup Drive(d, "FPU", "add_in2_sel", A2Sel[in2])
    \cup Drive(d, "FPU", "add_en", 1)
    \cup WriteReg(d + ADD_STAGES, file, n, Mux.FPU)

(* An addition from cycle d on, with its result in a register. *)
Add(d, in1, in2, file, n) ==
  Drive(d, "FPU", "add_in1_sel", A1Sel[in1]) \cup Drive(d, "FPU", "add_in2_sel", A2Sel[in2])
    \cup Enable(d, ADD_STAGES, "add_en")
    \cup WriteReg(d + ADD_STAGES, file, n, Mux.FPU)

DecodeAdd(i, col) ==
  ReadReg(Late(i), i.src0, "rd_addr1", Idx0(i, col))
    \cup ReadReg(Late(i), i.src1, "rd_addr2", Idx1(i, col))
    \cup Add(Late(i), i.src0, i.src1, i.dst, IdxDst(i, col))

DecodeMul(i, col) ==
  LET done == Late(i) + MULT_STAGES
  IN Multiply(i, col) \cup Drive(done, "FPU", "out_sel", 1)
       \cup WriteReg(done, i.dst, IdxDst(i, col), Mux.FPU)

(* Mutant: the addend is read with the factors. *)
MultiplyAddEarly(i, col, file, n) ==
  LET product == Late(i) + MULT_STAGES
  IN Multiply(i, col) \cup ReadReg(Late(i), file, "rd_addr1", n)
       \cup Add(product, file, "MULT_OUT", i.dst, IdxDst(i, col))

(* MAD and MAC read their addend when the product is there. *)
MultiplyAdd(i, col, file, n) ==
  LET product == Late(i) + MULT_STAGES
  IN Multiply(i, col) \cup ReadReg(product, file, "rd_addr1", n)
       \cup Add(product, file, "MULT_OUT", i.dst, IdxDst(i, col))

DecodeMad(i, col) == MultiplyAdd(i, col, i.src2, IdxAddend(i, col))
DecodeMac(i, col) == MultiplyAdd(i, col, i.dst, IdxDst(i, col))

ReluIf(d, i) == IF i.relu /\ i.dst \in Grf THEN Drive(d, i.dst, "relu_en", 1) ELSE {}

(* MOV between register files and from a register to a bank are over in    *)
(* the cycle they are decoded in.  Of a move that is not allowed only the  *)
(* read address is driven.                                                 *)
DecodeMov(i) ==
  (IF Loads(i) THEN {} ELSE ReadReg(0, i.src0, "rd_addr1", i.n0))
    \cup (IF ~Moves(i) THEN {}
          ELSE IF Stores(i) THEN Drive(0, i.dst, "out_en", 1)
          ELSE WriteReg(Late(i), i.dst, i.dn, Mux[i.src0]) \cup ReluIf(Late(i), i))

DecodeData(i, col) ==
  CASE i.op = "MOV" -> DecodeMov(i)
    [] i.op = "ADD" -> DecodeAdd(i, col)
    [] i.op = "MUL" -> DecodeMul(i, col)
    [] i.op = "MAD" -> DecodeMad(i, col)
    [] i.op = "MAC" -> DecodeMac(i, col)

-----------------------------------------------------------------------------
(* The signals of this cycle, with what is decoded in it. *)
Bit(x, b) == (x \div 2 ^ b) % 2

(* Where nothing is driven there is 0, where one value is there is that    *)
(* value; different values are ORed bit by bit.                            *)
WiredOr(S) ==
  IF S = {} THEN 0
  ELSE IF \A x, y \in S : x = y THEN CHOOSE x \in S : TRUE
  ELSE CHOOSE v \in 0 .. 2 ^ AddrBits - 1 :
         \A b \in 0 .. AddrBits - 1 : Bit(v, b) = 1 <=> \E x \in S : Bit(x, b) = 1

Now(issued) == {<<x[2], x[3]>> : x \in {y \in ctl \cup issued : y[1] = 0}}

Sig(now, unit, signal) == WiredOr({x[2] : x \in {y \in now : y[1] = <<unit, signal>>}})
On(now, unit, signal) == Sig(now, unit, signal) = 1

(* The read ports show what is in a register, 0 past the last one. *)
Shown(file, n) == IF n \in Entries(file) THEN regs[file][n] ELSE 0
GrfPort(now, file, port) == Shown(file, Sig(now, file, port))
SrfPort(now) == Shown(IF On(now, "SRF", "rd_a_nm") THEN "SRF_A" ELSE "SRF_M",
                      Sig(now, "SRF", "rd_addr"))

(* The inputs of the FPU's multiplexers in the order of their codes. *)
FpuInputs(now) ==
  << SrfPort(now), GrfPort(now, "GRF_A", "rd_addr1"), GrfPort(now, "GRF_A", "rd_addr2"),
     GrfPort(now, "GRF_B", "rd_addr1"), GrfPort(now, "GRF_B", "rd_addr2"),
     bus["EVEN_BANK"], bus["ODD_BANK"] >>

Product(now) ==
  LET in == FpuInputs(now)
      sel1 == Sig(now, "FPU", "mult_in1_sel")
      sel2 == Sig(now, "FPU", "mult_in2_sel")
  IN Times(IF sel1 \in 0 .. 5 THEN in[sel1 + 2] ELSE in[2],
           IF sel2 \in 0 .. 6 THEN in[sel2 + 1] ELSE in[1])

Sum(now) ==
  LET in == FpuInputs(now)
      product == mulPipe[MULT_STAGES]
      AddIn(sel, default) ==
        IF sel = 0 THEN product ELSE IF sel \in 1 .. 7 THEN in[sel] ELSE default
  IN Plus(AddIn(Sig(now, "FPU", "add_in1_sel"), product),
          AddIn(Sig(now, "FPU", "add_in2_sel"), in[1]))

FpuOut(now) == IF On(now, "FPU", "out_sel") THEN mulPipe[MULT_STAGES] ELSE addPipe[ADD_STAGES]

(* A pipeline moves while it is enabled. *)
Shifted(pipe, x) == <<x>> \o SubSeq(pipe, 1, Len(pipe) - 1)

(* What a register file stores: the word the host sends (ext), the FPU's   *)
(* result, a register or the word of its bank; a GRF can apply ReLU.       *)
GrfInput(now, file, ext) ==
  LET a == GrfPort(now, "GRF_A", "rd_addr1")
      b == GrfPort(now, "GRF_B", "rd_addr1")
      word == bus[IF file = "GRF_A" THEN "EVEN_BANK" ELSE "ODD_BANK"]
      from == Sig(now, file, "wr_from")
      x == IF from \in 0 .. 6 THEN <<ext, FpuOut(now), a, b, SrfPort(now), word, word>>[from + 1] ELSE 0
  IN IF On(now, file, "relu_en") THEN Relu(x) ELSE x

SrfInput(now, ext) ==
  LET from == Sig(now, "SRF", "wr_from")
  IN CASE from = Mux.EXT -> ext
       [] from = Mux.GRF_A -> GrfPort(now, "GRF_A", "rd_addr1")
       [] from = Mux.GRF_B -> GrfPort(now, "GRF_B", "rd_addr1")
       [] from = Mux.SRF_M -> SrfPort(now)
       [] OTHER -> 0

Writes(now, file) ==
  IF file \in Grf THEN On(now, file, "wr_en")
  ELSE On(now, "SRF", "wr_en") /\ (On(now, "SRF", "wr_a_nm") <=> file = "SRF_A")

Written(now, file, ext) ==
  LET unit == IF file \in Grf THEN file ELSE "SRF"
      x == IF file \in Grf THEN GrfInput(now, file, ext) ELSE SrfInput(now, ext)
  IN [n \in Entries(file) |-> IF Writes(now, file) /\ n = Sig(now, unit, "wr_addr")
                               THEN x ELSE regs[file][n]]

(* Mutant: the other port. *)
DrivenPort2(now) ==
  [b \in Banks |-> IF ~On(now, b, "out_en") THEN <<>>
                   ELSE << GrfPort(now, IF b = "EVEN_BANK" THEN "GRF_A" ELSE "GRF_B", "rd_addr2") >>]

(* The words the core drives on the bank buses: GRF_A's port 1 on the even *)
(* one, GRF_B's on the odd one.                                            *)
Driven(now) ==
  [b \in Banks |-> IF ~On(now, b, "out_en") THEN <<>>
                   ELSE << GrfPort(now, IF b = "EVEN_BANK" THEN "GRF_A" ELSE "GRF_B", "rd_addr1") >>]

-----------------------------------------------------------------------------
NoWord == [b \in Banks |-> 0]

(* Nothing under way, in registers that hold r. *)
DpInit(r) ==
  /\ regs = r
  /\ ctl = {}
  /\ mulPipe = [k \in 1 .. MULT_STAGES |-> 0]
  /\ addPipe = [k \in 1 .. ADD_STAGES |-> 0]
  /\ bus = NoWord

(* One clock cycle: an instruction may be decoded or the host may write a  *)
(* register (issued), the host's word ext is on the DQ pins, and the banks *)
(* put the words next on their buses for the following cycle.              *)
Cycle(issued, ext, next) ==
  LET now == Now(issued)
  IN /\ regs' = [file \in Grf \cup Srf |-> Written(now, file, ext)]
     /\ ctl' = {<<x[1] - 1, x[2], x[3]>> : x \in {y \in ctl \cup issued : y[1] > 0}}
     /\ mulPipe' = IF On(now, "FPU", "mult_en") THEN Shifted(mulPipe, Product(now)) ELSE mulPipe
     /\ addPipe' = IF On(now, "FPU", "add_en") THEN Shifted(addPipe, Sum(now)) ELSE addPipe
     /\ bus' = next

(* The longest shift register has 1 + MULT_STAGES + ADD_STAGES stages, the *)
(* last of which is delay 0.                                               *)
DataPathTypeOK ==
  /\ regs \in RegisterFiles
  /\ ctl \subseteq (0 .. MULT_STAGES + ADD_STAGES) \X Signals \X (0 .. 2 ^ AddrBits - 1)
  /\ mulPipe \in [1 .. MULT_STAGES -> Lane]
  /\ addPipe \in [1 .. ADD_STAGES -> Lane]
  /\ bus \in [Banks -> Lane]
=============================================================================
