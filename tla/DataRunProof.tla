---------------------------- MODULE DataRunProof ----------------------------
(***************************************************************************)
(* Proofs about a core under a stream of commands (module DataRun), for    *)
(* every length of its two arithmetic pipelines, number of registers,      *)
(* width of a lane, set of instructions and stream of commands.            *)
(*                                                                         *)
(* The argument: what an instruction drives has a shape that follows from  *)
(* its phases (DecodeShape); the gaps between commands keep at most one    *)
(* instruction under way (CtlInv), so every signal has one driver; and     *)
(* while one is under way its product and its sum are where its age says,  *)
(* computed from the registers it found (Under), so that what it stores is *)
(* what the reference computed when it was given.                          *)
(***************************************************************************)
EXTENDS DataRun, TLAPS

-----------------------------------------------------------------------------
(* What the proofs call the parts of an instruction: the address it comes  *)
(* with, the values a signal may have, whether it uses the multiplier and  *)
(* the adder, and the delays at which its addition starts and its result   *)
(* is stored.                                                              *)
Column == [src : Index, dst : Index]
Codes == 0 .. 2 ^ AddrBits - 1
Multiplies(i) == i.op \in {"MUL", "MAD", "MAC"}
Sums(i) == i.op \in {"ADD", "MAD", "MAC"}
Summed(i) == Late(i) + (IF Multiplies(i) THEN MULT_STAGES ELSE 0)
Done(i) == Summed(i) + (IF Sums(i) THEN ADD_STAGES ELSE 0)

(* No signal is driven to two values at one delay.                         *)
Single(dec) == \A x, y \in dec : (x[1] = y[1] /\ x[2] = y[2]) => x[3] = y[3]

(* What the signals of an instruction look like: none before its operands  *)
(* are there or after its result is stored, a write only of its            *)
(* destination and only then, an enable only while the unit works for it,  *)
(* and the rest only where the decoder has a case for it.                  *)
Shape(i, dec) ==
  \A x \in dec :
    /\ x \in (Late(i) .. Done(i)) \X Signals \X Codes
    /\ x[2][2] = "wr_en" => /\ x[1] = Done(i) /\ ~Stores(i)
                            /\ x[2][1] = IF i.dst \in Grf THEN i.dst ELSE "SRF"
    /\ x[2] = <<"FPU", "mult_en">> => Multiplies(i) /\ x[1] \in Late(i) .. Late(i) + MULT_STAGES - 1
    /\ x[2] = <<"FPU", "add_en">> => Sums(i) /\ x[1] \in Summed(i) .. Summed(i) + ADD_STAGES - 1
    /\ x[2] = <<"FPU", "out_sel">> => i.op = "MUL"
    /\ x[2][2] = "out_en" => Stores(i)
    /\ x[2][2] = "relu_en" => i.op = "MOV"

(* Register indices and select codes fit a signal.                         *)
LEMMA CodeTypes == Index \subseteq Codes /\ 0 .. 7 \subseteq Codes /\ Index \subseteq Nat
  BY DataPathAssumption, DataIsaAssumption DEF Index, Entries, Codes, Grf

-----------------------------------------------------------------------------
(* The signals that read a register (instr_decoder's assignments to the    *)
(* first stage of its shift registers), one by one.                        *)
LEMMA ReadRegIs ==
  ASSUME NEW d, NEW f \in Grf \cup Srf \cup Banks, NEW port, NEW n, NEW x
  PROVE  x \in ReadReg(d, f, port, n) <=>
           \/ f \in Grf /\ x = <<d, <<f, port>>, n>>
           \/ f \in Srf /\ \/ x = <<d, <<"SRF", "rd_addr">>, n>>
                           \/ x = <<d, <<"SRF", "rd_a_nm">>, IF f = "SRF_A" THEN 1 ELSE 0>>
  BY DEF ReadReg, Drive, Grf, Srf, Banks

(* The signals that write a GRF register.                                  *)
LEMMA WriteGrfIs ==
  ASSUME NEW d, NEW f \in Grf, NEW n, NEW from, NEW x
  PROVE  x \in WriteReg(d, f, n, from) <=>
           \/ x = <<d, <<f, "wr_en">>, 1>> \/ x = <<d, <<f, "wr_addr">>, n>>
           \/ x = <<d, <<f, "wr_from">>, from>>
  BY DEF WriteReg, Drive, Grf, Srf

(* The signals that write an SRF register.                                 *)
LEMMA WriteSrfIs ==
  ASSUME NEW d, NEW f \in Srf, NEW n, NEW from, NEW x
  PROVE  x \in WriteReg(d, f, n, from) <=>
           \/ x = <<d, <<"SRF", "wr_en">>, 1>> \/ x = <<d, <<"SRF", "wr_addr">>, n>>
           \/ x = <<d, <<"SRF", "wr_from">>, from>>
           \/ x = <<d, <<"SRF", "wr_a_nm">>, IF f = "SRF_A" THEN 1 ELSE 0>>
  BY DEF WriteReg, Drive, Grf, Srf

(* The signals that enable a unit.                                         *)
LEMMA EnableIs ==
  ASSUME NEW d, NEW stages, NEW signal, NEW x
  PROVE  x \in Enable(d, stages, signal) <=>
           \E k \in d .. d + stages - 1 : x = <<k, <<"FPU", signal>>, 1>>
  BY DEF Enable

(* The signals of an addition.                                             *)
LEMMA AddIs ==
  ASSUME NEW d, NEW a, NEW b, NEW f, NEW n, NEW x
  PROVE  x \in Add(d, a, b, f, n) <=>
           \/ x = <<d, <<"FPU", "add_in1_sel">>, A1Sel[a]>>
           \/ x = <<d, <<"FPU", "add_in2_sel">>, A2Sel[b]>>
           \/ x \in Enable(d, ADD_STAGES, "add_en")
           \/ x \in WriteReg(d + ADD_STAGES, f, n, Mux.FPU)
<1>1. x \in Add(d, a, b, f, n) <=>
           \/ x \in Drive(d, "FPU", "add_in1_sel", A1Sel[a]) \/ x \in Drive(d, "FPU", "add_in2_sel", A2Sel[b])
           \/ x \in Enable(d, ADD_STAGES, "add_en")
           \/ x \in WriteReg(d + ADD_STAGES, f, n, Mux.FPU)
  BY DEF Add
<1>3. /\ x \in Drive(d, "FPU", "add_in1_sel", A1Sel[a]) <=> x = <<d, <<"FPU", "add_in1_sel">>, A1Sel[a]>>
      /\ x \in Drive(d, "FPU", "add_in2_sel", A2Sel[b]) <=> x = <<d, <<"FPU", "add_in2_sel">>, A2Sel[b]>>
  BY DEF Drive
<1> QED BY <1>1, <1>3, Zenon

(* The delays of an instruction's phases, in terms of the stages of the    *)
(* units.                                                                  *)
LEMMA StagesAre ==
  ASSUME NEW i
  PROVE  /\ Late(i) \in 0 .. 1 /\ (Late(i) = 1 <=> Loads(i))
         /\ MULT_STAGES \in Nat /\ MULT_STAGES > 0 /\ ADD_STAGES \in Nat /\ ADD_STAGES > 0
         /\ Multiplies(i) => Summed(i) = Late(i) + MULT_STAGES
         /\ ~Multiplies(i) => Summed(i) = Late(i)
         /\ Sums(i) => Done(i) = Summed(i) + ADD_STAGES
         /\ ~Sums(i) => Done(i) = Summed(i)
         /\ Summed(i) \in Nat /\ Done(i) \in Nat
  BY DataPathAssumption DEF Late, Summed, Done

(* The indices an instruction uses, aligned or not, are indices.           *)
LEMMA IndicesAre ==
  ASSUME NEW i \in DataInstructions, NEW col \in Column
  PROVE  /\ Idx0(i, col) \in Index /\ Idx1(i, col) \in Index /\ IdxDst(i, col) \in Index
         /\ IdxAddend(i, col) \in Index
         /\ i.n0 \in Index /\ i.n1 \in Index /\ i.dn \in Index
  BY DEF DataInstructions, Column, Idx0, Idx1, IdxDst, IdxAddend

(* The operands the decoder has a case for, operation by operation.        *)
LEMMA OperandsAre ==
  ASSUME NEW i \in DataInstructions, Supported(i)
  PROVE  /\ i.op \in {"MOV", "ADD", "MUL", "MAD", "MAC"}
         /\ i.op # "MOV" => i.dst \in Grf /\ ~Stores(i)
         /\ i.op = "ADD" => /\ i.src0 \in Grf \cup Banks \cup {"SRF_A"}
                            /\ i.src1 \in Grf \cup Banks \cup {"SRF_A"}
                            /\ ~(i.src0 = "SRF_A" /\ i.src1 = "SRF_A")
         /\ Multiplies(i) => i.src0 \in Grf \cup Banks /\ i.src1 \in Grf \cup Banks \cup {"SRF_M"}
         /\ i.op = "MAD" => i.src2 \in Grf \cup {"SRF_A"}
         /\ i.op = "MAC" => i.dst = "GRF_B"
         /\ i.op = "MOV" => Moves(i)
         /\ ~(i.src0 \in Banks /\ i.src1 \in Banks /\ i.src0 # i.src1 /\ i.op # "MOV")
<1>1. i.op \in {"MOV", "ADD", "MUL", "MAD", "MAC"}
  BY DEF DataInstructions, Arithmetic
<1>2. i.op # "MOV" => i.dst \in Grf /\ ~Stores(i)
  BY <1>1 DEF Supported, Arithmetic, Stores, Moves, Grf
<1>3. i.op = "ADD" => /\ i.src0 \in Grf \cup Banks \cup {"SRF_A"}
                       /\ i.src1 \in Grf \cup Banks \cup {"SRF_A"}
                       /\ ~(i.src0 = "SRF_A" /\ i.src1 = "SRF_A")
  BY DEF Supported, Arithmetic
<1>4. Multiplies(i) => i.src0 \in Grf \cup Banks /\ i.src1 \in Grf \cup Banks \cup {"SRF_M"}
  BY DEF Supported, Arithmetic, Multiplies
<1>5. /\ i.op = "MAD" => i.src2 \in Grf \cup {"SRF_A"}
      /\ i.op = "MAC" => i.dst = "GRF_B"
      /\ i.op = "MOV" => Moves(i)
  BY DEF Supported, Arithmetic
<1>6. ~(i.src0 \in Banks /\ i.src1 \in Banks /\ i.src0 # i.src1 /\ i.op # "MOV")
  BY <1>1 DEF Supported, Arithmetic
<1> QED BY <1>1, <1>2, <1>3, <1>4, <1>5, <1>6

(* Every signal of an addition that ends in a GRF is one of six.           *)
LEMMA AddElement ==
  ASSUME NEW d, NEW a, NEW b, NEW f \in Grf, NEW n, NEW x \in Add(d, a, b, f, n)
  PROVE  \/ x = <<d, <<"FPU", "add_in1_sel">>, A1Sel[a]>>
         \/ x = <<d, <<"FPU", "add_in2_sel">>, A2Sel[b]>>
         \/ \E k \in d .. d + ADD_STAGES - 1 : x = <<k, <<"FPU", "add_en">>, 1>>
         \/ x = <<d + ADD_STAGES, <<f, "wr_en">>, 1>>
         \/ x = <<d + ADD_STAGES, <<f, "wr_addr">>, n>>
         \/ x = <<d + ADD_STAGES, <<f, "wr_from">>, Mux.FPU>>
<1>1. \/ x = <<d, <<"FPU", "add_in1_sel">>, A1Sel[a]>>
      \/ x = <<d, <<"FPU", "add_in2_sel">>, A2Sel[b]>>
      \/ x \in Enable(d, ADD_STAGES, "add_en")
      \/ x \in WriteReg(d + ADD_STAGES, f, n, Mux.FPU)
  BY AddIs
<1>2. CASE x \in Enable(d, ADD_STAGES, "add_en")
  BY <1>2, EnableIs
<1>3. CASE x \in WriteReg(d + ADD_STAGES, f, n, Mux.FPU)
  BY <1>3, WriteGrfIs
<1> QED BY <1>1, <1>2, <1>3

(* The signals the decoder's case ADD drives.                              *)
LEMMA DecodeAddIs ==
  ASSUME NEW i \in DataInstructions, Supported(i), NEW col \in Column, i.op = "ADD", NEW x
  PROVE  x \in DecodeAdd(i, col) <=>
           \/ i.src0 \in Grf /\ x = <<Late(i), <<i.src0, "rd_addr1">>, Idx0(i, col)>>
           \/ i.src0 = "SRF_A" /\ x = <<Late(i), <<"SRF", "rd_addr">>, Idx0(i, col)>>
           \/ i.src1 \in Grf /\ x = <<Late(i), <<i.src1, "rd_addr2">>, Idx1(i, col)>>
           \/ i.src1 = "SRF_A" /\ x = <<Late(i), <<"SRF", "rd_addr">>, Idx1(i, col)>>
           \/ (i.src0 = "SRF_A" \/ i.src1 = "SRF_A") /\ x = <<Late(i), <<"SRF", "rd_a_nm">>, 1>>
           \/ x \in Add(Late(i), i.src0, i.src1, i.dst, IdxDst(i, col))
<1>1. /\ i.src0 \in Grf \cup Banks \cup {"SRF_A"} /\ i.src1 \in Grf \cup Banks \cup {"SRF_A"}
  BY OperandsAre
<1>2. x \in DecodeAdd(i, col) <=>
        \/ x \in ReadReg(Late(i), i.src0, "rd_addr1", Idx0(i, col))
        \/ x \in ReadReg(Late(i), i.src1, "rd_addr2", Idx1(i, col))
        \/ x \in Add(Late(i), i.src0, i.src1, i.dst, IdxDst(i, col))
  BY DEF DecodeAdd
<1>3. x \in ReadReg(Late(i), i.src0, "rd_addr1", Idx0(i, col)) <=>
        \/ i.src0 \in Grf /\ x = <<Late(i), <<i.src0, "rd_addr1">>, Idx0(i, col)>>
        \/ i.src0 = "SRF_A" /\ x = <<Late(i), <<"SRF", "rd_addr">>, Idx0(i, col)>>
        \/ i.src0 = "SRF_A" /\ x = <<Late(i), <<"SRF", "rd_a_nm">>, 1>>
  BY <1>1, ReadRegIs DEF Grf, Srf, Banks
<1>4. x \in ReadReg(Late(i), i.src1, "rd_addr2", Idx1(i, col)) <=>
        \/ i.src1 \in Grf /\ x = <<Late(i), <<i.src1, "rd_addr2">>, Idx1(i, col)>>
        \/ i.src1 = "SRF_A" /\ x = <<Late(i), <<"SRF", "rd_addr">>, Idx1(i, col)>>
        \/ i.src1 = "SRF_A" /\ x = <<Late(i), <<"SRF", "rd_a_nm">>, 1>>
  BY <1>1, ReadRegIs DEF Grf, Srf, Banks
<1> QED BY <1>2, <1>3, <1>4, Zenon

(* An ADD keeps to its shape and drives no signal twice.                   *)
LEMMA AddShape ==
  ASSUME NEW i \in DataInstructions, Supported(i), NEW col \in Column, i.op = "ADD"
  PROVE  Shape(i, DecodeAdd(i, col)) /\ Single(DecodeAdd(i, col))
<1>1. /\ i.src0 \in Grf \cup Banks \cup {"SRF_A"} /\ i.src1 \in Grf \cup Banks \cup {"SRF_A"}
      /\ ~(i.src0 = "SRF_A" /\ i.src1 = "SRF_A") /\ i.dst \in Grf /\ ~Stores(i)
      /\ Sums(i) /\ ~Multiplies(i)
  BY OperandsAre DEF Sums, Multiplies
<1>2. A1Sel[i.src0] \in 0 .. 7 /\ A2Sel[i.src1] \in 0 .. 7 /\ Mux.FPU = 1
  BY <1>1 DEF A1Sel, A2Sel, Mux, Grf, Banks
<1>3. \A x \in DecodeAdd(i, col) :
        \/ i.src0 \in Grf /\ x = <<Late(i), <<i.src0, "rd_addr1">>, Idx0(i, col)>>
        \/ i.src1 \in Grf /\ x = <<Late(i), <<i.src1, "rd_addr2">>, Idx1(i, col)>>
        \/ x = <<Late(i), <<"SRF", "rd_addr">>, Idx0(i, col)>> /\ i.src0 = "SRF_A"
        \/ x = <<Late(i), <<"SRF", "rd_addr">>, Idx1(i, col)>> /\ i.src1 = "SRF_A"
        \/ x = <<Late(i), <<"SRF", "rd_a_nm">>, 1>>
        \/ x = <<Late(i), <<"FPU", "add_in1_sel">>, A1Sel[i.src0]>>
        \/ x = <<Late(i), <<"FPU", "add_in2_sel">>, A2Sel[i.src1]>>
        \/ \E k \in Late(i) .. Late(i) + ADD_STAGES - 1 : x = <<k, <<"FPU", "add_en">>, 1>>
        \/ x = <<Late(i) + ADD_STAGES, <<i.dst, "wr_en">>, 1>>
        \/ x = <<Late(i) + ADD_STAGES, <<i.dst, "wr_addr">>, IdxDst(i, col)>>
        \/ x = <<Late(i) + ADD_STAGES, <<i.dst, "wr_from">>, Mux.FPU>>
  <2> SUFFICES ASSUME NEW x \in DecodeAdd(i, col)
               PROVE  \/ i.src0 \in Grf /\ x = <<Late(i), <<i.src0, "rd_addr1">>, Idx0(i, col)>>
                      \/ i.src1 \in Grf /\ x = <<Late(i), <<i.src1, "rd_addr2">>, Idx1(i, col)>>
                      \/ x = <<Late(i), <<"SRF", "rd_addr">>, Idx0(i, col)>> /\ i.src0 = "SRF_A"
                      \/ x = <<Late(i), <<"SRF", "rd_addr">>, Idx1(i, col)>> /\ i.src1 = "SRF_A"
                      \/ x = <<Late(i), <<"SRF", "rd_a_nm">>, 1>>
                      \/ x \in Add(Late(i), i.src0, i.src1, i.dst, IdxDst(i, col))
    BY <1>1, AddElement
  <2> QED BY DecodeAddIs
<1>4. Single(DecodeAdd(i, col))
  BY <1>1, <1>3, StagesAre DEF Single, Grf
<1>5. Shape(i, DecodeAdd(i, col))
  <2> SUFFICES ASSUME NEW x \in DecodeAdd(i, col) PROVE Shape(i, {x})
    BY DEF Shape
  <2>1. x \in (Late(i) .. Done(i)) \X Signals \X Codes
    <3>1. x[1] \in Late(i) .. Done(i)
      BY <1>1, <1>3, StagesAre
    <3>2. x[2] \in Signals
      BY <1>1, <1>3 DEF Signals, Grf
    <3>3. x[3] \in Index \cup 0 .. 7 /\ x = <<x[1], x[2], x[3]>>
      BY <1>2, <1>3, IndicesAre
    <3> QED BY <3>1, <3>2, <3>3, CodeTypes
  <2> QED BY <1>1, <1>3, <2>1, StagesAre DEF Shape, Grf
<1> QED BY <1>4, <1>5

(* The signals of a multiplication; the second factor's index goes to the  *)
(* file Factor2File names.                                                 *)
LEMMA MultiplyIs ==
  ASSUME NEW i \in DataInstructions, Supported(i), NEW col \in Column, Multiplies(i), NEW x
  PROVE  x \in Multiply(i, col) <=>
           \/ i.src0 \in Grf /\ x = <<Late(i), <<i.src0, "rd_addr1">>, Idx0(i, col)>>
           \/ i.src1 \in Grf /\ x = <<Late(i), <<Factor2File(i), "rd_addr2">>, Idx1(i, col)>>
           \/ i.src1 = "SRF_M" /\ x = <<Late(i), <<"SRF", "rd_addr">>, Idx1(i, col)>>
           \/ i.src1 = "SRF_M" /\ x = <<Late(i), <<"SRF", "rd_a_nm">>, 0>>
           \/ x = <<Late(i), <<"FPU", "mult_in1_sel">>, M1Sel[i.src0]>>
           \/ x = <<Late(i), <<"FPU", "mult_in2_sel">>, M2Sel[i.src1]>>
           \/ \E k \in Late(i) .. Late(i) + MULT_STAGES - 1 : x = <<k, <<"FPU", "mult_en">>, 1>>
<1>1. i.src0 \in Grf \cup Banks /\ i.src1 \in Grf \cup Banks \cup {"SRF_M"}
  BY DEF Supported, Arithmetic, Multiplies
<1>2. /\ i.src1 \in Grf <=> Factor2File(i) \in Grf
      /\ i.src1 \in Srf <=> Factor2File(i) \in Srf
      /\ Factor2File(i) \in Grf \cup Srf \cup Banks
      /\ i.src1 = "SRF_M" <=> Factor2File(i) = "SRF_M"
      /\ i.src1 # "SRF_A" /\ i.src0 \notin Srf
  BY <1>1 DEF Factor2File, Grf, Srf, Banks
<1>3. x \in Multiply(i, col) <=>
        \/ x \in ReadReg(Late(i), i.src0, "rd_addr1", Idx0(i, col))
        \/ x \in ReadReg(Late(i), Factor2File(i), "rd_addr2", Idx1(i, col))
        \/ x \in Drive(Late(i), "FPU", "mult_in1_sel", M1Sel[i.src0])
        \/ x \in Drive(Late(i), "FPU", "mult_in2_sel", M2Sel[i.src1])
        \/ x \in Enable(Late(i), MULT_STAGES, "mult_en")
  BY DEF Multiply
<1>4. x \in ReadReg(Late(i), i.src0, "rd_addr1", Idx0(i, col)) <=>
        i.src0 \in Grf /\ x = <<Late(i), <<i.src0, "rd_addr1">>, Idx0(i, col)>>
  BY <1>1, <1>2, ReadRegIs
<1>5. x \in ReadReg(Late(i), Factor2File(i), "rd_addr2", Idx1(i, col)) <=>
        \/ i.src1 \in Grf /\ x = <<Late(i), <<Factor2File(i), "rd_addr2">>, Idx1(i, col)>>
        \/ i.src1 = "SRF_M" /\ x = <<Late(i), <<"SRF", "rd_addr">>, Idx1(i, col)>>
        \/ i.src1 = "SRF_M" /\ x = <<Late(i), <<"SRF", "rd_a_nm">>, 0>>
  BY <1>2, ReadRegIs DEF Srf
<1>6. /\ x \in Drive(Late(i), "FPU", "mult_in1_sel", M1Sel[i.src0]) <=>
           x = <<Late(i), <<"FPU", "mult_in1_sel">>, M1Sel[i.src0]>>
      /\ x \in Drive(Late(i), "FPU", "mult_in2_sel", M2Sel[i.src1]) <=>
           x = <<Late(i), <<"FPU", "mult_in2_sel">>, M2Sel[i.src1]>>
  BY DEF Drive
<1>7. x \in Enable(Late(i), MULT_STAGES, "mult_en") <=>
        \E k \in Late(i) .. Late(i) + MULT_STAGES - 1 : x = <<k, <<"FPU", "mult_en">>, 1>>
  BY DEF Enable
<1> QED BY <1>3, <1>4, <1>5, <1>6, <1>7, Zenon

(* The signals the decoder's case MUL drives besides those of the          *)
(* multiplication.                                                         *)
LEMMA MulIs ==
  ASSUME NEW i \in DataInstructions, Supported(i), NEW col \in Column, i.op = "MUL", NEW x
  PROVE  x \in DecodeMul(i, col) <=>
           \/ x \in Multiply(i, col)
           \/ x = <<Late(i) + MULT_STAGES, <<"FPU", "out_sel">>, 1>>
           \/ x = <<Late(i) + MULT_STAGES, <<i.dst, "wr_en">>, 1>>
           \/ x = <<Late(i) + MULT_STAGES, <<i.dst, "wr_addr">>, IdxDst(i, col)>>
           \/ x = <<Late(i) + MULT_STAGES, <<i.dst, "wr_from">>, Mux.FPU>>
<1>1. i.dst \in Grf
  BY DEF Supported, Arithmetic
<1>2. x \in DecodeMul(i, col) <=>
        \/ x \in Multiply(i, col)
        \/ x \in Drive(Late(i) + MULT_STAGES, "FPU", "out_sel", 1)
        \/ x \in WriteReg(Late(i) + MULT_STAGES, i.dst, IdxDst(i, col), Mux.FPU)
  BY DEF DecodeMul
<1>3. x \in Drive(Late(i) + MULT_STAGES, "FPU", "out_sel", 1) <=>
        x = <<Late(i) + MULT_STAGES, <<"FPU", "out_sel">>, 1>>
  BY DEF Drive
<1> QED BY <1>1, <1>2, <1>3, WriteGrfIs

(* The signals of the cases MAD and MAC: the addend is read when the       *)
(* product is there.                                                       *)
LEMMA MultiplyAddIs ==
  ASSUME NEW i \in DataInstructions, Supported(i), NEW col \in Column, i.op \in {"MAD", "MAC"},
         NEW file \in Grf \cup {"SRF_A"}, NEW n, NEW x
  PROVE  x \in MultiplyAdd(i, col, file, n) <=>
           LET product == Late(i) + MULT_STAGES
           IN \/ x \in Multiply(i, col)
              \/ file \in Grf /\ x = <<product, <<file, "rd_addr1">>, n>>
              \/ file = "SRF_A" /\ x = <<product, <<"SRF", "rd_addr">>, n>>
              \/ file = "SRF_A" /\ x = <<product, <<"SRF", "rd_a_nm">>, 1>>
              \/ x \in Add(product, file, "MULT_OUT", i.dst, IdxDst(i, col))
<1> DEFINE product == Late(i) + MULT_STAGES
<1>1. x \in MultiplyAdd(i, col, file, n) <=>
        \/ x \in Multiply(i, col)
        \/ x \in ReadReg(product, file, "rd_addr1", n)
        \/ x \in Add(product, file, "MULT_OUT", i.dst, IdxDst(i, col))
  BY DEF MultiplyAdd
<1> HIDE DEF product
<1>2. x \in ReadReg(product, file, "rd_addr1", n) <=>
        \/ file \in Grf /\ x = <<product, <<file, "rd_addr1">>, n>>
        \/ file = "SRF_A" /\ x = <<product, <<"SRF", "rd_addr">>, n>>
        \/ file = "SRF_A" /\ x = <<product, <<"SRF", "rd_a_nm">>, 1>>
  BY ReadRegIs DEF Srf, Grf
<1> QED BY <1>1, <1>2, Zenon DEF product

(* The signals of the case MOV.                                            *)
LEMMA MovIs ==
  ASSUME NEW i \in DataInstructions, Supported(i), i.op = "MOV", NEW x
  PROVE  x \in DecodeMov(i) <=>
           \/ ~Loads(i) /\ x \in ReadReg(0, i.src0, "rd_addr1", i.n0)
           \/ Stores(i) /\ x = <<0, <<i.dst, "out_en">>, 1>>
           \/ ~Stores(i) /\ x \in WriteReg(Late(i), i.dst, i.dn, Mux[i.src0])
           \/ ~Stores(i) /\ i.relu /\ i.dst \in Grf /\ x = <<Late(i), <<i.dst, "relu_en">>, 1>>
<1>1. Moves(i)
  BY DEF Supported
<1> QED BY <1>1 DEF DecodeMov, Drive, ReluIf

(* A multiplication keeps to the shape of its instruction, drives no       *)
(* signal twice and none of those the result needs.                        *)
LEMMA MultiplyShape ==
  ASSUME NEW i \in DataInstructions, Supported(i), NEW col \in Column, Multiplies(i)
  PROVE  /\ Shape(i, Multiply(i, col)) /\ Single(Multiply(i, col))
         /\ \A x \in Multiply(i, col) :
              /\ x[1] \in Late(i) .. Late(i) + MULT_STAGES - 1
              /\ x[2] # <<"FPU", "mult_en">> => x[1] = Late(i)
              /\ x[2] \notin {<<"FPU", "out_sel">>, <<"FPU", "add_en">>, <<"FPU", "add_in1_sel">>,
                              <<"FPU", "add_in2_sel">>}
              /\ x[2][2] \notin {"wr_en", "wr_addr", "wr_from", "wr_a_nm", "relu_en", "out_en"}
<1>1. i.src0 \in Grf \cup Banks /\ i.src1 \in Grf \cup Banks \cup {"SRF_M"} /\ ~Stores(i)
  BY OperandsAre DEF Multiplies
<1>2. Factor2File(i) \in Grf \/ i.src1 \notin Grf
  BY <1>1 DEF Factor2File, Grf
<1>3. M1Sel[i.src0] \in 0 .. 7 /\ M2Sel[i.src1] \in 0 .. 7
  BY <1>1 DEF M1Sel, M2Sel, Grf, Banks
<1>4. \A x \in Multiply(i, col) :
           \/ i.src0 \in Grf /\ x = <<Late(i), <<i.src0, "rd_addr1">>, Idx0(i, col)>>
           \/ Factor2File(i) \in Grf /\ x = <<Late(i), <<Factor2File(i), "rd_addr2">>, Idx1(i, col)>>
           \/ x = <<Late(i), <<"SRF", "rd_addr">>, Idx1(i, col)>>
           \/ x = <<Late(i), <<"SRF", "rd_a_nm">>, 0>>
           \/ x = <<Late(i), <<"FPU", "mult_in1_sel">>, M1Sel[i.src0]>>
           \/ x = <<Late(i), <<"FPU", "mult_in2_sel">>, M2Sel[i.src1]>>
           \/ \E k \in Late(i) .. Late(i) + MULT_STAGES - 1 : x = <<k, <<"FPU", "mult_en">>, 1>>
  BY <1>2, MultiplyIs
<1>5. Single(Multiply(i, col))
  BY <1>1, <1>4, StagesAre DEF Single, Grf
<1>6. ASSUME NEW x \in Multiply(i, col)
      PROVE  /\ x[1] \in Late(i) .. Late(i) + MULT_STAGES - 1
             /\ x[2] # <<"FPU", "mult_en">> => x[1] = Late(i)
             /\ x[2] \notin {<<"FPU", "out_sel">>, <<"FPU", "add_en">>, <<"FPU", "add_in1_sel">>,
                              <<"FPU", "add_in2_sel">>}
             /\ x[2][2] \notin {"wr_en", "wr_addr", "wr_from", "wr_a_nm", "relu_en", "out_en"}
  BY <1>1, <1>4, StagesAre DEF Grf
<1>7. ASSUME NEW x \in Multiply(i, col)
      PROVE  x \in (Late(i) .. Done(i)) \X Signals \X Codes
  <2>1. x[1] \in Late(i) .. Done(i)
    BY <1>6, StagesAre
  <2>2. x[2] \in Signals
    BY <1>1, <1>4 DEF Signals, Grf
  <2>3. x[3] \in Index \cup 0 .. 7
    BY <1>3, <1>4, IndicesAre
  <2>4. x = <<x[1], x[2], x[3]>>
    BY <1>4
  <2> QED BY <2>1, <2>2, <2>3, <2>4, CodeTypes
<1>8. Shape(i, Multiply(i, col))
  BY <1>6, <1>7 DEF Shape
<1> QED BY <1>5, <1>6, <1>8

(* A MUL keeps to its shape and drives no signal twice.                    *)
LEMMA MulShape ==
  ASSUME NEW i \in DataInstructions, Supported(i), NEW col \in Column, i.op = "MUL"
  PROVE  Shape(i, DecodeMul(i, col)) /\ Single(DecodeMul(i, col))
<1> DEFINE done == Late(i) + MULT_STAGES
<1>1. Multiplies(i) /\ ~Sums(i) /\ i.dst \in Grf /\ ~Stores(i) /\ done = Done(i) /\ done \in Late(i) .. Done(i)
  BY OperandsAre, StagesAre DEF Multiplies, Sums
<1> HIDE DEF done
<1>2. ASSUME NEW x \in DecodeMul(i, col), x \notin Multiply(i, col)
      PROVE  \/ x = <<done, <<"FPU", "out_sel">>, 1>>
             \/ x = <<done, <<i.dst, "wr_en">>, 1>>
             \/ x = <<done, <<i.dst, "wr_addr">>, IdxDst(i, col)>>
             \/ x = <<done, <<i.dst, "wr_from">>, 1>>
  BY <1>2, MulIs DEF Mux, done
<1>3. ASSUME NEW x \in DecodeMul(i, col), x \notin Multiply(i, col)
      PROVE  /\ Shape(i, {x}) /\ x[1] = done
  <2>1. x \in (Late(i) .. Done(i)) \X Signals \X Codes
    <3>1. x[1] \in Late(i) .. Done(i) /\ x[2] \in Signals
      BY <1>1, <1>2, <1>3 DEF Signals, Grf
    <3>2. x[3] \in Index \cup 0 .. 7 /\ x = <<x[1], x[2], x[3]>>
      BY <1>2, <1>3, IndicesAre
    <3> QED BY <3>1, <3>2, CodeTypes
  <2> QED BY <1>1, <1>2, <1>3, <2>1 DEF Shape, Grf
<1>4. Single(DecodeMul(i, col))
  <2> SUFFICES ASSUME NEW x \in DecodeMul(i, col), NEW y \in DecodeMul(i, col), x[1] = y[1], x[2] = y[2]
               PROVE  x[3] = y[3]
    BY DEF Single
  <2>1. CASE x \in Multiply(i, col) /\ y \in Multiply(i, col)
    BY <1>1, <2>1, MultiplyShape DEF Single
  <2>2. CASE x \notin Multiply(i, col) /\ y \notin Multiply(i, col)
    BY <1>1, <1>2, <2>2 DEF Grf
  <2>3. (x \in Multiply(i, col)) => x[1] # done
    BY <1>1, MultiplyShape, StagesAre DEF done
  <2>4. (y \in Multiply(i, col)) => y[1] # done
    BY <1>1, MultiplyShape, StagesAre DEF done
  <2> QED BY <1>3, <2>1, <2>2, <2>3, <2>4
<1>5. Shape(i, DecodeMul(i, col))
  BY <1>1, <1>3, MultiplyShape DEF Shape
<1> QED BY <1>4, <1>5

(* So do MAD and MAC: the signals of the product and of the sum do not     *)
(* meet.                                                                   *)
LEMMA MultiplyAddShape ==
  ASSUME NEW i \in DataInstructions, Supported(i), NEW col \in Column, i.op \in {"MAD", "MAC"},
         NEW file \in Grf \cup {"SRF_A"}, NEW n \in Index
  PROVE  Shape(i, MultiplyAdd(i, col, file, n)) /\ Single(MultiplyAdd(i, col, file, n))
<1> DEFINE product == Late(i) + MULT_STAGES
<1> DEFINE dec == MultiplyAdd(i, col, file, n)
<1>1. /\ Multiplies(i) /\ Sums(i) /\ i.dst \in Grf /\ ~Stores(i) /\ product = Summed(i)
      /\ product \in Nat /\ product + ADD_STAGES = Done(i) /\ product \in Late(i) .. Done(i)
      /\ product + ADD_STAGES \in Late(i) .. Done(i)
  BY OperandsAre, StagesAre DEF Multiplies, Sums
<1>2. A1Sel[file] \in 0 .. 7 /\ Mux.FPU = 1
  BY DEF A1Sel, Mux, Grf
<1>3. ASSUME NEW x \in dec, x \notin Multiply(i, col)
      PROVE  \/ file \in Grf /\ x = <<product, <<file, "rd_addr1">>, n>>
             \/ file = "SRF_A" /\ x = <<product, <<"SRF", "rd_addr">>, n>>
             \/ file = "SRF_A" /\ x = <<product, <<"SRF", "rd_a_nm">>, 1>>
             \/ x = <<product, <<"FPU", "add_in1_sel">>, A1Sel[file]>>
             \/ x = <<product, <<"FPU", "add_in2_sel">>, 0>>
             \/ \E k \in product .. product + ADD_STAGES - 1 : x = <<k, <<"FPU", "add_en">>, 1>>
             \/ x = <<product + ADD_STAGES, <<i.dst, "wr_en">>, 1>>
             \/ x = <<product + ADD_STAGES, <<i.dst, "wr_addr">>, IdxDst(i, col)>>
             \/ x = <<product + ADD_STAGES, <<i.dst, "wr_from">>, Mux.FPU>>
  <2>1. \/ file \in Grf /\ x = <<product, <<file, "rd_addr1">>, n>>
        \/ file = "SRF_A" /\ x = <<product, <<"SRF", "rd_addr">>, n>>
        \/ file = "SRF_A" /\ x = <<product, <<"SRF", "rd_a_nm">>, 1>>
        \/ x \in Add(product, file, "MULT_OUT", i.dst, IdxDst(i, col))
    BY <1>3, MultiplyAddIs
  <2> HIDE DEF product
  <2>2. x \in Add(product, file, "MULT_OUT", i.dst, IdxDst(i, col)) =>
             \/ x = <<product, <<"FPU", "add_in1_sel">>, A1Sel[file]>>
             \/ x = <<product, <<"FPU", "add_in2_sel">>, 0>>
             \/ \E k \in product .. product + ADD_STAGES - 1 : x = <<k, <<"FPU", "add_en">>, 1>>
             \/ x = <<product + ADD_STAGES, <<i.dst, "wr_en">>, 1>>
             \/ x = <<product + ADD_STAGES, <<i.dst, "wr_addr">>, IdxDst(i, col)>>
             \/ x = <<product + ADD_STAGES, <<i.dst, "wr_from">>, Mux.FPU>>
    <3> DEFINE out2 == "MULT_OUT"
    <3>1. A2Sel[out2] = 0 /\ i.dst \in Grf
      BY <1>1 DEF A2Sel
    <3> HIDE DEF out2, dec
    <3> SUFFICES ASSUME x \in Add(product, file, out2, i.dst, IdxDst(i, col))
                 PROVE  \/ x = <<product, <<"FPU", "add_in1_sel">>, A1Sel[file]>>
                        \/ x = <<product, <<"FPU", "add_in2_sel">>, A2Sel[out2]>>
                        \/ \E k \in product .. product + ADD_STAGES - 1 : x = <<k, <<"FPU", "add_en">>, 1>>
                        \/ x = <<product + ADD_STAGES, <<i.dst, "wr_en">>, 1>>
                        \/ x = <<product + ADD_STAGES, <<i.dst, "wr_addr">>, IdxDst(i, col)>>
                        \/ x = <<product + ADD_STAGES, <<i.dst, "wr_from">>, Mux.FPU>>
      BY <3>1 DEF out2
    <3> QED BY <3>1, AddElement, Zenon
  <2> QED BY <2>1, <2>2
<1> HIDE DEF product, dec
<1>4. ASSUME NEW x \in dec, x \notin Multiply(i, col)
      PROVE  Shape(i, {x}) /\ x[1] \in product .. Done(i)
  <2>1. x[1] \in product .. Done(i)
    BY <1>1, <1>3, <1>4, StagesAre
  <2>2. x[1] \in Late(i) .. Done(i)
    BY <2>1, <1>1, StagesAre
  <2>3. x[2] \in Signals
    BY <1>1, <1>3, <1>4 DEF Signals, Grf
  <2>4. x[3] \in Index \cup 0 .. 7 /\ x = <<x[1], x[2], x[3]>>
    BY <1>2, <1>3, <1>4, IndicesAre
  <2>5. x \in (Late(i) .. Done(i)) \X Signals \X Codes
    BY <2>2, <2>3, <2>4, CodeTypes
  <2> QED BY <1>1, <1>3, <1>4, <2>1, <2>5, StagesAre DEF Shape, Grf
<1>5. Single(dec)
  <2> SUFFICES ASSUME NEW x \in dec, NEW y \in dec, x[1] = y[1], x[2] = y[2]
               PROVE  x[3] = y[3]
    BY DEF Single
  <2>1. CASE x \in Multiply(i, col) /\ y \in Multiply(i, col)
    BY <1>1, <2>1, MultiplyShape DEF Single
  <2>2. CASE x \notin Multiply(i, col) /\ y \notin Multiply(i, col)
    BY <1>1, <1>3, <2>2, StagesAre DEF Grf
  <2>3. (x \in Multiply(i, col)) => x[1] \notin product .. Done(i)
    BY <1>1, MultiplyShape, StagesAre DEF product
  <2>4. (y \in Multiply(i, col)) => y[1] \notin product .. Done(i)
    BY <1>1, MultiplyShape, StagesAre DEF product
  <2> QED BY <1>4, <2>1, <2>2, <2>3, <2>4
<1>6. Shape(i, dec)
  BY <1>1, <1>4, MultiplyShape DEF Shape
<1> QED BY <1>5, <1>6 DEF dec

(* So does a MOV.                                                          *)
LEMMA MovShape ==
  ASSUME NEW i \in DataInstructions, Supported(i), i.op = "MOV"
  PROVE  Shape(i, DecodeMov(i)) /\ Single(DecodeMov(i))
<1> DEFINE unit == IF i.dst \in Grf THEN i.dst ELSE "SRF"
<1>1. /\ ~Multiplies(i) /\ ~Sums(i) /\ Done(i) = Late(i) /\ Late(i) \in Nat /\ Moves(i)
      /\ Loads(i) <=> i.src0 \in Banks
      /\ Stores(i) <=> i.dst \in Banks
      /\ i.src0 \in Grf \cup Srf \cup Banks /\ i.dst \in Grf \cup Srf \cup Banks
  BY OperandsAre, StagesAre DEF Multiplies, Sums, Loads, Stores, Arithmetic, DataInstructions, Operands
<1>2. ~Loads(i) => Late(i) = 0
  BY DEF Late
<1>3. Mux[i.src0] \in 0 .. 7
  BY <1>1 DEF Mux, Grf, Srf, Banks
<1>4. ASSUME NEW x \in DecodeMov(i)
      PROVE  \/ i.src0 \in Grf /\ x = <<Late(i), <<i.src0, "rd_addr1">>, i.n0>>
             \/ x = <<Late(i), <<"SRF", "rd_addr">>, i.n0>>
             \/ x = <<Late(i), <<"SRF", "rd_a_nm">>, IF i.src0 = "SRF_A" THEN 1 ELSE 0>>
             \/ Stores(i) /\ x = <<Late(i), <<i.dst, "out_en">>, 1>>
             \/ ~Stores(i) /\ x = <<Late(i), <<unit, "wr_en">>, 1>>
             \/ x = <<Late(i), <<unit, "wr_addr">>, i.dn>>
             \/ x = <<Late(i), <<unit, "wr_from">>, Mux[i.src0]>>
             \/ x = <<Late(i), <<"SRF", "wr_a_nm">>, IF i.dst = "SRF_A" THEN 1 ELSE 0>>
             \/ i.dst \in Grf /\ x = <<Late(i), <<i.dst, "relu_en">>, 1>>
  <2>1. CASE ~Loads(i) /\ x \in ReadReg(0, i.src0, "rd_addr1", i.n0)
    BY <1>1, <1>2, <2>1, ReadRegIs
  <2>2. CASE ~Stores(i) /\ x \in WriteReg(Late(i), i.dst, i.dn, Mux[i.src0])
    BY <1>1, <2>2, WriteGrfIs, WriteSrfIs DEF Grf, Srf
  <2>3. Stores(i) => Late(i) = 0
    BY <1>1, <1>2 DEF Moves, Grf, Srf, Banks
  <2> QED BY <1>4, <2>1, <2>2, <2>3, MovIs
<1>5. Single(DecodeMov(i))
  BY <1>1, <1>4 DEF Single, Grf, Banks
<1>6. Shape(i, DecodeMov(i))
  <2> SUFFICES ASSUME NEW x \in DecodeMov(i) PROVE Shape(i, {x})
    BY DEF Shape
  <2>1. x[1] \in Late(i) .. Done(i)
    BY <1>1, <1>4
  <2>2. x[2] \in Signals
    BY <1>1, <1>4 DEF Signals, Grf, Srf, Stores
  <2>3. x[3] \in Index \cup 0 .. 7 /\ x = <<x[1], x[2], x[3]>>
    BY <1>3, <1>4, IndicesAre DEF DataInstructions
  <2>4. x \in (Late(i) .. Done(i)) \X Signals \X Codes
    BY <2>1, <2>2, <2>3, CodeTypes
  <2> QED BY <1>1, <1>4, <2>4 DEF Shape, Grf, Banks
<1> QED BY <1>5, <1>6

(* Whatever the decoder decodes keeps to its shape and drives no signal    *)
(* twice, so the shift registers never OR two values of one instruction.   *)
LEMMA DecodeShape ==
  ASSUME NEW i \in DataInstructions, Supported(i), NEW col \in Column
  PROVE  Shape(i, DecodeData(i, col)) /\ Single(DecodeData(i, col))
<1>1. CASE i.op = "MOV"
  BY <1>1, MovShape DEF DecodeData
<1>2. CASE i.op = "ADD"
  BY <1>2, AddShape DEF DecodeData
<1>3. CASE i.op = "MUL"
  BY <1>3, MulShape DEF DecodeData
<1>4. CASE i.op = "MAD"
  <2>1. i.src2 \in Grf \cup {"SRF_A"} /\ IdxAddend(i, col) \in Index
    BY <1>4, OperandsAre, IndicesAre
  <2> QED BY <1>4, <2>1, MultiplyAddShape DEF DecodeData, DecodeMad
<1>5. CASE i.op = "MAC"
  <2>1. i.dst \in Grf \cup {"SRF_A"} /\ IdxDst(i, col) \in Index
    BY <1>5, OperandsAre, IndicesAre
  <2> QED BY <1>5, <2>1, MultiplyAddShape DEF DecodeData, DecodeMac
<1> QED BY <1>1, <1>2, <1>3, <1>4, <1>5, OperandsAre

-----------------------------------------------------------------------------
(* The signals of an instruction at delay d, and those still to come s     *)
(* cycles after its decoding.                                              *)
At(dec, d) == {<<x[2], x[3]>> : x \in {y \in dec : y[1] = d}}
Remaining(dec, s) == {<<x[1] - s, x[2], x[3]>> : x \in {y \in dec : y[1] >= s}}

(* A signal that is driven has the value driven.                           *)
LEMMA SigIs ==
  ASSUME NEW dec, Single(dec), NEW d, NEW unit, NEW signal, NEW v, <<d, <<unit, signal>>, v>> \in dec
  PROVE  Sig(At(dec, d), unit, signal) = v
<1> DEFINE values == {x[2] : x \in {y \in At(dec, d) : y[1] = <<unit, signal>>}}
<1>1. <<<<unit, signal>>, v>> \in At(dec, d)
  BY DEF At
<1>2. v \in values
  BY <1>1
<1>3. ASSUME NEW w \in values PROVE w = v
  <2>1. PICK y \in At(dec, d) : y[1] = <<unit, signal>> /\ w = y[2]
    OBVIOUS
  <2>2. PICK x \in dec : x[1] = d /\ y = <<x[2], x[3]>>
    BY DEF At
  <2>3. x[2] = <<unit, signal>> /\ x[3] = w
    BY <2>1, <2>2
  <2> QED BY <2>2, <2>3 DEF Single
<1>4. values = {v}
  BY <1>2, <1>3
<1> QED BY <1>4 DEF Sig, WiredOr

(* A signal nobody drives is 0.                                            *)
LEMMA NoSig ==
  ASSUME NEW dec, NEW d, NEW unit, NEW signal,
         \A x \in dec : x[1] = d => x[2] # <<unit, signal>>
  PROVE  Sig(At(dec, d), unit, signal) = 0
<1>1. {x[2] : x \in {y \in At(dec, d) : y[1] = <<unit, signal>>}} = {}
  BY DEF At
<1> QED BY <1>1 DEF Sig, WiredOr

(* The signals of an addition, one by one, as members.                     *)
LEMMA AddMembers ==
  ASSUME NEW d, NEW a, NEW b, NEW f \in Grf, NEW n
  PROVE  /\ <<d, <<"FPU", "add_in1_sel">>, A1Sel[a]>> \in Add(d, a, b, f, n)
         /\ <<d, <<"FPU", "add_in2_sel">>, A2Sel[b]>> \in Add(d, a, b, f, n)
         /\ \A k \in d .. d + ADD_STAGES - 1 : <<k, <<"FPU", "add_en">>, 1>> \in Add(d, a, b, f, n)
         /\ <<d + ADD_STAGES, <<f, "wr_en">>, 1>> \in Add(d, a, b, f, n)
         /\ <<d + ADD_STAGES, <<f, "wr_addr">>, n>> \in Add(d, a, b, f, n)
         /\ <<d + ADD_STAGES, <<f, "wr_from">>, 1>> \in Add(d, a, b, f, n)
<1>1. Mux.FPU = 1
  BY DEF Mux
<1>2. \A k \in d .. d + ADD_STAGES - 1 : <<k, <<"FPU", "add_en">>, 1>> \in Add(d, a, b, f, n)
  BY EnableIs, AddIs
<1>3. WriteReg(d + ADD_STAGES, f, n, Mux.FPU) \subseteq Add(d, a, b, f, n)
  BY AddIs
<1>4. /\ <<d + ADD_STAGES, <<f, "wr_en">>, 1>> \in WriteReg(d + ADD_STAGES, f, n, Mux.FPU)
      /\ <<d + ADD_STAGES, <<f, "wr_addr">>, n>> \in WriteReg(d + ADD_STAGES, f, n, Mux.FPU)
      /\ <<d + ADD_STAGES, <<f, "wr_from">>, 1>> \in WriteReg(d + ADD_STAGES, f, n, Mux.FPU)
  BY <1>1, WriteGrfIs
<1>5. /\ <<d, <<"FPU", "add_in1_sel">>, A1Sel[a]>> \in Add(d, a, b, f, n)
      /\ <<d, <<"FPU", "add_in2_sel">>, A2Sel[b]>> \in Add(d, a, b, f, n)
  BY AddIs
<1> QED BY <1>2, <1>3, <1>4, <1>5

(* The addend of a MAD is its third operand, that of a MAC its             *)
(* destination.                                                            *)
AddendFile(i) == IF i.op = "MAD" THEN i.src2 ELSE i.dst
AddendIdx(i, col) == IF i.op = "MAD" THEN IdxAddend(i, col) ELSE IdxDst(i, col)

(* MAD and MAC are one case of the decoder with different addends.         *)
LEMMA MultiplyAddDecode ==
  ASSUME NEW i \in DataInstructions, Supported(i), NEW col \in Column, i.op \in {"MAD", "MAC"}
  PROVE  /\ DecodeData(i, col) = MultiplyAdd(i, col, AddendFile(i), AddendIdx(i, col))
         /\ AddendFile(i) \in Grf \cup {"SRF_A"} /\ AddendIdx(i, col) \in Index
<1>1. CASE i.op = "MAD"
  BY <1>1, OperandsAre, IndicesAre DEF DecodeData, DecodeMad, AddendFile, AddendIdx
<1>2. CASE i.op = "MAC"
  BY <1>2, OperandsAre, IndicesAre DEF DecodeData, DecodeMac, AddendFile, AddendIdx
<1> QED BY <1>1, <1>2

(* The phases an instruction's signals are made of.                        *)
LEMMA DecodeParts ==
  ASSUME NEW i \in DataInstructions, Supported(i), NEW col \in Column
  PROVE  /\ Multiplies(i) => Multiply(i, col) \subseteq DecodeData(i, col)
         /\ i.op = "ADD" => /\ DecodeData(i, col) = DecodeAdd(i, col)
                            /\ Add(Late(i), i.src0, i.src1, i.dst, IdxDst(i, col)) \subseteq DecodeAdd(i, col)
         /\ i.op = "MUL" => DecodeData(i, col) = DecodeMul(i, col)
         /\ i.op \in {"MAD", "MAC"} =>
              Add(Summed(i), AddendFile(i), "MULT_OUT", i.dst, IdxDst(i, col)) \subseteq DecodeData(i, col)
         /\ i.op = "MOV" => DecodeData(i, col) = DecodeMov(i)
<1>1. /\ i.op = "ADD" => DecodeData(i, col) = DecodeAdd(i, col)
      /\ i.op = "MUL" => DecodeData(i, col) = DecodeMul(i, col)
      /\ i.op = "MOV" => DecodeData(i, col) = DecodeMov(i)
  BY DEF DecodeData
<1>2. i.op = "ADD" => Add(Late(i), i.src0, i.src1, i.dst, IdxDst(i, col)) \subseteq DecodeAdd(i, col)
  BY DEF DecodeAdd
<1>3. i.op \in {"MAD", "MAC"} =>
        /\ Add(Summed(i), AddendFile(i), "MULT_OUT", i.dst, IdxDst(i, col)) \subseteq DecodeData(i, col)
        /\ Multiply(i, col) \subseteq DecodeData(i, col)
  BY MultiplyAddDecode DEF MultiplyAdd, Summed, Multiplies
<1>4. i.op = "MUL" => Multiply(i, col) \subseteq DecodeData(i, col)
  BY <1>1 DEF DecodeMul
<1> QED BY <1>1, <1>2, <1>3, <1>4 DEF Multiplies

(* An arithmetic instruction writes its destination when it is done.       *)
LEMMA WriteSignals ==
  ASSUME NEW i \in DataInstructions, Supported(i), NEW col \in Column, i.op # "MOV"
  PROVE  /\ <<Done(i), <<i.dst, "wr_en">>, 1>> \in DecodeData(i, col)
         /\ <<Done(i), <<i.dst, "wr_addr">>, IdxDst(i, col)>> \in DecodeData(i, col)
         /\ <<Done(i), <<i.dst, "wr_from">>, 1>> \in DecodeData(i, col)
         /\ i.op = "MUL" => <<Done(i), <<"FPU", "out_sel">>, 1>> \in DecodeData(i, col)
<1>1. i.dst \in Grf /\ i.op \in {"ADD", "MUL", "MAD", "MAC"}
  BY OperandsAre
<1>2. CASE i.op = "ADD"
  <2>1. Done(i) = Late(i) + ADD_STAGES
    BY <1>2, StagesAre DEF Sums, Multiplies
  <2> QED BY <1>1, <1>2, <2>1, AddMembers, DecodeParts
<1>3. CASE i.op = "MUL"
  <2>1. Done(i) = Late(i) + MULT_STAGES
    BY <1>3, StagesAre DEF Sums, Multiplies
  <2>2. Mux.FPU = 1
    BY DEF Mux
  <2> QED BY <1>1, <1>3, <2>1, <2>2, MulIs, DecodeParts
<1>4. CASE i.op \in {"MAD", "MAC"}
  <2>1. Done(i) = Summed(i) + ADD_STAGES
    BY <1>4, StagesAre DEF Sums, Multiplies
  <2> DEFINE out2 == "MULT_OUT"
  <2>2. Add(Summed(i), AddendFile(i), out2, i.dst, IdxDst(i, col)) \subseteq DecodeData(i, col)
    BY <1>4, DecodeParts
  <2> HIDE DEF out2
  <2> QED BY <1>1, <1>4, <2>1, <2>2, AddMembers
<1> QED BY <1>1, <1>2, <1>3, <1>4

(* An instruction enables a unit for as many cycles as the unit has        *)
(* stages.                                                                 *)
LEMMA EnableSignals ==
  ASSUME NEW i \in DataInstructions, Supported(i), NEW col \in Column
  PROVE  /\ Multiplies(i) => \A k \in Late(i) .. Late(i) + MULT_STAGES - 1 :
                               <<k, <<"FPU", "mult_en">>, 1>> \in DecodeData(i, col)
         /\ Sums(i) => \A k \in Summed(i) .. Summed(i) + ADD_STAGES - 1 :
                         <<k, <<"FPU", "add_en">>, 1>> \in DecodeData(i, col)
<1>1. ASSUME Multiplies(i), NEW k \in Late(i) .. Late(i) + MULT_STAGES - 1
      PROVE  <<k, <<"FPU", "mult_en">>, 1>> \in DecodeData(i, col)
  BY <1>1, DecodeParts, EnableIs DEF Multiply
<1>2. ASSUME i.op = "ADD", NEW k \in Summed(i) .. Summed(i) + ADD_STAGES - 1
      PROVE  <<k, <<"FPU", "add_en">>, 1>> \in DecodeData(i, col)
  <2>1. Summed(i) = Late(i) /\ i.dst \in Grf
    BY <1>2, StagesAre, OperandsAre DEF Multiplies
  <2> QED BY <1>2, <2>1, DecodeParts, AddMembers
<1>3. ASSUME i.op \in {"MAD", "MAC"}, NEW k \in Summed(i) .. Summed(i) + ADD_STAGES - 1
      PROVE  <<k, <<"FPU", "add_en">>, 1>> \in DecodeData(i, col)
  <2> DEFINE out2 == "MULT_OUT"
  <2>1. Add(Summed(i), AddendFile(i), out2, i.dst, IdxDst(i, col)) \subseteq DecodeData(i, col)
    BY <1>3, DecodeParts
  <2>2. i.dst \in Grf
    BY <1>3, OperandsAre
  <2> HIDE DEF out2
  <2> QED BY <1>3, <2>1, <2>2, AddMembers
<1> QED BY <1>1, <1>2, <1>3 DEF Sums

(* A read port shows the register the instruction names.                   *)
LEMMA GrfShows ==
  ASSUME NEW dec, Single(dec), NEW d, NEW file \in Grf, NEW port, NEW n \in Index,
         <<d, <<file, port>>, n>> \in dec
  PROVE  GrfPort(At(dec, d), file, port) = regs[file][n]
<1>1. Sig(At(dec, d), file, port) = n
  BY SigIs
<1>2. n \in Entries(file)
  BY DEF Index, Entries, Grf
<1> QED BY <1>1, <1>2 DEF GrfPort, Shown

(* So does the SRF's only port, of the file the address bit selects.       *)
LEMMA SrfShows ==
  ASSUME NEW dec, Single(dec), NEW d, NEW a \in {0, 1}, NEW n \in Index,
         <<d, <<"SRF", "rd_addr">>, n>> \in dec, <<d, <<"SRF", "rd_a_nm">>, a>> \in dec
  PROVE  /\ a = 1 => SrfPort(At(dec, d)) = regs["SRF_A"][n]
         /\ a = 0 => SrfPort(At(dec, d)) = regs["SRF_M"][n]
<1>1. Sig(At(dec, d), "SRF", "rd_addr") = n /\ Sig(At(dec, d), "SRF", "rd_a_nm") = a
  BY SigIs
<1>2. n \in Entries("SRF_A") /\ n \in Entries("SRF_M")
  BY DEF Index, Entries, Grf
<1> QED BY <1>1, <1>2 DEF SrfPort, Shown, On

(* The operands of an instruction that runs on registers r, and that the   *)
(* words it loads are on the buses.                                        *)
Factor0(r, i, col, bank) == Operand(r, i.src0, Idx0(i, col), bank)
Factor1(r, i, col, bank) == Operand(r, i.src1, Idx1(i, col), bank)

OnBus(i, bank) == Loads(i) => \A b \in Banks : b \in {i.src0, i.src1} => bus[b] = bank[b]

(* When its operands are there, the multiplier of the FPU is fed the       *)
(* factors the instruction names.                                          *)
LEMMA ProductIs ==
  ASSUME NEW i \in DataInstructions, Supported(i), NEW col \in Column, Multiplies(i),
         Factor2File(i) = i.src1, NEW bank, OnBus(i, bank)
  PROVE  Product(At(DecodeData(i, col), Late(i)))
           = Times(Factor0(regs, i, col, bank), Factor1(regs, i, col, bank))
<1> DEFINE dec == DecodeData(i, col)
           now == At(dec, Late(i))
<1>1. Single(dec) /\ Multiply(i, col) \subseteq dec
  BY DecodeShape, DecodeParts
<1>2. i.src0 \in Grf \cup Banks /\ i.src1 \in Grf \cup Banks \cup {"SRF_M"}
  BY OperandsAre
<1>3. /\ <<Late(i), <<"FPU", "mult_in1_sel">>, M1Sel[i.src0]>> \in dec
      /\ <<Late(i), <<"FPU", "mult_in2_sel">>, M2Sel[i.src1]>> \in dec
      /\ i.src0 \in Grf => <<Late(i), <<i.src0, "rd_addr1">>, Idx0(i, col)>> \in dec
      /\ i.src1 \in Grf => <<Late(i), <<i.src1, "rd_addr2">>, Idx1(i, col)>> \in dec
      /\ i.src1 = "SRF_M" => /\ <<Late(i), <<"SRF", "rd_addr">>, Idx1(i, col)>> \in dec
                             /\ <<Late(i), <<"SRF", "rd_a_nm">>, 0>> \in dec
  BY <1>1, MultiplyIs
<1> HIDE DEF dec
<1>4. /\ Sig(now, "FPU", "mult_in1_sel") = M1Sel[i.src0]
      /\ Sig(now, "FPU", "mult_in2_sel") = M2Sel[i.src1]
  BY <1>1, <1>3, SigIs
<1>5. /\ i.src0 \in Grf => GrfPort(now, i.src0, "rd_addr1") = regs[i.src0][Idx0(i, col)]
      /\ i.src1 \in Grf => GrfPort(now, i.src1, "rd_addr2") = regs[i.src1][Idx1(i, col)]
  BY <1>1, <1>3, GrfShows, IndicesAre
<1>6. i.src1 = "SRF_M" => SrfPort(now) = regs["SRF_M"][Idx1(i, col)]
  BY <1>1, <1>3, SrfShows, IndicesAre
<1>7. /\ i.src0 \in Banks => bus[i.src0] = bank[i.src0]
      /\ i.src1 \in Banks => bus[i.src1] = bank[i.src1]
  BY DEF OnBus, Loads, Arithmetic, Multiplies
<1> HIDE DEF now
<1>8. /\ Factor0(regs, i, col, bank) =
           IF i.src0 \in Banks THEN bus[i.src0] ELSE GrfPort(now, i.src0, "rd_addr1")
      /\ Factor1(regs, i, col, bank) =
           IF i.src1 \in Banks THEN bus[i.src1] ELSE IF i.src1 = "SRF_M" THEN SrfPort(now)
           ELSE GrfPort(now, i.src1, "rd_addr2")
  BY <1>2, <1>5, <1>6, <1>7 DEF Factor0, Factor1, Operand, Grf, Banks
<1>9. M1Sel[i.src0] \in 0 .. 5 /\ FpuInputs(now)[M1Sel[i.src0] + 2] = Factor0(regs, i, col, bank)
  BY <1>2, <1>8 DEF M1Sel, FpuInputs, Grf, Banks
<1>10. M2Sel[i.src1] \in 0 .. 6 /\ FpuInputs(now)[M2Sel[i.src1] + 1] = Factor1(regs, i, col, bank)
  BY <1>2, <1>8 DEF M2Sel, FpuInputs, Grf, Banks
<1> QED BY <1>4, <1>9, <1>10 DEF Product, now, dec

(* The adder is fed the operands an ADD names.                             *)
LEMMA AdditionIs ==
  ASSUME NEW i \in DataInstructions, Supported(i), NEW col \in Column, i.op = "ADD",
         NEW bank, OnBus(i, bank)
  PROVE  Sum(At(DecodeData(i, col), Late(i)))
           = Plus(Factor0(regs, i, col, bank), Factor1(regs, i, col, bank))
<1> DEFINE dec == DecodeData(i, col)
           now == At(dec, Late(i))
<1>1. Single(dec) /\ dec = DecodeAdd(i, col)
      /\ Add(Late(i), i.src0, i.src1, i.dst, IdxDst(i, col)) \subseteq dec
  BY DecodeShape, DecodeParts
<1>2. /\ i.src0 \in Grf \cup Banks \cup {"SRF_A"} /\ i.src1 \in Grf \cup Banks \cup {"SRF_A"}
      /\ i.dst \in Grf /\ ~(i.src0 = "SRF_A" /\ i.src1 = "SRF_A")
  BY OperandsAre
<1>3. /\ <<Late(i), <<"FPU", "add_in1_sel">>, A1Sel[i.src0]>> \in dec
      /\ <<Late(i), <<"FPU", "add_in2_sel">>, A2Sel[i.src1]>> \in dec
  BY <1>1, <1>2, AddMembers
<1>4. /\ i.src0 \in Grf => <<Late(i), <<i.src0, "rd_addr1">>, Idx0(i, col)>> \in dec
      /\ i.src1 \in Grf => <<Late(i), <<i.src1, "rd_addr2">>, Idx1(i, col)>> \in dec
      /\ i.src0 = "SRF_A" => /\ <<Late(i), <<"SRF", "rd_addr">>, Idx0(i, col)>> \in dec
                             /\ <<Late(i), <<"SRF", "rd_a_nm">>, 1>> \in dec
      /\ i.src1 = "SRF_A" => /\ <<Late(i), <<"SRF", "rd_addr">>, Idx1(i, col)>> \in dec
                             /\ <<Late(i), <<"SRF", "rd_a_nm">>, 1>> \in dec
  BY <1>1, DecodeAddIs
<1> HIDE DEF dec
<1>5. /\ Sig(now, "FPU", "add_in1_sel") = A1Sel[i.src0]
      /\ Sig(now, "FPU", "add_in2_sel") = A2Sel[i.src1]
  BY <1>1, <1>3, SigIs
<1>6. /\ i.src0 \in Grf => GrfPort(now, i.src0, "rd_addr1") = regs[i.src0][Idx0(i, col)]
      /\ i.src1 \in Grf => GrfPort(now, i.src1, "rd_addr2") = regs[i.src1][Idx1(i, col)]
  BY <1>1, <1>4, GrfShows, IndicesAre
<1>7. /\ i.src0 = "SRF_A" => SrfPort(now) = regs["SRF_A"][Idx0(i, col)]
      /\ i.src1 = "SRF_A" => SrfPort(now) = regs["SRF_A"][Idx1(i, col)]
  BY <1>1, <1>4, SrfShows, IndicesAre
<1>8. /\ i.src0 \in Banks => bus[i.src0] = bank[i.src0]
      /\ i.src1 \in Banks => bus[i.src1] = bank[i.src1]
  BY DEF OnBus, Loads, Arithmetic
<1> HIDE DEF now
<1>9. /\ Factor0(regs, i, col, bank) =
           IF i.src0 \in Banks THEN bus[i.src0] ELSE IF i.src0 = "SRF_A" THEN SrfPort(now)
           ELSE GrfPort(now, i.src0, "rd_addr1")
      /\ Factor1(regs, i, col, bank) =
           IF i.src1 \in Banks THEN bus[i.src1] ELSE IF i.src1 = "SRF_A" THEN SrfPort(now)
           ELSE GrfPort(now, i.src1, "rd_addr2")
  BY <1>2, <1>6, <1>7, <1>8 DEF Factor0, Factor1, Operand, Grf, Banks
<1>10. A1Sel[i.src0] \in 1 .. 7 /\ FpuInputs(now)[A1Sel[i.src0]] = Factor0(regs, i, col, bank)
  BY <1>2, <1>9 DEF A1Sel, FpuInputs, Grf, Banks
<1>11. A2Sel[i.src1] \in 1 .. 7 /\ FpuInputs(now)[A2Sel[i.src1]] = Factor1(regs, i, col, bank)
  BY <1>2, <1>9 DEF A2Sel, FpuInputs, Grf, Banks
<1> QED BY <1>5, <1>10, <1>11 DEF Sum, now, dec

(* For MAD and MAC the adder is fed the addend and the product at the end  *)
(* of the multiplier.                                                      *)
LEMMA AddendIs ==
  ASSUME NEW i \in DataInstructions, Supported(i), NEW col \in Column, i.op \in {"MAD", "MAC"}
  PROVE  Sum(At(DecodeData(i, col), Summed(i)))
           = Plus(regs[AddendFile(i)][AddendIdx(i, col)], mulPipe[MULT_STAGES])
<1> DEFINE dec == DecodeData(i, col)
           now == At(dec, Summed(i))
           file == AddendFile(i)
           n == AddendIdx(i, col)
           out2 == "MULT_OUT"
<1>1. /\ Single(dec) /\ dec = MultiplyAdd(i, col, file, n) /\ file \in Grf \cup {"SRF_A"} /\ n \in Index
      /\ Add(Summed(i), file, out2, i.dst, IdxDst(i, col)) \subseteq dec
      /\ Summed(i) = Late(i) + MULT_STAGES
  BY DecodeShape, DecodeParts, MultiplyAddDecode, StagesAre DEF Multiplies
<1>2. i.dst \in Grf
  BY OperandsAre
<1>3. A2Sel[out2] = 0
  BY DEF A2Sel
<1> HIDE DEF file, n, out2
<1>4. /\ <<Summed(i), <<"FPU", "add_in1_sel">>, A1Sel[file]>> \in dec
      /\ <<Summed(i), <<"FPU", "add_in2_sel">>, A2Sel[out2]>> \in dec
  BY <1>1, <1>2, AddMembers
<1>5. /\ file \in Grf => <<Summed(i), <<file, "rd_addr1">>, n>> \in dec
      /\ file = "SRF_A" => /\ <<Summed(i), <<"SRF", "rd_addr">>, n>> \in dec
                           /\ <<Summed(i), <<"SRF", "rd_a_nm">>, 1>> \in dec
  BY <1>1, MultiplyAddIs
<1> HIDE DEF dec
<1>6. Sig(now, "FPU", "add_in1_sel") = A1Sel[file] /\ Sig(now, "FPU", "add_in2_sel") = 0
  BY <1>1, <1>3, <1>4, SigIs
<1>7. file \in Grf => GrfPort(now, file, "rd_addr1") = regs[file][n]
  BY <1>1, <1>5, GrfShows
<1>8. file = "SRF_A" => SrfPort(now) = regs["SRF_A"][n]
  BY <1>1, <1>5, SrfShows
<1> HIDE DEF now
<1>9. A1Sel[file] \in 1 .. 7 /\ FpuInputs(now)[A1Sel[file]] = regs[file][n]
  BY <1>1, <1>7, <1>8 DEF A1Sel, FpuInputs, Grf
<1> QED BY <1>6, <1>9 DEF Sum, now, dec, file, n

-----------------------------------------------------------------------------
(* Arithmetic on lanes stays within a lane: results are cut to its width.  *)
LEMMA LaneClosed ==
  /\ \A x, y \in Lane : Plus(x, y) \in Lane /\ Times(x, y) \in Lane
  /\ \A x \in Lane : Relu(x) \in Lane
  /\ 0 \in Lane
<1>1. \A x \in Int : Wrap(x) \in Lane
  BY DataIsaAssumption DEF Wrap, Lane
<1>2. \A x, y \in Lane : x + y \in Int /\ x * y \in Int
  BY DEF Lane
<1> QED BY <1>1, <1>2, DataIsaAssumption DEF Plus, Times, Relu, Lane

(* The types of the data path, its control signals apart.                  *)
DpTypes ==
  /\ regs \in RegisterFiles
  /\ mulPipe \in [1 .. MULT_STAGES -> Lane]
  /\ addPipe \in [1 .. ADD_STAGES -> Lane]
  /\ bus \in [Banks -> Lane]

(* A register file maps its entries to lanes.                              *)
LEMMA FilesAre ==
  ASSUME NEW r \in RegisterFiles, NEW file \in Grf \cup Srf
  PROVE  r[file] \in [Entries(file) -> Lane]
  BY DEF RegisterFiles, Grf, Srf

(* Two register files that agree in every file are the same.               *)
LEMMA SameFiles ==
  ASSUME NEW r \in RegisterFiles, NEW q \in RegisterFiles, \A f \in Grf \cup Srf : r[f] = q[f]
  PROVE  r = q
  BY DEF RegisterFiles, Grf, Srf

(* One register written: that one changes and no other.                    *)
LEMMA FileWritten ==
  ASSUME NEW r \in RegisterFiles, NEW file \in Grf \cup Srf, NEW n \in Entries(file), NEW x \in Lane,
         NEW q, q = [r EXCEPT ![file][n] = x]
  PROVE  /\ q \in RegisterFiles
         /\ \A f \in Grf \cup Srf : \A m \in Entries(f) :
              q[f][m] = IF f = file /\ m = n THEN x ELSE r[f][m]
  BY DEF RegisterFiles, Grf, Srf

(* The read ports and the inputs of the FPU carry lanes.                   *)
LEMMA PortTypes ==
  ASSUME DpTypes, NEW now
  PROVE  /\ \A file \in Grf, port \in {"rd_addr1", "rd_addr2"} : GrfPort(now, file, port) \in Lane
         /\ SrfPort(now) \in Lane
         /\ FpuInputs(now) \in [1 .. 7 -> Lane]
<1>1. \A file \in Grf \cup Srf : \A n : Shown(file, n) \in Lane
  BY FilesAre, LaneClosed DEF Shown, DpTypes
<1>2. /\ \A file \in Grf, port \in {"rd_addr1", "rd_addr2"} : GrfPort(now, file, port) \in Lane
      /\ SrfPort(now) \in Lane
  BY <1>1 DEF GrfPort, SrfPort, Srf
<1>3. bus["EVEN_BANK"] \in Lane /\ bus["ODD_BANK"] \in Lane
  BY DEF DpTypes, Banks
<1> QED BY <1>2, <1>3 DEF FpuInputs, Grf

(* The units of the FPU carry lanes.                                       *)
LEMMA UnitTypes ==
  ASSUME DpTypes, NEW now
  PROVE  /\ Product(now) \in Lane
         /\ Sum(now) \in Lane
         /\ FpuOut(now) \in Lane
<1>1. FpuInputs(now) \in [1 .. 7 -> Lane]
  BY PortTypes
<1>2. mulPipe[MULT_STAGES] \in Lane /\ addPipe[ADD_STAGES] \in Lane
  BY DataPathAssumption DEF DpTypes
<1>3. Product(now) \in Lane
  BY <1>1, LaneClosed DEF Product
<1>4. Sum(now) \in Lane
  BY <1>1, <1>2, LaneClosed DEF Sum
<1> QED BY <1>2, <1>3, <1>4 DEF FpuOut

(* So does what is written to a register, and a cycle leaves register      *)
(* files behind.                                                           *)
LEMMA WrittenType ==
  ASSUME DpTypes, NEW now, NEW ext \in Lane
  PROVE  /\ \A file \in Grf : GrfInput(now, file, ext) \in Lane
         /\ SrfInput(now, ext) \in Lane
         /\ \A file \in Grf \cup Srf : Written(now, file, ext) \in [Entries(file) -> Lane]
         /\ [file \in Grf \cup Srf |-> Written(now, file, ext)] \in RegisterFiles
<1>1. /\ GrfPort(now, "GRF_A", "rd_addr1") \in Lane /\ GrfPort(now, "GRF_B", "rd_addr1") \in Lane
      /\ SrfPort(now) \in Lane /\ FpuOut(now) \in Lane
  BY PortTypes, UnitTypes DEF Grf
<1>2. bus["EVEN_BANK"] \in Lane /\ bus["ODD_BANK"] \in Lane
  BY DEF DpTypes, Banks
<1>3. ASSUME NEW file \in Grf PROVE GrfInput(now, file, ext) \in Lane
  <2> DEFINE word == bus[IF file = "GRF_A" THEN "EVEN_BANK" ELSE "ODD_BANK"]
             a == GrfPort(now, "GRF_A", "rd_addr1")
             b == GrfPort(now, "GRF_B", "rd_addr1")
             choices == <<ext, FpuOut(now), a, b, SrfPort(now), word, word>>
             from == Sig(now, file, "wr_from")
  <2>1. word \in Lane
    BY <1>2
  <2>2. choices \in [1 .. 7 -> Lane]
    BY <1>1, <2>1
  <2> HIDE DEF choices
  <2>3. (IF from \in 0 .. 6 THEN choices[from + 1] ELSE 0) \in Lane
    BY <2>2, LaneClosed
  <2> QED BY <2>3, LaneClosed DEF GrfInput, choices
<1>4. SrfInput(now, ext) \in Lane
  BY <1>1, LaneClosed DEF SrfInput
<1>5. ASSUME NEW file \in Grf \cup Srf PROVE Written(now, file, ext) \in [Entries(file) -> Lane]
  BY <1>3, <1>4, FilesAre DEF Written, DpTypes
<1>6. [file \in Grf \cup Srf |-> Written(now, file, ext)] \in RegisterFiles
  BY <1>5 DEF RegisterFiles, Grf, Srf
<1> QED BY <1>3, <1>4, <1>5, <1>6

(* A pipeline that moves takes a value in and passes the others on.        *)
LEMMA ShiftedIs ==
  ASSUME NEW N \in Nat, N > 0, NEW pipe \in [1 .. N -> Lane], NEW x \in Lane
  PROVE  /\ Shifted(pipe, x) \in [1 .. N -> Lane]
         /\ Shifted(pipe, x)[1] = x
         /\ \A k \in 2 .. N : Shifted(pipe, x)[k] = pipe[k - 1]
<1>1. pipe \in Seq(Lane) /\ Len(pipe) = N
  OBVIOUS
<1>2. SubSeq(pipe, 1, N - 1) = [k \in 1 .. N - 1 |-> pipe[k]]
  BY <1>1
<1>3. SubSeq(pipe, 1, N - 1) \in Seq(Lane) /\ Len(SubSeq(pipe, 1, N - 1)) = N - 1
  BY <1>1
<1>4. <<x>> \in Seq(Lane) /\ Len(<<x>>) = 1 /\ <<x>>[1] = x
  OBVIOUS
<1>5. Shifted(pipe, x) \in Seq(Lane) /\ Len(Shifted(pipe, x)) = N
  BY <1>1, <1>3, <1>4 DEF Shifted
<1>6. Shifted(pipe, x)[1] = x /\ \A k \in 2 .. N : Shifted(pipe, x)[k] = SubSeq(pipe, 1, N - 1)[k - 1]
  BY <1>1, <1>3, <1>4 DEF Shifted
<1> QED BY <1>2, <1>5, <1>6

(* The registers after a cycle; one register changed; the unit a file is   *)
(* written through and what is written.                                    *)
NextRegs(now, ext) == [file \in Grf \cup Srf |-> Written(now, file, ext)]
Update(r, file, n, x) == [r EXCEPT ![file][n] = x]

Unit(file) == IF file \in Grf THEN file ELSE "SRF"
Input(now, file, ext) == IF file \in Grf THEN GrfInput(now, file, ext) ELSE SrfInput(now, ext)

(* Where nothing drives a write enable the registers stay.                 *)
LEMMA NotWritten ==
  ASSUME DpTypes, NEW dec, NEW d, NEW ext \in Lane,
         \A x \in dec : x[1] = d => x[2][2] # "wr_en"
  PROVE  NextRegs(At(dec, d), ext) = regs
<1> DEFINE now == At(dec, d)
<1>1. ASSUME NEW u PROVE Sig(now, u, "wr_en") = 0
  <2>1. \A x \in dec : x[1] = d => x[2] # <<u, "wr_en">>
    OBVIOUS
  <2> QED BY <2>1, NoSig
<1> HIDE DEF now
<1>2. \A file \in Grf \cup Srf : ~Writes(now, file)
  BY <1>1 DEF Writes, On
<1>3. ASSUME NEW file \in Grf \cup Srf PROVE Written(now, file, ext) = regs[file]
  BY <1>2, FilesAre DEF Written, DpTypes
<1>4. [file \in Grf \cup Srf |-> Written(now, file, ext)] \in RegisterFiles
  BY WrittenType
<1> QED BY <1>3, <1>4, SameFiles DEF DpTypes, now, NextRegs

(* Where the signals of one write are driven, that register changes and no *)
(* other.                                                                  *)
LEMMA OneWritten ==
  ASSUME DpTypes, NEW dec, Single(dec), NEW d, NEW ext \in Lane,
         NEW file \in Grf \cup Srf, NEW n \in Entries(file),
         <<d, <<Unit(file), "wr_en">>, 1>> \in dec,
         <<d, <<Unit(file), "wr_addr">>, n>> \in dec,
         file \in Srf => <<d, <<"SRF", "wr_a_nm">>, IF file = "SRF_A" THEN 1 ELSE 0>> \in dec,
         \A x \in dec : x[1] = d /\ x[2][2] = "wr_en" => x[2][1] = Unit(file)
  PROVE  NextRegs(At(dec, d), ext) = Update(regs, file, n, Input(At(dec, d), file, ext))
<1> DEFINE now == At(dec, d)
           v == Input(now, file, ext)
<1>1. /\ Sig(now, Unit(file), "wr_en") = 1
      /\ Sig(now, Unit(file), "wr_addr") = n
      /\ file \in Srf => Sig(now, "SRF", "wr_a_nm") = IF file = "SRF_A" THEN 1 ELSE 0
  BY SigIs
<1>2. \A u : u # Unit(file) => Sig(now, u, "wr_en") = 0
  BY NoSig
<1>3. v \in Lane
  BY WrittenType DEF Input
<1> HIDE DEF now
<1>4. \A f \in Grf \cup Srf : Writes(now, f) <=> f = file
  BY <1>1, <1>2 DEF Writes, On, Unit, Grf, Srf
<1>5. Written(now, file, ext) = [m \in Entries(file) |-> IF m = n THEN v ELSE regs[file][m]]
  BY <1>1, <1>4 DEF Written, Unit, Input
<1>6. ASSUME NEW f \in Grf \cup Srf, f # file
      PROVE  Written(now, f, ext) = [m \in Entries(f) |-> regs[f][m]]
  BY <1>4, <1>6 DEF Written
<1> HIDE DEF v
<1> DEFINE after == [regs EXCEPT ![file][n] = v]
<1>a. after = [regs EXCEPT ![file][n] = v]
  OBVIOUS
<1> HIDE DEF after
<1>b. regs \in RegisterFiles /\ after \in RegisterFiles
  BY <1>3, <1>a, FileWritten DEF DpTypes
<1>7. ASSUME NEW f \in Grf \cup Srf PROVE Written(now, f, ext) = after[f]
  <2>1. Written(now, f, ext) \in [Entries(f) -> Lane] /\ after[f] \in [Entries(f) -> Lane]
    BY <1>b, FilesAre, WrittenType
  <2>2. ASSUME NEW m \in Entries(f) PROVE after[f][m] = IF f = file /\ m = n THEN v ELSE regs[f][m]
    <3> HIDE DEF v, after
    <3>1. \A g \in Grf \cup Srf : \A k \in Entries(g) :
              after[g][k] = IF g = file /\ k = n THEN v ELSE regs[g][k]
      BY <1>a, <1>b DEF RegisterFiles, Grf, Srf
    <3> QED BY <3>1
  <2>3. ASSUME NEW m \in Entries(f) PROVE Written(now, f, ext)[m] = after[f][m]
    BY <1>5, <1>6, <2>2
  <2> QED BY <2>1, <2>3
<1>8. [f \in Grf \cup Srf |-> Written(now, f, ext)] \in RegisterFiles
  BY WrittenType
<1> QED BY <1>7, <1>8, <1>b, SameFiles DEF now, v, after, NextRegs, Update

-----------------------------------------------------------------------------
(* Instruction i, s cycles after its decoding on registers r: its result   *)
(* is stored once it is done, and until then its product and its sum are   *)
(* in the stage of the pipelines they have reached.                        *)
Under(i, col, bank, r, s) ==
  /\ regs = IF s > Done(i) THEN Executed(r, i, col, bank) ELSE r
  /\ Multiplies(i) => \A k \in 1 .. MULT_STAGES :
       s = Late(i) + k => mulPipe[k] = Times(Factor0(r, i, col, bank), Factor1(r, i, col, bank))
  /\ Sums(i) => \A k \in 1 .. ADD_STAGES :
       s = Summed(i) + k => addPipe[k] = Result(r, i, col, bank)
  /\ s = 1 => OnBus(i, bank)

(* The result of the reference, in terms of the operands.                  *)
LEMMA ResultIs ==
  ASSUME NEW i \in DataInstructions, Supported(i), NEW col \in Column, NEW r \in RegisterFiles,
         NEW bank \in [Banks -> Lane]
  PROVE  /\ i.op = "ADD" => Result(r, i, col, bank)
              = Plus(Factor0(r, i, col, bank), Factor1(r, i, col, bank))
         /\ i.op = "MUL" => Result(r, i, col, bank)
              = Times(Factor0(r, i, col, bank), Factor1(r, i, col, bank))
         /\ i.op \in {"MAD", "MAC"} => Result(r, i, col, bank)
              = Plus(r[AddendFile(i)][AddendIdx(i, col)],
                     Times(Factor0(r, i, col, bank), Factor1(r, i, col, bank)))
<1> DEFINE a == Factor0(r, i, col, bank)
           b == Factor1(r, i, col, bank)
<1>1. /\ i.op = "ADD" => Result(r, i, col, bank) = Plus(a, b)
      /\ i.op = "MUL" => Result(r, i, col, bank) = Times(a, b)
      /\ i.op = "MAD" => Result(r, i, col, bank)
           = Plus(Times(a, b), Operand(r, i.src2, IdxAddend(i, col), bank))
      /\ i.op = "MAC" => Result(r, i, col, bank) = Plus(Times(a, b), r[i.dst][IdxDst(i, col)])
  BY DEF Result, Factor0, Factor1
<1> DEFINE c == r[AddendFile(i)][AddendIdx(i, col)]
           p == Times(a, b)
<1>2. i.op \in {"MAD", "MAC"} => Result(r, i, col, bank) = Plus(p, c)
  <2>1. CASE i.op = "MAD"
    <3>1. i.src2 \notin Banks
      BY <2>1, OperandsAre DEF Grf, Banks
    <3> QED BY <1>1, <2>1, <3>1 DEF Operand, AddendFile, AddendIdx
  <2>2. CASE i.op = "MAC"
    BY <1>1, <2>2 DEF AddendFile, AddendIdx
  <2> QED BY <2>1, <2>2
<1>3. i.op \in {"MAD", "MAC"} => a \in Lane /\ b \in Lane /\ c \in Lane
  <2> SUFFICES ASSUME i.op \in {"MAD", "MAC"} PROVE a \in Lane /\ b \in Lane /\ c \in Lane
    OBVIOUS
  <2>1. /\ i.src0 \in Grf \cup Banks /\ i.src1 \in Grf \cup Banks \cup {"SRF_M"}
        /\ AddendFile(i) \in Grf \cup {"SRF_A"} /\ AddendIdx(i, col) \in Index
    BY OperandsAre, MultiplyAddDecode DEF Multiplies
  <2>2. ASSUME NEW f \in Grf \cup Srf, NEW n \in Index PROVE r[f][n] \in Lane
    <3>1. n \in Entries(f)
      BY DEF Index, Entries, Grf, Srf
    <3> QED BY <3>1, FilesAre
  <2>3. c \in Lane
    BY <2>1, <2>2 DEF Srf
  <2> QED BY <2>1, <2>2, <2>3, IndicesAre DEF Factor0, Factor1, Operand, Srf
<1> HIDE DEF a, b, c
<1>4. i.op \in {"MAD", "MAC"} => p \in Lane
  BY <1>3, LaneClosed
<1>5. i.op \in {"MAD", "MAC"} => Plus(p, c) = Plus(c, p)
  BY <1>3, <1>4 DEF Plus, Lane
<1> QED BY <1>1, <1>2, <1>5 DEF a, b, c

(* Every index names a register of every file, and it holds a lane.        *)
LEMMA RegisterLane ==
  ASSUME NEW r \in RegisterFiles, NEW f \in Grf \cup Srf, NEW n \in Index
  PROVE  r[f][n] \in Lane /\ n \in Entries(f)
<1>1. n \in Entries(f)
  BY DEF Index, Entries, Grf, Srf
<1> QED BY <1>1, FilesAre

(* The reference keeps to the types.                                       *)
LEMMA ExecutedTypes ==
  ASSUME NEW i \in DataInstructions, Supported(i), NEW col \in Column, NEW r \in RegisterFiles,
         NEW bank \in [Banks -> Lane]
  PROVE  /\ Factor0(r, i, col, bank) \in Lane
         /\ i.op # "MOV" => Factor1(r, i, col, bank) \in Lane
         /\ Result(r, i, col, bank) \in Lane
         /\ Executed(r, i, col, bank) \in RegisterFiles
<1>1. \A f \in Grf \cup Srf, n \in Index : r[f][n] \in Lane
  BY RegisterLane
<1>2. Factor0(r, i, col, bank) \in Lane
  BY <1>1, IndicesAre DEF Factor0, Operand, DataInstructions, Operands
<1>3. i.op # "MOV" => Factor1(r, i, col, bank) \in Lane
  <2>1. i.op # "MOV" => i.src1 \in Grf \cup Srf \cup Banks
    BY OperandsAre DEF Multiplies, Srf
  <2> QED BY <1>1, <2>1, IndicesAre DEF Factor1, Operand
<1>4. Result(r, i, col, bank) \in Lane
  <2>1. CASE i.op = "MOV"
    <3>1. Result(r, i, col, bank) = IF i.relu /\ i.dst \in Grf THEN Relu(Factor0(r, i, col, bank))
                                    ELSE Factor0(r, i, col, bank)
      BY <2>1 DEF Result, Factor0
    <3> QED BY <1>2, <3>1, LaneClosed
  <2>2. CASE i.op \in {"ADD", "MUL"}
    BY <1>2, <1>3, <2>2, ResultIs, LaneClosed
  <2>3. CASE i.op \in {"MAD", "MAC"}
    <3>1. r[AddendFile(i)][AddendIdx(i, col)] \in Lane
      BY <1>1, <2>3, MultiplyAddDecode DEF Srf
    <3> QED BY <1>2, <1>3, <2>3, <3>1, ResultIs, LaneClosed
  <2> QED BY <2>1, <2>2, <2>3, OperandsAre
<1>5. Executed(r, i, col, bank) \in RegisterFiles
  <2>1. CASE Stores(i) \/ (i.op = "MOV" /\ ~Moves(i))
    BY <2>1 DEF Executed
  <2>2. CASE ~(Stores(i) \/ (i.op = "MOV" /\ ~Moves(i)))
    <3>1. i.dst \in Grf \cup Srf
      BY <2>2, OperandsAre DEF Stores, Moves, DataInstructions, Operands
    <3>2. IdxDst(i, col) \in Entries(i.dst)
      BY <3>1, IndicesAre, RegisterLane
    <3>3. Executed(r, i, col, bank) = [r EXCEPT ![i.dst][IdxDst(i, col)] = Result(r, i, col, bank)]
      BY <2>2 DEF Executed
    <3> DEFINE v == Result(r, i, col, bank)  dst == i.dst  n == IdxDst(i, col)
    <3>4. v \in Lane /\ dst \in Grf \cup Srf /\ n \in Entries(dst)
      BY <1>4, <3>1, <3>2
    <3>5. Executed(r, i, col, bank) = [r EXCEPT ![dst][n] = v]
      BY <3>3
    <3> HIDE DEF v, dst, n
    <3>6. [r EXCEPT ![dst][n] = v] \in RegisterFiles
      BY <3>4 DEF RegisterFiles, Grf, Srf
    <3> QED BY <3>5, <3>6
  <2> QED BY <2>1, <2>2
<1> QED BY <1>2, <1>3, <1>4, <1>5

(* What a MOV stores is the register, the SRF's port or the bank word it   *)
(* names, with ReLU if it asks for it.                                     *)
LEMMA MovInput ==
  ASSUME NEW i \in DataInstructions, Supported(i), NEW col \in Column, i.op = "MOV", ~Stores(i),
         NEW bank, OnBus(i, bank), NEW ext
  PROVE  Input(At(DecodeData(i, col), Late(i)), i.dst, ext) = Result(regs, i, col, bank)
<1> DEFINE dec == DecodeData(i, col)
           now == At(dec, Late(i))
           v == Factor0(regs, i, col, bank)
<1>1. /\ dec = DecodeMov(i) /\ Single(dec) /\ Moves(i) /\ i.dst \in Grf \cup Srf
      /\ Loads(i) <=> i.src0 \in Banks
      /\ Idx0(i, col) = i.n0 /\ i.n0 \in Index
  BY DecodeParts, DecodeShape, OperandsAre, IndicesAre
     DEF Stores, Loads, Arithmetic, Idx0, Aligned, DataInstructions, Operands
<1>2. <<Late(i), <<Unit(i.dst), "wr_from">>, Mux[i.src0]>> \in dec
  BY <1>1, MovIs, WriteGrfIs, WriteSrfIs DEF Unit, Grf, Srf
<1>3. i.dst \in Grf /\ i.relu => <<Late(i), <<i.dst, "relu_en">>, 1>> \in dec
  BY <1>1, MovIs
<1>4. ~i.relu => \A x \in dec : x[1] = Late(i) => x[2] # <<i.dst, "relu_en">>
  <2> SUFFICES ASSUME ~i.relu, NEW x \in dec PROVE x[2] # <<i.dst, "relu_en">>
    OBVIOUS
  <2>1. CASE x \in ReadReg(0, i.src0, "rd_addr1", i.n0)
    BY <2>1, ReadRegIs DEF DataInstructions, Operands
  <2>2. CASE x = <<0, <<i.dst, "out_en">>, 1>>
    BY <2>2
  <2>3. CASE x \in WriteReg(Late(i), i.dst, i.dn, Mux[i.src0])
    BY <1>1, <2>3, WriteGrfIs, WriteSrfIs
  <2> QED BY <1>1, <2>1, <2>2, <2>3, MovIs
<1>5. ~Loads(i) => /\ Late(i) = 0
                   /\ ReadReg(0, i.src0, "rd_addr1", i.n0) \subseteq dec
                   /\ i.src0 \in Grf \cup Srf
  BY <1>1, MovIs DEF Late, DataInstructions, Operands
<1>6. i.src0 \in Grf => <<Late(i), <<i.src0, "rd_addr1">>, i.n0>> \in dec
  BY <1>1, <1>5, ReadRegIs DEF Grf, Banks
<1>7. i.src0 \in Srf => /\ <<Late(i), <<"SRF", "rd_addr">>, i.n0>> \in dec
                        /\ <<Late(i), <<"SRF", "rd_a_nm">>, IF i.src0 = "SRF_A" THEN 1 ELSE 0>> \in dec
  BY <1>1, <1>5, ReadRegIs DEF Srf, Banks
<1> HIDE DEF dec
<1>8. Sig(now, Unit(i.dst), "wr_from") = Mux[i.src0]
  BY <1>1, <1>2, SigIs
<1>9. i.dst \in Grf => (On(now, i.dst, "relu_en") <=> i.relu)
  <2>1. i.dst \in Grf /\ i.relu => Sig(now, i.dst, "relu_en") = 1
    BY <1>1, <1>3, SigIs
  <2>2. ~i.relu => Sig(now, i.dst, "relu_en") = 0
    BY <1>4, NoSig
  <2> QED BY <2>1, <2>2 DEF On
<1>10. i.src0 \in Grf => GrfPort(now, i.src0, "rd_addr1") = v
  <2>1. i.src0 \in Grf => GrfPort(now, i.src0, "rd_addr1") = regs[i.src0][i.n0]
    BY <1>1, <1>6, GrfShows
  <2> QED BY <1>1, <2>1 DEF Factor0, Operand, Grf, Banks
<1>11. i.src0 \in Srf => SrfPort(now) = v
  <2>1. CASE i.src0 = "SRF_A"
    <3>1. SrfPort(now) = regs["SRF_A"][i.n0]
      BY <1>1, <1>7, <2>1, SrfShows DEF Srf
    <3> QED BY <1>1, <2>1, <3>1 DEF Factor0, Operand, Banks
  <2>2. CASE i.src0 = "SRF_M"
    <3>1. SrfPort(now) = regs["SRF_M"][i.n0]
      BY <1>1, <1>7, <2>2, SrfShows DEF Srf
    <3> QED BY <1>1, <2>2, <3>1 DEF Factor0, Operand, Banks
  <2> QED BY <2>1, <2>2 DEF Srf
<1>12. i.src0 \in Banks => bus[i.src0] = v
  BY <1>1 DEF OnBus, Factor0, Operand
<1>13. Result(regs, i, col, bank) = IF i.relu /\ i.dst \in Grf THEN Relu(v) ELSE v
  BY DEF Result, Factor0
<1> HIDE DEF now, v
<1>14. \/ <<i.dst, i.src0>> \in {<<"GRF_A", "EVEN_BANK">>, <<"GRF_B", "ODD_BANK">>}
       \/ i.src0 \in Grf \cup Srf
  BY <1>1 DEF Moves, Grf, Srf
<1>15. CASE i.dst \in Grf
  <2> DEFINE word == bus[IF i.dst = "GRF_A" THEN "EVEN_BANK" ELSE "ODD_BANK"]
             a == GrfPort(now, "GRF_A", "rd_addr1")
             b == GrfPort(now, "GRF_B", "rd_addr1")
             choices == <<ext, FpuOut(now), a, b, SrfPort(now), word, word>>
             from == Sig(now, i.dst, "wr_from")
             x == IF from \in 0 .. 6 THEN choices[from + 1] ELSE 0
  <2>1. from = Mux[i.src0]
    BY <1>8, <1>15 DEF Unit
  <2>2. x = v
    <3>1. CASE i.src0 = "GRF_A"
      BY <1>10, <2>1, <3>1 DEF Mux, Grf
    <3>2. CASE i.src0 = "GRF_B"
      BY <1>10, <2>1, <3>2 DEF Mux, Grf
    <3>3. CASE i.src0 \in Srf
      BY <1>11, <2>1, <3>3 DEF Mux, Srf
    <3>4. CASE i.src0 \in Banks
      BY <1>12, <1>14, <2>1, <3>4 DEF Mux, Banks, Grf, Srf
    <3> QED BY <1>14, <3>1, <3>2, <3>3, <3>4 DEF Grf, Banks
  <2>3. GrfInput(now, i.dst, ext) = IF On(now, i.dst, "relu_en") THEN Relu(x) ELSE x
    BY DEF GrfInput
  <2> HIDE DEF x
  <2> QED BY <1>9, <1>13, <1>15, <2>2, <2>3 DEF Input, now, dec
<1>16. CASE i.dst \in Srf
  <2>1. Sig(now, "SRF", "wr_from") = Mux[i.src0] /\ i.dst \notin Grf
    BY <1>8, <1>16 DEF Unit, Grf, Srf
  <2>2. i.src0 \in Grf \cup Srf
    BY <1>14, <1>16 DEF Srf
  <2>3. SrfInput(now, ext) = v
    BY <1>10, <1>11, <2>1, <2>2 DEF SrfInput, Mux, Grf, Srf
  <2> QED BY <1>13, <2>1, <2>3 DEF Input, now, dec
<1> QED BY <1>1, <1>15, <1>16

(* A loaded word is on its bus when the operands are read.                 *)
LEMMA BusInTime ==
  ASSUME NEW i, NEW col, NEW bank, NEW r, Under(i, col, bank, r, Late(i))
  PROVE  OnBus(i, bank)
  BY StagesAre DEF Under, OnBus

(* What an arithmetic instruction stores is its result: the multiplexer of *)
(* the FPU's output passes the unit it used.                               *)
LEMMA ArithmeticInput ==
  ASSUME DpTypes, NEW i \in DataInstructions, Supported(i), NEW col \in Column, i.op # "MOV",
         NEW bank \in [Banks -> Lane], NEW r \in RegisterFiles, Under(i, col, bank, r, Done(i)), NEW ext
  PROVE  Input(At(DecodeData(i, col), Done(i)), i.dst, ext) = Result(r, i, col, bank)
<1> DEFINE dec == DecodeData(i, col)
           now == At(dec, Done(i))
<1>1. /\ i.dst \in Grf /\ i.op \in {"ADD", "MUL", "MAD", "MAC"} /\ Single(dec) /\ Shape(i, dec)
      /\ <<Done(i), <<i.dst, "wr_from">>, 1>> \in dec
      /\ i.op = "MUL" => <<Done(i), <<"FPU", "out_sel">>, 1>> \in dec
  BY OperandsAre, DecodeShape, WriteSignals
<1> HIDE DEF dec
<1>2. Sig(now, i.dst, "wr_from") = 1
  BY <1>1, SigIs
<1>3. Sig(now, i.dst, "relu_en") = 0
  BY <1>1, NoSig DEF Shape
<1>4. On(now, "FPU", "out_sel") <=> i.op = "MUL"
  <2>1. i.op = "MUL" => Sig(now, "FPU", "out_sel") = 1
    BY <1>1, SigIs
  <2>2. i.op # "MUL" => Sig(now, "FPU", "out_sel") = 0
    BY <1>1, NoSig DEF Shape
  <2> QED BY <2>1, <2>2 DEF On
<1>5. FpuOut(now) = Result(r, i, col, bank)
  <2>1. CASE i.op = "MUL"
    <3>1. Multiplies(i) /\ Done(i) = Late(i) + MULT_STAGES /\ MULT_STAGES \in 1 .. MULT_STAGES
      BY <2>1, StagesAre DEF Multiplies, Sums
    <3>2. mulPipe[MULT_STAGES] = Times(Factor0(r, i, col, bank), Factor1(r, i, col, bank))
      BY <3>1 DEF Under
    <3> QED BY <1>4, <2>1, <3>2, ResultIs DEF FpuOut
  <2>2. CASE i.op # "MUL"
    <3>1. Sums(i) /\ Done(i) = Summed(i) + ADD_STAGES /\ ADD_STAGES \in 1 .. ADD_STAGES
      BY <1>1, <2>2, StagesAre DEF Sums
    <3>2. addPipe[ADD_STAGES] = Result(r, i, col, bank)
      BY <3>1 DEF Under
    <3> QED BY <1>4, <2>2, <3>2 DEF FpuOut
  <2> QED BY <2>1, <2>2
<1> HIDE DEF now
<1>6. GrfInput(now, i.dst, ext) = FpuOut(now)
  BY <1>2, <1>3 DEF GrfInput, On
<1> QED BY <1>1, <1>5, <1>6 DEF Input, now, dec

(* One cycle of an instruction under way: the registers change when it is  *)
(* done and not before.                                                    *)
LEMMA StepRegs ==
  ASSUME DpTypes, NEW i \in DataInstructions, Supported(i), NEW col \in Column,
         NEW bank \in [Banks -> Lane], NEW r \in RegisterFiles, NEW s \in Nat,
         Under(i, col, bank, r, s), NEW ext \in Lane
  PROVE  NextRegs(At(DecodeData(i, col), s), ext)
           = IF s + 1 > Done(i) THEN Executed(r, i, col, bank) ELSE r
<1> DEFINE dec == DecodeData(i, col)
           now == At(dec, s)
<1>1. Single(dec) /\ Shape(i, dec) /\ Done(i) \in Nat
  BY DecodeShape, StagesAre
<1>2. CASE s # Done(i) \/ Stores(i)
  <2>1. \A x \in dec : x[1] = s => x[2][2] # "wr_en"
    BY <1>1, <1>2 DEF Shape
  <2>2. NextRegs(now, ext) = regs
    BY <2>1, NotWritten
  <2>3. Stores(i) => Executed(r, i, col, bank) = r
    BY DEF Executed
  <2> QED BY <1>1, <1>2, <2>2, <2>3 DEF Under
<1>3. CASE s = Done(i) /\ ~Stores(i)
  <2> DEFINE n == IdxDst(i, col)
  <2>1. /\ i.dst \in Grf \cup Srf /\ n \in Index /\ regs = r
        /\ Executed(r, i, col, bank) = Update(r, i.dst, n, Result(r, i, col, bank))
    BY <1>1, <1>3, OperandsAre, IndicesAre
       DEF Under, Executed, DataInstructions, Operands, Stores, Update
  <2>2. n \in Entries(i.dst)
    BY <2>1, RegisterLane
  <2>3. \A x \in dec : x[1] = s /\ x[2][2] = "wr_en" => x[2][1] = Unit(i.dst)
    BY <1>1 DEF Shape, Unit
  <2>4. CASE i.op # "MOV"
    <3>1. i.dst \in Grf /\ Unit(i.dst) = i.dst /\ i.dst \notin Srf
      BY <2>4, OperandsAre DEF Unit, Grf, Srf
    <3>2. /\ <<s, <<Unit(i.dst), "wr_en">>, 1>> \in dec
          /\ <<s, <<Unit(i.dst), "wr_addr">>, n>> \in dec
      BY <1>3, <2>4, <3>1, WriteSignals
    <3>3. Input(now, i.dst, ext) = Result(r, i, col, bank)
      BY <1>3, <2>4, ArithmeticInput
    <3>4. NextRegs(now, ext) = Update(regs, i.dst, n, Input(now, i.dst, ext))
      BY <1>1, <2>1, <2>2, <2>3, <3>1, <3>2, OneWritten
    <3> QED BY <1>1, <1>3, <2>1, <3>3, <3>4
  <2>5. CASE i.op = "MOV"
    <3>1. Done(i) = Late(i) /\ n = i.dn /\ dec = DecodeMov(i)
      BY <2>5, StagesAre, DecodeParts DEF Multiplies, Sums, IdxDst, Aligned
    <3>2. WriteReg(Late(i), i.dst, i.dn, Mux[i.src0]) \subseteq dec
      BY <1>3, <2>5, <3>1, MovIs
    <3>3. /\ <<s, <<Unit(i.dst), "wr_en">>, 1>> \in dec
          /\ <<s, <<Unit(i.dst), "wr_addr">>, n>> \in dec
          /\ i.dst \in Srf => <<s, <<"SRF", "wr_a_nm">>, IF i.dst = "SRF_A" THEN 1 ELSE 0>> \in dec
      BY <1>3, <2>1, <3>1, <3>2, WriteGrfIs, WriteSrfIs DEF Unit, Grf, Srf
    <3>4. Input(now, i.dst, ext) = Result(r, i, col, bank)
      BY <1>3, <2>1, <2>5, <3>1, BusInTime, MovInput
    <3>5. NextRegs(now, ext) = Update(regs, i.dst, n, Input(now, i.dst, ext))
      BY <1>1, <2>1, <2>2, <2>3, <3>3, OneWritten
    <3> QED BY <1>1, <1>3, <2>1, <3>4, <3>5
  <2> QED BY <2>4, <2>5
<1> QED BY <1>2, <1>3

(* The pipelines after a cycle.                                            *)
NextMul(now) == IF On(now, "FPU", "mult_en") THEN Shifted(mulPipe, Product(now)) ELSE mulPipe
NextAdd(now) == IF On(now, "FPU", "add_en") THEN Shifted(addPipe, Sum(now)) ELSE addPipe

(* The product enters the multiplier with the operands and moves one stage *)
(* a cycle.                                                                *)
LEMMA StepMul ==
  ASSUME DpTypes, NEW i \in DataInstructions, Supported(i), NEW col \in Column, Multiplies(i),
         Factor2File(i) = i.src1, NEW bank \in [Banks -> Lane], NEW r \in RegisterFiles, NEW s \in Nat,
         Under(i, col, bank, r, s), NEW k \in 1 .. MULT_STAGES, s + 1 = Late(i) + k
  PROVE  NextMul(At(DecodeData(i, col), s))[k]
           = Times(Factor0(r, i, col, bank), Factor1(r, i, col, bank))
<1> DEFINE dec == DecodeData(i, col)
           now == At(dec, s)
<1>1. /\ Single(dec) /\ MULT_STAGES \in Nat /\ MULT_STAGES > 0 /\ Late(i) \in Nat
      /\ s \in Late(i) .. Late(i) + MULT_STAGES - 1
  BY DecodeShape, StagesAre
<1>2. <<s, <<"FPU", "mult_en">>, 1>> \in dec
  BY <1>1, EnableSignals
<1>3. On(now, "FPU", "mult_en")
  BY <1>1, <1>2, SigIs DEF On
<1>4. mulPipe \in [1 .. MULT_STAGES -> Lane] /\ Product(now) \in Lane
  BY UnitTypes DEF DpTypes
<1>5. CASE k = 1
  <2>1. s = Late(i)
    BY <1>1, <1>5
  <2>2. s <= Done(i) /\ regs = r
    BY <2>1, StagesAre DEF Under
  <2>3. Product(now) = Times(Factor0(r, i, col, bank), Factor1(r, i, col, bank))
    BY <2>1, <2>2, BusInTime, ProductIs
  <2> QED BY <1>1, <1>3, <1>4, <1>5, <2>3, ShiftedIs DEF NextMul
<1>6. CASE k # 1
  <2>1. k - 1 \in 1 .. MULT_STAGES - 1 /\ k - 1 \in 1 .. MULT_STAGES /\ s = Late(i) + (k - 1)
    BY <1>1, <1>6
  <2>2. mulPipe[k - 1] = Times(Factor0(r, i, col, bank), Factor1(r, i, col, bank))
    BY <2>1 DEF Under
  <2>3. Shifted(mulPipe, Product(now))[k] = mulPipe[k - 1]
    <3>1. k \in 2 .. MULT_STAGES
      BY <1>6
    <3> QED BY <1>1, <1>4, <3>1, ShiftedIs
  <2> QED BY <1>3, <2>2, <2>3 DEF NextMul
<1> QED BY <1>5, <1>6

(* The sum that enters the adder is the result.                            *)
LEMMA SumIs ==
  ASSUME DpTypes, NEW i \in DataInstructions, Supported(i), NEW col \in Column, Sums(i),
         NEW bank \in [Banks -> Lane], NEW r \in RegisterFiles, Under(i, col, bank, r, Summed(i))
  PROVE  Sum(At(DecodeData(i, col), Summed(i))) = Result(r, i, col, bank)
<1>1. Summed(i) <= Done(i) /\ regs = r
  BY StagesAre DEF Under
<1>2. CASE i.op = "ADD"
  <2>1. Summed(i) = Late(i)
    BY <1>2, StagesAre DEF Multiplies
  <2> QED BY <1>1, <1>2, <2>1, BusInTime, AdditionIs, ResultIs
<1>3. CASE i.op \in {"MAD", "MAC"}
  <2>1. Multiplies(i) /\ MULT_STAGES \in 1 .. MULT_STAGES /\ Summed(i) = Late(i) + MULT_STAGES
    BY <1>3, StagesAre DEF Multiplies
  <2>2. mulPipe[MULT_STAGES] = Times(Factor0(r, i, col, bank), Factor1(r, i, col, bank))
    BY <2>1 DEF Under
  <2> QED BY <1>1, <1>3, <2>2, AddendIs, ResultIs
<1> QED BY <1>2, <1>3 DEF Sums

(* It moves one stage a cycle.                                             *)
LEMMA StepAdd ==
  ASSUME DpTypes, NEW i \in DataInstructions, Supported(i), NEW col \in Column, Sums(i),
         NEW bank \in [Banks -> Lane], NEW r \in RegisterFiles, NEW s \in Nat,
         Under(i, col, bank, r, s), NEW k \in 1 .. ADD_STAGES, s + 1 = Summed(i) + k
  PROVE  NextAdd(At(DecodeData(i, col), s))[k] = Result(r, i, col, bank)
<1> DEFINE dec == DecodeData(i, col)
           now == At(dec, s)
<1>1. /\ Single(dec) /\ ADD_STAGES \in Nat /\ ADD_STAGES > 0 /\ Summed(i) \in Nat
      /\ s \in Summed(i) .. Summed(i) + ADD_STAGES - 1
  BY DecodeShape, StagesAre
<1>2. <<s, <<"FPU", "add_en">>, 1>> \in dec
  BY <1>1, EnableSignals
<1>3. On(now, "FPU", "add_en")
  BY <1>1, <1>2, SigIs DEF On
<1>4. addPipe \in [1 .. ADD_STAGES -> Lane] /\ Sum(now) \in Lane
  BY UnitTypes DEF DpTypes
<1>5. CASE k = 1
  <2>1. s = Summed(i)
    BY <1>1, <1>5
  <2>2. Sum(now) = Result(r, i, col, bank)
    BY <2>1, SumIs
  <2> QED BY <1>1, <1>3, <1>4, <1>5, <2>2, ShiftedIs DEF NextAdd
<1>6. CASE k # 1
  <2>1. k - 1 \in 1 .. ADD_STAGES - 1 /\ k - 1 \in 1 .. ADD_STAGES /\ s = Summed(i) + (k - 1)
    BY <1>1, <1>6
  <2>2. addPipe[k - 1] = Result(r, i, col, bank)
    BY <2>1 DEF Under
  <2>3. Shifted(addPipe, Sum(now))[k] = addPipe[k - 1]
    <3>1. k \in 2 .. ADD_STAGES
      BY <1>6
    <3> QED BY <1>1, <1>4, <3>1, ShiftedIs
  <2> QED BY <1>3, <2>2, <2>3 DEF NextAdd
<1> QED BY <1>5, <1>6

-----------------------------------------------------------------------------
(* The control signals after a cycle, and that a set consists of such      *)
(* signals.                                                                *)
CtlAfter(new) == {<<x[1] - 1, x[2], x[3]>> : x \in {y \in ctl \cup new : y[1] > 0}}

Timed(dec) == \A x \in dec : x = <<x[1], x[2], x[3]>> /\ x[1] \in Nat

(* An instruction is over before the pipelines have settled; a store in    *)
(* the cycle of its decoding.                                              *)
LEMMA DecodeTimed ==
  ASSUME NEW i \in DataInstructions, Supported(i), NEW col \in Column
  PROVE  /\ Timed(DecodeData(i, col))
         /\ \A x \in DecodeData(i, col) : x[1] \in Late(i) .. Done(i)
         /\ Done(i) < Settled
         /\ Stores(i) => Done(i) = 0
<1>1. Shape(i, DecodeData(i, col))
  BY DecodeShape
<1>2. Late(i) \in Nat /\ Done(i) \in Nat
  BY StagesAre
<1>3. Done(i) < Settled
  BY StagesAre DEF Settled
<1>4. Stores(i) => Done(i) = 0
  <2>1. Stores(i) => i.op = "MOV" /\ ~Loads(i)
    BY DEF Stores, Moves, Loads, Banks, Grf, Srf, Arithmetic
  <2> QED BY <2>1, StagesAre DEF Multiplies, Sums
<1>5. ASSUME NEW x \in DecodeData(i, col)
      PROVE  x = <<x[1], x[2], x[3]>> /\ x[1] \in Late(i) .. Done(i)
  BY <1>1 DEF Shape
<1> QED BY <1>2, <1>3, <1>4, <1>5 DEF Timed

(* With one instruction under way and none, or one that loads, decoded on  *)
(* top, the signals of the cycle are those of the first.                   *)
LEMMA NowUnder ==
  ASSUME NEW dec, Timed(dec), NEW s \in Nat, ctl = Remaining(dec, s),
         NEW new, \A x \in new : x[1] # 0
  PROVE  Now(new) = At(dec, s)
<1>1. {y \in ctl \cup new : y[1] = 0} = {y \in ctl : y[1] = 0}
  OBVIOUS
<1>2. ASSUME NEW z \in At(dec, s) PROVE z \in Now(new)
  <2>1. PICK x \in dec : x[1] = s /\ z = <<x[2], x[3]>>
    BY DEF At
  <2>2. <<x[1] - s, x[2], x[3]>> \in ctl /\ x[1] - s = 0
    BY <2>1 DEF Remaining
  <2>3. <<0, x[2], x[3]>> \in {y \in ctl \cup new : y[1] = 0}
    BY <2>2
  <2> QED BY <2>1, <2>3 DEF Now
<1>3. ASSUME NEW z \in Now(new) PROVE z \in At(dec, s)
  <2>1. PICK y \in ctl : y[1] = 0 /\ z = <<y[2], y[3]>>
    BY <1>1 DEF Now
  <2>2. PICK x \in dec : x[1] >= s /\ y = <<x[1] - s, x[2], x[3]>>
    BY DEF Remaining
  <2>3. x[1] = s /\ z = <<x[2], x[3]>>
    BY <2>1, <2>2 DEF Timed
  <2> QED BY <2>3 DEF At
<1> QED BY <1>2, <1>3

(* With nothing under way they are those of the one decoded.               *)
LEMMA NowFresh ==
  ASSUME ctl = {}, NEW new
  PROVE  Now(new) = At(new, 0)
  BY DEF Now, At

(* The signals of an instruction move one stage a cycle.                   *)
LEMMA CtlUnder ==
  ASSUME NEW dec, Timed(dec), NEW s \in Nat, ctl = Remaining(dec, s)
  PROVE  CtlAfter({}) = Remaining(dec, s + 1)
<1>1. ASSUME NEW z \in CtlAfter({}) PROVE z \in Remaining(dec, s + 1)
  <2>1. PICK y \in ctl : y[1] > 0 /\ z = <<y[1] - 1, y[2], y[3]>>
    BY DEF CtlAfter
  <2>2. PICK x \in dec : x[1] >= s /\ y = <<x[1] - s, x[2], x[3]>>
    BY DEF Remaining
  <2>3. x[1] >= s + 1 /\ z = <<x[1] - (s + 1), x[2], x[3]>>
    BY <2>1, <2>2 DEF Timed
  <2> QED BY <2>3 DEF Remaining
<1>2. ASSUME NEW z \in Remaining(dec, s + 1) PROVE z \in CtlAfter({})
  <2>1. PICK x \in dec : x[1] >= s + 1 /\ z = <<x[1] - (s + 1), x[2], x[3]>>
    BY DEF Remaining
  <2> DEFINE y == <<x[1] - s, x[2], x[3]>>
  <2>2. y \in ctl /\ y[1] > 0 /\ z = <<y[1] - 1, y[2], y[3]>>
    BY <2>1 DEF Remaining, Timed
  <2> HIDE DEF y
  <2> QED BY <2>2 DEF CtlAfter
<1> QED BY <1>1, <1>2

(* Signals in their last stage are gone after the cycle, and those of a    *)
(* new instruction have moved by one.                                      *)
LEMMA CtlFresh ==
  ASSUME \A x \in ctl : x[1] = 0, NEW new, Timed(new)
  PROVE  CtlAfter(new) = Remaining(new, 1)
<1>1. {y \in ctl \cup new : y[1] > 0} = {y \in new : y[1] >= 1}
  BY DEF Timed
<1> QED BY <1>1 DEF CtlAfter, Remaining

(* The counter of cycles covers every gap and the longest pipeline.        *)
LEMMA LongestGapIs ==
  /\ LongestGap \in Nat /\ LongestGap >= Settled /\ Settled \in Nat /\ Settled > 1
  /\ \A c, d \in Commands : Gap[<<c, d>>] \in Nat \ {0} /\ LongestGap >= Gap[<<c, d>>]
<1> DEFINE pairs == Commands \X Commands
           rr == <<"RD", "RD">>  rw == <<"RD", "WR">>  wr == <<"WR", "RD">>  ww == <<"WR", "WR">>
           S == {Gap[c] : c \in pairs} \cup {Settled}
<1>1. Settled \in Nat /\ Settled > 1
  BY DataPathAssumption DEF Settled
<1>2. \A c \in pairs : c \in {rr, rw, wr, ww}
  BY DEF Commands
<1>3. rr \in pairs /\ rw \in pairs /\ wr \in pairs /\ ww \in pairs
  BY DEF Commands
<1>4. Gap \in [pairs -> Nat \ {0}]
  BY DataRunAssumption
<1>5. \A c, d \in Commands : <<c, d>> \in pairs
  OBVIOUS
<1> HIDE DEF pairs, rr, rw, wr, ww
<1>6. S = {Gap[rr], Gap[rw], Gap[wr], Gap[ww], Settled}
  BY <1>2, <1>3
<1>7. Gap[rr] \in Nat /\ Gap[rw] \in Nat /\ Gap[wr] \in Nat /\ Gap[ww] \in Nat
  BY <1>3, <1>4
<1>8. \A a, b, c, d, e \in Nat : \E g \in {a, b, c, d, e} : \A h \in {a, b, c, d, e} : h <= g
  OBVIOUS
<1>10. LongestGap = CHOOSE g \in S : \A h \in S : h <= g
  BY DEF LongestGap, pairs
<1>11. S \subseteq Nat
  BY <1>1, <1>4
<1>12. \A c \in pairs : Gap[c] \in S
  OBVIOUS
<1>13. Settled \in S
  OBVIOUS
<1> HIDE DEF S
<1>9. \E g \in S : \A h \in S : h <= g
  <2> DEFINE a == Gap[rr]  b == Gap[rw]  c == Gap[wr]  d == Gap[ww]
  <2>1. a \in Nat /\ b \in Nat /\ c \in Nat /\ d \in Nat /\ Settled \in Nat
    BY <1>1, <1>7
  <2>2. S = {a, b, c, d, Settled}
    BY <1>6
  <2> HIDE DEF a, b, c, d
  <2>3. \E g \in {a, b, c, d, Settled} : \A h \in {a, b, c, d, Settled} : h <= g
    BY <1>8, <2>1
  <2> QED BY <2>2, <2>3
<1>14. LongestGap \in S /\ \A h \in S : h <= LongestGap
  BY <1>9, <1>10
<1> QED BY <1>1, <1>4, <1>5, <1>11, <1>12, <1>13, <1>14

-----------------------------------------------------------------------------
(* Instruction i is under way: the control signals are its remaining ones. *)
Flying(i, col, s) ==
  /\ ~Stores(i) /\ s \in 1 .. Settled - 1
  /\ ctl = Remaining(DecodeData(i, col), s)

(* At most one instruction has signals under way, it was given by the last *)
(* command, and a store leaves none.                                       *)
CtlInv ==
  ctl = {} \/ (last = "RD" /\ \E i \in Instructions, col \in Columns : Flying(i, col, since))

(* The types, the control signals apart.                                   *)
RunTypes ==
  /\ DpTypes
  /\ last \in Commands /\ since \in 1 .. LongestGap /\ issued \in 0 .. MaxCommands
  /\ ref \in RegisterFiles

(* The assumptions on the parameters, as the proofs use them.              *)
LEMMA Parameters ==
  /\ \A i \in Instructions : i \in DataInstructions /\ Supported(i)
  /\ Columns \subseteq Column
  /\ BankWords \subseteq Lane /\ HostWords \subseteq Lane
  /\ MaxCommands \in Nat /\ Loaded \in RegisterFiles
  BY DataRunAssumption DEF Column

(* The signals of an instruction under way are signals of the decoder,     *)
(* none is driven twice, and in the last cycle all are at delay 0.         *)
LEMMA Flown ==
  ASSUME NEW i \in DataInstructions, Supported(i), NEW col \in Column, NEW s \in Nat, Flying(i, col, s)
  PROVE  /\ ctl \subseteq (0 .. MULT_STAGES + ADD_STAGES) \X Signals \X Codes
         /\ Single(ctl)
         /\ s = Settled - 1 => \A x \in ctl : x[1] = 0
         /\ \A x \in ctl : x[2][2] # "out_en"
<1> DEFINE dec == DecodeData(i, col)
<1>1. Shape(i, dec) /\ Single(dec)
  BY DecodeShape
<1>2. /\ MULT_STAGES \in Nat /\ ADD_STAGES \in Nat /\ Late(i) \in Nat /\ Done(i) \in Nat
      /\ Done(i) <= 1 + MULT_STAGES + ADD_STAGES /\ Settled = 2 + MULT_STAGES + ADD_STAGES
  BY StagesAre DEF Settled
<1> HIDE DEF dec
<1>3. ASSUME NEW x \in ctl
      PROVE  \E y \in dec : /\ y[1] \in Late(i) .. Done(i) /\ y[1] >= s /\ y[2] \in Signals /\ y[3] \in Codes
                              /\ x = <<y[1] - s, y[2], y[3]>>
  <2>1. PICK y \in dec : y[1] >= s /\ x = <<y[1] - s, y[2], y[3]>>
    BY DEF Flying, Remaining, dec
  <2>2. y \in (Late(i) .. Done(i)) \X Signals \X Codes
    BY <1>1 DEF Shape
  <2>3. y[1] \in Late(i) .. Done(i) /\ y[2] \in Signals /\ y[3] \in Codes
    BY <2>2
  <2> QED BY <2>1, <2>3
<1>4. s >= 1 /\ s <= Settled - 1 /\ ~Stores(i)
  BY <1>2 DEF Flying
<1>5. ASSUME NEW x \in ctl PROVE x \in (0 .. MULT_STAGES + ADD_STAGES) \X Signals \X Codes
  <2>1. PICK y \in dec : /\ y[1] \in Late(i) .. Done(i) /\ y[1] >= s /\ y[2] \in Signals /\ y[3] \in Codes
                           /\ x = <<y[1] - s, y[2], y[3]>>
    BY <1>3
  <2>2. y[1] - s \in 0 .. MULT_STAGES + ADD_STAGES
    BY <1>2, <1>4, <2>1
  <2> QED BY <2>1, <2>2
<1>6. ASSUME NEW x \in ctl, NEW y \in ctl, x[1] = y[1], x[2] = y[2] PROVE x[3] = y[3]
  <2>1. PICK u \in dec : u[1] \in Late(i) .. Done(i) /\ x = <<u[1] - s, u[2], u[3]>>
    BY <1>3
  <2>2. PICK v \in dec : v[1] \in Late(i) .. Done(i) /\ y = <<v[1] - s, v[2], v[3]>>
    BY <1>3
  <2>3. u[1] - s = v[1] - s /\ u[2] = v[2]
    BY <1>6, <2>1, <2>2
  <2>4. u[1] = v[1]
    BY <1>2, <2>1, <2>2, <2>3
  <2> QED BY <1>1, <2>1, <2>2, <2>3, <2>4 DEF Single
<1>7. ASSUME s = Settled - 1, NEW x \in ctl PROVE x[1] = 0
  BY <1>2, <1>3, <1>7
<1>8. ASSUME NEW x \in ctl PROVE x[2][2] # "out_en"
  BY <1>1, <1>3, <1>4 DEF Shape
<1> QED BY <1>5, <1>6, <1>7, <1>8 DEF Single

(* When the DRAM timing lets a data instruction be given, the one before   *)
(* is over, or is in its last cycle and the new one loads, so that it      *)
(* drives nothing in that cycle.                                           *)
LEMMA Clear ==
  ASSUME RunTypes, CtlInv, NEW i \in Instructions, Ready(i)
  PROVE  /\ ctl # {} => last = "RD" /\ since = Settled - 1 /\ Loads(i) /\ ~Stores(i)
         /\ \A x \in ctl : x[1] = 0
<1>1. /\ Settled \in Nat /\ Settled > 1 /\ since \in Nat
      /\ Gap[<<"RD", "RD">>] >= Settled - 1 /\ Gap[<<"RD", "WR">>] >= Settled
      /\ Gap[<<"RD", "RD">>] \in Nat /\ Gap[<<"RD", "WR">>] \in Nat
  BY LongestGapIs, DataRunAssumption, DataPathAssumption DEF RunTypes, Commands, Settled
<1>2. CASE ctl # {}
  <2>1. PICK j \in Instructions, col \in Columns : Flying(j, col, since)
    BY <1>2 DEF CtlInv
  <2>2. last = "RD" /\ since <= Settled - 1
    BY <1>1, <1>2, <2>1 DEF CtlInv, Flying
  <2>3. ~Stores(i) /\ since >= Settled - 1 /\ Loads(i)
    BY <1>1, <2>2 DEF Ready, CommandOf
  <2>4. since = Settled - 1
    BY <1>1, <2>2, <2>3
  <2> QED BY <1>1, <2>1, <2>2, <2>3, <2>4, Flown, Parameters
<1> QED BY <1>2

(* When the host may write, the instruction before is over.                *)
LEMMA ClearForHost ==
  ASSUME RunTypes, CtlInv, since >= Gap[<<last, "WR">>]
  PROVE  ctl = {}
<1>1. /\ Settled \in Nat /\ Settled > 1 /\ since \in Nat
      /\ Gap[<<"RD", "WR">>] >= Settled /\ Gap[<<"RD", "WR">>] \in Nat
  BY LongestGapIs, DataRunAssumption, DataPathAssumption DEF RunTypes, Commands, Settled
<1> QED BY <1>1 DEF CtlInv, Flying

(* The invariant of the control signals gives the type of the data path.   *)
LEMMA PathTypes ==
  ASSUME RunTypes, CtlInv
  PROVE  DataPathTypeOK
<1>1. ctl \subseteq (0 .. MULT_STAGES + ADD_STAGES) \X Signals \X Codes
  <2>1. CASE ctl = {}
    BY <2>1
  <2>2. CASE ctl # {}
    <3>1. PICK i \in Instructions, col \in Columns : Flying(i, col, since)
      BY <2>2 DEF CtlInv
    <3>2. since \in Nat
      BY LongestGapIs DEF RunTypes
    <3> QED BY <3>1, <3>2, Flown, Parameters
  <2> QED BY <2>1, <2>2
<1> QED BY <1>1 DEF RunTypes, DpTypes, DataPathTypeOK, Codes

(* A cycle keeps the types of the data path.                               *)
LEMMA TypesKept ==
  ASSUME DpTypes, NEW new, NEW ext \in Lane, NEW words \in [Banks -> Lane], Cycle(new, ext, words)
  PROVE  DpTypes'
<1> DEFINE now == Now(new)
<1>1. regs' \in RegisterFiles
  BY WrittenType DEF Cycle
<1>2. Product(now) \in Lane /\ Sum(now) \in Lane
  BY UnitTypes
<1>3. mulPipe \in [1 .. MULT_STAGES -> Lane] /\ addPipe \in [1 .. ADD_STAGES -> Lane]
  BY DEF DpTypes
<1>4. Shifted(mulPipe, Product(now)) \in [1 .. MULT_STAGES -> Lane]
  BY <1>2, <1>3, ShiftedIs, DataPathAssumption
<1>5. Shifted(addPipe, Sum(now)) \in [1 .. ADD_STAGES -> Lane]
  BY <1>2, <1>3, ShiftedIs, DataPathAssumption
<1>6. mulPipe' \in [1 .. MULT_STAGES -> Lane] /\ addPipe' \in [1 .. ADD_STAGES -> Lane]
  BY <1>3, <1>4, <1>5 DEF Cycle
<1> QED BY <1>1, <1>6 DEF Cycle, DpTypes

(* The words on the buses are lanes.                                       *)
LEMMA Words ==
  /\ NoWord \in [Banks -> Lane] /\ 0 \in Lane
  /\ \A S : \A word \in BankWords : [b \in Banks |-> IF b \in S THEN word ELSE 0] \in [Banks -> Lane]
  /\ \A word \in BankWords : [b \in Banks |-> word] \in [Banks -> Lane]
  BY LaneClosed, Parameters DEF NoWord

(* After its last delay an instruction drives nothing.                     *)
LEMMA AllOver ==
  ASSUME NEW i \in DataInstructions, Supported(i), NEW col \in Column, NEW s \in Nat, s > Done(i)
  PROVE  Remaining(DecodeData(i, col), s) = {}
<1>1. \A x \in DecodeData(i, col) : x[1] \in Late(i) .. Done(i)
  BY DecodeTimed
<1>2. Late(i) \in Nat /\ Done(i) \in Nat
  BY StagesAre
<1> QED BY <1>1, <1>2 DEF Remaining

(* After the cycle it is decoded in, only the new instruction is under     *)
(* way.                                                                    *)
LEMMA Started ==
  ASSUME \A x \in ctl : x[1] = 0, NEW i \in DataInstructions, Supported(i), NEW col \in Column,
         NEW ext, NEW words, Cycle(DecodeData(i, col), ext, words)
  PROVE  ctl' = IF Stores(i) THEN {} ELSE Remaining(DecodeData(i, col), 1)
<1>1. ctl' = CtlAfter(DecodeData(i, col))
  BY DEF Cycle, CtlAfter
<1>2. Timed(DecodeData(i, col))
  BY DecodeTimed
<1>3. ctl' = Remaining(DecodeData(i, col), 1)
  BY <1>1, <1>2, CtlFresh
<1>4. Stores(i) => Remaining(DecodeData(i, col), 1) = {}
  BY AllOver, DecodeTimed
<1> QED BY <1>3, <1>4

(* What the host's write drives: one register, in the cycle it is given    *)
(* in.                                                                     *)
LEMMA HostSignals ==
  ASSUME NEW file \in Grf \cup Srf, NEW n
  PROVE  /\ Single(WriteReg(0, file, n, Mux.EXT))
         /\ \A x \in WriteReg(0, file, n, Mux.EXT) :
              /\ x[1] = 0 /\ x[2] # <<Unit(file), "relu_en">> /\ x[2][2] # "out_en"
              /\ x[2][1] = Unit(file)
         /\ <<0, <<Unit(file), "wr_en">>, 1>> \in WriteReg(0, file, n, Mux.EXT)
         /\ <<0, <<Unit(file), "wr_addr">>, n>> \in WriteReg(0, file, n, Mux.EXT)
         /\ <<0, <<Unit(file), "wr_from">>, 0>> \in WriteReg(0, file, n, Mux.EXT)
         /\ file \in Srf => <<0, <<"SRF", "wr_a_nm">>, IF file = "SRF_A" THEN 1 ELSE 0>>
                              \in WriteReg(0, file, n, Mux.EXT)
<1>1. Mux.EXT = 0
  BY DEF Mux
<1>2. CASE file \in Grf
  <2>1. Unit(file) = file /\ file \notin Srf
    BY <1>2 DEF Unit, Grf, Srf
  <2> QED BY <1>1, <1>2, <2>1, WriteGrfIs DEF Single
<1>3. CASE file \in Srf
  <2>1. Unit(file) = "SRF"
    BY <1>3 DEF Unit, Grf, Srf
  <2>2. \A x : x \in WriteReg(0, file, n, Mux.EXT) <=>
           \/ x = <<0, <<"SRF", "wr_en">>, 1>> \/ x = <<0, <<"SRF", "wr_addr">>, n>>
           \/ x = <<0, <<"SRF", "wr_from">>, 0>>
           \/ x = <<0, <<"SRF", "wr_a_nm">>, IF file = "SRF_A" THEN 1 ELSE 0>>
    BY <1>1, <1>3, WriteSrfIs
  <2> QED BY <2>1, <2>2 DEF Single
<1> QED BY <1>2, <1>3

(* It leaves nothing under way.                                            *)
LEMMA HostOver ==
  ASSUME ctl = {}, NEW file \in Grf \cup Srf, NEW n, NEW ext, NEW words,
         Cycle(WriteReg(0, file, n, Mux.EXT), ext, words)
  PROVE  ctl' = {}
<1> DEFINE new == WriteReg(0, file, n, Mux.EXT)
<1>1. \A x \in new : x[1] = 0
  BY HostSignals
<1> HIDE DEF new
<1>2. ctl' = {<<x[1] - 1, x[2], x[3]>> : x \in {y \in new : y[1] > 0}}
  BY DEF Cycle, new
<1>3. {y \in new : y[1] > 0} = {}
  BY <1>1
<1> QED BY <1>2, <1>3

(* Every step keeps the types.                                             *)
LEMMA RunTypesKept ==
  ASSUME RunTypes, [Next]_vars
  PROVE  RunTypes'
<1>1. /\ LongestGap \in Nat /\ LongestGap > 1 /\ MaxCommands \in Nat
  BY LongestGapIs, Parameters
<1>2. ASSUME NEW i \in Instructions, NEW col \in Columns, NEW word \in BankWords, Execute(i, col, word)
      PROVE  RunTypes'
  <2> DEFINE words == [b \in Banks |-> IF b \in {i.src0, i.src1} THEN word ELSE 0]
  <2>1. Cycle(DecodeData(i, col), 0, words) /\ words \in [Banks -> Lane]
    BY <1>2, Words DEF Execute
  <2> HIDE DEF words
  <2>2. DpTypes'
    BY <2>1, Words, TypesKept DEF RunTypes
  <2>3. ref' \in RegisterFiles
    <3>1. [b \in Banks |-> word] \in [Banks -> Lane]
      BY Words
    <3> QED BY <1>2, <3>1, ExecutedTypes, Parameters DEF Execute, RunTypes
  <2> QED BY <1>1, <1>2, <2>2, <2>3 DEF Execute, Given, CommandOf, Commands, RunTypes
<1>3. ASSUME NEW file \in Grf \cup Srf, NEW n \in Entries(file), NEW word \in HostWords,
             HostWrite(file, n, word)
      PROVE  RunTypes'
  <2>1. DpTypes'
    BY <1>3, Words, Parameters, TypesKept DEF RunTypes, HostWrite
  <2>2. ref' \in RegisterFiles
    BY <1>3, FileWritten, Parameters DEF HostWrite, RunTypes
  <2> QED BY <1>1, <1>3, <2>1, <2>2 DEF HostWrite, Given, Commands, RunTypes
<1>4. ASSUME Quiet PROVE RunTypes'
  <2>1. DpTypes'
    BY <1>4, Words, TypesKept DEF RunTypes, Quiet
  <2> QED BY <1>1, <1>4, <2>1 DEF Quiet, RunTypes
<1>5. CASE UNCHANGED vars
  BY <1>5 DEF vars, dpVars, RunTypes, DpTypes
<1> QED BY <1>2, <1>3, <1>4, <1>5 DEF Next

(* Every step keeps at most one instruction under way.                     *)
LEMMA CtlKept ==
  ASSUME RunTypes, CtlInv, [Next]_vars
  PROVE  CtlInv'
<1>1. /\ Settled \in Nat /\ Settled > 1 /\ LongestGap \in Nat /\ LongestGap >= Settled
      /\ since \in Nat
  BY LongestGapIs DEF RunTypes
<1>2. ASSUME NEW i \in Instructions, NEW col \in Columns, NEW word \in BankWords, Execute(i, col, word)
      PROVE  CtlInv'
  <2> DEFINE words == [b \in Banks |-> IF b \in {i.src0, i.src1} THEN word ELSE 0]
  <2>1. Cycle(DecodeData(i, col), 0, words) /\ Ready(i) /\ since' = 1 /\ last' = CommandOf(i)
    BY <1>2 DEF Execute, Given
  <2> HIDE DEF words
  <2>2. \A x \in ctl : x[1] = 0
    BY <2>1, Clear
  <2>3. ctl' = IF Stores(i) THEN {} ELSE Remaining(DecodeData(i, col), 1)
    BY <2>1, <2>2, Started, Parameters
  <2> QED BY <1>1, <2>1, <2>3 DEF CtlInv, Flying, CommandOf
<1>3. ASSUME NEW file \in Grf \cup Srf, NEW n \in Entries(file), NEW word \in HostWords,
             HostWrite(file, n, word)
      PROVE  CtlInv'
  <2>1. ctl = {}
    BY <1>3, ClearForHost DEF HostWrite
  <2> QED BY <1>3, <2>1, HostOver DEF HostWrite, CtlInv
<1>4. ASSUME Quiet PROVE CtlInv'
  <2>1. ctl' = CtlAfter({}) /\ last' = last
    BY <1>4 DEF Quiet, Cycle, CtlAfter
  <2>2. CASE ctl = {}
    BY <2>1, <2>2 DEF CtlAfter, CtlInv
  <2>3. CASE ctl # {}
    <3>1. PICK i \in Instructions, col \in Columns : Flying(i, col, since)
      BY <2>3 DEF CtlInv
    <3>2. PICK s \in Nat : s = since
      BY <1>1
    <3>3. /\ last = "RD" /\ s \in 1 .. Settled - 1 /\ ~Stores(i) /\ ctl = Remaining(DecodeData(i, col), s)
      BY <2>3, <3>1, <3>2 DEF CtlInv, Flying
    <3>4. ctl' = Remaining(DecodeData(i, col), s + 1)
      BY <2>1, <3>3, DecodeTimed, CtlUnder, Parameters
    <3>5. since' = s + 1
      BY <1>1, <1>4, <3>2, <3>3 DEF Quiet
    <3>6. CASE s + 1 = Settled
      <4>1. s + 1 > Done(i) /\ s + 1 \in Nat
        BY <1>1, <3>6, DecodeTimed, Parameters, StagesAre
      <4> QED BY <3>4, <4>1, AllOver, Parameters DEF CtlInv
    <3>7. CASE s + 1 # Settled
      <4>1. s + 1 \in 1 .. Settled - 1
        BY <1>1, <3>3, <3>7
      <4>2. Flying(i, col, since)'
        BY <3>3, <3>4, <3>5, <4>1 DEF Flying
      <4> QED BY <2>1, <3>3, <4>2 DEF CtlInv
    <3> QED BY <3>6, <3>7
  <2> QED BY <2>2, <2>3
<1>5. CASE UNCHANGED vars
  BY <1>5 DEF vars, dpVars, CtlInv, Flying
<1> QED BY <1>2, <1>3, <1>4, <1>5 DEF Next

-----------------------------------------------------------------------------
(* The invariant of the control path.                                      *)
PipeInv == RunTypes /\ CtlInv

(* It holds at first, with nothing under way and the reference's           *)
(* registers.                                                              *)
LEMMA InitTypes ==
  ASSUME Init
  PROVE  PipeInv /\ out = refOut /\ ctl = {} /\ regs = ref
<1>1. LongestGap \in Nat /\ LongestGap > 1 /\ MaxCommands \in Nat /\ Loaded \in RegisterFiles
  BY LongestGapIs, Parameters
<1>2. DpTypes
  BY <1>1, LaneClosed DEF Init, DpInit, NoWord, DpTypes
<1> QED BY <1>1, <1>2 DEF Init, DpInit, PipeInv, RunTypes, CtlInv, Commands

(* It gives the type invariant.                                            *)
LEMMA PipeTypes ==
  ASSUME PipeInv
  PROVE  TypeOK
  BY PathTypes DEF PipeInv, RunTypes, TypeOK

(* It gives that no two instructions meet on a signal, the one that can be *)
(* decoded next included.                                                  *)
LEMMA PipeDriver ==
  ASSUME PipeInv
  PROVE  OneDriver
<1> SUFFICES ASSUME NEW i \in Instructions, NEW col \in Columns, Ready(i)
             PROVE  Single(ctl \cup DecodeData(i, col))
  BY DEF OneDriver, Single
<1> DEFINE dec == DecodeData(i, col)
<1>1. /\ \A x \in ctl : x[1] = 0
      /\ ctl # {} => last = "RD" /\ since = Settled - 1 /\ Loads(i) /\ ~Stores(i)
  BY Clear DEF PipeInv
<1>2. Single(dec)
  BY DecodeShape, Parameters
<1> HIDE DEF dec
<1>3. CASE ctl = {}
  BY <1>2, <1>3 DEF dec
<1>4. CASE ctl # {}
  <2>1. PICK j \in Instructions, c \in Columns : Flying(j, c, since)
    BY <1>4 DEF PipeInv, CtlInv
  <2>2. since \in Nat
    BY LongestGapIs DEF PipeInv, RunTypes
  <2>3. Single(ctl)
    BY <2>1, <2>2, Flown, Parameters
  <2>4. \A x \in dec : x[1] \in Late(i) .. Done(i)
    BY DecodeTimed, Parameters DEF dec
  <2>5. \A x \in dec : x[1] # 0
    BY <1>1, <1>4, <2>4, StagesAre
  <2> QED BY <1>1, <1>2, <2>3, <2>5 DEF Single, dec
<1> QED BY <1>3, <1>4

(* At most one instruction has signals under way in the shift registers of *)
(* the decoder, for every length of the pipelines and every gap between    *)
(* commands that allows for them.                                          *)
THEOREM PipelineInvariant == Spec => []PipeInv
<1>1. Init => PipeInv
  BY InitTypes
<1>2. PipeInv /\ [Next]_vars => PipeInv'
  BY RunTypesKept, CtlKept DEF PipeInv
<1> QED BY <1>1, <1>2, PTL DEF Spec

(* The type invariant, for every width of a lane, number of registers and  *)
(* length of the pipelines.                                                *)
THEOREM DataTyping == Spec => []TypeOK
  BY PipelineInvariant, PipeTypes, PTL

(* The shift registers of the decoder are ORed without arbitration, yet no *)
(* two instructions ever drive one signal to different values.             *)
THEOREM DataOneDriver == Spec => []OneDriver
  BY PipelineInvariant, PipeDriver, PTL

-----------------------------------------------------------------------------
(* No instruction is a MAD after a load with its second factor in GRF_B:   *)
(* for that one the decoder drives the address of GRF_A, and the values    *)
(* are wrong (the finding of run mad_formula).                             *)
Routed == \A i \in Instructions : ~(i.op = "MAD" /\ Loads(i) /\ i.src1 = "GRF_B")

(* Between instructions the registers are those of the reference.          *)
Idle == ctl = {} /\ regs = ref

(* While an instruction is under way the reference has executed it         *)
(* already, on the registers it found.                                     *)
InFlight ==
  /\ last = "RD"
  /\ \E i \in Instructions, col \in Columns, word \in BankWords, r \in RegisterFiles :
       LET bank == [b \in Banks |-> word]
       IN /\ Flying(i, col, since)
          /\ ref = Executed(r, i, col, bank)
          /\ Under(i, col, bank, r, since)

(* The invariant of the values.                                            *)
ValueInv == PipeInv /\ out = refOut /\ (Idle \/ InFlight)

(* Where nothing drives an output enable the buses are left to the banks.  *)
LEMMA NothingDriven ==
  ASSUME NEW dec, NEW d, \A x \in dec : x[1] = d => x[2][2] # "out_en"
  PROVE  Driven(At(dec, d)) = NoStore
<1> DEFINE now == At(dec, d)
<1>1. ASSUME NEW b \in Banks PROVE Sig(now, b, "out_en") = 0
  <2>1. \A x \in dec : x[1] = d => x[2] # <<b, "out_en">>
    OBVIOUS
  <2> QED BY <2>1, NoSig
<1> HIDE DEF now
<1>2. Driven(now) = NoStore
  BY <1>1 DEF Driven, On, NoStore
<1> QED BY <1>2 DEF now

(* A cycle takes an instruction under way one step further.                *)
LEMMA UnderStep ==
  ASSUME DpTypes, NEW i \in DataInstructions, Supported(i), NEW col \in Column,
         Factor2File(i) = i.src1, NEW bank \in [Banks -> Lane], NEW r \in RegisterFiles, NEW s \in Nat,
         Under(i, col, bank, r, s), NEW new, Now(new) = At(DecodeData(i, col), s),
         NEW ext \in Lane, NEW words, Cycle(new, ext, words),
         s + 1 = 1 => OnBus(i, bank)'
  PROVE  Under(i, col, bank, r, s + 1)'
<1> DEFINE now == At(DecodeData(i, col), s)
           u == s + 1
<1>1. /\ regs' = NextRegs(now, ext)
      /\ mulPipe' = NextMul(now)
      /\ addPipe' = NextAdd(now)
  BY DEF Cycle, NextRegs, NextMul, NextAdd
<1>2. regs' = IF u > Done(i) THEN Executed(r, i, col, bank) ELSE r
  BY <1>1, StepRegs
<1>3. ASSUME Multiplies(i), NEW k \in 1 .. MULT_STAGES, u = Late(i) + k
      PROVE  mulPipe'[k] = Times(Factor0(r, i, col, bank), Factor1(r, i, col, bank))
  BY <1>1, <1>3, StepMul
<1>4. ASSUME Sums(i), NEW k \in 1 .. ADD_STAGES, u = Summed(i) + k
      PROVE  addPipe'[k] = Result(r, i, col, bank)
  BY <1>1, <1>4, StepAdd
<1>5. u = 1 => OnBus(i, bank)'
  OBVIOUS
<1> HIDE DEF now
<1> QED BY <1>2, <1>3, <1>4, <1>5 DEF Under, u

(* A store drives the word it means on the bus of its bank, in the cycle   *)
(* it is decoded in.                                                       *)
LEMMA StoreDrives ==
  ASSUME NEW i \in DataInstructions, Supported(i), NEW col \in Column, Stores(i)
  PROVE  Driven(At(DecodeData(i, col), 0)) = StoredWords(regs, i)
<1> DEFINE dec == DecodeData(i, col)
           now == At(dec, 0)
<1>1. /\ i.op = "MOV" /\ ~Loads(i) /\ i.n0 \in Index
      /\ \/ i.dst = "EVEN_BANK" /\ i.src0 = "GRF_A"
         \/ i.dst = "ODD_BANK" /\ i.src0 = "GRF_B"
  BY IndicesAre DEF Stores, Moves, Loads, Arithmetic, Banks, Grf, Srf
<1>2. dec = DecodeMov(i) /\ Single(dec)
  BY <1>1, DecodeParts, DecodeShape
<1>3. <<0, <<i.dst, "out_en">>, 1>> \in dec
  BY <1>1, <1>2, MovIs
<1>4. <<0, <<i.src0, "rd_addr1">>, i.n0>> \in dec
  BY <1>1, <1>2, MovIs, ReadRegIs DEF Grf
<1>5. \A x \in dec : x[2][2] = "out_en" => x[2][1] = i.dst
  <2> SUFFICES ASSUME NEW x \in dec, x[2][2] = "out_en" PROVE x[2][1] = i.dst
    OBVIOUS
  <2>1. \/ x \in ReadReg(0, i.src0, "rd_addr1", i.n0)
        \/ x = <<0, <<i.dst, "out_en">>, 1>>
    BY <1>1, <1>2, MovIs
  <2>2. x \notin ReadReg(0, i.src0, "rd_addr1", i.n0)
    BY <1>1, ReadRegIs DEF Grf, Srf
  <2> QED BY <2>1, <2>2
<1> HIDE DEF dec
<1>6. Sig(now, i.dst, "out_en") = 1
  BY <1>2, <1>3, SigIs
<1>7. ASSUME NEW b \in Banks, b # i.dst PROVE Sig(now, b, "out_en") = 0
  <2>1. \A x \in dec : x[1] = 0 => x[2] # <<b, "out_en">>
    BY <1>5, <1>7
  <2> QED BY <2>1, NoSig
<1>8. GrfPort(now, i.src0, "rd_addr1") = regs[i.src0][i.n0]
  BY <1>1, <1>2, <1>4, GrfShows DEF Grf
<1> HIDE DEF now
<1>9. Driven(now) = StoredWords(regs, i)
  BY <1>1, <1>6, <1>7, <1>8 DEF Driven, StoredWords, On, Banks
<1> QED BY <1>9 DEF now, dec

(* A cycle without a command keeps the invariant of the values.            *)
LEMMA ValueQuiet ==
  ASSUME ValueInv, Routed, Quiet
  PROVE  out' = refOut' /\ (Idle \/ InFlight)'
<1> USE DEF ValueInv, PipeInv
<1>1. /\ Cycle({}, 0, NoWord) /\ out' = Driven(Now({})) /\ refOut' = NoStore
      /\ last' = last /\ ref' = ref /\ DpTypes
  BY DEF Quiet, RunTypes
<1>2. CASE Idle
  <2> DEFINE none == {}
  <2>1. \A x \in none : x[1] = 0 => x[2][2] # "wr_en" /\ x[2][2] # "out_en"
    OBVIOUS
  <2> HIDE DEF none
  <2>2. Now(none) = At(none, 0)
    BY <1>2, NowFresh DEF Idle
  <2>3. NextRegs(At(none, 0), 0) = regs
    BY <1>1, <2>1, NotWritten, LaneClosed
  <2>4. regs' = NextRegs(Now(none), 0) /\ ctl' = CtlAfter({})
    BY <1>1 DEF Cycle, NextRegs, CtlAfter, none
  <2>5. regs' = regs /\ ctl' = {}
    BY <1>2, <2>2, <2>3, <2>4 DEF CtlAfter, Idle
  <2>6. Driven(Now({})) = NoStore
    BY <2>1, <2>2, NothingDriven DEF none
  <2> QED BY <1>1, <1>2, <2>5, <2>6 DEF Idle
<1>3. CASE InFlight
  <2>1. PICK i \in Instructions, col \in Columns, word \in BankWords, r \in RegisterFiles :
          LET bank == [b \in Banks |-> word]
          IN /\ Flying(i, col, since)
             /\ ref = Executed(r, i, col, bank)
             /\ Under(i, col, bank, r, since)
    BY <1>3 DEF InFlight
  <2>2. PICK s \in Nat : s = since
    BY LongestGapIs DEF RunTypes
  <2>3. /\ i \in DataInstructions /\ Supported(i) /\ col \in Column /\ Factor2File(i) = i.src1
    BY Parameters DEF Routed, Factor2File
  <2> DEFINE bank == [b \in Banks |-> word]
             dec == DecodeData(i, col)
  <2>4. bank \in [Banks -> Lane]
    BY Words
  <2>5. Flying(i, col, s) /\ ref = Executed(r, i, col, bank) /\ Under(i, col, bank, r, s)
    BY <2>1, <2>2
  <2> HIDE DEF bank
  <2>6. Settled \in Nat /\ LongestGap \in Nat /\ LongestGap >= Settled
    BY LongestGapIs
  <2>7. s \in 1 .. Settled - 1 /\ ~Stores(i) /\ ctl = Remaining(dec, s)
    BY <2>5 DEF Flying
  <2>8. since' = s + 1 /\ s + 1 # 1
    BY <2>2, <2>6, <2>7 DEF Quiet
  <2>9. Timed(dec) /\ Done(i) < Settled
    BY <2>3, DecodeTimed
  <2>10. Now({}) = At(dec, s)
    BY <2>7, <2>9, NowUnder
  <2>11. Under(i, col, bank, r, s + 1)'
    BY <1>1, <2>3, <2>4, <2>5, <2>8, <2>10, LaneClosed, UnderStep
  <2>12. ctl' = Remaining(dec, s + 1)
    BY <1>1, <2>7, <2>9, CtlUnder DEF Cycle, CtlAfter
  <2>13. out' = NoStore
    <3>1. \A x \in dec : x[1] = s => x[2][2] # "out_en"
      BY <2>3, <2>7, DecodeShape DEF Shape
    <3> QED BY <1>1, <2>10, <3>1, NothingDriven
  <2>14. CASE s + 1 = Settled
    <3>1. s + 1 > Done(i) /\ s + 1 \in Nat
      BY <2>6, <2>9, <2>14, StagesAre
    <3>2. ctl' = {}
      BY <2>3, <2>12, <3>1, AllOver
    <3>3. regs' = Executed(r, i, col, bank)
      BY <2>11, <3>1 DEF Under
    <3> QED BY <1>1, <2>5, <2>13, <3>2, <3>3 DEF Idle
  <2>15. CASE s + 1 # Settled
    <3>1. s + 1 \in 1 .. Settled - 1
      BY <2>6, <2>7, <2>15
    <3>2. Flying(i, col, since)' /\ Under(i, col, bank, r, since)'
      BY <2>7, <2>8, <2>11, <2>12, <3>1 DEF Flying, Under
    <3>3. InFlight'
      <4>1. last' = "RD" /\ ref' = Executed(r, i, col, bank)
        BY <1>1, <1>3, <2>5 DEF InFlight
      <4> QED BY <3>2, <4>1 DEF InFlight, bank
    <3> QED BY <1>1, <2>13, <3>3
  <2> QED BY <2>14, <2>15
<1> QED BY <1>2, <1>3

(* So does a write of the host.                                            *)
LEMMA ValueHost ==
  ASSUME ValueInv, NEW file \in Grf \cup Srf, NEW n \in Entries(file), NEW word \in HostWords,
         HostWrite(file, n, word)
  PROVE  out' = refOut' /\ Idle'
<1> USE DEF ValueInv, PipeInv
<1> DEFINE new == WriteReg(0, file, n, Mux.EXT)
           now == At(new, 0)
<1>1. /\ Cycle(new, word, NoWord) /\ out' = Driven(Now(new)) /\ refOut' = NoStore
      /\ ref' = Update(ref, file, n, word) /\ DpTypes /\ word \in Lane
  BY Parameters DEF HostWrite, RunTypes, Update
<1>2. ctl = {}
  BY ClearForHost DEF HostWrite
<1>3. regs = ref
  <2>1. CASE Idle
    BY <2>1 DEF Idle
  <2>2. CASE InFlight
    <3>1. since \in Nat /\ Settled \in Nat /\ Gap[<<"RD", "WR">>] >= Settled /\ Gap[<<"RD", "WR">>] \in Nat
      BY LongestGapIs, DataRunAssumption DEF RunTypes, Commands
    <3>2. since >= Gap[<<"RD", "WR">>] /\ since \in 1 .. Settled - 1
      BY <2>2 DEF InFlight, HostWrite, Flying
    <3> QED BY <3>1, <3>2
  <2> QED BY <2>1, <2>2
<1>4. /\ Single(new)
      /\ \A x \in new : x[1] = 0 /\ x[2] # <<Unit(file), "relu_en">> /\ x[2][2] # "out_en"
                        /\ x[2][1] = Unit(file)
      /\ <<0, <<Unit(file), "wr_en">>, 1>> \in new
      /\ <<0, <<Unit(file), "wr_addr">>, n>> \in new
      /\ <<0, <<Unit(file), "wr_from">>, 0>> \in new
      /\ file \in Srf => <<0, <<"SRF", "wr_a_nm">>, IF file = "SRF_A" THEN 1 ELSE 0>> \in new
  BY HostSignals
<1>5. ctl' = {}
  BY <1>1, <1>2, HostOver
<1> HIDE DEF new
<1>6. Now(new) = now
  BY <1>2, NowFresh
<1>7. out' = NoStore
  BY <1>1, <1>4, <1>6, NothingDriven
<1>8. Input(now, file, word) = word
  <2>1. Sig(now, Unit(file), "wr_from") = 0 /\ Sig(now, Unit(file), "relu_en") = 0
    BY <1>4, SigIs, NoSig
  <2> HIDE DEF now
  <2>2. CASE file \in Grf
    BY <2>1, <2>2 DEF Input, Unit, GrfInput, On
  <2>3. CASE file \notin Grf
    BY <2>1, <2>3 DEF Input, Unit, SrfInput, Mux
  <2> QED BY <2>2, <2>3
<1>9. NextRegs(now, word) = Update(regs, file, n, Input(now, file, word))
  BY <1>1, <1>4, OneWritten
<1>10. regs' = NextRegs(Now(new), word)
  BY <1>1 DEF Cycle, NextRegs
<1>11. regs' = ref'
  BY <1>1, <1>3, <1>6, <1>8, <1>9, <1>10
<1> QED BY <1>1, <1>5, <1>7, <1>11 DEF Idle

(* An instruction in its last cycle stores its result although the next    *)
(* one, a load, is decoded in that cycle.                                  *)
LEMMA Caught ==
  ASSUME ValueInv, Routed, ctl # {}, since = Settled - 1, NEW new, \A x \in new : x[1] # 0,
         NEW words, Cycle(new, 0, words)
  PROVE  regs' = ref /\ Driven(Now(new)) = NoStore
<1>1. DpTypes /\ InFlight /\ since \in Nat /\ Settled \in Nat
  BY LongestGapIs DEF ValueInv, PipeInv, RunTypes, Idle
<1>2. PICK i \in Instructions, col \in Columns, word \in BankWords, r \in RegisterFiles :
        LET bank == [b \in Banks |-> word]
        IN /\ Flying(i, col, since)
           /\ ref = Executed(r, i, col, bank)
           /\ Under(i, col, bank, r, since)
  BY <1>1 DEF InFlight
<1> DEFINE bank == [b \in Banks |-> word]
           dec == DecodeData(i, col)
<1>3. PICK s \in Nat : s = since
  BY <1>1
<1>4. /\ i \in DataInstructions /\ Supported(i) /\ col \in Column
      /\ bank \in [Banks -> Lane]
  BY Parameters, Words
<1>5. Flying(i, col, s) /\ ref = Executed(r, i, col, bank) /\ Under(i, col, bank, r, s)
  BY <1>2, <1>3
<1> HIDE DEF bank
<1>6. ~Stores(i) /\ ctl = Remaining(dec, s)
  BY <1>5 DEF Flying
<1>7. Timed(dec) /\ Done(i) < Settled /\ s + 1 = Settled /\ Done(i) \in Nat
  BY <1>1, <1>3, <1>4, DecodeTimed, StagesAre
<1>8. Now(new) = At(dec, s)
  BY <1>6, <1>7, NowUnder
<1>9. NextRegs(At(dec, s), 0) = Executed(r, i, col, bank)
  <2>1. NextRegs(At(dec, s), 0) = IF s + 1 > Done(i) THEN Executed(r, i, col, bank) ELSE r
    BY <1>1, <1>4, <1>5, LaneClosed, StepRegs
  <2> QED BY <1>7, <2>1
<1>10. regs' = NextRegs(Now(new), 0)
  BY DEF Cycle, NextRegs
<1>11. \A x \in dec : x[1] = s => x[2][2] # "out_en"
  BY <1>4, <1>6, DecodeShape DEF Shape
<1> QED BY <1>5, <1>8, <1>9, <1>10, <1>11, NothingDriven

(* An instruction without signals left has stored its result.              *)
LEMMA StillToWrite ==
  ASSUME NEW i \in DataInstructions, Supported(i), NEW col \in Column, NEW s \in Nat,
         Flying(i, col, s), ctl = {}
  PROVE  s > Done(i)
<1> DEFINE dec == DecodeData(i, col)
<1>1. ~Stores(i) /\ Done(i) \in Nat /\ ctl = Remaining(dec, s)
  BY StagesAre DEF Flying
<1>2. \E x \in dec : x[1] = Done(i)
  <2>1. CASE i.op # "MOV"
    BY <2>1, WriteSignals
  <2>2. CASE i.op = "MOV"
    <3>1. /\ i.dst \in Grf \cup Srf /\ Done(i) = Late(i) /\ dec = DecodeMov(i)
      BY <1>1, <2>2, OperandsAre, StagesAre, DecodeParts
         DEF Multiplies, Sums, Stores, DataInstructions, Operands
    <3>2. <<Late(i), <<Unit(i.dst), "wr_en">>, 1>> \in WriteReg(Late(i), i.dst, i.dn, Mux[i.src0])
      BY <3>1, WriteGrfIs, WriteSrfIs DEF Unit, Grf, Srf
    <3>3. <<Late(i), <<Unit(i.dst), "wr_en">>, 1>> \in dec
      BY <1>1, <2>2, <3>1, <3>2, MovIs
    <3> QED BY <3>1, <3>3
  <2> QED BY <2>1, <2>2
<1>3. PICK x \in dec : x[1] = Done(i)
  BY <1>2
<1> HIDE DEF dec
<1>4. x[1] >= s => <<x[1] - s, x[2], x[3]>> \in ctl
  BY <1>1 DEF Remaining
<1> QED BY <1>1, <1>3, <1>4

(* With nothing under way the registers are those of the reference.        *)
LEMMA NothingLeft ==
  ASSUME ValueInv, ctl = {}
  PROVE  regs = ref
<1>1. CASE Idle
  BY <1>1 DEF Idle
<1>2. CASE InFlight
  <2>1. PICK i \in Instructions, col \in Columns, word \in BankWords, r \in RegisterFiles :
          LET bank == [b \in Banks |-> word]
          IN /\ Flying(i, col, since)
             /\ ref = Executed(r, i, col, bank)
             /\ Under(i, col, bank, r, since)
    BY <1>2 DEF InFlight
  <2>2. since \in Nat
    BY LongestGapIs DEF ValueInv, PipeInv, RunTypes
  <2>3. since > Done(i)
    BY <2>1, <2>2, StillToWrite, Parameters
  <2> QED BY <2>1, <2>3 DEF Under
<1> QED BY <1>1, <1>2 DEF ValueInv

(* So does a data instruction.                                             *)
LEMMA ValueExecute ==
  ASSUME ValueInv, Routed, NEW i \in Instructions, NEW col \in Columns, NEW word \in BankWords,
         Execute(i, col, word)
  PROVE  out' = refOut' /\ (Idle \/ InFlight)'
<1> DEFINE dec == DecodeData(i, col)
           bank == [b \in Banks |-> word]
           words == [b \in Banks |-> IF b \in {i.src0, i.src1} THEN word ELSE 0]
<1>0. PICK r \in RegisterFiles : r = ref
  BY DEF ValueInv, PipeInv, RunTypes
<1>1. /\ i \in DataInstructions /\ Supported(i) /\ col \in Column /\ Factor2File(i) = i.src1
      /\ bank \in [Banks -> Lane] /\ words \in [Banks -> Lane]
  BY Parameters, Words DEF Routed, Factor2File
<1>2. /\ Cycle(dec, 0, words) /\ Ready(i) /\ since' = 1 /\ last' = CommandOf(i)
      /\ out' = Driven(Now(dec)) /\ refOut' = StoredWords(r, i)
      /\ ref' = Executed(r, i, col, bank)
      /\ DpTypes
  BY <1>0 DEF Execute, Given, ValueInv, PipeInv, RunTypes
<1>3. OnBus(i, bank)'
  <2>1. bus' = words
    BY <1>2 DEF Cycle
  <2> QED BY <2>1 DEF OnBus
<1>4. /\ ctl # {} => since = Settled - 1 /\ Loads(i) /\ ~Stores(i)
      /\ \A x \in ctl : x[1] = 0
  BY <1>2, Clear DEF ValueInv, PipeInv
<1>5. ctl = {} => regs = r
  BY <1>0, NothingLeft
<1>6. ctl' = IF Stores(i) THEN {} ELSE Remaining(dec, 1)
  BY <1>1, <1>2, <1>4, Started
<1>7. \A x \in dec : x[1] \in Late(i) .. Done(i)
  BY <1>1, DecodeTimed
<1>8. StoredWords(r, i) = NoStore \/ Stores(i)
  BY DEF StoredWords, NoStore
<1>9. ~Stores(i) => \A x \in dec : x[2][2] # "out_en"
  BY <1>1, DecodeShape DEF Shape
<1> HIDE DEF dec, bank, words
<1>10. CASE Stores(i)
  <2>1. ctl = {} /\ regs = r
    BY <1>4, <1>5, <1>10
  <2>2. Now(dec) = At(dec, 0) /\ regs' = NextRegs(Now(dec), 0)
    BY <1>2, <2>1, NowFresh DEF Cycle, NextRegs
  <2>3. \A x \in dec : x[1] = 0 => x[2][2] # "wr_en"
    BY <1>1, <1>10, DecodeShape DEF Shape, dec
  <2>4. regs' = regs
    BY <1>2, <2>2, <2>3, NotWritten, LaneClosed
  <2>5. ref' = r
    BY <1>2, <1>10 DEF Executed
  <2>6. out' = refOut'
    BY <1>1, <1>2, <1>10, <2>1, <2>2, StoreDrives DEF dec
  <2> QED BY <1>6, <1>10, <2>1, <2>4, <2>5, <2>6 DEF Idle
<1>a. Settled \in Nat /\ Settled > 1 /\ Late(i) \in Nat /\ Done(i) \in Nat /\ Summed(i) \in Nat
  BY LongestGapIs, StagesAre
<1>b. ~Stores(i) => Flying(i, col, since)' /\ last' = "RD" /\ refOut' = NoStore
  BY <1>a, <1>2, <1>6, <1>8 DEF Flying, CommandOf, dec
<1>11. CASE ~Stores(i) /\ Loads(i)
  <2>1. Late(i) = 1 /\ Done(i) >= 1 /\ Summed(i) >= 1
    BY <1>11, StagesAre
  <2>2. \A x \in dec : x[1] # 0
    BY <1>7, <1>a, <2>1
  <2>3. regs' = r /\ Driven(Now(dec)) = NoStore
    <3>1. CASE ctl # {}
      BY <1>0, <1>2, <1>4, <2>2, <3>1, Caught
    <3>2. CASE ctl = {}
      <4>1. Now(dec) = At(dec, 0) /\ regs' = NextRegs(Now(dec), 0)
        BY <1>2, <3>2, NowFresh DEF Cycle, NextRegs
      <4>2. regs' = regs
        BY <1>2, <2>2, <4>1, NotWritten, LaneClosed
      <4> QED BY <1>5, <2>2, <3>2, <4>1, <4>2, NothingDriven
    <3> QED BY <3>1, <3>2
  <2>4. Under(i, col, bank, r, since)'
    BY <1>2, <1>3, <1>a, <2>1, <2>3, StagesAre DEF Under
  <2> QED BY <1>2, <1>11, <1>b, <2>3, <2>4 DEF InFlight, bank
<1>12. CASE ~Stores(i) /\ ~Loads(i)
  <2>1. ctl = {} /\ regs = r
    BY <1>4, <1>5, <1>12
  <2>2. Now(dec) = At(dec, 0)
    BY <2>1, NowFresh
  <2>3. PICK s \in Nat : s = 0
    OBVIOUS
  <2>4. Under(i, col, bank, r, s)
    BY <1>12, <1>a, <2>1, <2>3, StagesAre DEF Under
  <2>5. Under(i, col, bank, r, s + 1)'
    BY <1>1, <1>2, <1>3, <2>2, <2>3, <2>4, LaneClosed, UnderStep DEF dec
  <2>6. Under(i, col, bank, r, since)'
    BY <1>2, <2>3, <2>5 DEF Under
  <2>7. out' = NoStore
    BY <1>2, <1>9, <1>12, <2>2, NothingDriven
  <2> QED BY <1>2, <1>12, <1>b, <2>6, <2>7 DEF InFlight, bank
<1> QED BY <1>10, <1>11, <1>12

(* Every step keeps the invariant of the values.                           *)
LEMMA ValueKept ==
  ASSUME ValueInv, Routed, [Next]_vars
  PROVE  ValueInv'
<1>1. PipeInv'
  BY RunTypesKept, CtlKept DEF ValueInv, PipeInv
<1>2. CASE UNCHANGED vars
  <2>1. out' = refOut' /\ (Idle => Idle')
    BY <1>2 DEF vars, dpVars, ValueInv, Idle
  <2>2. ASSUME InFlight PROVE InFlight'
    <3>1. PICK i \in Instructions, col \in Columns, word \in BankWords, r \in RegisterFiles :
            LET bank == [b \in Banks |-> word]
            IN /\ Flying(i, col, since)
               /\ ref = Executed(r, i, col, bank)
               /\ Under(i, col, bank, r, since)
      BY <2>2 DEF InFlight
    <3> DEFINE bank == [b \in Banks |-> word]
    <3>2. Flying(i, col, since) /\ ref = Executed(r, i, col, bank) /\ Under(i, col, bank, r, since)
      BY <3>1
    <3> HIDE DEF bank
    <3>3. Flying(i, col, since)' /\ (ref = Executed(r, i, col, bank))'
      BY <1>2, <3>2 DEF vars, dpVars, Flying
    <3>4. Under(i, col, bank, r, since)'
      BY <1>2, <3>2 DEF vars, dpVars, Under, OnBus
    <3> QED BY <1>2, <2>2, <3>3, <3>4 DEF InFlight, bank, vars
  <2> QED BY <1>1, <2>1, <2>2 DEF ValueInv
<1>3. ASSUME Next PROVE out' = refOut' /\ (Idle \/ InFlight)'
  BY <1>3, ValueExecute, ValueHost, ValueQuiet DEF Next
<1> QED BY <1>1, <1>2, <1>3 DEF ValueInv

(* Registers, pipelines and buses follow the reference, whatever           *)
(* instructions come and as close as the gaps let them, the misrouted MAD  *)
(* apart.                                                                  *)
THEOREM DataValues ==
  ASSUME Routed
  PROVE  Spec => []ValueInv
<1>1. Init => ValueInv
  BY InitTypes DEF ValueInv, Idle
<1>2. ValueInv /\ [Next]_vars => ValueInv'
  BY ValueKept
<1> QED BY <1>1, <1>2, PTL DEF Spec

(* Once nothing is under way the registers hold what executing the         *)
(* instructions one after the other would have left.                       *)
THEOREM DataRetired ==
  ASSUME Routed
  PROVE  Spec => []Retired
<1>1. ValueInv => Retired
  BY NothingLeft DEF Retired
<1> QED BY <1>1, DataValues, PTL

(* A word stored to a bank is the one the program means.                   *)
THEOREM DataStored ==
  ASSUME Routed
  PROVE  Spec => []Stored
<1>1. ValueInv => Stored
  BY DEF ValueInv, Stored
<1> QED BY <1>1, DataValues, PTL

=============================================================================
