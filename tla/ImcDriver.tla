----------------------------- MODULE ImcDriver -----------------------------
(***************************************************************************)
(* The testbench of a core: the pins it drives, one record per clock       *)
(* cycle, in six tests.  A test loads the register files, writes a program *)
(* to the CRF and gives the commands that execute it, with the words of    *)
(* the banks on the buses in the cycles the program needs them.  Pins keep *)
(* their values until they are written again.                              *)
(*                                                                         *)
(* The data are those of the first lane, as integers: fractions are scaled *)
(* or cut.  The row bits below the MSB belong to the address: a column     *)
(* above 31 is a column of a row with these bits set.  The driver for the  *)
(* mixed simulation gives the same stimuli.                                *)
(***************************************************************************)
EXTENDS DataIsa, Sequences
LOCAL INSTANCE SequencesExt

CONSTANTS
  BeatsPerGrf,   \* beats of a GRF register (DQ_CLK, 4)
  MultStages,    \* MULT_STAGES of the core under test
  AddStages      \* ADD_STAGES of the core under test

-----------------------------------------------------------------------------
Off == [rd |-> FALSE, wr |-> FALSE, pim |-> FALSE, row |-> "BANK", col |-> 0, dq |-> 0,
          even |-> 0, odd |-> 0]

(* A command to a bank row; no command, in and out of PIM mode. *)
Run == [Off EXCEPT !.wr = TRUE, !.pim = TRUE]
Hold == [Off EXCEPT !.pim = TRUE]
RunAt(col) == [Run EXCEPT !.col = col]
With(p, even, odd) == [p EXCEPT !.even = even, !.odd = odd]

For(n, p) == [k \in 1 .. n |-> p]
Concat(lo, hi, part) == FlattenSeq([k \in 1 .. hi - lo + 1 |-> part[lo + k - 1]])

(* The beats of a register, or the words of a program in the order of      *)
(* their entries.                                                          *)
Fill(file, n, beats) ==
  [k \in DOMAIN beats |-> [Run EXCEPT !.row = file, !.col = n, !.dq = beats[k]]]
FillCrf(words) ==
  [k \in DOMAIN words |-> [Run EXCEPT !.row = "CRF", !.col = k - 1, !.dq = words[k]]]

(* The beats of a GRF register, step apart from one to the next. *)
Beats(first, step) == [k \in 1 .. BeatsPerGrf |-> first + step * (k - 1)]

-----------------------------------------------------------------------------
(* Instruction words. *)
Control(op, imm0, imm1) == [op |-> op, bank |-> "none", imm0 |-> imm0, imm1 |-> imm1]
Nop(cycles) == Control("NOP", cycles, 0)
Jump(back, times) == Control("JUMP", back, times)
Exit == Control("EXIT", 0, 0)

Data(op, dst, dn, src0, n0, src1, n1, src2, relu, aam) ==
  LET i == [op |-> op, dst |-> dst, dn |-> dn, src0 |-> src0, n0 |-> n0, src1 |-> src1,
            n1 |-> n1, src2 |-> src2, relu |-> relu, aam |-> aam]
  IN [op |-> "EXE", imm0 |-> 0, imm1 |-> 0, data |-> i,
      bank |-> IF Stores(i) THEN "store" ELSE IF Loads(i) THEN "load" ELSE "none"]

Mov(dst, dn, src, n) == Data("MOV", dst, dn, src, n, "NONE", 0, "NONE", FALSE, FALSE)
MovRelu(dst, dn, src, n) == Data("MOV", dst, dn, src, n, "NONE", 0, "NONE", TRUE, FALSE)
Op(op, dst, dn, src0, n0, src1, n1) ==
  Data(op, dst, dn, src0, n0, src1, n1, "NONE", FALSE, FALSE)

(* The operands in the order of their codes. *)
Registers == <<"GRF_A", "GRF_B", "SRF_M", "SRF_A">>
BankPair == <<"EVEN_BANK", "ODD_BANK">>

Results(file, n) == [k \in 1 .. n |-> Mov("GRF_A", 0, file, k - 1)]

(* What the heading of a test announces. *)
Count(nop, jump, exit, mov, add, mul, mad, mac) ==
  [NOP |-> nop, JUMP |-> jump, EXIT |-> exit, MOV |-> mov, ADD |-> add, MUL |-> mul,
   MAD |-> mad, MAC |-> mac]

-----------------------------------------------------------------------------
(* MAD, MUL, NOP and EXIT on registers: GRF_A = GRF_A * SRF_M + SRF_A,     *)
(* GRF_B = GRF_B * GRF_B.                                                  *)
MadFill ==
  Concat(0, 7, [i \in 0 .. 7 |->
    Fill("GRF_A", i, Beats(16 * i, 4)) \o Fill("SRF_M", i, << -10 * i >>)
      \o Fill("SRF_A", i, <<i + 1>>) \o Fill("GRF_B", i, Beats(16 * i + 100, 4))])

MadProgram ==
  [k \in 1 .. 8 |-> Data("MAD", "GRF_A", k - 1, "GRF_A", k - 1, "SRF_M", k - 1, "SRF_A",
                         FALSE, FALSE)]
    \o [k \in 1 .. 4 |-> Op("MUL", "GRF_B", k - 1, "GRF_B", k - 1, "GRF_B", 8 - k)]
    \o <<Nop(MultStages)>> \o Results("GRF_A", 8) \o Results("GRF_B", 4) \o <<Exit>>

(* The MADs come in batches, as many as the multiplier has stages to spare *)
(* and at least one, with a pause between: two of them one after the other *)
(* would read the SRF in the same cycle.                                   *)
MadBatch == IF MultStages > 1 THEN MultStages - 1 ELSE 1

MadBatches == (8 + MadBatch - 1) \div MadBatch
MadCommands ==
  Concat(1, MadBatches, [b \in 1 .. MadBatches |->
    For(IF b < MadBatches THEN MadBatch ELSE 8 - (MadBatches - 1) * MadBatch, Run)
      \o For(MultStages, Hold)])

MadExecute ==
  MadCommands \o For(4, Run) \o For(MultStages + 13, Run) \o For(1, Off)

MadTest == [pins |-> MadFill \o FillCrf(MadProgram) \o MadExecute,
            announced |-> Count(1, 0, 1, 12, 0, 4, 8, 0)]

-----------------------------------------------------------------------------
(* MOV between all registers, each followed by one that shows the result. *)
MovFill ==
  Fill("GRF_A", 3, Beats(6, 40)) \o Fill("GRF_B", 3, Beats(14, -31))
    \o Fill("SRF_M", 3, << -10 >>) \o Fill("SRF_A", 3, <<10>>)

MovProgram ==
  Concat(1, 4, [i \in 1 .. 4 |-> Concat(1, 4, [j \in 1 .. 4 |->
    << MovRelu(Registers[i], 4, Registers[j], 3), Mov(Registers[i], 4, Registers[i], 4) >>])])

MovTest == [pins |-> MovFill \o FillCrf(MovProgram) \o For(32, Run) \o For(6, Off),
            announced |-> Count(0, 0, 0, 32, 0, 0, 0, 0)]

-----------------------------------------------------------------------------
(* ADD, JUMP and MAC on registers: GRF_A adds up eight times, then         *)
(* GRF_B = GRF_A * SRF_M + GRF_B.                                          *)
MacFill ==
  Fill("GRF_A", 0, Beats(0, 0)) \o Fill("GRF_A", 1, Beats(-1, -4))
    \o Concat(0, 7, [i \in 0 .. 7 |->
         (IF i > 1 THEN Fill("GRF_A", i, Beats(16 * i, 4)) ELSE <<>>)
           \o Fill("SRF_M", i, << -40 * i + 140 >>) \o Fill("GRF_B", i, Beats(16 * i, 4))])

AddPause == IF AddStages > 2 THEN AddStages - 1 ELSE 1

AddLoop == << Op("ADD", "GRF_A", 0, "GRF_A", 0, "GRF_A", 1), Nop(AddPause), Jump(2, 7) >>

MacProgram ==
  AddLoop
    \o [k \in 1 .. 8 |-> Op("MAC", "GRF_B", k - 1, "GRF_A", k - 1, "SRF_M", k - 1)]
    \o << Nop(MultStages + AddStages), Mov("GRF_A", 0, "GRF_A", 0) >> \o Results("GRF_B", 8)
    \o <<Exit>>

MacTest ==
  [pins |-> MacFill \o FillCrf(MacProgram)
              \o For(8 * (2 + AddPause) + 18 + MultStages + AddStages, Run) \o For(10, Hold),
   announced |-> Count(9, 8, 1, 9, 8, 0, 0, 8)]
-----------------------------------------------------------------------------
(* MOV to and from the banks.  Of the moves to a bank only those of its    *)
(* own register file have an effect, of those from a bank likewise; each   *)
(* of these is followed by a NOP, in which the word is on the bus, and by  *)
(* a move that shows the result.                                           *)
BankFill ==
  Fill("GRF_A", 7, Beats(6, 121)) \o Fill("GRF_B", 7, Beats(3, -200))
    \o Fill("SRF_M", 7, << -9996 >>) \o Fill("SRF_A", 7, <<12345>>)

BankProgram ==
  Concat(1, 2, [b \in 1 .. 2 |-> [j \in 1 .. 4 |->
      IF j % 2 = 0 THEN MovRelu(BankPair[b], 0, Registers[j], 7)
      ELSE Mov(BankPair[b], 0, Registers[j], 7)]])
    \o Concat(1, 4, [i \in 1 .. 4 |-> Concat(1, 2, [b \in 1 .. 2 |->
         << MovRelu(Registers[i], 0, BankPair[b], 7), Nop(1),
            Mov(Registers[i], 0, Registers[i], 0) >>])])

(* The words -6, 13, -19 and so on of the register codes 0 to 3. *)
Alternating(i, n) == IF i % 2 = 0 THEN n * i ELSE -n * i

BankExecute ==
  For(8, Run)
    \o Concat(0, 3, [i \in 0 .. 3 |->
         For(1, Run) \o For(1, With(Run, Alternating(i, 6), 0)) \o For(2, Run)
           \o For(1, With(Run, 0, Alternating(i, 5))) \o For(1, Run)])
    \o For(6, Off)

BankTest == [pins |-> BankFill \o FillCrf(BankProgram) \o BankExecute,
             announced |-> Count(8, 0, 0, 24, 0, 0, 0, 0)]

-----------------------------------------------------------------------------
(* MAD and MUL with the banks: GRF_A = GRF_B * SRF_M + ODD_BANK, address-  *)
(* aligned, GRF_A = EVEN_BANK * ODD_BANK + SRF_A, and                      *)
(* GRF_B = EVEN_BANK * GRF_B, every other one address-aligned.             *)
MadBankFill ==
  Concat(0, 7, [i \in 0 .. 7 |->
    Fill("GRF_B", i, Beats(160 * i + 123, 40)) \o Fill("SRF_M", i, << -i >>)
      \o Fill("SRF_A", i, <<4 * i - 1>>)])

MadBankSums ==
  [k \in 1 .. 4 |-> Data("MAD", "GRF_A", 7, "GRF_B", 5, "SRF_M", 6, "ODD_BANK", FALSE, TRUE)]
    \o <<Nop(5)>>
    \o [k \in 1 .. 4 |-> Data("MAD", "GRF_A", k + 3, "EVEN_BANK", k + 3, "ODD_BANK", k + 3,
                              "SRF_A", FALSE, FALSE)]
    \o <<Nop(4)>>

MadBankProgram ==
  MadBankSums
    \o Concat(0, 1, [i \in 0 .. 1 |->
         << Data("MUL", "GRF_B", i, "EVEN_BANK", i, "GRF_B", 7 - i, "NONE", FALSE, TRUE),
            Op("MUL", "GRF_B", 2 * i + 1, "EVEN_BANK", 2 * i + 1, "GRF_B", 7 - i) >>])
    \o <<Nop(2)>> \o Results("GRF_A", 8) \o Results("GRF_B", 4) \o <<Exit>>

(* The addends come with the sums, the factors in the cycle after their    *)
(* command.  The last words stay on the buses during the second NOP.       *)
MadAddends ==
  Concat(0, 3, [i \in 0 .. 3 |->
    << With(RunAt(9 * i), 0, IF i = 0 THEN 0 ELSE 6 * (i - 1)) >>
      \o For(AddStages - 1, With(Hold, 0, 6 * i))])

MadFactors ==
  [k \in 1 .. 4 |-> With(IF k = 4 THEN Hold ELSE RunAt(27), k - 1, 100 * (k - 1))]

MulFactors ==
  Concat(0, 1, [i \in 0 .. 1 |->
    << IF i = 0 THEN With(RunAt(0), 3, 300) ELSE With(RunAt(18), 2, 0),
       With(RunAt(39), i, 0) >>])

MadBankExecute ==
  For(1, Hold) \o MadAddends \o For(1, With(Hold, 0, 18)) \o For(6, RunAt(27)) \o MadFactors
    \o For(4, With(RunAt(27), 3, 300)) \o MulFactors \o For(3, With(RunAt(39), 3, 0))
    \o For(12, RunAt(39)) \o For(9, Off)

MadBankTest == [pins |-> MadBankFill \o FillCrf(MadBankProgram) \o MadBankExecute,
                announced |-> Count(3, 0, 1, 12, 0, 4, 8, 0)]

-----------------------------------------------------------------------------
(* ADD, JUMP and MAC with the banks: GRF_A = EVEN_BANK + ODD_BANK, stored  *)
(* to the even bank, and GRF_B = ODD_BANK * SRF_M + GRF_B, address-aligned, *)
(* each in a loop of its own.                                              *)
MacBankFill ==
  Concat(0, 7, [i \in 0 .. 7 |->
    Fill("GRF_B", i, Beats(-32 * i, -4)) \o Fill("SRF_M", i, << 2 ^ (7 - i) >>)])

StoreLoop ==
  << Op("ADD", "GRF_A", 0, "EVEN_BANK", 0, "ODD_BANK", 1), Nop(AddStages + 1),
     Mov("EVEN_BANK", 0, "GRF_A", 0), Jump(3, 3) >>

MacBankProgram ==
  StoreLoop \o
  << Data("MAC", "GRF_B", 7, "ODD_BANK", 5, "SRF_M", 6, "NONE", FALSE, TRUE),
     Nop(MultStages + AddStages), Jump(2, 7), Mov("GRF_A", 0, "GRF_B", 0), Exit >>

MacBankExecute ==
  For(1, Hold)
    \o Concat(0, 3, [i \in 0 .. 3 |->
         For(1, Run) \o For(1, With(Run, 100 * i + 1, 20 * i + 2)) \o For(2 + AddStages, Run)])
    \o Concat(0, 7, [i \in 0 .. 7 |->
         For(1, With(RunAt(i), 0, IF i = 0 THEN 0 ELSE 500 * (i - 1)))
           \o For(1 + MultStages + AddStages, With(RunAt(i), 0, 500 * i))])
    \o For(2, RunAt(7)) \o For(6, Off)

MacBankTest == [pins |-> MacBankFill \o FillCrf(MacBankProgram) \o MacBankExecute,
                announced |-> Count(12, 12, 1, 5, 4, 0, 0, 8)]

-----------------------------------------------------------------------------
Tests == <<MadTest, MovTest, MacTest, BankTest, MadBankTest, MacBankTest>>
=============================================================================
