--------------------------- MODULE InterfaceUnit ---------------------------
(***************************************************************************)
(* The interface unit of a near-memory core (variant VAR_DQ_CLK): it tells *)
(* commands that trigger the decoder from accesses to the register files   *)
(* by the row address, and gathers the beats of a GRF write, or the two    *)
(* halves of an instruction on a 16-bit bus, into one parallel word.       *)
(*                                                                         *)
(* The unit sees the pins in every cycle; the row and column stay on them  *)
(* between commands.  One action is one clock cycle in PIM mode.           *)
(***************************************************************************)
EXTENDS Integers, Sequences

CONSTANTS
  DqClk,      \* beats of a GRF register (DQ_CLK: 4, 8 or 16)
  InstrClk    \* beats of an instruction word (INSTR_CLK: 1, or 2 if DQ_BITS is 16)

ASSUME InterfaceAssumption == /\ DqClk \in Nat /\ DqClk > 1
                              /\ InstrClk \in {1, 2}

VARIABLES
  grf_wr_cnt,    \* beats of a GRF write gathered so far (grf_wr_cnt_reg)
  grf_ser2par,   \* those beats (grf_ser2par_reg)
  crf_wr_cnt,    \* halves of an instruction gathered so far (crf_wr_cnt_reg)
  crf_ser2par    \* that half (crf_ser2par_reg)

iuVars == <<grf_wr_cnt, grf_ser2par, crf_wr_cnt, crf_ser2par>>

(* What a row address selects: a bank row (MSB 0), a register file, or a   *)
(* row above the last register file.                                       *)
Rows == {"BANK", "CRF", "SRF", "GRF", "ABOVE"}

(* A sequence of n zero beats, the value of a cleared register. *)
Zeros(n) == [k \in 1 .. n |-> 0]

IuInit ==
  /\ grf_wr_cnt = 0 /\ grf_ser2par = Zeros(DqClk - 1)
  /\ crf_wr_cnt = 0 /\ crf_ser2par = 0

-----------------------------------------------------------------------------
(* Pins of a cycle: row, rd, wr and the beat dq on the data bus. *)
NoTransfer == grf_wr_cnt = 0 /\ crf_wr_cnt = 0

DecodeEn(row, rd, wr) == row = "BANK" /\ (rd \/ wr)

(* A write that one beat completes. *)
SingleBeat(row, rd, wr) ==
  /\ NoTransfer
  /\ row = "SRF" \/ (row = "CRF" /\ InstrClk = 1)
  /\ wr /\ ~rd

(* Mutant: one beat too early. *)
LastBeatEarly(row) ==
  /\ row # "BANK"
  /\ crf_wr_cnt # 0 \/ grf_wr_cnt = DqClk - 2

LastBeat(row) ==
  /\ row # "BANK"
  /\ crf_wr_cnt # 0 \/ grf_wr_cnt = DqClk - 1

(* rf_access: the decoder is to write data_out to the register that the    *)
(* row and column on the pins select in this cycle.                        *)
RfAccess(row, rd, wr) == SingleBeat(row, rd, wr) \/ LastBeat(row)

(* Mutant: the newest beat comes first. *)
DataOutReversed(dq) ==
  IF crf_wr_cnt # 0 THEN <<dq, crf_ser2par>>
  ELSE IF grf_wr_cnt # 0 THEN <<dq>> \o grf_ser2par
  ELSE <<dq>>

DataOut(dq) ==
  IF crf_wr_cnt # 0 THEN <<crf_ser2par, dq>>
  ELSE IF grf_wr_cnt # 0 THEN Append(grf_ser2par, dq)
  ELSE <<dq>>

-----------------------------------------------------------------------------
(* Mutant: the write in progress is kept. *)
BankCycleKeeping(row) == row = "BANK" /\ UNCHANGED iuVars

(* A cycle with a bank row on the pins ends a GRF write in progress (and   *)
(* only that).                                                             *)
BankCycle(row) ==
  /\ row = "BANK"
  /\ grf_wr_cnt' = 0
  /\ UNCHANGED <<grf_ser2par, crf_wr_cnt, crf_ser2par>>

(* A write to a GRF starts with its first beat. *)
FirstGrfBeat(row, rd, wr, dq) ==
  /\ row = "GRF" /\ NoTransfer /\ wr /\ ~rd
  /\ grf_wr_cnt' = 1
  /\ grf_ser2par' = [grf_ser2par EXCEPT ![1] = dq]
  /\ UNCHANGED <<crf_wr_cnt, crf_ser2par>>

(* The first half of an instruction. *)
FirstHalf(row, rd, wr, dq) ==
  /\ row = "CRF" /\ InstrClk = 2 /\ NoTransfer /\ wr /\ ~rd
  /\ crf_wr_cnt' = 1
  /\ crf_ser2par' = dq
  /\ UNCHANGED <<grf_wr_cnt, grf_ser2par>>

(* A register-file row, no transfer in progress and none begun: a write of *)
(* one beat, a RD, or no command.                                          *)
NoBeat(row, rd, wr) ==
  /\ row # "BANK" /\ NoTransfer
  /\ ~(wr /\ ~rd /\ (row = "GRF" \/ (row = "CRF" /\ InstrClk = 2)))
  /\ UNCHANGED iuVars

(* Mutant: the counter is not cleared. *)
SecondHalfOpen(row) ==
  /\ row # "BANK" /\ crf_wr_cnt # 0
  /\ UNCHANGED iuVars

(* During a transfer every cycle brings a beat, whatever the pins say. *)
SecondHalf(row) ==
  /\ row # "BANK" /\ crf_wr_cnt # 0
  /\ crf_wr_cnt' = 0
  /\ UNCHANGED <<grf_wr_cnt, grf_ser2par, crf_ser2par>>

NextGrfBeat(row, dq) ==
  /\ row # "BANK" /\ crf_wr_cnt = 0 /\ grf_wr_cnt # 0
  /\ grf_wr_cnt < DqClk - 1
  /\ grf_wr_cnt' = grf_wr_cnt + 1
  /\ grf_ser2par' = [grf_ser2par EXCEPT ![grf_wr_cnt + 1] = dq]
  /\ UNCHANGED <<crf_wr_cnt, crf_ser2par>>

LastGrfBeat(row) ==
  /\ row # "BANK" /\ crf_wr_cnt = 0 /\ grf_wr_cnt # 0
  /\ grf_wr_cnt >= DqClk - 1
  /\ grf_wr_cnt' = 0
  /\ UNCHANGED <<grf_ser2par, crf_wr_cnt, crf_ser2par>>

IuCycle(row, rd, wr, dq) ==
  \/ BankCycle(row)
  \/ FirstGrfBeat(row, rd, wr, dq)
  \/ FirstHalf(row, rd, wr, dq)
  \/ NoBeat(row, rd, wr)
  \/ SecondHalf(row)
  \/ NextGrfBeat(row, dq)
  \/ LastGrfBeat(row)
=============================================================================
