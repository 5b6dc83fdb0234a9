---------------------------- MODULE RfWriteProof ----------------------------
(***************************************************************************)
(* Proofs about RfWrite, for every number of beats, every payload and both *)
(* widths of the bus: driver and interface unit count the same beats, a    *)
(* write reaches its register whole, and the two implement the atomic      *)
(* write port.                                                             *)
(***************************************************************************)
EXTENDS RfWrite, SequenceTheorems, TLAPS

USE InterfaceAssumption, RfWriteAssumption DEF InterfaceAssumption, RfWriteAssumption

-----------------------------------------------------------------------------
(* The parts of TypeOK that a step keeps for reasons of their own: the     *)
(* registers, the driver, the unit.                                        *)
RegsType ==
  /\ DOMAIN regs = Registers
  /\ \A r \in Registers : regs[r] \in Words \cup {Zeros(Width(r[1]))}

DriverType ==
  /\ dqCycle \in 0 .. DqClk - 1 /\ data2DQAux \in [1 .. DqClk -> Beat]
  /\ instrCycle \in 0 .. InstrClk - 1 /\ instr2DQAux \in [1 .. InstrClk -> Beat]

UnitType ==
  /\ grf_wr_cnt \in 0 .. DqClk - 1
  /\ grf_ser2par \in [1 .. DqClk - 1 -> Beat]
  /\ crf_wr_cnt \in 0 .. 1 /\ crf_ser2par \in Beat

(* The strengthening: the driver sends one thing at a time, what the unit  *)
(* gathers is for a register that exists, and the word of a write that has *)
(* several beats is one the host may write.                                *)
OneAtATime == dqCycle = 0 \/ instrCycle = 0

Gathering ==
  /\ grf_wr_cnt # 0 => row = "GRF" /\ write.word \in Payload
  /\ crf_wr_cnt # 0 =>
       row = "CRF" /\ \E w \in Payload : write.word = SubSeq(w, 1, InstrClk)

WriteType == write = [reg |-> write.reg, word |-> write.word]

IInv ==
  /\ RegsType /\ DriverType /\ UnitType
  /\ row \in Rows /\ col \in Cols
  /\ InPhase
  /\ OneAtATime /\ Gathering /\ WriteType

(* The invariant covers the type invariant. *)
LEMMA InvariantTypes == IInv => TypeOK
  BY DEF IInv, TypeOK, RegsType, DriverType, UnitType

-----------------------------------------------------------------------------
(* The leading beats of a payload are a sequence of beats. *)
LEMMA LeadingBeats ==
  ASSUME NEW w \in Payload, NEW n \in 1 .. DqClk
  PROVE  /\ SubSeq(w, 1, n) \in Seq(Beat) /\ Len(SubSeq(w, 1, n)) = n
         /\ SubSeq(w, 1, n) \in [1 .. n -> Beat]
         /\ \A k \in 1 .. n : SubSeq(w, 1, n)[k] = w[k]
<1>1. w \in [1 .. DqClk -> Beat]
  OBVIOUS
<1>2. \A k \in 1 .. n : w[k] \in Beat
  BY <1>1
<1>3. /\ SubSeq(w, 1, n) \in Seq(Beat)
      /\ Len(SubSeq(w, 1, n)) = IF 1 <= n THEN n - 1 + 1 ELSE 0
      /\ \A k \in 1 .. n - 1 + 1 : SubSeq(w, 1, n)[k] = w[1 + k - 1]
  BY <1>2, SubSeqProperties
<1>4. n \in Nat /\ 1 <= n
  OBVIOUS
<1>5. Len(SubSeq(w, 1, n)) = n
  BY <1>3, <1>4
<1>6. \A k \in 1 .. n : SubSeq(w, 1, n)[k] = w[k]
  BY <1>3, <1>4
<1>7. SubSeq(w, 1, n) \in [1 .. Len(SubSeq(w, 1, n)) -> Beat]
  BY <1>3, LenProperties
<1>8. QED
  BY <1>3, <1>5, <1>6, <1>7

(* A whole payload is the word of its leading DqClk beats, and one beat is *)
(* that of the leading one.                                                *)
LEMMA WholePayload ==
  ASSUME NEW w \in Payload
  PROVE  SubSeq(w, 1, DqClk) = w /\ SubSeq(w, 1, 1) = <<w[1]>>
<1>1. w \in [1 .. DqClk -> Beat]
  OBVIOUS
<1>2. SubSeq(w, 1, DqClk) \in [1 .. DqClk -> Beat]
      /\ \A k \in 1 .. DqClk : SubSeq(w, 1, DqClk)[k] = w[k]
  BY LeadingBeats
<1>3. SubSeq(w, 1, DqClk) = w
  BY <1>1, <1>2
<1>4. SubSeq(w, 1, 1) \in Seq(Beat) /\ Len(SubSeq(w, 1, 1)) = 1 /\ SubSeq(w, 1, 1)[1] = w[1]
  BY LeadingBeats
<1>5. <<w[1]>> \in Seq(Beat) /\ Len(<<w[1]>>) = 1 /\ <<w[1]>>[1] = w[1]
  BY <1>1
<1>6. \A i \in 1 .. 1 : SubSeq(w, 1, 1)[i] = <<w[1]>>[i]
  BY <1>4, <1>5
<1>7. SubSeq(w, 1, 1) = <<w[1]>>
  BY <1>4, <1>5, <1>6, SeqEqual
<1>8. QED
  BY <1>3, <1>7

(* The words a write command can bring are among Words. *)
LEMMA WordsOfPayload ==
  ASSUME NEW w \in Payload
  PROVE  w \in Words /\ <<w[1]>> \in Words /\ SubSeq(w, 1, InstrClk) \in Words
  BY WholePayload DEF Words

(* What the unit hands to the decoder at the last beat is the word of the  *)
(* write command, for the register that command named.                     *)
LEMMA GatheredWord ==
  ASSUME IInv, LastBeat(row)
  PROVE  /\ DataOut(Streamed) = write.word
         /\ write.word \in Words
         /\ write.reg = <<row, col>> /\ write.reg \in Registers
<1>1. CASE crf_wr_cnt # 0
  <2>1. /\ crf_wr_cnt = 1 /\ InstrClk = 2 /\ instrCycle = 1
        /\ write.reg = <<row, col>> /\ row = "CRF" /\ col \in Cols
        /\ crf_ser2par = write.word[1] /\ instr2DQAux = write.word
    BY <1>1 DEF IInv, DriverType, UnitType, InPhase, Gathering
  <2>2. PICK w \in Payload : write.word = SubSeq(w, 1, 2)
    BY <1>1, <2>1 DEF IInv, Gathering
  <2>3. write.word \in [1 .. 2 -> Beat]
    BY <2>1, <2>2, LeadingBeats
  <2>4. DataOut(Streamed) = <<write.word[1], write.word[2]>>
    BY <1>1, <2>1 DEF DataOut, Streamed
  <2>5. <<write.word[1], write.word[2]>> = write.word
    BY <2>3
  <2>6. write.word \in Words
    BY <2>1, <2>2, WordsOfPayload
  <2>7. QED
    BY <2>1, <2>4, <2>5, <2>6 DEF Registers
<1>2. CASE crf_wr_cnt = 0
  <2>1. /\ grf_wr_cnt = DqClk - 1 /\ grf_wr_cnt # 0
        /\ dqCycle = DqClk - 1 /\ instrCycle = 0
        /\ write.reg = <<row, col>> /\ row = "GRF" /\ col \in Cols
        /\ data2DQAux = write.word /\ write.word \in Payload
        /\ \A k \in 1 .. DqClk - 1 : grf_ser2par[k] = write.word[k]
    BY <1>2 DEF IInv, DriverType, UnitType, InPhase, Gathering, OneAtATime, LastBeat
  <2>2. /\ grf_ser2par \in [1 .. DqClk - 1 -> Beat]
        /\ write.word \in [1 .. DqClk -> Beat]
    BY <2>1 DEF IInv, UnitType
  <2>3. Streamed = write.word[DqClk]
    BY <2>1 DEF Streamed
  <2>4. DataOut(Streamed) = Append(grf_ser2par, write.word[DqClk])
    BY <1>2, <2>1, <2>3 DEF DataOut
  <2>5. grf_ser2par \in Seq(Beat) /\ Len(grf_ser2par) = DqClk - 1
    BY <2>2
  <2>6. Append(grf_ser2par, write.word[DqClk]) = write.word
    BY <2>1, <2>2, <2>5
  <2>7. write.word \in Words
    BY <2>1, WordsOfPayload
  <2>8. write.reg = <<row, col>> /\ write.reg \in Registers
    BY <2>1 DEF Registers
  <2>9. QED
    BY <2>4, <2>6, <2>7, <2>8
<1>3. QED
  BY <1>1, <1>2 DEF IInv, UnitType

-----------------------------------------------------------------------------
(* Before the first beat of anything every register holds zeros. *)
LEMMA ZeroBeats ==
  ASSUME NEW n \in Nat
  PROVE  Zeros(n) \in [1 .. n -> Beat]
  BY DEF Zeros

LEMMA InitIInv == ASSUME Init PROVE IInv
<1>1. RegsType
  BY DEF Init, RegsType
<1>2. DriverType
  BY ZeroBeats DEF Init, DriverType
<1>3. UnitType
  <2>1. DqClk - 1 \in Nat
    OBVIOUS
  <2>2. QED
    BY <2>1, ZeroBeats DEF Init, IuInit, UnitType
<1>4. row \in Rows /\ col \in Cols
  BY DEF Init, Rows
<1>5. InPhase /\ OneAtATime /\ Gathering
  BY DEF Init, IuInit, InPhase, OneAtATime, Gathering
<1>6. WriteType
  BY DEF Init, WriteType
<1>7. QED
  BY <1>1, <1>2, <1>3, <1>4, <1>5, <1>6 DEF IInv

(* The driver goes on sending what it has begun to send, one beat a cycle. *)
LEMMA StreamingType ==
  ASSUME DriverType, OneAtATime, KeepStreaming
  PROVE  DriverType' /\ OneAtATime'
  BY DEF DriverType, OneAtATime, KeepStreaming, Beats

LEMMA StreamedBeat ==
  ASSUME DriverType
  PROVE  Streamed \in Beat
<1>1. instrCycle # 0 => instr2DQAux[instrCycle + 1] \in Beat
  BY DEF DriverType
<1>2. dqCycle # 0 => data2DQAux[dqCycle + 1] \in Beat
  BY DEF DriverType
<1>3. QED
  BY <1>1, <1>2 DEF Streamed

(* A cycle in which the unit gets a beat dq leaves it well typed. *)
LEMMA UnitStepType ==
  ASSUME UnitType, NEW r, NEW rd, NEW wr, NEW dq \in Beat, IuCycle(r, rd, wr, dq)
  PROVE  UnitType'
  BY DEF UnitType, IuCycle, BankCycle, FirstGrfBeat, FirstHalf, NoBeat, SecondHalf, NextGrfBeat,
         LastGrfBeat, NoTransfer, iuVars

(* A register that is written a word keeps the others as they are. *)
LEMMA RegsWritten ==
  ASSUME RegsType, NEW r \in Registers, NEW w \in Words, regs' = [regs EXCEPT ![r] = w]
  PROVE  RegsType'
  BY DEF RegsType

-----------------------------------------------------------------------------
(* Between transfers, and during one until a bank row is seen, the unit    *)
(* writes a register in a cycle without a command only at the last beat of *)
(* a transfer: the word that was sent.                                     *)
LEMMA QuietRegs ==
  ASSUME IInv, QuietCycle
  PROVE  /\ LastBeat(row) => regs' = [regs EXCEPT ![write.reg] = write.word]
         /\ ~LastBeat(row) => regs' = regs
         /\ RegsType'
<1>1. RfAccess(row, FALSE, FALSE) <=> LastBeat(row)
  BY DEF RfAccess, SingleBeat
<1>2. CASE LastBeat(row)
  <2>1. /\ DataOut(Streamed) = write.word /\ write.word \in Words
        /\ write.reg = <<row, col>> /\ write.reg \in Registers
    BY <1>2, GatheredWord
  <2>2. regs' = [regs EXCEPT ![write.reg] = write.word]
    BY <1>1, <1>2, <2>1 DEF QuietCycle, Core
  <2>3. QED
    BY <1>2, <2>1, <2>2, RegsWritten DEF IInv
<1>3. CASE ~LastBeat(row)
  <2>1. regs' = regs
    BY <1>1, <1>3 DEF QuietCycle, Core
  <2>2. QED
    BY <1>3, <2>1 DEF RegsType, IInv
<1>4. QED
  BY <1>2, <1>3

(* A cycle without a command: driver and unit both move on by one beat. *)
LEMMA QuietIInv == ASSUME IInv, QuietCycle PROVE IInv'
<1>1. DriverType' /\ OneAtATime'
  BY StreamingType DEF QuietCycle, IInv
<1>2. UnitType'
  BY StreamedBeat, UnitStepType DEF QuietCycle, Core, IInv
<1>3. row' = row /\ col' = col /\ write' = write
  BY DEF QuietCycle, Core
<1>4. \/ BankCycle(row) \/ NoBeat(row, FALSE, FALSE) \/ SecondHalf(row)
      \/ NextGrfBeat(row, Streamed) \/ LastGrfBeat(row)
  BY DEF QuietCycle, Core, IuCycle, FirstGrfBeat, FirstHalf
<1>5. KeepStreaming
  BY DEF QuietCycle
<1>6. InPhase' /\ Gathering'
  <2>1. CASE BankCycle(row) \/ SecondHalf(row) \/ LastGrfBeat(row)
    <3>1. grf_wr_cnt' = 0 /\ crf_wr_cnt' = 0
      BY <2>1 DEF BankCycle, SecondHalf, LastGrfBeat, IInv, InPhase, OneAtATime, Gathering, DriverType, UnitType
    <3>2. QED
      BY <3>1 DEF InPhase, Gathering
  <2>2. CASE NoBeat(row, FALSE, FALSE)
    <3>1. grf_wr_cnt' = 0 /\ crf_wr_cnt' = 0
      BY <2>2 DEF NoBeat, NoTransfer, iuVars
    <3>2. QED
      BY <3>1 DEF InPhase, Gathering
  <2>3. CASE NextGrfBeat(row, Streamed)
    <3>1. /\ grf_wr_cnt \in 1 .. DqClk - 2 /\ dqCycle = grf_wr_cnt /\ instrCycle = 0
          /\ data2DQAux = write.word /\ <<row, col>> = write.reg
          /\ \A k \in 1 .. grf_wr_cnt : grf_ser2par[k] = write.word[k]
          /\ grf_ser2par \in [1 .. DqClk - 1 -> Beat]
      BY <2>3 DEF NextGrfBeat, IInv, DriverType, UnitType, InPhase, OneAtATime
    <3>2. Streamed = write.word[grf_wr_cnt + 1]
      BY <3>1 DEF Streamed
    <3>3. /\ grf_wr_cnt' = grf_wr_cnt + 1 /\ crf_wr_cnt' = 0
          /\ grf_ser2par' = [grf_ser2par EXCEPT ![grf_wr_cnt + 1] = Streamed]
      BY <2>3 DEF NextGrfBeat
    <3>4. dqCycle' = grf_wr_cnt' /\ data2DQAux' = data2DQAux
      BY <1>5, <3>1, <3>3 DEF KeepStreaming, Beats
    <3>5. \A k \in 1 .. grf_wr_cnt' : grf_ser2par'[k] = write.word[k]
      BY <3>1, <3>2, <3>3
    <3>6. row = "GRF" /\ write.word \in Payload
      BY <3>1 DEF IInv, Gathering
    <3>7. InPhase'
      BY <1>3, <3>1, <3>3, <3>4, <3>5 DEF InPhase
    <3>8. Gathering'
      BY <1>3, <3>3, <3>6 DEF Gathering
    <3>9. QED
      BY <3>7, <3>8
  <2>4. QED
    BY <1>4, <2>1, <2>2, <2>3
<1>7. RegsType'
  BY QuietRegs
<1>8. QED
  BY <1>1, <1>2, <1>3, <1>6, <1>7 DEF IInv, WriteType

(* A command to a bank row: whatever was under way in the unit is over,    *)
(* and no register is written.                                             *)
LEMMA BankFacts ==
  ASSUME IInv, BankCommand
  PROVE  /\ regs' = regs /\ row' = "BANK" /\ col' \in Cols
         /\ NoTransfer'
         /\ ~NoTransfer => EarlyBank
<1>1. PICK c \in Cols, rd \in BOOLEAN : Core("BANK", c, rd, ~rd, Streamed)
  BY DEF BankCommand
<1>2. ~RfAccess("BANK", rd, ~rd)
  BY DEF RfAccess, SingleBeat, LastBeat
<1>3. BankCycle("BANK")
  BY <1>1 DEF Core, IuCycle, FirstGrfBeat, FirstHalf, NoBeat, SecondHalf, NextGrfBeat, LastGrfBeat
<1>4. crf_wr_cnt = 0 /\ (grf_wr_cnt # 0 => EarlyBank)
  BY DEF BankCommand, IInv, InPhase, DriverType, UnitType
<1>5. regs' = regs /\ row' = "BANK" /\ col' \in Cols
  BY <1>1, <1>2 DEF Core
<1>6. NoTransfer'
  BY <1>3, <1>4 DEF BankCycle, NoTransfer
<1>7. QED
  BY <1>4, <1>5, <1>6 DEF NoTransfer

LEMMA BankIInv == ASSUME IInv, BankCommand PROVE IInv'
<1>1. DriverType' /\ OneAtATime'
  BY StreamingType DEF BankCommand, IInv
<1>2. UnitType'
  BY StreamedBeat, UnitStepType DEF BankCommand, Core, IInv
<1>3. RegsType' /\ row' \in Rows /\ col' \in Cols
  BY BankFacts DEF IInv, RegsType, Rows
<1>4. InPhase' /\ Gathering'
  BY BankFacts DEF NoTransfer, InPhase, Gathering
<1>5. WriteType'
  BY DEF BankCommand, IInv, WriteType
<1>6. QED
  BY <1>1, <1>2, <1>3, <1>4, <1>5 DEF IInv

-----------------------------------------------------------------------------
(* A write command finds the unit idle, because the driver is.             *)
LEMMA UnitIdle ==
  ASSUME IInv, dqCycle = 0, instrCycle = 0
  PROVE  NoTransfer
  BY DEF IInv, InPhase, NoTransfer

(* The first and only beat of a write to the SRF, or to the CRF if an      *)
(* instruction is one beat.                                                *)
LEMMA OneBeatFacts ==
  ASSUME IInv, WriteOneBeat
  PROVE  /\ NoTransfer /\ NoTransfer'
         /\ row' \in Rows /\ col' \in Cols
         /\ \E r \in Registers, w \in Words :
              regs' = [regs EXCEPT ![r] = w] /\ write' = [reg |-> r, word |-> w]
<1>1. PICK r \in {"SRF"} \cup (IF InstrClk = 1 THEN {"CRF"} ELSE {}), c \in Cols, w \in Payload :
        /\ Core(r, c, FALSE, TRUE, w[1])
        /\ write' = [reg |-> <<r, c>>, word |-> <<w[1]>>]
  BY DEF WriteOneBeat
<1>2. NoTransfer
  BY UnitIdle DEF WriteOneBeat
<1>3. r \in {"SRF", "CRF"} /\ (r = "CRF" => InstrClk = 1)
  OBVIOUS
<1>4. RfAccess(r, FALSE, TRUE)
  BY <1>2, <1>3 DEF RfAccess, SingleBeat
<1>5. DataOut(w[1]) = <<w[1]>>
  BY <1>2 DEF DataOut, NoTransfer
<1>6. NoBeat(r, FALSE, TRUE)
  <2>1. IuCycle(r, FALSE, TRUE, w[1])
    BY <1>1 DEF Core
  <2>2. ~BankCycle(r) /\ ~FirstGrfBeat(r, FALSE, TRUE, w[1]) /\ ~FirstHalf(r, FALSE, TRUE, w[1])
    BY <1>3 DEF BankCycle, FirstGrfBeat, FirstHalf
  <2>3. ~SecondHalf(r) /\ ~NextGrfBeat(r, w[1]) /\ ~LastGrfBeat(r)
    BY <1>2 DEF SecondHalf, NextGrfBeat, LastGrfBeat, NoTransfer
  <2>4. QED
    BY <2>1, <2>2, <2>3 DEF IuCycle
<1>7. NoTransfer'
  BY <1>2, <1>6 DEF NoBeat, NoTransfer, iuVars
<1>8. <<r, c>> \in Registers /\ <<w[1]>> \in Words
  BY <1>3, WordsOfPayload DEF Registers
<1>9. regs' = [regs EXCEPT ![<<r, c>>] = <<w[1]>>]
  BY <1>1, <1>4, <1>5 DEF Core
<1>10. row' \in Rows /\ col' \in Cols
  BY <1>1, <1>3 DEF Core, Rows
<1>11. QED
  BY <1>1, <1>2, <1>7, <1>8, <1>9, <1>10

LEMMA OneBeatIInv == ASSUME IInv, WriteOneBeat PROVE IInv'
<1>1. DriverType' /\ OneAtATime'
  BY StreamingType DEF WriteOneBeat, IInv
<1>2. UnitType'
  <2>1. \A w \in Payload : w[1] \in Beat
    OBVIOUS
  <2>2. QED
    BY <2>1, UnitStepType DEF WriteOneBeat, Core, IInv
<1>3. RegsType' /\ row' \in Rows /\ col' \in Cols
  BY OneBeatFacts, RegsWritten DEF IInv
<1>4. InPhase' /\ Gathering'
  BY OneBeatFacts DEF NoTransfer, InPhase, Gathering
<1>5. WriteType'
  BY OneBeatFacts DEF WriteType
<1>6. QED
  BY <1>1, <1>2, <1>3, <1>4, <1>5 DEF IInv

(* The first half of an instruction on a 16-bit bus. *)
LEMMA WriteInstrFacts ==
  ASSUME IInv, WriteInstr
  PROVE  \E c \in Cols, w \in Payload :
           /\ NoTransfer /\ ~NoTransfer'
           /\ InstrClk = 2
           /\ row' = "CRF" /\ col' = c /\ regs' = regs
           /\ write' = [reg |-> <<"CRF", c>>, word |-> SubSeq(w, 1, 2)]
           /\ instr2DQAux' = SubSeq(w, 1, 2)
           /\ FirstHalf("CRF", FALSE, TRUE, w[1])
<1>1. InstrClk = 2
  BY DEF WriteInstr
<1>2. PICK c \in Cols, w \in Payload :
        /\ instr2DQAux' = SubSeq(w, 1, InstrClk)
        /\ Core("CRF", c, FALSE, TRUE, w[1])
        /\ write' = [reg |-> <<"CRF", c>>, word |-> SubSeq(w, 1, InstrClk)]
  BY DEF WriteInstr
<1>3. NoTransfer
  BY UnitIdle DEF WriteInstr
<1>4. ~RfAccess("CRF", FALSE, TRUE)
  BY <1>1, <1>3 DEF RfAccess, SingleBeat, LastBeat, NoTransfer
<1>5. FirstHalf("CRF", FALSE, TRUE, w[1])
  BY <1>1, <1>2, <1>3 DEF Core, IuCycle, BankCycle, FirstGrfBeat, NoBeat, SecondHalf, NextGrfBeat,
     LastGrfBeat, NoTransfer
<1>6. ~NoTransfer'
  BY <1>5 DEF FirstHalf, NoTransfer
<1>7. row' = "CRF" /\ col' = c /\ regs' = regs
  BY <1>2, <1>4 DEF Core
<1>8. QED
  BY <1>1, <1>2, <1>3, <1>5, <1>6, <1>7

LEMMA WriteInstrIInv == ASSUME IInv, WriteInstr PROVE IInv'
<1>1. PICK c \in Cols, w \in Payload :
        /\ NoTransfer /\ ~NoTransfer'
        /\ InstrClk = 2
        /\ row' = "CRF" /\ col' = c /\ regs' = regs
        /\ write' = [reg |-> <<"CRF", c>>, word |-> SubSeq(w, 1, 2)]
        /\ instr2DQAux' = SubSeq(w, 1, 2)
        /\ FirstHalf("CRF", FALSE, TRUE, w[1])
  BY WriteInstrFacts
<1>2. /\ SubSeq(w, 1, 2) \in [1 .. 2 -> Beat] /\ SubSeq(w, 1, 2)[1] = w[1]
      /\ w[1] \in Beat
  BY <1>1, LeadingBeats
<1>3. DriverType' /\ OneAtATime' /\ instrCycle' = 1
  <2>1. dqCycle = 0 /\ dqCycle' = 0 /\ data2DQAux' = data2DQAux /\ instrCycle' = 1
    BY DEF WriteInstr
  <2>2. instr2DQAux' \in [1 .. InstrClk -> Beat]
    BY <1>1, <1>2
  <2>3. QED
    BY <1>1, <2>1, <2>2 DEF IInv, DriverType, OneAtATime
<1>4. UnitType'
  BY <1>1, <1>2 DEF FirstHalf, IInv, UnitType
<1>5. RegsType' /\ row' \in Rows /\ col' \in Cols
  BY <1>1 DEF IInv, RegsType, Rows
<1>6. InPhase'
  BY <1>1, <1>2, <1>3 DEF FirstHalf, NoTransfer, InPhase
<1>7. Gathering'
  BY <1>1 DEF FirstHalf, NoTransfer, Gathering
<1>8. WriteType'
  BY <1>1 DEF WriteType
<1>9. QED
  BY <1>3, <1>4, <1>5, <1>6, <1>7, <1>8 DEF IInv

(* The first beat of what the driver takes for a write to a GRF: the unit  *)
(* gathers it, or the row is above the register files and nothing happens. *)
LEMMA WriteGrfFacts ==
  ASSUME IInv, WriteGrf
  PROVE  \E r \in {"GRF", "ABOVE"}, c \in Cols, w \in Payload :
           /\ NoTransfer
           /\ row' = r /\ col' = c /\ regs' = regs
           /\ write' = [reg |-> <<r, c>>, word |-> w]
           /\ data2DQAux' = w
           /\ \/ r = "GRF" /\ FirstGrfBeat("GRF", FALSE, TRUE, w[1])
              \/ r = "ABOVE" /\ NoBeat("ABOVE", FALSE, TRUE)
<1>1. PICK r \in {"GRF", "ABOVE"}, c \in Cols, w \in Payload :
        /\ data2DQAux' = w
        /\ Core(r, c, FALSE, TRUE, w[1])
        /\ write' = [reg |-> <<r, c>>, word |-> w]
  BY DEF WriteGrf
<1>2. NoTransfer
  BY UnitIdle DEF WriteGrf
<1>3. ~RfAccess(r, FALSE, TRUE)
  BY <1>2 DEF RfAccess, SingleBeat, LastBeat, NoTransfer
<1>4. \/ r = "GRF" /\ FirstGrfBeat("GRF", FALSE, TRUE, w[1])
      \/ r = "ABOVE" /\ NoBeat("ABOVE", FALSE, TRUE)
  BY <1>1, <1>2 DEF Core, IuCycle, BankCycle, FirstGrfBeat, FirstHalf, NoBeat, SecondHalf, NextGrfBeat,
     LastGrfBeat, NoTransfer
<1>5. row' = r /\ col' = c /\ regs' = regs
  BY <1>1, <1>3 DEF Core
<1>6. QED
  BY <1>1, <1>2, <1>4, <1>5

LEMMA WriteGrfIInv == ASSUME IInv, WriteGrf PROVE IInv'
<1>1. PICK r \in {"GRF", "ABOVE"}, c \in Cols, w \in Payload :
        /\ NoTransfer
        /\ row' = r /\ col' = c /\ regs' = regs
        /\ write' = [reg |-> <<r, c>>, word |-> w]
        /\ data2DQAux' = w
        /\ \/ r = "GRF" /\ FirstGrfBeat("GRF", FALSE, TRUE, w[1])
           \/ r = "ABOVE" /\ NoBeat("ABOVE", FALSE, TRUE)
  BY WriteGrfFacts
<1>2. w \in [1 .. DqClk -> Beat] /\ w[1] \in Beat
  BY LeadingBeats
<1>3. DriverType' /\ OneAtATime' /\ dqCycle' = 1
  BY <1>1, <1>2 DEF WriteGrf, IInv, DriverType, OneAtATime
<1>4. UnitType'
  BY <1>1, <1>2 DEF FirstGrfBeat, NoBeat, iuVars, IInv, UnitType
<1>5. RegsType' /\ row' \in Rows /\ col' \in Cols
  BY <1>1 DEF IInv, RegsType, Rows
<1>6. InPhase' /\ Gathering'
  <2>1. CASE r = "GRF"
    <3>1. /\ grf_wr_cnt' = 1 /\ crf_wr_cnt' = 0
          /\ grf_ser2par' = [grf_ser2par EXCEPT ![1] = w[1]]
      BY <1>1, <2>1 DEF FirstGrfBeat, NoTransfer
    <3>2. grf_ser2par'[1] = w[1]
      BY <3>1 DEF IInv, UnitType
    <3>3. InPhase'
      BY <1>1, <1>3, <3>1, <3>2 DEF InPhase
    <3>4. Gathering'
      BY <1>1, <2>1, <3>1 DEF Gathering
    <3>5. QED
      BY <3>3, <3>4
  <2>2. CASE r = "ABOVE"
    <3>1. grf_wr_cnt' = 0 /\ crf_wr_cnt' = 0
      BY <1>1, <2>2 DEF NoBeat, NoTransfer, iuVars
    <3>2. QED
      BY <3>1 DEF InPhase, Gathering
  <2>3. QED
    BY <2>1, <2>2
<1>7. WriteType'
  BY <1>1 DEF WriteType
<1>8. QED
  BY <1>3, <1>4, <1>5, <1>6, <1>7 DEF IInv

-----------------------------------------------------------------------------
LEMMA StepIInv == ASSUME IInv, [Next]_vars PROVE IInv'
<1>1. CASE UNCHANGED vars
  <2>1. /\ RegsType' /\ DriverType' /\ UnitType' /\ row' \in Rows /\ col' \in Cols
    BY <1>1 DEF vars, iuVars, driverVars, IInv, RegsType, DriverType, UnitType
  <2>2. InPhase' /\ OneAtATime' /\ Gathering' /\ WriteType'
    BY <1>1 DEF vars, iuVars, driverVars, IInv, InPhase, OneAtATime, Gathering, WriteType
  <2>3. QED
    BY <2>1, <2>2 DEF IInv
<1>2. QED
  BY <1>1, QuietIInv, BankIInv, OneBeatIInv, WriteInstrIInv, WriteGrfIInv DEF Next

(* For every number of beats, payload and bus: what driver and unit have   *)
(* counted, gathered and promised fits together in every cycle.            *)
THEOREM RfWriteInvariant == Spec => []IInv
<1>1. Init => IInv
  BY InitIInv
<1>2. IInv /\ [Next]_vars => IInv'
  BY StepIInv
<1>3. QED
  BY <1>1, <1>2, PTL DEF Spec

(* The beat counters of driver and unit stay below the number of beats,    *)
(* and a register holds a word the host has written, or zeros.             *)
THEOREM TypeCorrect == Spec => []TypeOK
<1>1. IInv => TypeOK
  BY InvariantTypes
<1>2. QED
  BY <1>1, RfWriteInvariant, PTL

(* The driver and the unit count the same beats of the same write.         *)
THEOREM CountersInPhase == Spec => []InPhase
<1>1. IInv => InPhase
  BY DEF IInv
<1>2. QED
  BY <1>1, RfWriteInvariant, PTL

-----------------------------------------------------------------------------
(* The cycle that ends a transfer is that of its last beat, unless it is   *)
(* that of a command to a bank row.                                        *)
LEMMA QuietEnd ==
  ASSUME IInv, QuietCycle
  PROVE  /\ write' = write
         /\ NoTransfer => NoTransfer' /\ regs' = regs
         /\ ~NoTransfer /\ NoTransfer' => regs' = [regs EXCEPT ![write.reg] = write.word]
         /\ ~NoTransfer /\ ~NoTransfer' => regs' = regs
<1>1. write' = write
  BY DEF QuietCycle
<1>2. \/ BankCycle(row) \/ NoBeat(row, FALSE, FALSE) \/ SecondHalf(row)
      \/ NextGrfBeat(row, Streamed) \/ LastGrfBeat(row)
  BY DEF QuietCycle, Core, IuCycle, FirstGrfBeat, FirstHalf
<1>3. CASE NoTransfer
  <2>1. ~LastBeat(row)
    BY <1>3 DEF LastBeat, NoTransfer
  <2>2. NoTransfer'
    BY <1>2, <1>3 DEF NoTransfer, BankCycle, NoBeat, iuVars, SecondHalf, NextGrfBeat, LastGrfBeat
  <2>3. QED
    BY <1>1, <1>3, <2>1, <2>2, QuietRegs
<1>4. CASE ~NoTransfer
  <2>1. row # "BANK"
    BY <1>4 DEF NoTransfer, IInv, Gathering
  <2>2. CASE SecondHalf(row)
    <3>1. LastBeat(row) /\ NoTransfer'
      BY <2>2 DEF SecondHalf, LastBeat, NoTransfer, IInv, InPhase, OneAtATime, DriverType, UnitType
    <3>2. QED
      BY <1>1, <1>4, <3>1, QuietRegs
  <2>3. CASE NextGrfBeat(row, Streamed)
    <3>1. ~LastBeat(row) /\ ~NoTransfer'
      BY <2>3 DEF NextGrfBeat, LastBeat, NoTransfer, IInv, UnitType
    <3>2. QED
      BY <1>1, <1>4, <3>1, QuietRegs
  <2>4. CASE LastGrfBeat(row)
    <3>1. LastBeat(row) /\ NoTransfer'
      BY <2>4 DEF LastGrfBeat, LastBeat, NoTransfer, IInv, UnitType
    <3>2. QED
      BY <1>1, <1>4, <3>1, QuietRegs
  <2>5. QED
    BY <1>2, <1>4, <2>1, <2>2, <2>3, <2>4 DEF BankCycle, NoBeat
<1>5. QED
  BY <1>3, <1>4

(* A write that has begun reaches its register whole, unless a command to  *)
(* a bank row cuts it short.                                               *)
THEOREM WritesLand == Spec => WriteLands
<1>1. ASSUME IInv, [Next]_vars, ~NoTransfer, NoTransfer'
      PROVE  \/ regs' = [regs EXCEPT ![write.reg] = write.word]
             \/ EarlyBank /\ row' = "BANK" /\ regs' = regs
  <2>1. CASE QuietCycle
    BY <1>1, <2>1, QuietEnd
  <2>2. CASE BankCommand
    BY <1>1, <2>2, BankFacts
  <2>3. ~WriteOneBeat /\ ~WriteInstr /\ ~WriteGrf
    BY <1>1, UnitIdle DEF WriteOneBeat, WriteInstr, WriteGrf
  <2>4. ~UNCHANGED vars
    BY <1>1 DEF vars, iuVars, NoTransfer
  <2>5. QED
    BY <1>1, <2>1, <2>2, <2>3, <2>4 DEF Next
<1>2. IInv /\ [Next]_vars =>
        [ (~NoTransfer /\ NoTransfer') =>
            \/ regs' = [regs EXCEPT ![write.reg] = write.word]
            \/ EarlyBank /\ row' = "BANK" /\ regs' = regs ]_vars
  BY <1>1
<1>3. QED
  BY <1>2, RfWriteInvariant, PTL DEF Spec, WriteLands

-----------------------------------------------------------------------------
(* While a transfer is under way the write it carries is a real one.       *)
LEMMA WriteIsPending ==
  ASSUME IInv, ~NoTransfer
  PROVE  write # NoWrite
<1>1. write.reg = <<row, col>>
  BY DEF IInv, InPhase, NoTransfer
<1>2. <<row, col>> # <<"NONE">>
  OBVIOUS
<1>3. NoWrite.reg = <<"NONE">>
  BY DEF NoWrite
<1>4. QED
  BY <1>1, <1>2, <1>3

(* Every cycle is a step of the write port, or none.                       *)
LEMMA PortStep ==
  ASSUME IInv, [Next]_vars
  PROVE  [Port!Next]_(Port!vars)
<1>1. CASE QuietCycle
  <2>1. CASE NoTransfer
    BY <1>1, <2>1, QuietEnd DEF Port!vars
  <2>2. CASE ~NoTransfer /\ NoTransfer'
    <3>1. Port!Commit
      BY <1>1, <2>2, QuietEnd, WriteIsPending DEF Port!Commit
    <3>2. QED
      BY <3>1 DEF Port!Next
  <2>3. CASE ~NoTransfer /\ ~NoTransfer'
    BY <1>1, <2>3, QuietEnd DEF Port!vars
  <2>4. QED
    BY <2>1, <2>2, <2>3
<1>2. CASE BankCommand
  <2>1. CASE NoTransfer
    BY <1>2, <2>1, BankFacts DEF Port!vars
  <2>2. CASE ~NoTransfer
    <3>1. Port!Abandon
      BY <1>2, <2>2, BankFacts, WriteIsPending DEF Port!Abandon
    <3>2. QED
      BY <3>1 DEF Port!Next
  <2>3. QED
    BY <2>1, <2>2
<1>3. CASE WriteOneBeat
  <2>1. PICK r \in Registers, w \in Words :
          regs' = [regs EXCEPT ![r] = w] /\ NoTransfer /\ NoTransfer'
    BY <1>3, OneBeatFacts
  <2>2. Port!WriteAtOnce(r, w)
    BY <2>1 DEF Port!WriteAtOnce
  <2>3. QED
    BY <2>2 DEF Port!Next
<1>4. CASE WriteInstr
  <2>1. PICK c \in Cols, w \in Payload :
          /\ NoTransfer /\ ~NoTransfer' /\ InstrClk = 2 /\ regs' = regs
          /\ write' = [reg |-> <<"CRF", c>>, word |-> SubSeq(w, 1, 2)]
    BY <1>4, WriteInstrFacts
  <2>2. <<"CRF", c>> \in Registers /\ SubSeq(w, 1, 2) \in Words
    BY <2>1, WordsOfPayload DEF Registers
  <2>3. Port!Accept(<<"CRF", c>>, SubSeq(w, 1, 2))
    BY <2>1 DEF Port!Accept
  <2>4. QED
    BY <2>2, <2>3 DEF Port!Next
<1>5. CASE WriteGrf
  <2>1. PICK r \in {"GRF", "ABOVE"}, c \in Cols, w \in Payload :
          /\ NoTransfer /\ regs' = regs
          /\ write' = [reg |-> <<r, c>>, word |-> w]
          /\ \/ r = "GRF" /\ FirstGrfBeat("GRF", FALSE, TRUE, w[1])
             \/ r = "ABOVE" /\ NoBeat("ABOVE", FALSE, TRUE)
    BY <1>5, WriteGrfFacts
  <2>2. CASE r = "GRF"
    <3>1. ~NoTransfer'
      BY <2>1, <2>2 DEF FirstGrfBeat, NoTransfer
    <3>2. <<"GRF", c>> \in Registers /\ w \in Words
      BY WordsOfPayload DEF Registers
    <3>3. Port!Accept(<<"GRF", c>>, w)
      BY <2>1, <2>2, <3>1 DEF Port!Accept
    <3>4. QED
      BY <3>2, <3>3 DEF Port!Next
  <2>3. CASE r = "ABOVE"
    <3>1. NoTransfer'
      BY <2>1, <2>3 DEF NoBeat, NoTransfer, iuVars
    <3>2. QED
      BY <2>1, <3>1 DEF Port!vars
  <2>4. QED
    BY <2>2, <2>3
<1>6. CASE UNCHANGED vars
  BY <1>6 DEF vars, iuVars, NoTransfer, Port!vars
<1>7. QED
  BY <1>1, <1>2, <1>3, <1>4, <1>5, <1>6 DEF Next

(* The driver and the interface unit implement the atomic write port, for  *)
(* every number of beats and either width of the bus.                      *)
THEOREM Refinement == Spec => AtomicWrites
<1>1. Init => Port!Init
  BY DEF Init, IuInit, NoTransfer, Port!Init
<1>2. IInv /\ [Next]_vars => [Port!Next]_(Port!vars)
  BY PortStep
<1>3. QED
  BY <1>1, <1>2, RfWriteInvariant, PTL DEF Spec, AtomicWrites, Port!Spec
=============================================================================
