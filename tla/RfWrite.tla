------------------------------ MODULE RfWrite ------------------------------
(***************************************************************************)
(* Writes to the register files of a core, from the pch_driver that puts a *)
(* command and its beats on the pins to the register the interface unit    *)
(* and the decoder write.  One action is one clock cycle.                  *)
(*                                                                         *)
(* The driver asserts that no command comes while it still sends beats;    *)
(* the assertions are compiled out, so it is the input file that has to    *)
(* see to it.  Streams that break it with a command to a bank row while a  *)
(* GRF write is under way are modelled.                                    *)
(***************************************************************************)
EXTENDS InterfaceUnit

CONSTANTS
  Cols,       \* columns, the indices of registers in a register file
  Beat,       \* values of a beat
  Payload,    \* data of a GRF write: sequences of DqClk beats
  EarlyBank   \* a command to a bank row may come during a GRF write

ASSUME RfWriteAssumption ==
  /\ Payload \subseteq [1 .. DqClk -> Beat]
  /\ 0 \in Beat
  /\ DqClk >= InstrClk
  /\ EarlyBank \in BOOLEAN

VARIABLES
  dqCycle,       \* driver: beats of a GRF write on their way (DQCycle)
  data2DQAux,    \* driver: those beats
  instrCycle,    \* driver: halves of an instruction on their way
  instr2DQAux,   \* driver: those halves
  row, col,      \* what is on the address pins
  regs,          \* contents of the register files
  write          \* history: register and word of the last write command

driverVars == <<dqCycle, data2DQAux, instrCycle, instr2DQAux>>
vars == <<iuVars, driverVars, row, col, regs, write>>

Registers == {"CRF", "SRF", "GRF"} \X Cols
Width(r) == CASE r = "GRF" -> DqClk [] r = "CRF" -> InstrClk [] OTHER -> 1

(* The words that can be written: the leading beats of a payload. *)
Words == {SubSeq(w, 1, n) : w \in Payload, n \in {1, InstrClk, DqClk}}

-----------------------------------------------------------------------------
(* The beat the driver sends on its own in this cycle. *)
Streamed == IF instrCycle # 0 THEN instr2DQAux[instrCycle + 1]
            ELSE IF dqCycle # 0 THEN data2DQAux[dqCycle + 1]
            ELSE 0

(* A beat counter of the driver after n beats (and one that wraps late, a  *)
(* mutant).                                                                *)
BeatsLate(n, clk) == IF n > clk THEN 0 ELSE n
Beats(n, clk) == IF n > clk - 1 THEN 0 ELSE n

KeepStreaming ==
  /\ dqCycle' = IF dqCycle # 0 THEN Beats(dqCycle + 1, DqClk) ELSE 0
  /\ instrCycle' = IF instrCycle # 0 THEN Beats(instrCycle + 1, InstrClk) ELSE 0
  /\ UNCHANGED <<data2DQAux, instr2DQAux>>

(* The core sees the pins; the decoder writes the register they select. *)
Core(r, c, rd, wr, dq) ==
  /\ row' = r /\ col' = c
  /\ IuCycle(r, rd, wr, dq)
  /\ regs' = IF RfAccess(r, rd, wr) THEN [regs EXCEPT ![<<r, c>>] = DataOut(dq)] ELSE regs

-----------------------------------------------------------------------------
Init ==
  /\ IuInit
  /\ dqCycle = 0 /\ data2DQAux = Zeros(DqClk)
  /\ instrCycle = 0 /\ instr2DQAux = Zeros(InstrClk)
  /\ row = "BANK" /\ col \in Cols
  /\ regs = [r \in Registers |-> Zeros(Width(r[1]))]
  /\ write = [reg |-> <<row, col>>, word |-> << >>]

(* No command, or a RD to a register-file row, which the driver drops. *)
QuietCycle ==
  /\ Core(row, col, FALSE, FALSE, Streamed)
  /\ KeepStreaming
  /\ UNCHANGED write

(* A command that triggers the decoder, but not between the halves of an   *)
(* instruction: the unit would keep the first half.                        *)
BankCommand ==
  /\ instrCycle = 0
  /\ EarlyBank \/ dqCycle = 0
  /\ \E c \in Cols, rd \in BOOLEAN : Core("BANK", c, rd, ~rd, Streamed)
  /\ KeepStreaming
  /\ UNCHANGED write

(* A write to one beat's width: SRF, or CRF if the bus is wide enough. *)
WriteOneBeat ==
  /\ dqCycle = 0 /\ instrCycle = 0
  /\ \E r \in {"SRF"} \cup (IF InstrClk = 1 THEN {"CRF"} ELSE {}), c \in Cols, w \in Payload :
       /\ Core(r, c, FALSE, TRUE, w[1])
       /\ write' = [reg |-> <<r, c>>, word |-> <<w[1]>>]
  /\ KeepStreaming

(* A write to the CRF over a 16-bit bus. *)
WriteInstr ==
  /\ InstrClk = 2
  /\ dqCycle = 0 /\ instrCycle = 0
  /\ \E c \in Cols, w \in Payload :
       /\ instr2DQAux' = SubSeq(w, 1, InstrClk)
       /\ Core("CRF", c, FALSE, TRUE, w[1])
       /\ write' = [reg |-> <<"CRF", c>>, word |-> SubSeq(w, 1, InstrClk)]
  /\ instrCycle' = 1
  /\ UNCHANGED <<dqCycle, data2DQAux>>

(* A write to a GRF, or to a row above the register files, which the       *)
(* driver takes for one.                                                   *)
WriteGrf ==
  /\ dqCycle = 0 /\ instrCycle = 0
  /\ \E r \in {"GRF", "ABOVE"}, c \in Cols, w \in Payload :
       /\ data2DQAux' = w
       /\ Core(r, c, FALSE, TRUE, w[1])
       /\ write' = [reg |-> <<r, c>>, word |-> w]
  /\ dqCycle' = 1
  /\ UNCHANGED <<instrCycle, instr2DQAux>>

Next == QuietCycle \/ BankCommand \/ WriteOneBeat \/ WriteInstr \/ WriteGrf

(* The clock does not stop during a transfer. *)
Spec == Init /\ [][Next]_vars /\ WF_vars(~NoTransfer /\ Next)

-----------------------------------------------------------------------------
TypeOK ==
  /\ grf_wr_cnt \in 0 .. DqClk - 1
  /\ grf_ser2par \in [1 .. DqClk - 1 -> Beat]
  /\ crf_wr_cnt \in 0 .. 1 /\ crf_ser2par \in Beat
  /\ dqCycle \in 0 .. DqClk - 1 /\ data2DQAux \in [1 .. DqClk -> Beat]
  /\ instrCycle \in 0 .. InstrClk - 1 /\ instr2DQAux \in [1 .. InstrClk -> Beat]
  /\ row \in Rows /\ col \in Cols
  /\ \A r \in Registers : regs[r] \in Words \cup {Zeros(Width(r[1]))}

(* The driver and the unit count the same beats: a unit that gathers knows *)
(* as many beats as the driver has sent, all of them of the write under    *)
(* way, and the pins still select the register of that write.              *)
InPhase ==
  /\ grf_wr_cnt # 0 =>
       /\ dqCycle = grf_wr_cnt /\ <<row, col>> = write.reg /\ data2DQAux = write.word
       /\ \A k \in 1 .. grf_wr_cnt : grf_ser2par[k] = write.word[k]
  /\ crf_wr_cnt # 0 =>
       /\ instrCycle = crf_wr_cnt /\ <<row, col>> = write.reg /\ instr2DQAux = write.word
       /\ crf_ser2par = write.word[1]

(* A write that has begun reaches its register, unless a command to a bank *)
(* row cuts a GRF write short.                                             *)
WriteLands ==
  [][ (~NoTransfer /\ NoTransfer') =>
        \/ regs' = [regs EXCEPT ![write.reg] = write.word]
        \/ EarlyBank /\ row' = "BANK" /\ regs' = regs ]_vars

(* A write that has begun ends. *)
TransferEnds == ~NoTransfer ~> NoTransfer

(* The unit and the driver implement the atomic write port. *)
NoWrite == [reg |-> <<"NONE">>, word |-> << >>]
Port == INSTANCE RfWritePort
          WITH InitialRegs <- [r \in Registers |-> Zeros(Width(r[1]))],
               pending <- IF NoTransfer THEN NoWrite ELSE write
AtomicWrites == Port!Spec
=============================================================================
