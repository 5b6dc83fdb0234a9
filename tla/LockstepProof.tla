---------------------------- MODULE LockstepProof ----------------------------
(***************************************************************************)
(* Proofs about Lockstep, for every CRF size, field width, set of source   *)
(* instructions, spacing and length of source and raw sequence.            *)
(*                                                                         *)
(* Assembler and core never meet: the core starts when the raw sequence is *)
(* complete.  What ties them is a replay: the states cs[0], cs[1], ... the *)
(* core goes through when it takes the raw sequence line by line.  While   *)
(* the assembler writes, the last state of the replay follows its walk;    *)
(* while the core takes the lines, it is in the state cs[pos].             *)
(***************************************************************************)
EXTENDS Lockstep, SequenceTheorems, TLAPS

USE IsaAssumption, ControlUnitAssumption, AssemblerAssumption, LockstepAssumption
  DEF IsaAssumption, ControlUnitAssumption, AssemblerAssumption, LockstepAssumption

-----------------------------------------------------------------------------
(* The content of a CRF entry after reset is an instruction word. *)
LEMMA ZeroIsWord == ZeroWord \in Word
  BY DEF Word, ZeroWord, Operations, BankUse

(* The word the decoder sees is an instruction word. *)
LEMMA FetchedWord == ControlUnitTypeOK => Fetched \in Word
  BY ZeroIsWord DEF ControlUnitTypeOK, Fetched

(* The reset state of the control unit is well typed. *)
LEMMA CuInitType == ASSUME CuInit PROVE ControlUnitTypeOK
<1>1. crf \in [CrfIndex -> Word]
  BY ZeroIsWord DEF CuInit
<1>2. pc \in 0 .. PcMod - 1 /\ nop_cnt \in 0 .. NopMod - 1 /\ jmp_cnt \in 0 .. JmpMod - 1
  BY DEF CuInit
<1>3. jmp_act \in BOOLEAN
  BY DEF CuInit
<1>4. QED
  BY <1>1, <1>2, <1>3 DEF ControlUnitTypeOK

(* Every cycle without a reset keeps the registers in their widths. *)
LEMMA CuStepType ==
  ASSUME ControlUnitTypeOK,
         Idle \/ Trigger \/ (\E i \in CrfIndex, w \in Word : WriteCrf(i, w))
  PROVE  ControlUnitTypeOK'
<1>0. Fetched \in Word
  BY FetchedWord
<1>1. CASE Idle
  BY <1>1 DEF Idle, NopTicked, ControlUnitTypeOK
<1>2. CASE \E i \in CrfIndex, w \in Word : WriteCrf(i, w)
  BY <1>2 DEF WriteCrf, NopTicked, ControlUnitTypeOK
<1>3. CASE IgnoreTrigger
  BY <1>3 DEF IgnoreTrigger, Idle, NopTicked, ControlUnitTypeOK
<1>4. CASE Decode
  <2>1. PcCounted \in 0 .. PcMod - 1
    BY DEF PcCounted, ControlUnitTypeOK
  <2>2. PcJumped(Fetched.imm0) \in 0 .. PcMod - 1
    BY <1>0 DEF PcJumped, ControlUnitTypeOK, Word
  <2>3. NopTicked \in 0 .. NopMod - 1
    BY DEF NopTicked, ControlUnitTypeOK
  <2>4. CASE DecodeNop
    <3>1. Dec(Fetched.imm0, NopMod) \in 0 .. NopMod - 1
      BY <1>0 DEF Dec, Word
    <3>2. QED
      BY <2>1, <2>4, <3>1 DEF DecodeNop, ControlUnitTypeOK
  <2>5. CASE DecodeJump
    <3>1. Dec(Fetched.imm1, JmpMod) \in 0 .. JmpMod - 1
      BY <1>0 DEF Dec, Word
    <3>2. CASE StartLoop
      BY <2>2, <2>3, <2>5, <3>1, <3>2 DEF StartLoop, DecodeJump, ControlUnitTypeOK
    <3>3. CASE RepeatLoop
      BY <2>2, <2>3, <2>5, <3>3 DEF RepeatLoop, DecodeJump, ControlUnitTypeOK
    <3>4. CASE LeaveLoop
      BY <2>1, <2>3, <2>5, <3>4 DEF LeaveLoop, DecodeJump, ControlUnitTypeOK
    <3>5. QED
      BY <2>5, <3>2, <3>3, <3>4 DEF DecodeJump
  <2>6. CASE DecodeExit
    BY <2>3, <2>6 DEF DecodeExit, ControlUnitTypeOK
  <2>7. CASE DecodeExe
    BY <2>1, <2>3, <2>7 DEF DecodeExe, ControlUnitTypeOK
  <2>8. QED
    BY <1>4, <2>4, <2>5, <2>6, <2>7 DEF Decode
<1>5. QED
  BY <1>1, <1>2, <1>3, <1>4 DEF Trigger

-----------------------------------------------------------------------------
(* The registers of the core that outlive the spacing of two commands.     *)
Core == [crf : [CrfIndex -> Word], pc : 0 .. PcMod - 1,
         jmp_act : BOOLEAN, jmp_cnt : 0 .. JmpMod - 1]
CoreNow == [crf |-> crf, pc |-> pc, jmp_act |-> jmp_act, jmp_cnt |-> jmp_cnt]

(* A trigger finds its instruction, a NOP of which is over in time, and is *)
(* of the kind its use of a bank asks for.                                 *)
Meets(c, line) ==
  line.kind = "TRIGGER" =>
    /\ c.pc = line.entry
    /\ c.crf[line.entry] = line.word
    /\ line.word.op = "NOP" => line.word.imm0 \in 1 .. Spacing
    /\ line.word.bank = "store" => line.cmd = "WR"
    /\ line.word.bank = "load" => line.cmd = "RD"

(* The core c after a trigger of word w, no NOP being on. *)
Next1(p) == IF p < CrfEntries - 1 THEN p + 1 ELSE 0
Back(p, n) == IF n <= p THEN p - n ELSE p + PcMod - n
Triggered(c, w) ==
  [crf |-> c.crf,
   pc |-> IF w.op = "EXIT" THEN 0
          ELSE IF w.op = "JUMP" /\ ~(c.jmp_act /\ c.jmp_cnt = 0) THEN Back(c.pc, w.imm0)
          ELSE Next1(c.pc),
   jmp_act |-> IF w.op = "JUMP" THEN ~(c.jmp_act /\ c.jmp_cnt = 0) ELSE c.jmp_act,
   jmp_cnt |-> IF w.op # "JUMP" \/ (c.jmp_act /\ c.jmp_cnt = 0) THEN c.jmp_cnt
               ELSE IF c.jmp_act THEN c.jmp_cnt - 1 ELSE Dec(w.imm1, JmpMod)]

(* The core c after a line. *)
Taken(c, line) ==
  CASE line.kind = "CRF" -> [crf |-> [c.crf EXCEPT ![line.entry] = line.word], pc |-> c.pc,
                             jmp_act |-> c.jmp_act, jmp_cnt |-> c.jmp_cnt]
    [] line.kind = "RF" -> c
    [] line.kind = "TRIGGER" -> Triggered(c, line.word)

Replays(cs, seq) ==
  /\ cs \in [0 .. Len(seq) -> Core]
  /\ \A k \in 1 .. Len(seq) : Meets(cs[k - 1], seq[k]) /\ cs[k] = Taken(cs[k - 1], seq[k])

(* Core c holds the assembler's array and is where the walk is.            *)
Agrees(c) ==
  /\ c.crf = [i \in CrfIndex |-> BuildInstr(crfInstr[i])]
  /\ exec => c.pc = execIdx /\ c.jmp_act = jmpAct /\ (jmpAct => c.jmp_cnt = jmpNum)
  /\ ~exec => c.pc = 0 /\ ~c.jmp_act

(* A walk is inside a program that ends at e and, while a loop is in       *)
(* progress, inside that loop.                                             *)
OnWalk(e) ==
  /\ WellFormed(crfInstr, e)
  /\ \A i \in CrfIndex : i < e => crfInstr[i].op # "NONE" /\ Fits(crfInstr[i])
  /\ execIdx \in CrfIndex /\ execIdx <= e
  /\ jmpAct => \E j \in CrfIndex : j < e /\ InLoop(crfInstr, execIdx, j)

(* The assembler has stopped, in one way, before the core starts. *)
Stopped == /\ eof => ~error
           /\ Simulating => ~exec

(* A NOP is over when the next command can come. *)
NopInTime == nop_cnt <= Spacing - since

InReplay(cs) == /\ Replays(cs, rawSeq)
                /\ cs[pos] = CoreNow
                /\ ~error => Agrees(cs[Len(rawSeq)])

IInv ==
  /\ TypeOK
  /\ Stopped
  /\ NopInTime
  /\ exec => \E e \in 0 .. CrfEntries : OnWalk(e)
  /\ \E cs : InReplay(cs)

-----------------------------------------------------------------------------
(* The fields of a word have their widths; an instruction that fits is not *)
(* changed by the packing.                                                 *)
LEMMA BuildType == ASSUME NEW ins \in Instruction PROVE BuildInstr(ins) \in Word
<1>1. CASE ins.op = "NONE"
  BY <1>1, ZeroIsWord DEF BuildInstr
<1>2. CASE ins.op # "NONE"
  <2>1. ins.op \in Operations /\ ins.bank \in BankUse
    BY <1>2 DEF Instruction
  <2>2. ins.imm0 % Imm0Mod \in 0 .. Imm0Mod - 1 /\ ins.imm1 % Imm1Mod \in 0 .. Imm1Mod - 1
    BY DEF Instruction
  <2>3. QED
    BY <1>2, <2>1, <2>2 DEF BuildInstr, Word
<1>3. QED
  BY <1>1, <1>2

LEMMA BuildFits ==
  ASSUME NEW ins \in Instruction, ins.op # "NONE"
  PROVE  /\ BuildInstr(ins).op = ins.op
         /\ BuildInstr(ins).bank = ins.bank
         /\ Fits(ins) => BuildInstr(ins).imm0 = ins.imm0 /\ BuildInstr(ins).imm1 = ins.imm1
<1>1. ins.imm0 \in Nat /\ ins.imm1 \in Nat
  BY DEF Instruction
<1>2. Fits(ins) => ins.imm0 % Imm0Mod = ins.imm0 /\ ins.imm1 % Imm1Mod = ins.imm1
  BY <1>1 DEF Fits
<1>3. QED
  BY <1>2 DEF BuildInstr

(* A line takes the core to a state of the core. *)
LEMMA TakenType ==
  ASSUME NEW c \in Core, NEW line \in RawLine
  PROVE  Taken(c, line) \in Core
<1>1. /\ c.crf \in [CrfIndex -> Word] /\ c.pc \in 0 .. PcMod - 1
      /\ c.jmp_act \in BOOLEAN /\ c.jmp_cnt \in 0 .. JmpMod - 1
      /\ line.word \in Word /\ line.entry \in CrfIndex /\ line.kind \in {"CRF", "RF", "TRIGGER"}
  BY DEF Core, RawLine
<1>2. CASE line.kind = "CRF"
  <2>1. [c.crf EXCEPT ![line.entry] = line.word] \in [CrfIndex -> Word]
    BY <1>1
  <2>2. QED
    BY <1>1, <1>2, <2>1 DEF Taken, Core
<1>3. CASE line.kind = "RF"
  BY <1>3 DEF Taken
<1>4. CASE line.kind = "TRIGGER"
  <2>1. line.word.imm0 \in 0 .. Imm0Mod - 1 /\ line.word.imm1 \in 0 .. Imm1Mod - 1
    BY <1>1 DEF Word
  <2>2. Back(c.pc, line.word.imm0) \in 0 .. PcMod - 1 /\ Next1(c.pc) \in 0 .. PcMod - 1
    BY <1>1, <2>1 DEF Back, Next1
  <2>3. Dec(line.word.imm1, JmpMod) \in 0 .. JmpMod - 1
    BY <2>1 DEF Dec
  <2>4. c.jmp_cnt = 0 \/ c.jmp_cnt - 1 \in 0 .. JmpMod - 1
    BY <1>1
  <2>5. Triggered(c, line.word).pc \in 0 .. PcMod - 1
    BY <1>1, <2>2 DEF Triggered
  <2>6. Triggered(c, line.word).jmp_act \in BOOLEAN
    BY <1>1 DEF Triggered
  <2>7. Triggered(c, line.word).jmp_cnt \in 0 .. JmpMod - 1
    BY <1>1, <2>3, <2>4 DEF Triggered
  <2>8. Triggered(c, line.word) \in Core
    BY <1>1, <2>5, <2>6, <2>7 DEF Triggered, Core
  <2>9. QED
    BY <1>4, <2>8 DEF Taken
<1>5. QED
  BY <1>1, <1>2, <1>3, <1>4

(* A replay goes on with one more line. *)
LEMMA ReplayMore ==
  ASSUME NEW seq \in Seq(RawLine), NEW cs, Replays(cs, seq),
         NEW line \in RawLine, Meets(cs[Len(seq)], line)
  PROVE  \E ds : /\ Replays(ds, Append(seq, line))
                 /\ ds[Len(seq) + 1] = Taken(cs[Len(seq)], line)
                 /\ \A k \in 0 .. Len(seq) : ds[k] = cs[k]
<1> DEFINE n == Len(seq)
           ds == [k \in 0 .. n + 1 |-> IF k <= n THEN cs[k] ELSE Taken(cs[n], line)]
           more == Append(seq, line)
<1>1. n \in Nat /\ Len(more) = n + 1 /\ \A k \in 1 .. n : more[k] = seq[k]
  BY AppendProperties
<1>2. more[n + 1] = line
  BY AppendProperties
<1>3. \A k \in 0 .. n : ds[k] = cs[k]
  BY <1>1
<1>4. ds[n + 1] = Taken(cs[n], line)
  BY <1>1
<1>5. \A k \in 0 .. n : cs[k] \in Core
  BY <1>1 DEF Replays
<1>6. Taken(cs[n], line) \in Core
  BY <1>1, <1>5, TakenType
<1>7. ds \in [0 .. n + 1 -> Core]
  BY <1>1, <1>5, <1>6
<1> HIDE DEF ds, more
<1>8. ASSUME NEW k \in 1 .. n + 1
      PROVE  Meets(ds[k - 1], more[k]) /\ ds[k] = Taken(ds[k - 1], more[k])
  <2>1. CASE k <= n
    <3>1. k \in 1 .. n /\ k - 1 \in 0 .. n /\ k \in 0 .. n
      BY <1>1, <2>1
    <3>2. ds[k - 1] = cs[k - 1] /\ ds[k] = cs[k] /\ more[k] = seq[k]
      BY <1>1, <1>3, <3>1
    <3>3. QED
      BY <3>1, <3>2 DEF Replays
  <2>2. CASE k = n + 1
    <3>1. ds[k - 1] = cs[n] /\ more[k] = line
      BY <1>1, <1>2, <1>3, <2>2
    <3>2. QED
      BY <1>4, <2>2, <3>1
  <2>3. QED
    BY <1>1, <2>1, <2>2
<1>9. Replays(ds, more)
  BY <1>1, <1>7, <1>8 DEF Replays
<1>10. QED
  BY <1>3, <1>4, <1>9 DEF more

(* A line written while the core waits: the replay goes on with it, and    *)
(* its last state has to agree with the assembler unless the run ends in   *)
(* an error.                                                               *)
LEMMA EmitReplay ==
  ASSUME TypeOK, NEW cs, InReplay(cs), NEW line \in RawLine,
         rawSeq' = Append(rawSeq, line), UNCHANGED <<cuVars, pos>>,
         Meets(cs[Len(rawSeq)], line),
         NEW c, c = Taken(cs[Len(rawSeq)], line), error' \/ Agrees(c)'
  PROVE  \E ds : InReplay(ds)'
<1>1. rawSeq \in Seq(RawLine) /\ pos \in 0 .. Len(rawSeq)
  BY DEF TypeOK, AssemblerTypeOK
<1>2. PICK ds : /\ Replays(ds, Append(rawSeq, line))
                /\ ds[Len(rawSeq) + 1] = c
                /\ \A k \in 0 .. Len(rawSeq) : ds[k] = cs[k]
  BY <1>1, ReplayMore DEF InReplay
<1>3. Replays(ds, rawSeq)'
  BY <1>2 DEF Replays
<1>4. Len(rawSeq)' = Len(rawSeq) + 1
  BY <1>1, AppendProperties
<1>5. ds[pos] = CoreNow
  BY <1>1, <1>2 DEF InReplay
<1>6. ds[pos'] = CoreNow'
  BY <1>5 DEF CoreNow, cuVars
<1>7. (~error => Agrees(ds[Len(rawSeq)]))'
  <2>1. ds[Len(rawSeq)'] = c
    BY <1>2, <1>4
  <2>2. QED
    BY <2>1 DEF Agrees
<1>8. InReplay(ds)'
  BY <1>3, <1>6, <1>7 DEF InReplay
<1>9. QED
  BY <1>8

(* No line is written: the replay stays. *)
LEMMA KeepReplay ==
  ASSUME NEW cs, InReplay(cs), UNCHANGED <<rawSeq, cuVars, pos>>,
         error' \/ Agrees(cs[Len(rawSeq)])'
  PROVE  \E ds : InReplay(ds)'
<1>1. Replays(cs, rawSeq)'
  BY DEF InReplay, Replays
<1>2. cs[pos'] = CoreNow'
  BY DEF InReplay, CoreNow, cuVars
<1>3. QED
  BY <1>1, <1>2 DEF InReplay

-----------------------------------------------------------------------------
(* While the assembler is not on a walk, before and after a step, the      *)
(* replay agrees as long as array and file get the same words.             *)
LEMMA AssembleType ==
  ASSUME TypeOK, NEW line \in RawLine,
         UNCHANGED rawSeq \/ rawSeq' = Append(rawSeq, line),
         UNCHANGED <<cuVars, pos, since>>
  PROVE  /\ ControlUnitTypeOK'
         /\ rawSeq' \in Seq(RawLine)
         /\ pos' \in 0 .. Len(rawSeq') /\ since' \in 1 .. Spacing
<1>1. rawSeq \in Seq(RawLine) /\ pos \in 0 .. Len(rawSeq)
  BY DEF TypeOK, AssemblerTypeOK
<1>2. rawSeq' \in Seq(RawLine)
  BY <1>1, AppendProperties
<1>3. Len(rawSeq') \in Nat /\ Len(rawSeq) \in Nat /\ Len(rawSeq') >= Len(rawSeq)
  BY <1>1, AppendProperties
<1>4. ControlUnitTypeOK'
  BY DEF TypeOK, ControlUnitTypeOK, cuVars
<1>5. QED
  BY <1>1, <1>2, <1>3, <1>4 DEF TypeOK

(* The line of a word for the CRF and the one of a GRF or SRF. *)
LEMMA LineTypes ==
  /\ \A i \in CrfIndex, w \in Word : [kind |-> "CRF", cmd |-> "WR", entry |-> i, word |-> w] \in RawLine
  /\ RfLine \in RawLine
  BY ZeroIsWord DEF RawLine, RfLine, CrfIndex

(* Lines that change neither array nor file: WRF CRF, an instruction out   *)
(* of place, the end of the source.                                        *)
LEMMA QuietStep ==
  ASSUME IInv,
         (\E n \in 0 .. CrfEntries : WrfCrf(n)) \/ MisplacedInstr \/ EndOfSource,
         UNCHANGED <<cuVars, pos, since>>
  PROVE  IInv'
<1>1. /\ UNCHANGED <<crfInstr, exec, execIdx, jmpAct, jmpNum, rawSeq>>
      /\ ~exec /\ ~error /\ ~eof
  BY DEF WrfCrf, MisplacedInstr, EndOfSource, ReadLine, walk
<1>2. lines' \in 0 .. MaxLines /\ crfIdx' \in 0 .. CrfEntries /\ crfWrMode' \in BOOLEAN
      /\ error' \in BOOLEAN /\ eof' \in BOOLEAN /\ (eof' => ~error')
  <2>1. /\ lines \in 0 .. MaxLines /\ crfIdx \in 0 .. CrfEntries /\ crfWrMode \in BOOLEAN
        /\ error \in BOOLEAN /\ eof \in BOOLEAN
    BY DEF IInv, TypeOK, AssemblerTypeOK
  <2>2. CASE \E n \in 0 .. CrfEntries : WrfCrf(n)
    <3>1. PICK n \in 0 .. CrfEntries : WrfCrf(n)
      BY <2>2
    <3>2. lines' = lines + 1 /\ lines < MaxLines /\ eof' = eof
      BY <3>1 DEF WrfCrf, ReadLine
    <3>3. CASE n < CrfEntries
      BY <1>1, <2>1, <3>1, <3>2, <3>3 DEF WrfCrf
    <3>4. CASE ~(n < CrfEntries)
      BY <1>1, <2>1, <3>1, <3>2, <3>4 DEF WrfCrf
    <3>5. QED
      BY <3>3, <3>4
  <2>3. CASE MisplacedInstr
    BY <2>1, <2>3 DEF MisplacedInstr, ReadLine
  <2>4. CASE EndOfSource
    BY <2>1, <2>4 DEF EndOfSource
  <2>5. QED
    BY <2>2, <2>3, <2>4
<1>3. AssemblerTypeOK'
  BY <1>1, <1>2 DEF IInv, TypeOK, AssemblerTypeOK
<1>4. TypeOK'
  BY <1>1, <1>3, LineTypes, AssembleType DEF IInv, TypeOK
<1>5. PICK cs : InReplay(cs)
  BY DEF IInv
<1>6. Agrees(cs[Len(rawSeq)])'
  BY <1>1, <1>5 DEF InReplay, Agrees
<1>7. \E ds : InReplay(ds)'
  BY <1>1, <1>5, <1>6, KeepReplay
<1>8. Stopped' /\ NopInTime' /\ ~exec'
  BY <1>1, <1>2 DEF IInv, Stopped, Simulating, NopInTime, cuVars
<1>9. QED
  BY <1>4, <1>7, <1>8 DEF IInv

(* EXEC: the walk starts where the core is at rest. *)
LEMMA StartStep ==
  ASSUME IInv, Executable(crfInstr), StartExec, UNCHANGED <<cuVars, pos, since>>
  PROVE  IInv'
<1>1. /\ UNCHANGED <<crfInstr, crfWrMode, crfIdx, error, eof, rawSeq>>
      /\ ~exec /\ ~error /\ ~eof
      /\ exec' = TRUE /\ execIdx' = 0 /\ jmpAct' = FALSE /\ jmpNum' = 0
      /\ lines' = lines + 1 /\ lines < MaxLines
  BY DEF StartExec, ReadLine
<1>2. AssemblerTypeOK'
  <2>1. execIdx' \in 0 .. ExecMod - 1 /\ jmpNum' \in 0 .. ImmMod - 1
    BY <1>1
  <2>2. lines' \in 0 .. MaxLines
    BY <1>1 DEF IInv, TypeOK, AssemblerTypeOK
  <2>3. QED
    BY <1>1, <2>1, <2>2 DEF IInv, TypeOK, AssemblerTypeOK
<1>3. TypeOK'
  BY <1>1, <1>2, LineTypes, AssembleType DEF IInv, TypeOK
<1>4. PICK cs : InReplay(cs)
  BY DEF IInv
<1>5. Agrees(cs[Len(rawSeq)])'
  <2>1. cs[Len(rawSeq)].jmp_act \in BOOLEAN
    BY <1>4 DEF InReplay, Replays, Core, IInv, TypeOK, AssemblerTypeOK
  <2>2. /\ cs[Len(rawSeq)].crf = [i \in CrfIndex |-> BuildInstr(crfInstr[i])]
        /\ cs[Len(rawSeq)].pc = 0 /\ ~cs[Len(rawSeq)].jmp_act
    BY <1>1, <1>4 DEF InReplay, Agrees
  <2>3. QED
    BY <1>1, <2>1, <2>2 DEF Agrees
<1>6. \E ds : InReplay(ds)'
  BY <1>1, <1>4, <1>5, KeepReplay
<1>7. PICK e \in 0 .. CrfEntries :
        WellFormed(crfInstr, e) /\ \A i \in CrfIndex : i < e => crfInstr[i].op # "NONE" /\ Fits(crfInstr[i])
  BY DEF Executable
<1>8. OnWalk(e)'
  BY <1>1, <1>7 DEF OnWalk, CrfIndex, WellFormed, Fits
<1>9. Stopped' /\ NopInTime'
  BY <1>1 DEF IInv, Stopped, Simulating, NopInTime, cuVars
<1>10. QED
  BY <1>3, <1>6, <1>8, <1>9 DEF IInv

(* WRF to a GRF or SRF. *)
LEMMA DataStep ==
  ASSUME IInv, WrfData, UNCHANGED <<cuVars, pos, since>>
  PROVE  IInv'
<1>1. /\ UNCHANGED <<crfInstr, crfWrMode, crfIdx, exec, execIdx, jmpAct, jmpNum, eof>>
      /\ ~exec /\ ~error /\ ~eof
      /\ lines' = lines + 1 /\ lines < MaxLines
      /\ error' \in BOOLEAN
      /\ rawSeq' = Append(rawSeq, RfLine)
  BY DEF WrfData, ReadLine, Emit, walk
<1>2. /\ ControlUnitTypeOK' /\ rawSeq' \in Seq(RawLine)
      /\ pos' \in 0 .. Len(rawSeq') /\ since' \in 1 .. Spacing
  BY <1>1, LineTypes, AssembleType DEF IInv
<1>3. TypeOK'
  BY <1>1, <1>2 DEF IInv, TypeOK, AssemblerTypeOK
<1>4. PICK cs : InReplay(cs)
  BY DEF IInv
<1>5. PICK c : c = Taken(cs[Len(rawSeq)], RfLine)
  OBVIOUS
<1>6. c = cs[Len(rawSeq)]
  BY <1>5 DEF Taken, RfLine
<1>7. Agrees(c)'
  BY <1>1, <1>4, <1>6 DEF InReplay, Agrees
<1>8. Meets(cs[Len(rawSeq)], RfLine)
  BY DEF Meets, RfLine
<1>9. \E ds : InReplay(ds)'
  BY <1>1, <1>4, <1>5, <1>7, <1>8, LineTypes, EmitReplay DEF IInv
<1>10. Stopped' /\ NopInTime' /\ ~exec'
  BY <1>1 DEF IInv, Stopped, Simulating, NopInTime, cuVars
<1>11. QED
  BY <1>3, <1>9, <1>10 DEF IInv

(* An instruction goes into the array and, by its line, into the core's    *)
(* CRF.                                                                    *)
LEMMA WriteStep ==
  ASSUME IInv, NEW ins \in Source, WriteInstr(ins), UNCHANGED <<cuVars, pos, since>>
  PROVE  IInv'
<1> DEFINE line == CrfLine(BuildInstr(ins))
<1>1. /\ UNCHANGED <<crfWrMode, exec, execIdx, jmpAct, jmpNum, eof>>
      /\ ~exec /\ ~error /\ ~eof
      /\ lines' = lines + 1 /\ lines < MaxLines
      /\ crfIdx < CrfEntries /\ crfIdx' = crfIdx + 1
      /\ crfInstr' = [crfInstr EXCEPT ![crfIdx] = ins]
      /\ rawSeq' = Append(rawSeq, line)
  BY DEF WriteInstr, ReadLine, Emit, walk
<1>2. error' \in BOOLEAN
  BY DEF WriteInstr
<1>3. /\ crfIdx \in CrfIndex /\ ins \in Instruction /\ crfInstr \in [CrfIndex -> Instruction]
  BY <1>1 DEF IInv, TypeOK, AssemblerTypeOK, CrfIndex
<1>4. line \in RawLine
  BY <1>3, BuildType, LineTypes DEF CrfLine
<1>5. /\ ControlUnitTypeOK' /\ rawSeq' \in Seq(RawLine)
      /\ pos' \in 0 .. Len(rawSeq') /\ since' \in 1 .. Spacing
  BY <1>1, <1>4, AssembleType DEF IInv
<1>6. AssemblerTypeOK'
  <2>1. crfInstr' \in [CrfIndex -> Instruction]
    BY <1>1, <1>3
  <2>2. crfIdx' \in 0 .. CrfEntries /\ lines' \in 0 .. MaxLines
    BY <1>1 DEF IInv, TypeOK, AssemblerTypeOK
  <2>3. QED
    BY <1>1, <1>2, <1>5, <2>1, <2>2 DEF IInv, TypeOK, AssemblerTypeOK
<1>7. TypeOK'
  BY <1>5, <1>6 DEF TypeOK
<1>8. PICK cs : InReplay(cs)
  BY DEF IInv
<1>9. PICK c : c = Taken(cs[Len(rawSeq)], line)
  OBVIOUS
<1>10. Agrees(c)'
  <2>1. /\ cs[Len(rawSeq)].crf = [i \in CrfIndex |-> BuildInstr(crfInstr[i])]
        /\ cs[Len(rawSeq)].pc = 0 /\ ~cs[Len(rawSeq)].jmp_act
    BY <1>1, <1>8 DEF InReplay, Agrees
  <2>2. /\ c.crf = [cs[Len(rawSeq)].crf EXCEPT ![crfIdx] = BuildInstr(ins)]
        /\ c.pc = 0 /\ ~c.jmp_act
    BY <1>9, <2>1 DEF Taken, CrfLine
  <2>3. c.crf = [i \in CrfIndex |-> BuildInstr(crfInstr'[i])]
    BY <1>1, <1>3, <2>1, <2>2
  <2>4. QED
    BY <1>1, <2>2, <2>3 DEF Agrees
<1>11. Meets(cs[Len(rawSeq)], line)
  BY DEF Meets, CrfLine
<1>12. \E ds : InReplay(ds)'
  BY <1>1, <1>4, <1>8, <1>9, <1>10, <1>11, EmitReplay DEF IInv
<1>13. Stopped' /\ NopInTime' /\ ~exec'
  BY <1>1 DEF IInv, Stopped, Simulating, NopInTime, cuVars
<1>14. QED
  BY <1>7, <1>12, <1>13 DEF IInv

(* An instruction that is rejected ends the run, after its line. *)
LEMMA RejectStep ==
  ASSUME IInv, NEW part \in Source \cup {Unset}, RejectInstr(part),
         UNCHANGED <<cuVars, pos, since>>
  PROVE  IInv'
<1> DEFINE line == CrfLine(BuildInstr(part))
<1>1. /\ UNCHANGED <<crfInstr, crfWrMode, exec, execIdx, jmpAct, jmpNum, eof>>
      /\ ~exec /\ ~error /\ ~eof
      /\ lines' = lines + 1 /\ lines < MaxLines
      /\ crfIdx < CrfEntries /\ crfIdx' = crfIdx + 1
      /\ error' = TRUE
      /\ rawSeq' = Append(rawSeq, line)
  BY DEF RejectInstr, ReadLine, Emit, walk
<1>2. crfIdx \in CrfIndex
  BY <1>1 DEF IInv, TypeOK, AssemblerTypeOK, CrfIndex
<1>3. part \in Instruction
  BY DEF Unset, Instruction, BankUse
<1>4. line \in RawLine
  BY <1>2, <1>3, BuildType, LineTypes DEF CrfLine
<1>5. /\ ControlUnitTypeOK' /\ rawSeq' \in Seq(RawLine)
      /\ pos' \in 0 .. Len(rawSeq') /\ since' \in 1 .. Spacing
  BY <1>1, <1>4, AssembleType DEF IInv
<1>6. AssemblerTypeOK'
  <2>1. crfIdx' \in 0 .. CrfEntries /\ lines' \in 0 .. MaxLines
    BY <1>1 DEF IInv, TypeOK, AssemblerTypeOK
  <2>2. QED
    BY <1>1, <1>5, <2>1 DEF IInv, TypeOK, AssemblerTypeOK
<1>7. TypeOK'
  BY <1>5, <1>6 DEF TypeOK
<1>8. PICK cs : InReplay(cs)
  BY DEF IInv
<1>9. Meets(cs[Len(rawSeq)], line)
  BY DEF Meets, CrfLine
<1>10. PICK c : c = Taken(cs[Len(rawSeq)], line)
  OBVIOUS
<1>11. \E ds : InReplay(ds)'
  BY <1>1, <1>4, <1>8, <1>9, <1>10, EmitReplay DEF IInv
<1>12. Stopped' /\ NopInTime' /\ ~exec'
  BY <1>1 DEF IInv, Stopped, Simulating, NopInTime, cuVars
<1>13. QED
  BY <1>7, <1>11, <1>12 DEF IInv

-----------------------------------------------------------------------------
(* On a walk, the next trigger is one the replayed core is ready for.      *)
LEMMA WalkMeets ==
  ASSUME IInv, exec, NEW cs, InReplay(cs)
  PROVE  /\ ~error /\ ~eof
         /\ execIdx \in CrfIndex
         /\ crfInstr[execIdx] \in Instruction /\ crfInstr[execIdx].op # "NONE"
         /\ TriggerLine \in RawLine
         /\ TriggerLine.word.op = crfInstr[execIdx].op
         /\ Meets(cs[Len(rawSeq)], TriggerLine)
<1>1. PICK e \in 0 .. CrfEntries : OnWalk(e)
  BY DEF IInv
<1>2. ~error /\ ~eof
  BY DEF IInv, Stopped, Simulating
<1>3. execIdx \in CrfIndex /\ execIdx <= e
  BY <1>1 DEF OnWalk
<1>4. crfInstr[execIdx] \in Instruction
  BY <1>3 DEF IInv, TypeOK, AssemblerTypeOK
<1>5. crfInstr[execIdx].op # "NONE"
  <2>1. CASE execIdx < e
    BY <1>1, <1>3, <2>1 DEF OnWalk
  <2>2. CASE execIdx = e
    BY <1>1, <1>3, <2>2 DEF OnWalk, WellFormed
  <2>3. QED
    BY <1>3, <2>1, <2>2 DEF CrfIndex
<1>6. BuildInstr(crfInstr[execIdx]) \in Word
  BY <1>4, BuildType
<1>7. TriggerLine \in RawLine
  BY <1>3, <1>6 DEF TriggerLine, RawLine, MemCmd
<1>8. /\ TriggerLine.entry = execIdx
      /\ TriggerLine.word = BuildInstr(crfInstr[execIdx])
      /\ TriggerLine.cmd = MemCmd(crfInstr[execIdx])
  BY DEF TriggerLine
<1>9. /\ TriggerLine.word.op = crfInstr[execIdx].op
      /\ TriggerLine.word.bank = crfInstr[execIdx].bank
      /\ Fits(crfInstr[execIdx]) => TriggerLine.word.imm0 = crfInstr[execIdx].imm0
  BY <1>4, <1>5, <1>8, BuildFits
<1>10. TriggerLine.word.op = "NOP" => TriggerLine.word.imm0 \in 1 .. Spacing
  <2>1. SUFFICES ASSUME crfInstr[execIdx].op = "NOP" PROVE TriggerLine.word.imm0 \in 1 .. Spacing
    BY <1>9
  <2>2. execIdx # e
    BY <1>1, <1>3, <2>1 DEF OnWalk, WellFormed
  <2>3. Fits(crfInstr[execIdx])
    BY <1>1, <1>3, <2>2 DEF OnWalk, CrfIndex
  <2>4. QED
    BY <1>9, <2>1, <2>3 DEF Fits
<1>11. cs[Len(rawSeq)].pc = execIdx /\ cs[Len(rawSeq)].crf[execIdx] = TriggerLine.word
  BY <1>2, <1>3, <1>8 DEF InReplay, Agrees
<1>12. Meets(cs[Len(rawSeq)], TriggerLine)
  BY <1>8, <1>9, <1>10, <1>11 DEF Meets, MemCmd
<1>13. QED
  BY <1>2, <1>3, <1>4, <1>5, <1>7, <1>9, <1>12

(* The data file ends on a walk: the run stops after the command. *)
LEMMA NoDataStep ==
  ASSUME IInv, ExecNoData, UNCHANGED <<cuVars, pos, since>>
  PROVE  IInv'
<1>1. /\ UNCHANGED <<crfInstr, crfWrMode, crfIdx, execIdx, jmpAct, jmpNum, eof, lines>>
      /\ exec /\ exec' = FALSE /\ error' = TRUE
      /\ rawSeq' = Append(rawSeq, TriggerLine)
  BY DEF ExecNoData, Emit
<1>2. PICK cs : InReplay(cs)
  BY DEF IInv
<1>3. TriggerLine \in RawLine /\ Meets(cs[Len(rawSeq)], TriggerLine) /\ ~eof
  BY <1>1, <1>2, WalkMeets
<1>4. TypeOK'
  <2>1. /\ ControlUnitTypeOK' /\ rawSeq' \in Seq(RawLine)
        /\ pos' \in 0 .. Len(rawSeq') /\ since' \in 1 .. Spacing
    BY <1>1, <1>3, AssembleType DEF IInv
  <2>2. QED
    BY <1>1, <2>1 DEF IInv, TypeOK, AssemblerTypeOK
<1>5. PICK line : line = TriggerLine
  OBVIOUS
<1>6. PICK c : c = Taken(cs[Len(rawSeq)], line)
  OBVIOUS
<1>7. \E ds : InReplay(ds)'
  BY <1>1, <1>2, <1>3, <1>5, <1>6, EmitReplay DEF IInv
<1>8. Stopped' /\ NopInTime' /\ ~exec'
  BY <1>1, <1>3 DEF IInv, Stopped, Simulating, NopInTime, cuVars
<1>9. QED
  BY <1>4, <1>7, <1>8 DEF IInv

(* What the cases of a turn of the walk share: the program, the entry in   *)
(* it, the replayed core before the trigger (b) and after it (c).          *)
Turn(e, b, c) ==
  /\ AssemblerTypeOK
  /\ b \in Core /\ Agrees(b)
  /\ OnWalk(e)
  /\ exec
  /\ crfInstr[execIdx].op # "NONE"
  /\ c = Triggered(b, BuildInstr(crfInstr[execIdx]))
  /\ crfInstr' = crfInstr

(* After the turn the walk is well typed, inside its program and with the  *)
(* core, or over and the core at rest.                                     *)
Turned(e, c) ==
  /\ exec' \in BOOLEAN /\ execIdx' \in 0 .. ExecMod - 1
  /\ jmpAct' \in BOOLEAN /\ jmpNum' \in 0 .. ImmMod - 1
  /\ exec' => OnWalk(e)'
  /\ Agrees(c)'

LEMMA TurnFacts ==
  ASSUME NEW e, NEW b, NEW c, Turn(e, b, c)
  PROVE  /\ e \in 0 .. CrfEntries /\ execIdx \in CrfIndex /\ execIdx <= e
         /\ crfInstr \in [CrfIndex -> Instruction]
         /\ jmpAct \in BOOLEAN /\ jmpNum \in 0 .. ImmMod - 1
         /\ execIdx < e => Fits(crfInstr[execIdx]) /\ crfInstr[execIdx].op # "EXIT"
         /\ execIdx = e => crfInstr[execIdx].op = "EXIT"
         /\ c.crf = [i \in CrfIndex |-> BuildInstr(crfInstr[i])]
         /\ b.pc = execIdx /\ b.jmp_act = jmpAct /\ (jmpAct => b.jmp_cnt = jmpNum)
         /\ BuildInstr(crfInstr[execIdx]).op = crfInstr[execIdx].op
         /\ Fits(crfInstr[execIdx]) =>
              /\ BuildInstr(crfInstr[execIdx]).imm0 = crfInstr[execIdx].imm0
              /\ BuildInstr(crfInstr[execIdx]).imm1 = crfInstr[execIdx].imm1
         /\ exec' /\ execIdx' \in CrfIndex /\ execIdx' <= e /\ ~jmpAct' => OnWalk(e)'
<1> USE DEF Turn
<1>1. /\ e \in 0 .. CrfEntries /\ execIdx \in CrfIndex /\ execIdx <= e
      /\ crfInstr \in [CrfIndex -> Instruction]
      /\ jmpAct \in BOOLEAN /\ jmpNum \in 0 .. ImmMod - 1
  BY DEF OnWalk, WellFormed, AssemblerTypeOK
<1>2. /\ execIdx < e => Fits(crfInstr[execIdx]) /\ crfInstr[execIdx].op # "EXIT"
      /\ execIdx = e => crfInstr[execIdx].op = "EXIT"
  BY <1>1 DEF OnWalk, WellFormed
<1>3. /\ b.pc = execIdx /\ b.jmp_act = jmpAct /\ (jmpAct => b.jmp_cnt = jmpNum)
      /\ b.crf = [i \in CrfIndex |-> BuildInstr(crfInstr[i])]
  BY DEF Agrees
<1>4. c.crf = [i \in CrfIndex |-> BuildInstr(crfInstr[i])]
  BY <1>3 DEF Triggered
<1>5. crfInstr[execIdx] \in Instruction
  BY <1>1
<1>6. /\ BuildInstr(crfInstr[execIdx]).op = crfInstr[execIdx].op
      /\ Fits(crfInstr[execIdx]) =>
           /\ BuildInstr(crfInstr[execIdx]).imm0 = crfInstr[execIdx].imm0
           /\ BuildInstr(crfInstr[execIdx]).imm1 = crfInstr[execIdx].imm1
  BY <1>5, BuildFits
<1>7. exec' /\ execIdx' \in CrfIndex /\ execIdx' <= e /\ ~jmpAct' => OnWalk(e)'
  BY DEF OnWalk, WellFormed, Fits
<1>8. QED
  BY <1>1, <1>2, <1>3, <1>4, <1>6, <1>7

(* EXIT: no loop is in progress at the end of a program. *)
LEMMA TurnExit ==
  ASSUME NEW e, NEW b, NEW c, Turn(e, b, c),
         crfInstr[execIdx].op = "EXIT", exec' = FALSE, UNCHANGED <<execIdx, jmpAct, jmpNum>>
  PROVE  Turned(e, c)
<1>0. execIdx \in CrfIndex /\ e \in 0 .. CrfEntries /\ execIdx <= e /\ ~(execIdx < e)
  BY TurnFacts
<1>1. execIdx = e
  BY <1>0 DEF CrfIndex
<1>2. ~jmpAct
  BY <1>1, TurnFacts DEF Turn, OnWalk, InLoop, CrfIndex
<1>3. c.pc = 0 /\ ~c.jmp_act
  BY <1>2, TurnFacts DEF Turn, Triggered
<1>4. Agrees(c)'
  BY <1>3, TurnFacts DEF Turn, Agrees
<1>5. QED
  BY <1>4 DEF Turned, Turn, AssemblerTypeOK

(* One entry on, also past the last one: the core's PC wraps, the walk     *)
(* ends.                                                                   *)
LEMMA TurnOn ==
  ASSUME NEW e, NEW b, NEW c, Turn(e, b, c), execIdx < e, WalkOn
  PROVE  /\ exec' \in BOOLEAN /\ execIdx' \in 0 .. ExecMod - 1
         /\ exec' => execIdx' = execIdx + 1 /\ execIdx' \in CrfIndex /\ execIdx' <= e
                     /\ Next1(execIdx) = execIdx'
         /\ ~exec' => Next1(execIdx) = 0 /\ execIdx = CrfEntries - 1
<1>1. e \in 0 .. CrfEntries /\ execIdx \in CrfIndex
  BY TurnFacts
<1>2. execIdx' = execIdx + 1 /\ exec' = (execIdx + 1 \in CrfIndex)
  BY DEF WalkOn, WalkTo
<1>3. CASE execIdx + 1 \in CrfIndex
  <2>1. exec' = TRUE
    BY <1>2, <1>3
  <2>2. execIdx < CrfEntries - 1
    BY <1>1, <1>3 DEF CrfIndex
  <2>3. QED
    BY <1>1, <1>2, <2>1, <2>2 DEF CrfIndex, Next1
<1>4. CASE execIdx + 1 \notin CrfIndex
  <2>0. (execIdx + 1 \in CrfIndex) = FALSE
    BY <1>4
  <2>1. exec' = FALSE
    BY <1>2, <2>0
  <2>2. execIdx = CrfEntries - 1
    BY <1>1, <1>4 DEF CrfIndex
  <2>3. QED
    BY <1>1, <1>2, <2>1, <2>2 DEF CrfIndex, Next1
<1>5. QED
  BY <1>3, <1>4

(* A jump goes back inside the program. *)
LEMMA TurnBack ==
  ASSUME NEW e, NEW b, NEW c, Turn(e, b, c), crfInstr[execIdx].op = "JUMP",
         WalkBack(crfInstr[execIdx].imm0)
  PROVE  /\ execIdx < e /\ crfInstr[execIdx].imm1 > 0
         /\ exec' = TRUE /\ execIdx' \in CrfIndex /\ execIdx' <= e
         /\ execIdx' = Back(execIdx, crfInstr[execIdx].imm0)
         /\ InLoop(crfInstr, execIdx', execIdx)
<1>0. /\ e \in 0 .. CrfEntries /\ execIdx \in CrfIndex /\ execIdx <= e /\ execIdx # e
      /\ crfInstr[execIdx] \in Instruction
  BY TurnFacts
<1>1. /\ e \in 0 .. CrfEntries /\ execIdx \in CrfIndex /\ execIdx < e
      /\ crfInstr[execIdx] \in Instruction
  BY <1>0 DEF CrfIndex
<1>2. crfInstr[execIdx].imm0 \in Nat /\ crfInstr[execIdx].imm1 \in Nat
  BY <1>1 DEF Instruction
<1>3. crfInstr[execIdx].imm0 <= execIdx /\ crfInstr[execIdx].imm1 > 0
  BY <1>1 DEF Turn, OnWalk, WellFormed
<1>4. PICK d : d = crfInstr[execIdx].imm0
  OBVIOUS
<1>5. execIdx - d \in 0 .. ExecMod - 1 /\ execIdx - d \in CrfIndex
  BY <1>1, <1>2, <1>3, <1>4 DEF CrfIndex
<1>6. (execIdx - d) % ExecMod = execIdx - d
  BY <1>5
<1>7. execIdx' = execIdx - d /\ exec' = TRUE
  BY <1>4, <1>5, <1>6 DEF WalkBack, WalkTo
<1>8. execIdx' = Back(execIdx, d)
  BY <1>1, <1>2, <1>3, <1>4, <1>7 DEF Back, CrfIndex
<1>9. InLoop(crfInstr, execIdx', execIdx)
  BY <1>1, <1>2, <1>4, <1>7 DEF InLoop, CrfIndex
<1>10. QED
  BY <1>1, <1>2, <1>3, <1>4, <1>5, <1>7, <1>8, <1>9 DEF CrfIndex

(* The first of the jumps of a loop, and one more. *)
LEMMA TurnJump ==
  ASSUME NEW e, NEW b, NEW c, Turn(e, b, c), crfInstr[execIdx].op = "JUMP",
         FirstJump(crfInstr[execIdx]) \/ NextJump(crfInstr[execIdx])
  PROVE  Turned(e, c)
<1>1. WalkBack(crfInstr[execIdx].imm0)
  BY DEF FirstJump, NextJump
<1>2. /\ execIdx < e /\ crfInstr[execIdx].imm1 > 0
      /\ exec' = TRUE /\ execIdx' \in CrfIndex /\ execIdx' <= e
      /\ execIdx' = Back(execIdx, crfInstr[execIdx].imm0)
      /\ InLoop(crfInstr, execIdx', execIdx)
  BY <1>1, TurnBack
<1>3. execIdx' \in 0 .. ExecMod - 1
  BY <1>2 DEF CrfIndex
<1>4. /\ crfInstr[execIdx].imm1 \in 0 .. ImmMod - 1 /\ crfInstr[execIdx].imm1 \in Nat
      /\ jmpNum \in 0 .. ImmMod - 1 /\ jmpAct \in BOOLEAN
  <2>1. /\ crfInstr[execIdx] \in Instruction
        /\ jmpNum \in 0 .. ImmMod - 1 /\ jmpAct \in BOOLEAN
    BY TurnFacts
  <2>2. QED
    BY <2>1 DEF Instruction
<1>5. /\ BuildInstr(crfInstr[execIdx]).op = "JUMP"
      /\ BuildInstr(crfInstr[execIdx]).imm0 = crfInstr[execIdx].imm0
      /\ BuildInstr(crfInstr[execIdx]).imm1 = crfInstr[execIdx].imm1
  BY <1>2, TurnFacts
<1>6. /\ jmpAct' = TRUE /\ jmpNum' \in 0 .. ImmMod - 1
      /\ c.jmp_act = TRUE /\ c.jmp_cnt = jmpNum'
      /\ c.pc = Back(execIdx, crfInstr[execIdx].imm0)
  <2>1. CASE FirstJump(crfInstr[execIdx])
    <3>1. (crfInstr[execIdx].imm1 - 1) % ImmMod = crfInstr[execIdx].imm1 - 1
      BY <1>2, <1>4
    <3>2. ~jmpAct /\ jmpAct' = TRUE /\ jmpNum' = crfInstr[execIdx].imm1 - 1
      BY <2>1, <3>1 DEF FirstJump
    <3>3. ~b.jmp_act /\ b.pc = execIdx
      BY <3>2, TurnFacts
    <3>4. Dec(crfInstr[execIdx].imm1, JmpMod) = crfInstr[execIdx].imm1 - 1
      BY <1>2, <1>4 DEF Dec
    <3>5. c.jmp_act = TRUE /\ c.jmp_cnt = crfInstr[execIdx].imm1 - 1
          /\ c.pc = Back(execIdx, crfInstr[execIdx].imm0)
      BY <1>5, <3>3, <3>4 DEF Turn, Triggered
    <3>6. QED
      BY <1>2, <1>4, <3>2, <3>5
  <2>2. CASE NextJump(crfInstr[execIdx])
    <3>1. jmpAct /\ jmpNum # 0 /\ jmpAct' = TRUE /\ jmpNum' = jmpNum - 1
      BY <1>4, <2>2 DEF NextJump
    <3>2. b.jmp_act = TRUE /\ b.pc = execIdx /\ b.jmp_cnt = jmpNum
      BY <1>4, <3>1, TurnFacts
    <3>3. c.jmp_act = TRUE /\ c.jmp_cnt = jmpNum - 1
          /\ c.pc = Back(execIdx, crfInstr[execIdx].imm0)
      BY <1>5, <3>1, <3>2 DEF Turn, Triggered
    <3>4. QED
      BY <1>4, <3>1, <3>3
  <2>3. QED
    BY <2>1, <2>2
<1>7. OnWalk(e)'
  BY <1>2, <1>6 DEF Turn, OnWalk, WellFormed, Fits, InLoop
<1>8. c.crf = [i \in CrfIndex |-> BuildInstr(crfInstr[i])] /\ crfInstr' = crfInstr
  BY TurnFacts DEF Turn
<1>9. Agrees(c)'
  BY <1>2, <1>6, <1>8 DEF Agrees
<1>10. QED
  BY <1>2, <1>3, <1>6, <1>7, <1>9 DEF Turned

(* The loop has made its jumps. *)
LEMMA TurnLeave ==
  ASSUME NEW e, NEW b, NEW c, Turn(e, b, c), crfInstr[execIdx].op = "JUMP", LastJump
  PROVE  Turned(e, c)
<1>0. execIdx \in CrfIndex /\ e \in 0 .. CrfEntries /\ execIdx <= e /\ execIdx # e
  BY TurnFacts
<1>1. execIdx < e
  BY <1>0 DEF CrfIndex
<1>2. jmpAct /\ jmpNum = 0 /\ jmpAct' = FALSE /\ jmpNum' = jmpNum /\ WalkOn
  BY DEF LastJump
<1>3. /\ exec' \in BOOLEAN /\ execIdx' \in 0 .. ExecMod - 1
      /\ exec' => execIdx' \in CrfIndex /\ execIdx' <= e /\ Next1(execIdx) = execIdx'
      /\ ~exec' => Next1(execIdx) = 0
  BY <1>1, <1>2, TurnOn
<1>4. b.jmp_act /\ b.jmp_cnt = 0 /\ b.pc = execIdx /\ BuildInstr(crfInstr[execIdx]).op = "JUMP"
  BY <1>2, TurnFacts
<1>5. c.jmp_act = FALSE /\ c.pc = Next1(execIdx)
  BY <1>4 DEF Turn, Triggered
<1>6. exec' => OnWalk(e)'
  BY <1>2, <1>3, TurnFacts
<1>7. c.crf = [i \in CrfIndex |-> BuildInstr(crfInstr[i])] /\ crfInstr' = crfInstr
  BY TurnFacts DEF Turn
<1>8. Agrees(c)'
  BY <1>2, <1>3, <1>5, <1>7 DEF Agrees
<1>9. QED
  BY <1>2, <1>3, <1>6, <1>8, TurnFacts DEF Turned

(* Any other instruction, in or outside a loop. *)
LEMMA TurnPlain ==
  ASSUME NEW e, NEW b, NEW c, Turn(e, b, c), crfInstr[execIdx].op \notin {"EXIT", "JUMP"},
         WalkOn, UNCHANGED <<jmpAct, jmpNum>>
  PROVE  Turned(e, c)
<1>0. execIdx \in CrfIndex /\ e \in 0 .. CrfEntries /\ execIdx <= e /\ execIdx # e
  BY TurnFacts
<1>1. execIdx < e /\ execIdx \in CrfIndex /\ e \in 0 .. CrfEntries
  BY <1>0 DEF CrfIndex
<1>2. /\ exec' \in BOOLEAN /\ execIdx' \in 0 .. ExecMod - 1
      /\ exec' => execIdx' = execIdx + 1 /\ execIdx' \in CrfIndex /\ execIdx' <= e
                  /\ Next1(execIdx) = execIdx'
      /\ ~exec' => Next1(execIdx) = 0 /\ execIdx = CrfEntries - 1
  BY <1>1, TurnOn
<1>3. /\ b.pc = execIdx /\ b.jmp_act = jmpAct /\ (jmpAct => b.jmp_cnt = jmpNum)
      /\ BuildInstr(crfInstr[execIdx]).op \notin {"EXIT", "JUMP"}
  BY TurnFacts
<1>4. c.pc = Next1(execIdx) /\ c.jmp_act = jmpAct /\ (jmpAct => c.jmp_cnt = jmpNum)
  BY <1>3 DEF Turn, Triggered
<1>5. ASSUME jmpAct
      PROVE  \E j \in CrfIndex : j < e /\ InLoop(crfInstr, execIdx, j) /\ execIdx < j
  <2>1. PICK j \in CrfIndex : j < e /\ InLoop(crfInstr, execIdx, j)
    BY <1>5 DEF Turn, OnWalk
  <2>2. execIdx # j
    BY <2>1 DEF InLoop
  <2>3. QED
    BY <1>1, <2>1, <2>2 DEF InLoop, CrfIndex
<1>6. exec' => OnWalk(e)'
  <2>1. CASE ~jmpAct
    BY <1>2, <2>1, TurnFacts
  <2>2. CASE jmpAct
    <3>1. PICK j \in CrfIndex : j < e /\ InLoop(crfInstr, execIdx, j) /\ execIdx < j
      BY <1>5, <2>2
    <3>2. crfInstr[j].imm0 \in Nat
      <4>1. crfInstr[j] \in Instruction
        BY TurnFacts
      <4>2. QED
        BY <4>1 DEF Instruction
    <3>3. exec' => InLoop(crfInstr, execIdx', j)
      BY <1>1, <1>2, <3>1, <3>2 DEF InLoop, CrfIndex
    <3>4. QED
      BY <1>2, <3>1, <3>3 DEF Turn, OnWalk, WellFormed, Fits, InLoop
  <2>3. QED
    BY <2>1, <2>2
<1>7. ~exec' => ~jmpAct
  BY <1>1, <1>2, <1>5 DEF CrfIndex
<1>8. c.crf = [i \in CrfIndex |-> BuildInstr(crfInstr[i])] /\ crfInstr' = crfInstr
      /\ jmpAct \in BOOLEAN
  BY TurnFacts DEF Turn
<1>9. Agrees(c)'
  BY <1>2, <1>4, <1>7, <1>8 DEF Agrees
<1>10. QED
  BY <1>2, <1>6, <1>9, TurnFacts DEF Turned

(* A turn of the walk, with the line it writes. *)
LEMMA ExecStep ==
  ASSUME IInv, ExecInstr, UNCHANGED <<cuVars, pos, since>>
  PROVE  IInv'
<1>1. /\ UNCHANGED <<crfInstr, crfWrMode, crfIdx, error, eof, lines>>
      /\ exec
      /\ rawSeq' = Append(rawSeq, TriggerLine)
  BY DEF ExecInstr, Emit
<1>2. PICK cs : InReplay(cs)
  BY DEF IInv
<1>3. PICK e \in 0 .. CrfEntries : OnWalk(e)
  BY <1>1 DEF IInv
<1>4. PICK line : line = TriggerLine
  OBVIOUS
<1>5. PICK c : c = Taken(cs[Len(rawSeq)], line)
  OBVIOUS
<1>6. /\ ~error /\ ~eof /\ crfInstr[execIdx].op # "NONE"
      /\ line \in RawLine /\ Meets(cs[Len(rawSeq)], line)
  BY <1>1, <1>2, <1>4, WalkMeets
<1>7. Turn(e, cs[Len(rawSeq)], c)
  <2>1. c = Triggered(cs[Len(rawSeq)], BuildInstr(crfInstr[execIdx]))
    BY <1>4, <1>5 DEF Taken, TriggerLine
  <2>2. cs[Len(rawSeq)] \in Core
    BY <1>2 DEF InReplay, Replays, IInv, TypeOK, AssemblerTypeOK
  <2>3. QED
    BY <1>1, <1>2, <1>3, <1>6, <2>1, <2>2 DEF Turn, InReplay, IInv, TypeOK
<1>8. Turned(e, c)
  <2>1. CASE crfInstr[execIdx].op = "EXIT" /\ exec' = FALSE /\ UNCHANGED <<execIdx, jmpAct, jmpNum>>
    BY <1>7, <2>1, TurnExit
  <2>2. CASE crfInstr[execIdx].op = "JUMP"
             /\ (FirstJump(crfInstr[execIdx]) \/ NextJump(crfInstr[execIdx]))
    BY <1>7, <2>2, TurnJump
  <2>3. CASE crfInstr[execIdx].op = "JUMP" /\ LastJump
    BY <1>7, <2>3, TurnLeave
  <2>4. CASE crfInstr[execIdx].op \notin {"EXIT", "JUMP"} /\ WalkOn /\ UNCHANGED <<jmpAct, jmpNum>>
    BY <1>7, <2>4, TurnPlain
  <2>5. QED
    BY <2>1, <2>2, <2>3, <2>4 DEF ExecInstr
<1>9. /\ exec' \in BOOLEAN /\ execIdx' \in 0 .. ExecMod - 1
      /\ jmpAct' \in BOOLEAN /\ jmpNum' \in 0 .. ImmMod - 1
      /\ exec' => OnWalk(e)'
      /\ Agrees(c)'
  BY <1>8 DEF Turned
<1>10. TypeOK'
  <2>1. /\ ControlUnitTypeOK' /\ rawSeq' \in Seq(RawLine)
        /\ pos' \in 0 .. Len(rawSeq') /\ since' \in 1 .. Spacing
    BY <1>1, <1>4, <1>6, AssembleType DEF IInv
  <2>2. QED
    BY <1>1, <1>9, <2>1 DEF IInv, TypeOK, AssemblerTypeOK
<1>11. \E ds : InReplay(ds)'
  BY <1>1, <1>2, <1>4, <1>5, <1>6, <1>9, EmitReplay DEF IInv
<1>12. Stopped' /\ NopInTime'
  BY <1>1, <1>6 DEF IInv, Stopped, Simulating, NopInTime, cuVars
<1>13. QED
  BY <1>9, <1>10, <1>11, <1>12 DEF IInv

-----------------------------------------------------------------------------
(* The core takes a trigger it meets as the replay does. *)
LEMMA TriggerTaken ==
  ASSUME ControlUnitTypeOK, NEW line \in RawLine, line.kind = "TRIGGER",
         Meets(CoreNow, line), nop_cnt = 0, Trigger
  PROVE  /\ Fetched = line.word
         /\ CoreNow' = Taken(CoreNow, line)
         /\ nop_cnt' \in 0 .. Spacing - 1
<1>1. Decode
  BY DEF Trigger, IgnoreTrigger
<1>2. /\ line.entry \in CrfIndex /\ line.word \in Word
  BY DEF RawLine
<1>3. /\ pc = line.entry /\ crf[pc] = line.word
      /\ line.word.op = "NOP" => line.word.imm0 \in 1 .. Spacing
  BY DEF Meets, CoreNow
<1>4. Fetched = line.word
  BY <1>2, <1>3 DEF Fetched
<1>5. /\ PcCounted = Next1(pc)
      /\ PcJumped(line.word.imm0) = Back(pc, line.word.imm0)
  BY DEF PcCounted, Next1, PcJumped, Back
<1>6. Taken(CoreNow, line) = Triggered(CoreNow, line.word)
  BY DEF Taken
<1>7. NopTicked = 0 /\ 0 \in 0 .. Spacing - 1
  BY DEF NopTicked
<1>8. CoreNow.crf = crf /\ CoreNow.pc = pc /\ CoreNow.jmp_act = jmp_act /\ CoreNow.jmp_cnt = jmp_cnt
  BY DEF CoreNow
<1>9. CoreNow' = [crf |-> crf', pc |-> pc', jmp_act |-> jmp_act', jmp_cnt |-> jmp_cnt']
  BY DEF CoreNow
<1>10. jmp_act \in BOOLEAN
  BY DEF ControlUnitTypeOK
<1>11. CASE DecodeNop
  <2>1. line.word.op = "NOP" /\ nop_cnt' = line.word.imm0 - 1
    BY <1>3, <1>4, <1>11 DEF DecodeNop, Dec
  <2>2. /\ crf' = crf /\ pc' = Next1(pc) /\ jmp_act' = jmp_act /\ jmp_cnt' = jmp_cnt
    BY <1>5, <1>11 DEF DecodeNop
  <2>3. CoreNow' = Triggered(CoreNow, line.word)
    BY <1>8, <1>9, <2>1, <2>2 DEF Triggered
  <2>4. QED
    BY <1>3, <1>4, <1>6, <2>1, <2>3
<1>12. CASE DecodeJump
  <2>1. line.word.op = "JUMP" /\ nop_cnt' = 0 /\ crf' = crf
    BY <1>4, <1>7, <1>12 DEF DecodeJump
  <2>2. CoreNow' = Triggered(CoreNow, line.word)
    <3>1. CASE StartLoop
      <4>1. /\ ~jmp_act /\ jmp_act' = TRUE /\ jmp_cnt' = Dec(line.word.imm1, JmpMod)
            /\ pc' = Back(pc, line.word.imm0)
        BY <1>4, <1>5, <3>1 DEF StartLoop
      <4>2. QED
        BY <1>8, <1>9, <2>1, <4>1 DEF Triggered
    <3>2. CASE RepeatLoop
      <4>1. /\ jmp_act /\ jmp_cnt # 0 /\ jmp_act' = TRUE /\ jmp_cnt' = jmp_cnt - 1
            /\ pc' = Back(pc, line.word.imm0)
        BY <1>4, <1>5, <3>2 DEF RepeatLoop
      <4>2. QED
        BY <1>8, <1>9, <2>1, <4>1 DEF Triggered
    <3>3. CASE LeaveLoop
      <4>1. /\ jmp_act /\ jmp_cnt = 0 /\ jmp_act' = FALSE /\ jmp_cnt' = jmp_cnt
            /\ pc' = Next1(pc)
        BY <1>5, <3>3 DEF LeaveLoop
      <4>2. QED
        BY <1>8, <1>9, <2>1, <4>1 DEF Triggered
    <3>4. QED
      BY <1>12, <3>1, <3>2, <3>3 DEF DecodeJump
  <2>3. QED
    BY <1>4, <1>6, <1>7, <2>1, <2>2
<1>13. CASE DecodeExit
  <2>1. /\ line.word.op = "EXIT" /\ nop_cnt' = 0
        /\ crf' = crf /\ pc' = 0 /\ jmp_act' = jmp_act /\ jmp_cnt' = jmp_cnt
    BY <1>4, <1>7, <1>13 DEF DecodeExit
  <2>2. CoreNow' = Triggered(CoreNow, line.word)
    BY <1>8, <1>9, <2>1 DEF Triggered
  <2>3. QED
    BY <1>4, <1>6, <1>7, <2>1, <2>2
<1>14. CASE DecodeExe
  <2>1. /\ line.word.op = "EXE" /\ nop_cnt' = 0
        /\ crf' = crf /\ pc' = Next1(pc) /\ jmp_act' = jmp_act /\ jmp_cnt' = jmp_cnt
    BY <1>4, <1>5, <1>7, <1>14 DEF DecodeExe
  <2>2. CoreNow' = Triggered(CoreNow, line.word)
    BY <1>8, <1>9, <2>1 DEF Triggered
  <2>3. QED
    BY <1>4, <1>6, <1>7, <2>1, <2>2
<1>15. QED
  BY <1>1, <1>11, <1>12, <1>13, <1>14 DEF Decode

(* What holds when a line is delivered: the core is where the replay is    *)
(* and no NOP is on.                                                       *)
LEMMA DeliverFacts ==
  ASSUME IInv, NEW cs, InReplay(cs), pos < Len(rawSeq), since = Spacing
  PROVE  /\ rawSeq[pos + 1] \in RawLine
         /\ Meets(CoreNow, rawSeq[pos + 1])
         /\ cs[pos + 1] = Taken(CoreNow, rawSeq[pos + 1])
         /\ nop_cnt = 0 /\ ControlUnitTypeOK
<1>1. rawSeq \in Seq(RawLine) /\ pos \in 0 .. Len(rawSeq) /\ Len(rawSeq) \in Nat
  BY DEF IInv, TypeOK, AssemblerTypeOK
<1>2. pos + 1 \in 1 .. Len(rawSeq) /\ (pos + 1) - 1 = pos
  BY <1>1
<1>3. rawSeq[pos + 1] \in RawLine
  BY <1>1, <1>2
<1>4. /\ Meets(cs[pos], rawSeq[pos + 1]) /\ cs[pos + 1] = Taken(cs[pos], rawSeq[pos + 1])
      /\ cs[pos] = CoreNow
  BY <1>2 DEF InReplay, Replays
<1>5. nop_cnt \in Nat /\ nop_cnt <= 0 /\ ControlUnitTypeOK
  BY DEF IInv, NopInTime, TypeOK, ControlUnitTypeOK
<1>6. QED
  BY <1>3, <1>4, <1>5

LEMMA DeliverStep == ASSUME IInv, Deliver PROVE IInv'
<1>1. PICK cs : InReplay(cs)
  BY DEF IInv
<1>2. /\ Simulating /\ pos < Len(rawSeq) /\ since = Spacing
      /\ pos' = pos + 1 /\ since' = 1
      /\ UNCHANGED asmVars
  BY DEF Deliver
<1>3. PICK line : line = rawSeq[pos + 1]
  OBVIOUS
<1>4. /\ line \in RawLine /\ Meets(CoreNow, line) /\ cs[pos + 1] = Taken(CoreNow, line)
      /\ nop_cnt = 0 /\ ControlUnitTypeOK
  BY <1>1, <1>2, <1>3, DeliverFacts
<1>5. \/ line.kind = "CRF" /\ WriteCrf(line.entry, line.word)
      \/ line.kind = "RF" /\ Idle
      \/ line.kind = "TRIGGER" /\ Trigger
  BY <1>3 DEF Deliver
<1>6. line.entry \in CrfIndex /\ line.word \in Word
  BY <1>4 DEF RawLine
<1>7. ControlUnitTypeOK'
  BY <1>4, <1>5, <1>6, CuStepType
<1>8. CoreNow' = cs[pos + 1] /\ nop_cnt' \in 0 .. Spacing - 1
  <2>1. CASE line.kind = "CRF" /\ WriteCrf(line.entry, line.word)
    BY <1>4, <2>1 DEF CoreNow, Taken, WriteCrf, NopTicked
  <2>2. CASE line.kind = "RF" /\ Idle
    BY <1>4, <2>2 DEF CoreNow, Taken, Idle, NopTicked
  <2>3. CASE line.kind = "TRIGGER" /\ Trigger
    BY <1>4, <2>3, TriggerTaken
  <2>4. QED
    BY <1>5, <2>1, <2>2, <2>3
<1>9. /\ UNCHANGED <<crfInstr, crfWrMode, crfIdx, exec, execIdx, jmpAct, jmpNum>>
      /\ UNCHANGED <<error, eof, lines, rawSeq>>
  BY <1>2 DEF asmVars
<1>10. TypeOK'
  <2>1. rawSeq' \in Seq(RawLine) /\ Len(rawSeq') \in Nat /\ pos' \in 0 .. Len(rawSeq')
    BY <1>2, <1>9 DEF IInv, TypeOK, AssemblerTypeOK
  <2>2. AssemblerTypeOK'
    BY <1>9 DEF IInv, TypeOK, AssemblerTypeOK
  <2>3. QED
    BY <1>2, <1>7, <2>1, <2>2 DEF TypeOK
<1>11. InReplay(cs)'
  <2>1. cs[pos'] = CoreNow'
    BY <1>2, <1>8
  <2>2. Replays(cs, rawSeq)'
    BY <1>1, <1>9 DEF InReplay, Replays
  <2>3. (~error => Agrees(cs[Len(rawSeq)]))'
    BY <1>1, <1>9 DEF InReplay, Agrees
  <2>4. QED
    BY <2>1, <2>2, <2>3 DEF InReplay
<1>12. NopInTime'
  BY <1>2, <1>8 DEF NopInTime
<1>13. Stopped' /\ ~exec'
  BY <1>2, <1>9 DEF IInv, Stopped, Simulating
<1>14. QED
  BY <1>10, <1>11, <1>12, <1>13 DEF IInv

LEMMA TickStep == ASSUME IInv, Tick PROVE IInv'
<1>1. PICK cs : InReplay(cs)
  BY DEF IInv
<1>2. /\ UNCHANGED <<crfInstr, crfWrMode, crfIdx, exec, execIdx, jmpAct, jmpNum>>
      /\ UNCHANGED <<error, eof, lines, rawSeq, pos, crf, pc, jmp_act, jmp_cnt>>
      /\ Simulating /\ Idle
      /\ nop_cnt' = NopTicked
      /\ since' = IF since < Spacing THEN since + 1 ELSE since
  BY DEF Tick, asmVars, Idle
<1>3. since \in 1 .. Spacing /\ nop_cnt \in Nat /\ ControlUnitTypeOK /\ nop_cnt <= Spacing - since
  BY DEF IInv, TypeOK, NopInTime, ControlUnitTypeOK
<1>4. since' \in 1 .. Spacing /\ nop_cnt' <= Spacing - since'
  BY <1>2, <1>3 DEF NopTicked
<1>5. ControlUnitTypeOK'
  BY <1>2, <1>3, CuStepType
<1>6. TypeOK'
  BY <1>2, <1>4, <1>5 DEF IInv, TypeOK, AssemblerTypeOK
<1>7. InReplay(cs)'
  BY <1>1, <1>2 DEF InReplay, Replays, Agrees, CoreNow
<1>8. Stopped' /\ NopInTime' /\ ~exec'
  BY <1>2, <1>4 DEF IInv, Stopped, Simulating, NopInTime
<1>9. QED
  BY <1>6, <1>7, <1>8 DEF IInv

-----------------------------------------------------------------------------
LEMMA InitInv == ASSUME Init PROVE IInv
<1> DEFINE cs == [k \in 0 .. 0 |-> CoreNow]
<1>1. /\ crf = [i \in CrfIndex |-> ZeroWord] /\ pc = 0 /\ nop_cnt = 0
      /\ jmp_act = FALSE /\ jmp_cnt = 0
      /\ crfInstr = [i \in CrfIndex |-> Unset]
      /\ crfWrMode = FALSE /\ crfIdx = 0
      /\ exec = FALSE /\ execIdx = 0 /\ jmpAct = FALSE /\ jmpNum = 0
      /\ error = FALSE /\ eof = FALSE /\ lines = 0 /\ rawSeq = << >>
      /\ pos = 0 /\ since = Spacing
  BY DEF Init, CuInit, AsmInit
<1>2. ControlUnitTypeOK
  BY CuInitType DEF Init
<1>3. AssemblerTypeOK
  <2>1. Unset \in Instruction
    BY DEF Unset, Instruction, BankUse
  <2>2. rawSeq \in Seq(RawLine)
    BY <1>1
  <2>3. crfInstr \in [CrfIndex -> Instruction]
    BY <1>1, <2>1
  <2>4. execIdx \in 0 .. ExecMod - 1 /\ jmpNum \in 0 .. ImmMod - 1 /\ crfIdx \in 0 .. CrfEntries
        /\ lines \in 0 .. MaxLines
    BY <1>1
  <2>5. QED
    BY <1>1, <2>2, <2>3, <2>4 DEF AssemblerTypeOK
<1>4. Len(rawSeq) = 0
  BY <1>1
<1>5. TypeOK
  BY <1>1, <1>2, <1>3, <1>4 DEF TypeOK
<1>6. CoreNow \in Core
  BY <1>2 DEF CoreNow, Core, ControlUnitTypeOK
<1>7. Replays(cs, rawSeq)
  BY <1>4, <1>6 DEF Replays
<1>8. Agrees(CoreNow)
  <2>1. BuildInstr(Unset) = ZeroWord
    BY DEF BuildInstr, Unset
  <2>2. crf = [i \in CrfIndex |-> BuildInstr(crfInstr[i])]
    BY <1>1, <2>1
  <2>3. QED
    BY <1>1, <2>2 DEF Agrees, CoreNow
<1>9. InReplay(cs)
  BY <1>1, <1>4, <1>7, <1>8 DEF InReplay
<1>10. Stopped /\ NopInTime
  BY <1>1 DEF Stopped, Simulating, NopInTime
<1>11. QED
  BY <1>1, <1>5, <1>9, <1>10 DEF IInv

LEMMA StepInv == ASSUME IInv, [Next]_vars PROVE IInv'
<1>1. CASE ReadSource /\ UNCHANGED <<cuVars, pos, since>>
  <2>1. CASE (\E n \in 0 .. CrfEntries : WrfCrf(n)) \/ MisplacedInstr \/ EndOfSource
    BY <1>1, <2>1, QuietStep
  <2>2. CASE \E ins \in Source : WriteInstr(ins)
    BY <1>1, <2>2, WriteStep
  <2>3. CASE \E part \in Source \cup {Unset} : RejectInstr(part)
    BY <1>1, <2>3, RejectStep
  <2>4. CASE WrfData
    BY <1>1, <2>4, DataStep
  <2>5. CASE Executable(crfInstr) /\ StartExec
    BY <1>1, <2>5, StartStep
  <2>6. QED
    BY <1>1, <2>1, <2>2, <2>3, <2>4, <2>5 DEF ReadSource
<1>2. CASE Walk /\ UNCHANGED <<cuVars, pos, since>>
  BY <1>2, ExecStep, NoDataStep DEF Walk
<1>3. CASE Deliver
  BY <1>3, DeliverStep
<1>4. CASE Tick
  BY <1>4, TickStep
<1>5. CASE UNCHANGED vars
  <2>1. PICK cs : InReplay(cs)
    BY DEF IInv
  <2>2. InReplay(cs)'
    BY <1>5, <2>1 DEF vars, cuVars, asmVars, InReplay, Replays, Agrees, CoreNow
  <2>3. TypeOK'
    BY <1>5 DEF vars, cuVars, asmVars, IInv, TypeOK, ControlUnitTypeOK, AssemblerTypeOK
  <2>4. Stopped' /\ NopInTime'
    BY <1>5 DEF vars, cuVars, asmVars, IInv, Stopped, Simulating, NopInTime
  <2>5. (exec => \E e \in 0 .. CrfEntries : OnWalk(e))'
    BY <1>5 DEF vars, asmVars, IInv, OnWalk, WellFormed, Fits, InLoop
  <2>6. QED
    BY <2>2, <2>3, <2>4, <2>5 DEF IInv
<1>6. QED
  BY <1>1, <1>2, <1>3, <1>4, <1>5 DEF Next, Assemble

(* The replay holds in every state the toolchain and the core can be in. *)
THEOREM Invariance == Spec => []IInv
<1>1. Init => IInv
  BY InitInv
<1>2. IInv /\ [Next]_vars => IInv'
  BY StepInv
<1>3. QED
  BY <1>1, <1>2, PTL DEF Spec

(* The variables of assembler and core keep their types. *)
THEOREM TypeCorrect == Spec => []TypeOK
<1>1. IInv => TypeOK
  BY DEF IInv
<1>2. QED
  BY <1>1, Invariance, PTL

(* A trigger meets the instruction it was written for. *)
THEOREM TriggerMeets == Spec => []InStep
<1>1. IInv => InStep
  <2>1. SUFFICES ASSUME IInv, pos < Len(rawSeq), since = Spacing,
                        rawSeq[pos + 1].kind = "TRIGGER"
                 PROVE  /\ pc = rawSeq[pos + 1].entry
                        /\ Fetched = rawSeq[pos + 1].word
                        /\ nop_cnt = 0
    BY DEF InStep
  <2>2. PICK cs : InReplay(cs)
    BY <2>1 DEF IInv
  <2>3. PICK line : line = rawSeq[pos + 1]
    OBVIOUS
  <2>4. line \in RawLine /\ Meets(CoreNow, line) /\ nop_cnt = 0
    BY <2>1, <2>2, <2>3, DeliverFacts
  <2>5. line.entry \in CrfIndex /\ pc = line.entry /\ crf[line.entry] = line.word
    BY <2>1, <2>3, <2>4 DEF Meets, CoreNow, RawLine
  <2>6. QED
    BY <2>3, <2>4, <2>5 DEF Fetched
<1>2. QED
  BY <1>1, Invariance, PTL

(* A store meets a WR command, a load a RD command. *)
THEOREM CommandFits == Spec => BankCommand
<1> DEFINE Fit == (Deliver /\ rawSeq[pos + 1].kind = "TRIGGER") =>
                    /\ Fetched.bank = "store" => rawSeq[pos + 1].cmd = "WR"
                    /\ Fetched.bank = "load" => rawSeq[pos + 1].cmd = "RD"
<1>1. IInv => Fit
  <2>1. SUFFICES ASSUME IInv, Deliver, rawSeq[pos + 1].kind = "TRIGGER"
                 PROVE  /\ Fetched.bank = "store" => rawSeq[pos + 1].cmd = "WR"
                        /\ Fetched.bank = "load" => rawSeq[pos + 1].cmd = "RD"
    OBVIOUS
  <2>2. PICK cs : InReplay(cs)
    BY <2>1 DEF IInv
  <2>3. PICK line : line = rawSeq[pos + 1]
    OBVIOUS
  <2>4. line \in RawLine /\ Meets(CoreNow, line) /\ nop_cnt = 0 /\ ControlUnitTypeOK
    BY <2>1, <2>2, <2>3, DeliverFacts DEF Deliver
  <2>5. Fetched = line.word
    BY <2>1, <2>3, <2>4, TriggerTaken DEF Deliver
  <2>6. /\ line.word.bank = "store" => line.cmd = "WR"
        /\ line.word.bank = "load" => line.cmd = "RD"
    BY <2>1, <2>3, <2>4 DEF Meets
  <2>7. QED
    BY <2>3, <2>5, <2>6
<1>2. QED
  BY <1>1, Invariance, PTL DEF BankCommand

(* After a source without errors the core is at rest, with the array in    *)
(* its CRF.                                                                *)
THEOREM DrainsClean == Spec => []Drained
<1>1. IInv => Drained
  <2>1. SUFFICES ASSUME IInv, eof, pos = Len(rawSeq), since = Spacing
                 PROVE  /\ pc = 0 /\ ~jmp_act /\ nop_cnt = 0
                        /\ \A i \in CrfIndex : crf[i] = BuildInstr(crfInstr[i])
    BY DEF Drained
  <2>2. PICK cs : InReplay(cs)
    BY <2>1 DEF IInv
  <2>3. ~error /\ ~exec
    BY <2>1 DEF IInv, Stopped, Simulating
  <2>4. Agrees(CoreNow)
    BY <2>1, <2>2, <2>3 DEF InReplay
  <2>5. nop_cnt = 0
    BY <2>1 DEF IInv, NopInTime, TypeOK, ControlUnitTypeOK
  <2>6. QED
    BY <2>3, <2>4, <2>5 DEF Agrees, CoreNow
<1>2. QED
  BY <1>1, Invariance, PTL
=============================================================================
