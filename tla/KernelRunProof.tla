-------------------------- MODULE KernelRunProof --------------------------
(***************************************************************************)
(* Proofs about KernelRun, for every CRF size, field width and set of      *)
(* words: type correctness, the trip counts of a kernel and the state of   *)
(* the loop register between kernels.                                      *)
(***************************************************************************)
EXTENDS KernelRun, TLAPS

USE IsaAssumption, ControlUnitAssumption, WordsAssumption
  DEF IsaAssumption, ControlUnitAssumption, WordsAssumption

-----------------------------------------------------------------------------
(* The loops of a well-formed program are disjoint: an entry is in at most *)
(* one of them.                                                            *)
LEMMA LoopsDisjoint ==
  ASSUME NEW p \in [CrfIndex -> Word], NEW e, WellFormed(p, e),
         NEW i \in CrfIndex, NEW j \in CrfIndex, NEW k \in CrfIndex,
         j < e, k < e, InLoop(p, i, j), InLoop(p, i, k)
  PROVE  j = k
<1>1. /\ p[j].imm0 \in Nat /\ p[k].imm0 \in Nat
      /\ p[j].op = "JUMP" /\ p[k].op = "JUMP"
  BY DEF InLoop, Word
<1>2. ~(j < k)
  BY <1>1 DEF WellFormed, InLoop, CrfIndex
<1>3. ~(k < j)
  BY <1>1 DEF WellFormed, InLoop, CrfIndex
<1>4. QED
  BY <1>2, <1>3 DEF CrfIndex

(* The content of a CRF entry after reset is an instruction word. *)
LEMMA ZeroIsWord == ZeroWord \in Word
  BY DEF Word, ZeroWord, Operations, BankUse

(* The word the decoder sees is an instruction word. *)
LEMMA FetchedWord == ControlUnitTypeOK => Fetched \in Word
  BY ZeroIsWord DEF ControlUnitTypeOK, Fetched

(* The reset state of the control unit is well typed. *)
LEMMA CuInitType == ASSUME CuInit PROVE ControlUnitTypeOK
<1>1. crf \in [CrfIndex -> Word]
  BY ZeroIsWord DEF CuInit
<1>2. pc \in 0 .. PcMod - 1 /\ nop_cnt \in 0 .. NopMod - 1 /\ jmp_cnt \in 0 .. JmpMod - 1
  BY DEF CuInit
<1>3. jmp_act \in BOOLEAN
  BY DEF CuInit
<1>4. QED
  BY <1>1, <1>2, <1>3 DEF ControlUnitTypeOK

(* Every cycle of the control unit keeps its registers in their widths. *)
LEMMA CuStepType ==
  ASSUME ControlUnitTypeOK,
         Reset \/ Idle \/ Trigger \/ (\E i \in CrfIndex, w \in Word : WriteCrf(i, w))
  PROVE  ControlUnitTypeOK'
<1>0. Fetched \in Word
  BY FetchedWord
<1>1. CASE Reset
  <2>1. crf' \in [CrfIndex -> Word]
    BY <1>1, ZeroIsWord DEF Reset
  <2>2. pc' \in 0 .. PcMod - 1 /\ nop_cnt' \in 0 .. NopMod - 1 /\ jmp_cnt' \in 0 .. JmpMod - 1
    BY <1>1 DEF Reset
  <2>3. jmp_act' \in BOOLEAN
    BY <1>1 DEF Reset
  <2>4. QED
    BY <2>1, <2>2, <2>3 DEF ControlUnitTypeOK
<1>2. CASE Idle
  BY <1>2 DEF Idle, NopTicked, ControlUnitTypeOK
<1>3. CASE \E i \in CrfIndex, w \in Word : WriteCrf(i, w)
  BY <1>3 DEF WriteCrf, NopTicked, ControlUnitTypeOK
<1>4. CASE IgnoreTrigger
  BY <1>4 DEF IgnoreTrigger, Idle, NopTicked, ControlUnitTypeOK
<1>5. CASE Decode
  <2>1. PcCounted \in 0 .. PcMod - 1
    BY DEF PcCounted, ControlUnitTypeOK
  <2>2. PcJumped(Fetched.imm0) \in 0 .. PcMod - 1
    BY <1>0 DEF PcJumped, ControlUnitTypeOK, Word
  <2>3. NopTicked \in 0 .. NopMod - 1
    BY DEF NopTicked, ControlUnitTypeOK
  <2>4. CASE DecodeNop
    <3>1. Dec(Fetched.imm0, NopMod) \in 0 .. NopMod - 1
      BY <1>0 DEF Dec, Word
    <3>2. QED
      BY <2>1, <2>4, <3>1 DEF DecodeNop, ControlUnitTypeOK
  <2>5. CASE DecodeJump
    <3>1. Dec(Fetched.imm1, JmpMod) \in 0 .. JmpMod - 1
      BY <1>0 DEF Dec, Word
    <3>2. CASE StartLoop
      BY <2>2, <2>3, <2>5, <3>1, <3>2 DEF StartLoop, DecodeJump, ControlUnitTypeOK
    <3>3. CASE RepeatLoop
      BY <2>2, <2>3, <2>5, <3>3 DEF RepeatLoop, DecodeJump, ControlUnitTypeOK
    <3>4. CASE LeaveLoop
      BY <2>1, <2>3, <2>5, <3>4 DEF LeaveLoop, DecodeJump, ControlUnitTypeOK
    <3>5. QED
      BY <2>5, <3>2, <3>3, <3>4 DEF DecodeJump
  <2>6. CASE DecodeExit
    BY <2>3, <2>6 DEF DecodeExit, ControlUnitTypeOK
  <2>7. CASE DecodeExe
    BY <2>1, <2>3, <2>7 DEF DecodeExe, ControlUnitTypeOK
  <2>8. QED
    BY <1>5, <2>4, <2>5, <2>6, <2>7 DEF Decode
<1>6. QED
  BY <1>1, <1>2, <1>3, <1>4, <1>5 DEF Trigger

-----------------------------------------------------------------------------
(* The history of the kernel in progress is well typed in every phase. *)
LEMMA BaseType == ASSUME TypeOK PROVE Base \in [CrfIndex -> 0 .. Imm1Mod]
  BY DEF TypeOK, Base, None

(* A decode cycle while the counts say that entry pc of a program that     *)
(* ends at e is next.                                                      *)
DecodeOf(e) ==
  /\ TypeOK
  /\ e \in 0 .. CrfEntries
  /\ WellFormed(crf, e)
  /\ Progress(e)
  /\ Decode
  /\ executed' = [Base EXCEPT ![pc] = @ + 1]

(* What every decode cycle has in common: the fetched word is entry pc,    *)
(* its count and no other goes up, and the counts stay in their range.     *)
LEMMA DecodeFacts ==
  ASSUME NEW e, DecodeOf(e)
  PROVE  /\ Fetched = crf[pc] /\ crf[pc] \in Word
         /\ crf' = crf
         /\ pc \in CrfIndex /\ pc <= e
         /\ pc < e => crf[pc].op # "EXIT"
         /\ pc = e => crf[pc].op = "EXIT"
         /\ \A i \in CrfIndex : executed'[i] = IF i = pc THEN Base[i] + 1 ELSE Base[i]
         /\ executed' \in [CrfIndex -> 0 .. Imm1Mod]
<1> USE DEF DecodeOf
<1>1. /\ pc \in CrfIndex /\ pc <= e
      /\ crf \in [CrfIndex -> Word]
  BY DEF Progress, TypeOK, ControlUnitTypeOK
<1>2. Fetched = crf[pc] /\ crf[pc] \in Word
  BY <1>1 DEF Fetched
<1>3. crf' = crf
  BY DEF Decode, DecodeNop, DecodeJump, DecodeExit, DecodeExe
<1>4. /\ pc < e => crf[pc].op # "EXIT"
      /\ pc = e => crf[pc].op = "EXIT"
  BY <1>1 DEF WellFormed
<1>5. Base \in [CrfIndex -> 0 .. Imm1Mod]
  BY BaseType
<1>6. \A i \in CrfIndex : executed'[i] = IF i = pc THEN Base[i] + 1 ELSE Base[i]
  BY <1>1, <1>5
<1>7. Base[pc] < Imm1Mod
  <2>1. CASE \E j \in CrfIndex : j < e /\ InLoop(crf, pc, j)
    <3>1. PICK j \in CrfIndex : j < e /\ InLoop(crf, pc, j)
      BY <2>1
    <3>2. Base[pc] = PassesIn(pc, j)
      BY <1>1, <3>1 DEF Progress
    <3>3. crf[j].imm1 \in 0 .. Imm1Mod - 1 /\ jmp_cnt \in Nat
      BY <1>1 DEF Word, TypeOK, ControlUnitTypeOK
    <3>4. pc <= j
      BY <3>1 DEF InLoop
    <3>5. QED
      BY <1>1, <3>2, <3>3, <3>4 DEF PassesIn, CrfIndex
  <2>2. CASE \A j \in CrfIndex : j < e => ~InLoop(crf, pc, j)
    <3>1. Base[pc] = 0
      BY <1>1, <2>2 DEF Progress, CrfIndex
    <3>2. QED
      BY <3>1
  <2>3. QED
    BY <2>1, <2>2
<1>8. executed' \in [CrfIndex -> 0 .. Imm1Mod]
  BY <1>1, <1>5, <1>7
<1>9. QED
  BY <1>1, <1>2, <1>3, <1>4, <1>6, <1>8

-----------------------------------------------------------------------------
(* The counts of Progress, one entry at a time. *)
CountsAt(i, e) ==
  /\ \A j \in CrfIndex : (j < e /\ InLoop(crf, i, j)) => Base[i] = PassesIn(i, j)
  /\ (\A j \in CrfIndex : j < e => ~InLoop(crf, i, j)) => Base[i] = IF i < pc THEN 1 ELSE 0

(* An instruction other than JUMP and EXIT that is not the CRF's last      *)
(* moves the PC one entry on, inside the loop when a loop is active.       *)
LEMMA PlainProgress ==
  ASSUME NEW e, DecodeOf(e), DecodeNop \/ DecodeExe,
         pc # CrfEntries - 1, phase' = "run"
  PROVE  Progress(e)'
<1> USE DEF DecodeOf
<1>1. /\ crf[pc].op \notin {"JUMP", "EXIT"}
      /\ pc' = pc + 1 /\ jmp_act' = jmp_act /\ jmp_cnt' = jmp_cnt /\ crf' = crf
      /\ pc \in CrfIndex /\ pc < e
  BY DecodeFacts DEF DecodeNop, DecodeExe, PcCounted, CrfIndex
<1>2. /\ jmp_cnt \in Nat
      /\ \A j \in CrfIndex : crf[j].imm0 \in Nat /\ crf[j].imm1 \in Nat
  BY DEF TypeOK, ControlUnitTypeOK, Word
<1>3. \A j \in CrfIndex : InLoop(crf, pc, j) => pc < j
  BY <1>1, <1>2 DEF InLoop, CrfIndex
<1>4. ASSUME jmp_act
      PROVE  \E j \in CrfIndex : /\ j < e /\ InLoop(crf, pc, j) /\ jmp_cnt < crf[j].imm1
                                /\ InLoop(crf, pc + 1, j)
  <2>1. PICK j \in CrfIndex : j < e /\ InLoop(crf, pc, j) /\ jmp_cnt < crf[j].imm1
    BY <1>4 DEF Progress
  <2>2. InLoop(crf, pc + 1, j)
    BY <1>1, <1>2, <1>3, <2>1 DEF InLoop, CrfIndex
  <2>3. QED
    BY <2>1, <2>2
<1>5. ASSUME jmp_act, NEW j \in CrfIndex, j < e
      PROVE  InLoop(crf, pc + 1, j) <=> InLoop(crf, pc, j)
  <2>1. PICK k \in CrfIndex : k < e /\ InLoop(crf, pc, k) /\ InLoop(crf, pc + 1, k)
    BY <1>4, <1>5
  <2>2. pc + 1 \in CrfIndex
    BY <1>1 DEF CrfIndex
  <2>3. crf \in [CrfIndex -> Word]
    BY DEF TypeOK, ControlUnitTypeOK
  <2>4. InLoop(crf, pc, j) => j = k
    BY <1>1, <1>5, <2>1, <2>3, LoopsDisjoint
  <2>5. InLoop(crf, pc + 1, j) => j = k
    BY <1>5, <2>1, <2>2, <2>3, LoopsDisjoint
  <2>6. QED
    BY <2>1, <2>4, <2>5
<1>6. ASSUME NEW i \in CrfIndex
      PROVE  CountsAt(i, e)'
  <2>1. CountsAt(i, e)
    BY DEF Progress, CountsAt
  <2>2. Base'[i] = IF i = pc THEN Base[i] + 1 ELSE Base[i]
    BY DecodeFacts DEF Base
  <2>3. ASSUME NEW j \in CrfIndex, j < e, InLoop(crf, i, j)
        PROVE  Base'[i] = PassesIn(i, j)'
    <3>1. Base[i] = PassesIn(i, j)
      BY <2>1, <2>3 DEF CountsAt
    <3>2. i <= j
      BY <2>3 DEF InLoop
    <3>3. CASE jmp_act
      <4> DEFINE made == IF InLoop(crf, pc, j) THEN crf[j].imm1 - jmp_cnt ELSE 0
      <4>1. pc # j
        BY <1>1, <2>3 DEF InLoop
      <4>2. PassesIn(i, j) =
              IF pc > j THEN crf[j].imm1 + 1 ELSE made + (IF i < pc THEN 1 ELSE 0)
        BY <3>3 DEF PassesIn
      <4>3. PassesIn(i, j)' =
              IF pc + 1 > j THEN crf[j].imm1 + 1 ELSE made + (IF i < pc + 1 THEN 1 ELSE 0)
        BY <1>1, <1>5, <2>3, <3>3 DEF PassesIn
      <4>4. made \in Int
        BY <1>2
      <4> HIDE DEF made
      <4>5. QED
        BY <1>1, <2>2, <3>1, <3>2, <4>1, <4>2, <4>3, <4>4 DEF CrfIndex
    <3>4. CASE ~jmp_act
      <4>1. pc # j
        BY <1>1, <2>3 DEF InLoop
      <4>2. PassesIn(i, j) = IF pc > j THEN crf[j].imm1 + 1 ELSE IF i < pc THEN 1 ELSE 0
        BY <3>4 DEF PassesIn
      <4>3. PassesIn(i, j)' = IF pc + 1 > j THEN crf[j].imm1 + 1 ELSE IF i < pc + 1 THEN 1 ELSE 0
        BY <1>1, <3>4 DEF PassesIn
      <4>4. QED
        BY <1>1, <2>2, <3>1, <3>2, <4>1, <4>2, <4>3 DEF CrfIndex
    <3>5. QED
      BY <3>3, <3>4
  <2>4. ASSUME \A j \in CrfIndex : j < e => ~InLoop(crf, i, j)
        PROVE  Base'[i] = IF i < pc' THEN 1 ELSE 0
    <3>1. Base[i] = IF i < pc THEN 1 ELSE 0
      BY <2>1, <2>4 DEF CountsAt
    <3>2. QED
      BY <1>1, <2>2, <3>1 DEF CrfIndex
  <2>5. QED
    BY <1>1, <2>3, <2>4 DEF CountsAt, InLoop
<1>7. /\ pc' <= e /\ pc' \in CrfIndex
      /\ ~jmp_act' => jmp_cnt' = 0
  BY <1>1 DEF Progress, CrfIndex, WellFormed
<1>8. jmp_act' => \E j \in CrfIndex : j < e /\ InLoop(crf', pc', j) /\ jmp_cnt' < crf'[j].imm1
  BY <1>1, <1>4
<1>9. QED
  BY <1>6, <1>7, <1>8 DEF Progress, CountsAt

-----------------------------------------------------------------------------
(* A JUMP at the PC closes a loop of the program, of which the PC is the   *)
(* only JUMP; every other loop lies before the body or behind the PC.      *)
LEMMA JumpFacts ==
  ASSUME NEW e, DecodeOf(e), crf[pc].op = "JUMP"
  PROVE  /\ pc < e /\ pc \in CrfIndex /\ crf \in [CrfIndex -> Word]
         /\ crf[pc].imm0 \in 0 .. pc
         /\ crf[pc].imm1 > 0
         /\ jmp_cnt \in Nat
         /\ InLoop(crf, pc, pc)
         /\ \A j \in CrfIndex : crf[j].imm0 \in Nat /\ crf[j].imm1 \in Nat
         /\ \A j \in CrfIndex, i \in CrfIndex :
              (j < e /\ j # pc /\ InLoop(crf, i, j)) =>
                \/ j < pc - crf[pc].imm0
                \/ pc < j - crf[j].imm0
<1> USE DEF DecodeOf
<1>1. pc < e /\ pc \in CrfIndex /\ crf' = crf
  BY DecodeFacts DEF CrfIndex, WellFormed
<1>2. crf \in [CrfIndex -> Word] /\ jmp_cnt \in Nat
  BY DEF TypeOK, ControlUnitTypeOK
<1>3. \A j \in CrfIndex : crf[j].imm0 \in Nat /\ crf[j].imm1 \in Nat
  BY <1>2 DEF Word
<1>4. crf[pc].imm0 \in 0 .. pc /\ crf[pc].imm1 > 0
  BY <1>1, <1>3 DEF WellFormed
<1>5. InLoop(crf, pc, pc)
  BY <1>1, <1>4 DEF InLoop, CrfIndex
<1>6. ASSUME NEW j \in CrfIndex, NEW i \in CrfIndex, j < e, j # pc, InLoop(crf, i, j)
      PROVE  j < pc - crf[pc].imm0 \/ pc < j - crf[j].imm0
  <2>1. InLoop(crf, j, j)
    BY <1>3, <1>6 DEF InLoop, CrfIndex
  <2>2. ~InLoop(crf, j, pc)
    BY <1>1, <1>2, <1>6, <2>1, LoopsDisjoint
  <2>3. ~InLoop(crf, pc, j)
    BY <1>1, <1>2, <1>5, <1>6, LoopsDisjoint
  <2>4. QED
    BY <1>1, <1>3, <1>4, <1>5, <2>1, <2>2, <2>3 DEF InLoop, CrfIndex
<1>7. QED
  BY <1>1, <1>2, <1>3, <1>4, <1>5, <1>6

(* While a loop is active the only JUMP the PC can meet is its own. *)
LEMMA ActiveLoop ==
  ASSUME NEW e, DecodeOf(e), crf[pc].op = "JUMP", jmp_act
  PROVE  jmp_cnt < crf[pc].imm1
<1>1. PICK j \in CrfIndex : j < e /\ InLoop(crf, pc, j) /\ jmp_cnt < crf[j].imm1
  BY DEF DecodeOf, Progress
<1>2. j = pc
  BY <1>1, JumpFacts, LoopsDisjoint DEF DecodeOf
<1>3. QED
  BY <1>1, <1>2

(* A jump back, the first of a loop or a later one: n jumps remain of the  *)
(* imm1, and each entry of the body has been decoded once more.            *)
LEMMA JumpProgress ==
  ASSUME NEW e, DecodeOf(e), DecodeJump, StartLoop \/ RepeatLoop, phase' = "run"
  PROVE  Progress(e)'
<1> USE DEF DecodeOf
<1> DEFINE d == crf[pc].imm0
           n == IF jmp_act THEN jmp_cnt - 1 ELSE crf[pc].imm1 - 1
<1>1. crf[pc].op = "JUMP"
  BY DecodeFacts DEF DecodeJump
<1>2. /\ pc < e /\ pc \in CrfIndex /\ d \in 0 .. pc
      /\ \A j \in CrfIndex : crf[j].imm0 \in Nat /\ crf[j].imm1 \in Nat
      /\ InLoop(crf, pc, pc) /\ jmp_cnt \in Nat /\ e \in Nat
  BY <1>1, JumpFacts
<1>3. crf' = crf /\ jmp_act' = TRUE /\ pc' = pc - d
  BY <1>2, DecodeFacts DEF StartLoop, RepeatLoop, PcJumped, CrfIndex
<1>4. jmp_cnt' = n /\ n \in 0 .. crf[pc].imm1 - 1
  <2>1. CASE StartLoop
    BY <1>1, <1>2, <2>1, JumpFacts, DecodeFacts DEF StartLoop, Dec
  <2>2. CASE RepeatLoop
    BY <1>1, <1>2, <2>2, ActiveLoop DEF RepeatLoop
  <2>3. QED
    BY <2>1, <2>2
<1>5. pc' \in CrfIndex /\ pc' <= e /\ InLoop(crf, pc', pc)
  BY <1>1, <1>2, <1>3 DEF InLoop, CrfIndex
<1>6. \A j \in CrfIndex, i \in CrfIndex :
        (j < e /\ j # pc /\ InLoop(crf, i, j)) => j < pc - d \/ pc < j - crf[j].imm0
  BY <1>1, JumpFacts
<1>7. ~jmp_act => jmp_cnt = 0
  BY DEF Progress
<1> HIDE DEF n
<1>8. ASSUME NEW i \in CrfIndex
      PROVE  CountsAt(i, e)'
  <2>1. CountsAt(i, e)
    BY DEF Progress, CountsAt
  <2>2. Base'[i] = IF i = pc THEN Base[i] + 1 ELSE Base[i]
    BY DecodeFacts DEF Base
  <2>3. ASSUME NEW j \in CrfIndex, j < e, InLoop(crf, i, j)
        PROVE  Base'[i] = PassesIn(i, j)'
    <3>1. Base[i] = PassesIn(i, j)
      BY <2>1, <2>3 DEF CountsAt
    <3>2. j - crf[j].imm0 <= i /\ i <= j
      BY <2>3 DEF InLoop
    <3>3. CASE j = pc
      <4>1. Base[i] = (crf[pc].imm1 - n - 1) + (IF i < pc THEN 1 ELSE 0)
        BY <1>2, <3>1, <3>3 DEF PassesIn, n, CrfIndex
      <4>2. PassesIn(i, j)' = (crf[pc].imm1 - n) + (IF i < pc - d THEN 1 ELSE 0)
        BY <1>2, <1>3, <1>4, <1>5, <3>3 DEF PassesIn, CrfIndex
      <4>3. QED
        BY <1>2, <1>4, <2>2, <3>2, <3>3, <4>1, <4>2 DEF CrfIndex
    <3>4. CASE j # pc /\ j < pc - d
      <4>1. Base[i] = crf[j].imm1 + 1
        BY <1>2, <3>1, <3>4 DEF PassesIn, CrfIndex
      <4>2. PassesIn(i, j)' = crf[j].imm1 + 1
        BY <1>3, <3>4 DEF PassesIn
      <4>3. QED
        BY <1>2, <2>2, <3>2, <3>4, <4>1, <4>2 DEF CrfIndex
    <3>5. CASE j # pc /\ pc < j - crf[j].imm0
      <4>1. ~InLoop(crf, pc, j) /\ ~InLoop(crf, pc', j) /\ ~(pc > j) /\ ~(pc' > j)
            /\ ~(i < pc) /\ ~(i < pc') /\ i # pc
        BY <1>2, <1>3, <3>2, <3>5 DEF InLoop, CrfIndex
      <4>2. Base[i] = 0
        BY <3>1, <4>1 DEF PassesIn
      <4>3. PassesIn(i, j)' = 0
        BY <1>3, <4>1 DEF PassesIn
      <4>4. QED
        BY <2>2, <4>1, <4>2, <4>3
    <3>6. QED
      BY <1>6, <2>3, <3>3, <3>4, <3>5
  <2>4. ASSUME \A j \in CrfIndex : j < e => ~InLoop(crf, i, j)
        PROVE  Base'[i] = IF i < pc' THEN 1 ELSE 0
    <3>1. Base[i] = IF i < pc THEN 1 ELSE 0
      BY <2>1, <2>4 DEF CountsAt
    <3>2. i < pc - d \/ i > pc
      BY <1>1, <1>2, <2>4 DEF InLoop, CrfIndex
    <3>3. QED
      BY <1>2, <1>3, <2>2, <3>1, <3>2 DEF CrfIndex
  <2>5. QED
    BY <1>3, <2>3, <2>4 DEF CountsAt, InLoop
<1>9. \E j \in CrfIndex : j < e /\ InLoop(crf', pc', j) /\ jmp_cnt' < crf'[j].imm1
  BY <1>2, <1>3, <1>4, <1>5
<1>10. QED
  BY <1>3, <1>5, <1>8, <1>9 DEF Progress, CountsAt

(* The counts when a JUMP lets the PC through: those of its loop are       *)
(* complete, all others as they were.                                      *)
LEMMA LeaveCounts ==
  ASSUME NEW e, DecodeOf(e), DecodeJump, LeaveLoop, NEW i \in CrfIndex
  PROVE  /\ \A j \in CrfIndex : (j < e /\ InLoop(crf, i, j)) =>
               executed'[i] = IF pc + 1 > j THEN crf[j].imm1 + 1 ELSE 0
         /\ (\A j \in CrfIndex : j < e => ~InLoop(crf, i, j)) =>
               executed'[i] = IF i < pc + 1 THEN 1 ELSE 0
<1> USE DEF DecodeOf
<1>1. crf[pc].op = "JUMP" /\ jmp_act /\ jmp_cnt = 0
  BY DecodeFacts DEF DecodeJump, LeaveLoop
<1>2. /\ pc < e /\ pc \in CrfIndex /\ crf[pc].imm0 \in 0 .. pc
      /\ \A j \in CrfIndex : crf[j].imm0 \in Nat /\ crf[j].imm1 \in Nat
      /\ InLoop(crf, pc, pc)
  BY <1>1, JumpFacts
<1>3. \A j \in CrfIndex : (j < e /\ j # pc /\ InLoop(crf, i, j)) =>
        j < pc - crf[pc].imm0 \/ pc < j - crf[j].imm0
  BY <1>1, JumpFacts
<1>4. CountsAt(i, e)
  BY DEF Progress, CountsAt
<1>5. executed'[i] = IF i = pc THEN Base[i] + 1 ELSE Base[i]
  BY DecodeFacts
<1>6. ASSUME NEW j \in CrfIndex, j < e, InLoop(crf, i, j)
      PROVE  executed'[i] = IF pc + 1 > j THEN crf[j].imm1 + 1 ELSE 0
  <2>1. Base[i] = PassesIn(i, j)
    BY <1>4, <1>6 DEF CountsAt
  <2>2. j - crf[j].imm0 <= i /\ i <= j
    BY <1>6 DEF InLoop
  <2>3. CASE j = pc
    <3>1. Base[i] = crf[pc].imm1 + (IF i < pc THEN 1 ELSE 0)
      BY <1>1, <1>2, <2>1, <2>3 DEF PassesIn, CrfIndex
    <3>2. QED
      BY <1>2, <1>5, <2>2, <2>3, <3>1 DEF CrfIndex
  <2>4. CASE j # pc /\ j < pc - crf[pc].imm0
    <3>1. Base[i] = crf[j].imm1 + 1
      BY <1>2, <2>1, <2>4 DEF PassesIn, CrfIndex
    <3>2. QED
      BY <1>2, <1>5, <2>2, <2>4, <3>1 DEF CrfIndex
  <2>5. CASE j # pc /\ pc < j - crf[j].imm0
    <3>1. ~InLoop(crf, pc, j) /\ ~(pc > j) /\ ~(i < pc) /\ i # pc /\ ~(pc + 1 > j)
      BY <1>2, <2>2, <2>5 DEF InLoop, CrfIndex
    <3>2. Base[i] = 0
      BY <2>1, <3>1 DEF PassesIn
    <3>3. QED
      BY <1>5, <3>1, <3>2
  <2>6. QED
    BY <1>3, <1>6, <2>3, <2>4, <2>5
<1>7. ASSUME \A j \in CrfIndex : j < e => ~InLoop(crf, i, j)
      PROVE  executed'[i] = IF i < pc + 1 THEN 1 ELSE 0
  <2>1. Base[i] = IF i < pc THEN 1 ELSE 0
    BY <1>4, <1>7 DEF CountsAt
  <2>2. i # pc
    BY <1>2, <1>7
  <2>3. QED
    BY <1>2, <1>5, <2>1, <2>2 DEF CrfIndex
<1>8. QED
  BY <1>6, <1>7

(* Falling through a JUMP that is not the CRF's last entry. *)
LEMMA LeaveProgress ==
  ASSUME NEW e, DecodeOf(e), DecodeJump, LeaveLoop, pc # CrfEntries - 1, phase' = "run"
  PROVE  Progress(e)'
<1> USE DEF DecodeOf
<1>1. /\ crf' = crf /\ pc' = pc + 1 /\ jmp_act' = FALSE /\ jmp_cnt' = 0
      /\ pc < e /\ pc \in CrfIndex
  BY DecodeFacts DEF DecodeJump, LeaveLoop, PcCounted, CrfIndex
<1>2. ASSUME NEW i \in CrfIndex
      PROVE  CountsAt(i, e)'
  <2>1. Base'[i] = executed'[i]
    BY DEF Base
  <2>2. ASSUME NEW j \in CrfIndex, j < e, InLoop(crf, i, j)
        PROVE  Base'[i] = PassesIn(i, j)'
    <3>1. executed'[i] = IF pc + 1 > j THEN crf[j].imm1 + 1 ELSE 0
      BY <2>2, LeaveCounts
    <3>2. i < pc + 1 => pc + 1 > j
      <4>1. crf[pc].op = "JUMP" /\ i <= j
        BY <2>2, DecodeFacts DEF DecodeJump, InLoop
      <4>2. ~(j < pc - crf[pc].imm0) /\ j # pc => pc < i
        BY <2>2, <4>1, JumpFacts DEF InLoop, CrfIndex
      <4>3. crf[pc].imm0 \in 0 .. pc
        BY <4>1, JumpFacts
      <4>4. QED
        BY <1>1, <4>1, <4>2, <4>3 DEF CrfIndex
    <3>3. PassesIn(i, j)' = IF pc + 1 > j THEN crf[j].imm1 + 1 ELSE IF i < pc + 1 THEN 1 ELSE 0
      BY <1>1 DEF PassesIn
    <3>4. QED
      BY <2>1, <3>1, <3>2, <3>3
  <2>3. ASSUME \A j \in CrfIndex : j < e => ~InLoop(crf, i, j)
        PROVE  Base'[i] = IF i < pc' THEN 1 ELSE 0
    BY <1>1, <2>1, <2>3, LeaveCounts
  <2>4. QED
    BY <1>1, <2>2, <2>3 DEF CountsAt, InLoop
<1>3. pc' <= e /\ pc' \in CrfIndex
  BY <1>1 DEF CrfIndex
<1>4. QED
  BY <1>1, <1>2, <1>3 DEF Progress, CountsAt

-----------------------------------------------------------------------------
(* The last instruction of a kernel leaves the unit as it was before the   *)
(* first, with all counts complete.                                        *)
LEMMA LastFacts ==
  ASSUME NEW e, DecodeOf(e), LastDecoded
  PROVE  pc' = 0 /\ ~jmp_act' /\ jmp_cnt' = 0 /\ Complete(e)'
<1> USE DEF DecodeOf
<1>1. /\ Fetched = crf[pc] /\ crf' = crf /\ pc \in CrfIndex /\ pc <= e /\ e \in Nat
      /\ \A i \in CrfIndex : executed'[i] = IF i = pc THEN Base[i] + 1 ELSE Base[i]
  BY DecodeFacts
<1>2. \A i \in CrfIndex : CountsAt(i, e)
  BY DEF Progress, CountsAt
<1>3. \A j \in CrfIndex : crf[j].imm0 \in Nat /\ crf[j].imm1 \in Nat
  BY DEF TypeOK, ControlUnitTypeOK, Word
<1>4. SUFFICES /\ pc' = 0 /\ ~jmp_act' /\ jmp_cnt' = 0
               /\ \A i \in CrfIndex :
                    /\ i > e => executed'[i] = 0
                    /\ i <= e => \/ /\ \A j \in CrfIndex : j < e => ~InLoop(crf, i, j)
                                   /\ executed'[i] = 1
                                \/ \E j \in CrfIndex : /\ j < e /\ InLoop(crf, i, j)
                                                        /\ executed'[i] = crf[j].imm1 + 1
  BY <1>1 DEF Complete, InLoop
<1>5. ASSUME ~jmp_act, crf[pc].op # "JUMP", pc = e \/ pc = CrfEntries - 1, NEW i \in CrfIndex
      PROVE  /\ i > e => executed'[i] = 0
             /\ i <= e => \/ /\ \A j \in CrfIndex : j < e => ~InLoop(crf, i, j)
                            /\ executed'[i] = 1
                         \/ \E j \in CrfIndex : /\ j < e /\ InLoop(crf, i, j)
                                                 /\ executed'[i] = crf[j].imm1 + 1
  <2>1. CASE \E j \in CrfIndex : j < e /\ InLoop(crf, i, j)
    <3>1. PICK j \in CrfIndex : j < e /\ InLoop(crf, i, j)
      BY <2>1
    <3>2. i <= j /\ j # pc
      BY <1>5, <3>1 DEF InLoop
    <3>3. pc > j /\ i # pc /\ i <= e
      BY <1>1, <1>5, <3>1, <3>2 DEF CrfIndex
    <3>4. Base[i] = crf[j].imm1 + 1
      BY <1>2, <3>1, <3>3 DEF CountsAt, PassesIn
    <3>5. QED
      BY <1>1, <3>1, <3>3, <3>4 DEF CrfIndex
  <2>2. CASE \A j \in CrfIndex : j < e => ~InLoop(crf, i, j)
    <3>1. Base[i] = IF i < pc THEN 1 ELSE 0
      BY <1>2, <2>2 DEF CountsAt
    <3>2. QED
      BY <1>1, <1>5, <2>2, <3>1 DEF CrfIndex
  <2>3. QED
    BY <2>1, <2>2
<1>6. CASE crf[pc].op = "EXIT"
  <2>1. pc = e
    BY <1>1, <1>6, DecodeFacts DEF CrfIndex
  <2>2. ~jmp_act
    BY <1>1, <2>1 DEF Progress, InLoop, CrfIndex
  <2>3. pc' = 0 /\ ~jmp_act' /\ jmp_cnt' = 0
    BY <1>1, <1>6, <2>2 DEF Decode, DecodeNop, DecodeJump, DecodeExit, DecodeExe, Progress
  <2>4. QED
    BY <1>5, <1>6, <2>1, <2>2, <2>3
<1>7. CASE crf[pc].op # "EXIT" /\ crf[pc].op # "JUMP"
  <2>1. pc = CrfEntries - 1 /\ pc < e /\ ~jmp_act'
    BY <1>1, <1>7, DecodeFacts DEF LastDecoded, CrfIndex
  <2>2. jmp_act' = jmp_act /\ jmp_cnt' = jmp_cnt /\ pc' = 0
    BY <1>1, <1>7, <2>1 DEF Decode, DecodeNop, DecodeJump, DecodeExit, DecodeExe, PcCounted
  <2>3. ~jmp_act
    BY <2>1, <2>2
  <2>4. jmp_cnt = 0
    BY <2>3 DEF Progress
  <2>5. QED
    BY <1>5, <1>7, <2>1, <2>2, <2>3, <2>4
<1>8. CASE crf[pc].op = "JUMP"
  <2>1. pc = CrfEntries - 1 /\ pc < e /\ ~jmp_act'
    BY <1>1, <1>8, DecodeFacts DEF LastDecoded, CrfIndex
  <2>2. DecodeJump /\ LeaveLoop
    BY <1>1, <1>8, <2>1 DEF Decode, DecodeNop, DecodeJump, DecodeExit, DecodeExe,
                            StartLoop, RepeatLoop
  <2>3. pc' = 0 /\ jmp_cnt' = 0
    BY <2>1, <2>2 DEF LeaveLoop, PcCounted
  <2>4. \A i \in CrfIndex : i <= pc /\ i <= e
    BY <2>1 DEF CrfIndex
  <2>5. ASSUME NEW i \in CrfIndex
        PROVE  \/ /\ \A j \in CrfIndex : j < e => ~InLoop(crf, i, j)
                  /\ executed'[i] = 1
               \/ \E j \in CrfIndex : /\ j < e /\ InLoop(crf, i, j)
                                       /\ executed'[i] = crf[j].imm1 + 1
    BY <1>1, <2>2, <2>4, LeaveCounts DEF CrfIndex
  <2>6. QED
    BY <1>1, <2>1, <2>3, <2>4, <2>5 DEF CrfIndex
<1>9. QED
  BY <1>6, <1>7, <1>8

-----------------------------------------------------------------------------
(* Before the first instruction every program is in progress. *)
LEMMA FreshProgress ==
  ASSUME pc' = 0, ~jmp_act', jmp_cnt' = 0, phase' # "run", NEW e \in 0 .. CrfEntries
  PROVE  Progress(e)'
<1>1. \A i \in CrfIndex : Base'[i] = 0
  BY DEF Base, None
<1>2. ASSUME NEW i \in CrfIndex, NEW j \in CrfIndex
      PROVE  PassesIn(i, j)' = 0
  BY DEF PassesIn, CrfIndex
<1>3. 0 <= e /\ 0 \in CrfIndex /\ \A i \in CrfIndex : ~(i < 0)
  BY DEF CrfIndex
<1>4. QED
  BY <1>1, <1>2, <1>3 DEF Progress

(* One decoded instruction of a kernel keeps its counts or ends it. *)
LEMMA DecodeProgress ==
  ASSUME NEW e, DecodeOf(e), phase' = IF LastDecoded THEN "done" ELSE "run"
  PROVE  Progress(e)'
<1>1. CASE LastDecoded
  BY <1>1, LastFacts, FreshProgress DEF DecodeOf
<1>2. CASE ~LastDecoded
  <2>1. /\ Fetched = crf[pc] /\ pc \in CrfIndex /\ crf[pc].op # "EXIT"
        /\ pc = CrfEntries - 1 => jmp_act'
    BY <1>2, DecodeFacts DEF LastDecoded
  <2>2. CASE DecodeNop \/ DecodeExe
    <3>1. jmp_act' = jmp_act /\ crf[pc].op # "JUMP"
      BY <2>1, <2>2 DEF DecodeNop, DecodeExe
    <3>2. pc # CrfEntries - 1
      <4>1. SUFFICES ASSUME pc = CrfEntries - 1 PROVE FALSE
        OBVIOUS
      <4>2. PICK j \in CrfIndex : InLoop(crf, pc, j)
        BY <2>1, <3>1, <4>1 DEF DecodeOf, Progress
      <4>3. j = pc
        BY <4>1, <4>2 DEF InLoop, CrfIndex
      <4>4. QED
        BY <3>1, <4>2, <4>3 DEF InLoop
    <3>3. QED
      BY <1>2, <2>2, <3>2, PlainProgress
  <2>3. CASE DecodeJump
    <3>1. CASE StartLoop \/ RepeatLoop
      BY <1>2, <2>3, <3>1, JumpProgress
    <3>2. CASE LeaveLoop
      BY <1>2, <2>1, <2>3, <3>2, LeaveProgress DEF LeaveLoop
    <3>3. QED
      BY <2>3, <3>1, <3>2 DEF DecodeJump
  <2>4. QED
    BY <2>1, <2>2, <2>3 DEF DecodeOf, Decode, DecodeExit
<1>3. QED
  BY <1>1, <1>2

-----------------------------------------------------------------------------
(* The initial state satisfies the invariant. *)
LEMMA InitIInv == ASSUME Init PROVE IInv
<1> USE DEF Init
<1>1. None \in [CrfIndex -> 0 .. Imm1Mod]
  BY DEF None
<1>2. TypeOK
  BY <1>1, CuInitType DEF TypeOK
<1>3. pc = 0 /\ ~jmp_act /\ jmp_cnt = 0
  BY DEF CuInit
<1>4. ASSUME NEW e \in 0 .. CrfEntries
      PROVE  Progress(e)
  <2>1. \A i \in CrfIndex : Base[i] = 0
    BY DEF Base, None
  <2>2. \A i \in CrfIndex, j \in CrfIndex : PassesIn(i, j) = 0
    BY <1>3 DEF PassesIn, CrfIndex
  <2>3. 0 <= e /\ 0 \in CrfIndex /\ \A i \in CrfIndex : ~(i < 0)
    BY DEF CrfIndex
  <2>4. QED
    BY <1>3, <2>1, <2>2, <2>3 DEF Progress
<1>5. QED
  BY <1>2, <1>3, <1>4 DEF IInv, NoStaleLoop, TripCount, InProgress

(* A cycle in which nothing but the NOP counter moves keeps the invariant. *)
LEMMA QuietIInv ==
  ASSUME IInv, ControlUnitTypeOK',
         UNCHANGED <<crf, pc, jmp_act, jmp_cnt, phase, executed>>
  PROVE  IInv'
<1>1. TypeOK'
  BY DEF IInv, TypeOK
<1>2. NoStaleLoop'
  BY DEF IInv, NoStaleLoop
<1>3. TripCount'
  BY DEF IInv, TripCount, WellFormed, Complete, InLoop
<1>4. InProgress'
  BY DEF IInv, InProgress, WellFormed, Progress, Base, PassesIn, InLoop
<1>5. QED
  BY <1>1, <1>2, <1>3, <1>4 DEF IInv

(* One decoded instruction keeps the invariant. *)
LEMMA DecodeIInv ==
  ASSUME IInv, Run, nop_cnt = 0
  PROVE  IInv'
<1>1. PICK e \in 0 .. CrfEntries : WellFormed(crf, e)
  BY DEF Run
<1>2. ControlUnitTypeOK'
  BY CuStepType DEF IInv, TypeOK, Run
<1>3. /\ Decode
      /\ executed' = [Base EXCEPT ![pc] = @ + 1]
      /\ phase' = IF LastDecoded THEN "done" ELSE "run"
  BY DEF Run, Trigger, IgnoreTrigger, Base
<1>4. \A x \in 0 .. CrfEntries : WellFormed(crf, x) => DecodeOf(x)
  BY <1>3 DEF IInv, InProgress, DecodeOf
<1>5. crf' = crf /\ executed' \in [CrfIndex -> 0 .. Imm1Mod]
  BY <1>1, <1>4, DecodeFacts
<1>6. TypeOK'
  BY <1>2, <1>3, <1>5 DEF TypeOK
<1>7. NoStaleLoop'
  BY <1>1, <1>3, <1>4, LastFacts DEF NoStaleLoop
<1>8. TripCount'
  BY <1>3, <1>4, <1>5, LastFacts DEF TripCount, WellFormed
<1>9. InProgress'
  BY <1>3, <1>4, <1>5, DecodeProgress DEF InProgress, WellFormed
<1>10. QED
  BY <1>6, <1>7, <1>8, <1>9 DEF IInv

(* Every step of the host and the core keeps the invariant. *)
LEMMA StepIInv == ASSUME IInv, [Next]_vars PROVE IInv'
<1> USE DEF IInv
<1>1. None \in [CrfIndex -> 0 .. Imm1Mod]
  BY DEF None
<1>2. CASE HostReset
  <2>1. ControlUnitTypeOK'
    BY <1>2, CuStepType DEF HostReset, TypeOK
  <2>2. TypeOK'
    BY <1>1, <1>2, <2>1 DEF HostReset, TypeOK
  <2>3. pc' = 0 /\ ~jmp_act' /\ jmp_cnt' = 0 /\ phase' = "load"
    BY <1>2 DEF HostReset, Reset
  <2>4. InProgress'
    BY <2>3, FreshProgress DEF InProgress
  <2>5. QED
    BY <2>2, <2>3, <2>4 DEF NoStaleLoop, TripCount
<1>3. CASE Load
  <2>1. ControlUnitTypeOK'
    BY <1>3, CuStepType DEF Load, TypeOK
  <2>2. TypeOK'
    BY <1>1, <1>3, <2>1 DEF Load, TypeOK
  <2>3. pc' = 0 /\ ~jmp_act' /\ jmp_cnt' = 0 /\ phase' = "load"
    BY <1>3 DEF Load, WriteCrf, NoStaleLoop
  <2>4. InProgress'
    BY <2>3, FreshProgress DEF InProgress
  <2>5. QED
    BY <2>2, <2>3, <2>4 DEF NoStaleLoop, TripCount
<1>4. CASE Wait
  <2>1. ControlUnitTypeOK'
    BY <1>4, CuStepType DEF Wait, TypeOK
  <2>2. QED
    BY <1>4, <2>1, QuietIInv DEF Wait, Idle
<1>5. CASE Run
  <2>1. CASE nop_cnt = 0
    BY <1>5, <2>1, DecodeIInv
  <2>2. CASE nop_cnt # 0
    <3>1. ControlUnitTypeOK'
      BY <1>5, CuStepType DEF Run, TypeOK
    <3>2. QED
      BY <1>5, <2>2, <3>1, QuietIInv DEF Run, Trigger, IgnoreTrigger, Decode, Idle
  <2>3. QED
    BY <2>1, <2>2
<1>6. CASE UNCHANGED vars
  <2>1. ControlUnitTypeOK'
    BY <1>6 DEF vars, TypeOK, ControlUnitTypeOK
  <2>2. QED
    BY <1>6, <2>1, QuietIInv DEF vars
<1>7. QED
  BY <1>2, <1>3, <1>4, <1>5, <1>6 DEF Next

-----------------------------------------------------------------------------
(* The inductive invariant holds in every reachable state. *)
THEOREM KernelInvariant == Spec => []IInv
<1>1. Init => IInv
  BY InitIInv
<1>2. IInv /\ [Next]_vars => IInv'
  BY StepIInv
<1>3. QED
  BY <1>1, <1>2, PTL DEF Spec

(* The registers of the control unit stay in their widths. *)
THEOREM TypeCorrect == Spec => []TypeOK
<1>1. IInv => TypeOK
  BY DEF IInv
<1>2. QED
  BY <1>1, KernelInvariant, PTL

(* Whatever the kernel, its loops, the size of the CRF and the spacing of  *)
(* the commands, a kernel that is over has decoded each instruction as     *)
(* often as its loops say.                                                 *)
THEOREM TripCountsHold == Spec => []TripCount
<1>1. IInv => TripCount
  BY DEF IInv
<1>2. QED
  BY <1>1, KernelInvariant, PTL

(* Between kernels the PC is 0 and the loop register is free. *)
THEOREM LoopRegisterFree == Spec => []NoStaleLoop
<1>1. IInv => NoStaleLoop
  BY DEF IInv
<1>2. QED
  BY <1>1, KernelInvariant, PTL

(* In the middle of a kernel, every entry has been decoded as often as the *)
(* PC and the jumps left say.                                              *)
THEOREM CountsFollow == Spec => []InProgress
<1>1. IInv => InProgress
  BY DEF IInv
<1>2. QED
  BY <1>1, KernelInvariant, PTL
=============================================================================
