----------------------------- MODULE KernelRun -----------------------------
(***************************************************************************)
(* A control unit that a host loads with a kernel and then triggers, one   *)
(* RD/WR command per instruction, with any number of idle cycles between.  *)
(* What the unit promises the host is a trip count: a JUMP d n runs the    *)
(* d instructions before it n + 1 times, everything else runs once, and    *)
(* after the EXIT nothing of the loop is left for the next kernel.         *)
(***************************************************************************)
EXTENDS ControlUnit

CONSTANT Words   \* the instruction words the host writes
ASSUME WordsAssumption == Words \subseteq Word

VARIABLES
  phase,     \* the host is loading ("load"), triggering ("run") or has seen
             \* a kernel through ("done")
  executed   \* history: how often each entry was decoded in this kernel

vars == <<crf, pc, nop_cnt, jmp_act, jmp_cnt, phase, executed>>

None == [i \in CrfIndex |-> 0]

Init == CuInit /\ phase = "load" /\ executed = None

(* The host resets the core at any moment. *)
HostReset == Reset /\ phase' = "load" /\ executed' = None

(* The host writes a word between kernels only. *)
Load ==
  /\ phase # "run"
  /\ \E i \in CrfIndex, w \in Words : WriteCrf(i, w)
  /\ phase' = "load"
  /\ executed' = None

Wait == Idle /\ UNCHANGED <<phase, executed>>

(* The decoded instruction is the kernel's last: EXIT, or the last entry   *)
(* of the CRF unless it jumps back.                                        *)
LastDecoded == \/ Fetched.op = "EXIT"
               \/ pc = CrfEntries - 1 /\ ~jmp_act'

Run ==
  /\ \E e \in 0 .. CrfEntries : WellFormed(crf, e)
  /\ Trigger
  /\ IF nop_cnt # 0
     THEN UNCHANGED <<phase, executed>>
     ELSE /\ phase' = IF LastDecoded THEN "done" ELSE "run"
          /\ executed' = [(IF phase = "run" THEN executed ELSE None)
                             EXCEPT ![pc] = @ + 1]

Next == HostReset \/ Load \/ Wait \/ Run

(* The host keeps sending commands to a kernel it has started. *)
Spec == Init /\ [][Next]_vars /\ WF_vars(phase = "run" /\ Run)

-----------------------------------------------------------------------------
TypeOK ==
  /\ ControlUnitTypeOK
  /\ phase \in {"load", "run", "done"}
  /\ executed \in [CrfIndex -> 0 .. Imm1Mod]

(* The counts of a program that ends at e: an entry is decoded once more   *)
(* than its loop jumps, once when it is in no loop, never behind the end.  *)
Complete(e) ==
  \A i \in CrfIndex :
    /\ i > e => executed[i] = 0
    /\ i <= e => \/ /\ \A j \in CrfIndex : j < e => ~InLoop(crf, i, j)
                   /\ executed[i] = 1
                \/ \E j \in CrfIndex : /\ j < e /\ InLoop(crf, i, j)
                                        /\ executed[i] = crf[j].imm1 + 1

(* When a kernel is over, every instruction of it has been decoded exactly *)
(* as often as its loops say, whatever the spacing of the commands         *)
(* (OP_JUMP of instr_decoder.cpp together with pc_unit.cpp).               *)
TripCount ==
  phase = "done" => \A e \in 0 .. CrfEntries : WellFormed(crf, e) => Complete(e)

(* Between kernels the PC is back at 0 and no loop is left in the loop     *)
(* register: OP_EXIT resets the PC alone, so a loop that were still active *)
(* would give the next kernel's first JUMP the wrong count.                *)
NoStaleLoop == phase # "run" => pc = 0 /\ ~jmp_act /\ jmp_cnt = 0

(* A kernel that has started ends, in spite of the commands it ignores     *)
(* during NOPs.                                                            *)
KernelEnds == (phase = "run") ~> (phase # "run")

-----------------------------------------------------------------------------
(* The inductive invariant behind TripCount.  Base is the history of the   *)
(* kernel in progress, or the empty one before its first instruction.      *)
Base == IF phase = "run" THEN executed ELSE None

(* Times entry i of the loop closed at j has been decoded when the PC is   *)
(* where it is: the finished passes and, below the PC, the current one.    *)
PassesIn(i, j) ==
  IF pc > j THEN crf[j].imm1 + 1
  ELSE (IF jmp_act /\ InLoop(crf, pc, j) THEN crf[j].imm1 - jmp_cnt ELSE 0)
       + (IF i < pc THEN 1 ELSE 0)

Progress(e) ==
  /\ pc <= e /\ pc \in CrfIndex
  /\ jmp_act => \E j \in CrfIndex : j < e /\ InLoop(crf, pc, j) /\ jmp_cnt < crf[j].imm1
  /\ ~jmp_act => jmp_cnt = 0
  /\ \A i \in CrfIndex :
       /\ \A j \in CrfIndex : (j < e /\ InLoop(crf, i, j)) => Base[i] = PassesIn(i, j)
       /\ (\A j \in CrfIndex : j < e => ~InLoop(crf, i, j)) =>
             Base[i] = IF i < pc THEN 1 ELSE 0

(* Every kernel in progress is where the counts say. *)
InProgress == \A e \in 0 .. CrfEntries : WellFormed(crf, e) => Progress(e)

IInv == TypeOK /\ NoStaleLoop /\ TripCount /\ InProgress
=============================================================================
