----------------------------- MODULE CoreBench -----------------------------
(***************************************************************************)
(* A core on its testbench, next to the reference of module DataIsa.  The  *)
(* tests of the driver run one after the other on the same core, each from *)
(* what the one before has left in it.                                     *)
(***************************************************************************)
EXTENDS ImcCore, ImcDriver

ASSUME CoreBenchAssumption ==
  BeatsPerGrf = DqClk /\ MultStages = MULT_STAGES /\ AddStages = ADD_STAGES

VARIABLES
  test,      \* the test that runs
  cycle,     \* its cycles so far
  decoded,   \* how often it has made the core decode every operation
  out,       \* words the core drove on the bank buses in the last cycle
  ref,       \* reference: the registers
  refOut     \* reference: the words stored

vars == <<coreVars, test, cycle, decoded, out, ref, refOut>>

-----------------------------------------------------------------------------
None == Count(0, 0, 0, 0, 0, 0, 0, 0)
NoStore == [b \in Banks |-> <<>>]

Init ==
  /\ ImcInit
  /\ test = 1 /\ cycle = 0 /\ decoded = None
  /\ out = NoStore
  /\ ref = regs /\ refOut = NoStore

Pins == Tests[test].pins[cycle + 1]

(* The pins of the cycle to come; after the last test they are off. *)
PinsToCome ==
  IF cycle + 2 <= Len(Tests[test].pins) THEN Tests[test].pins[cycle + 2]
  ELSE IF test < Len(Tests) THEN Tests[test + 1].pins[1]
  ELSE Off

OpDecoded == IF Fetched.op = "EXE" THEN Fetched.data.op ELSE Fetched.op

Reference(p, next) ==
  IF Executes(p)
  THEN /\ ref' = Executed(ref, Fetched.data, AamAddr(p),
                          [EVEN_BANK |-> next.even, ODD_BANK |-> next.odd])
       /\ refOut' = StoredWords(ref, Fetched.data)
  ELSE /\ ref' = IF Accesses(p) /\ p.row # "CRF"
                 THEN [ref EXCEPT ![p.row][p.col] = DataOut(p.dq)[1]] ELSE ref
       /\ refOut' = NoStore

Step ==
  /\ cycle < Len(Tests[test].pins)
  /\ cycle' = cycle + 1
  /\ CoreCycle(Pins, PinsToCome)
  /\ out' = Driven(Now(Issued(Pins)))
  /\ decoded' = IF Decodes(Pins) /\ nop_cnt = 0
                THEN [decoded EXCEPT ![OpDecoded] = @ + 1] ELSE decoded
  /\ Reference(Pins, PinsToCome)
  /\ UNCHANGED test

NextTest ==
  /\ cycle = Len(Tests[test].pins)
  /\ test < Len(Tests)
  /\ test' = test + 1 /\ cycle' = 0 /\ decoded' = None
  /\ UNCHANGED <<coreVars, out, ref, refOut>>

Next == Step \/ NextTest

Spec == Init /\ [][Next]_vars

-----------------------------------------------------------------------------
TypeOK ==
  /\ \A e \in CrfIndex : crf[e].op \in Operations
  /\ pc \in 0 .. PcMod - 1 /\ nop_cnt \in 0 .. NopMod - 1
  /\ jmp_act \in BOOLEAN /\ jmp_cnt \in 0 .. JmpMod - 1
  /\ grf_wr_cnt \in 0 .. DqClk - 1
  /\ DataPathTypeOK
  /\ test \in DOMAIN Tests /\ cycle \in 0 .. Len(Tests[test].pins)
  /\ ref \in RegisterFiles

(* The core from the pins on computes what its instructions say: whenever  *)
(* nothing is under way in the pipelines, the registers hold what the      *)
(* host's writes and the instructions decoded would have left one by one.  *)
Retired == ctl = {} => regs = ref

(* The words on the bank buses are those the program stores, in the cycle  *)
(* of the command, and there are none else.                                *)
Stored == out = refOut

(* At the end of a test the core has decoded what the test's heading       *)
(* announces, no more and no less, although nothing but the number of      *)
(* commands and the NOPs keep driver and program together; and it is ready *)
(* for the next program.                                                   *)
AsAnnounced ==
  cycle = Len(Tests[test].pins) =>
    /\ decoded = Tests[test].announced
    /\ pc = 0 /\ nop_cnt = 0 /\ ~jmp_act
    /\ NoTransfer
    /\ ctl = {}
=============================================================================
