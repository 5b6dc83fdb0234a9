---------------------------- MODULE RfWritePort ----------------------------
(***************************************************************************)
(* What a host that writes the register files of a core may rely on: a     *)
(* write reaches its register whole and at once, some cycles after it was  *)
(* accepted, or, if the host abandons it, not at all; and there is at most *)
(* one write under way.                                                    *)
(***************************************************************************)
CONSTANTS
  Registers,    \* the registers that can be written
  Words,        \* the words that can be written to them
  InitialRegs,  \* their contents after reset
  NoWrite       \* no write is under way

VARIABLES
  regs,      \* contents of the registers
  pending    \* the accepted write that has not reached its register

vars == <<regs, pending>>

Init == regs = InitialRegs /\ pending = NoWrite

Accept(r, w) ==
  /\ pending = NoWrite
  /\ pending' = [reg |-> r, word |-> w]
  /\ UNCHANGED regs

WriteAtOnce(r, w) ==
  /\ pending = NoWrite
  /\ regs' = [regs EXCEPT ![r] = w]
  /\ UNCHANGED pending

Commit ==
  /\ pending # NoWrite
  /\ regs' = [regs EXCEPT ![pending.reg] = pending.word]
  /\ pending' = NoWrite

Abandon ==
  /\ pending # NoWrite
  /\ pending' = NoWrite
  /\ UNCHANGED regs

Next ==
  \/ \E r \in Registers, w \in Words : Accept(r, w) \/ WriteAtOnce(r, w)
  \/ Commit
  \/ Abandon

Spec == Init /\ [][Next]_vars
=============================================================================
