------------------------------ MODULE DataRun ------------------------------
(***************************************************************************)
(* A core under a stream of commands, next to the reference of module      *)
(* DataIsa.  Every command is a data instruction that the control unit has *)
(* fetched, or a write of the host to a register.  The commands come as    *)
(* close as the DRAM timing lets them, so the tail of one instruction      *)
(* overlaps the next ones in the pipelines.                                *)
(***************************************************************************)
EXTENDS DataPath

CONSTANTS
  Instructions,  \* the data instructions a command may execute
  Columns,       \* the addresses an aligned instruction may come with
  BankWords,     \* the words a bank may hold
  HostWords,     \* the words the host may write
  Loaded,        \* the registers as the host has loaded them at first
  Gap,           \* Gap[<<c, d>>]: fewest cycles from a command c to the next, d
  MaxCommands    \* bound: commands in a behaviour

Commands == {"RD", "WR"}

(* The last stage of an instruction that loads is 1 + MULT_STAGES +        *)
(* ADD_STAGES cycles behind its command.                                   *)
Settled == 2 + MULT_STAGES + ADD_STAGES

(* Commands that read are further apart than the two arithmetic units are  *)
(* long (in the core as it is built, nCCDL = 3 cycles against 2), and the  *)
(* bus takes longer to turn round than an instruction to finish.           *)
ASSUME DataRunAssumption ==
  /\ Instructions \subseteq DataInstructions /\ \A i \in Instructions : Supported(i)
  /\ Columns \subseteq [src : Index, dst : Index]
  /\ Loaded \in RegisterFiles
  /\ BankWords \subseteq Lane /\ HostWords \subseteq Lane
  /\ Gap \in [Commands \X Commands -> Nat \ {0}]
  /\ Gap[<<"RD", "RD">>] > MULT_STAGES + ADD_STAGES
  /\ Gap[<<"RD", "WR">>] >= Settled
  /\ MaxCommands \in Nat

VARIABLES
  last,      \* the command last given
  since,     \* cycles since then, up to Settled or the longest gap
  issued,    \* commands given
  out,       \* words the core drove on the bank buses in the last cycle
  ref,       \* reference: the registers
  refOut     \* reference: the words stored

vars == <<dpVars, last, since, issued, out, ref, refOut>>

-----------------------------------------------------------------------------
LongestGap == CHOOSE g \in {Gap[c] : c \in Commands \X Commands} \cup {Settled} :
                \A h \in {Gap[c] : c \in Commands \X Commands} \cup {Settled} : h <= g

NoStore == [b \in Banks |-> <<>>]

Init ==
  /\ DpInit(Loaded)
  /\ last = "WR" /\ since = LongestGap /\ issued = 0
  /\ out = NoStore
  /\ ref = Loaded /\ refOut = NoStore

(* A store is triggered by a WR, everything else by a RD. *)
CommandOf(i) == IF Stores(i) THEN "WR" ELSE "RD"

(* An instruction that does not load reads its registers one cycle sooner  *)
(* than one that does, so a kernel leaves room before it: a NOP.           *)
Ready(i) ==
  /\ since >= Gap[<<last, CommandOf(i)>>]
  /\ ~Loads(i) /\ ~Stores(i) => since >= Settled

Given(cmd) ==
  /\ issued < MaxCommands
  /\ issued' = issued + 1
  /\ last' = cmd
  /\ since' = 1

Execute(i, col, word) ==
  /\ Ready(i)
  /\ Given(CommandOf(i))
  /\ Cycle(DecodeData(i, col), 0,
           [b \in Banks |-> IF b \in {i.src0, i.src1} THEN word ELSE 0])
  /\ out' = Driven(Now(DecodeData(i, col)))
  /\ ref' = Executed(ref, i, col, [b \in Banks |-> word])
  /\ refOut' = StoredWords(ref, i)

(* The last beat of a write of the host. *)
HostWrite(file, n, word) ==
  /\ since >= Gap[<<last, "WR">>]
  /\ Given("WR")
  /\ Cycle(WriteReg(0, file, n, Mux.EXT), word, NoWord)
  /\ out' = Driven(Now(WriteReg(0, file, n, Mux.EXT)))
  /\ ref' = [ref EXCEPT ![file][n] = word]
  /\ refOut' = NoStore

Quiet ==
  /\ Cycle({}, 0, NoWord)
  /\ since' = IF since < LongestGap THEN since + 1 ELSE since
  /\ out' = Driven(Now({}))
  /\ refOut' = NoStore
  /\ UNCHANGED <<last, issued, ref>>

Next ==
  \/ \E i \in Instructions, col \in Columns, word \in BankWords : Execute(i, col, word)
  \/ \E file \in Grf \cup Srf, word \in HostWords :
       \E n \in Entries(file) : HostWrite(file, n, word)
  \/ Quiet

Spec == Init /\ [][Next]_vars

-----------------------------------------------------------------------------
TypeOK ==
  /\ DataPathTypeOK
  /\ last \in Commands /\ since \in 1 .. LongestGap /\ issued \in 0 .. MaxCommands
  /\ ref \in RegisterFiles

(* Whatever instructions overlapped on their way through the pipelines,    *)
(* once nothing is under way the registers hold what executing them one    *)
(* after the other would have left.                                        *)
Retired == ctl = {} => regs = ref

(* A word stored to a bank is the one the program means, although the      *)
(* instructions that computed it may have been given only just before.     *)
Stored == out = refOut

(* The shift registers of the decoder are ORed without arbitration: no two *)
(* instructions may drive a signal to different values in one cycle, the   *)
(* one that can be decoded next included.                                  *)
OneDriver ==
  \A i \in Instructions, col \in Columns :
    Ready(i) =>
      LET under == ctl \cup DecodeData(i, col)
      IN \A x, y \in under : (x[1] = y[1] /\ x[2] = y[2]) => x[3] = y[3]
=============================================================================
