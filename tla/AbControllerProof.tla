-------------------------- MODULE AbControllerProof --------------------------
(***************************************************************************)
(* Proofs about the controller, for every standard that meets TimingOK and *)
(* any number of requests, banks, rows and refreshes.                      *)
(*                                                                         *)
(* The order of service is not inductive by itself: reads and writes wait  *)
(* in different queues, an activated request waits in a third, and what    *)
(* keeps a younger request from overtaking it is that its own command is   *)
(* ready before its row can be closed.  So the invariant relates the       *)
(* queues, the mode and the timers to the next request due.                *)
(***************************************************************************)
EXTENDS AbController, TLAPS, FiniteSetTheorems, SequenceTheorems,
        WellFoundedInduction

Due == column + 1   \* the request whose turn it is

(* Exactly the requests not served yet wait, each in a queue of its type.  *)
Waiting ==
  /\ readq \cup writeq \cup actq = Due .. Len(req)
  /\ \A i \in readq : req[i].type = "RD"
  /\ \A i \in writeq : req[i].type = "WR"
  /\ actq \cap (readq \cup writeq) = {}

(* An activated request is the one due, it holds the mode, and its command *)
(* is ready no later than a command that closes its row.                   *)
Activated ==
  actq # {} =>
    /\ actq = {Due}
    /\ wm_blocked
    /\ write_mode = (req[Due].type = "WR")
    /\ \E e \in rowtable : e.row = req[Due].row
    /\ left[req[Due].type] <= left["PRE"]
    /\ left[req[Due].type] <= left["PREA"]

(* A row nobody has accessed yet belongs to the activated request, and     *)
(* only an activated request blocks the mode.                              *)
Untouched ==
  /\ \A e \in rowtable : ~e.hit => actq # {}
  /\ wm_blocked => actq # {}

(* The timers of the accesses never run much longer than those of the row  *)
(* commands.                                                               *)
Timers ==
  \A k \in Access :
    /\ \A p \in {"PRE", "PREA"} : rowtable # {} =>
         left[k] <= left[p] + tm.gap[p]["ACT"] + tm.gap["ACT"]["PRE"]
    /\ rowtable = {} => left[k] <= left["ACT"] + tm.gap["ACT"]["PRE"]

(* The mode is that of the request due, unless that one has just come in.  *)
ModeRight ==
  actq = {} /\ Due <= Len(req) /\ (sent => Due < Len(req))
    => write_mode = (req[Due].type = "WR")

(* Every refresh waiting has been counted. *)
Counted == otherq <= refreshes

IInv == TypeOK /\ BanksAgree /\ Waiting /\ Activated /\ Untouched /\ Timers
          /\ ModeRight /\ Counted

-----------------------------------------------------------------------------
(* The head of a queue is the request that came first.                     *)
LEMMA OldestIs ==
  ASSUME NEW queue \in SUBSET Nat, NEW i \in queue, \A j \in queue : i <= j
  PROVE  Oldest(queue) = i
<1>1. \E k \in queue : \A j \in queue : k <= j
  OBVIOUS
<1>2. Oldest(queue) \in queue /\ \A j \in queue : Oldest(queue) <= j
  BY <1>1, Zenon DEF Oldest
<1>3. Oldest(queue) <= i /\ i <= Oldest(queue) /\ Oldest(queue) \in Nat
  BY <1>2
<1>4. QED
  BY <1>3

LEMMA OldestIn ==
  ASSUME NEW queue \in SUBSET Nat, queue # {}
  PROVE  Oldest(queue) \in queue /\ \A j \in queue : Oldest(queue) <= j
<1> DEFINE Before == OpToRel(<, Nat)
<1>1. \A a, b \in Nat : a < b => <<a, b>> \in Before
  BY DEF OpToRel
<1> HIDE DEF Before
<1>2. PICK i \in queue : \A j \in queue : ~ (<<j, i>> \in Before)
  <2>1. IsWellFoundedOn(Before, Nat)
    BY NatLessThanWellFounded DEF Before
  <2>2. QED
    BY <2>1, WFMin
<1>3. ASSUME NEW j \in queue PROVE i <= j
  <2>1. i \in Nat /\ j \in Nat /\ ~ (<<j, i>> \in Before)
    BY <1>2
  <2>2. ~ (j < i)
    BY <1>1, <2>1
  <2>3. QED
    BY <2>1, <2>2
<1>4. QED
  BY <1>3, OldestIs

(* Every request is one of a bank and a row. *)
LEMMA RequestTypes ==
  ASSUME TypeOK, NEW i \in 1 .. Len(req)
  PROVE  req[i] \in Requests /\ req[i] \in Request /\ req[i].type \in Access
         /\ req[i].bank \in Banks /\ req[i].row \in Rows
BY RequestsAssumption DEF TypeOK, Request

(* The standard of the channel is one of those considered. *)
LEMMA TimingTypes ==
  ASSUME TypeOK
  PROVE  /\ TimingOK(tm)
         /\ \A c, d \in Cmd : tm.gap[c][d] \in Nat
BY TimingAssumption DEF TypeOK, TimingOK

(* What a request needs first follows from the row table. *)
LEMMA FirstCommandIs ==
  ASSUME TypeOK, BanksAgree, NEW i \in 1 .. Len(req)
  PROVE  /\ rowtable = {} => FirstCommand(i) = "ACT"
         /\ \A e \in rowtable :
              /\ rowtable = {e}
              /\ FirstCommand(i) = IF e.row = req[i].row THEN req[i].type
                                   ELSE "PRE"
<1>1. req[i].bank \in Banks
  BY RequestTypes
<1>2. QED
  BY <1>1 DEF BanksAgree, FirstCommand

LEMMA RefreshCommandIs ==
  ASSUME TypeOK, BanksAgree, Banks # {}
  PROVE  RefreshCommand = IF rowtable = {} THEN "REF" ELSE "PREA"
BY DEF BanksAgree, RefreshCommand


-----------------------------------------------------------------------------
Chosen == IF Mode THEN writeq ELSE readq   \* the queue of the mode

(* The activated request needs nothing but its column command. *)
LEMMA ActivatedIsDue ==
  ASSUME IInv, actq # {}
  PROVE  /\ Due \in 1 .. Len(req) /\ Oldest(actq) = Due
         /\ FirstCommand(Due) = req[Due].type
         /\ rowtable # {}
         /\ Mode = write_mode
<1>1. actq = {Due} /\ wm_blocked /\ \E e \in rowtable : e.row = req[Due].row
  BY DEF IInv, Activated
<1>2. Due \in 1 .. Len(req)
  BY <1>1 DEF IInv, TypeOK
<1>3. Oldest(actq) = Due
  <2>1. actq \in SUBSET Nat /\ Due \in actq /\ \A j \in actq : Due <= j
    BY <1>1, <1>2
  <2>2. QED
    BY <2>1, OldestIs
<1>4. FirstCommand(Due) = req[Due].type
  BY <1>1, <1>2, FirstCommandIs DEF IInv
<1>5. Mode = write_mode
  BY <1>1 DEF Mode
<1>6. QED
  BY <1>1, <1>2, <1>3, <1>4, <1>5

(* While its command has to wait, so has everything else: closing the row, *)
(* and the requests of its type, which are the only ones looked at.        *)
LEMMA NothingOvertakes ==
  ASSUME IInv, actq # {}, ~ActReady
  PROVE  /\ ~Ready(RefreshCommand)
         /\ Chosen # {} => ~Ready(FirstCommand(Oldest(Chosen)))
<1>1. /\ Due \in 1 .. Len(req) /\ rowtable # {} /\ Mode = write_mode
      /\ left[req[Due].type] # 0
  BY ActivatedIsDue DEF ActReady, Ready
<1>2. req[Due].type \in Access /\ req[Due].bank \in Banks
  BY <1>1, RequestTypes DEF IInv
<1>3. left["PRE"] # 0 /\ left["PREA"] # 0
  <2>1. /\ left[req[Due].type] <= left["PRE"]
        /\ left[req[Due].type] <= left["PREA"]
    BY DEF IInv, Activated
  <2>2. left[req[Due].type] \in Nat /\ left["PRE"] \in Nat /\ left["PREA"] \in Nat
    BY <1>2 DEF IInv, TypeOK, Cmd, Access
  <2>3. QED
    BY <1>1, <2>1, <2>2
<1>4. ~Ready(RefreshCommand)
  BY <1>1, <1>2, <1>3, RefreshCommandIs DEF IInv, Ready
<1>5. ASSUME Chosen # {} PROVE ~Ready(FirstCommand(Oldest(Chosen)))
  <2>1. Chosen \subseteq 1 .. Len(req) /\ Chosen \in SUBSET Nat
    BY DEF IInv, TypeOK, Chosen
  <2>2. Oldest(Chosen) \in Chosen
    BY <1>5, <2>1, OldestIn
  <2>3. Oldest(Chosen) \in 1 .. Len(req)
    BY <2>1, <2>2
  <2>4. req[Oldest(Chosen)].type = req[Due].type
    BY <1>1, <1>2, <2>2 DEF IInv, Waiting, Activated, Chosen, Access
  <2>5. FirstCommand(Oldest(Chosen)) \in {req[Due].type, "PRE"}
    BY <1>1, <2>3, <2>4, FirstCommandIs DEF IInv
  <2>6. QED
    BY <1>1, <1>3, <2>5 DEF Ready
<1>6. QED
  BY <1>4, <1>5

(* With no row activated, the queue of the mode is that of the request due *)
(* and has it at its head.                                                 *)
LEMMA ChosenIsDue ==
  ASSUME IInv, actq = {}
  PROVE  /\ ~wm_blocked
         /\ Chosen # {} => Due \in 1 .. Len(req)
         /\ Due <= Len(req) => /\ Chosen # {} /\ Oldest(Chosen) = Due
                               /\ Mode = (req[Due].type = "WR")
<1>1. ~wm_blocked
  BY DEF IInv, Untouched
<1>2. readq \cup writeq = Due .. Len(req)
  BY DEF IInv, Waiting
<1>3. Due \in Nat /\ Due >= 1 /\ Len(req) \in Nat
  BY DEF IInv, TypeOK, Due
<1>4. Chosen # {} => Due \in 1 .. Len(req)
  BY <1>2, <1>3 DEF Chosen
<1>5. ASSUME Due <= Len(req)
      PROVE  /\ Chosen # {} /\ Oldest(Chosen) = Due
             /\ Mode = (req[Due].type = "WR")
  <2>1. Due \in readq \/ Due \in writeq
    BY <1>2, <1>3, <1>5
  <2>2. Mode = (req[Due].type = "WR")
    <3>1. CASE readq = {} \/ writeq = {}
      BY <1>1, <2>1, <3>1 DEF Mode, IInv, Waiting
    <3>2. CASE readq # {} /\ writeq # {}
      <4>1. PICK r \in readq, w \in writeq : TRUE
        BY <3>2
      <4>2. r # w /\ r \in Due .. Len(req) /\ w \in Due .. Len(req)
        BY <1>2, <4>1 DEF IInv, Waiting
      <4>3. Due < Len(req)
        BY <1>3, <4>2
      <4>4. QED
        BY <1>5, <3>2, <4>3 DEF IInv, ModeRight, Mode
    <3>3. QED
      BY <3>1, <3>2
  <2>3. Due \in Chosen
    BY <2>1, <2>2 DEF Chosen, IInv, Waiting
  <2>4. Chosen \subseteq Due .. Len(req) /\ Chosen \in SUBSET Nat
    BY <1>2, <1>3 DEF Chosen
  <2>5. \A j \in Chosen : Due <= j
    BY <1>3, <2>4
  <2>6. QED
    BY <2>2, <2>3, <2>4, <2>5, OldestIs
<1>6. QED
  BY <1>1, <1>4, <1>5

-----------------------------------------------------------------------------
(* The cycles that can happen, each for the request due: its column        *)
(* command after an activation or in a row found open, the closing of the  *)
(* row in its way, the activation of its own, a refresh, or nothing.       *)
ServeActivated ==
  /\ actq = {Due} /\ Due \in 1 .. Len(req)
  /\ Ready(req[Due].type) /\ Complete(Due, write_mode, FALSE)
ServeOpen ==
  /\ actq = {} /\ Due \in 1 .. Len(req)
  /\ Ready(req[Due].type) /\ Complete(Due, req[Due].type = "WR", FALSE)
Close ==
  /\ actq = {} /\ Due \in 1 .. Len(req)
  /\ Ready("PRE") /\ Precharge(Due, req[Due].type = "WR", FALSE)
Open ==
  /\ actq = {} /\ Due \in 1 .. Len(req) /\ rowtable = {}
  /\ Ready("ACT") /\ Activate(Due)
DoRefresh == actq = {} /\ \E other \in Nat \ {0} : Refresh(other)
DoIdle == \E other \in Nat : Idle(other)

Cycle == ServeActivated \/ ServeOpen \/ Close \/ Open \/ DoRefresh \/ DoIdle

(* What every cycle does besides. *)
Frame ==
  /\ refreshes' \in 0 .. MaxRefresh
  /\ otherq' \in Nat /\ otherq' <= refreshes'
  /\ sent' = FALSE
  /\ spacing' = IF column' # column THEN 1
                ELSE IF spacing < Enough THEN spacing + 1 ELSE spacing
  /\ UNCHANGED <<tm, req>>

(* A request is scheduled for its first command. *)
LEMMA ScheduleCases ==
  ASSUME TypeOK, BanksAgree, NEW i \in 1 .. Len(req), NEW m, NEW b,
         Schedule(i, m, b)
  PROVE  \/ Ready("PRE") /\ Precharge(i, m, b)
         \/ Ready("ACT") /\ rowtable = {} /\ Activate(i)
         \/ Ready(req[i].type) /\ Complete(i, m, b)
<1>1. CASE Precharge(i, m, b)
  BY <1>1 DEF Schedule, Precharge
<1>2. CASE Activate(i)
  <2>1. FirstCommand(i) = "ACT" /\ Ready("ACT")
    BY <1>2 DEF Schedule, Activate
  <2>2. ASSUME rowtable # {} PROVE FALSE
    <3>1. req[i].type \in {"RD", "WR"}
      BY RequestTypes DEF Access
    <3>2. QED
      BY <2>1, <2>2, <3>1, FirstCommandIs
  <2>3. QED
    BY <1>2, <2>1, <2>2
<1>3. CASE Complete(i, m, b)
  BY <1>3 DEF Schedule, Complete
<1>4. QED
  BY <1>1, <1>2, <1>3 DEF Schedule

LEMMA TickCases ==
  ASSUME IInv, Tick
  PROVE  Cycle /\ Frame
<1>1. PICK due \in {0, 1} : Tick!(due)
  BY DEF Tick
<1> DEFINE other == otherq + due
<1>2. /\ refreshes' = refreshes + due /\ refreshes' \in 0 .. MaxRefresh
      /\ other \in Nat /\ other <= refreshes'
  BY <1>1, BoundsAssumption DEF IInv, TypeOK, Counted
<1>3. CASE ActReady /\ Schedule(Oldest(actq), Mode, FALSE) /\ otherq' = other
  <2>1. actq # {}
    BY <1>3 DEF ActReady
  <2>2. /\ actq = {Due} /\ Due \in 1 .. Len(req) /\ Oldest(actq) = Due
        /\ FirstCommand(Due) = req[Due].type /\ Mode = write_mode
        /\ rowtable # {} /\ req[Due].type \in {"RD", "WR"}
    BY <2>1, ActivatedIsDue, RequestTypes DEF IInv, Activated, Access
  <2>3. Schedule(Due, write_mode, FALSE)
    BY <1>3, <2>2
  <2>4. Ready(req[Due].type) /\ Complete(Due, write_mode, FALSE)
    BY <2>2, <2>3 DEF Schedule, Precharge, Activate
  <2>5. Frame
    BY <1>1, <1>2, <1>3 DEF Frame
  <2>6. QED
    BY <2>2, <2>4, <2>5 DEF Cycle, ServeActivated
<1>4. CASE ~ActReady /\ other > 0 /\ Refresh(other)
  <2>1. actq = {}
    BY <1>4, NothingOvertakes DEF Refresh
  <2>2. otherq' \in Nat /\ otherq' <= refreshes'
    BY <1>2, <1>4 DEF Refresh
  <2>3. Frame
    BY <1>1, <1>2, <2>2 DEF Frame
  <2>4. QED
    BY <1>2, <1>4, <2>1, <2>3 DEF Cycle, DoRefresh
<1>5. CASE /\ ~ActReady /\ other = 0 /\ Chosen # {}
           /\ Schedule(Oldest(Chosen), Mode, wm_blocked) /\ otherq' = other
  <2>1. actq = {}
    BY <1>5, NothingOvertakes DEF Schedule
  <2>2. /\ Due \in 1 .. Len(req) /\ Oldest(Chosen) = Due /\ ~wm_blocked
        /\ Mode = (req[Due].type = "WR")
    BY <1>5, <2>1, ChosenIsDue DEF IInv, TypeOK
  <2>3. wm_blocked = FALSE
    BY <2>2 DEF IInv, TypeOK
  <2>4. Schedule(Due, req[Due].type = "WR", FALSE)
    BY <1>5, <2>2, <2>3
  <2>5. Close \/ Open \/ ServeOpen
    BY <2>1, <2>2, <2>4, ScheduleCases DEF IInv, Close, Open, ServeOpen
  <2>6. Frame
    BY <1>1, <1>2, <1>5 DEF Frame
  <2>7. QED
    BY <2>5, <2>6 DEF Cycle
<1>6. CASE Idle(other)
  <2>1. Frame
    BY <1>1, <1>2, <1>6 DEF Frame, Idle
  <2>2. QED
    BY <1>2, <1>6, <2>1 DEF Cycle, DoIdle
<1>7. QED
  BY <1>1, <1>3, <1>4, <1>5, <1>6 DEF Chosen

-----------------------------------------------------------------------------
(* What a command, or a cycle without one, does to timers and rows.        *)
LEMMA WaitsValue ==
  ASSUME TypeOK, NEW c \in Cmd, NEW d \in Cmd, left' = Waits(c)
  PROVE  /\ left[d] \in Nat /\ left'[d] \in Nat /\ tm.gap[c][d] \in Nat
         /\ left'[d] >= left[d] - 1 /\ left'[d] >= tm.gap[c][d] - 1
         /\ \A n \in Nat : left[d] <= n + 1 /\ tm.gap[c][d] <= n + 1
                             => left'[d] <= n
<1>1. left[d] \in Nat /\ tm.gap[c][d] \in Nat
  BY TimingTypes DEF TypeOK
<1>2. left'[d] = Larger(Larger(left[d], tm.gap[c][d]) - 1, 0)
  BY DEF Waits
<1>3. QED
  BY <1>1, <1>2 DEF Larger

LEMMA CommandTypes ==
  ASSUME TypeOK, NEW c \in Cmd, NEW row, IssueCmd(c, row),
         c = "ACT" => row \in Rows
  PROVE  /\ left' \in [Cmd -> Nat]
         /\ row_state' \in [Banks -> SUBSET Rows]
         /\ rowtable' \subseteq [row : Rows, hit : BOOLEAN]
<1>1. left' \in [Cmd -> Nat]
  <2>1. left' = Waits(c)
    BY DEF IssueCmd
  <2>2. \A d \in Cmd : left'[d] \in Nat
    BY <2>1, WaitsValue
  <2>3. QED
    BY <2>1, <2>2 DEF Waits
<1>2. row_state' \in [Banks -> SUBSET Rows]
  BY DEF TypeOK, IssueCmd, RowStateAfter
<1>3. rowtable' \subseteq [row : Rows, hit : BOOLEAN]
  <2>1. rowtable \subseteq [row : Rows, hit : BOOLEAN]
    BY DEF TypeOK
  <2>2. CASE c = "ACT" /\ rowtable = {}
    BY <2>2 DEF IssueCmd, RowTableAfter
  <2>3. CASE c \in Access
    <3>1. rowtable' = {[e EXCEPT !.hit = TRUE] : e \in rowtable}
      BY <2>3 DEF IssueCmd, RowTableAfter, Access
    <3>2. \A e \in rowtable :
            [e EXCEPT !.hit = TRUE] \in [row : Rows, hit : BOOLEAN]
      BY <2>1
    <3>3. QED
      BY <3>1, <3>2
  <2>4. CASE ~(c = "ACT" /\ rowtable = {}) /\ c \notin Access
    BY <2>1, <2>4 DEF IssueCmd, RowTableAfter
  <2>5. QED
    BY <2>2, <2>3, <2>4
<1>4. QED
  BY <1>1, <1>2, <1>3

(* Which commands the state of the rows allows. *)
Allowed(c) ==
  /\ c \in {"ACT", "REF"} => rowtable = {}
  /\ c \in Access \cup {"PRE", "PREA"} => rowtable # {}

LEMMA CommandRows ==
  ASSUME TypeOK, BanksAgree, NEW c \in Cmd, NEW row, IssueCmd(c, row),
         Allowed(c)
  PROVE  /\ BanksAgree'
         /\ c = "ACT" => rowtable' = {[row |-> row, hit |-> FALSE]}
         /\ c \in {"PRE", "PREA", "REF"} => rowtable' = {}
         /\ c \in Access => /\ rowtable' # {}
                            /\ \A e \in rowtable' : e.hit
<1>1. CASE c = "ACT"
  <2>1. rowtable = {} /\ \A b \in Banks : row_state[b] = {}
    BY <1>1 DEF Allowed, BanksAgree
  <2>2. rowtable' = {[row |-> row, hit |-> FALSE]}
    BY <1>1, <2>1 DEF IssueCmd, RowTableAfter
  <2>3. \A b \in Banks : row_state'[b] = {row}
    BY <1>1, <2>1 DEF IssueCmd, RowStateAfter
  <2>4. QED
    BY <1>1, <2>2, <2>3 DEF BanksAgree, Access
<1>2. CASE c \in {"PRE", "PREA"}
  <2>1. rowtable' = {} /\ \A b \in Banks : row_state'[b] = {}
    BY <1>2 DEF IssueCmd, RowTableAfter, RowStateAfter, Access
  <2>2. QED
    BY <1>2, <2>1 DEF BanksAgree, Access
<1>3. CASE c = "REF"
  <2>1. rowtable' = rowtable /\ row_state' = row_state /\ rowtable = {}
    BY <1>3 DEF IssueCmd, RowTableAfter, RowStateAfter, Allowed, Access
  <2>2. QED
    BY <1>3, <2>1 DEF BanksAgree, Access
<1>4. CASE c \in Access
  <2>1. PICK e \in rowtable : /\ rowtable = {e}
                              /\ \A b \in Banks : row_state[b] = {e.row}
    BY <1>4 DEF Allowed, BanksAgree
  <2>2. rowtable' = {[e EXCEPT !.hit = TRUE]} /\ row_state' = row_state
    BY <1>4, <2>1 DEF IssueCmd, RowTableAfter, RowStateAfter, Access
  <2>3. e \in [row : Rows, hit : BOOLEAN]
    BY <2>1 DEF TypeOK
  <2>4. [e EXCEPT !.hit = TRUE].row = e.row /\ [e EXCEPT !.hit = TRUE].hit = TRUE
    BY <2>3
  <2>5. BanksAgree'
    BY <2>1, <2>2, <2>4 DEF BanksAgree
  <2>6. QED
    BY <1>4, <2>2, <2>4, <2>5 DEF Access
<1>5. QED
  BY <1>1, <1>2, <1>3, <1>4 DEF Cmd, Access

LEMMA CommandTimers ==
  ASSUME TypeOK, BanksAgree, Timers, NEW c \in Cmd, NEW row,
         IssueCmd(c, row), Ready(c), Allowed(c), tm' = tm
  PROVE  /\ Timers'
         /\ c = "ACT" => \A k \in Access : /\ left'[k] <= left'["PRE"]
                                           /\ left'[k] <= left'["PREA"]
<1> DEFINE G == tm.gap
<1>0. left' = Waits(c) /\ left[c] = 0
  BY DEF IssueCmd, Ready
<1>1. TimingOK(tm) /\ \A a, b \in Cmd : G[a][b] \in Nat
  BY TimingTypes
<1>2. \A d \in Cmd : left[d] \in Nat /\ left'[d] \in Nat
  BY <1>0, WaitsValue
<1>3. /\ Access \subseteq Cmd /\ "PRE" \in Cmd /\ "PREA" \in Cmd
      /\ "ACT" \in Cmd /\ "REF" \in Cmd
  BY DEF Cmd
<1>4. ASSUME NEW k \in Access
      PROVE  /\ c = "ACT" => left'[k] <= left'["PRE"] /\ left'[k] <= left'["PREA"]
             /\ c \in {"PRE", "PREA", "REF"} =>
                  left'[k] <= left'["ACT"] + G["ACT"]["PRE"]
             /\ c \in Access => \A p \in {"PRE", "PREA"} :
                  left'[k] <= left'[p] + G[p]["ACT"] + G["ACT"]["PRE"]
  <2>1. CASE c = "ACT"
    <3>1. left[k] <= G["ACT"]["PRE"]
      BY <1>0, <1>1, <1>2, <1>3, <2>1 DEF Timers, Allowed
    <3>2. G["ACT"][k] <= G["ACT"]["PRE"] /\ G["ACT"]["PRE"] = G["ACT"]["PREA"]
      BY <1>1 DEF TimingOK
    <3>3. \A p \in {"PRE", "PREA"} :
            left'[p] >= G["ACT"]["PRE"] - 1 /\ left'[p] \in Nat
      BY <1>0, <1>3, <2>1, <3>2, WaitsValue
    <3>4. \A n \in Nat : G["ACT"]["PRE"] <= n + 1 => left'[k] <= n
      <4>1. \A n \in Nat : left[k] <= n + 1 /\ G["ACT"][k] <= n + 1 => left'[k] <= n
        BY <1>0, <1>3, <2>1, WaitsValue
      <4>2. QED
        BY <1>1, <1>2, <1>3, <3>1, <3>2, <4>1
    <3>5. QED
      BY <1>1, <1>3, <2>1, <3>3, <3>4 DEF Access
  <2>2. CASE c \in {"PRE", "PREA", "REF"}
    <3>1. \/ left[k] <= left["ACT"] + G["ACT"]["PRE"]
          \/ left[k] <= G[c]["ACT"] + G["ACT"]["PRE"]
      <4>1. CASE c = "REF"
        BY <1>1, <1>2, <1>3, <4>1 DEF Timers, Allowed
      <4>2. CASE c \in {"PRE", "PREA"}
        BY <1>0, <1>1, <1>2, <1>3, <4>2 DEF Timers, Allowed
      <4>3. QED
        BY <2>2, <4>1, <4>2
    <3>2. G[c][k] <= G[c]["ACT"] + G["ACT"]["PRE"]
      BY <1>1, <2>2 DEF TimingOK
    <3>3. /\ left'["ACT"] >= G[c]["ACT"] - 1 /\ left'["ACT"] >= left["ACT"] - 1
          /\ left'["ACT"] \in Nat
      BY <1>0, <1>3, WaitsValue
    <3>4. \A n \in Nat : left[k] <= n + 1 /\ G[c][k] <= n + 1 => left'[k] <= n
      BY <1>0, <1>3, WaitsValue
    <3>5. left'[k] <= left'["ACT"] + G["ACT"]["PRE"]
      <4> DEFINE n == left'["ACT"] + G["ACT"]["PRE"]
      <4>1. n \in Nat
        BY <1>1, <1>3, <3>3
      <4>2. left[k] <= n + 1
        BY <1>1, <1>2, <1>3, <3>1, <3>3
      <4>3. G[c][k] <= n + 1
        BY <1>1, <1>3, <3>2, <3>3
      <4>4. QED
        BY <3>4, <4>1, <4>2, <4>3
    <3>6. QED
      BY <2>2, <3>5 DEF Access
  <2>3. CASE c \in Access
    <3>1. ASSUME NEW p \in {"PRE", "PREA"}
          PROVE  left'[k] <= left'[p] + G[p]["ACT"] + G["ACT"]["PRE"]
      <4>1. left[k] <= left[p] + G[p]["ACT"] + G["ACT"]["PRE"]
        BY <2>3 DEF Timers, Allowed
      <4>2. G[c][k] <= G[c][p] + G[p]["ACT"] + G["ACT"]["PRE"]
        BY <1>1, <2>3 DEF TimingOK
      <4>3. /\ left'[p] >= G[c][p] - 1 /\ left'[p] >= left[p] - 1
            /\ left'[p] \in Nat /\ G[p]["ACT"] \in Nat /\ G["ACT"]["PRE"] \in Nat
            /\ left[p] \in Nat /\ left[k] \in Nat /\ G[c][k] \in Nat
            /\ G[c][p] \in Nat
        BY <1>0, <1>1, <1>2, <1>3, WaitsValue
      <4>4. \A n \in Nat : left[k] <= n + 1 /\ G[c][k] <= n + 1 => left'[k] <= n
        BY <1>0, <1>3, WaitsValue
      <4> DEFINE n == left'[p] + G[p]["ACT"] + G["ACT"]["PRE"]
      <4>5. n \in Nat /\ left[k] <= n + 1 /\ G[c][k] <= n + 1
        BY <4>1, <4>2, <4>3
      <4>6. QED
        BY <4>4, <4>5
    <3>2. QED
      BY <2>3, <3>1 DEF Access
  <2>4. QED
    BY <2>1, <2>2, <2>3 DEF Cmd
<1>5. Timers'
  <2>1. /\ c = "ACT" => rowtable' # {}
        /\ c \in {"PRE", "PREA", "REF"} => rowtable' = {}
        /\ c \in Access => rowtable' # {}
    BY CommandRows
  <2>2. ASSUME NEW k \in Access, NEW p \in {"PRE", "PREA"}, c = "ACT"
        PROVE  left'[k] <= left'[p] + G[p]["ACT"] + G["ACT"]["PRE"]
    <3>1. left'[k] <= left'[p]
      BY <1>4, <2>2
    <3>2. /\ left'[k] \in Nat /\ left'[p] \in Nat /\ G[p]["ACT"] \in Nat
          /\ G["ACT"]["PRE"] \in Nat
      BY <1>1, <1>2, <1>3
    <3>3. QED
      BY <3>1, <3>2
  <2>3. QED
    BY <1>4, <2>1, <2>2 DEF Timers, Cmd
<1>6. QED
  BY <1>4, <1>5

LEMMA IdleTimers ==
  ASSUME TypeOK, Timers, left' = Elapsed, UNCHANGED <<tm, rowtable>>
  PROVE  /\ left' \in [Cmd -> Nat]
         /\ Timers'
         /\ \A c, d \in Cmd : left[c] <= left[d] => left'[c] <= left'[d]
<1>1. \A c \in Cmd : /\ left[c] \in Nat /\ left'[c] \in Nat
                     /\ left'[c] = IF left[c] = 0 THEN 0 ELSE left[c] - 1
  BY DEF TypeOK, Elapsed, Larger
<1>2. left' \in [Cmd -> Nat]
  BY <1>1 DEF Elapsed
<1>3. \A c, d \in Cmd : tm.gap[c][d] \in Nat
  BY TimingTypes
<1>4. ASSUME NEW k \in Access, NEW p \in Cmd, NEW n \in Nat, left[k] <= left[p] + n
      PROVE  left'[k] <= left'[p] + n
  BY <1>1, <1>4 DEF Cmd
<1>5. Timers'
  <2>1. ASSUME NEW k \in Access, NEW p \in {"PRE", "PREA"}, rowtable # {}
        PROVE  left'[k] <= left'[p] + tm.gap[p]["ACT"] + tm.gap["ACT"]["PRE"]
    <3>1. left[k] <= left[p] + tm.gap[p]["ACT"] + tm.gap["ACT"]["PRE"]
      BY <2>1 DEF Timers
    <3>2. p \in Cmd /\ k \in Cmd /\ tm.gap[p]["ACT"] \in Nat /\ tm.gap["ACT"]["PRE"] \in Nat
      BY <1>3 DEF Cmd
    <3>3. left[p] \in Nat /\ left[k] \in Nat /\ left'[p] \in Nat /\ left'[k] \in Nat
      BY <1>1, <3>2
    <3>4. left[k] <= left[p] + (tm.gap[p]["ACT"] + tm.gap["ACT"]["PRE"])
      BY <3>1, <3>2, <3>3
    <3>5. left'[k] <= left'[p] + (tm.gap[p]["ACT"] + tm.gap["ACT"]["PRE"])
      BY <1>4, <3>2, <3>4
    <3>6. QED
      BY <3>2, <3>3, <3>5
  <2>2. ASSUME NEW k \in Access, rowtable = {}
        PROVE  left'[k] <= left'["ACT"] + tm.gap["ACT"]["PRE"]
    BY <1>3, <1>4, <2>2 DEF Timers, Cmd
  <2>3. QED
    BY <2>1, <2>2 DEF Timers
<1>6. \A c, d \in Cmd : left[c] <= left[d] => left'[c] <= left'[d]
  BY <1>1
<1>7. QED
  BY <1>2, <1>5, <1>6

-----------------------------------------------------------------------------
(* The type invariant over a cycle, from what the cycle does.              *)
LEMMA ReturnedTypes ==
  ASSUME TypeOK
  PROVE  Returned \in Seq([id : 1 .. Len(req), left : Nat])
<1> DEFINE P == [id : 1 .. Len(req), left : Nat]
<1>1. pending \in Seq(P)
  BY DEF TypeOK
<1> HIDE DEF P
<1>2. Aged \in Seq(P)
  <2>1. ASSUME NEW k \in DOMAIN pending
        PROVE  [pending[k] EXCEPT !.left = Larger(@ - 1, 0)] \in P
    <3>1. pending[k] \in P
      BY <1>1
    <3>2. Larger(pending[k].left - 1, 0) \in Nat
      BY <3>1 DEF Larger, P
    <3>3. QED
      BY <3>1, <3>2 DEF P
  <2>2. DOMAIN pending = 1 .. Len(pending) /\ Len(pending) \in Nat
    BY <1>1
  <2>3. QED
    BY <2>1, <2>2 DEF Aged
<1>3. CASE pending # <<>> /\ Aged[1].left = 0
  <2>1. Aged # <<>>
    BY <1>1, <1>2, <1>3 DEF Aged
  <2>2. Tail(Aged) \in Seq(P)
    BY <1>2, <2>1
  <2>3. QED
    BY <1>3, <2>2 DEF Returned, P
<1>4. QED
  BY <1>2, <1>3 DEF Returned, P

LEMMA QueueShrinks ==
  ASSUME NEW n \in Nat, NEW queue \in SUBSET (1 .. n),
         NEW rest \in SUBSET queue, Cardinality(queue) <= QueueMax
  PROVE  Cardinality(rest) <= QueueMax
<1>1. IsFiniteSet(queue)
  <2>1. IsFiniteSet(1 .. n)
    BY FS_Interval
  <2>2. QED
    BY <2>1, FS_Subset
<1>2. Cardinality(rest) <= Cardinality(queue) /\ IsFiniteSet(rest)
  BY <1>1, FS_Subset
<1>3. Cardinality(rest) \in Nat /\ Cardinality(queue) \in Nat
  BY <1>1, <1>2, FS_CardinalityType
<1>4. QED
  BY <1>2, <1>3, BoundsAssumption

LEMMA CycleTypes ==
  ASSUME TypeOK, Frame,
         readq' \subseteq readq, writeq' \subseteq writeq,
         actq' \subseteq 1 .. Len(req),
         pending' \in Seq([id : 1 .. Len(req), left : Nat]),
         write_mode' \in BOOLEAN, wm_blocked' \in BOOLEAN,
         left' \in [Cmd -> Nat], row_state' \in [Banks -> SUBSET Rows],
         rowtable' \subseteq [row : Rows, hit : BOOLEAN],
         column' \in 0 .. Len(req)
  PROVE  TypeOK' /\ Counted'
<1>1. Len(req) \in Nat
  BY DEF TypeOK
<1>2. Cardinality(readq') <= QueueMax /\ Cardinality(writeq') <= QueueMax
  BY <1>1, QueueShrinks DEF TypeOK
<1>3. spacing' \in 1 .. Enough
  BY DEF TypeOK, Frame, Enough
<1>4. otherq' \in 0 .. MaxRefresh /\ refreshes' \in 0 .. MaxRefresh
  BY BoundsAssumption DEF Frame
<1>5. tm' \in Timings /\ req' = req /\ sent' \in BOOLEAN
  BY DEF Frame, TypeOK
<1>6. readq' \subseteq 1 .. Len(req) /\ writeq' \subseteq 1 .. Len(req)
  BY DEF TypeOK
<1>7. req' \in Seq(Requests) /\ Len(req') <= MaxRequests
  BY <1>5 DEF TypeOK
<1>8. Counted'
  BY DEF Frame, Counted
<1>9. QED
  BY <1>2, <1>3, <1>4, <1>5, <1>6, <1>7, <1>8 DEF TypeOK

(* The modes chosen are Booleans. *)
LEMMA ModeTypes ==
  ASSUME TypeOK, NEW m \in BOOLEAN, NEW rq \in SUBSET Nat, NEW wq \in SUBSET Nat
  PROVE  Mode \in BOOLEAN /\ ModeAfter(m, rq, wq) \in BOOLEAN
<1>1. Mode \in BOOLEAN
  BY DEF TypeOK, Mode
<1>2. CASE rq # {} /\ wq # {}
  <2>1. Oldest(rq) \in Nat /\ Oldest(wq) \in Nat
    BY <1>2, OldestIn
  <2>2. QED
    BY <1>1, <1>2, <2>1 DEF ModeAfter
<1>3. CASE ~(rq # {} /\ wq # {})
  BY <1>1, <1>3 DEF ModeAfter
<1>4. QED
  BY <1>2, <1>3

-----------------------------------------------------------------------------
(* The strengthened invariant over every kind of cycle.                    *)
LEMMA CompleteKeeps ==
  ASSUME IInv, Frame, NEW m \in BOOLEAN, Due \in 1 .. Len(req),
         Ready(req[Due].type), Complete(Due, m, FALSE)
  PROVE  IInv' /\ column' = Due
<1> DEFINE c == req[Due].type
<1>1. /\ c \in Access /\ req[Due].row \in Rows /\ FirstCommand(Due) = c
      /\ IssueCmd(c, req[Due].row) /\ Access \subseteq Cmd
  BY RequestTypes DEF Complete, IInv, Cmd
<1>2. Allowed(c) /\ rowtable # {}
  BY <1>1, FirstCommandIs DEF Allowed, IInv, Access
<1>3. TypeOK /\ BanksAgree /\ Timers /\ tm' = tm /\ req' = req
  BY DEF IInv, Frame
<1>4. column' = Due /\ Due' = Due + 1 /\ Due \in Nat /\ Len(req) \in Nat
  BY <1>3 DEF Complete, Due, TypeOK
<1>5. /\ readq' = readq \ {Due} /\ writeq' = writeq \ {Due}
      /\ actq' = {} /\ wm_blocked' = FALSE
      /\ write_mode' = ModeAfter(m, readq', writeq')
  BY DEF Complete, IInv, Activated
<1>6. /\ readq \cup writeq \cup actq = Due .. Len(req)
      /\ \A i \in readq : req[i].type = "RD"
      /\ \A i \in writeq : req[i].type = "WR"
      /\ actq \subseteq {Due}
  BY DEF IInv, Waiting, Activated
<1>7. readq' \cup writeq' = Due' .. Len(req')
  BY <1>3, <1>4, <1>5, <1>6
<1>8. readq' \in SUBSET Nat /\ writeq' \in SUBSET Nat
  BY <1>5, <1>3 DEF TypeOK
<1>9. TypeOK' /\ Counted'
  <2>1. write_mode' \in BOOLEAN
    BY <1>3, <1>5, <1>8, ModeTypes
  <2>2. pending' \in Seq([id : 1 .. Len(req), left : Nat])
    <3> DEFINE P == [id : 1 .. Len(req), left : Nat]
    <3>1. tm.latency \in Nat
      BY <1>3, TimingTypes DEF TimingOK
    <3>2. [id |-> Due, left |-> tm.latency] \in P
      BY <3>1
    <3>3. Returned \in Seq(P)
      BY <1>3, ReturnedTypes
    <3>4. pending' \in {Append(Returned, [id |-> Due, left |-> tm.latency]), Returned}
      BY DEF Complete
    <3> HIDE DEF P
    <3>5. pending' \in Seq(P)
      BY <3>2, <3>3, <3>4
    <3>6. QED
      BY <3>5 DEF P
  <2>3. /\ left' \in [Cmd -> Nat] /\ row_state' \in [Banks -> SUBSET Rows]
        /\ rowtable' \subseteq [row : Rows, hit : BOOLEAN]
    BY <1>1, <1>3, CommandTypes
  <2>4. column' \in 0 .. Len(req)
    BY <1>4
  <2>5. QED
    BY <1>3, <1>5, <2>1, <2>2, <2>3, <2>4, CycleTypes
<1>10. BanksAgree' /\ rowtable' # {} /\ \A e \in rowtable' : e.hit
  BY <1>1, <1>2, <1>3, CommandRows
<1>11. Timers'
  BY <1>1, <1>2, <1>3, CommandTimers
<1>12. Waiting'
  BY <1>3, <1>5, <1>6, <1>7 DEF Waiting
<1>13. Activated' /\ Untouched'
  BY <1>5, <1>10 DEF Activated, Untouched
<1>14. ModeRight'
  <2>1. SUFFICES ASSUME Due' <= Len(req)
                 PROVE  write_mode' = (req[Due'].type = "WR")
    BY <1>3 DEF ModeRight
  <2>2. Due' \in readq' \/ Due' \in writeq'
    BY <1>3, <1>4, <1>7, <2>1
  <2>3. (\A j \in readq' : Due' <= j) /\ (\A j \in writeq' : Due' <= j)
    BY <1>3, <1>4, <1>7
  <2>4. CASE Due' \in readq'
    <3>1. Oldest(readq') = Due' /\ req[Due'].type = "RD"
      BY <1>5, <1>6, <1>8, <2>3, <2>4, OldestIs
    <3>2. ASSUME writeq' # {} PROVE Oldest(writeq') > Due'
      <4>1. Oldest(writeq') \in writeq'
        BY <1>8, <3>2, OldestIn
      <4>2. Due' <= Oldest(writeq') /\ req[Oldest(writeq')].type = "WR"
        BY <1>5, <1>6, <2>3, <4>1
      <4>3. Oldest(writeq') # Due' /\ Oldest(writeq') \in Nat
        BY <1>8, <3>1, <4>1, <4>2
      <4>4. QED
        BY <1>4, <4>2, <4>3
    <3>3. CASE writeq' = {}
      BY <1>5, <2>4, <3>1, <3>3 DEF ModeAfter
    <3>4. CASE writeq' # {}
      <4>1. write_mode' = (Oldest(writeq') <= Oldest(readq'))
        BY <1>5, <2>4, <3>4 DEF ModeAfter
      <4>2. ~(Oldest(writeq') <= Oldest(readq'))
        <5>1. Oldest(writeq') \in writeq'
          BY <1>8, <3>4, OldestIn
        <5>2. Oldest(writeq') \in Nat
          BY <1>8, <5>1
        <5>3. QED
          BY <1>4, <3>1, <3>2, <3>4, <5>2
      <4>3. QED
        BY <3>1, <4>1, <4>2
    <3>5. QED
      BY <3>3, <3>4
  <2>5. CASE Due' \in writeq'
    <3>1. Oldest(writeq') = Due' /\ req[Due'].type = "WR"
      BY <1>5, <1>6, <1>8, <2>3, <2>5, OldestIs
    <3>2. CASE readq' = {}
      BY <1>5, <2>5, <3>1, <3>2 DEF ModeAfter
    <3>3. CASE readq' # {}
      <4>1. Oldest(readq') \in readq'
        BY <1>8, <3>3, OldestIn
      <4>2. Due' <= Oldest(readq')
        BY <2>3, <4>1
      <4>3. write_mode' = (Oldest(writeq') <= Oldest(readq'))
        BY <1>5, <2>5, <3>3 DEF ModeAfter
      <4>4. QED
        BY <3>1, <4>2, <4>3
    <3>4. QED
      BY <3>2, <3>3
  <2>6. QED
    BY <2>2, <2>4, <2>5
<1>15. QED
  BY <1>4, <1>9, <1>10, <1>11, <1>12, <1>13, <1>14 DEF IInv

LEMMA CloseKeeps ==
  ASSUME IInv, Frame, Close
  PROVE  IInv' /\ column' = column
<1> DEFINE m == req[Due].type = "WR"
<1>1. /\ FirstCommand(Due) = "PRE" /\ IssueCmd("PRE", req[Due].row)
      /\ "PRE" \in Cmd /\ Due \in 1 .. Len(req) /\ actq = {} /\ Ready("PRE")
      /\ write_mode' = m /\ wm_blocked' = FALSE /\ pending' = Returned
      /\ UNCHANGED <<readq, writeq, actq, column>>
  BY DEF Close, Precharge, Cmd
<1>2. TypeOK /\ BanksAgree /\ Timers /\ tm' = tm /\ req' = req
  BY DEF IInv, Frame
<1>3. Allowed("PRE") /\ rowtable # {}
  BY <1>1, <1>2, FirstCommandIs DEF Allowed, Access
<1>4. TypeOK' /\ Counted'
  <2>1. pending' \in Seq([id : 1 .. Len(req), left : Nat])
    BY <1>1, <1>2, ReturnedTypes
  <2>2. /\ left' \in [Cmd -> Nat] /\ row_state' \in [Banks -> SUBSET Rows]
        /\ rowtable' \subseteq [row : Rows, hit : BOOLEAN]
    BY <1>1, <1>2, CommandTypes
  <2>3. write_mode' \in BOOLEAN /\ wm_blocked' \in BOOLEAN
    BY <1>1
  <2>4. column' \in 0 .. Len(req) /\ actq' \subseteq 1 .. Len(req)
    BY <1>1, <1>2 DEF TypeOK
  <2>5. QED
    BY <1>1, <1>2, <2>1, <2>2, <2>3, <2>4, CycleTypes
<1>5. BanksAgree' /\ rowtable' = {}
  BY <1>1, <1>2, <1>3, CommandRows
<1>6. Timers'
  BY <1>1, <1>2, <1>3, CommandTimers
<1>7. Waiting' /\ Activated' /\ Untouched' /\ ModeRight'
  BY <1>1, <1>2, <1>5 DEF IInv, Waiting, Activated, Untouched, ModeRight, Due
<1>8. QED
  BY <1>1, <1>4, <1>5, <1>6, <1>7 DEF IInv

LEMMA OpenKeeps ==
  ASSUME IInv, Frame, Open
  PROVE  IInv' /\ column' = column
<1> DEFINE k == req[Due].type
<1>1. /\ IssueCmd("ACT", req[Due].row) /\ Ready("ACT") /\ rowtable = {}
      /\ "ACT" \in Cmd /\ Due \in 1 .. Len(req) /\ actq = {}
      /\ actq' = {Due} /\ readq' = readq \ {Due} /\ writeq' = writeq \ {Due}
      /\ write_mode' = (k = "WR") /\ wm_blocked' = TRUE /\ pending' = Returned
      /\ column' = column
  BY DEF Open, Activate, Cmd
<1>2. TypeOK /\ BanksAgree /\ Timers /\ tm' = tm /\ req' = req
  BY DEF IInv, Frame
<1>3. /\ req[Due].row \in Rows /\ k \in Access /\ Allowed("ACT")
  BY <1>1, <1>2, RequestTypes DEF Allowed, Access
<1>4. TypeOK' /\ Counted'
  <2>1. pending' \in Seq([id : 1 .. Len(req), left : Nat])
    BY <1>1, <1>2, ReturnedTypes
  <2>2. /\ left' \in [Cmd -> Nat] /\ row_state' \in [Banks -> SUBSET Rows]
        /\ rowtable' \subseteq [row : Rows, hit : BOOLEAN]
    BY <1>1, <1>2, <1>3, CommandTypes
  <2>3. write_mode' \in BOOLEAN /\ wm_blocked' \in BOOLEAN
    BY <1>1
  <2>4. column' \in 0 .. Len(req) /\ actq' \subseteq 1 .. Len(req)
    BY <1>1, <1>2 DEF TypeOK
  <2>5. QED
    BY <1>1, <1>2, <2>1, <2>2, <2>3, <2>4, CycleTypes
<1>5. BanksAgree' /\ rowtable' = {[row |-> req[Due].row, hit |-> FALSE]}
  BY <1>1, <1>2, <1>3, CommandRows
<1>6. Timers' /\ left'[k] <= left'["PRE"] /\ left'[k] <= left'["PREA"]
  BY <1>1, <1>2, <1>3, CommandTimers
<1>7. Waiting' /\ Activated' /\ Untouched' /\ ModeRight'
  <2>1. Due' = Due /\ Due \in Due .. Len(req)
    BY <1>1, <1>2 DEF Due, TypeOK
  <2>2. Waiting'
    BY <1>1, <1>2, <2>1 DEF IInv, Waiting
  <2>3. Activated' /\ Untouched' /\ ModeRight'
    BY <1>1, <1>2, <1>5, <1>6, <2>1 DEF Activated, Untouched, ModeRight
  <2>4. QED
    BY <2>2, <2>3
<1>8. QED
  BY <1>1, <1>4, <1>5, <1>6, <1>7 DEF IInv

LEMMA RefreshKeeps ==
  ASSUME IInv, Frame, DoRefresh
  PROVE  IInv' /\ column' = column
<1> DEFINE c == RefreshCommand
<1>1. /\ IssueCmd(c, 0) /\ Ready(c) /\ c \in {"REF", "PREA"}
      /\ c \in Cmd /\ actq = {} /\ pending' = Returned
      /\ write_mode' \in {Mode, ModeAfter(Mode, readq, writeq)}
      /\ UNCHANGED <<readq, writeq, actq, wm_blocked, column>>
  BY DEF DoRefresh, Refresh, RefreshCommand, Cmd
<1>2. TypeOK /\ BanksAgree /\ Timers /\ tm' = tm /\ req' = req
  BY DEF IInv, Frame
<1>3. Allowed(c) /\ c = IF rowtable = {} THEN "REF" ELSE "PREA"
  BY <1>2, RefreshCommandIs, BoundsAssumption DEF Allowed, Access
<1>4. readq \in SUBSET Nat /\ writeq \in SUBSET Nat /\ Mode \in BOOLEAN
  <2>1. readq \subseteq 1 .. Len(req) /\ writeq \subseteq 1 .. Len(req)
    BY <1>2 DEF TypeOK
  <2>2. Mode \in BOOLEAN
    BY <1>2 DEF TypeOK, Mode
  <2>3. QED
    BY <2>1, <2>2
<1>5. TypeOK' /\ Counted'
  <2>1. pending' \in Seq([id : 1 .. Len(req), left : Nat])
    BY <1>1, <1>2, ReturnedTypes
  <2>2. /\ left' \in [Cmd -> Nat] /\ row_state' \in [Banks -> SUBSET Rows]
        /\ rowtable' \subseteq [row : Rows, hit : BOOLEAN]
    <3>1. c # "ACT"
      BY <1>1
    <3>2. QED
      BY <1>1, <1>2, <3>1, CommandTypes
  <2>3. write_mode' \in BOOLEAN /\ wm_blocked' \in BOOLEAN
    BY <1>1, <1>2, <1>4, ModeTypes DEF TypeOK
  <2>4. column' \in 0 .. Len(req) /\ actq' \subseteq 1 .. Len(req)
    BY <1>1, <1>2 DEF TypeOK
  <2>5. QED
    BY <1>1, <1>2, <2>1, <2>2, <2>3, <2>4, CycleTypes
<1>6. BanksAgree' /\ rowtable' = {}
  BY <1>1, <1>2, <1>3, CommandRows
<1>7. Timers'
  BY <1>1, <1>2, <1>3, CommandTimers
<1>8. Waiting' /\ Activated' /\ Untouched'
  BY <1>1, <1>2, <1>6 DEF IInv, Waiting, Activated, Untouched, Due
<1>9. ModeRight'
  <2>1. SUFFICES ASSUME Due <= Len(req)
                 PROVE  write_mode' = (req[Due].type = "WR")
    BY <1>1, <1>2 DEF ModeRight, Due
  <2>2. Mode = (req[Due].type = "WR") /\ Chosen # {}
    BY <1>1, <2>1, ChosenIsDue
  <2>3. readq \cup writeq = Due .. Len(req) /\ Due \in Nat /\ Len(req) \in Nat
    BY <1>1, <1>2 DEF IInv, Waiting, TypeOK, Due
  <2>4. CASE readq = {} \/ writeq = {}
    BY <1>1, <2>2, <2>4 DEF Chosen, ModeAfter
  <2>5. CASE readq # {} /\ writeq # {}
    <3>1. Oldest(Chosen) = Due
      BY <1>1, <2>1, ChosenIsDue
    <3>2. Oldest(readq) \in readq /\ Oldest(writeq) \in writeq
      BY <1>4, <2>5, OldestIn
    <3>3. Oldest(readq) \in Due .. Len(req) /\ Oldest(writeq) \in Due .. Len(req)
      BY <2>3, <3>2
    <3>4. CASE Mode
      <4>1. Oldest(writeq) = Due
        BY <3>1, <3>4 DEF Chosen
      <4>2. Oldest(writeq) <= Oldest(readq)
        BY <2>3, <3>3, <4>1
      <4>3. QED
        BY <1>1, <2>2, <2>5, <3>4, <4>2 DEF ModeAfter
    <3>5. CASE ~Mode
      <4>1. Oldest(readq) = Due
        BY <3>1, <3>5 DEF Chosen
      <4>2. Oldest(writeq) # Due
        BY <1>1, <3>2, <4>1 DEF IInv, Waiting
      <4>3. ~(Oldest(writeq) <= Oldest(readq))
        BY <2>3, <3>3, <4>1, <4>2
      <4>4. ModeAfter(Mode, readq, writeq) = FALSE
        BY <2>5, <4>3 DEF ModeAfter
      <4>5. Mode = FALSE
        BY <1>4, <3>5
      <4>6. QED
        BY <1>1, <2>2, <4>4, <4>5
    <3>6. QED
      BY <3>4, <3>5
  <2>6. QED
    BY <2>4, <2>5
<1>10. QED
  BY <1>1, <1>5, <1>6, <1>7, <1>8, <1>9 DEF IInv

LEMMA IdleKeeps ==
  ASSUME IInv, Frame, DoIdle
  PROVE  IInv' /\ column' = column
<1>1. /\ left' = Elapsed /\ write_mode' = Mode /\ pending' = Returned
      /\ UNCHANGED <<readq, writeq, actq, row_state, rowtable, wm_blocked, column>>
  BY DEF DoIdle, Idle
<1>2. TypeOK /\ BanksAgree /\ Timers /\ tm' = tm /\ req' = req
  BY DEF IInv, Frame
<1>3. /\ left' \in [Cmd -> Nat] /\ Timers'
      /\ \A c, d \in Cmd : left[c] <= left[d] => left'[c] <= left'[d]
  BY <1>1, <1>2, IdleTimers
<1>4. Mode \in BOOLEAN
  BY <1>2 DEF TypeOK, Mode
<1>5. TypeOK' /\ Counted'
  <2>1. pending' \in Seq([id : 1 .. Len(req), left : Nat])
    BY <1>1, <1>2, ReturnedTypes
  <2>2. /\ row_state' \in [Banks -> SUBSET Rows]
        /\ rowtable' \subseteq [row : Rows, hit : BOOLEAN]
        /\ write_mode' \in BOOLEAN /\ wm_blocked' \in BOOLEAN
        /\ column' \in 0 .. Len(req) /\ actq' \subseteq 1 .. Len(req)
    BY <1>1, <1>2, <1>4 DEF TypeOK
  <2>3. QED
    BY <1>1, <1>2, <1>3, <2>1, <2>2, CycleTypes
<1>6. BanksAgree' /\ Waiting' /\ Untouched' /\ Due' = Due
  BY <1>1, <1>2 DEF IInv, BanksAgree, Waiting, Untouched, Due
<1>7. Activated'
  <2>1. SUFFICES ASSUME actq # {} PROVE Activated'
    BY <1>1 DEF Activated
  <2>2. Mode = write_mode /\ req[Due].type \in Cmd /\ {"PRE", "PREA"} \subseteq Cmd
    BY <1>2, <2>1, ActivatedIsDue, RequestTypes DEF Cmd
  <2>3. /\ left'[req[Due].type] <= left'["PRE"]
        /\ left'[req[Due].type] <= left'["PREA"]
    BY <1>3, <2>1, <2>2 DEF IInv, Activated
  <2>4. QED
    BY <1>1, <1>2, <1>6, <2>1, <2>2, <2>3 DEF IInv, Activated
<1>8. ModeRight'
  BY <1>1, <1>2, <1>6, ChosenIsDue DEF ModeRight
<1>9. QED
  BY <1>1, <1>3, <1>5, <1>6, <1>7, <1>8 DEF IInv

(* A request comes in: the last in its queue, whatever waits.              *)
LEMMA EnqueueKeeps ==
  ASSUME IInv, NEW r \in Requests, Enqueue(r)
  PROVE  IInv' /\ Len(req') = Len(req) + 1 /\ Len(req) < MaxRequests
         /\ column' = column
<1> DEFINE n == Len(req) + 1
<1>1. /\ req' = Append(req, r) /\ sent' = TRUE /\ ~sent /\ Len(req) < MaxRequests
      /\ UNCHANGED <<tm, actq, otherq, pending, write_mode, wm_blocked, left,
                     row_state, rowtable, refreshes, column, spacing>>
  BY DEF Enqueue
<1>2. TypeOK
  BY DEF IInv
<1>3. /\ Len(req) \in Nat /\ n \in Nat /\ Len(req') = n
      /\ \A i \in 1 .. Len(req) : req'[i] = req[i]
      /\ req'[n] = r /\ req' \in Seq(Requests)
  BY <1>1, <1>2 DEF TypeOK
<1>4. r.type \in Access
  BY RequestsAssumption DEF Request
<1>5. \/ /\ r.type = "RD" /\ readq' = readq \cup {n} /\ writeq' = writeq
         /\ Cardinality(readq) < QueueMax
      \/ /\ r.type = "WR" /\ writeq' = writeq \cup {n} /\ readq' = readq
         /\ Cardinality(writeq) < QueueMax
  BY <1>4 DEF Enqueue, Access
<1>6. readq \subseteq 1 .. Len(req) /\ writeq \subseteq 1 .. Len(req)
      /\ actq \subseteq 1 .. Len(req)
  BY <1>2 DEF TypeOK
<1>7. TypeOK'
  <2>1. ASSUME NEW queue \in {readq, writeq}, Cardinality(queue) < QueueMax
        PROVE  Cardinality(queue \cup {n}) <= QueueMax
    <3>1. IsFiniteSet(1 .. Len(req))
      BY <1>3, FS_Interval
    <3>2. IsFiniteSet(queue)
      BY <1>6, <3>1, FS_Subset
    <3>3. n \notin queue
      BY <1>3, <1>6
    <3>4. Cardinality(queue \cup {n}) = Cardinality(queue) + 1
      BY <3>2, <3>3, FS_AddElement
    <3>5. Cardinality(queue) \in Nat
      BY <3>2, FS_CardinalityType
    <3>6. QED
      BY <2>1, <3>4, <3>5, BoundsAssumption
  <2>2. Cardinality(readq') <= QueueMax /\ Cardinality(writeq') <= QueueMax
    BY <1>2, <1>5, <2>1 DEF TypeOK
  <2>3. readq' \subseteq 1 .. n /\ writeq' \subseteq 1 .. n /\ actq' \subseteq 1 .. n
    <3>1. 1 .. Len(req) \subseteq 1 .. n /\ {n} \subseteq 1 .. n
      BY <1>3
    <3> HIDE DEF n
    <3>2. QED
      BY <1>1, <1>5, <1>6, <3>1
  <2>4. pending' \in Seq([id : 1 .. n, left : Nat])
    <3> DEFINE P == [id : 1 .. Len(req), left : Nat]
    <3> DEFINE Q == [id : 1 .. n, left : Nat]
    <3>1. P \subseteq Q
      BY <1>3
    <3>2. pending \in Seq(P)
      BY <1>2 DEF TypeOK
    <3> HIDE DEF P, Q
    <3>3. pending \in Seq(Q)
      BY <3>1, <3>2
    <3>4. QED
      BY <1>1, <3>3 DEF Q
  <2>5. Len(req') <= MaxRequests /\ column' \in 0 .. Len(req')
    BY <1>1, <1>2, <1>3, BoundsAssumption DEF TypeOK
  <2>6. QED
    BY <1>1, <1>2, <1>3, <2>2, <2>3, <2>4, <2>5 DEF TypeOK
<1>8. Due' = Due /\ Due \in 1 .. n
  BY <1>1, <1>2, <1>3 DEF Due, TypeOK
<1>9. Waiting'
  <2>1. readq' \cup writeq' \cup actq' = Due .. Len(req')
    BY <1>1, <1>3, <1>5, <1>8 DEF IInv, Waiting
  <2>2. /\ \A i \in readq' : req'[i].type = "RD"
        /\ \A i \in writeq' : req'[i].type = "WR"
    BY <1>3, <1>5, <1>6 DEF IInv, Waiting
  <2>3. actq' \cap (readq' \cup writeq') = {}
    BY <1>1, <1>3, <1>5, <1>6 DEF IInv, Waiting
  <2>4. QED
    BY <1>8, <2>1, <2>2, <2>3 DEF Waiting
<1>10. Activated'
  <2>1. actq # {} => Due \in 1 .. Len(req) /\ req'[Due] = req[Due]
    BY <1>3, ActivatedIsDue
  <2>2. QED
    BY <1>1, <1>8, <2>1 DEF IInv, Activated
<1>11. BanksAgree' /\ Untouched' /\ Timers' /\ Counted'
  BY <1>1 DEF IInv, BanksAgree, Untouched, Timers, Counted
<1>12. ModeRight'
  <2>1. SUFFICES ASSUME actq = {}, Due < n
                 PROVE  write_mode = (req'[Due].type = "WR")
    BY <1>1, <1>3, <1>8 DEF ModeRight
  <2>2. Due \in 1 .. Len(req)
    BY <1>3, <1>8, <2>1
  <2>3. QED
    BY <1>1, <1>3, <2>1, <2>2 DEF IInv, ModeRight
<1>13. QED
  BY <1>1, <1>3, <1>7, <1>9, <1>10, <1>11, <1>12 DEF IInv

-----------------------------------------------------------------------------
LEMMA InitKeeps == Init => IInv
<1> SUFFICES ASSUME Init PROVE IInv
  OBVIOUS
<1>1. TypeOK
  <2>1. Cardinality({}) = 0 /\ Cardinality({}) <= QueueMax
    BY FS_EmptySet, BoundsAssumption
  <2>2. req \in Seq(Requests) /\ Len(req) = 0
    BY DEF Init
  <2>3. left \in [Cmd -> Nat] /\ row_state \in [Banks -> SUBSET Rows]
    BY DEF Init
  <2>4. /\ readq \subseteq 1 .. Len(req) /\ writeq \subseteq 1 .. Len(req)
        /\ actq \subseteq 1 .. Len(req)
        /\ Cardinality(readq) <= QueueMax /\ Cardinality(writeq) <= QueueMax
    BY <2>1 DEF Init
  <2>5. pending \in Seq([id : 1 .. Len(req), left : Nat])
    BY DEF Init
  <2>6. rowtable \subseteq [row : Rows, hit : BOOLEAN]
    BY DEF Init
  <2>7. /\ otherq \in 0 .. MaxRefresh /\ refreshes \in 0 .. MaxRefresh
        /\ column \in 0 .. Len(req) /\ Len(req) <= MaxRequests
    <3>1. otherq = 0 /\ refreshes = 0 /\ column = 0
      BY DEF Init
    <3>2. QED
      BY <2>2, <3>1, BoundsAssumption
  <2>8. /\ spacing \in 1 .. Enough /\ tm \in Timings
        /\ write_mode \in BOOLEAN /\ wm_blocked \in BOOLEAN /\ sent \in BOOLEAN
    <3>1. spacing \in 1 .. Enough
      BY DEF Init, Enough
    <3>2. QED
      BY <3>1, Zenon DEF Init
  <2>9. QED
    BY <2>2, <2>3, <2>4, <2>5, <2>6, <2>7, <2>8 DEF TypeOK
<1>2. Waiting
  <2>1. Due .. Len(req) = {}
    BY DEF Init, Due
  <2>2. QED
    BY <2>1 DEF Init, Waiting
<1>3. Timers
  <2>1. \A c, d \in Cmd : tm.gap[c][d] \in Nat
    BY <1>1, TimingTypes
  <2>2. QED
    BY <2>1 DEF Init, Timers, Cmd
<1>4. BanksAgree /\ Activated /\ Untouched /\ Counted
  BY DEF Init, BanksAgree, Activated, Untouched, Counted
<1>5. ModeRight
  BY DEF Init, ModeRight, Due
<1>6. QED
  BY <1>1, <1>2, <1>3, <1>4, <1>5 DEF IInv

(* What a cycle can do to the request due: serve it, or leave it. *)
LEMMA TickKeeps ==
  ASSUME IInv, Tick
  PROVE  /\ IInv' /\ req' = req
         /\ \/ column' = column
            \/ /\ column' = Due /\ Due \in 1 .. Len(req)
               /\ Ready(req[Due].type)
<1>1. Cycle /\ Frame
  BY TickCases
<1>2. CASE ServeActivated
  BY <1>1, <1>2, CompleteKeeps DEF ServeActivated, IInv, TypeOK, Frame
<1>3. CASE ServeOpen
  <2>1. (req[Due].type = "WR") \in BOOLEAN
    OBVIOUS
  <2>2. QED
    BY <1>1, <1>3, <2>1, CompleteKeeps DEF ServeOpen, Frame
<1>4. CASE Close
  BY <1>1, <1>4, CloseKeeps DEF Frame
<1>5. CASE Open
  BY <1>1, <1>5, OpenKeeps DEF Frame
<1>6. CASE DoRefresh
  BY <1>1, <1>6, RefreshKeeps DEF Frame
<1>7. CASE DoIdle
  BY <1>1, <1>7, IdleKeeps DEF Frame
<1>8. QED
  BY <1>1, <1>2, <1>3, <1>4, <1>5, <1>6, <1>7 DEF Cycle

LEMMA StutterKeeps == IInv /\ UNCHANGED vars => IInv'
<1> SUFFICES ASSUME IInv, UNCHANGED vars PROVE IInv'
  OBVIOUS
<1>1. TypeOK'
  BY DEF vars, IInv, TypeOK
<1>2. BanksAgree' /\ Untouched' /\ Timers' /\ Counted'
  BY DEF vars, IInv, BanksAgree, Untouched, Timers, Counted
<1>3. Waiting' /\ Activated' /\ ModeRight'
  BY DEF vars, IInv, Waiting, Activated, ModeRight, Due
<1>4. QED
  BY <1>1, <1>2, <1>3 DEF IInv

THEOREM Invariance == Spec => []IInv
<1>1. IInv /\ [Next]_vars => IInv'
  BY TickKeeps, EnqueueKeeps, StutterKeeps DEF Next
<1>2. QED
  BY InitKeeps, <1>1, PTL DEF Spec

(* The controller keeps its types: no queue outgrows its capacity, every   *)
(* number waiting is that of a request. *)
THEOREM TypeCorrect == Spec => []TypeOK
<1>1. IInv => TypeOK
  BY DEF IInv
<1>2. QED
  BY Invariance, <1>1, PTL

(* The row table and the state of all banks agree at all times. *)
THEOREM RowsConsistent == Spec => []BanksAgree
<1>1. IInv => BanksAgree
  BY DEF IInv
<1>2. QED
  BY Invariance, <1>1, PTL

(* An activated row is accessed before it is closed, by a refresh too. *)
THEOREM ActivationsUsed == Spec => NoUselessActivate
<1>1. IInv /\ [Next]_vars => [\A e \in rowtable : rowtable' = {} => e.hit]_vars
  <2>1. SUFFICES ASSUME IInv, Tick \/ \E r \in Requests : Enqueue(r),
                        NEW e \in rowtable, rowtable' = {}
                 PROVE  e.hit
    BY DEF Next
  <2>2. CASE \E r \in Requests : Enqueue(r)
    BY <2>1, <2>2 DEF Enqueue
  <2>3. CASE Tick
    <3>1. Cycle
      BY <2>1, <2>3, TickCases
    <3>2. CASE actq = {}
      BY <2>1, <3>2 DEF IInv, Untouched
    <3>3. CASE ServeActivated
      <4>1. IssueCmd(req[Due].type, req[Due].row) /\ req[Due].type \in Access
        BY <2>1, <3>3, RequestTypes DEF ServeActivated, Complete, IInv
      <4>2. rowtable' = {[f EXCEPT !.hit = TRUE] : f \in rowtable}
        BY <4>1 DEF IssueCmd, RowTableAfter, Access
      <4>3. QED
        BY <2>1, <4>2
    <3>4. CASE DoIdle
      BY <2>1, <3>4 DEF DoIdle, Idle
    <3>5. QED
      BY <3>1, <3>2, <3>3, <3>4 DEF Cycle, ServeOpen, Close, Open, DoRefresh
  <2>4. QED
    BY <2>1, <2>2, <2>3
<1>2. QED
  BY Invariance, <1>1, PTL DEF Spec, NoUselessActivate

(* Column commands leave in the order of arrival: the controller          *)
(* implements the in-order memory. *)
THEOREM InOrder == Spec => ServedInOrder
<1>1. Init => Promise!Init
  BY DEF Init, Promise!Init
<1>2. IInv /\ [Next]_vars => [Promise!Next]_<<Len(req), column>>
  <2>1. SUFFICES ASSUME IInv, [Next]_vars
                 PROVE  [Promise!Next]_<<Len(req), column>>
    OBVIOUS
  <2>2. Len(req) \in Nat /\ column \in Nat
    BY <2>1 DEF IInv, TypeOK
  <2>3. CASE Tick
    <3>1. \/ req' = req /\ column' = column
          \/ req' = req /\ column' = Due /\ Due \in 1 .. Len(req)
      BY <2>1, <2>3, TickKeeps
    <3>2. QED
      BY <2>2, <3>1 DEF Promise!Next, Promise!Serve, Due
  <2>4. ASSUME NEW r \in Requests, Enqueue(r)
        PROVE  [Promise!Next]_<<Len(req), column>>
    BY <2>1, <2>4, EnqueueKeeps DEF Promise!Next, Promise!Arrive
  <2>5. CASE UNCHANGED vars
    BY <2>5 DEF vars
  <2>6. QED
    BY <2>1, <2>3, <2>4, <2>5 DEF Next
<1>3. QED
  BY Invariance, <1>1, <1>2, PTL DEF Spec, ServedInOrder, Promise!SafeSpec

-----------------------------------------------------------------------------
(* Spacing needs no invariant on the queues: after a column command every  *)
(* access waits out the gap, if the standard leaves that much.             *)
Spaced ==
  /\ spacing \in 1 .. Enough
  /\ \A k \in Access : left[k] >= Enough - spacing

(* A cycle with command c, or with none, on the timer of an access.        *)
LEMMA IssueLeft ==
  ASSUME TypeOK, NEW k \in Access, NEW c \in Cmd, NEW row, IssueCmd(c, row)
  PROVE  left'[k] >= left[k] - 1 /\ left'[k] >= tm.gap[c][k] - 1
         /\ left[k] \in Nat /\ left'[k] \in Nat /\ tm.gap[c][k] \in Nat
<1>1. k \in Cmd /\ left' = Waits(c)
  BY DEF Cmd, IssueCmd
<1>2. QED
  BY <1>1, WaitsValue

LEMMA TickSpaced ==
  ASSUME IInv, Spaced, Tick,
         \A t \in Timings : \A c, k \in Access : t.gap[c][k] >= Enough
  PROVE  Spaced' /\ (column' # column => spacing >= Enough)
<1>1. Cycle /\ Frame /\ TypeOK /\ tm \in Timings
  BY TickCases DEF IInv, TypeOK
<1>2. ASSUME NEW m, NEW b, Due \in 1 .. Len(req),
             Ready(req[Due].type), Complete(Due, m, b)
      PROVE  Spaced' /\ (column' # column => spacing >= Enough)
  <2> DEFINE c == req[Due].type
  <2>1. c \in Access /\ c \in Cmd /\ IssueCmd(c, req[Due].row)
    BY <1>1, <1>2, RequestTypes DEF Complete, Cmd
  <2>2. column' # column
    BY <1>1, <1>2 DEF Complete, Due, TypeOK
  <2>3. spacing >= Enough
    BY <1>2, <2>1 DEF Spaced, Ready, Enough
  <2>4. spacing' = 1
    BY <1>1, <2>2 DEF Frame
  <2>5. \A k \in Access : left'[k] >= Enough - 1
    <3>1. \A k \in Access : /\ left'[k] >= tm.gap[c][k] - 1
                            /\ left'[k] \in Nat /\ tm.gap[c][k] \in Nat
      BY <1>1, <2>1, IssueLeft
    <3>2. \A k \in Access : tm.gap[c][k] >= Enough
      BY <1>1, <2>1
    <3>3. QED
      BY <3>1, <3>2 DEF Enough
  <2>6. QED
    BY <2>3, <2>4, <2>5 DEF Spaced, Enough
<1>3. ASSUME column' = column,
             \A k \in Access : /\ left'[k] >= left[k] - 1
                               /\ left[k] \in Nat /\ left'[k] \in Nat
      PROVE  Spaced'
  <2>1. spacing' = IF spacing < Enough THEN spacing + 1 ELSE spacing
    BY <1>1, <1>3 DEF Frame
  <2>2. QED
    BY <1>3, <2>1 DEF Spaced, Enough
<1>4. CASE ServeActivated \/ ServeOpen
  BY <1>2, <1>4 DEF ServeActivated, ServeOpen
<1>5. ASSUME NEW c \in Cmd, NEW row, IssueCmd(c, row), column' = column
      PROVE  Spaced'
  BY <1>1, <1>3, <1>5, IssueLeft
<1>6. CASE Close
  BY <1>5, <1>6 DEF Close, Precharge, Cmd
<1>7. CASE Open
  BY <1>5, <1>7 DEF Open, Activate, Cmd
<1>8. CASE DoRefresh
  BY <1>5, <1>8 DEF DoRefresh, Refresh, RefreshCommand, Cmd
<1>9. CASE DoIdle
  <2>1. left' = Elapsed /\ column' = column
    BY <1>9 DEF DoIdle, Idle
  <2>2. \A k \in Access : /\ left'[k] >= left[k] - 1
                          /\ left[k] \in Nat /\ left'[k] \in Nat
    BY <1>1, <2>1 DEF Elapsed, Larger, TypeOK, Cmd
  <2>3. QED
    BY <1>3, <2>1, <2>2
<1>10. QED
  BY <1>1, <1>4, <1>6, <1>7, <1>8, <1>9
       DEF Cycle, Close, Open, Precharge, Activate, DoRefresh, Refresh, DoIdle, Idle

(* Column commands are as far apart as a core needs, with every standard   *)
(* whose accesses are that far apart. *)
THEOREM CommandsSpaced ==
  ASSUME \A t \in Timings : \A c, k \in Access : t.gap[c][k] >= Enough
  PROVE  Spec => Spacing
<1>1. Init => Spaced
  BY DEF Init, Spaced, Enough, Cmd
<1>2. IInv /\ Spaced /\ [Next]_vars
        => Spaced' /\ [column' # column => spacing >= Enough]_vars
  <2>1. SUFFICES ASSUME IInv, Spaced, [Next]_vars
                 PROVE  Spaced' /\ (column' # column => spacing >= Enough)
    OBVIOUS
  <2>2. CASE Tick
    BY <2>1, <2>2, TickSpaced
  <2>3. CASE \E r \in Requests : Enqueue(r)
    BY <2>1, <2>3 DEF Enqueue, Spaced
  <2>4. CASE UNCHANGED vars
    BY <2>1, <2>4 DEF vars, Spaced
  <2>5. QED
    BY <2>1, <2>2, <2>3, <2>4 DEF Next
<1>3. QED
  BY Invariance, <1>1, <1>2, PTL DEF Spec, Spacing
=============================================================================
