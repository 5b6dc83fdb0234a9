---------------------------- MODULE AbController ----------------------------
(***************************************************************************)
(* The memory controller of one channel in all-bank mode, cycle by cycle:  *)
(* the queues, the choice between reads and writes, the open rows, the     *)
(* row table and the timing rules.  Requests are numbered in the order in  *)
(* which they arrive, so a queue is a set of numbers and its head, the     *)
(* request with the smallest arrival time, is its least element.           *)
(***************************************************************************)
EXTENDS DramTiming, Sequences, FiniteSets

CONSTANTS
  Timings,       \* the standards considered, each [gap, latency]
  Banks, Rows,
  Requests,      \* the requests the host may send
  QueueMax,      \* capacity of a request queue, 32 in the code
  MaxRequests,   \* bound on the requests of a run
  MaxRefresh     \* bound on the refreshes of a run

(* What the order of service rests on: an activated row can be accessed    *)
(* before it can be closed again, and no access makes a later one wait     *)
(* longer than closing the row and opening another would take.             *)
TimingOK(t) ==
  /\ t.gap \in [Cmd -> [Cmd -> Nat]]
  /\ t.latency \in Nat
  /\ t.gap["ACT"]["PRE"] = t.gap["ACT"]["PREA"]
  /\ \A k \in Access :
       /\ t.gap["ACT"][k] <= t.gap["ACT"]["PRE"]
       /\ t.gap["REF"][k] <= t.gap["REF"]["ACT"] + t.gap["ACT"]["PRE"]
       /\ \A p \in {"PRE", "PREA"} :
            /\ t.gap[p][k] <= t.gap[p]["ACT"] + t.gap["ACT"]["PRE"]
            /\ \A c \in Access :
                 t.gap[c][k] <= t.gap[c][p] + t.gap[p]["ACT"]
                                  + t.gap["ACT"]["PRE"]

Request == [type : Access, bank : Banks, row : Rows]

ASSUME RequestsAssumption == Requests \subseteq Request
ASSUME TimingAssumption == \A t \in Timings : TimingOK(t)
ASSUME BoundsAssumption ==
  /\ Banks # {}
  /\ QueueMax \in Nat \ {0}
  /\ MaxRequests \in Nat
  /\ MaxRefresh \in Nat

VARIABLES
  tm,          \* the standard of this channel, fixed
  req,         \* the requests accepted so far
  readq, writeq, actq,   \* numbers of the requests waiting
  otherq,      \* refresh requests waiting
  pending,     \* reads whose data is on its way, [id, left]
  write_mode, wm_blocked,
  left,        \* left[c]: cycles before which command c may not be issued
  row_state,   \* the open rows of each bank
  rowtable,    \* the controller's own record of the open row: at most one
               \* entry [row, hit], as the key of the table is the channel
  sent,        \* the host has sent a request in this cycle
  refreshes,   \* refreshes requested so far
  column,      \* history: the last request whose column command was sent
  spacing      \* history: cycles since then, up to Enough

vars == <<tm, req, readq, writeq, actq, otherq, pending, write_mode,
          wm_blocked, left, row_state, rowtable, sent, refreshes, column,
          spacing>>

Enough == 3   \* cycles a core needs from one command to the next

Init ==
  /\ tm \in Timings
  /\ req = <<>>
  /\ readq = {} /\ writeq = {} /\ actq = {} /\ otherq = 0 /\ pending = <<>>
  /\ write_mode = FALSE /\ wm_blocked = FALSE
  /\ left = [c \in Cmd |-> 0]
  /\ row_state = [b \in Banks |-> {}]
  /\ rowtable = {}
  /\ sent = FALSE /\ refreshes = 0
  /\ column = 0 /\ spacing = Enough

(* Mutant: a full queue takes one more. *)
EnqueueOver(r) ==
  /\ ~sent /\ Len(req) < MaxRequests
  /\ LET queue == IF r.type = "RD" THEN readq ELSE writeq IN
       /\ Cardinality(queue) <= QueueMax
       /\ IF r.type = "RD"
          THEN readq' = readq \cup {Len(req) + 1} /\ UNCHANGED writeq
          ELSE writeq' = writeq \cup {Len(req) + 1} /\ UNCHANGED readq
  /\ req' = Append(req, r)
  /\ sent' = TRUE
  /\ UNCHANGED <<tm, actq, otherq, pending, write_mode, wm_blocked, left,
                 row_state, rowtable, refreshes, column, spacing>>

(* The host hands over at most one request a cycle; a full queue refuses   *)
(* it, and the host comes back with it in the next cycle.                  *)
Enqueue(r) ==
  /\ ~sent /\ Len(req) < MaxRequests
  /\ LET queue == IF r.type = "RD" THEN readq ELSE writeq IN
       /\ Cardinality(queue) < QueueMax
       /\ IF r.type = "RD"
          THEN readq' = readq \cup {Len(req) + 1} /\ UNCHANGED writeq
          ELSE writeq' = writeq \cup {Len(req) + 1} /\ UNCHANGED readq
  /\ req' = Append(req, r)
  /\ sent' = TRUE
  /\ UNCHANGED <<tm, actq, otherq, pending, write_mode, wm_blocked, left,
                 row_state, rowtable, refreshes, column, spacing>>

-----------------------------------------------------------------------------
Oldest(queue) == CHOOSE i \in queue : \A j \in queue : i <= j

(* The first command a request needs, from the state of the bank it names. *)
FirstCommand(i) ==
  IF row_state[req[i].bank] = {} THEN "ACT"
  ELSE IF req[i].row \in row_state[req[i].bank] THEN req[i].type
  ELSE "PRE"

RefreshCommand == IF \A b \in Banks : row_state[b] = {} THEN "REF" ELSE "PREA"

Ready(c) == left[c] = 0

(* Issuing c: the cycles every command has to wait from the next one on.   *)
Waits(c) == [d \in Cmd |-> Larger(Larger(left[d], tm.gap[c][d]) - 1, 0)]
Elapsed == [d \in Cmd |-> Larger(left[d] - 1, 0)]

(* Every command that opens or closes a row reaches all banks.             *)
RowStateAfter(c, row) ==
  IF c = "ACT" THEN [b \in Banks |-> row_state[b] \cup {row}]
  ELSE IF c \in {"PRE", "PREA"} THEN [b \in Banks |-> {}]
  ELSE row_state

(* Mutant: a PREA leaves the entry behind. *)
RowTableKept(c, row) ==
  IF c = "ACT" /\ rowtable = {} THEN {[row |-> row, hit |-> FALSE]}
  ELSE IF c \in Access THEN {[e EXCEPT !.hit = TRUE] : e \in rowtable}
  ELSE IF c = "PRE" THEN {}
  ELSE rowtable

RowTableAfter(c, row) ==
  IF c = "ACT" /\ rowtable = {} THEN {[row |-> row, hit |-> FALSE]}
  ELSE IF c \in Access THEN {[e EXCEPT !.hit = TRUE] : e \in rowtable}
  ELSE IF c \in {"PRE", "PREA"} THEN {}
  ELSE rowtable

IssueCmd(c, row) ==
  /\ left' = Waits(c)
  /\ row_state' = RowStateAfter(c, row)
  /\ rowtable' = RowTableAfter(c, row)

(* Reads or writes: the populated queue, unless an activation decided.     *)
Mode == IF ~wm_blocked /\ (readq = {}) # (writeq = {}) THEN readq = {}
        ELSE write_mode

(* After a request is through, the older of the two heads decides.         *)
ModeAfter(mode, rq, wq) ==
  IF rq # {} /\ wq # {} THEN Oldest(wq) <= Oldest(rq)
  ELSE IF rq # {} \/ wq # {} THEN rq = {}
  ELSE mode

(* Completed reads leave pending one a cycle, the oldest first.            *)
Aged == [k \in DOMAIN pending |->
           [pending[k] EXCEPT !.left = Larger(@ - 1, 0)]]
Returned == IF pending # <<>> /\ Aged[1].left = 0 THEN Tail(Aged) ELSE Aged

-----------------------------------------------------------------------------
(* What one cycle does for request i with write mode m and block b.        *)
Precharge(i, m, b) ==
  /\ FirstCommand(i) = "PRE"
  /\ IssueCmd("PRE", req[i].row)
  /\ write_mode' = m /\ wm_blocked' = b
  /\ pending' = Returned
  /\ UNCHANGED <<readq, writeq, actq, column>>

(* Mutant: the other type is not blocked. *)
ActivateUnblocked(i) ==
  /\ FirstCommand(i) = "ACT"
  /\ IssueCmd("ACT", req[i].row)
  /\ actq' = actq \cup {i}
  /\ readq' = readq \ {i}
  /\ writeq' = writeq \ {i}
  /\ write_mode' = (req[i].type = "WR") /\ UNCHANGED wm_blocked
  /\ pending' = Returned
  /\ UNCHANGED column

(* The request moves to the activation queue and blocks the other type.    *)
Activate(i) ==
  /\ FirstCommand(i) = "ACT"
  /\ IssueCmd("ACT", req[i].row)
  /\ actq' = actq \cup {i}
  /\ readq' = readq \ {i}
  /\ writeq' = writeq \ {i}
  /\ write_mode' = (req[i].type = "WR") /\ wm_blocked' = TRUE
  /\ pending' = Returned
  /\ UNCHANGED column

(* Mutant: the mode stays blocked. *)
CompleteBlocked(i, m, b) ==
  /\ FirstCommand(i) = req[i].type
  /\ IssueCmd(req[i].type, req[i].row)
  /\ actq' = actq \ {i}
  /\ readq' = readq \ {i}
  /\ writeq' = writeq \ {i}
  /\ write_mode' = ModeAfter(m, readq', writeq') /\ UNCHANGED wm_blocked
  /\ pending' = IF req[i].type = "RD"
                THEN Append(Returned, [id |-> i, left |-> tm.latency])
                ELSE Returned
  /\ column' = i

Complete(i, m, b) ==
  /\ FirstCommand(i) = req[i].type
  /\ IssueCmd(req[i].type, req[i].row)
  /\ actq' = actq \ {i}
  /\ readq' = readq \ {i}
  /\ writeq' = writeq \ {i}
  /\ write_mode' = ModeAfter(m, readq', writeq') /\ wm_blocked' = b
  /\ pending' = IF req[i].type = "RD"
                THEN Append(Returned, [id |-> i, left |-> tm.latency])
                ELSE Returned
  /\ column' = i

Schedule(i, m, b) ==
  /\ Ready(FirstCommand(i))
  /\ Precharge(i, m, b) \/ Activate(i) \/ Complete(i, m, b)

(* Mutant: refreshes come first. *)
ActReadyLate == otherq = 0 /\ actq # {} /\ Ready(FirstCommand(Oldest(actq)))

ActReady == actq # {} /\ Ready(FirstCommand(Oldest(actq)))

Refresh(other) ==
  /\ Ready(RefreshCommand)
  /\ IssueCmd(RefreshCommand, 0)
  /\ IF RefreshCommand = "REF"
     THEN otherq' = other - 1 /\ write_mode' = ModeAfter(Mode, readq, writeq)
     ELSE otherq' = other /\ write_mode' = Mode
  /\ pending' = Returned
  /\ UNCHANGED <<readq, writeq, actq, wm_blocked, column>>

Idle(other) ==
  /\ left' = Elapsed
  /\ otherq' = other /\ write_mode' = Mode
  /\ pending' = Returned
  /\ UNCHANGED <<readq, writeq, actq, row_state, rowtable, wm_blocked, column>>

(* One cycle: the activation queue first, then refreshes, then the queue   *)
(* of the mode; the rows stay open when nothing can be issued.             *)
Tick ==
  \E due \in {0, 1} :
    /\ refreshes + due <= MaxRefresh /\ refreshes' = refreshes + due
    /\ LET other == otherq + due
           queue == IF Mode THEN writeq ELSE readq
       IN \/ /\ ActReady
             /\ Schedule(Oldest(actq), Mode, FALSE)
             /\ otherq' = other
          \/ /\ ~ActReady /\ other > 0
             /\ Refresh(other)
          \/ /\ ~ActReady /\ other = 0 /\ queue # {}
             /\ Schedule(Oldest(queue), Mode, wm_blocked)
             /\ otherq' = other
          \/ /\ ~ActReady
             /\ IF other > 0 THEN ~Ready(RefreshCommand)
                ELSE queue # {} => ~Ready(FirstCommand(Oldest(queue)))
             /\ Idle(other)
    /\ spacing' = IF column' # column THEN 1
                  ELSE IF spacing < Enough THEN spacing + 1 ELSE spacing
    /\ sent' = FALSE
    /\ UNCHANGED <<tm, req>>

Next == Tick \/ \E r \in Requests : Enqueue(r)

(* The simulation ticks until nothing is pending; the host owes nothing.   *)
Spec == Init /\ [][Next]_vars /\ WF_vars(Tick)

-----------------------------------------------------------------------------
TypeOK ==
  /\ tm \in Timings
  /\ req \in Seq(Requests) /\ Len(req) <= MaxRequests
  /\ readq \subseteq 1 .. Len(req) /\ Cardinality(readq) <= QueueMax
  /\ writeq \subseteq 1 .. Len(req) /\ Cardinality(writeq) <= QueueMax
  /\ actq \subseteq 1 .. Len(req)
  /\ otherq \in 0 .. MaxRefresh
  /\ pending \in Seq([id : 1 .. Len(req), left : Nat])
  /\ write_mode \in BOOLEAN /\ wm_blocked \in BOOLEAN
  /\ left \in [Cmd -> Nat]
  /\ row_state \in [Banks -> SUBSET Rows]
  /\ rowtable \subseteq [row : Rows, hit : BOOLEAN]
  /\ sent \in BOOLEAN
  /\ refreshes \in 0 .. MaxRefresh
  /\ column \in 0 .. Len(req)
  /\ spacing \in 1 .. Enough

(* The row table and the banks never disagree: all banks have the same row *)
(* open, the one the table holds, or all are closed.  The assertions of    *)
(* update_AB and the row the cores see in every bank rest on it.           *)
BanksAgree ==
  \/ rowtable = {} /\ \A b \in Banks : row_state[b] = {}
  \/ \E e \in rowtable : /\ rowtable = {e}
                         /\ \A b \in Banks : row_state[b] = {e.row}

(* No row is opened in vain: whatever closes it, a refresh between the     *)
(* activation and its column command included, it has been read or         *)
(* written.  The activation queue exists for this.                         *)
NoUselessActivate == [][\A e \in rowtable : rowtable' = {} => e.hit]_vars

(* Two column commands are at least as far apart as a core needs to finish *)
(* with the first.                                                         *)
Spacing == [][column' # column => spacing >= Enough]_vars

Promise == INSTANCE InOrderMemory WITH arrived <- Len(req), served <- column

(* Column commands leave in the order in which their requests came in,     *)
(* whatever their types, banks and rows: what command order means to       *)
(* all-bank memories, where the queues of reads and writes are apart.      *)
ServedInOrder == Promise!SafeSpec

(* Every request is served, and the data of every read comes back.         *)
Answered ==
  \A i \in 1 .. MaxRequests :
    i <= Len(req) ~> /\ i <= column
                     /\ \A k \in DOMAIN pending : pending[k].id # i
=============================================================================
