--------------------------- MODULE BankController ---------------------------
(***************************************************************************)
(* The memory controller of one channel of a single-bank standard, cycle   *)
(* by cycle, for every scheduling and row policy it can be built with.     *)
(* Unlike in all-bank mode (module AbController) every bank has an open    *)
(* row of its own, reads and writes may pass each other, and a read of an  *)
(* address a queued write is about to change is answered from the queue.   *)
(* Requests are numbered in the order in which they arrive, so a queue is  *)
(* a set of numbers and the oldest request in it its least element.        *)
(***************************************************************************)
EXTENDS BankTiming, Sequences, FiniteSets

CONSTANTS
  Timings,       \* the standards considered, each [gap, latency, faw]
  Policies,      \* the policies considered, each [scheduler, row]
  Banks,         \* numbers; the row table lists them in their order
  GroupOf,       \* bank group of a bank
  Requests,      \* the requests the host may send, [type, bank, row, col]
  QueueMax,      \* capacity of a request queue, 32 in the code
  HighMark,      \* queued writes beyond which they come first, 0.8 * 32
  LowMark,       \* queued writes below which reads come first, 0.2 * 32
  Cap,           \* row hits after which FRFCFS_Cap no longer prefers a row
  Timeout,       \* cycles after which the row policy Timeout closes a row
  MaxRequests,   \* bound on the requests of a run
  MaxRefresh     \* bound on the refreshes of a run

Schedulers == {"FCFS", "FRFCFS", "FRFCFS_Cap", "FRFCFS_PriorHit"}
RowPolicies == {"Closed", "ClosedAP", "Opened", "Timeout"}

ASSUME BankControllerAssumption ==
  /\ \A t \in Timings :
       /\ t.gap \in [{"rank", "group", "bank"} ->
                       [BankScope \cup RankScope -> [BankScope \cup RankScope -> Nat]]]
       /\ t.latency \in Nat /\ t.faw \in Nat
  /\ Policies \subseteq [scheduler : Schedulers, row : RowPolicies]
  /\ Banks \subseteq Nat \ {0} /\ IsFiniteSet(Banks)
  /\ \A r \in Requests : r.type \in {"RD", "WR"} /\ r.bank \in Banks
  /\ LowMark \in Nat \ {0} /\ HighMark \in Nat /\ QueueMax \in Nat
  /\ LowMark <= HighMark + 1 /\ HighMark < QueueMax
  /\ Cap \in Nat /\ Timeout \in Nat \ {0}
  /\ MaxRequests \in Nat /\ MaxRefresh \in Nat

VARIABLES
  standard, policy,      \* of this channel, fixed
  req,                   \* the requests accepted so far
  readq, writeq, actq,   \* numbers of the requests waiting
  otherq,                \* refresh requests waiting
  pending,               \* reads whose data is on its way, [id, left]
  write_mode,
  left,                  \* left[<<c, b>>]: cycles until bank b can take c
  acts,                  \* cycles until the last four ACTs are nFAW old, the last first
  open,                  \* the open row of each bank that has one
  table,                 \* the controller's own record of them
  sent,                  \* the host has sent a request in this cycle
  ended,                 \* the host has come to the end of its trace
  refreshes              \* refreshes requested so far

vars == <<standard, policy, req, readq, writeq, actq, otherq, pending, write_mode,
          left, acts, open, table, sent, ended, refreshes>>

(* Commands to the rank wait at a place of their own, 0. *)
Slots == (BankScope \X Banks) \cup (RankScope \X {0})

Init ==
  /\ standard \in Timings /\ policy \in Policies
  /\ req = <<>>
  /\ readq = {} /\ writeq = {} /\ actq = {} /\ otherq = 0 /\ pending = <<>>
  /\ write_mode = FALSE
  /\ left = [s \in Slots |-> 0] /\ acts = <<0, 0, 0, 0>>
  /\ open = <<>> /\ table = <<>>
  /\ sent = FALSE /\ ended = FALSE /\ refreshes = 0

-----------------------------------------------------------------------------
Address(r) == <<r.bank, r.row, r.col>>

(* Mutant: a write is only found when writes are being served. *)
EnqueueUnforwarded(r) ==
  /\ ~sent /\ ~ended /\ Len(req) < MaxRequests
  /\ LET id == Len(req) + 1
         queue == IF r.type = "RD" THEN readq ELSE writeq
         forward == r.type = "RD" /\ write_mode /\
                    \E j \in writeq : Address(req[j]) = Address(r)
     IN /\ Cardinality(queue) < QueueMax
        /\ pending' = IF forward THEN Append(pending, [id |-> id, left |-> 1]) ELSE pending
        /\ readq' = IF r.type = "RD" /\ ~forward THEN readq \cup {id} ELSE readq
        /\ writeq' = IF r.type = "WR" THEN writeq \cup {id} ELSE writeq
  /\ req' = Append(req, r)
  /\ sent' = TRUE
  /\ UNCHANGED <<standard, policy, actq, otherq, write_mode, left, acts, open, table, ended,
                 refreshes>>

(* Mutant: a full queue takes one more. *)
EnqueueOneMore(r) ==
  /\ ~sent /\ ~ended /\ Len(req) < MaxRequests
  /\ LET id == Len(req) + 1
         queue == IF r.type = "RD" THEN readq ELSE writeq
         forward == r.type = "RD" /\ \E j \in writeq : Address(req[j]) = Address(r)
     IN /\ Cardinality(queue) <= QueueMax
        /\ pending' = IF forward THEN Append(pending, [id |-> id, left |-> 1]) ELSE pending
        /\ readq' = IF r.type = "RD" /\ ~forward THEN readq \cup {id} ELSE readq
        /\ writeq' = IF r.type = "WR" THEN writeq \cup {id} ELSE writeq
  /\ req' = Append(req, r)
  /\ sent' = TRUE
  /\ UNCHANGED <<standard, policy, actq, otherq, write_mode, left, acts, open, table, ended,
                 refreshes>>

(* A full queue refuses a request, also a read that would not have to wait *)
(* in it: one that a queued write of its address answers in a cycle.       *)
Enqueue(r) ==
  /\ ~sent /\ ~ended /\ Len(req) < MaxRequests
  /\ LET id == Len(req) + 1
         queue == IF r.type = "RD" THEN readq ELSE writeq
         forward == r.type = "RD" /\ \E j \in writeq : Address(req[j]) = Address(r)
     IN /\ Cardinality(queue) < QueueMax
        /\ pending' = IF forward THEN Append(pending, [id |-> id, left |-> 1]) ELSE pending
        /\ readq' = IF r.type = "RD" /\ ~forward THEN readq \cup {id} ELSE readq
        /\ writeq' = IF r.type = "WR" THEN writeq \cup {id} ELSE writeq
  /\ req' = Append(req, r)
  /\ sent' = TRUE
  /\ UNCHANGED <<standard, policy, actq, otherq, write_mode, left, acts, open, table, ended,
                 refreshes>>

(* After its last request the host has the writes drained: any is enough   *)
(* then for them to come first.                                            *)
End ==
  /\ ~sent /\ ~ended
  /\ ended' = TRUE
  /\ UNCHANGED <<standard, policy, req, readq, writeq, actq, otherq, pending, write_mode,
                 left, acts, open, table, sent, refreshes>>

-----------------------------------------------------------------------------
is_row_open(i) == req[i].bank \in DOMAIN open
is_row_hit(i) == is_row_open(i) /\ open[req[i].bank] = req[i].row

(* The first command a request needs, from the state of its bank. *)
get_first_cmd(i) ==
  IF ~is_row_open(i) THEN "ACT" ELSE IF is_row_hit(i) THEN req[i].type ELSE "PRE"

is_ready(i) ==
  /\ left[<<get_first_cmd(i), req[i].bank>>] = 0
  /\ get_first_cmd(i) \in Opening => acts[4] = 0

RefreshCmd == IF DOMAIN open = {} THEN "REF" ELSE "PREA"

get_hits(i) ==
  IF req[i].bank \in DOMAIN table /\ table[req[i].bank].row = req[i].row
  THEN table[req[i].bank].hits ELSE 0

Oldest(queue) == CHOOSE i \in queue : \A j \in queue : i <= j

(* The oldest of the requests a scheduler prefers, else the oldest of all. *)
Best(queue, preferred) == Oldest(IF preferred = {} THEN queue ELSE preferred)

(* Closing the row request i is in the way of would spoil a row hit.       *)
ViolatesHit(i, queue) ==
  /\ is_row_open(i) /\ ~is_row_hit(i)
  /\ \E j \in queue : is_row_hit(j) /\ req[j].bank = req[i].bank

(* The request of a queue that is not empty whose command comes next.      *)
get_head(queue) ==
  LET ready == {i \in queue : is_ready(i)}
      hits == {i \in ready : is_row_hit(i)}
      spared == {i \in queue : ~ViolatesHit(i, queue)}
  IN CASE policy.scheduler = "FCFS" -> Oldest(queue)
       [] policy.scheduler = "FRFCFS" -> Best(queue, ready)
       [] policy.scheduler = "FRFCFS_Cap" -> Best(queue, {i \in ready : get_hits(i) <= Cap})
       [] policy.scheduler = "FRFCFS_PriorHit" ->
            IF hits # {} THEN Oldest(hits) ELSE Best(spared, ready \cap spared)

(* The bank a row policy closes in a cycle without any other command.      *)
Victims ==
  {b \in DOMAIN table : /\ policy.row # "Opened" /\ left[<<"PRE", b>>] = 0
                        /\ policy.row = "Timeout" => table[b].age >= Timeout}

-----------------------------------------------------------------------------
(* Sending command c to a bank b and row r (bank 0: to the rank).          *)
Near(b, d) == IF b = d /\ b # 0 THEN "bank"
              ELSE IF b # 0 /\ d # 0 /\ GroupOf[b] = GroupOf[d] THEN "group" ELSE "rank"

Larger(x, y) == IF x >= y THEN x ELSE y

LeftAfter(c, b) ==
  [s \in Slots |-> Larger(0, Larger(left[s], standard.gap[Near(b, s[2])][c][s[1]]) - 1)]

(* A cycle later, with the last activations moved on by an ACT. *)
ActsAfter(c) ==
  LET last == IF c \in Opening THEN <<standard.faw, acts[1], acts[2], acts[3]>> ELSE acts
  IN [k \in 1 .. 4 |-> Larger(0, last[k] - 1)]

(* The banks a command closes. *)
Closed(c, b) == IF c = "PREA" THEN Banks ELSE IF c \in Closing THEN {b} ELSE {}

With(f, b, x) == [d \in DOMAIN f \cup {b} |-> IF d = b THEN x ELSE f[d]]
Without(f, B) == [d \in DOMAIN f \ B |-> f[d]]

OpenAfter(c, b, r) == IF c \in Opening THEN With(open, b, r) ELSE Without(open, Closed(c, b))

(* Hits and ages are counted as far as a policy looks at them. *)
HitsSeen == IF policy.scheduler = "FRFCFS_Cap" THEN Cap + 1 ELSE 0
AgeSeen == IF policy.row = "Timeout" THEN Timeout ELSE 0
Aged(t) == [b \in DOMAIN t |-> [t[b] EXCEPT !.age = IF @ < AgeSeen THEN @ + 1 ELSE @]]

Touched(e) == [e EXCEPT !.hits = IF @ < HitsSeen THEN @ + 1 ELSE @, !.age = 0]

(* Mutant: a command with auto-precharge leaves the entry behind. *)
TableAfterKept(c, b, r) ==
  IF c \in Opening /\ b \notin DOMAIN table THEN With(table, b, [row |-> r, hits |-> 0, age |-> 0])
  ELSE IF c \in Accessing THEN With(table, b, Touched(table[b]))
  ELSE Without(table, Closed(c, b))

TableAfter(c, b, r) ==
  IF c \in Opening /\ b \notin DOMAIN table THEN With(table, b, [row |-> r, hits |-> 0, age |-> 0])
  ELSE IF c \in Accessing \ Closing THEN With(table, b, Touched(table[b]))
  ELSE Without(table, Closed(c, b))

issue_cmd(c, b, r) ==
  /\ left' = LeftAfter(c, b)
  /\ acts' = ActsAfter(c)
  /\ open' = OpenAfter(c, b, r)
  /\ table' = Aged(TableAfter(c, b, r))

(* With policy ClosedAP the access that seems to be the last to its row    *)
(* closes it: there is one hit in the queue being served, or if none in    *)
(* the activation queue.                                                   *)
cmd_issue_autoprecharge(i, mode) ==
  LET InRow(queue) == {j \in queue : is_row_hit(j) /\ req[j].bank = req[i].bank}
      served == InRow(IF mode THEN writeq ELSE readq)
      hits == IF served = {} THEN InRow(actq) ELSE served
  IN IF policy.row = "ClosedAP" /\ Cardinality(hits) = 1
     THEN IF req[i].type = "RD" THEN "RDA" ELSE "WRA"
     ELSE req[i].type

-----------------------------------------------------------------------------
Many == Cardinality(writeq) > IF ended THEN 0 ELSE HighMark

(* Mutant: writes are served only when there are many. *)
ModeMany == IF write_mode THEN Cardinality(writeq) >= LowMark \/ readq = {} ELSE Many

(* Writes come first while there are many, or no reads.                    *)
Mode ==
  IF write_mode THEN Cardinality(writeq) >= LowMark \/ readq = {}
  ELSE Many \/ readq = {}

(* Completed reads leave pending one a cycle, in the order they were put   *)
(* there.                                                                  *)
Returned ==
  LET aged == [k \in DOMAIN pending |-> [pending[k] EXCEPT !.left = Larger(@ - 1, 0)]]
  IN IF pending # <<>> /\ aged[1].left = 0 THEN Tail(aged) ELSE aged

Precharge(i) ==
  /\ get_first_cmd(i) = "PRE"
  /\ issue_cmd("PRE", req[i].bank, req[i].row)
  /\ pending' = Returned
  /\ UNCHANGED <<readq, writeq, actq>>

Activate(i) ==
  /\ get_first_cmd(i) = "ACT"
  /\ issue_cmd("ACT", req[i].bank, req[i].row)
  /\ actq' = actq \cup {i} /\ readq' = readq \ {i} /\ writeq' = writeq \ {i}
  /\ pending' = Returned

Complete(i, mode) ==
  /\ get_first_cmd(i) = req[i].type
  /\ issue_cmd(cmd_issue_autoprecharge(i, mode), req[i].bank, req[i].row)
  /\ actq' = actq \ {i} /\ readq' = readq \ {i} /\ writeq' = writeq \ {i}
  /\ pending' = IF req[i].type = "WR" THEN Returned
                ELSE Append(Returned, [id |-> i, left |-> standard.latency])

Serve(i, mode) == is_ready(i) /\ (Precharge(i) \/ Activate(i) \/ Complete(i, mode))

RefreshReady == left[<<RefreshCmd, 0>>] = 0

Refresh(waiting) ==
  /\ RefreshReady
  /\ issue_cmd(RefreshCmd, 0, 0)
  /\ otherq' = IF RefreshCmd = "REF" THEN waiting - 1 ELSE waiting
  /\ pending' = Returned
  /\ UNCHANGED <<readq, writeq, actq>>

(* Nothing can be sent: the row policy may close a row. *)
Speculate ==
  /\ IF Victims # {} THEN issue_cmd("PRE", Oldest(Victims), 0)
     ELSE /\ left' = [s \in Slots |-> Larger(0, left[s] - 1)]
          /\ acts' = [k \in 1 .. 4 |-> Larger(0, acts[k] - 1)]
          /\ table' = Aged(table)
          /\ UNCHANGED open
  /\ pending' = Returned
  /\ UNCHANGED <<readq, writeq, actq>>

(* One cycle: the activation queue first, then refreshes, then the queue   *)
(* of the mode.                                                            *)
Tick ==
  \E due \in {0, 1} :
    /\ refreshes + due <= MaxRefresh /\ refreshes' = refreshes + due
    /\ write_mode' = Mode
    /\ LET waiting == otherq + due
           queue == IF Mode THEN writeq ELSE readq
           actReady == actq # {} /\ is_ready(get_head(actq))
           queueReady == queue # {} /\ is_ready(get_head(queue))
       IN \/ actReady /\ Serve(get_head(actq), Mode) /\ otherq' = waiting
          \/ ~actReady /\ waiting > 0 /\ Refresh(waiting)
          \/ ~actReady /\ waiting = 0 /\ queueReady /\ Serve(get_head(queue), Mode)
               /\ otherq' = waiting
          \/ /\ ~actReady /\ IF waiting > 0 THEN ~RefreshReady ELSE ~queueReady
             /\ Speculate /\ otherq' = waiting
    /\ sent' = FALSE
    /\ UNCHANGED <<standard, policy, req, ended>>

Next == Tick \/ End \/ \E r \in Requests : Enqueue(r)

(* The simulation ticks until nothing is pending; the host owes nothing.   *)
Spec == Init /\ [][Next]_vars /\ WF_vars(Tick)

-----------------------------------------------------------------------------
TypeOK ==
  /\ policy \in Policies
  /\ req \in Seq(Requests) /\ Len(req) <= MaxRequests
  /\ readq \subseteq 1 .. Len(req) /\ Cardinality(readq) <= QueueMax
  /\ writeq \subseteq 1 .. Len(req) /\ Cardinality(writeq) <= QueueMax
  /\ actq \subseteq 1 .. Len(req)
  /\ otherq \in 0 .. MaxRefresh /\ refreshes \in 0 .. MaxRefresh
  /\ pending \in Seq([id : 1 .. Len(req), left : Nat])
  /\ write_mode \in BOOLEAN /\ sent \in BOOLEAN /\ ended \in BOOLEAN
  /\ left \in [Slots -> Nat] /\ acts \in [1 .. 4 -> Nat]
  /\ DOMAIN open \subseteq Banks /\ DOMAIN table \subseteq Banks

(* The controller's row table and the banks never disagree, whatever the   *)
(* policy closes and by which command: a row is recorded for a bank just   *)
(* when it is open.  The assertions of RowTable::update and of the         *)
(* auto-precharge rest on it.                                              *)
RowsAgree ==
  /\ DOMAIN table = DOMAIN open
  /\ \A b \in DOMAIN open : table[b].row = open[b]

(* Reads and writes pass each other, so a read must not go to the DRAM     *)
(* while an older write of its address waits in the write queue: it would  *)
(* fetch what that write is about to replace.  (A write that has moved to  *)
(* the activation queue is not looked for.)                                *)
Coherent ==
  \A i \in readq \cup actq, j \in writeq :
    (req[i].type = "RD" /\ Address(req[i]) = Address(req[j])) => i < j

(* Every request accepted is served, and the data of every read returns,   *)
(* under all policies: none of the preferences starves a request.  As a    *)
(* run has finitely many requests, in the end none is left.                *)
Waiting == readq \cup writeq \cup actq \cup {pending[k].id : k \in DOMAIN pending}
Answered == <>[](Waiting = {})
=============================================================================
