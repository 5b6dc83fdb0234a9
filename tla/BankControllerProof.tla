------------------------ MODULE BankControllerProof ------------------------
(***************************************************************************)
(* Proofs about the controller of a single-bank channel, for every set of  *)
(* standards, of banks, of requests and of policies, any number of         *)
(* refreshes and any capacity of the queues.                               *)
(*                                                                         *)
(* That a request waits in the queue of its type is what both properties   *)
(* rest on: only a read or a write ever accesses a row, and the bank it    *)
(* goes to has the row open; and what is a read stays out of the writes.   *)
(***************************************************************************)
EXTENDS BankController, TLAPS, FiniteSetTheorems, SequenceTheorems,
        WellFoundedInduction

Rows == {r.row : r \in Requests}
Cmd == BankScope \cup RankScope

(* The standard is one of those considered, and refreshes are counted.     *)
Chosen == standard \in Timings /\ otherq <= refreshes

(* A request waits in the queue of its type, until it is activated.        *)
Sorted ==
  /\ \A i \in readq : req[i].type = "RD"
  /\ \A i \in writeq : req[i].type = "WR"

(* What the row table records of a bank. *)
Entries ==
  \A b \in DOMAIN table : table[b] \in [row : Rows, hits : Nat, age : Nat]

IInv == TypeOK /\ Chosen /\ Sorted /\ Entries /\ RowsAgree /\ Coherent

-----------------------------------------------------------------------------
(* The least number of a queue, as the scheduler's loop finds it.          *)
LEMMA OldestIn ==
  ASSUME NEW queue \in SUBSET Nat, queue # {}
  PROVE  Oldest(queue) \in queue
<1> DEFINE Before == OpToRel(<, Nat)
<1>1. \A a, b \in Nat : a < b => <<a, b>> \in Before
  BY DEF OpToRel
<1> HIDE DEF Before
<1>2. PICK i \in queue : \A j \in queue : ~ (<<j, i>> \in Before)
  <2>1. IsWellFoundedOn(Before, Nat)
    BY NatLessThanWellFounded DEF Before
  <2>2. QED
    BY <2>1, WFMin
<1>3. ASSUME NEW j \in queue PROVE i <= j
  <2>1. i \in Nat /\ j \in Nat /\ ~ (<<j, i>> \in Before)
    BY <1>2
  <2>2. ~ (j < i)
    BY <1>1, <2>1
  <2>3. QED
    BY <2>1, <2>2
<1>4. QED
  BY <1>3, Zenon DEF Oldest

LEMMA BestIn ==
  ASSUME NEW queue \in SUBSET Nat, queue # {}, NEW preferred \in SUBSET queue
  PROVE  Best(queue, preferred) \in queue
<1>1. CASE preferred = {}
  BY <1>1, OldestIn DEF Best
<1>2. CASE preferred # {}
  <2>1. Oldest(preferred) \in preferred
    BY <1>2, OldestIn
  <2>2. QED
    BY <1>2, <2>1 DEF Best
<1>3. QED
  BY <1>1, <1>2

(* Every scheduler takes one of the requests of the queue it looks at.     *)
(* FRFCFS_PriorHit always has one to take: a request whose row is in the   *)
(* way of a row hit leaves that hit, which is in nobody's way.             *)
LEMMA HeadIn ==
  ASSUME TypeOK, NEW queue \in SUBSET Nat, queue # {}
  PROVE  get_head(queue) \in queue
<1> DEFINE ready == {i \in queue : is_ready(i)}
           hits == {i \in ready : is_row_hit(i)}
           spared == {i \in queue : ~ViolatesHit(i, queue)}
           low == {i \in ready : get_hits(i) <= Cap}
<1>1. policy.scheduler \in Schedulers
  BY BankControllerAssumption DEF TypeOK
<1>2. CASE policy.scheduler = "FCFS"
  BY <1>2, OldestIn DEF get_head
<1>3. CASE policy.scheduler = "FRFCFS"
  <2>1. Best(queue, ready) \in queue
    BY BestIn
  <2>2. QED
    BY <1>3, <2>1 DEF get_head
<1>4. CASE policy.scheduler = "FRFCFS_Cap"
  <2>1. Best(queue, low) \in queue
    BY BestIn
  <2>2. QED
    BY <1>4, <2>1 DEF get_head
<1>5. CASE policy.scheduler = "FRFCFS_PriorHit"
  <2>1. spared # {}
    <3>1. CASE \E i \in queue : ViolatesHit(i, queue)
      <4>1. PICK j \in queue : is_row_hit(j)
        BY <3>1 DEF ViolatesHit
      <4>2. QED
        BY <4>1 DEF ViolatesHit
    <3>2. QED
      BY <3>1
  <2>2. Best(spared, ready \cap spared) \in spared
    BY <2>1, BestIn
  <2>3. hits # {} => Oldest(hits) \in hits
    BY OldestIn
  <2>4. get_head(queue) = IF hits # {} THEN Oldest(hits) ELSE Best(spared, ready \cap spared)
    BY <1>5 DEF get_head
  <2>5. QED
    BY <2>2, <2>3, <2>4
<1>6. QED
  BY <1>1, <1>2, <1>3, <1>4, <1>5 DEF Schedulers

(* A request that waits is a read or a write of a bank and a row.          *)
LEMMA RequestTypes ==
  ASSUME TypeOK, NEW i \in 1 .. Len(req)
  PROVE  /\ req[i] \in Requests /\ req[i].type \in {"RD", "WR"}
         /\ req[i].bank \in Banks /\ req[i].row \in Rows
BY BankControllerAssumption DEF TypeOK, Rows

-----------------------------------------------------------------------------
(* Sending a command.  A row is opened in a bank that has none, and        *)
(* accessed where it is open; then rows and table stay the same thing.     *)
LEMMA IssueKeeps ==
  ASSUME IInv, NEW c \in Cmd, NEW b, NEW r, issue_cmd(c, b, r),
         c \in Opening => b \in Banks \ DOMAIN open /\ r \in Rows,
         c \in Accessing => b \in DOMAIN open
  PROVE  /\ left' \in [Slots -> Nat] /\ acts' \in [1 .. 4 -> Nat]
         /\ DOMAIN open' \subseteq Banks /\ DOMAIN table' \subseteq Banks
         /\ Entries' /\ RowsAgree'
<1> DEFINE Entry == [row : Rows, hits : Nat, age : Nat]
           T == TableAfter(c, b, r)
<1>1. /\ DOMAIN table = DOMAIN open /\ DOMAIN open \subseteq Banks
      /\ \A d \in DOMAIN open : table[d].row = open[d] /\ table[d] \in Entry
  BY DEF IInv, TypeOK, RowsAgree, Entries
<1>2. left' \in [Slots -> Nat]
  <2>1. left \in [Slots -> Nat] /\ standard \in Timings
    BY DEF IInv, TypeOK, Chosen
  <2>2. ASSUME NEW s \in Slots
        PROVE  standard.gap[Near(b, s[2])][c][s[1]] \in Nat
    <3>1. s[1] \in Cmd /\ Near(b, s[2]) \in {"rank", "group", "bank"}
      BY DEF Slots, Cmd, Near
    <3>2. standard.gap \in [{"rank", "group", "bank"} -> [Cmd -> [Cmd -> Nat]]]
      BY <2>1, BankControllerAssumption DEF Cmd
    <3>3. QED
      BY <3>1, <3>2
  <2>3. ASSUME NEW s \in Slots
        PROVE  Larger(0, Larger(left[s], standard.gap[Near(b, s[2])][c][s[1]]) - 1) \in Nat
    BY <2>1, <2>2 DEF Larger
  <2>4. left' = LeftAfter(c, b)
    BY DEF issue_cmd
  <2>5. QED
    BY <2>3, <2>4 DEF LeftAfter
<1>3. ASSUME NEW e \in Entry
      PROVE  Touched(e) \in Entry /\ Touched(e).row = e.row
  <2> DEFINE seen == IF e.hits < HitsSeen THEN e.hits + 1 ELSE e.hits
  <2>1. seen \in Nat
    BY BankControllerAssumption DEF HitsSeen
  <2> HIDE DEF seen
  <2>2. \A x \in Entry : /\ [x EXCEPT !.hits = seen, !.age = 0] \in Entry
                         /\ [x EXCEPT !.hits = seen, !.age = 0].row = x.row
    BY <2>1
  <2>3. Touched(e) = [e EXCEPT !.hits = seen, !.age = 0]
    BY DEF Touched, seen
  <2>4. QED
    BY <2>2, <2>3
<1>4. /\ DOMAIN T = DOMAIN OpenAfter(c, b, r) /\ DOMAIN T \subseteq Banks
      /\ \A d \in DOMAIN T : T[d] \in Entry /\ T[d].row = OpenAfter(c, b, r)[d]
  <2>1. CASE c \in Opening
    <3>1. /\ T = With(table, b, [row |-> r, hits |-> 0, age |-> 0])
          /\ OpenAfter(c, b, r) = With(open, b, r)
          /\ b \in Banks /\ r \in Rows /\ b \notin DOMAIN open
      BY <1>1, <2>1 DEF TableAfter, OpenAfter
    <3>2. QED
      BY <1>1, <3>1 DEF With
  <2>2. CASE c \in Accessing \ Closing
    <3>1. /\ T = With(table, b, Touched(table[b]))
          /\ OpenAfter(c, b, r) = Without(open, {})
          /\ b \in DOMAIN open
      BY <2>2 DEF TableAfter, OpenAfter, Opening, Accessing, Closing, Closed
    <3>2. Touched(table[b]) \in Entry /\ Touched(table[b]).row = open[b]
      BY <1>1, <1>3, <3>1
    <3>3. QED
      BY <1>1, <3>1, <3>2 DEF With, Without
  <2>3. CASE c \notin Opening /\ c \notin Accessing \ Closing
    <3>1. /\ T = Without(table, Closed(c, b))
          /\ OpenAfter(c, b, r) = Without(open, Closed(c, b))
      BY <2>3 DEF TableAfter, OpenAfter
    <3>2. QED
      BY <1>1, <3>1 DEF Without
  <2>4. QED
    BY <2>1, <2>2, <2>3
<1>5. open' = OpenAfter(c, b, r) /\ table' = Aged(T)
  BY DEF issue_cmd
<1> HIDE DEF T
<1>6. /\ DOMAIN Aged(T) = DOMAIN T
      /\ \A d \in DOMAIN T : Aged(T)[d] \in Entry /\ Aged(T)[d].row = T[d].row
  BY <1>4 DEF Aged
<1>7. acts' \in [1 .. 4 -> Nat]
  <2> DEFINE last == IF c \in Opening THEN <<standard.faw, acts[1], acts[2], acts[3]>> ELSE acts
  <2>1. acts \in [1 .. 4 -> Nat] /\ standard.faw \in Nat
    BY BankControllerAssumption DEF IInv, TypeOK, Chosen
  <2>2. last \in [1 .. 4 -> Nat]
    BY <2>1
  <2>3. acts' = [k \in 1 .. 4 |-> Larger(0, last[k] - 1)]
    BY DEF issue_cmd, ActsAfter
  <2> HIDE DEF last
  <2>4. QED
    BY <2>2, <2>3 DEF Larger
<1>8. QED
  BY <1>2, <1>4, <1>5, <1>6, <1>7 DEF Entries, RowsAgree

-----------------------------------------------------------------------------
(* The types over a cycle. *)
LEMMA ReturnedTypes ==
  ASSUME TypeOK
  PROVE  Returned \in Seq([id : 1 .. Len(req), left : Nat])
<1> DEFINE P == [id : 1 .. Len(req), left : Nat]
           aged == [k \in DOMAIN pending |-> [pending[k] EXCEPT !.left = Larger(@ - 1, 0)]]
<1>1. pending \in Seq(P)
  BY DEF TypeOK
<1> HIDE DEF P
<1>2. aged \in Seq(P)
  <2>1. ASSUME NEW k \in DOMAIN pending
        PROVE  [pending[k] EXCEPT !.left = Larger(@ - 1, 0)] \in P
    <3>1. pending[k] \in P
      BY <1>1
    <3>2. Larger(pending[k].left - 1, 0) \in Nat
      BY <3>1 DEF Larger, P
    <3>3. QED
      BY <3>1, <3>2 DEF P
  <2>2. DOMAIN pending = 1 .. Len(pending) /\ Len(pending) \in Nat
    BY <1>1
  <2>3. QED
    BY <2>1, <2>2
<1>3. CASE pending # <<>> /\ aged[1].left = 0
  <2>1. aged # <<>>
    BY <1>1, <1>2, <1>3
  <2>2. Tail(aged) \in Seq(P)
    BY <1>2, <2>1
  <2>3. Returned = Tail(aged)
    BY <1>3 DEF Returned
  <2>4. QED
    BY <2>2, <2>3 DEF P
<1>4. CASE ~(pending # <<>> /\ aged[1].left = 0)
  <2>1. Returned = aged
    BY <1>4 DEF Returned
  <2>2. QED
    BY <1>2, <2>1 DEF P
<1>5. QED
  BY <1>3, <1>4

LEMMA QueueShrinks ==
  ASSUME NEW n \in Nat, NEW queue \in SUBSET (1 .. n),
         NEW rest \in SUBSET queue, Cardinality(queue) <= QueueMax
  PROVE  Cardinality(rest) <= QueueMax
<1>1. IsFiniteSet(queue)
  <2>1. IsFiniteSet(1 .. n)
    BY FS_Interval
  <2>2. QED
    BY <2>1, FS_Subset
<1>2. Cardinality(rest) <= Cardinality(queue) /\ IsFiniteSet(rest)
  BY <1>1, FS_Subset
<1>3. Cardinality(rest) \in Nat /\ Cardinality(queue) \in Nat
  BY <1>1, <1>2, FS_CardinalityType
<1>4. QED
  BY <1>2, <1>3, BankControllerAssumption

(* The strengthened invariant over a cycle, from what the cycle does to    *)
(* queues and rows.                                                        *)
LEMMA CycleKeeps ==
  ASSUME IInv, NEW due \in {0, 1}, refreshes + due <= MaxRefresh,
         refreshes' = refreshes + due, otherq' \in 0 .. otherq + due,
         write_mode' = Mode, sent' = FALSE,
         UNCHANGED <<standard, policy, req, ended>>,
         readq' \subseteq readq, writeq' \subseteq writeq,
         actq' \subseteq actq \cup readq \cup writeq,
         pending' \in Seq([id : 1 .. Len(req), left : Nat]),
         left' \in [Slots -> Nat], acts' \in [1 .. 4 -> Nat],
         DOMAIN open' \subseteq Banks, DOMAIN table' \subseteq Banks,
         Entries', RowsAgree'
  PROVE  IInv'
<1>1. TypeOK /\ Chosen /\ Sorted /\ Coherent /\ Len(req) \in Nat
  <2>1. TypeOK /\ Chosen /\ Sorted /\ Coherent
    BY DEF IInv
  <2>2. req \in Seq(Requests)
    BY <2>1 DEF TypeOK
  <2>3. QED
    BY <2>1, <2>2
<1>2. Cardinality(readq') <= QueueMax /\ Cardinality(writeq') <= QueueMax
  BY <1>1, QueueShrinks DEF TypeOK
<1>3. write_mode' \in BOOLEAN
  BY <1>1 DEF TypeOK, Mode, Many
<1>4. otherq' \in 0 .. MaxRefresh /\ refreshes' \in 0 .. MaxRefresh /\ otherq' <= refreshes'
  <2>1. otherq <= refreshes
    BY <1>1 DEF Chosen
  <2>2. otherq \in Nat /\ refreshes \in Nat
    BY <1>1 DEF TypeOK
  <2>3. QED
    BY <2>1, <2>2, BankControllerAssumption
<1>5. TypeOK'
  <2>1. /\ policy' \in Policies /\ req' \in Seq(Requests) /\ Len(req') <= MaxRequests
    BY <1>1 DEF TypeOK
  <2>2. /\ readq' \subseteq 1 .. Len(req') /\ writeq' \subseteq 1 .. Len(req')
        /\ actq' \subseteq 1 .. Len(req')
        /\ pending' \in Seq([id : 1 .. Len(req'), left : Nat])
    BY <1>1 DEF TypeOK
  <2>3. sent' \in BOOLEAN /\ ended' \in BOOLEAN
    BY <1>1, Zenon DEF TypeOK
  <2>4. QED
    BY <1>2, <1>3, <1>4, <2>1, <2>2, <2>3 DEF TypeOK
<1>6. Chosen' /\ Sorted'
  BY <1>1, <1>4 DEF Chosen, Sorted
<1>7. Coherent'
  <2>1. SUFFICES ASSUME NEW i \in readq' \cup actq', NEW j \in writeq',
                        req[i].type = "RD", Address(req[i]) = Address(req[j])
                 PROVE  i < j
    BY DEF Coherent, Address
  <2>2. i \in readq \cup actq /\ j \in writeq
    <3>1. i \notin writeq
      BY <1>1, <2>1 DEF Sorted
    <3>2. QED
      BY <2>1, <3>1
  <2>3. QED
    BY <1>1, <2>1, <2>2 DEF Coherent
<1>8. QED
  BY <1>5, <1>6, <1>7 DEF IInv

(* Serving a request that waits, whatever its next command is.             *)
LEMMA ServeKeeps ==
  ASSUME IInv, NEW i \in readq \cup writeq \cup actq, NEW m, Serve(i, m)
  PROVE  /\ readq' \subseteq readq /\ writeq' \subseteq writeq
         /\ actq' \subseteq actq \cup readq \cup writeq
         /\ pending' \in Seq([id : 1 .. Len(req), left : Nat])
         /\ left' \in [Slots -> Nat] /\ acts' \in [1 .. 4 -> Nat]
         /\ DOMAIN open' \subseteq Banks /\ DOMAIN table' \subseteq Banks
         /\ Entries' /\ RowsAgree'
<1>1. TypeOK /\ i \in 1 .. Len(req) /\ Len(req) \in Nat
  <2>1. TypeOK
    BY DEF IInv
  <2>2. /\ readq \subseteq 1 .. Len(req) /\ writeq \subseteq 1 .. Len(req)
        /\ actq \subseteq 1 .. Len(req) /\ Len(req) \in Nat
    BY <2>1 DEF TypeOK
  <2>3. QED
    BY <2>1, <2>2
<1>2. req[i].type \in {"RD", "WR"} /\ req[i].bank \in Banks /\ req[i].row \in Rows
  BY <1>1, RequestTypes
<1>3. Returned \in Seq([id : 1 .. Len(req), left : Nat])
  BY <1>1, ReturnedTypes
<1>4. CASE Precharge(i)
  <2>1. issue_cmd("PRE", req[i].bank, req[i].row) /\ pending' = Returned
        /\ UNCHANGED <<readq, writeq, actq>>
    BY <1>4 DEF Precharge
  <2>2. "PRE" \in Cmd /\ "PRE" \notin Opening /\ "PRE" \notin Accessing
    BY DEF Cmd, BankScope, Opening, Accessing
  <2>3. QED
    BY <1>3, <2>1, <2>2, IssueKeeps
<1>5. CASE Activate(i)
  <2>1. issue_cmd("ACT", req[i].bank, req[i].row) /\ pending' = Returned
        /\ actq' = actq \cup {i} /\ readq' = readq \ {i} /\ writeq' = writeq \ {i}
    BY <1>5 DEF Activate
  <2>2. req[i].bank \notin DOMAIN open
    BY <1>2, <1>5 DEF Activate, get_first_cmd, is_row_open
  <2>3. "ACT" \in Cmd /\ "ACT" \notin Accessing
    BY DEF Cmd, BankScope, Accessing
  <2>4. QED
    BY <1>2, <1>3, <2>1, <2>2, <2>3, IssueKeeps
<1>6. CASE Complete(i, m)
  <2> DEFINE c == cmd_issue_autoprecharge(i, m)
             P == [id : 1 .. Len(req), left : Nat]
  <2>1. /\ issue_cmd(c, req[i].bank, req[i].row)
        /\ actq' = actq \ {i} /\ readq' = readq \ {i} /\ writeq' = writeq \ {i}
        /\ pending' \in {Returned, Append(Returned, [id |-> i, left |-> standard.latency])}
    BY <1>6 DEF Complete
  <2>2. req[i].bank \in DOMAIN open
    BY <1>2, <1>6 DEF Complete, get_first_cmd, is_row_open
  <2>3. c \in Accessing /\ c \in Cmd /\ c \notin Opening
    <3>1. c \in {"RD", "WR", "RDA", "WRA"}
      BY <1>2, Zenon DEF cmd_issue_autoprecharge
    <3>2. QED
      BY <3>1 DEF Accessing, Cmd, BankScope, Opening
  <2>4. pending' \in Seq(P)
    <3>1. standard.latency \in Nat
      BY BankControllerAssumption DEF IInv, Chosen
    <3>2. [id |-> i, left |-> standard.latency] \in P
      BY <1>1, <3>1
    <3> HIDE DEF P
    <3>3. Append(Returned, [id |-> i, left |-> standard.latency]) \in Seq(P)
      BY <1>3, <3>2 DEF P
    <3>4. QED
      BY <1>3, <2>1, <3>3 DEF P
  <2> HIDE DEF c
  <2>5. QED
    BY <2>1, <2>2, <2>3, <2>4, IssueKeeps
<1>7. QED
  BY <1>4, <1>5, <1>6 DEF Serve

LEMMA RefreshKeeps ==
  ASSUME IInv, NEW n, Refresh(n)
  PROVE  /\ UNCHANGED <<readq, writeq, actq>>
         /\ pending' \in Seq([id : 1 .. Len(req), left : Nat])
         /\ left' \in [Slots -> Nat] /\ acts' \in [1 .. 4 -> Nat]
         /\ DOMAIN open' \subseteq Banks /\ DOMAIN table' \subseteq Banks
         /\ Entries' /\ RowsAgree'
<1>1. RefreshCmd \in {"REF", "PREA"}
  BY DEF RefreshCmd
<1>2. RefreshCmd \in Cmd /\ RefreshCmd \notin Opening /\ RefreshCmd \notin Accessing
  BY <1>1 DEF Cmd, RankScope, Opening, Accessing
<1>3. issue_cmd(RefreshCmd, 0, 0) /\ pending' = Returned /\ UNCHANGED <<readq, writeq, actq>>
  BY DEF Refresh
<1>4. Returned \in Seq([id : 1 .. Len(req), left : Nat])
  BY ReturnedTypes DEF IInv
<1>5. QED
  BY <1>2, <1>3, <1>4, IssueKeeps

LEMMA SpeculateKeeps ==
  ASSUME IInv, Speculate
  PROVE  /\ UNCHANGED <<readq, writeq, actq>>
         /\ pending' \in Seq([id : 1 .. Len(req), left : Nat])
         /\ left' \in [Slots -> Nat] /\ acts' \in [1 .. 4 -> Nat]
         /\ DOMAIN open' \subseteq Banks /\ DOMAIN table' \subseteq Banks
         /\ Entries' /\ RowsAgree'
<1>1. pending' = Returned /\ UNCHANGED <<readq, writeq, actq>>
  BY DEF Speculate
<1>2. Returned \in Seq([id : 1 .. Len(req), left : Nat])
  BY ReturnedTypes DEF IInv
<1>3. CASE Victims # {}
  <2>1. "PRE" \in Cmd /\ "PRE" \notin Opening /\ "PRE" \notin Accessing
    BY DEF Cmd, BankScope, Opening, Accessing
  <2>2. issue_cmd("PRE", Oldest(Victims), 0)
    BY <1>3 DEF Speculate
  <2>3. QED
    BY <1>1, <1>2, <2>1, <2>2, IssueKeeps
<1>4. CASE Victims = {}
  <2>1. /\ left' = [s \in Slots |-> Larger(0, left[s] - 1)]
        /\ acts' = [k \in 1 .. 4 |-> Larger(0, acts[k] - 1)]
        /\ table' = Aged(table) /\ open' = open
    BY <1>4 DEF Speculate
  <2>2. left' \in [Slots -> Nat] /\ acts' \in [1 .. 4 -> Nat]
    <3>1. left \in [Slots -> Nat] /\ acts \in [1 .. 4 -> Nat]
      BY DEF IInv, TypeOK
    <3>2. \A n \in Nat : Larger(0, n - 1) \in Nat
      BY DEF Larger
    <3>3. QED
      BY <2>1, <3>1, <3>2
  <2>3. /\ DOMAIN Aged(table) = DOMAIN table
        /\ \A b \in DOMAIN table :
             /\ Aged(table)[b] \in [row : Rows, hits : Nat, age : Nat]
             /\ Aged(table)[b].row = table[b].row
    BY DEF Aged, IInv, Entries
  <2>4. QED
    BY <1>1, <1>2, <2>1, <2>2, <2>3 DEF IInv, TypeOK, Entries, RowsAgree
<1>5. QED
  BY <1>3, <1>4

LEMMA TickKeeps ==
  ASSUME IInv, Tick
  PROVE  IInv'
<1> DEFINE queue == IF Mode THEN writeq ELSE readq
           actReady == actq # {} /\ is_ready(get_head(actq))
           queueReady == queue # {} /\ is_ready(get_head(queue))
<1>1. PICK due \in {0, 1} :
        /\ refreshes + due <= MaxRefresh /\ refreshes' = refreshes + due
        /\ write_mode' = Mode /\ sent' = FALSE
        /\ UNCHANGED <<standard, policy, req, ended>>
        /\ \/ actReady /\ Serve(get_head(actq), Mode) /\ otherq' = otherq + due
           \/ ~actReady /\ otherq + due > 0 /\ Refresh(otherq + due)
           \/ queueReady /\ Serve(get_head(queue), Mode) /\ otherq' = otherq + due
           \/ Speculate /\ otherq' = otherq + due
  BY DEF Tick
<1>2. TypeOK /\ otherq \in Nat
  BY DEF IInv, TypeOK
<1>3. queue \in SUBSET Nat /\ actq \in SUBSET Nat
  BY <1>2 DEF TypeOK
<1> HIDE DEF queue
<1>4. CASE actReady /\ Serve(get_head(actq), Mode) /\ otherq' = otherq + due
  <2>1. get_head(actq) \in actq
    BY <1>2, <1>3, <1>4, HeadIn
  <2>2. otherq' \in 0 .. otherq + due
    BY <1>2, <1>4
  <2>3. QED
    BY <1>1, <1>4, <2>1, <2>2, ServeKeeps, CycleKeeps
<1>5. CASE otherq + due > 0 /\ Refresh(otherq + due)
  <2>1. otherq' \in 0 .. otherq + due
    BY <1>2, <1>5 DEF Refresh
  <2>2. QED
    BY <1>1, <1>5, <2>1, RefreshKeeps, CycleKeeps
<1>6. CASE queueReady /\ Serve(get_head(queue), Mode) /\ otherq' = otherq + due
  <2>1. get_head(queue) \in queue
    BY <1>2, <1>3, <1>6, HeadIn
  <2>2. get_head(queue) \in readq \cup writeq
    BY <2>1 DEF queue
  <2>3. otherq' \in 0 .. otherq + due
    BY <1>2, <1>6
  <2>4. QED
    BY <1>1, <1>6, <2>2, <2>3, ServeKeeps, CycleKeeps
<1>7. CASE Speculate /\ otherq' = otherq + due
  <2>1. otherq' \in 0 .. otherq + due
    BY <1>2, <1>7
  <2>2. QED
    BY <1>1, <1>7, <2>1, SpeculateKeeps, CycleKeeps
<1>8. QED
  BY <1>1, <1>4, <1>5, <1>6, <1>7

-----------------------------------------------------------------------------
(* A new request is younger than all that wait, and a read that one of the *)
(* queued writes has to come before does not join them.                    *)
LEMMA EnqueueKeeps ==
  ASSUME IInv, NEW r \in Requests, Enqueue(r)
  PROVE  IInv'
<1> DEFINE id == Len(req) + 1
           queue == IF r.type = "RD" THEN readq ELSE writeq
           forward == r.type = "RD" /\ \E j \in writeq : Address(req[j]) = Address(r)
           P == [id : 1 .. Len(req), left : Nat]
           PP == [id : 1 .. id, left : Nat]
<1>1. TypeOK /\ Chosen /\ Sorted /\ Entries /\ RowsAgree /\ Coherent
  BY DEF IInv
<1>2. /\ Len(req) \in Nat /\ req \in Seq(Requests) /\ Len(req) < MaxRequests
      /\ r.type \in {"RD", "WR"}
  BY <1>1, BankControllerAssumption DEF Enqueue, TypeOK
<1>3. /\ Cardinality(queue) < QueueMax
      /\ pending' = IF forward THEN Append(pending, [id |-> id, left |-> 1]) ELSE pending
      /\ readq' = IF r.type = "RD" /\ ~forward THEN readq \cup {id} ELSE readq
      /\ writeq' = IF r.type = "WR" THEN writeq \cup {id} ELSE writeq
      /\ req' = Append(req, r) /\ sent' = TRUE
      /\ UNCHANGED <<standard, policy, actq, otherq, write_mode, left, acts, open, table, ended,
                     refreshes>>
  BY DEF Enqueue
<1>4. /\ req' \in Seq(Requests) /\ Len(req') = id /\ req'[id] = r
      /\ \A i \in 1 .. Len(req) : req'[i] = req[i]
  BY <1>2, <1>3
<1>5. readq \subseteq 1 .. Len(req) /\ writeq \subseteq 1 .. Len(req) /\ actq \subseteq 1 .. Len(req)
  BY <1>1 DEF TypeOK
<1> HIDE DEF forward
<1>6. Cardinality(readq') <= QueueMax /\ Cardinality(writeq') <= QueueMax
  <2>1. ASSUME NEW q \in SUBSET (1 .. Len(req)), Cardinality(q) < QueueMax
        PROVE  Cardinality(q \cup {id}) <= QueueMax
    <3>1. IsFiniteSet(q)
      <4>1. IsFiniteSet(1 .. Len(req))
        BY <1>2, FS_Interval
      <4>2. QED
        BY <4>1, FS_Subset
    <3>2. Cardinality(q \cup {id}) \in {Cardinality(q), Cardinality(q) + 1}
      BY <3>1, FS_AddElement
    <3>3. Cardinality(q) \in Nat
      BY <3>1, FS_CardinalityType
    <3>4. QED
      BY <2>1, <3>2, <3>3, BankControllerAssumption
  <2>2. Cardinality(readq) <= QueueMax /\ Cardinality(writeq) <= QueueMax
    BY <1>1 DEF TypeOK
  <2>3. CASE r.type = "RD"
    BY <1>3, <1>5, <2>1, <2>2, <2>3
  <2>4. CASE r.type = "WR"
    BY <1>3, <1>5, <2>1, <2>2, <2>4
  <2>5. QED
    BY <1>2, <2>3, <2>4
<1>7. pending' \in Seq(PP)
  <2>1. pending \in Seq(P)
    BY <1>1 DEF TypeOK
  <2>2. \A p \in P : p \in PP
    BY <1>2
  <2>3. [id |-> id, left |-> 1] \in PP
    BY <1>2
  <2> HIDE DEF P, PP
  <2>4. pending \in Seq(PP)
    BY <2>1, <2>2
  <2>5. QED
    BY <1>3, <2>3, <2>4
<1>8. TypeOK'
  <2>1. Len(req') <= MaxRequests
    BY <1>2, <1>4, BankControllerAssumption
  <2>2. readq' \subseteq 1 .. Len(req') /\ writeq' \subseteq 1 .. Len(req')
        /\ actq' \subseteq 1 .. Len(req')
    <3>1. readq' \subseteq readq \cup {id} /\ writeq' \subseteq writeq \cup {id} /\ actq' = actq
      BY <1>3
    <3>2. 1 .. Len(req) \subseteq 1 .. id /\ id \in 1 .. id
      BY <1>2
    <3>3. QED
      BY <1>4, <1>5, <3>1, <3>2
  <2>3. pending' \in Seq([id : 1 .. Len(req'), left : Nat])
    BY <1>4, <1>7
  <2>4. QED
    BY <1>1, <1>3, <1>4, <1>6, <2>1, <2>2, <2>3 DEF TypeOK
<1>9. Sorted'
  BY <1>1, <1>3, <1>4, <1>5 DEF Sorted
<1>10. Chosen' /\ Entries' /\ RowsAgree'
  BY <1>1, <1>3 DEF Chosen, Entries, RowsAgree
<1>11. Coherent'
  <2>1. SUFFICES ASSUME NEW i \in readq' \cup actq', NEW j \in writeq',
                        req'[i].type = "RD", Address(req'[i]) = Address(req'[j])
                 PROVE  i < j
    BY DEF Coherent, Address
  <2>2. CASE i # id /\ j # id
    <3>1. i \in readq \cup actq /\ j \in writeq
      BY <1>3, <2>2
    <3>2. req'[i] = req[i] /\ req'[j] = req[j]
      BY <1>4, <1>5, <3>1
    <3>3. QED
      BY <1>1, <2>1, <3>1, <3>2 DEF Coherent
  <2>3. CASE i = id
    <3>1. i \notin readq \cup actq
      BY <1>2, <1>5, <2>3
    <3>2. r.type = "RD" /\ ~forward /\ writeq' = writeq
      BY <1>3, <2>1, <3>1
    <3>3. req'[j] = req[j] /\ j \in writeq /\ req'[i] = r
      BY <1>4, <1>5, <2>1, <2>3, <3>2
    <3>4. QED
      BY <2>1, <3>2, <3>3 DEF forward
  <2>4. CASE i # id /\ j = id
    <3>1. i \in 1 .. Len(req)
      BY <1>3, <1>5, <2>4
    <3>2. QED
      BY <1>2, <2>4, <3>1
  <2>5. QED
    BY <2>2, <2>3, <2>4
<1>12. QED
  BY <1>8, <1>9, <1>10, <1>11 DEF IInv

(* The end of the trace changes nothing the invariant is about. *)
LEMMA EndKeeps ==
  ASSUME IInv, ended' \in BOOLEAN,
         UNCHANGED <<standard, policy, req, readq, writeq, actq, otherq, pending, write_mode,
                     left, acts, open, table, sent, refreshes>>
  PROVE  IInv'
<1>1. TypeOK /\ Chosen /\ Sorted /\ Entries /\ RowsAgree /\ Coherent
  BY DEF IInv
<1>2. TypeOK'
  BY <1>1 DEF TypeOK
<1>3. Chosen' /\ Sorted' /\ Entries'
  BY <1>1 DEF Chosen, Sorted, Entries
<1>4. RowsAgree' /\ Coherent'
  BY <1>1 DEF RowsAgree, Coherent, Address
<1>5. QED
  BY <1>2, <1>3, <1>4 DEF IInv

-----------------------------------------------------------------------------
LEMMA InitIInv == Init => IInv
<1> SUFFICES ASSUME Init PROVE IInv
  OBVIOUS
<1>1. Cardinality({}) = 0
  BY FS_EmptySet
<1>2. TypeOK
  <2>1. req \in Seq(Requests) /\ pending \in Seq([id : 1 .. Len(req), left : Nat]) /\ Len(req) = 0
    BY DEF Init
  <2>2. left \in [Slots -> Nat] /\ acts \in [1 .. 4 -> Nat] /\ DOMAIN open = {} /\ DOMAIN table = {}
    BY DEF Init
  <2>3. /\ Cardinality(readq) <= QueueMax /\ Cardinality(writeq) <= QueueMax
        /\ readq = {} /\ writeq = {} /\ actq = {}
    BY <1>1, BankControllerAssumption DEF Init
  <2>4. /\ policy \in Policies /\ Len(req) <= MaxRequests
        /\ otherq \in 0 .. MaxRefresh /\ refreshes \in 0 .. MaxRefresh
        /\ write_mode \in BOOLEAN /\ sent \in BOOLEAN /\ ended \in BOOLEAN
    <3>1. MaxRequests \in Nat /\ MaxRefresh \in Nat
      BY BankControllerAssumption
    <3>2. policy \in Policies /\ otherq = 0 /\ refreshes = 0
      BY DEF Init
    <3>3. write_mode \in BOOLEAN /\ sent \in BOOLEAN /\ ended \in BOOLEAN
      BY Zenon DEF Init
    <3>4. QED
      BY <2>1, <3>1, <3>2, <3>3
  <2>5. QED
    BY <2>1, <2>2, <2>3, <2>4 DEF TypeOK
<1>3. QED
  BY <1>2, BankControllerAssumption DEF Init, IInv, Chosen, Sorted, Entries, RowsAgree, Coherent

(* The inductive invariant. *)
THEOREM Invariance == Spec => []IInv
<1> DEFINE kept == <<standard, policy, req, readq, writeq, actq, otherq, pending, write_mode,
                     left, acts, open, table, sent, refreshes>>
<1>1. IInv /\ [Next]_vars => IInv'
  <2>1. SUFFICES ASSUME IInv, [Next]_vars PROVE IInv'
    OBVIOUS
  <2>2. CASE Tick
    BY <2>1, <2>2, TickKeeps
  <2>3. CASE End
    <3>1. ended' \in BOOLEAN /\ UNCHANGED kept
      BY <2>3 DEF End
    <3>2. QED
      BY <2>1, <3>1, EndKeeps
  <2>4. CASE \E r \in Requests : Enqueue(r)
    BY <2>1, <2>4, EnqueueKeeps
  <2>5. CASE UNCHANGED vars
    <3>1. ended' = ended /\ UNCHANGED kept
      BY <2>5 DEF vars
    <3>2. ended \in BOOLEAN
      BY <2>1 DEF IInv, TypeOK
    <3>3. ended' \in BOOLEAN
      BY <3>1, <3>2, Zenon
    <3>4. QED
      BY <2>1, <3>1, <3>3, EndKeeps
  <2>6. QED
    BY <2>1, <2>2, <2>3, <2>4, <2>5 DEF Next
<1>2. QED
  BY InitIInv, <1>1, PTL DEF Spec

(* Type correctness: queues within their capacity. *)
THEOREM TypeCorrect == Spec => []TypeOK
BY Invariance, PTL DEF IInv

(* The row table of the controller and the open rows of the banks are one  *)
(* thing (RowTable::update against the row states of the standard).        *)
THEOREM RowsConsistent == Spec => []RowsAgree
BY Invariance, PTL DEF IInv

(* No read passes an older write of its address that waits in the write    *)
(* queue (the shortcut of Controller::enqueue).                            *)
THEOREM ReadsCoherent == Spec => []Coherent
BY Invariance, PTL DEF IInv
=============================================================================
