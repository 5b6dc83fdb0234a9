--------------------------- MODULE InOrderMemory ---------------------------
(***************************************************************************)
(* What the all-bank controller promises the programs around it: it serves *)
(* the requests of a channel one by one, in the order in which they came,  *)
(* and serves all of them.  The compute cores depend on it, since every    *)
(* column command executes the next instruction of the kernel.             *)
(***************************************************************************)
EXTENDS Naturals

CONSTANT MaxRequests   \* bound of the runs

VARIABLES arrived,   \* requests accepted so far; request n is the n-th
          served     \* column commands sent so far

Init == arrived = 0 /\ served = 0

Arrive == arrived < MaxRequests /\ arrived' = arrived + 1 /\ UNCHANGED served
Serve  == served < arrived /\ served' = served + 1 /\ UNCHANGED arrived

Next == Arrive \/ Serve

SafeSpec == Init /\ [][Next]_<<arrived, served>>
Spec == SafeSpec /\ WF_<<arrived, served>>(Serve)
=============================================================================
