-------------------------- MODULE MCBankController --------------------------
EXTENDS BankController

(* Two rows of one bank, and reads of a bank in another group.             *)
MCRequests ==
  [type : {"RD", "WR"}, bank : {1}, row : {1, 2}, col : {1}] \cup
  [type : {"RD"}, bank : {2}, row : {1}, col : {1}]

MCGroupOf == [b \in Banks |-> b]

(* All waits at a sixth, in cycles of a sixth of the clock, and a refresh  *)
(* as long as the longest other wait: what comes before what is the same.  *)
Scaled(t) ==
  LET Sixth(n) == (n + 5) \div 6
      short == [t EXCEPT !.latency = Sixth(@), !.faw = Sixth(@)]
  IN [short EXCEPT !.gap =
       [near \in DOMAIN @ |-> [c \in DOMAIN @[near] |-> [d \in DOMAIN @[near][c] |->
          IF c = "REF" /\ @[near][c][d] > 0 THEN 8 ELSE Sixth(@[near][c][d])]]]]

(* The standard of HBM2-config.cfg: HBM2_2Gbps, HBM2_4Gb.                  *)
MCTimings == {Scaled(Standard(HBM2_2Gbps, HBM2_RFC(2000, 4)))}

MCPolicies == {[scheduler |-> "FCFS", row |-> "Opened"],
               [scheduler |-> "FRFCFS", row |-> "Closed"],
               [scheduler |-> "FRFCFS_Cap", row |-> "ClosedAP"],
               [scheduler |-> "FRFCFS_PriorHit", row |-> "Timeout"]}
=============================================================================
