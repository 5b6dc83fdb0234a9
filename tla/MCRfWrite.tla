----------------------------- MODULE MCRfWrite -----------------------------
EXTENDS RfWrite

(* Two payloads whose beats all differ. *)
MCPayload == {[k \in 1 .. DqClk |-> 10 * v + k] : v \in {1, 2}}
MCBeat == {0} \cup {10 * v + k : v \in {1, 2}, k \in 1 .. DqClk}
=============================================================================
