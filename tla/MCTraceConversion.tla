-------------------------- MODULE MCTraceConversion ------------------------
(* Two channels of two columns and two rows, no ranks or bank groups; raw  *)
(* sequences of up to four lines on two addresses of channel 0 that differ *)
(* in column and row, and one of channel 1.                                *)
EXTENDS TraceConversion

MCAddrBits == [l \in Levels |-> IF l \in {"Channel", "Column", "Row"} THEN 1 ELSE 0]
MCAddresses == {2, 4, 8}   \* channel 1; column 1; row 1
=============================================================================
