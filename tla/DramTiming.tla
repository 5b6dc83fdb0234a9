----------------------------- MODULE DramTiming -----------------------------
(***************************************************************************)
(* The timing rules of the all-bank DRAM standards the simulator is built  *)
(* with, at the speeds its configuration files choose.  Every rule holds   *)
(* at the level of the rank, since a command reaches all banks: after a    *)
(* command c a command d must wait gap[c][d] cycles.  The rules on the     *)
(* fourth last activation (nFAW; GDDR5: also the 32nd last) are left out:  *)
(* nFAW <= nRC in every row, and nRC separates any two activations.        *)
(***************************************************************************)
EXTENDS Integers

Access == {"RD", "WR"}
Cmd == Access \cup {"ACT", "PRE", "PREA", "REF"}

Larger(a, b) == IF a >= b THEN a ELSE b

(* A row of a speed table, in cycles.                                      *)
Speed(bl, ccd, cl, rcdr, rcdw, rp, cwl, ras, rc, rtp, wtr, wr, rfc) ==
  [BL |-> bl, CCD |-> ccd, CL |-> cl, RCDR |-> rcdr, RCDW |-> rcdw,
   RP |-> rp, CWL |-> cwl, RAS |-> ras, RC |-> rc, RTP |-> rtp,
   WTR |-> wtr, WR |-> wr, RFC |-> rfc]

(* nRFC comes from a table of its own, by the density of the chip that the *)
(* configuration file of the standard chooses.                             *)
HBM_RFC    == 79
HBM2_RFC   == 51
GDDR5_RFC  == 260
DDR4_RFC   == 104
LPDDR4_RFC == 52
PCM_RFC    == 100
RRAM_RFC   == 100
STTRAM_RFC == 100

HBM_300MHz    == Speed(2, 3,  5,  5,  4,  5,  3, 11, 15, 7, 4,  5, HBM_RFC)
HBM2_300MHz   == Speed(1, 2,  5,  5,  5,  5,  2, 11, 15, 3, 3,  5, HBM2_RFC)
DDR4_400MHz   == Speed(1, 3,  6,  6,  6,  6,  4, 14, 20, 3, 3,  6, DDR4_RFC)
LPDDR4_200MHz == Speed(2, 2,  8,  8,  8,  7,  5, 17, 24, 4, 4,  7, LPDDR4_RFC)
GDDR5_4000    == Speed(2, 3, 12, 12, 10, 12,  3, 28, 40, 2, 5, 12, GDDR5_RFC)
PCM_400MHz    == Speed(4, 2,  1, 48, 48,  1,  4, 53, 54, 3, 3, 60, PCM_RFC)
RRAM_400MHz   == Speed(4, 2,  6, 10, 10,  1,  4, 20, 21, 3, 3,  4, RRAM_RFC)
STTRAM_400MHz == Speed(4, 2,  6, 14, 14,  1, 10, 24, 25, 5, 5, 19, STTRAM_RFC)

To(rd, wr, act, pre, prea, ref) ==
  [RD |-> rd, WR |-> wr, ACT |-> act, PRE |-> pre, PREA |-> prea, REF |-> ref]

(* Mutant: accesses are only kept a burst apart. *)
GapsBurst(s, readToWrite, actToRef, preaToAct) ==
  LET recovery == s.CWL + s.BL + s.WR
  IN [RD   |-> To(s.BL, readToWrite, 0, s.RTP, s.RTP, 0),
      WR   |-> To(s.CWL + s.BL + s.WTR, s.BL, 0, recovery, recovery, 0),
      ACT  |-> To(s.RCDR, s.RCDW, s.RC, s.RAS, s.RAS, actToRef),
      PRE  |-> To(0, 0, s.RP, 0, 0, s.RP),
      PREA |-> To(0, 0, preaToAct, 0, 0, preaToAct),
      REF  |-> To(0, 0, s.RFC, 0, 0, s.RFC)]

(* What the standards share: a bus turnaround from reads to writes, from   *)
(* an activation to a refresh, and from a PREA, is what they differ in.    *)
Gaps(s, readToWrite, actToRef, preaToAct) ==
  LET cas == Larger(s.BL, s.CCD)
      recovery == s.CWL + s.BL + s.WR
  IN [RD   |-> To(cas, readToWrite, 0, s.RTP, s.RTP, 0),
      WR   |-> To(s.CWL + s.BL + s.WTR, cas, 0, recovery, recovery, 0),
      ACT  |-> To(s.RCDR, s.RCDW, s.RC, s.RAS, s.RAS, actToRef),
      PRE  |-> To(0, 0, s.RP, 0, 0, s.RP),
      PREA |-> To(0, 0, preaToAct, 0, 0, preaToAct),
      REF  |-> To(0, 0, s.RFC, 0, 0, s.RFC)]

HBM_AB == LET s == HBM_300MHz IN
  [gap |-> Gaps(s, s.CL + s.CCD + 2 - s.CWL, 0, s.RP), latency |-> s.CL + s.BL]

HBM2_AB == LET s == HBM2_300MHz IN
  [gap |-> Gaps(s, s.CL + s.CCD + 2 - s.CWL, 0, s.RP), latency |-> s.CL + s.BL]

GDDR5_AB == LET s == GDDR5_4000 IN
  [gap |-> Gaps(s, s.CL + s.CCD + 2 - s.CWL, 0, s.RP), latency |-> s.CL + s.BL]

DDR4_AB == LET s == DDR4_400MHz IN
  [gap |-> Gaps(s, s.CL + s.BL + 2 - s.CWL, s.RC, s.RP), latency |-> s.CL + s.BL]

PCM_AB == LET s == PCM_400MHz IN
  [gap |-> Gaps(s, s.CL + s.BL + 2 - s.CWL, s.RC, s.RP), latency |-> s.CL + s.BL]

RRAM_AB == LET s == RRAM_400MHz IN
  [gap |-> Gaps(s, s.CL + s.BL + 2 - s.CWL, s.RC, s.RP), latency |-> s.CL + s.BL]

STTRAM_AB == LET s == STTRAM_400MHz IN
  [gap |-> Gaps(s, s.CL + s.BL + 2 - s.CWL, s.RC, s.RP), latency |-> s.CL + s.BL]

(* nDQSCK = 1 delays the data of a read, WTR counts one cycle more, and a  *)
(* PREA takes nRPab = 8 instead of nRPpb = 7.                              *)
LPDDR4_AB == LET s == [LPDDR4_200MHz EXCEPT !.WTR = @ + 1] IN
  [gap |-> Gaps(s, s.CL + s.BL + 2 - s.CWL, 0, s.RP + 1),
   latency |-> s.CL + 1 + s.BL]
=============================================================================
