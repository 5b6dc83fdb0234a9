----------------------------- MODULE BankTiming -----------------------------
(***************************************************************************)
(* The single-bank DRAM standards HBM and HBM2: their commands, speeds and *)
(* timing rules.  A rule <<c, d, n>> of a level says that n cycles after a *)
(* command c a command d may follow in the same channel, rank, bank group  *)
(* or bank.  Nobody asks this simulator to power down, so the commands     *)
(* PDE, PDX, SRE and SRX and their rules are left out; REFSB belongs to    *)
(* the refresh scheme the all-bank REF excludes.  The one rule that looks  *)
(* further back, nFAW after the fourth last ACT, is kept apart (faw).      *)
(***************************************************************************)
EXTENDS Integers

Opening == {"ACT"}
Accessing == {"RD", "WR", "RDA", "WRA"}
Closing == {"RDA", "WRA", "PRE", "PREA"}

(* What a command reaches. *)
RankScope == {"PREA", "REF"}
BankScope == {"ACT", "PRE"} \cup Accessing

Reading == {"RD", "RDA"}
Writing == {"WR", "WRA"}

-----------------------------------------------------------------------------
Row(bl, ccds, ccdl, cl, rcdr, rcdw, rp, cwl, ras, rc, rtp, wtrs, wtrl, wr, rrds, rrdl, faw) ==
  [BL |-> bl, CCDS |-> ccds, CCDL |-> ccdl, CL |-> cl, RCDR |-> rcdr, RCDW |-> rcdw,
   RP |-> rp, CWL |-> cwl, RAS |-> ras, RC |-> rc, RTP |-> rtp, WTRS |-> wtrs,
   WTRL |-> wtrl, WR |-> wr, RRDS |-> rrds, RRDL |-> rrdl,
   FAW |-> faw]

(* The speed tables, and nRFC by the size of the chip in Gb.               *)
HBM_1Gbps   == Row(2, 2, 3,  7,  7,  6,  7, 4, 17, 24, 7, 2, 4,  8, 4, 5, 20)
HBM_300MHz  == Row(2, 2, 3,  5,  5,  4,  5, 3, 11, 15, 7, 2, 4,  5, 3, 4, 13)
HBM2_2Gbps  == Row(2, 2, 4, 14, 14, 14, 14, 4, 34, 48, 7, 3, 8, 16, 4, 6, 30)
HBM2_300MHz == Row(1, 1, 2,  5,  5,  5,  5, 2, 11, 15, 3, 1, 3,  5, 2, 2, 9)

HBM_RFC(rate, gb) ==
  LET density == CASE gb = 1 -> 1 [] gb = 2 -> 2 [] gb = 4 -> 3
  IN (IF rate = 1000 THEN <<55, 80, 130>> ELSE <<34, 49, 79>>)[density]

HBM2_RFC(rate, gb) ==
  LET density == CASE gb = 1 -> 1 [] gb = 2 -> 2 [] gb = 4 -> 3 [] gb = 8 -> 4 [] gb = 16 -> 5
  IN (IF rate = 2000 THEN <<72, 110, 170, 260, 400>> ELSE <<22, 33, 51, 78, 120>>)[density]

-----------------------------------------------------------------------------
Rules(C, D, n) == {<<c, d, n>> : c \in C, d \in D}

Recovery(s) == s.CWL + s.BL + s.WR

ChannelRules(s) == Rules(Reading, Reading, s.BL) \cup Rules(Writing, Writing, s.BL)

RankRules(s, rfc) ==
  Rules(Reading, Reading, s.CCDS) \cup Rules(Writing, Writing, s.CCDS)
    \cup Rules(Reading, Writing, s.CL + s.CCDS + 2 - s.CWL)
    \cup Rules(Writing, Reading, s.CWL + s.BL + s.WTRS)
    \cup Rules({"RD"}, {"PREA"}, s.RTP) \cup Rules({"WR"}, {"PREA"}, Recovery(s))
    \cup Rules({"ACT"}, {"ACT"}, s.RRDS) \cup Rules({"ACT"}, {"PREA"}, s.RAS)
    \cup Rules({"PREA"}, {"ACT"}, s.RP)
    \cup Rules({"PRE", "PREA"}, {"REF"}, s.RP) \cup Rules({"REF"}, {"ACT", "REF"}, rfc)

GroupRules(s) ==
  Rules(Reading, Reading, s.CCDL) \cup Rules(Writing, Writing, s.CCDL)
    \cup Rules(Writing, Reading, s.CWL + s.BL + s.WTRL) \cup Rules({"ACT"}, {"ACT"}, s.RRDL)

BankRules(s) ==
  Rules({"ACT"}, Reading, s.RCDR) \cup Rules({"ACT"}, Writing, s.RCDW)
    \cup Rules({"RD"}, {"PRE"}, s.RTP) \cup Rules({"WR"}, {"PRE"}, Recovery(s))
    \cup Rules({"RDA"}, {"ACT"}, s.RTP + s.RP)
    \cup Rules({"WRA"}, {"ACT"}, Recovery(s) + s.RP)
    \cup Rules({"ACT"}, {"ACT"}, s.RC) \cup Rules({"ACT"}, {"PRE"}, s.RAS)
    \cup Rules({"PRE"}, {"ACT"}, s.RP)

(* The longest wait the rules set: what DRAM::check adds up over the nodes *)
(* from the channel down to what the command reaches.                      *)
Longest(rules, c, d) ==
  LET waits == {0} \cup {r[3] : r \in {q \in rules : q[1] = c /\ q[2] = d}}
  IN CHOOSE n \in waits : \A m \in waits : m <= n

Waits(rules) ==
  [c \in BankScope \cup RankScope |-> [d \in BankScope \cup RankScope |-> Longest(rules, c, d)]]

(* The waits of a standard, by what the two commands have in common.       *)
Standard(s, rfc) ==
  LET rank == ChannelRules(s) \cup RankRules(s, rfc)
      group == rank \cup GroupRules(s)
  IN [gap |-> [rank |-> Waits(rank), group |-> Waits(group),
               bank |-> Waits(group \cup BankRules(s))],
      latency |-> s.CL + s.BL,
      faw |-> s.FAW]
=============================================================================
