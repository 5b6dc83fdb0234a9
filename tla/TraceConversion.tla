-------------------------- MODULE TraceConversion --------------------------
(***************************************************************************)
(* From the raw sequence of commands to the driver's input, one file per   *)
(* channel.  raw2ramulator drops the data; the memory simulator, fed with  *)
(* one request per tick, writes a line for every command it sends to any   *)
(* of its channels, and skips none; ramulator2sc puts the data back, which *)
(* it finds by address and command in the raw sequence.                    *)
(*                                                                         *)
(* The controllers serve each channel in the order of arrival (theorem     *)
(* InOrder of AbControllerProof), and the channels independently of each   *)
(* other.                                                                  *)
(***************************************************************************)
EXTENDS Naturals, Sequences, SequencesExt, FiniteSets

CONSTANTS
  AddrBits,       \* bits of each level in an address; 0 drops the level
  GlobalOffset,   \* address bits within one transaction
  QueueMax,       \* capacity of a controller's queue
  Addresses,      \* addresses of the raw sequence
  MaxLines        \* bound: lines of the raw sequence

Levels   == {"Channel", "Rank", "BankGroup", "Bank", "Row", "Column"}
Size(level) == 2 ^ AddrBits[level]   \* indices of a level
Channels == 0 .. Size("Channel") - 1
Columnwise == {"RD", "WR"}   \* the commands that have data in the raw sequence

(* Indices of all levels.                                                  *)
Vectors == [Channel : Channels, Rank : 0 .. Size("Rank") - 1,
            BankGroup : 0 .. Size("BankGroup") - 1, Bank : 0 .. Size("Bank") - 1,
            Row : 0 .. Size("Row") - 1, Column : 0 .. Size("Column") - 1]

(* The simulator clears the bits within a transaction, then cuts channel,  *)
(* column and the levels from rank to row off the low end of an address.   *)
Slice(addr) ==
  LET fromChannel == addr \div 2 ^ GlobalOffset
      fromColumn  == fromChannel \div Size("Channel")
      fromRank    == fromColumn \div Size("Column")
      fromGroup   == fromRank \div Size("Rank")
      fromBank    == fromGroup \div Size("BankGroup")
      fromRow     == fromBank \div Size("Bank")
  IN [Channel |-> fromChannel % Size("Channel"), Column |-> fromColumn % Size("Column"),
      Rank |-> fromRank % Size("Rank"), BankGroup |-> fromGroup % Size("BankGroup"),
      Bank |-> fromBank % Size("Bank"), Row |-> fromRow % Size("Row")]

(* Mutant: the levels the other way round. *)
addr_map_row_first ==
  LET bank    == GlobalOffset + AddrBits["Row"]
      group   == bank + AddrBits["Bank"]
      rank    == group + AddrBits["BankGroup"]
      column  == rank + AddrBits["Rank"]
      channel == column + AddrBits["Column"]
  IN [Channel |-> channel, Column |-> column, Rank |-> rank,
      BankGroup |-> group, Bank |-> bank, Row |-> GlobalOffset]

(* The converter's way back: where each level starts in an address, in the *)
(* order of addr_map, and the indices shifted there.                       *)
addr_map ==
  LET column == GlobalOffset + AddrBits["Channel"]
      rank   == column + AddrBits["Column"]
      group  == rank + AddrBits["Rank"]
      bank   == group + AddrBits["BankGroup"]
      row    == bank + AddrBits["Bank"]
  IN [Channel |-> GlobalOffset, Column |-> column, Rank |-> rank,
      BankGroup |-> group, Bank |-> bank, Row |-> row]

build_addr(vec) ==
  vec.Channel * 2 ^ addr_map.Channel + vec.Column * 2 ^ addr_map.Column
    + vec.Rank * 2 ^ addr_map.Rank + vec.BankGroup * 2 ^ addr_map.BankGroup
    + vec.Bank * 2 ^ addr_map.Bank + vec.Row * 2 ^ addr_map.Row

get_channel(addr) == (addr \div 2 ^ GlobalOffset) % Size("Channel")

(* The raw sequence names a column by the address its indices build. *)
ASSUME AddressAssumption ==
  /\ AddrBits \in [Levels -> Nat] /\ GlobalOffset \in Nat
  /\ \A addr \in Addresses : \E vec \in Vectors : addr = build_addr(vec)
  /\ QueueMax \in Nat \ {0} /\ MaxLines \in Nat

(* A line of the raw sequence; a write's data names the line.              *)
RawLine(i, kind) == [addr |-> kind[1], cmd |-> kind[2],
                     data |-> IF kind[2] = "WR" THEN <<i>> ELSE <<>>]
RawLines == {RawLine(i, kind) : i \in 1 .. MaxLines, kind \in Addresses \X Columnwise}

VARIABLES
  raw,      \* the raw sequence
  sent,     \* its lines the simulator has taken
  waiting,  \* per channel, the requests its controller holds
  openRow,  \* per channel, the row that is open, <<>> if none is
  ramOut,   \* the simulator's output
  pc,       \* program that runs: "simulate", "convert", "done" or "abort"
  line,     \* lines of ramOut the converter has read
  rsLine,   \* lines of raw the converter has read
  queue,    \* per channel and command, lines of raw read before they were asked for
  output    \* per channel, the file for the driver

simVars  == <<sent, waiting, openRow, ramOut>>
convVars == <<line, rsLine, queue, output>>
vars     == <<raw, simVars, pc, convVars>>

Init ==
  /\ \E n \in 1 .. MaxLines : \E kinds \in [1 .. n -> Addresses \X Columnwise] :
       raw = [i \in 1 .. n |-> RawLine(i, kinds[i])]
  /\ sent = 0 /\ waiting = [c \in Channels |-> <<>>]
  /\ openRow = [c \in Channels |-> <<>>] /\ ramOut = <<>>
  /\ pc = "simulate"
  /\ line = 0 /\ rsLine = 0
  /\ queue = [c \in Channels |-> [k \in Columnwise |-> <<>>]]
  /\ output = [c \in Channels |-> <<>>]

(***************************************************************************)
(* The simulator.                                                          *)
(***************************************************************************)

Request(r) == [cmd |-> r.cmd, vec |-> Slice(r.addr)]

(* The main loop offers a request until its controller has room for it.    *)
Send ==
  /\ pc = "simulate" /\ sent < Len(raw)
  /\ LET req == Request(raw[sent + 1])
         c   == req.vec.Channel
     IN /\ Len(SelectSeq(waiting[c], LAMBDA q : q.cmd = req.cmd)) < QueueMax
        /\ waiting' = [waiting EXCEPT ![c] = Append(@, req)]
  /\ sent' = sent + 1
  /\ UNCHANGED <<raw, openRow, ramOut, pc, convVars>>

(* A controller opens the row of its oldest request.                       *)
Activate(c) ==
  /\ pc = "simulate" /\ waiting[c] # <<>>
  /\ openRow[c] # <<Head(waiting[c]).vec.Row>>
  /\ openRow' = [openRow EXCEPT ![c] = <<Head(waiting[c]).vec.Row>>]
  /\ ramOut' = Append(ramOut, [cmd |-> "ACT", vec |-> Head(waiting[c]).vec])
  /\ UNCHANGED <<raw, sent, waiting, pc, convVars>>

(* A controller sends the column command of its oldest request.            *)
Serve(c) ==
  /\ pc = "simulate" /\ waiting[c] # <<>>
  /\ openRow[c] = <<Head(waiting[c]).vec.Row>>
  /\ ramOut' = Append(ramOut, Head(waiting[c]))
  /\ waiting' = [waiting EXCEPT ![c] = Tail(@)]
  /\ UNCHANGED <<raw, sent, openRow, pc, convVars>>

(* The trace is read and nothing is pending; the converter starts.         *)
SimulationDone ==
  /\ pc = "simulate" /\ sent = Len(raw) /\ \A c \in Channels : waiting[c] = <<>>
  /\ pc' = "convert"
  /\ UNCHANGED <<raw, simVars, convVars>>

(***************************************************************************)
(* The converter.                                                          *)
(***************************************************************************)

Matches(addr, other) == addr \div 2 ^ GlobalOffset = other \div 2 ^ GlobalOffset

FindNewest(s, addr) == SelectLastInSeq(s, LAMBDA i : Matches(raw[i].addr, addr))

(* Place in s, a sequence of raw lines, of the first one with the address  *)
(* of the simulator's command, 0 if there is none.                         *)
Find(s, addr) == SelectInSeq(s, LAMBDA i : Matches(raw[i].addr, addr))

Kept(c, k, n) == queue

(* What is found leaves its queue.                                         *)
Taken(c, k, n) == [queue EXCEPT ![c][k] = RemoveAt(@, n)]

(* The command is written to the file of its channel, with the data of the *)
(* raw line i; the converter goes on to the next line of ramOut.           *)
Write(q, i) ==
  /\ output' = [output EXCEPT ![q.vec.Channel] =
                  Append(@, [addr |-> build_addr(q.vec), cmd |-> q.cmd, data |-> raw[i].data])]
  /\ line' = line + 1

(* A line of another command is skipped; the data of a column command come *)
(* from the queue or else from the rest of the raw sequence, which is read *)
(* up to it.                                                               *)
Skip(q) == q.cmd \notin Columnwise /\ line' = line + 1 /\ UNCHANGED <<pc, rsLine, queue, output>>

Place(q) == Find(queue[q.vec.Channel][q.cmd], build_addr(q.vec))

FromQueue(q) ==
  /\ q.cmd \in Columnwise /\ Place(q) # 0
  /\ Write(q, queue[q.vec.Channel][q.cmd][Place(q)])
  /\ queue' = Taken(q.vec.Channel, q.cmd, Place(q))
  /\ UNCHANGED <<pc, rsLine>>

(* The raw line the converter reads next is the one looked for.            *)
Wanted(q) == Matches(raw[rsLine + 1].addr, build_addr(q.vec)) /\ raw[rsLine + 1].cmd = q.cmd

FromRaw(q) ==
  /\ q.cmd \in Columnwise /\ Place(q) = 0
  /\ rsLine < Len(raw) /\ Wanted(q)
  /\ Write(q, rsLine + 1)
  /\ rsLine' = rsLine + 1
  /\ UNCHANGED <<pc, queue>>

(* A raw line passed over goes to the queue of its channel and command.    *)
PassOver(q) ==
  /\ q.cmd \in Columnwise /\ Place(q) = 0
  /\ rsLine < Len(raw) /\ ~Wanted(q)
  /\ queue' = [queue EXCEPT ![get_channel(raw[rsLine + 1].addr)][raw[rsLine + 1].cmd] =
                 Append(@, rsLine + 1)]
  /\ rsLine' = rsLine + 1
  /\ UNCHANGED <<pc, line, output>>

NotFound(q) ==
  /\ q.cmd \in Columnwise /\ Place(q) = 0 /\ rsLine = Len(raw)
  /\ pc' = "abort" /\ UNCHANGED convVars

Convert ==
  /\ pc = "convert" /\ line < Len(ramOut)
  /\ LET q == ramOut[line + 1]
     IN Skip(q) \/ FromQueue(q) \/ FromRaw(q) \/ PassOver(q) \/ NotFound(q)
  /\ UNCHANGED <<raw, simVars>>

ConvertDone ==
  /\ pc = "convert" /\ line = Len(ramOut) /\ pc' = "done"
  /\ UNCHANGED <<raw, simVars, convVars>>

Next ==
  \/ Send \/ \E c \in Channels : Activate(c) \/ Serve(c)
  \/ SimulationDone \/ Convert \/ ConvertDone

(* A controller serves what it holds (property Answered of AbController)   *)
(* and the programs run to their end.                                      *)
Fairness ==
  /\ WF_vars(Send) /\ WF_vars(SimulationDone)
  /\ WF_vars(Convert) /\ WF_vars(ConvertDone)
  /\ \A c \in Channels : WF_vars(Activate(c) \/ Serve(c))

Spec == Init /\ [][Next]_vars /\ Fairness

-----------------------------------------------------------------------------
(* The lines of channel c among the first n of the raw sequence.           *)
LinesOf(c, n) == {i \in 1 .. n : get_channel(raw[i].addr) = c}

(* Types; a line waits in the queue of its own channel and command, and of *)
(* every channel each line the converter has read is in one queue or in    *)
(* the output, so none is lost or used twice (ramulator2sc.cpp, main).     *)
TypeOK ==
  /\ sent \in 0 .. Len(raw) /\ rsLine \in 0 .. Len(raw) /\ line \in 0 .. Len(ramOut)
  /\ pc \in {"simulate", "convert", "done", "abort"}
  /\ \A c \in Channels :
       /\ output[c] \in Seq(RawLines)
       /\ \A k \in Columnwise :
            /\ queue[c][k] \in Seq(LinesOf(c, rsLine))
            /\ \A n \in DOMAIN queue[c][k] : raw[queue[c][k][n]].cmd = k
       /\ Cardinality(LinesOf(c, rsLine))
            = Len(output[c]) + Len(queue[c]["RD"]) + Len(queue[c]["WR"])

(* The n-th line of every channel's file is the n-th line of that channel  *)
(* in the raw sequence, each command with its own data: equal addresses,   *)
(* writes between reads and the other channels' lines in between do not    *)
(* confuse the search (ramulator2sc.cpp, the search in main).              *)
OwnData ==
  \A c \in Channels : \A n \in DOMAIN output[c] :
    \E i \in LinesOf(c, Len(raw)) : output[c][n] = raw[i] /\ Cardinality(LinesOf(c, i)) = n

(* Every raw sequence is converted to its end, for each order in which the *)
(* channels are served: no controller is left with a request it has no     *)
(* room or no turn for, and the search never fails.                        *)
Converted ==
  <>(pc = "done" /\ \A c \in Channels : Len(output[c]) = Cardinality(LinesOf(c, Len(raw))))
=============================================================================
