------------------------------- MODULE MapVA -------------------------------
(***************************************************************************)
(* Element-wise addition of two arrays of V vectors of n elements, laid    *)
(* out vector by vector (row-wise, EWARW) or with one vector per lane      *)
(* (column-wise, EWACW).  The words of an operand are handled in parts as  *)
(* large as the register files (R-limited) or, when the program of such a  *)
(* part does not fit, as the CRF (C-limited) allows.                       *)
(***************************************************************************)
EXTENDS KernelFiles

VaWords(job) ==
  IF job.kernel = "EWARW" THEN CeilDiv(job.n * job.V, SIMD_WIDTH)
                          ELSE job.n * CeilDiv(job.V, SIMD_WIDTH)

(* Mutant: the choice forgets JUMP and EXIT. *)
VaRLimTight(job) ==
  job.CRF_ENTRIES >= 6 * job.GRF_ENTRIES + 3 * (VaWords(job) % (2 * job.GRF_ENTRIES))

VaRLim(job) ==
  job.CRF_ENTRIES >= 6 * job.GRF_ENTRIES + 3 * (VaWords(job) % (2 * job.GRF_ENTRIES)) + 2

VaSegment(job) ==
  IF VaRLim(job) THEN 2 * job.GRF_ENTRIES
                 ELSE Smaller((job.CRF_ENTRIES - 2) \div 3, 2 * job.GRF_ENTRIES)
VaLoops(job) == VaWords(job) \div VaSegment(job)
VaPeeling(job) == VaWords(job) % VaSegment(job)

(* The sizes of the parts: full segments, then what is peeled off. *)
VaParts(job) == [p \in 1 .. CeilDiv(VaWords(job), VaSegment(job)) |->
                   IF p <= VaLoops(job) THEN VaSegment(job) ELSE VaPeeling(job)]

VaProgram(words) == Loads(words) \o Adds(words) \o Stores(words)

VaLoop(job) ==
  If(VaLoops(job) # 0, VaProgram(VaSegment(job)) \o Jump(3 * VaSegment(job), VaLoops(job)))
VaRun(program) == Section(0, Append(program, EXIT)) \o Exec

(* R-limited, one program for the segments and what is left of the words;  *)
(* C-limited, a program for each.                                          *)
VaAssemblyRLim(job) == VaRun(VaLoop(job) \o VaProgram(VaPeeling(job)))
VaAssemblyCLim(job) ==
  If(VaLoops(job) # 0, VaRun(VaLoop(job)))
  \o If(VaPeeling(job) # 0, VaRun(VaProgram(VaPeeling(job))))
VaAssembly(job) == IF VaRLim(job) THEN VaAssemblyRLim(job) ELSE VaAssemblyCLim(job)

(* Where operands and result start: on rows of their own.  A C-limited     *)
(* mapping counts rows of one column more than they have.                  *)
VaBase(job, array) ==
  LET columns == IF job.kernel = "EWARW" THEN CeilDiv(job.n * job.V, 2 * SIMD_WIDTH)
                                         ELSE VaWords(job) \div 2
      rows == CeilDiv(columns, IF VaRLim(job) THEN COLPERROW ELSE COLPERROW + 1)
  IN array * rows * COLPERROW

(* The columns of part p of op1, op2 and the result. *)
VaPartColumns(job, p) ==
  For(3, LAMBDA array :
    Columns(VaBase(job, array) + p * CeilDiv(VaSegment(job), 2), VaParts(job)[p + 1]))
VaAddresses(job) == For(Len(VaParts(job)), LAMBDA p : VaPartColumns(job, p))

(* Row-wise the elements follow each other, from the first one again after *)
(* the last; column-wise SIMD_WIDTH vectors go together, element by element. *)
VaWordRow(job, op, w) ==
  Line(LAMBDA x : LET i == (w * SIMD_WIDTH + x) % (job.n * job.V)
                  IN Element(<<op, i \div job.n, i % job.n>>))
VaWordCol(job, op, w) ==
  Line(LAMBDA x : LET v == (w \div job.n) * SIMD_WIDTH + x
                  IN IF v < job.V THEN Element(<<op, v, w % job.n>>) ELSE Zero)
VaWord(job, op, w) ==
  IF job.kernel = "EWARW" THEN VaWordRow(job, op, w) ELSE VaWordCol(job, op, w)

(* C-limited and column-wise, the last word of op2 in an odd segment has   *)
(* each of its values twice, the first time also past the last vector.     *)
VaDoubled(job, p, k) ==
  /\ job.kernel = "EWACW" /\ ~VaRLim(job)
  /\ p < VaLoops(job) /\ ~Even(VaSegment(job)) /\ k = VaSegment(job)
VaDoubledWord(job, w) ==
  For(SIMD_WIDTH, LAMBDA x :
    <<Element(<<"op2", (w \div job.n) * SIMD_WIDTH + x, w % job.n>>), VaWord(job, "op2", w)[x + 1]>>)

(* The words of part p of op1, then of op2. *)
VaPartData(job, p) ==
  For(2, LAMBDA array : [k \in 1 .. VaParts(job)[p + 1] |->
    LET w == p * VaSegment(job) + k - 1
    IN IF array = 1 /\ VaDoubled(job, p, k) THEN VaDoubledWord(job, w)
       ELSE VaWord(job, <<"op1", "op2">>[array + 1], w)])
VaData(job) == For(Len(VaParts(job)), LAMBDA p : VaPartData(job, p))

(* The rows hold the columns of an operand, whichever way they are counted. *)
VaLaidOut(job) ==
  VaLoops(job) * CeilDiv(VaSegment(job), 2) + CeilDiv(VaPeeling(job), 2)
    <= CeilDiv(VaWords(job) \div 2, IF VaRLim(job) THEN COLPERROW ELSE COLPERROW + 1) * COLPERROW

-----------------------------------------------------------------------------
(* The sums, and the result word and lane each of them belongs to. *)
VaOutputs(job) == (0 .. job.V - 1) \X (0 .. job.n - 1)
VaPlace(job, out) ==
  IF job.kernel = "EWARW"
  THEN LET i == out[1] * job.n + out[2] IN <<i \div SIMD_WIDTH, i % SIMD_WIDTH>>
  ELSE <<(out[1] \div SIMD_WIDTH) * job.n + out[2], out[1] % SIMD_WIDTH>>
VaReference(job, out) ==
  << {<<"op1", out[1], out[2]>>}, {<<"op2", out[1], out[2]>>} >>
=============================================================================
