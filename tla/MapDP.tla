------------------------------- MODULE MapDP -------------------------------
(***************************************************************************)
(* Dot products of V pairs of vectors of n elements, one per lane.  The    *)
(* sums of SIMD_WIDTH vectors grow in the last register of GRF_B.  When    *)
(* the C-limited program needs a second section for the elements that are  *)
(* left, a first pass over all groups of vectors stores partial sums, and  *)
(* a second one loads them again.                                          *)
(***************************************************************************)
EXTENDS KernelFiles

DpGroups(job) == CeilDiv(job.V, SIMD_WIDTH)
DpRLim(job) ==
  job.CRF_ENTRIES >= 4 * job.GRF_ENTRIES + 2 * (job.n % (2 * job.GRF_ENTRIES - 1)) + 2
DpSegment(job) ==
  IF DpRLim(job) THEN 2 * job.GRF_ENTRIES - 1
                 ELSE Smaller((job.CRF_ENTRIES - 4) \div 2, 2 * job.GRF_ENTRIES)
DpLoops(job) == job.n \div DpSegment(job)
DpPeeling(job) == job.n % DpSegment(job)
DpTwoPasses(job) == ~DpRLim(job) /\ DpLoops(job) # 0 /\ DpPeeling(job) # 0

DpAcc(job) == <<"GRF_B", job.GRF_ENTRIES - 1>>
DpProgram(job, elements) == Loads(elements) \o Macs(elements, DpAcc(job))
DpLoop(job) ==
  If(DpLoops(job) # 0,
     DpProgram(job, DpSegment(job)) \o Jump(2 * DpSegment(job), DpLoops(job)))
(* A program with the sum so far around it, run for each group. *)
DpRun(job, program) ==
  Section(0, <<Mov(DpAcc(job), Odd)>> \o program \o <<Mov(Odd, DpAcc(job)), EXIT>>)
  \o For(DpGroups(job), LAMBDA g : Exec)

DpAssemblyRLim(job) == DpRun(job, DpLoop(job) \o DpProgram(job, DpPeeling(job)))
DpAssemblyCLim(job) ==
  If(DpLoops(job) # 0, DpRun(job, DpLoop(job)))
  \o If(DpPeeling(job) # 0, DpRun(job, DpProgram(job, DpPeeling(job))))
DpAssembly(job) == IF DpRLim(job) THEN DpAssemblyRLim(job) ELSE DpAssemblyCLim(job)

DpBase(job, array) ==
  LET columns == (job.n * DpGroups(job)) \div 2
      rows == CeilDiv(columns, IF DpRLim(job) THEN COLPERROW ELSE COLPERROW + 1)
  IN array * rows * COLPERROW
DpResult(job, g) == <<Column(Odd, DpBase(job, 2) + g)>>
DpZeros(job) == <<Column(Odd, DpBase(job, 2) + CeilDiv(DpGroups(job), 2) * COLPERROW)>>

(* The columns of a part of both operands. *)
DpPart(job, start, elements) ==
  For(2, LAMBDA array : Columns(DpBase(job, array) + start, elements))
(* The columns of the full segments of a group. *)
DpFull(job, start) ==
  For(DpLoops(job), LAMBDA p :
    DpPart(job, start + p * CeilDiv(DpSegment(job), 2), DpSegment(job)))
DpFullColumns(job) == DpLoops(job) * CeilDiv(DpSegment(job), 2)

(* One pass over the groups.  What is peeled off an operand moves on by    *)
(* its full columns only.                                                  *)
DpAddressesRLim(job) ==
  LET Start(g) == g * (DpFullColumns(job) + DpPeeling(job) \div 2)
  IN For(DpGroups(job), LAMBDA g :
       DpZeros(job) \o DpFull(job, Start(g))
       \o DpPart(job, Start(g) + DpFullColumns(job), DpPeeling(job)) \o DpResult(job, g))

(* The first pass jumps over the columns of the second, the second over    *)
(* those of the first; they do not count alike.                            *)
DpAddressesCLim(job) ==
  LET skip == IF DpTwoPasses(job) THEN DpPeeling(job) - 1 + (DpSegment(job) % 2) ELSE 0
      Start1(g) == g * (DpFullColumns(job) + skip)
      before == IF DpLoops(job) # 0 THEN CeilDiv(job.n - DpPeeling(job), 2) ELSE 0
      Start2(g) == g * (before + CeilDiv(DpPeeling(job), 2)) + before
  IN If(DpLoops(job) # 0, For(DpGroups(job), LAMBDA g :
       DpZeros(job) \o DpFull(job, Start1(g)) \o DpResult(job, g)))
     \o If(DpPeeling(job) # 0, For(DpGroups(job), LAMBDA g :
       (IF DpLoops(job) # 0 THEN DpResult(job, g) ELSE DpZeros(job))
       \o DpPart(job, Start2(g), DpPeeling(job)) \o DpResult(job, g)))

DpAddresses(job) == IF DpRLim(job) THEN DpAddressesRLim(job) ELSE DpAddressesCLim(job)

-----------------------------------------------------------------------------
partDotProduct(v, n) ==
  Products(n, LAMBDA d : <<"op1", v, d>>, LAMBDA d : <<"op2", v, d>>)

(* Elements from first on, of the vectors of a group: op1, then op2. *)
DpWords(job, g, first, elements) ==
  For(2, LAMBDA array : [k \in 1 .. elements |-> Line(LAMBDA x :
    LET v == g * SIMD_WIDTH + x
    IN IF v < job.V THEN Element(<< <<"op1", "op2">>[array + 1], v, first + k - 1>>)
                    ELSE Zero)])
DpFullWords(job, g) ==
  For(DpLoops(job), LAMBDA p : DpWords(job, g, p * DpSegment(job), DpSegment(job)))
DpPeeledWords(job, g) == DpWords(job, g, job.n - DpPeeling(job), DpPeeling(job))

(* Mutant: the partial sums leave out the last full segment. *)
DpPartialShort(job, g) ==
  <<Line(LAMBDA x : LET v == g * SIMD_WIDTH + x
      IN IF DpLoops(job) # 0 /\ v < job.V
         THEN partDotProduct(v, job.n - DpPeeling(job) - DpSegment(job)) ELSE Zero)>>

(* The partial sums the second pass starts from. *)
DpPartial(job, g) ==
  <<Line(LAMBDA x : LET v == g * SIMD_WIDTH + x
      IN IF DpLoops(job) # 0 /\ v < job.V
         THEN partDotProduct(v, job.n - DpPeeling(job)) ELSE Zero)>>

DpData(job) ==
  IF DpRLim(job)
  THEN For(DpGroups(job), LAMBDA g :
         <<ZeroLine>> \o DpFullWords(job, g) \o DpPeeledWords(job, g))
  ELSE If(DpLoops(job) # 0, For(DpGroups(job), LAMBDA g : <<ZeroLine>> \o DpFullWords(job, g)))
       \o If(DpPeeling(job) # 0, For(DpGroups(job), LAMBDA g :
            DpPartial(job, g) \o DpPeeledWords(job, g)))

(* The two passes count the same columns, no group begins in the half      *)
(* column of the one before, and the rows hold the columns of an operand.  *)
DpLaidOut(job) ==
  LET peeled == CeilDiv(DpPeeling(job), 2)
      rows == CeilDiv((job.n * DpGroups(job)) \div 2,
                      IF DpRLim(job) THEN COLPERROW ELSE COLPERROW + 1)
  IN /\ DpTwoPasses(job) => 2 * DpFullColumns(job) = job.n - DpPeeling(job)
     /\ DpGroups(job) > 1 =>
          /\ DpRLim(job) => Even(DpPeeling(job))
          /\ DpTwoPasses(job) => DpPeeling(job) - 1 + (DpSegment(job) % 2) = peeled
     /\ DpGroups(job) * (DpFullColumns(job) + peeled) <= rows * COLPERROW

-----------------------------------------------------------------------------
DpOutputs(job) == 0 .. job.V - 1
DpPlace(job, v) == <<v \div SIMD_WIDTH, v % SIMD_WIDTH>>
DpReference(job, v) == partDotProduct(v, job.n)
=============================================================================
