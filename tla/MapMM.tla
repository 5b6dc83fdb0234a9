------------------------------- MODULE MapMM -------------------------------
(***************************************************************************)
(* The product of an m x n and an n x q matrix.  A set of scalars of a row *)
(* of the first is put into SRF_M; the rows of the second pass by from the *)
(* banks, SIMD_WIDTH columns at a time, and the sums of a row of the       *)
(* result are loaded and stored again with every set.                      *)
(***************************************************************************)
EXTENDS KernelFiles

MmRLim(job) == job.CRF_ENTRIES >= job.SRF_M_ENTRIES + 4
MmSegment(job) ==
  IF MmRLim(job) THEN job.SRF_M_ENTRIES
                 ELSE Smaller(job.CRF_ENTRIES - 4, job.SRF_M_ENTRIES)
MmSets(job) == job.n \div MmSegment(job)
MmPeeling(job) == job.n % MmSegment(job)
MmLoops(job) == CeilDiv(job.q, SIMD_WIDTH)

(* The MACs and addresses of a whole set.  R-limited they are written in   *)
(* pairs, and of an odd number of scalars the last one has none.           *)
MmMacs(job) == IF MmRLim(job) THEN 2 * (job.SRF_M_ENTRIES \div 2) ELSE MmSegment(job)

(* Mutant: the load is not counted. *)
MmPeeledEntryEarly(job) == MmPeeling(job)

(* Where the peeled sets begin to overwrite the program: behind the load   *)
(* and as many MACs as they need.                                          *)
MmPeeledEntry(job) == MmPeeling(job) + 1

(* The sums so far, a MAC per scalar, and the end: the sums stored, a turn *)
(* for each SIMD_WIDTH columns.  The JUMP counts the scalars, not the MACs. *)
MmEnd(job, scalars) == <<Mov(Odd, GrfB0)>> \o Jump(scalars + 2, MmLoops(job)) \o <<EXIT>>
MmProgram(job, macs, scalars) ==
  <<Mov(GrfB0, Odd)>> \o [k \in 1 .. macs |-> ScalarMac(k - 1)] \o MmEnd(job, scalars)

MmAssembly(job) ==
  LET Runs(times, scalars) == For(times, LAMBDA i : Weights(scalars) \o Exec)
  IN If(MmSets(job) # 0,
        Section(0, MmProgram(job, MmMacs(job), MmSegment(job)))
        \o Runs(job.m * MmSets(job), MmSegment(job)))
     \o If(MmPeeling(job) # 0,
           (IF MmSets(job) # 0 THEN Section(MmPeeledEntry(job), MmEnd(job, MmPeeling(job)))
                               ELSE Section(0, MmProgram(job, MmPeeling(job), MmPeeling(job))))
           \o Runs(job.m, MmPeeling(job)))

(* Columns of one bank that a row of the second matrix is taken to have. *)
MmRowColumns(job) == CeilDiv(job.q \div 2, SIMD_WIDTH)
MmOp2Base(job) == CeilDiv(job.m * job.n, 2 * SIMD_WIDTH * COLPERROW) * COLPERROW
MmResBase(job) == MmOp2Base(job) + CeilDiv(job.n * MmLoops(job), 2 * COLPERROW) * COLPERROW
MmResult(job, i, k) == <<Column(Odd, MmResBase(job) + i * MmLoops(job) + k)>>
MmZeros(job) ==
  <<Column(Odd, MmResBase(job) + CeilDiv(job.m * MmLoops(job), COLPERROW) * COLPERROW)>>

(* A turn of the loop: the sums so far, a column per MAC, the sums.        *)
MmTurn(job, fresh, i, k, start, macs) ==
  (IF fresh THEN MmZeros(job) ELSE MmResult(job, i, k))
  \o [t \in 1 .. macs |->
        Column(Bank(t - 1), start + ((t - 1) \div 2) * MmRowColumns(job))]
  \o MmResult(job, i, k)

(* The columns of the second matrix that the scalars of a set apply to. *)
MmSetColumns(job) == MmSegment(job) * MmRowColumns(job)

(* The peeled sets read from the row of the result on.                     *)
MmPeeledAddresses(job) ==
  LET Start(k) == MmResBase(job) + (k \div COLPERROW) * COLPERROW
                  + ((MmSets(job) * MmSetColumns(job) + k) % COLPERROW)
  IN For(job.m, LAMBDA i : For(MmLoops(job), LAMBDA k :
       MmTurn(job, MmSets(job) = 0, i, k, Start(k), MmPeeling(job))))

MmAddresses(job) ==
  For(job.m, LAMBDA i : For(MmSets(job), LAMBDA j : For(MmLoops(job), LAMBDA k :
    MmTurn(job, j = 0, i, k, MmOp2Base(job) + j * MmSetColumns(job) + k, MmMacs(job)))))
  \o If(MmPeeling(job) # 0, MmPeeledAddresses(job))

-----------------------------------------------------------------------------
partMatMultDP(i, col, len) ==
  Products(len, LAMBDA t : <<"op1", i, t>>, LAMBDA t : <<"op2", t, col>>)

(* The scalars of a set, and for each turn the sums of the terms before    *)
(* first and the rows of the second matrix from first on.                  *)
MmSetData(job, i, first, scalars) ==
  For(scalars, LAMBDA t : <<ScalarLine(<<"op1", i, first + t>>)>>)
  \o For(MmLoops(job), LAMBDA k :
       LET InRow(Value(_)) == Line(LAMBDA x : LET col == k * SIMD_WIDTH + x
                                              IN IF col < job.q THEN Value(col) ELSE Zero)
       IN <<InRow(LAMBDA col : partMatMultDP(i, col, first))>>
          \o For(scalars, LAMBDA t : <<InRow(LAMBDA col : Element(<<"op2", first + t, col>>))>>))

MmData(job) ==
  For(job.m, LAMBDA i : For(MmSets(job), LAMBDA j :
    MmSetData(job, i, j * MmSegment(job), MmSegment(job))))
  \o If(MmPeeling(job) # 0, For(job.m, LAMBDA i :
    MmSetData(job, i, MmSets(job) * MmSegment(job), MmPeeling(job))))

(* A row of the second matrix has the columns of a row of the result, the  *)
(* rows hold all its sets, and nothing is read from the rows of the result. *)
MmLaidOut(job) ==
  /\ MmRowColumns(job) = MmLoops(job)
  /\ MmPeeling(job) = 0
  /\ MmSets(job) * MmSegment(job) * MmRowColumns(job)
       <= CeilDiv(job.n * MmLoops(job), 2 * COLPERROW) * COLPERROW

-----------------------------------------------------------------------------
MmOutputs(job) == (0 .. job.m - 1) \X (0 .. job.q - 1)
MmPlace(job, out) ==
  <<out[1] * MmLoops(job) + out[2] \div SIMD_WIDTH, out[2] % SIMD_WIDTH>>
MmReference(job, out) == partMatMultDP(out[1], out[2], job.n)
=============================================================================
