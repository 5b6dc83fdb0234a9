------------------------------ MODULE MapConv ------------------------------
(***************************************************************************)
(* Convolution: ci channels of wi x hi activations with co filters of      *)
(* k x k weights per channel give co channels of wo x ho pixels.  A set of *)
(* weights of a filter is put into SRF_M; the activations they apply to    *)
(* pass by from the banks, one pixel per lane.  The first set of a filter  *)
(* adds the bias (MAD), the next ones go on from the stored sums, and what *)
(* is left of the filter is peeled off.                                    *)
(***************************************************************************)
EXTENDS KernelFiles

FilterSize(job) == job.k * job.k * job.ci
ConvRLim(job) == job.CRF_ENTRIES >= job.SRF_M_ENTRIES + 4
ConvSegment(job) ==
  IF ConvRLim(job) THEN job.SRF_M_ENTRIES
                   ELSE Smaller(job.CRF_ENTRIES - 4, job.SRF_M_ENTRIES)
(* The number of sets is counted in entries of the GRF when R-limited. *)
ConvDivisor(job) == IF ConvRLim(job) THEN job.GRF_ENTRIES ELSE ConvSegment(job)
ConvSets(job) == FilterSize(job) \div ConvDivisor(job)     \* ext_loops + 1
ConvPeeling(job) == FilterSize(job) % ConvDivisor(job)
ConvLoops(job) == CeilDiv(job.wo * job.ho, SIMD_WIDTH)

(* The MACs and addresses of a whole set: R-limited without an odd one.    *)
ConvMacs(job) == IF ConvRLim(job) THEN 2 * (job.SRF_M_ENTRIES \div 2) ELSE ConvSegment(job)

ConvTail(job, turn) == <<Mov(Odd, GrfB0)>> \o Jump(turn, ConvLoops(job)) \o <<EXIT>>

(* MAD with the bias, then a MAC for each further weight; the JUMP counts  *)
(* the weights of the set.                                                 *)
ConvFirst(job, macs, weights) ==
  <<Instr("MAD", GrfB0, <<Bank(0), SrfM(0), SrfA0>>)>>
  \o [t \in 1 .. macs - 1 |-> ScalarMac(t)]
  \o If(macs = 1, <<ScalarMac(0)>>)
  \o ConvTail(job, weights + 1)
(* The sums so far, then a MAC for each weight. *)
ConvNext(job, macs, weights) ==
  <<Mov(GrfB0, Odd)>> \o [t \in 1 .. macs |-> ScalarMac(t - 1)] \o ConvTail(job, weights + 2)

(* Only the end of the program is overwritten for the weights left over.   *)
ConvFilterAssembly(job) ==
  LET seg == ConvSegment(job)
      macs == ConvMacs(job)
      peeling == ConvPeeling(job)
      bias == Scalar(SrfA0)
  IN If(ConvSets(job) > 0,
        Section(0, ConvFirst(job, macs, seg)) \o Weights(seg) \o bias \o Exec)
     \o If(ConvSets(job) > 1,
           Section(0, ConvNext(job, macs, seg))
           \o For(ConvSets(job) - 1, LAMBDA j : Weights(seg) \o Exec))
     \o If(peeling # 0,
           IF ConvSets(job) > 0
           THEN Section(peeling + 1, ConvTail(job, peeling + 2)) \o Weights(peeling) \o Exec
           ELSE Section(0, ConvFirst(job, peeling, peeling)) \o Weights(peeling) \o bias \o Exec)

ConvAssembly(job) == For(job.co, LAMBDA i : ConvFilterAssembly(job))

-----------------------------------------------------------------------------
(* Rows of the activations, the weights and the biases, then the result. *)
ConvResBase(job) ==
  (CeilDiv((ConvLoops(job) * FilterSize(job)) \div 2, COLPERROW)
   + CeilDiv(CeilDiv(job.co * FilterSize(job), SIMD_WIDTH), 2 * COLPERROW)
   + CeilDiv(CeilDiv(job.co, SIMD_WIDTH), 2 * COLPERROW)) * COLPERROW
ConvResult(job, i, turn) == <<Column(Odd, ConvResBase(job) + i * ConvLoops(job) + turn)>>

(* Mutant: each set starts again at the first activations. *)
ConvSetColumnsAgain(job, j, turn) ==
  Columns(turn * CeilDiv(ConvMacs(job), 2), ConvMacs(job))

(* The columns of set j in a turn of its loop. *)
ConvSetColumns(job, j, turn) ==
  Columns((j * ConvLoops(job) + turn) * CeilDiv(ConvMacs(job), 2), ConvMacs(job))

(* The peeled part has the address of a load also where the program has    *)
(* none, and moves on by full columns only.                                *)
ConvFilterAddresses(job, i) ==
  LET peeled == ConvSets(job) * ConvLoops(job) * CeilDiv(ConvMacs(job), 2)
  IN For(ConvSets(job), LAMBDA j : For(ConvLoops(job), LAMBDA turn :
       If(j > 0, ConvResult(job, i, turn))
       \o ConvSetColumns(job, j, turn) \o ConvResult(job, i, turn)))
     \o If(ConvPeeling(job) # 0, For(ConvLoops(job), LAMBDA turn :
       ConvResult(job, i, turn)
       \o Columns(peeled + turn * (ConvPeeling(job) \div 2), ConvPeeling(job))
       \o ConvResult(job, i, turn)))

ConvAddresses(job) == For(job.co, LAMBDA i : ConvFilterAddresses(job, i))

-----------------------------------------------------------------------------
(* Where weight f of a filter stands in it.  R-limited, with fewer entries *)
(* in the GRF than in the SRF, the sets run past the filter: the weights   *)
(* are those of the next one, the activations begin again.                 *)
Weight(job, i, f) == <<"weight", i + f \div FilterSize(job), f % FilterSize(job)>>
Channel(job, f) == (f % FilterSize(job)) \div (job.k * job.k)
Row(job, f) == (f % (job.k * job.k)) \div job.k
Col(job, f) == (f % (job.k * job.k)) % job.k

(* The bias and the first weights of filter i applied at a pixel. *)
partPixConv(job, done, i, y, x) ==
  << {<<"bias", i>>} >> \o
  Products(done,
    LAMBDA f : <<"act", Channel(job, f), y * job.stride + Row(job, f), x * job.stride + Col(job, f)>>,
    LAMBDA f : Weight(job, i, f))

(* The activation weight f applies to at the o-th place of the filter.     *)
(* The places follow each other at a distance of 1, whatever the stride.   *)
Activation(job, f, o) ==
  LET width == job.wi - job.k + 1
      y == o \div width
  IN IF y > job.hi - job.k THEN Zero
     ELSE Element(<<"act", Channel(job, f), y + Row(job, f), (o % width) + Col(job, f)>>)

ConvWeights(job, i, first, weights) ==
  For(weights, LAMBDA t : <<ScalarLine(Weight(job, i, first + t))>>)
ConvActivations(job, first, weights, turn) ==
  For(weights, LAMBDA t : <<Line(LAMBDA x :
    Activation(job, first + t, turn * SIMD_WIDTH + x))>>)
ConvPartial(job, done, i, turn) ==
  <<Line(LAMBDA x : LET o == turn * SIMD_WIDTH + x
      IN IF o < job.wo * job.ho THEN partPixConv(job, done, i, o \div job.wo, o % job.wo)
                                ELSE Zero)>>

(* A set of weights from the first-th on; the very first set brings the    *)
(* bias, the others the sums so far.                                       *)
ConvSetData(job, i, first, weights) ==
  ConvWeights(job, i, first, weights)
  \o If(first = 0, <<ScalarLine(<<"bias", i>>)>>)
  \o For(ConvLoops(job), LAMBDA turn :
       If(first # 0, ConvPartial(job, first % FilterSize(job), i, turn))
       \o ConvActivations(job, first, weights, turn))

(* What is left of a filter brings the bias if there was no set before. *)
ConvPeeledData(job, i) ==
  If(ConvPeeling(job) # 0,
     ConvSetData(job, i, ConvSets(job) * ConvSegment(job), ConvPeeling(job)))

ConvData(job) ==
  For(job.co, LAMBDA i :
    For(ConvSets(job), LAMBDA j : ConvSetData(job, i, j * ConvSegment(job), ConvSegment(job)))
    \o ConvPeeledData(job, i))

(* No turn begins in the half column of the one before, and the rows       *)
(* before the result hold the columns of the activations.                  *)
ConvLaidOut(job) ==
  /\ ConvLoops(job) = 1 \/ Even(ConvPeeling(job))
  /\ ConvLoops(job) * (ConvSets(job) * CeilDiv(ConvSegment(job), 2) + CeilDiv(ConvPeeling(job), 2))
       <= CeilDiv((ConvLoops(job) * FilterSize(job)) \div 2, COLPERROW) * COLPERROW

-----------------------------------------------------------------------------
ConvOutputs(job) == (0 .. job.co - 1) \X (0 .. job.wo * job.ho - 1)
ConvPlace(job, out) ==
  <<out[1] * ConvLoops(job) + out[2] \div SIMD_WIDTH, out[2] % SIMD_WIDTH>>
ConvReference(job, out) ==
  partPixConv(job, FilterSize(job), out[1], out[2] \div job.wo, out[2] % job.wo)
=============================================================================
