--------------------------- MODULE MCMappedKernel ---------------------------
EXTENDS MappedKernel, TLC

Build(crfEntries, grf, srf) ==
  [CRF_ENTRIES |-> crfEntries, GRF_ENTRIES |-> grf, SRF_M_ENTRIES |-> srf]

(* From C-limited with segments of 2 and 3 to R-limited; in the last one   *)
(* the CRF limits the kernels on the SRF as well.                          *)
SmallBuilds == {Build(8, 2, 2), Build(11, 2, 2), Build(16, 2, 2), Build(23, 2, 2)}
CrfLimited  == Build(7, 4, 4)

VaJobs == {[kernel |-> kernel, V |-> V, n |-> n] @@ b :
             kernel \in {"EWARW", "EWACW"}, V \in 1 .. 5, n \in 1 .. 5, b \in SmallBuilds}
DpJobs == {[kernel |-> "DP", V |-> V, n |-> n] @@ b :
             V \in {1, 2, 3, 5}, n \in 1 .. 8, b \in SmallBuilds}
MmJobs == {[kernel |-> "MMS", m |-> m, n |-> n, q |-> q] @@ b :
             m \in 1 .. 2, n \in {1, 4, 5, 8}, q \in 1 .. 3, b \in {Build(8, 2, 2), CrfLimited}}

Conv(ci, wi, hi, k, co, b) ==
  [kernel |-> "CCWWR", ci |-> ci, wi |-> wi, hi |-> hi, k |-> k, co |-> co,
   wo |-> wi - k + 1, ho |-> hi - k + 1, stride |-> 1] @@ b
ConvJobs == {Conv(ci, wi, hi, k, co, b) :
               ci \in 1 .. 3, wi \in 3 .. 4, hi \in 3 .. 4, k \in 1 .. 3, co \in 1 .. 2,
               b \in {Build(8, 2, 2), CrfLimited}}

(* All of them that the kernels handle: run conv_result has one they do    *)
(* not, whose peeled weights follow the very first set.                    *)
MCJobs == {j \in VaJobs \cup DpJobs \cup MmJobs \cup ConvJobs : Handled(j)}
=============================================================================
