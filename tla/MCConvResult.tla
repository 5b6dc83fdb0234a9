---------------------------- MODULE MCConvResult ----------------------------
EXTENDS MCMappedKernel

(* One channel and a 3 x 3 filter on the registers the source is built     *)
(* with: nine weights, a first set of eight and one left over.             *)
ConvResultJobs == {Conv(1, 4, 4, 3, 1, Build(32, 8, 8))}

(* The comment over the first set, "First set of weights, where bias is    *)
(* also added", the other sets going on from the partial result: the       *)
(* stored pixels are the convolution, each term and the bias once.         *)
BiasAddedOnce == Result
=============================================================================
