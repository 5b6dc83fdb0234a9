------------------------- MODULE MappedKernelProof -------------------------
(***************************************************************************)
(* What the assembler finds in the three files of a mapped kernel, for     *)
(* jobs of every size (MappedKernel): the files stay in step, and the      *)
(* program fits the CRF and the register files.                            *)
(*                                                                         *)
(* The walk depends on the lines left, the program, the registers written, *)
(* the entry it is at and the turns its loop has left, and on no value.    *)
(* InStep says of such a state that all steps to come fit; it is shown     *)
(* backwards, from the end of the files to their beginning: of a line, of  *)
(* an instruction, of n instructions, of the turns of a loop, of the parts *)
(* of each kernel, and of the kernel.  That is what makes the invariant    *)
(* inductive: each step of the model is the step InStep speaks of.         *)
(***************************************************************************)
EXTENDS MappedKernel, SequenceTheorems, WellFoundedInduction, TLAPS

(***************************************************************************)
(* Sequences and the parts they are put together from.                     *)
(***************************************************************************)

(* Sequences of whatever elements they have. *)
Items(s) == {s[i] : i \in 1 .. Len(s)}
IsSeq(s) == s \in Seq(Items(s))

(* Induction over the natural numbers, for a set. *)
LEMMA Induction ==
  ASSUME NEW N \in SUBSET Nat, 0 \in N, \A n \in N : n + 1 \in N
  PROVE  N = Nat
<1> DEFINE Before == OpToRel(<, Nat)
<1>1. \A a, b \in Nat : a < b => <<a, b>> \in Before
  BY DEF OpToRel
<1>2. IsWellFoundedOn(Before, Nat)
  BY NatLessThanWellFounded DEF Before
<1> HIDE DEF Before
<1> SUFFICES ASSUME Nat \ N # {} PROVE FALSE
  OBVIOUS
<1>3. PICK least \in Nat \ N : \A n \in Nat \ N : ~ (<<n, least>> \in Before)
  BY <1>2, WFMin
<1>4. least # 0 /\ least - 1 \in Nat
  BY <1>3
<1>5. least - 1 \in N
  <2>1. <<least - 1, least>> \in Before
    BY <1>1, <1>3, <1>4
  <2> QED BY <1>3, <1>4, <2>1
<1> QED BY <1>3, <1>4, <1>5

(* Every sequence is a sequence of its own elements.                       *)
LEMMA InSeq == ASSUME NEW T, NEW s \in Seq(T) PROVE IsSeq(s)
  BY DEF IsSeq, Items

(* The length of a sequence and its domain.                                *)
LEMMA SeqFacts ==
  ASSUME NEW s, IsSeq(s)
  PROVE  Len(s) \in Nat /\ DOMAIN s = 1 .. Len(s)
  BY DEF IsSeq

(* A function on 1 .. n is a sequence of length n.                         *)
LEMMA FunSeq ==
  ASSUME NEW n \in Nat, NEW s, s = [i \in 1 .. n |-> s[i]]
  PROVE  IsSeq(s) /\ Len(s) = n /\ s \in Seq({s[i] : i \in 1 .. n})
<1>1. s \in Seq({s[i] : i \in 1 .. n}) /\ DOMAIN s = 1 .. n
  OBVIOUS
<1>2. Len(s) = n
  BY <1>1
<1> QED BY <1>1, <1>2 DEF IsSeq, Items

(* The empty sequence.                                                     *)
LEMMA NoneSeq == IsSeq(<<>>) /\ Len(<<>>) = 0
  BY DEF IsSeq, Items

(* A sequence of one element.                                              *)
LEMMA OneSeq == ASSUME NEW e PROVE IsSeq(<<e>>) /\ Len(<<e>>) = 1 /\ <<e>>[1] = e
  BY DEF IsSeq, Items

(* Two sequences with the same elements in the same order are equal.       *)
LEMMA SameSeq ==
  ASSUME NEW s, NEW t, IsSeq(s), IsSeq(t), Len(s) = Len(t), \A i \in 1 .. Len(s) : s[i] = t[i]
  PROVE  s = t
<1>1. Items(s) = Items(t)
  BY DEF Items
<1> QED BY <1>1, SeqEqual DEF IsSeq

(* The length and the elements of two sequences put together.              *)
LEMMA Joined ==
  ASSUME NEW s, NEW t, IsSeq(s), IsSeq(t)
  PROVE  /\ IsSeq(s \o t) /\ Len(s \o t) = Len(s) + Len(t)
         /\ \A i \in 1 .. Len(s) + Len(t) :
              (s \o t)[i] = IF i <= Len(s) THEN s[i] ELSE t[i - Len(s)]
<1> DEFINE T == Items(s) \cup Items(t)
<1>1. s \in Seq(T) /\ t \in Seq(T)
  BY DEF IsSeq
<1> HIDE DEF T
<1>2. s \o t \in Seq(T)
  BY <1>1
<1> QED BY <1>1, <1>2, InSeq, ConcatProperties

(* The empty sequence adds nothing.                                        *)
LEMMA JoinedNone == ASSUME NEW s, IsSeq(s) PROVE s \o <<>> = s /\ <<>> \o s = s
  BY ConcatEmptySeq DEF IsSeq

(* Putting sequences together is associative.                              *)
LEMMA Regroup ==
  ASSUME NEW s, NEW t, NEW u, IsSeq(s), IsSeq(t), IsSeq(u)
  PROVE  (s \o t) \o u = s \o (t \o u)
<1> DEFINE T == Items(s) \cup Items(t) \cup Items(u)
<1>1. s \in Seq(T) /\ t \in Seq(T) /\ u \in Seq(T)
  BY DEF IsSeq
<1> QED BY <1>1, ConcatAssociative

(* The head and the tail behind a first element.                           *)
LEMMA HeadOfJoined ==
  ASSUME NEW e, NEW s, IsSeq(s)
  PROVE  /\ <<e>> \o s # <<>> /\ Head(<<e>> \o s) = e /\ Tail(<<e>> \o s) = s
<1> DEFINE T == Items(s) \cup {e}
           new == <<e>> \o s
<1>1. s \in Seq(T) /\ <<e>> \in Seq(T)
  BY DEF IsSeq
<1>2. new \in Seq(T) /\ Len(new) = 1 + Len(s) /\ new[1] = e
      /\ \A i \in 2 .. Len(s) + 1 : new[i] = s[i - 1]
  BY <1>1, ConcatProperties
<1>3. new # <<>> /\ Len(s) \in Nat
  BY <1>1, <1>2
<1>4. /\ Tail(new) \in Seq(T) /\ Len(Tail(new)) = Len(s)
      /\ \A i \in 1 .. Len(s) : Tail(new)[i] = s[i]
  BY <1>2, <1>3, HeadTailProperties
<1>5. Tail(new) = s
  BY <1>1, <1>4, SeqEqual
<1> HIDE DEF new
<1>6. Head(new) = e
  BY <1>2, <1>3
<1> QED BY <1>3, <1>5, <1>6 DEF new

(* A sequence that is not empty is its head before its tail.               *)
LEMMA Split ==
  ASSUME NEW s, IsSeq(s), s # <<>>
  PROVE  IsSeq(Tail(s)) /\ Len(s) > 0 /\ Len(Tail(s)) = Len(s) - 1 /\ Head(s) = s[1]
         /\ s = <<Head(s)>> \o Tail(s) /\ \A i \in 1 .. Len(s) - 1 : Tail(s)[i] = s[i + 1]
<1> DEFINE T == Items(s)
<1>0. s \in Seq(T)
  BY DEF IsSeq
<1> HIDE DEF T
<1>1. /\ Head(s) = s[1] /\ Len(s) \in Nat \ {0} /\ Head(s) \in T
      /\ Tail(s) \in Seq(T) /\ Len(Tail(s)) = Len(s) - 1
      /\ \A i \in 1 .. Len(s) - 1 : Tail(s)[i] = s[i + 1]
  BY <1>0, HeadTailProperties
<1>2. <<Head(s)>> \in Seq(T)
  BY <1>1
<1>3. s = <<Head(s)>> \o Tail(s)
  <2> DEFINE new == <<Head(s)>> \o Tail(s)
  <2>1. new \in Seq(T) /\ Len(new) = Len(s) /\ \A i \in 1 .. Len(s) : new[i] = s[i]
    BY <1>1, <1>2, ConcatProperties
  <2> QED BY <1>0, <2>1, SeqEqual
<1>4. IsSeq(Tail(s))
  BY <1>1, InSeq
<1>5. Len(s) > 0
  BY <1>1
<1> HIDE DEF T
<1> QED BY <1>1, <1>3, <1>4, <1>5

(* Sequences of n items, and of n sequences. *)
Tuple(s, n) == s = [i \in 1 .. n |-> s[i]]
Parts(s, n) == Tuple(s, n) /\ \A i \in 1 .. n : IsSeq(s[i])

(* The parts of a sequence of sequences are put together from the left.    *)
LEMMA FlattenNone ==
  ASSUME NEW s, Tuple(s, 0)
  PROVE  FlattenSeq(s) = <<>>
<1>1. IsSeq(s) /\ Len(s) = 0
  BY FunSeq DEF Tuple
<1>2. s = <<>>
  BY <1>1, NoneSeq, SameSeq
<1> QED BY <1>1, <1>2 DEF FlattenSeq

Flattens(f, s, n) == f = [i \in 1 .. n |-> IF i = 1 THEN s[i] ELSE f[i - 1] \o s[i]]

(* The function that puts parts together, at each of its arguments.        *)
LEMMA FlattensAt ==
  ASSUME NEW n, NEW s, NEW f
  PROVE  Flattens(f, s, n) =>
           \A i \in 1 .. n : f[i] = IF i = 1 THEN s[i] ELSE f[i - 1] \o s[i]
  BY DEF Flattens

(* There is such a function for every number of parts.                     *)
LEMMA FlattenExists ==
  ASSUME NEW n \in Nat, NEW s
  PROVE  \E f : Flattens(f, s, n)
<1> DEFINE N == {m \in Nat : \E f : Flattens(f, s, m)}
<1>1. 0 \in N
  <2> DEFINE f == [i \in 1 .. 0 |-> <<>>]
  <2>1. Flattens(f, s, 0)
    BY DEF Flattens
  <2> QED BY <2>1
<1>2. ASSUME NEW m \in N PROVE m + 1 \in N
  <2>1. PICK f : Flattens(f, s, m)
    OBVIOUS
  <2> DEFINE g == [i \in 1 .. m + 1 |->
                     IF i = m + 1 THEN (IF m = 0 THEN s[1] ELSE f[m] \o s[m + 1]) ELSE f[i]]
  <2>0. m \in Nat
    OBVIOUS
  <2> HIDE DEF N
  <2>2. /\ g = [i \in 1 .. m + 1 |-> g[i]]
        /\ g[m + 1] = IF m = 0 THEN s[1] ELSE f[m] \o s[m + 1]
        /\ \A i \in 1 .. m : g[i] = f[i]
    <3>1. g = [i \in 1 .. m + 1 |-> g[i]]
      OBVIOUS
    <3>2. g[m + 1] = IF m = 0 THEN s[1] ELSE f[m] \o s[m + 1]
      BY <2>0
    <3>3. ASSUME NEW i \in 1 .. m PROVE g[i] = f[i]
      BY <2>0
    <3> QED BY <3>1, <3>2, <3>3
  <2> HIDE DEF g
  <2>3. \A i \in 1 .. m : f[i] = IF i = 1 THEN s[i] ELSE f[i - 1] \o s[i]
    BY <2>1, FlattensAt
  <2>4. ASSUME NEW i \in 1 .. m + 1
        PROVE  g[i] = IF i = 1 THEN s[i] ELSE g[i - 1] \o s[i]
    <3>1. CASE i = m + 1
      <4>1. CASE m = 0
        BY <2>2, <3>1, <4>1
      <4>2. CASE m # 0
        <5>1. i # 1 /\ i - 1 = m /\ m \in 1 .. m
          BY <2>0, <3>1, <4>2
        <5>2. g[i - 1] = f[m] /\ g[i] = f[m] \o s[m + 1] /\ s[i] = s[m + 1]
          BY <2>2, <3>1, <4>2, <5>1
        <5> QED BY <5>1, <5>2
      <4> QED BY <4>1, <4>2
    <3>2. CASE i # m + 1
      <4>1. i \in 1 .. m /\ (i # 1 => i - 1 \in 1 .. m)
        BY <2>0, <3>2
      <4> QED BY <2>2, <2>3, <4>1
    <3> QED BY <3>1, <3>2
  <2>5. Flattens(g, s, m + 1)
    BY <2>2, <2>4 DEF Flattens
  <2>6. m + 1 \in Nat
    BY <2>0
  <2> QED BY <2>5, <2>6 DEF N
<1>3. N = Nat
  <2> HIDE DEF N
  <2>1. N \in SUBSET Nat
    BY DEF N
  <2> QED BY <1>1, <1>2, <2>1, Induction
<1> QED BY <1>3

(* FlattenSeq is its value at the last part.                               *)
LEMMA FlattenIs ==
  ASSUME NEW n \in Nat \ {0}, NEW s, Tuple(s, n)
  PROVE  \E f : Flattens(f, s, n) /\ FlattenSeq(s) = f[n]
<1>1. Len(s) = n
  BY FunSeq DEF Tuple
<1> DEFINE fl == CHOOSE f : f = [i \in 1 .. n |-> IF i = 1 THEN s[i] ELSE f[i - 1] \o s[i]]
<1>2. FlattenSeq(s) = fl[n]
  BY <1>1 DEF FlattenSeq
<1>3. \E f : f = [i \in 1 .. n |-> IF i = 1 THEN s[i] ELSE f[i - 1] \o s[i]]
  BY FlattenExists DEF Flattens
<1>4. Flattens(fl, s, n)
  BY <1>3 DEF Flattens
<1> QED BY <1>2, <1>4

(* Parts that begin alike are put together alike.                          *)
LEMMA FlattenUnique ==
  ASSUME NEW n \in Nat, NEW m \in Nat, n <= m, NEW s, NEW t, \A i \in 1 .. n : s[i] = t[i],
         NEW f, NEW g, Flattens(f, s, n), Flattens(g, t, m)
  PROVE  \A i \in 1 .. n : f[i] = g[i]
<1> DEFINE N == {i \in Nat : i \in 1 .. n => f[i] = g[i]}
<1>1. 0 \in N
  OBVIOUS
<1>2. ASSUME NEW i \in N PROVE i + 1 \in N
  <2> SUFFICES ASSUME i + 1 \in 1 .. n PROVE f[i + 1] = g[i + 1]
    OBVIOUS
  <2>1. f[i + 1] = IF i + 1 = 1 THEN s[i + 1] ELSE f[i] \o s[i + 1]
    <3>1. i + 1 \in 1 .. n /\ (i + 1) - 1 = i
      OBVIOUS
    <3> QED BY <3>1, FlattensAt
  <2>2. g[i + 1] = IF i + 1 = 1 THEN t[i + 1] ELSE g[i] \o t[i + 1]
    <3>1. i + 1 \in 1 .. m /\ (i + 1) - 1 = i
      OBVIOUS
    <3> QED BY <3>1, FlattensAt
  <2>3. i # 0 => f[i] = g[i]
    OBVIOUS
  <2> QED BY <2>1, <2>2, <2>3
<1>3. N = Nat
  <2> HIDE DEF N
  <2>1. N \in SUBSET Nat
    BY DEF N
  <2> QED BY <1>1, <1>2, <2>1, Induction
<1> QED BY <1>3

(* One part more is put behind the others.                                 *)
LEMMA FlattenOneMore ==
  ASSUME NEW n \in Nat, NEW s, Parts(s, n + 1)
  PROVE  FlattenSeq(s) = FlattenSeq([i \in 1 .. n |-> s[i]]) \o s[n + 1]
<1> DEFINE t == [i \in 1 .. n |-> s[i]]
<1>1. PICK f : Flattens(f, s, n + 1) /\ FlattenSeq(s) = f[n + 1]
  <2>1. n + 1 \in Nat \ {0}
    OBVIOUS
  <2> QED BY <2>1, FlattenIs DEF Parts
<1>2. f[n + 1] = IF n = 0 THEN s[1] ELSE f[n] \o s[n + 1]
  <2>1. n + 1 \in 1 .. n + 1 /\ (n + 1) - 1 = n /\ (n + 1 = 1 <=> n = 0)
    OBVIOUS
  <2> QED BY <1>1, <2>1, FlattensAt
<1>3. CASE n = 0
  <2>1. FlattenSeq(t) = <<>>
    <3>1. Tuple(t, 0)
      BY <1>3 DEF Tuple
    <3> QED BY <3>1, FlattenNone
  <2>2. IsSeq(s[1])
    BY <1>3 DEF Parts
  <2>3. FlattenSeq(s) = s[1] /\ s[n + 1] = s[1]
    BY <1>1, <1>2, <1>3
  <2> HIDE DEF t
  <2>4. <<>> \o s[1] = s[1]
    BY <2>2, JoinedNone
  <2>5. FlattenSeq(t) \o s[n + 1] = s[1]
    BY <2>1, <2>3, <2>4
  <2> QED BY <2>3, <2>5 DEF t
<1>4. CASE n # 0
  <2>1. Tuple(t, n) /\ \A i \in 1 .. n : t[i] = s[i]
    BY DEF Tuple
  <2> HIDE DEF t
  <2>2. PICK g : Flattens(g, t, n) /\ FlattenSeq(t) = g[n]
    BY <1>4, <2>1, FlattenIs
  <2>3. g[n] = f[n]
    <3>1. n \in 1 .. n /\ n + 1 \in Nat /\ n <= n + 1
      BY <1>4
    <3>2. \A i \in 1 .. n : t[i] = s[i]
      BY <2>1
    <3>3. Flattens(g, t, n) /\ Flattens(f, s, n + 1)
      BY <1>1, <2>2
    <3>4. \A i \in 1 .. n : g[i] = f[i]
      BY <3>1, <3>2, <3>3, FlattenUnique
    <3> QED BY <3>1, <3>4
  <2> QED BY <1>1, <1>2, <1>4, <2>2, <2>3 DEF t
<1> QED BY <1>3, <1>4

(* What is left of the parts and of what follows them, after t of them.    *)
Rests(R, s, n, rest) ==
  /\ R[0] = FlattenSeq(s) \o rest /\ R[n] = rest
  /\ \A t \in 0 .. n : IsSeq(R[t])
  /\ \A t \in 0 .. n - 1 : R[t] = s[t + 1] \o R[t + 1]

(* For all parts there is what is left of them and of what follows.        *)
LEMMA PartsRest ==
  ASSUME NEW n \in Nat, NEW s, Parts(s, n), NEW rest, IsSeq(rest)
  PROVE  IsSeq(FlattenSeq(s)) /\ \E R : Rests(R, s, n, rest)
<1> DEFINE Claim(m, p, r) == IsSeq(FlattenSeq(p)) /\ \E R : Rests(R, p, m, r)
           N == {m \in Nat : \A p, r : Parts(p, m) /\ IsSeq(r) => Claim(m, p, r)}
<1>1. 0 \in N
  <2> SUFFICES ASSUME NEW p, NEW r, Parts(p, 0), IsSeq(r) PROVE Claim(0, p, r)
    OBVIOUS
  <2>1. FlattenSeq(p) = <<>>
    BY FlattenNone DEF Parts
  <2> DEFINE R == [t \in 0 .. 0 |-> r]
  <2>2. \A t \in 0 .. 0 : R[t] = r
    OBVIOUS
  <2> HIDE DEF R
  <2>3. Rests(R, p, 0, r)
    <3>1. <<>> \o r = r
      BY JoinedNone
    <3>2. 0 \in 0 .. 0 /\ ~ \E t \in 0 .. 0 - 1 : TRUE
      OBVIOUS
    <3> QED BY <2>1, <2>2, <3>1, <3>2 DEF Rests
  <2> QED BY <2>1, <2>3, NoneSeq
<1>2. ASSUME NEW m \in N PROVE m + 1 \in N
  <2> SUFFICES ASSUME NEW p, NEW r, Parts(p, m + 1), IsSeq(r)
               PROVE  Claim(m + 1, p, r)
    OBVIOUS
  <2>0. m \in Nat
    OBVIOUS
  <2> DEFINE q == [i \in 1 .. m |-> p[i]]
             last == p[m + 1]
  <2>1. FlattenSeq(p) = FlattenSeq(q) \o last
    BY <2>0, FlattenOneMore
  <2>2. Parts(q, m) /\ \A i \in 1 .. m : q[i] = p[i]
    BY <2>0 DEF Parts, Tuple
  <2>3. IsSeq(last) /\ IsSeq(last \o r)
    BY <2>0, Joined DEF Parts
  <2> HIDE DEF q, last
  <2>4. Claim(m, q, last \o r)
    BY <2>2, <2>3
  <2>5. PICK R : Rests(R, q, m, last \o r)
    BY <2>4
  <2> DEFINE S == [t \in 0 .. m + 1 |-> IF t = m + 1 THEN r ELSE R[t]]
  <2>6. S[m + 1] = r /\ \A t \in 0 .. m : S[t] = R[t]
    <3>1. m + 1 \in 0 .. m + 1
      BY <2>0
    <3>2. ASSUME NEW t \in 0 .. m PROVE t \in 0 .. m + 1 /\ t # m + 1
      BY <2>0
    <3> QED BY <3>1, <3>2
  <2> HIDE DEF S
  <2>7. S[0] = FlattenSeq(p) \o r
    <3>1. R[0] = FlattenSeq(q) \o (last \o r)
      BY <2>5 DEF Rests
    <3>4. IsSeq(FlattenSeq(q)) /\ IsSeq(last) /\ IsSeq(r)
      BY <2>3, <2>4
    <3>2. FlattenSeq(q) \o (last \o r) = (FlattenSeq(q) \o last) \o r
      BY <3>4, Regroup, SMTT(30)
    <3>3. S[0] = R[0]
      BY <2>0, <2>6
    <3> QED BY <2>1, <3>1, <3>2, <3>3
  <2>8. \A t \in 0 .. m + 1 : IsSeq(S[t])
    BY <2>5, <2>6 DEF Rests
  <2>9. ASSUME NEW t \in 0 .. m PROVE S[t] = p[t + 1] \o S[t + 1]
    <3>1. CASE t = m
      BY <2>5, <2>6, <3>1 DEF Rests, last
    <3>2. CASE t # m
      <4>1. t \in 0 .. m - 1 /\ t + 1 \in 1 .. m /\ t \in 0 .. m /\ t + 1 \in 0 .. m
        BY <2>0, <3>2
      <4>2. R[t] = q[t + 1] \o R[t + 1]
        BY <2>5, <4>1 DEF Rests
      <4> QED BY <2>2, <2>6, <4>1, <4>2
    <3> QED BY <3>1, <3>2
  <2>10. Rests(S, p, m + 1, r)
    <3>1. (m + 1) - 1 = m
      BY <2>0
    <3> QED BY <2>6, <2>7, <2>8, <2>9, <3>1 DEF Rests
  <2>11. IsSeq(FlattenSeq(p))
    BY <2>1, <2>3, <2>4, Joined
  <2> QED BY <2>10, <2>11
<1>3. N = Nat
  <2> HIDE DEF N
  <2>1. N \in SUBSET Nat
    BY DEF N
  <2> QED BY <1>1, <1>2, <2>1, Induction
<1> QED BY <1>3

(***************************************************************************)
(* What the assembler's walk depends on: the lines left of the three       *)
(* files, the program, the registers written, the entry the walk is at,    *)
(* -1 between EXECs, and the turns its loop has left, 0 outside of one.    *)
(***************************************************************************)
State(asm, addr, data, prog, known, at, left) ==
  [asm |-> asm, addr |-> addr, data |-> data, prog |-> prog, known |-> known,
   at |-> at, left |-> left]

Written(prog, at, instrs) ==
  [e \in DOMAIN prog \cup (at .. at + Len(instrs) - 1) |->
     IF e \in at .. at + Len(instrs) - 1 THEN instrs[e - at + 1] ELSE prog[e]]

LineStep(s, l) ==
  CASE l.line = "WRF CRF" ->
         State(Tail(s.asm), s.addr, s.data, Written(s.prog, l.at, l.instrs), s.known, -1, 0)
    [] l.line = "WRF SRF" ->
         State(Tail(s.asm), s.addr, Tail(s.data), s.prog, s.known \cup {l.reg}, -1, 0)
    [] l.line = "EXEC" ->
         State(Tail(s.asm), s.addr, s.data, s.prog, s.known, 0, 0)

JumpStep(s, ins) ==
  IF s.left = 1 THEN State(s.asm, s.addr, s.data, s.prog, s.known, s.at + 1, 0)
  ELSE State(s.asm, s.addr, s.data, s.prog, s.known, s.at - ins.dst[1],
             IF s.left = 0 THEN ins.dst[2] ELSE s.left - 1)

EntryStep(s, ins) ==
  IF ins.op = "EXIT" THEN State(s.asm, s.addr, s.data, s.prog, s.known, -1, 0)
  ELSE IF ins.op = "JUMP" THEN JumpStep(s, ins)
  ELSE IF IsStore(ins)
  THEN State(s.asm, Tail(s.addr), s.data, s.prog, s.known, s.at + 1, s.left)
  ELSE State(s.asm, Tail(s.addr), Tail(s.data), s.prog, s.known \cup {ins.dst}, s.at + 1, s.left)

StepOf(s) == IF s.at = -1 THEN LineStep(s, Head(s.asm)) ELSE EntryStep(s, s.prog[s.at])

(* The lines fit the step that is next. *)
GoodInstr(j, ins) ==
  ins.op \in {"JUMP", "EXIT"}
    \/ \A o \in ToSet(ins.src) \cup {ins.dst} : IsBank(o) \/ o \in Registers(j)

GoodLine(j, l, data) ==
  \/ /\ l.line = "WRF CRF" /\ l.at \in Nat /\ IsSeq(l.instrs)
     /\ l.at + Len(l.instrs) <= j.CRF_ENTRIES
     /\ \A i \in 1 .. Len(l.instrs) : GoodInstr(j, l.instrs[i])
  \/ l.line = "WRF SRF" /\ l.reg \in Registers(j) /\ data # <<>> /\ Len(Head(data)) = 1
  \/ l.line = "EXEC"

GoodEntry(s, ins) ==
  \/ ins.op = "EXIT"
  \/ ins.op = "JUMP" /\ ins.dst[2] \in Nat \ {0} /\ s.at - ins.dst[1] \in Nat
  \/ /\ ins.op \notin {"JUMP", "EXIT"}
     /\ BankOperands(ins) # {} /\ s.addr # <<>>
     /\ \A o \in BankOperands(ins) : Head(s.addr)[1] = o[1]
     /\ \A o \in ReadsFrom(ins) : IsBank(o) \/ o \in s.known
     /\ IsStore(ins) \/ (~IsBank(ins.dst) /\ s.data # <<>> /\ Len(Head(s.data)) = SIMD_WIDTH)

Over(s) == s.at = -1 /\ s.asm = <<>>

Good(j, s) ==
  /\ IsSeq(s.asm) /\ IsSeq(s.addr) /\ IsSeq(s.data) /\ s.left \in Nat
  /\ Over(s) => s.addr = <<>> /\ s.data = <<>>
  /\ (s.at = -1 /\ s.asm # <<>>) => GoodLine(j, Head(s.asm), s.data)
  /\ s.at # -1 => s.at \in DOMAIN s.prog /\ GoodEntry(s, s.prog[s.at])

(* The lines fit all steps to come.                                        *)
Safe(j, s) ==
  \E all : s \in all /\ \A u \in all : Good(j, u) /\ (Over(u) \/ StepOf(u) \in all)

(* A safe walk fits the next step, and is safe behind it.                  *)
LEMMA SafeIsGood ==
  ASSUME NEW j, NEW s, Safe(j, s)
  PROVE  Good(j, s) /\ (Over(s) \/ Safe(j, StepOf(s)))
<1>1. PICK all : s \in all /\ \A u \in all : Good(j, u) /\ (Over(u) \/ StepOf(u) \in all)
  BY DEF Safe
<1>2. ASSUME NEW t, t \in all PROVE Safe(j, t)
  BY <1>1, <1>2 DEF Safe
<1> QED BY <1>1, <1>2

(* A walk that is over is safe when all three files have ended.            *)
LEMMA SafeAtEnd ==
  ASSUME NEW j, NEW s, Good(j, s), Over(s)
  PROVE  Safe(j, s)
<1> DEFINE all == {s}
<1>1. s \in all /\ \A u \in all : Good(j, u) /\ (Over(u) \/ StepOf(u) \in all)
  OBVIOUS
<1> QED BY <1>1 DEF Safe

(* A step that fits and leads to a safe walk is safe.                      *)
LEMMA SafeBefore ==
  ASSUME NEW j, NEW s, Good(j, s), NEW t, StepOf(s) = t, Safe(j, t)
  PROVE  Safe(j, s)
<1>1. PICK rest : t \in rest /\ \A u \in rest : Good(j, u) /\ (Over(u) \/ StepOf(u) \in rest)
  BY DEF Safe
<1> DEFINE all == rest \cup {s}
<1>2. s \in all /\ \A u \in all : Good(j, u) /\ (Over(u) \/ StepOf(u) \in all)
  BY <1>1
<1> QED BY <1>2 DEF Safe

(* From here on the lines fit, if these registers at least are written.    *)
InStep(j, asm, addr, data, prog, known, at, left) ==
  \A all : known \subseteq all => Safe(j, State(asm, addr, data, prog, all, at, left))

(* The lines of the three files are sequences.                             *)
LEMMA InStepSeqs ==
  ASSUME NEW j, NEW asm, NEW addr, NEW data, NEW prog, NEW known, NEW at, NEW left,
         InStep(j, asm, addr, data, prog, known, at, left)
  PROVE  IsSeq(asm) /\ IsSeq(addr) /\ IsSeq(data) /\ left \in Nat
<1>1. Good(j, State(asm, addr, data, prog, known, at, left))
  BY SafeIsGood DEF InStep
<1> QED BY <1>1 DEF Good, State

(* Registers written besides those that are needed do no harm.             *)
LEMMA MoreKnown ==
  ASSUME NEW j, NEW asm, NEW addr, NEW data, NEW prog, NEW known, NEW at, NEW left,
         InStep(j, asm, addr, data, prog, known, at, left), NEW more, known \subseteq more
  PROVE  InStep(j, asm, addr, data, prog, more, at, left)
  BY DEF InStep

(* All three files end together. *)
LEMMA TheEnd ==
  ASSUME NEW j, NEW prog, NEW known
  PROVE  InStep(j, <<>>, <<>>, <<>>, prog, known, -1, 0)
<1> SUFFICES ASSUME NEW all PROVE Safe(j, State(<<>>, <<>>, <<>>, prog, all, -1, 0))
  BY DEF InStep
<1> DEFINE s == State(<<>>, <<>>, <<>>, prog, all, -1, 0)
<1>1. s.asm = <<>> /\ s.addr = <<>> /\ s.data = <<>> /\ s.at = -1 /\ s.left = 0
  BY DEF State
<1> HIDE DEF s
<1>2. Good(j, s) /\ Over(s)
  BY <1>1, NoneSeq DEF Good, Over
<1>3. Safe(j, s)
  BY <1>2, SafeAtEnd
<1> QED BY <1>3 DEF s

(* A WRF CRF line: its instructions are in the CRF behind it.              *)
LEMMA CrfLine ==
  ASSUME NEW j, NEW asm, NEW addr, NEW data, NEW prog, NEW known,
         NEW at \in Nat, NEW instrs, IsSeq(instrs), at + Len(instrs) <= j.CRF_ENTRIES,
         \A i \in 1 .. Len(instrs) : GoodInstr(j, instrs[i]),
         InStep(j, asm, addr, data, Written(prog, at, instrs), known, -1, 0)
  PROVE  InStep(j, Section(at, instrs) \o asm, addr, data, prog, known, -1, 0)
<1>1. IsSeq(asm) /\ IsSeq(addr) /\ IsSeq(data)
  BY InStepSeqs
<1> SUFFICES ASSUME NEW all, known \subseteq all
             PROVE  Safe(j, State(Section(at, instrs) \o asm, addr, data, prog, all, -1, 0))
  BY DEF InStep
<1> DEFINE l == [line |-> "WRF CRF", at |-> at, instrs |-> instrs]
           lines == <<l>> \o asm
           s == State(lines, addr, data, prog, all, -1, 0)
           t == State(asm, addr, data, Written(prog, at, instrs), all, -1, 0)
<1>2. l.line = "WRF CRF" /\ l.at = at /\ l.instrs = instrs
  OBVIOUS
<1>3. Section(at, instrs) = <<l>>
  BY DEF Section
<1> HIDE DEF l
<1>4. IsSeq(lines) /\ lines # <<>> /\ Head(lines) = l /\ Tail(lines) = asm
  BY <1>1, HeadOfJoined, OneSeq, Joined
<1> HIDE DEF lines
<1>5. GoodLine(j, l, data)
  BY <1>2 DEF GoodLine
<1>6. /\ s.asm = lines /\ s.addr = addr /\ s.data = data /\ s.prog = prog /\ s.known = all
      /\ s.at = -1 /\ s.left = 0
  BY DEF State
<1> HIDE DEF s
<1>7. Good(j, s)
  BY <1>1, <1>4, <1>5, <1>6 DEF Good, Over
<1>8. StepOf(s) = t
  BY <1>2, <1>4, <1>6 DEF StepOf, LineStep
<1>9. Safe(j, t)
  BY DEF InStep
<1>10. Safe(j, s)
  BY <1>7, <1>8, <1>9, SafeBefore
<1> QED BY <1>3, <1>10 DEF s, lines

(* A WRF SRF line takes one data line with one value.                      *)
LEMMA ScalarLineStep ==
  ASSUME NEW j, NEW asm, NEW addr, NEW data, NEW prog, NEW known,
         NEW reg \in Registers(j), NEW value, Len(value) = 1,
         InStep(j, asm, addr, data, prog, known \cup {reg}, -1, 0)
  PROVE  InStep(j, Scalar(reg) \o asm, addr, <<value>> \o data, prog, known, -1, 0)
<1>1. IsSeq(asm) /\ IsSeq(addr) /\ IsSeq(data)
  BY InStepSeqs
<1> SUFFICES ASSUME NEW all, known \subseteq all
             PROVE  Safe(j, State(Scalar(reg) \o asm, addr, <<value>> \o data, prog, all, -1, 0))
  BY DEF InStep
<1> DEFINE l == [line |-> "WRF SRF", reg |-> reg]
           lines == <<l>> \o asm
           values == <<value>> \o data
           s == State(lines, addr, values, prog, all, -1, 0)
           t == State(asm, addr, data, prog, all \cup {reg}, -1, 0)
<1>2. l.line = "WRF SRF" /\ l.reg = reg
  OBVIOUS
<1>3. Scalar(reg) = <<l>>
  BY DEF Scalar
<1> HIDE DEF l
<1>4. IsSeq(lines) /\ lines # <<>> /\ Head(lines) = l /\ Tail(lines) = asm
  BY <1>1, HeadOfJoined, OneSeq, Joined
<1>5. IsSeq(values) /\ values # <<>> /\ Head(values) = value /\ Tail(values) = data
  BY <1>1, HeadOfJoined, OneSeq, Joined
<1> HIDE DEF lines, values
<1>6. GoodLine(j, l, values)
  BY <1>2, <1>5 DEF GoodLine
<1>7. /\ s.asm = lines /\ s.addr = addr /\ s.data = values /\ s.prog = prog /\ s.known = all
      /\ s.at = -1 /\ s.left = 0
  BY DEF State
<1> HIDE DEF s
<1>8. Good(j, s)
  BY <1>1, <1>4, <1>5, <1>6, <1>7 DEF Good, Over
<1>9. StepOf(s) = t
  BY <1>2, <1>4, <1>5, <1>7 DEF StepOf, LineStep
<1>10. Safe(j, t)
  <2>1. known \cup {reg} \subseteq all \cup {reg}
    OBVIOUS
  <2> QED BY <2>1 DEF InStep
<1>11. Safe(j, s)
  BY <1>8, <1>9, <1>10, SafeBefore
<1> QED BY <1>3, <1>11 DEF s, lines, values

(* An EXEC line: the walk begins at entry 0, outside of any loop.          *)
LEMMA ExecLine ==
  ASSUME NEW j, NEW asm, NEW addr, NEW data, NEW prog, NEW known,
         InStep(j, asm, addr, data, prog, known, 0, 0)
  PROVE  InStep(j, Exec \o asm, addr, data, prog, known, -1, 0)
<1>1. IsSeq(asm) /\ IsSeq(addr) /\ IsSeq(data)
  BY InStepSeqs
<1> SUFFICES ASSUME NEW all, known \subseteq all
             PROVE  Safe(j, State(Exec \o asm, addr, data, prog, all, -1, 0))
  BY DEF InStep
<1> DEFINE l == [line |-> "EXEC"]
           lines == <<l>> \o asm
           s == State(lines, addr, data, prog, all, -1, 0)
           t == State(asm, addr, data, prog, all, 0, 0)
<1>2. l.line = "EXEC"
  OBVIOUS
<1>3. Exec = <<l>>
  BY DEF Exec
<1> HIDE DEF l
<1>4. IsSeq(lines) /\ lines # <<>> /\ Head(lines) = l /\ Tail(lines) = asm
  BY <1>1, HeadOfJoined, OneSeq, Joined
<1> HIDE DEF lines
<1>5. GoodLine(j, l, data)
  BY <1>2 DEF GoodLine
<1>6. /\ s.asm = lines /\ s.addr = addr /\ s.data = data /\ s.prog = prog /\ s.known = all
      /\ s.at = -1 /\ s.left = 0
  BY DEF State
<1> HIDE DEF s
<1>7. Good(j, s)
  BY <1>1, <1>4, <1>5, <1>6 DEF Good, Over
<1>8. StepOf(s) = t
  BY <1>2, <1>4, <1>6 DEF StepOf, LineStep
<1>9. Safe(j, t)
  BY DEF InStep
<1>10. Safe(j, s)
  BY <1>7, <1>8, <1>9, SafeBefore
<1> QED BY <1>3, <1>10 DEF s, lines

(* An instruction that loads, or stores, a column of the bank an address   *)
(* line names.                                                             *)
Registered(ins, known) == \A o \in ReadsFrom(ins) : IsBank(o) \/ o \in known
OnBank(ins, column) ==
  /\ ins.op \notin {"JUMP", "EXIT"} /\ BankOperands(ins) # {}
  /\ \A o \in BankOperands(ins) : column[1] = o[1]
LoadsFrom(ins, column, known) ==
  OnBank(ins, column) /\ Registered(ins, known) /\ ~IsStore(ins) /\ ~IsBank(ins.dst)
StoresTo(ins, column, known) == OnBank(ins, column) /\ Registered(ins, known) /\ IsStore(ins)

(* An instruction that loads takes an address and a data line.             *)
LEMMA LoadEntry ==
  ASSUME NEW j, NEW asm, NEW addr, NEW data, NEW prog, NEW known, NEW at \in Nat, NEW left,
         at \in DOMAIN prog, NEW column, NEW value, Len(value) = SIMD_WIDTH,
         LoadsFrom(prog[at], column, known),
         InStep(j, asm, addr, data, prog, known \cup {prog[at].dst}, at + 1, left)
  PROVE  InStep(j, asm, <<column>> \o addr, <<value>> \o data, prog, known, at, left)
<1>1. IsSeq(asm) /\ IsSeq(addr) /\ IsSeq(data) /\ left \in Nat
  BY InStepSeqs
<1> SUFFICES ASSUME NEW all, known \subseteq all
             PROVE  Safe(j, State(asm, <<column>> \o addr, <<value>> \o data, prog, all, at, left))
  BY DEF InStep
<1> DEFINE columns == <<column>> \o addr
           values == <<value>> \o data
           ins == prog[at]
           s == State(asm, columns, values, prog, all, at, left)
           t == State(asm, addr, data, prog, all \cup {ins.dst}, at + 1, left)
<1>4. IsSeq(columns) /\ columns # <<>> /\ Head(columns) = column /\ Tail(columns) = addr
  BY <1>1, HeadOfJoined, OneSeq, Joined
<1>5. IsSeq(values) /\ values # <<>> /\ Head(values) = value /\ Tail(values) = data
  BY <1>1, HeadOfJoined, OneSeq, Joined
<1>6. /\ ins.op \notin {"JUMP", "EXIT"} /\ BankOperands(ins) # {} /\ ~IsStore(ins) /\ ~IsBank(ins.dst)
      /\ \A o \in BankOperands(ins) : column[1] = o[1]
      /\ \A o \in ReadsFrom(ins) : IsBank(o) \/ o \in all
  BY DEF LoadsFrom, OnBank, Registered
<1> HIDE DEF columns, values, ins
<1>7. /\ s.asm = asm /\ s.addr = columns /\ s.data = values /\ s.prog = prog /\ s.known = all
      /\ s.at = at /\ s.left = left
  BY DEF State
<1>8. s.prog[s.at] = ins /\ s.at # -1 /\ s.at \in DOMAIN s.prog
  BY <1>7 DEF ins
<1> HIDE DEF s
<1>9. GoodEntry(s, ins)
  BY <1>4, <1>5, <1>6, <1>7 DEF GoodEntry
<1>10. Good(j, s)
  BY <1>1, <1>4, <1>5, <1>7, <1>8, <1>9 DEF Good, Over
<1>11. StepOf(s) = t
  BY <1>4, <1>5, <1>6, <1>7, <1>8 DEF StepOf, EntryStep
<1>12. Safe(j, t)
  <2>1. known \cup {ins.dst} \subseteq all \cup {ins.dst}
    OBVIOUS
  <2> QED BY <2>1 DEF InStep, ins
<1>13. Safe(j, s)
  BY <1>10, <1>11, <1>12, SafeBefore
<1> QED BY <1>13 DEF s, columns, values

(* An instruction that stores takes an address only.                       *)
LEMMA StoreEntry ==
  ASSUME NEW j, NEW asm, NEW addr, NEW data, NEW prog, NEW known, NEW at \in Nat, NEW left,
         at \in DOMAIN prog, NEW column, StoresTo(prog[at], column, known),
         InStep(j, asm, addr, data, prog, known, at + 1, left)
  PROVE  InStep(j, asm, <<column>> \o addr, data, prog, known, at, left)
<1>1. IsSeq(asm) /\ IsSeq(addr) /\ IsSeq(data) /\ left \in Nat
  BY InStepSeqs
<1> SUFFICES ASSUME NEW all, known \subseteq all
             PROVE  Safe(j, State(asm, <<column>> \o addr, data, prog, all, at, left))
  BY DEF InStep
<1> DEFINE columns == <<column>> \o addr
           ins == prog[at]
           s == State(asm, columns, data, prog, all, at, left)
           t == State(asm, addr, data, prog, all, at + 1, left)
<1>4. IsSeq(columns) /\ columns # <<>> /\ Head(columns) = column /\ Tail(columns) = addr
  BY <1>1, HeadOfJoined, OneSeq, Joined
<1>6. /\ ins.op \notin {"JUMP", "EXIT"} /\ BankOperands(ins) # {} /\ IsStore(ins)
      /\ \A o \in BankOperands(ins) : column[1] = o[1]
      /\ \A o \in ReadsFrom(ins) : IsBank(o) \/ o \in all
  BY DEF StoresTo, OnBank, Registered
<1> HIDE DEF columns, ins
<1>7. /\ s.asm = asm /\ s.addr = columns /\ s.data = data /\ s.prog = prog /\ s.known = all
      /\ s.at = at /\ s.left = left
  BY DEF State
<1>8. s.prog[s.at] = ins /\ s.at # -1 /\ s.at \in DOMAIN s.prog
  BY <1>7 DEF ins
<1> HIDE DEF s
<1>9. GoodEntry(s, ins)
  BY <1>4, <1>6, <1>7 DEF GoodEntry
<1>10. Good(j, s)
  BY <1>1, <1>4, <1>7, <1>8, <1>9 DEF Good, Over
<1>11. StepOf(s) = t
  BY <1>4, <1>6, <1>7, <1>8 DEF StepOf, EntryStep
<1>12. Safe(j, t)
  BY DEF InStep
<1>13. Safe(j, s)
  BY <1>10, <1>11, <1>12, SafeBefore
<1> QED BY <1>13 DEF s, columns

(* EXIT: the assembly file is read on.                                     *)
LEMMA ExitEntry ==
  ASSUME NEW j, NEW asm, NEW addr, NEW data, NEW prog, NEW known, NEW at \in Nat,
         at \in DOMAIN prog, prog[at] = EXIT,
         InStep(j, asm, addr, data, prog, known, -1, 0)
  PROVE  InStep(j, asm, addr, data, prog, known, at, 0)
<1>1. IsSeq(asm) /\ IsSeq(addr) /\ IsSeq(data)
  BY InStepSeqs
<1> SUFFICES ASSUME NEW all, known \subseteq all
             PROVE  Safe(j, State(asm, addr, data, prog, all, at, 0))
  BY DEF InStep
<1> DEFINE s == State(asm, addr, data, prog, all, at, 0)
           t == State(asm, addr, data, prog, all, -1, 0)
<1>2. prog[at].op = "EXIT"
  BY DEF EXIT, Instr
<1>7. /\ s.asm = asm /\ s.addr = addr /\ s.data = data /\ s.prog = prog /\ s.known = all
      /\ s.at = at /\ s.left = 0
  BY DEF State
<1>8. s.prog[s.at] = prog[at] /\ s.at # -1 /\ s.at \in DOMAIN s.prog
  BY <1>7
<1> HIDE DEF s
<1>9. GoodEntry(s, prog[at])
  BY <1>2 DEF GoodEntry
<1>10. Good(j, s)
  BY <1>1, <1>7, <1>8, <1>9 DEF Good, Over
<1>11. StepOf(s) = t
  BY <1>2, <1>7, <1>8 DEF StepOf, EntryStep
<1>12. Safe(j, t)
  BY DEF InStep
<1>13. Safe(j, s)
  BY <1>10, <1>11, <1>12, SafeBefore
<1> QED BY <1>13 DEF s

(* A JUMP over length instructions, times times. *)
JumpInstr(length, times) == Instr("JUMP", <<length, times>>, << >>)

(* A JUMP takes no line; the turns left say where it leads.                *)
LEMMA JumpEntry ==
  ASSUME NEW j, NEW asm, NEW addr, NEW data, NEW prog, NEW known, NEW at \in Nat, NEW left \in Nat,
         at \in DOMAIN prog, NEW length, at - length \in Nat, NEW times \in Nat \ {0},
         prog[at] = JumpInstr(length, times),
         NEW to, NEW after \in Nat,
         to = IF left = 1 THEN at + 1 ELSE at - length,
         after = IF left = 0 THEN times ELSE left - 1,
         InStep(j, asm, addr, data, prog, known, to, after)
  PROVE  InStep(j, asm, addr, data, prog, known, at, left)
<1>1. IsSeq(asm) /\ IsSeq(addr) /\ IsSeq(data)
  BY InStepSeqs
<1> SUFFICES ASSUME NEW all, known \subseteq all
             PROVE  Safe(j, State(asm, addr, data, prog, all, at, left))
  BY DEF InStep
<1> DEFINE s == State(asm, addr, data, prog, all, at, left)
           t == State(asm, addr, data, prog, all, to, after)
<1>2. prog[at].op = "JUMP" /\ prog[at].dst[1] = length /\ prog[at].dst[2] = times
  BY DEF JumpInstr, Instr
<1>7. /\ s.asm = asm /\ s.addr = addr /\ s.data = data /\ s.prog = prog /\ s.known = all
      /\ s.at = at /\ s.left = left
  BY DEF State
<1>8. s.prog[s.at] = prog[at] /\ s.at # -1 /\ s.at \in DOMAIN s.prog
  BY <1>7
<1> HIDE DEF s
<1>9. GoodEntry(s, prog[at])
  BY <1>2, <1>7 DEF GoodEntry
<1>10. Good(j, s)
  BY <1>1, <1>7, <1>8, <1>9 DEF Good, Over
<1>11. StepOf(s) = t
  <2>1. StepOf(s) = JumpStep(s, prog[at])
    BY <1>2, <1>8 DEF StepOf, EntryStep
  <2>2. CASE left = 1
    BY <1>7, <2>1, <2>2 DEF JumpStep
  <2>3. CASE left # 1
    BY <1>2, <1>7, <2>1, <2>3 DEF JumpStep
  <2> QED BY <2>2, <2>3
<1>12. Safe(j, t)
  BY DEF InStep
<1>13. Safe(j, s)
  BY <1>10, <1>11, <1>12, SafeBefore
<1> QED BY <1>13 DEF s

(* Backwards from n to 0. *)
LEMMA Backwards ==
  ASSUME NEW n \in Nat, NEW N, n \in N, \A t \in 0 .. n - 1 : t + 1 \in N => t \in N
  PROVE  0 \in N
<1> DEFINE M == {m \in Nat : m <= n => n - m \in N}
<1>1. 0 \in M
  OBVIOUS
<1>2. ASSUME NEW m \in M PROVE m + 1 \in M
  <2> SUFFICES ASSUME m + 1 <= n PROVE n - (m + 1) \in N
    OBVIOUS
  <2> DEFINE t == n - (m + 1)
  <2>1. t \in 0 .. n - 1 /\ t + 1 = n - m /\ m <= n
    OBVIOUS
  <2>2. n - m \in N
    BY <2>1
  <2> HIDE DEF t
  <2>3. t \in N
    BY <2>1, <2>2
  <2> QED BY <2>3 DEF t
<1>3. M = Nat
  <2> HIDE DEF M
  <2>1. M \in SUBSET Nat
    BY DEF M
  <2> QED BY <1>1, <1>2, <2>1, Induction
<1>4. n \in M /\ n <= n
  BY <1>3
<1> QED BY <1>4

(* A first element before two sequences.                                   *)
LEMMA FirstOfJoined ==
  ASSUME NEW e, NEW t, NEW u, IsSeq(t), IsSeq(u)
  PROVE  <<e>> \o (t \o u) = (<<e>> \o t) \o u
<1>1. IsSeq(<<e>>)
  BY OneSeq
<1> QED BY <1>1, Regroup

(* n instructions that load, or store, one after the other.                *)
LEMMA LoadBlock ==
  ASSUME NEW j, NEW asm, NEW addr, NEW data, NEW prog, NEW left,
         NEW known, NEW n \in Nat, NEW at \in Nat, NEW x, NEW y,
         IsSeq(x), IsSeq(y), Len(x) = n, Len(y) = n,
         \A i \in 1 .. n : /\ at + i - 1 \in DOMAIN prog
                           /\ LoadsFrom(prog[at + i - 1], x[i], known)
                           /\ Len(y[i]) = SIMD_WIDTH,
         InStep(j, asm, addr, data, prog, known \cup {prog[at + i - 1].dst : i \in 1 .. n},
                at + n, left)
  PROVE  InStep(j, asm, x \o addr, y \o data, prog, known, at, left)
<1> DEFINE Given(m, k, u, v, w) ==
             /\ k \in Nat /\ IsSeq(u) /\ IsSeq(v) /\ Len(u) = m /\ Len(v) = m
             /\ \A i \in 1 .. m : /\ k + i - 1 \in DOMAIN prog
                                  /\ LoadsFrom(prog[k + i - 1], u[i], w)
                                  /\ Len(v[i]) = SIMD_WIDTH
             /\ InStep(j, asm, addr, data, prog, w \cup {prog[k + i - 1].dst : i \in 1 .. m},
                       k + m, left)
           N == {m \in Nat : \A k, u, v, w : Given(m, k, u, v, w) =>
                               InStep(j, asm, u \o addr, v \o data, prog, w, k, left)}
<1>1. 0 \in N
  <2> SUFFICES ASSUME NEW k, NEW u, NEW v, NEW w, Given(0, k, u, v, w)
               PROVE  InStep(j, asm, u \o addr, v \o data, prog, w, k, left)
    OBVIOUS
  <2>1. u = <<>> /\ v = <<>>
    BY SameSeq, NoneSeq
  <2>2. IsSeq(addr) /\ IsSeq(data)
    BY InStepSeqs
  <2>3. w \cup {prog[k + i - 1].dst : i \in 1 .. 0} = w /\ k + 0 = k
    OBVIOUS
  <2>4. u \o addr = addr /\ v \o data = data
    BY <2>1, <2>2, JoinedNone
  <2>5. InStep(j, asm, addr, data, prog, w, k, left)
    BY <2>3
  <2> QED BY <2>4, <2>5
<1>2. ASSUME NEW m \in N PROVE m + 1 \in N
  <2>0. m \in Nat /\ m + 1 \in Nat
    OBVIOUS
  <2> SUFFICES ASSUME NEW k, NEW u, NEW v, NEW w, Given(m + 1, k, u, v, w)
               PROVE  InStep(j, asm, u \o addr, v \o data, prog, w, k, left)
    BY <2>0
  <2>1. IsSeq(addr) /\ IsSeq(data)
    BY InStepSeqs
  <2>2. u # <<>> /\ v # <<>>
    BY <2>0, NoneSeq
  <2> DEFINE p == Tail(u)
             q == Tail(v)
             a == u[1]
             b == v[1]
             more == w \cup {prog[k].dst}
  <2>3. /\ IsSeq(p) /\ Len(p) = m /\ u = <<a>> \o p /\ \A i \in 1 .. m : p[i] = u[i + 1]
        /\ IsSeq(q) /\ Len(q) = m /\ v = <<b>> \o q /\ \A i \in 1 .. m : q[i] = v[i + 1]
    BY <2>0, <2>2, Split
  <2> HIDE DEF p, q, a, b
  <2>4. k \in Nat /\ k \in DOMAIN prog /\ LoadsFrom(prog[k], a, w) /\ Len(b) = SIMD_WIDTH
    <3>1. 1 \in 1 .. m + 1 /\ k + 1 - 1 = k
      BY <2>0
    <3> QED BY <3>1 DEF a, b
  <2>5. ASSUME NEW i \in 1 .. m
        PROVE  /\ (k + 1) + i - 1 \in DOMAIN prog
               /\ LoadsFrom(prog[(k + 1) + i - 1], p[i], more) /\ Len(q[i]) = SIMD_WIDTH
    <3>1. i + 1 \in 1 .. m + 1 /\ k + (i + 1) - 1 = (k + 1) + i - 1
      BY <2>0, <2>4
    <3>2. /\ k + (i + 1) - 1 \in DOMAIN prog /\ LoadsFrom(prog[k + (i + 1) - 1], u[i + 1], w)
          /\ Len(v[i + 1]) = SIMD_WIDTH
      BY <3>1
    <3>3. w \subseteq more
      OBVIOUS
    <3> QED BY <2>3, <3>1, <3>2, <3>3 DEF LoadsFrom, Registered
  <2>6. InStep(j, asm, addr, data, prog, more \cup {prog[(k + 1) + i - 1].dst : i \in 1 .. m},
               (k + 1) + m, left)
    <3>1. ASSUME NEW i \in 1 .. m + 1
          PROVE  prog[k + i - 1].dst \in more \cup {prog[(k + 1) + h - 1].dst : h \in 1 .. m}
      <4>1. CASE i = 1
        <5>1. k + i - 1 = k
          BY <2>4, <4>1
        <5> QED BY <5>1
      <4>2. CASE i # 1
        <5>1. i - 1 \in 1 .. m /\ (k + 1) + (i - 1) - 1 = k + i - 1
          BY <2>0, <2>4, <4>2
        <5> QED BY <5>1
      <4> QED BY <4>1, <4>2
    <3>2. w \cup {prog[k + i - 1].dst : i \in 1 .. m + 1}
            \subseteq more \cup {prog[(k + 1) + i - 1].dst : i \in 1 .. m}
      BY <3>1
    <3>3. k + (m + 1) = (k + 1) + m
      BY <2>0, <2>4
    <3>4. InStep(j, asm, addr, data, prog, w \cup {prog[k + i - 1].dst : i \in 1 .. m + 1},
                 (k + 1) + m, left)
      BY <3>3
    <3> HIDE DEF more
    <3> QED BY <3>2, <3>4, MoreKnown
  <2> HIDE DEF more
  <2>7. Given(m, k + 1, p, q, more)
    <3>1. k + 1 \in Nat
      BY <2>4
    <3> QED BY <2>3, <2>5, <2>6, <3>1
  <2> HIDE DEF Given
  <2>8. InStep(j, asm, p \o addr, q \o data, prog, more, k + 1, left)
    BY <2>0, <2>7
  <2> HIDE DEF N
  <2>9. InStep(j, asm, <<a>> \o (p \o addr), <<b>> \o (q \o data), prog, w, k, left)
    BY <2>4, <2>8, LoadEntry DEF more
  <2>10. <<a>> \o (p \o addr) = u \o addr /\ <<b>> \o (q \o data) = v \o data
    <3>1. IsSeq(p) /\ IsSeq(q)
      BY <2>3
    <3>2. <<a>> \o (p \o addr) = (<<a>> \o p) \o addr
      BY <2>1, <3>1, FirstOfJoined
    <3>3. <<b>> \o (q \o data) = (<<b>> \o q) \o data
      BY <2>1, <3>1, FirstOfJoined
    <3> QED BY <2>3, <3>2, <3>3
  <2> QED BY <2>9, <2>10
<1>3. N = Nat
  <2> HIDE DEF N
  <2>1. N \in SUBSET Nat
    BY DEF N
  <2> QED BY <1>1, <1>2, <2>1, Induction
<1>4. Given(n, at, x, y, known)
  OBVIOUS
<1> HIDE DEF Given
<1> QED BY <1>3, <1>4

(* The same of n instructions that store.                                  *)
LEMMA StoreBlock ==
  ASSUME NEW j, NEW asm, NEW addr, NEW data, NEW prog, NEW left,
         NEW known, NEW n \in Nat, NEW at \in Nat, NEW x, IsSeq(x), Len(x) = n,
         \A i \in 1 .. n : at + i - 1 \in DOMAIN prog /\ StoresTo(prog[at + i - 1], x[i], known),
         InStep(j, asm, addr, data, prog, known, at + n, left)
  PROVE  InStep(j, asm, x \o addr, data, prog, known, at, left)
<1> DEFINE Given(m, k, u) ==
             /\ k \in Nat /\ IsSeq(u) /\ Len(u) = m
             /\ \A i \in 1 .. m : k + i - 1 \in DOMAIN prog /\ StoresTo(prog[k + i - 1], u[i], known)
             /\ InStep(j, asm, addr, data, prog, known, k + m, left)
           N == {m \in Nat : \A k, u : Given(m, k, u) =>
                               InStep(j, asm, u \o addr, data, prog, known, k, left)}
<1>1. 0 \in N
  <2> SUFFICES ASSUME NEW k, NEW u, Given(0, k, u)
               PROVE  InStep(j, asm, u \o addr, data, prog, known, k, left)
    OBVIOUS
  <2>1. u = <<>>
    BY SameSeq, NoneSeq
  <2>2. IsSeq(addr)
    BY InStepSeqs
  <2>3. k + 0 = k
    OBVIOUS
  <2>4. u \o addr = addr
    BY <2>1, <2>2, JoinedNone
  <2> QED BY <2>3, <2>4
<1>2. ASSUME NEW m \in N PROVE m + 1 \in N
  <2>0. m \in Nat /\ m + 1 \in Nat
    OBVIOUS
  <2> SUFFICES ASSUME NEW k, NEW u, Given(m + 1, k, u)
               PROVE  InStep(j, asm, u \o addr, data, prog, known, k, left)
    BY <2>0
  <2>1. IsSeq(addr)
    BY InStepSeqs
  <2>2. u # <<>>
    BY <2>0, NoneSeq
  <2> DEFINE p == Tail(u)
             a == u[1]
  <2>3. IsSeq(p) /\ Len(p) = m /\ u = <<a>> \o p /\ \A i \in 1 .. m : p[i] = u[i + 1]
    BY <2>0, <2>2, Split
  <2> HIDE DEF p, a
  <2>4. k \in Nat /\ k \in DOMAIN prog /\ StoresTo(prog[k], a, known)
    <3>1. 1 \in 1 .. m + 1 /\ k + 1 - 1 = k
      BY <2>0
    <3> QED BY <3>1 DEF a
  <2>5. ASSUME NEW i \in 1 .. m
        PROVE  /\ (k + 1) + i - 1 \in DOMAIN prog
               /\ StoresTo(prog[(k + 1) + i - 1], p[i], known)
    <3>1. i + 1 \in 1 .. m + 1 /\ k + (i + 1) - 1 = (k + 1) + i - 1
      BY <2>0, <2>4
    <3>2. k + (i + 1) - 1 \in DOMAIN prog /\ StoresTo(prog[k + (i + 1) - 1], u[i + 1], known)
      BY <3>1
    <3> QED BY <2>3, <3>1, <3>2
  <2>6. InStep(j, asm, addr, data, prog, known, (k + 1) + m, left)
    <3>1. k + (m + 1) = (k + 1) + m
      BY <2>0, <2>4
    <3> QED BY <3>1
  <2>7. Given(m, k + 1, p)
    <3>1. k + 1 \in Nat
      BY <2>4
    <3> QED BY <2>3, <2>5, <2>6, <3>1
  <2> HIDE DEF Given
  <2>8. InStep(j, asm, p \o addr, data, prog, known, k + 1, left)
    BY <2>0, <2>7
  <2> HIDE DEF N
  <2>9. InStep(j, asm, <<a>> \o (p \o addr), data, prog, known, k, left)
    BY <2>4, <2>8, StoreEntry
  <2>10. <<a>> \o (p \o addr) = u \o addr
    <3>1. IsSeq(p)
      BY <2>3
    <3>2. <<a>> \o (p \o addr) = (<<a>> \o p) \o addr
      BY <2>1, <3>1, FirstOfJoined
    <3> QED BY <2>3, <3>2
  <2> QED BY <2>9, <2>10
<1>3. N = Nat
  <2> HIDE DEF N
  <2>1. N \in SUBSET Nat
    BY DEF N
  <2> QED BY <1>1, <1>2, <2>1, Induction
<1>4. Given(n, at, x)
  OBVIOUS
<1> HIDE DEF Given
<1> QED BY <1>3, <1>4

(* The n turns of a loop of the program, once needs no JUMP.               *)
LEMMA LoopBlock ==
  ASSUME NEW j, NEW asm, NEW prog, NEW known, NEW n \in Nat \ {0}, NEW addr, NEW data,
         NEW at \in Nat, NEW length \in Nat,
         n # 1 => /\ at + length \in DOMAIN prog
                  /\ prog[at + length] = JumpInstr(length, n - 1),
         \A t \in 0 .. n - 1, left \in Nat :
           InStep(j, asm, addr[t + 1], data[t + 1], prog, known, at + length, left) =>
             InStep(j, asm, addr[t], data[t], prog, known, at, left),
         InStep(j, asm, addr[n], data[n], prog, known, at + length + (IF n = 1 THEN 0 ELSE 1), 0)
  PROVE  InStep(j, asm, addr[0], data[0], prog, known, at, 0)
<1> DEFINE N == {t \in 0 .. n : t = n \/ InStep(j, asm, addr[t], data[t], prog, known, at,
                                               IF t = 0 THEN 0 ELSE n - t)}
<1>1. n \in N
  OBVIOUS
<1>2. ASSUME NEW t \in 0 .. n - 1, t + 1 \in N PROVE t \in N
  <2> DEFINE left == IF t = 0 THEN 0 ELSE n - t
  <2>1. left \in Nat /\ t \in 0 .. n /\ t # n
    OBVIOUS
  <2>2. InStep(j, asm, addr[t + 1], data[t + 1], prog, known, at + length, left)
    <3>1. CASE n = 1
      <4>1. t = 0 /\ t + 1 = n /\ left = 0 /\ at + length + (IF n = 1 THEN 0 ELSE 1) = at + length
        BY <3>1
      <4> HIDE DEF left
      <4> QED BY <4>1
    <3>2. CASE n # 1 /\ t = n - 1
      <4>1. left = 1 /\ t + 1 = n /\ at + length + (IF n = 1 THEN 0 ELSE 1) = (at + length) + 1
        BY <3>2
      <4>2. at + length \in Nat /\ n - 1 \in Nat \ {0} /\ (at + length) - length \in Nat
        BY <3>2
      <4> HIDE DEF left
      <4>3. InStep(j, asm, addr[t + 1], data[t + 1], prog, known, (at + length) + 1, 0)
        BY <4>1
      <4> QED BY <2>1, <3>2, <4>1, <4>2, <4>3, JumpEntry
    <3>3. CASE n # 1 /\ t # n - 1
      <4>1. t + 1 # n /\ (IF t + 1 = 0 THEN 0 ELSE n - (t + 1)) = n - (t + 1)
        BY <3>3
      <4>2. InStep(j, asm, addr[t + 1], data[t + 1], prog, known, at, n - (t + 1))
        BY <1>2, <4>1
      <4>3. at + length \in Nat /\ n - 1 \in Nat \ {0} /\ n - (t + 1) \in Nat
            /\ (at + length) - length = at /\ (at + length) - length \in Nat
        BY <3>3
      <4>4. left # 1 /\ n - (t + 1) = IF left = 0 THEN n - 1 ELSE left - 1
        BY <3>3
      <4> HIDE DEF left, N
      <4> QED BY <2>1, <3>3, <4>2, <4>3, <4>4, JumpEntry
    <3> QED BY <3>1, <3>2, <3>3
  <2>3. InStep(j, asm, addr[t], data[t], prog, known, at, left)
    <3> HIDE DEF left
    <3> QED BY <2>1, <2>2
  <2> QED BY <2>1, <2>3
<1>3. 0 \in N
  <2> HIDE DEF N
  <2> QED BY <1>1, <1>2, Backwards
<1> QED BY <1>3

(* Instructions in the CRF from entry at on. *)
Holds(prog, at, instrs) ==
  \A i \in 1 .. Len(instrs) : at + i - 1 \in DOMAIN prog /\ prog[at + i - 1] = instrs[i]

(* What holds two programs one behind the other holds each of them.        *)
LEMMA HoldsParts ==
  ASSUME NEW prog, NEW at \in Nat, NEW s, NEW t, IsSeq(s), IsSeq(t), Holds(prog, at, s \o t)
  PROVE  Holds(prog, at, s) /\ Holds(prog, at + Len(s), t)
<1>1. Len(s) \in Nat /\ Len(t) \in Nat /\ Len(s \o t) = Len(s) + Len(t)
  BY SeqFacts, Joined
<1>2. ASSUME NEW i \in 1 .. Len(s)
      PROVE  at + i - 1 \in DOMAIN prog /\ prog[at + i - 1] = s[i]
  <2>1. i \in 1 .. Len(s) + Len(t) /\ i <= Len(s)
    BY <1>1
  <2>2. (s \o t)[i] = s[i]
    BY <2>1, Joined
  <2> QED BY <1>1, <2>1, <2>2 DEF Holds
<1>3. ASSUME NEW i \in 1 .. Len(t)
      PROVE  (at + Len(s)) + i - 1 \in DOMAIN prog /\ prog[(at + Len(s)) + i - 1] = t[i]
  <2> DEFINE k == Len(s) + i
  <2>1. k \in 1 .. Len(s) + Len(t) /\ ~(k <= Len(s)) /\ k - Len(s) = i
        /\ at + k - 1 = (at + Len(s)) + i - 1
    BY <1>1
  <2> HIDE DEF k
  <2>2. (s \o t)[k] = t[i]
    BY <2>1, Joined
  <2> QED BY <1>1, <2>1, <2>2 DEF Holds
<1> QED BY <1>2, <1>3 DEF Holds

(* A program is held from the entry on where it was written.               *)
LEMMA HoldsWritten ==
  ASSUME NEW prog, NEW at \in Nat, NEW instrs, IsSeq(instrs)
  PROVE  Holds(Written(prog, at, instrs), at, instrs)
<1>1. Len(instrs) \in Nat
  BY SeqFacts
<1> SUFFICES ASSUME NEW i \in 1 .. Len(instrs)
             PROVE  /\ at + i - 1 \in DOMAIN Written(prog, at, instrs)
                    /\ Written(prog, at, instrs)[at + i - 1] = instrs[i]
  BY DEF Holds
<1>2. at + i - 1 \in at .. at + Len(instrs) - 1 /\ (at + i - 1) - at + 1 = i
  BY <1>1
<1> QED BY <1>2 DEF Written

(* What is written behind a program leaves it as it was.                   *)
LEMMA HoldsBefore ==
  ASSUME NEW prog, NEW at \in Nat, NEW instrs, NEW s, IsSeq(s), Len(s) <= at, Holds(prog, 0, s)
  PROVE  Holds(Written(prog, at, instrs), 0, s)
<1>1. Len(s) \in Nat
  BY SeqFacts
<1> SUFFICES ASSUME NEW i \in 1 .. Len(s)
             PROVE  /\ 0 + i - 1 \in DOMAIN Written(prog, at, instrs)
                    /\ Written(prog, at, instrs)[0 + i - 1] = s[i]
  BY DEF Holds
<1>2. 0 + i - 1 \notin at .. at + Len(instrs) - 1
  BY <1>1
<1>3. 0 + i - 1 \in DOMAIN prog /\ prog[0 + i - 1] = s[i]
  BY DEF Holds
<1> QED BY <1>2, <1>3 DEF Written

(* n instructions that all name registers of the job. *)
Code(j, s, n) == IsSeq(s) /\ Len(s) = n /\ \A i \in 1 .. n : GoodInstr(j, s[i])

(* No instructions name no registers.                                      *)
LEMMA CodeNone == ASSUME NEW j PROVE Code(j, <<>>, 0)
  BY NoneSeq DEF Code

(* A program of one instruction.                                           *)
LEMMA CodeOne == ASSUME NEW j, NEW ins, GoodInstr(j, ins) PROVE Code(j, <<ins>>, 1)
  BY OneSeq DEF Code

(* Two programs, one behind the other.                                     *)
LEMMA CodeJoined ==
  ASSUME NEW j, NEW s, NEW t, NEW n \in Nat, NEW m \in Nat, Code(j, s, n), Code(j, t, m)
  PROVE  Code(j, s \o t, n + m)
<1>1. IsSeq(s \o t) /\ Len(s \o t) = n + m
  BY Joined DEF Code
<1>2. ASSUME NEW i \in 1 .. n + m PROVE GoodInstr(j, (s \o t)[i])
  <2>1. (s \o t)[i] = IF i <= n THEN s[i] ELSE t[i - n]
    BY Joined DEF Code
  <2>2. CASE i <= n
    BY <2>1, <2>2 DEF Code
  <2>3. CASE ~(i <= n)
    <3>1. i - n \in 1 .. m
      BY <2>3
    <3> QED BY <2>1, <2>3, <3>1 DEF Code
  <2> QED BY <2>2, <2>3
<1> QED BY <1>1, <1>2 DEF Code

(***************************************************************************)
(* The instructions of the programs, and blocks of them.                   *)
(***************************************************************************)

(* The banks alternate, registers are no banks. *)
LEMMA Banks ==
  ASSUME NEW k
  PROVE  IsBank(Bank(k)) /\ ~IsBank(Grf(k)) /\ ~IsBank(SrfM(k)) /\ ~IsBank(SrfA0)
  BY DEF IsBank, Bank, Grf, SrfM, SrfA0

(* The operands of one source ...                                          *)
LEMMA SourcesOne == ASSUME NEW a PROVE ToSet(<<a>>) = {a}
  BY DEF ToSet

(* ... of two ...                                                          *)
LEMMA SourcesTwo == ASSUME NEW a, NEW b PROVE ToSet(<<a, b>>) = {a, b}
<1>1. DOMAIN <<a, b>> = {1, 2} /\ <<a, b>>[1] = a /\ <<a, b>>[2] = b
  OBVIOUS
<1> QED BY <1>1 DEF ToSet

(* ... and of three.                                                       *)
LEMMA SourcesThree == ASSUME NEW a, NEW b, NEW c PROVE ToSet(<<a, b, c>>) = {a, b, c}
<1>1. DOMAIN <<a, b, c>> = {1, 2, 3} /\ <<a, b, c>>[1] = a /\ <<a, b, c>>[2] = b /\ <<a, b, c>>[3] = c
  OBVIOUS
<1> QED BY <1>1 DEF ToSet

(* A move from a bank loads, one to a bank stores. *)
LEMMA MovLoads ==
  ASSUME NEW dst, ~IsBank(dst), NEW b, IsBank(b), NEW column, column[1] = b[1], NEW known
  PROVE  LoadsFrom(Mov(dst, b), column, known) /\ Mov(dst, b).dst = dst
<1> DEFINE ins == Mov(dst, b)
<1>1. ins.op = "MOV" /\ ins.dst = dst /\ ToSet(ins.src) = {b}
  BY SourcesOne DEF Mov, Instr
<1> HIDE DEF ins
<1>2. BankOperands(ins) = {b}
  BY <1>1 DEF BankOperands
<1>3. LoadsFrom(ins, column, known)
  BY <1>1, <1>2 DEF LoadsFrom, OnBank, Registered, ReadsFrom, IsStore
<1> QED BY <1>1, <1>3 DEF ins

(* A move from a register to a bank stores.                                *)
LEMMA MovStores ==
  ASSUME NEW r, ~IsBank(r), NEW b, IsBank(b), NEW column, column[1] = b[1], NEW known, r \in known
  PROVE  StoresTo(Mov(b, r), column, known)
<1> DEFINE ins == Mov(b, r)
<1>1. ins.op = "MOV" /\ ins.dst = b /\ ToSet(ins.src) = {r}
  BY SourcesOne DEF Mov, Instr
<1> HIDE DEF ins
<1>2. BankOperands(ins) = {b}
  BY <1>1 DEF BankOperands
<1>3. StoresTo(ins, column, known)
  BY <1>1, <1>2 DEF StoresTo, OnBank, Registered, ReadsFrom, IsStore
<1> QED BY <1>3 DEF ins

(* An addition or multiplication with a bank and registers loads too. *)
LEMMA ArithmeticLoads ==
  ASSUME NEW ins, ins.op \in {"ADD", "MAC", "MAD"}, ~IsBank(ins.dst), NEW b, IsBank(b),
         b \in ToSet(ins.src), NEW known, ins.op = "MAC" => ins.dst \in known,
         \A r \in ToSet(ins.src) : r = b \/ (~IsBank(r) /\ r \in known),
         NEW column, column[1] = b[1]
  PROVE  LoadsFrom(ins, column, known)
<1>1. BankOperands(ins) = {b}
  BY DEF BankOperands
<1> QED BY <1>1 DEF LoadsFrom, OnBank, Registered, ReadsFrom, IsStore

(* An addition of a register and a bank loads.                             *)
LEMMA AddLoads ==
  ASSUME NEW r, ~IsBank(r), NEW b, IsBank(b), NEW known, r \in known, NEW column, column[1] = b[1]
  PROVE  LoadsFrom(Instr("ADD", r, <<r, b>>), column, known)
<1> DEFINE ins == Instr("ADD", r, <<r, b>>)
<1>1. ins.op = "ADD" /\ ins.dst = r /\ ToSet(ins.src) = {b} \cup {r}
  BY SourcesTwo DEF Instr
<1> HIDE DEF ins
<1>2. \A q \in {r} : ~IsBank(q) /\ q \in known
  OBVIOUS
<1>3. LoadsFrom(ins, column, known)
  BY <1>1, <1>2, ArithmeticLoads
<1> QED BY <1>3 DEF ins

(* So does a MAC, whichever operand the bank is; it reads its destination. *)
LEMMA MacLoads ==
  ASSUME NEW dst, ~IsBank(dst), NEW r, ~IsBank(r), NEW b, IsBank(b),
         NEW known, r \in known, dst \in known, NEW column, column[1] = b[1]
  PROVE  /\ LoadsFrom(Instr("MAC", dst, <<r, b>>), column, known)
         /\ LoadsFrom(Instr("MAC", dst, <<b, r>>), column, known)
<1> DEFINE ins1 == Instr("MAC", dst, <<r, b>>)
           ins2 == Instr("MAC", dst, <<b, r>>)
<1>1. ins1.op = "MAC" /\ ins1.dst = dst /\ ToSet(ins1.src) = {b} \cup {r}
  BY SourcesTwo DEF Instr
<1>2. ins2.op = "MAC" /\ ins2.dst = dst /\ ToSet(ins2.src) = {b} \cup {r}
  BY SourcesTwo DEF Instr
<1> HIDE DEF ins1, ins2
<1>3. LoadsFrom(ins1, column, known)
  BY <1>1, ArithmeticLoads
<1>4. LoadsFrom(ins2, column, known)
  BY <1>2, ArithmeticLoads
<1> QED BY <1>3, <1>4 DEF ins1, ins2

(* So does a MAD of a bank, a factor and a summand.                        *)
LEMMA MadLoads ==
  ASSUME NEW dst, ~IsBank(dst), NEW b, IsBank(b), NEW r, ~IsBank(r), NEW q, ~IsBank(q),
         NEW known, r \in known, q \in known, NEW column, column[1] = b[1]
  PROVE  LoadsFrom(Instr("MAD", dst, <<b, r, q>>), column, known)
<1> DEFINE ins == Instr("MAD", dst, <<b, r, q>>)
<1>1. ins.op = "MAD" /\ ins.dst = dst /\ ToSet(ins.src) = {b} \cup {r, q}
  BY SourcesThree DEF Instr
<1> HIDE DEF ins
<1>2. LoadsFrom(ins, column, known)
  BY <1>1, ArithmeticLoads
<1> QED BY <1>2 DEF ins

(* They fit the register files if their registers do. *)
LEMMA GoodMov ==
  ASSUME NEW j, NEW a, NEW b, IsBank(a) \/ a \in Registers(j), IsBank(b) \/ b \in Registers(j)
  PROVE  GoodInstr(j, Mov(a, b))
<1>1. Mov(a, b).dst = a /\ ToSet(Mov(a, b).src) = {b}
  BY SourcesOne DEF Mov, Instr
<1> QED BY <1>1 DEF GoodInstr

(* An instruction with two sources fits if its operands do ...             *)
LEMMA GoodInstr2 ==
  ASSUME NEW j, NEW op, NEW a, NEW b, NEW c, IsBank(a) \/ a \in Registers(j),
         IsBank(b) \/ b \in Registers(j), IsBank(c) \/ c \in Registers(j)
  PROVE  GoodInstr(j, Instr(op, a, <<b, c>>))
<1>1. Instr(op, a, <<b, c>>).dst = a /\ ToSet(Instr(op, a, <<b, c>>).src) = {b, c}
  BY SourcesTwo DEF Instr
<1> QED BY <1>1 DEF GoodInstr

(* ... and one with three.                                                 *)
LEMMA GoodInstr3 ==
  ASSUME NEW j, NEW op, NEW a, NEW b, NEW c, NEW d, IsBank(a) \/ a \in Registers(j),
         IsBank(b) \/ b \in Registers(j), IsBank(c) \/ c \in Registers(j),
         IsBank(d) \/ d \in Registers(j)
  PROVE  GoodInstr(j, Instr(op, a, <<b, c, d>>))
<1>1. Instr(op, a, <<b, c, d>>).dst = a /\ ToSet(Instr(op, a, <<b, c, d>>).src) = {b, c, d}
  BY SourcesThree DEF Instr
<1> QED BY <1>1 DEF GoodInstr

(* EXIT and JUMP name no registers.                                        *)
LEMMA GoodEnd ==
  ASSUME NEW j, NEW length, NEW loops
  PROVE  GoodInstr(j, EXIT) /\ GoodInstr(j, JumpInstr(length, loops))
  BY DEF GoodInstr, EXIT, Instr, JumpInstr

(* The JUMP of a loop, none for a loop that is walked once.                *)
LEMMA JumpCode ==
  ASSUME NEW j, NEW length, NEW loops
  PROVE  /\ loops = 1 => Jump(length, loops) = <<>> /\ Code(j, Jump(length, loops), 0)
         /\ loops # 1 => /\ Jump(length, loops) = <<JumpInstr(length, loops - 1)>>
                         /\ Code(j, Jump(length, loops), 1)
<1>1. loops = 1 => Jump(length, loops) = <<>>
  BY DEF Jump, If
<1>2. loops # 1 => Jump(length, loops) = <<JumpInstr(length, loops - 1)>>
  BY DEF Jump, If, JumpInstr
<1> QED BY <1>1, <1>2, CodeNone, CodeOne, GoodEnd

(* n columns of the banks in turn. *)
LEMMA ColumnsFacts ==
  ASSUME NEW number, NEW n \in Nat
  PROVE  /\ IsSeq(Columns(number, n)) /\ Len(Columns(number, n)) = n
         /\ \A i \in 1 .. n : Columns(number, n)[i][1] = Bank(i - 1)[1]
<1>1. IsSeq(Columns(number, n)) /\ Len(Columns(number, n)) = n
  BY FunSeq DEF Columns
<1>2. ASSUME NEW i \in 1 .. n PROVE Columns(number, n)[i][1] = Bank(i - 1)[1]
  BY DEF Columns, Column
<1> QED BY <1>1, <1>2

(* n lines for all lanes. *)
Lines(y, n) == IsSeq(y) /\ Len(y) = n /\ \A i \in 1 .. n : Len(y[i]) = SIMD_WIDTH

(* The blocks of the programs: n loads into the register files, ...        *)
LEMMA LoadsBlock ==
  ASSUME NEW j, NEW asm, NEW addr, NEW data, NEW prog, NEW left, NEW known,
         NEW n \in Nat, NEW at \in Nat, Holds(prog, at, Loads(n)),
         NEW number, NEW y, Lines(y, n),
         InStep(j, asm, addr, data, prog, known \cup {Grf(i) : i \in 0 .. n - 1}, at + n, left)
  PROVE  InStep(j, asm, Columns(number, n) \o addr, y \o data, prog, known, at, left)
<1>1. Len(Loads(n)) = n
  BY FunSeq DEF Loads
<1> DEFINE x == Columns(number, n)
<1>2. IsSeq(x) /\ Len(x) = n /\ \A i \in 1 .. n : x[i][1] = Bank(i - 1)[1]
  BY ColumnsFacts
<1> HIDE DEF x
<1>3. ASSUME NEW i \in 1 .. n
      PROVE  /\ at + i - 1 \in DOMAIN prog /\ LoadsFrom(prog[at + i - 1], x[i], known)
             /\ prog[at + i - 1].dst = Grf(i - 1) /\ Len(y[i]) = SIMD_WIDTH
  <2>1. at + i - 1 \in DOMAIN prog /\ prog[at + i - 1] = Mov(Grf(i - 1), Bank(i - 1))
    BY <1>1 DEF Holds, Loads
  <2>2. /\ LoadsFrom(Mov(Grf(i - 1), Bank(i - 1)), x[i], known)
        /\ Mov(Grf(i - 1), Bank(i - 1)).dst = Grf(i - 1)
    BY <1>2, Banks, MovLoads
  <2> QED BY <2>1, <2>2 DEF Lines
<1>4. known \cup {Grf(i) : i \in 0 .. n - 1} \subseteq known \cup {prog[at + i - 1].dst : i \in 1 .. n}
  <2>1. ASSUME NEW i \in 0 .. n - 1 PROVE Grf(i) \in {prog[at + k - 1].dst : k \in 1 .. n}
    <3>1. i + 1 \in 1 .. n /\ (i + 1) - 1 = i
      OBVIOUS
    <3>2. prog[at + (i + 1) - 1].dst = Grf((i + 1) - 1)
      BY <1>3, <3>1
    <3> QED BY <3>1, <3>2
  <2> QED BY <2>1
<1>5. InStep(j, asm, addr, data, prog, known \cup {prog[at + i - 1].dst : i \in 1 .. n}, at + n, left)
  BY <1>4, MoreKnown
<1>6. InStep(j, asm, x \o addr, y \o data, prog, known, at, left)
  BY <1>2, <1>3, <1>5, LoadBlock DEF Lines
<1> QED BY <1>6 DEF x

(* ... n instructions that load and work on registers written before, ...  *)
LEMMA WorkBlock ==
  ASSUME NEW j, NEW asm, NEW addr, NEW data, NEW prog, NEW left, NEW known,
         NEW n \in Nat, NEW at \in Nat, NEW s, Len(s) = n, Holds(prog, at, s),
         NEW x, IsSeq(x), Len(x) = n, NEW y, Lines(y, n),
         \A i \in 1 .. n : LoadsFrom(s[i], x[i], known),
         InStep(j, asm, addr, data, prog, known, at + n, left)
  PROVE  InStep(j, asm, x \o addr, y \o data, prog, known, at, left)
<1>1. ASSUME NEW i \in 1 .. n
      PROVE  /\ at + i - 1 \in DOMAIN prog /\ LoadsFrom(prog[at + i - 1], x[i], known)
             /\ Len(y[i]) = SIMD_WIDTH
  BY DEF Holds, Lines
<1>2. InStep(j, asm, addr, data, prog, known \cup {prog[at + i - 1].dst : i \in 1 .. n}, at + n, left)
  BY MoreKnown
<1> QED BY <1>1, <1>2, LoadBlock DEF Lines

(* ... n additions ...                                                     *)
LEMMA AddsBlock ==
  ASSUME NEW j, NEW asm, NEW addr, NEW data, NEW prog, NEW left, NEW known,
         NEW n \in Nat, NEW at \in Nat, Holds(prog, at, Adds(n)),
         {Grf(i) : i \in 0 .. n - 1} \subseteq known, NEW number, NEW y, Lines(y, n),
         InStep(j, asm, addr, data, prog, known, at + n, left)
  PROVE  InStep(j, asm, Columns(number, n) \o addr, y \o data, prog, known, at, left)
<1>1. Len(Adds(n)) = n
  BY FunSeq DEF Adds
<1>2. ASSUME NEW i \in 1 .. n PROVE LoadsFrom(Adds(n)[i], Columns(number, n)[i], known)
  <2>1. Adds(n)[i] = Instr("ADD", Grf(i - 1), <<Grf(i - 1), Bank(i - 1)>>)
    BY DEF Adds
  <2>2. Columns(number, n)[i][1] = Bank(i - 1)[1] /\ Grf(i - 1) \in known
    BY ColumnsFacts
  <2>3. LoadsFrom(Instr("ADD", Grf(i - 1), <<Grf(i - 1), Bank(i - 1)>>), Columns(number, n)[i], known)
    BY <2>2, Banks, AddLoads
  <2> QED BY <2>1, <2>3
<1>3. IsSeq(Columns(number, n)) /\ Len(Columns(number, n)) = n
  BY ColumnsFacts
<1> QED BY <1>1, <1>2, <1>3, WorkBlock

(* ... n MACs of the vector registers with a register between ...          *)
LEMMA MacsBlock ==
  ASSUME NEW j, NEW asm, NEW addr, NEW data, NEW prog, NEW left, NEW known,
         NEW n \in Nat, NEW at \in Nat, NEW acc, ~IsBank(acc), Holds(prog, at, Macs(n, acc)),
         acc \in known, {Grf(i) : i \in 0 .. n - 1} \subseteq known, NEW number, NEW y, Lines(y, n),
         InStep(j, asm, addr, data, prog, known, at + n, left)
  PROVE  InStep(j, asm, Columns(number, n) \o addr, y \o data, prog, known, at, left)
<1>1. Len(Macs(n, acc)) = n
  BY FunSeq DEF Macs
<1>2. ASSUME NEW i \in 1 .. n PROVE LoadsFrom(Macs(n, acc)[i], Columns(number, n)[i], known)
  <2>1. Macs(n, acc)[i] = Instr("MAC", acc, <<Grf(i - 1), Bank(i - 1)>>)
    BY DEF Macs
  <2>2. Columns(number, n)[i][1] = Bank(i - 1)[1] /\ Grf(i - 1) \in known
    BY ColumnsFacts
  <2>3. LoadsFrom(Instr("MAC", acc, <<Grf(i - 1), Bank(i - 1)>>), Columns(number, n)[i], known)
    BY <2>2, Banks, MacLoads
  <2> QED BY <2>1, <2>3
<1>3. IsSeq(Columns(number, n)) /\ Len(Columns(number, n)) = n
  BY ColumnsFacts
<1> QED BY <1>1, <1>2, <1>3, WorkBlock

(* ... or on scalars, and n stores. *)
LEMMA ScalarMacLoads ==
  ASSUME NEW k, NEW known, SrfM(k) \in known, GrfB0 \in known, NEW column, column[1] = Bank(k)[1]
  PROVE  LoadsFrom(ScalarMac(k), column, known)
<1>1. LoadsFrom(Instr("MAC", GrfB0, <<Bank(k), SrfM(k)>>), column, known)
  BY Banks, MacLoads DEF GrfB0
<1> QED BY <1>1 DEF ScalarMac

(* n stores take the columns they store to.                                *)
LEMMA StoresBlock ==
  ASSUME NEW j, NEW asm, NEW addr, NEW data, NEW prog, NEW left, NEW known,
         NEW n \in Nat, NEW at \in Nat, Holds(prog, at, Stores(n)),
         {Grf(i) : i \in 0 .. n - 1} \subseteq known, NEW number,
         InStep(j, asm, addr, data, prog, known, at + n, left)
  PROVE  InStep(j, asm, Columns(number, n) \o addr, data, prog, known, at, left)
<1>1. Len(Stores(n)) = n
  BY FunSeq DEF Stores
<1>2. ASSUME NEW i \in 1 .. n
      PROVE  at + i - 1 \in DOMAIN prog /\ StoresTo(prog[at + i - 1], Columns(number, n)[i], known)
  <2>1. at + i - 1 \in DOMAIN prog /\ prog[at + i - 1] = Mov(Bank(i - 1), Grf(i - 1))
    BY <1>1 DEF Holds, Stores
  <2>2. Columns(number, n)[i][1] = Bank(i - 1)[1] /\ Grf(i - 1) \in known
    BY ColumnsFacts
  <2>3. StoresTo(Mov(Bank(i - 1), Grf(i - 1)), Columns(number, n)[i], known)
    BY <2>2, Banks, MovStores
  <2> QED BY <2>1, <2>3
<1>3. IsSeq(Columns(number, n)) /\ Len(Columns(number, n)) = n
  BY ColumnsFacts
<1> QED BY <1>2, <1>3, StoreBlock

(***************************************************************************)
(* Numbers, and lines written in loops.                                    *)
(***************************************************************************)

(* Quotient and remainder.                                                 *)
LEMMA DivMod ==
  ASSUME NEW a \in Nat, NEW b \in Nat \ {0}
  PROVE  a \div b \in Nat /\ a % b \in 0 .. b - 1 /\ a = b * (a \div b) + (a % b)
  OBVIOUS

(* A quotient is unique.                                                   *)
LEMMA Unique ==
  ASSUME NEW b \in Nat \ {0}, NEW q \in Int, NEW p \in Int, b * q < b * p + b, b * p <= b * q
  PROVE q = p
<1>1. CASE q > p
  <2>1. q >= p + 1
    BY <1>1
  <2>2. b * q >= b * (p + 1)
    BY <2>1
  <2>3. b * (p + 1) = b * p + b
    OBVIOUS
  <2> QED BY <2>2, <2>3
<1>2. CASE q < p
  <2>1. q + 1 <= p
    BY <1>2
  <2>2. b * (q + 1) <= b * p
    BY <2>1
  <2>3. b * (q + 1) = b * q + b
    OBVIOUS
  <2> QED BY <2>2, <2>3
<1> QED BY <1>1, <1>2

(* CeilDiv is the quotient, one more unless it is exact.                   *)
LEMMA CeilDivFacts ==
  ASSUME NEW a \in Nat, NEW b \in Nat \ {0}
  PROVE  CeilDiv(a, b) = (a \div b) + IF a % b = 0 THEN 0 ELSE 1
<1> DEFINE q == a \div b
           r == a % b
           c == a + b - 1
           p == c \div b
           s == c % b
<1>1. q \in Nat /\ r \in 0 .. b - 1 /\ a = b * q + r
  BY DivMod
<1>2. c \in Nat
  OBVIOUS
<1>3. p \in Nat /\ s \in 0 .. b - 1 /\ c = b * p + s
  BY <1>2, DivMod
<1>4. CeilDiv(a, b) = p
  BY DEF CeilDiv
<1>5. c = a + b - 1
  OBVIOUS
<1> HIDE DEF q, r, c, p, s
<1>6. CASE r = 0
  <2>1. b * p < b * q + b /\ b * q <= b * p
    BY <1>1, <1>3, <1>5, <1>6
  <2>2. p = q
    BY <1>1, <1>3, <2>1, Unique
  <2> QED BY <1>1, <1>4, <1>6, <2>2 DEF q, r
<1>7. CASE r # 0
  <2> DEFINE u == q + 1
  <2>0. u \in Int /\ b * u = b * q + b
    BY <1>1
  <2> HIDE DEF u
  <2>1. b * p < b * u + b /\ b * u <= b * p
    BY <1>1, <1>3, <1>5, <1>7, <2>0
  <2>2. p = u
    BY <1>1, <1>3, <2>0, <2>1, Unique
  <2> QED BY <1>1, <1>4, <1>7, <2>2 DEF q, r, u
<1> QED BY <1>6, <1>7

(* It is a natural number, not 0 unless its argument is.                   *)
LEMMA CeilDivNat ==
  ASSUME NEW a \in Nat, NEW b \in Nat \ {0}
  PROVE  CeilDiv(a, b) \in Nat /\ (a # 0 => CeilDiv(a, b) \in Nat \ {0})
<1> DEFINE q == a \div b
           r == a % b
<1>1. q \in Nat /\ r \in 0 .. b - 1 /\ a = b * q + r
  BY DivMod
<1>2. CeilDiv(a, b) = q + IF r = 0 THEN 0 ELSE 1
  BY CeilDivFacts
<1> HIDE DEF q, r
<1>3. q = 0 => b * q = 0
  OBVIOUS
<1> QED BY <1>1, <1>2, <1>3

(* Smaller is one of two numbers and at most both.                         *)
LEMMA SmallerFacts ==
  ASSUME NEW a \in Int, NEW b \in Int
  PROVE  Smaller(a, b) \in {a, b} /\ Smaller(a, b) <= a /\ Smaller(a, b) <= b
  BY DEF Smaller

(* A loop that writes two, or three, parts. *)
LEMMA TwoParts ==
  ASSUME NEW s, Parts(s, 2), NEW rest, IsSeq(rest)
  PROVE  IsSeq(FlattenSeq(s)) /\ FlattenSeq(s) \o rest = s[1] \o (s[2] \o rest)
<1>1. PICK R : Rests(R, s, 2, rest)
  BY PartsRest
<1>2. R[0] = s[1] \o R[1]
  <2>1. 0 \in 0 .. 2 - 1 /\ 0 + 1 = 1
    OBVIOUS
  <2> QED BY <1>1, <2>1 DEF Rests
<1>3. R[1] = s[2] \o R[2]
  <2>1. 1 \in 0 .. 2 - 1 /\ 1 + 1 = 2
    OBVIOUS
  <2> QED BY <1>1, <2>1 DEF Rests
<1>4. R[0] = FlattenSeq(s) \o rest /\ R[2] = rest
  BY <1>1 DEF Rests
<1>5. IsSeq(FlattenSeq(s))
  BY PartsRest
<1> QED BY <1>2, <1>3, <1>4, <1>5

(* The same of three parts.                                                *)
LEMMA ThreeParts ==
  ASSUME NEW s, Parts(s, 3), NEW rest, IsSeq(rest)
  PROVE  IsSeq(FlattenSeq(s)) /\ FlattenSeq(s) \o rest = s[1] \o (s[2] \o (s[3] \o rest))
<1>1. PICK R : Rests(R, s, 3, rest)
  BY PartsRest
<1>2. R[0] = s[1] \o R[1]
  <2>1. 0 \in 0 .. 3 - 1 /\ 0 + 1 = 1
    OBVIOUS
  <2> QED BY <1>1, <2>1 DEF Rests
<1>3. R[1] = s[2] \o R[2]
  <2>1. 1 \in 0 .. 3 - 1 /\ 1 + 1 = 2
    OBVIOUS
  <2> QED BY <1>1, <2>1 DEF Rests
<1>4. R[2] = s[3] \o R[3]
  <2>1. 2 \in 0 .. 3 - 1 /\ 2 + 1 = 3
    OBVIOUS
  <2> QED BY <1>1, <2>1 DEF Rests
<1>5. R[0] = FlattenSeq(s) \o rest /\ R[3] = rest
  BY <1>1 DEF Rests
<1>6. IsSeq(FlattenSeq(s))
  BY PartsRest
<1> QED BY <1>2, <1>3, <1>4, <1>5, <1>6

(* A loop that writes one line each time. *)
Single(s) == \E e : s = <<e>>

(* A single line is a sequence of length 1.                                *)
LEMMA SingleFacts == ASSUME NEW s, Single(s) PROVE IsSeq(s) /\ Len(s) = 1
  BY OneSeq DEF Single

(* Single lines put together: one line for each.                           *)
LEMMA SinglesFlatten ==
  ASSUME NEW n \in Nat, NEW s, Tuple(s, n), \A i \in 1 .. n : Single(s[i])
  PROVE  /\ IsSeq(FlattenSeq(s)) /\ Len(FlattenSeq(s)) = n
         /\ \A i \in 1 .. n : FlattenSeq(s)[i] = s[i][1]
<1> DEFINE Claim(m, p) == /\ IsSeq(FlattenSeq(p)) /\ Len(FlattenSeq(p)) = m
                          /\ \A i \in 1 .. m : FlattenSeq(p)[i] = p[i][1]
           N == {m \in Nat : \A p : Tuple(p, m) /\ (\A i \in 1 .. m : Single(p[i])) => Claim(m, p)}
<1>1. 0 \in N
  <2> SUFFICES ASSUME NEW p, Tuple(p, 0) PROVE Claim(0, p)
    OBVIOUS
  <2>1. FlattenSeq(p) = <<>>
    BY FlattenNone
  <2> QED BY <2>1, NoneSeq
<1>2. ASSUME NEW m \in N PROVE m + 1 \in N
  <2>0. m \in Nat /\ m + 1 \in Nat
    OBVIOUS
  <2> SUFFICES ASSUME NEW p, Tuple(p, m + 1), \A i \in 1 .. m + 1 : Single(p[i])
               PROVE  Claim(m + 1, p)
    BY <2>0
  <2> DEFINE q == [i \in 1 .. m |-> p[i]]
             last == p[m + 1]
             all == FlattenSeq(p)
             first == FlattenSeq(q)
  <2>1. Parts(p, m + 1)
    BY SingleFacts DEF Parts
  <2>2. all = first \o last
    BY <2>0, <2>1, FlattenOneMore
  <2>3. Tuple(q, m) /\ \A i \in 1 .. m : q[i] = p[i] /\ Single(q[i])
    BY <2>0 DEF Tuple
  <2>4. IsSeq(last) /\ Len(last) = 1
    BY <2>0, SingleFacts
  <2>5. IsSeq(first) /\ Len(first) = m /\ \A i \in 1 .. m : first[i] = p[i][1]
    <3> HIDE DEF q
    <3>1. Claim(m, q)
      BY <2>0, <2>3
    <3> QED BY <2>3, <3>1
  <2> HIDE DEF first
  <2>6. IsSeq(first \o last) /\ Len(first \o last) = m + 1
    <3> HIDE DEF last, all
    <3>1. IsSeq(first) /\ IsSeq(last)
      BY <2>4, <2>5
    <3>2. IsSeq(first \o last) /\ Len(first \o last) = Len(first) + Len(last)
      BY <3>1, Joined
    <3> QED BY <2>4, <2>5, <3>2
  <2>7. ASSUME NEW i \in 1 .. m + 1 PROVE (first \o last)[i] = p[i][1]
    <3>1. (first \o last)[i] = IF i <= m THEN first[i] ELSE last[i - m]
      <4> HIDE DEF last
      <4> QED BY <2>4, <2>5, Joined
    <3>2. CASE i = m + 1
      BY <2>0, <3>1, <3>2
    <3>3. CASE i # m + 1
      <4>1. i \in 1 .. m
        BY <2>0, <3>3
      <4> QED BY <2>5, <3>1, <4>1
    <3> QED BY <3>2, <3>3
  <2> HIDE DEF all
  <2>8. /\ IsSeq(all) /\ Len(all) = m + 1
        /\ \A i \in 1 .. m + 1 : all[i] = p[i][1]
    BY <2>2, <2>6, <2>7
  <2> QED BY <2>8 DEF all
<1>3. N = Nat
  <2> HIDE DEF N
  <2>1. N \in SUBSET Nat
    BY DEF N
  <2> QED BY <1>1, <1>2, <2>1, Induction
<1> HIDE DEF Claim
<1>4. Claim(n, s)
  BY <1>3
<1> QED BY <1>4 DEF Claim

(* If each holds a value for all lanes, so does each of the result.        *)
LEMMA SingleLines ==
  ASSUME NEW n \in Nat, NEW s, Tuple(s, n),
         \A i \in 1 .. n : Single(s[i]) /\ Len(s[i][1]) = SIMD_WIDTH
  PROVE  Lines(FlattenSeq(s), n)
  BY SinglesFlatten DEF Lines

(* Append puts one element behind.                                         *)
LEMMA Appended == ASSUME NEW s, IsSeq(s), NEW e PROVE Append(s, e) = s \o <<e>>
<1> DEFINE T == Items(s) \cup {e}
<1>1. s \in Seq(T) /\ e \in T
  BY DEF IsSeq
<1> HIDE DEF T
<1> QED BY <1>1, AppendIsConcat

(* A set of scalars, each with its line of the data file.                  *)
LEMMA WeightsBlock ==
  ASSUME NEW j, NEW asm, NEW addr, NEW data, NEW prog, NEW known, NEW n \in Nat,
         \A i \in 0 .. n - 1 : SrfM(i) \in Registers(j),
         NEW y, Tuple(y, n), \A i \in 1 .. n : Single(y[i]) /\ Len(y[i][1]) = 1,
         InStep(j, asm, addr, data, prog, known \cup {SrfM(i) : i \in 0 .. n - 1}, -1, 0)
  PROVE  /\ IsSeq(Weights(n))
         /\ InStep(j, Weights(n) \o asm, addr, FlattenSeq(y) \o data, prog, known, -1, 0)
<1> DEFINE s == [i \in 1 .. n |-> Scalar(SrfM(i - 1))]
<1>1. Weights(n) = FlattenSeq(s)
  BY DEF Weights, For
<1>2. IsSeq(asm) /\ IsSeq(data)
  BY InStepSeqs
<1>3. Parts(s, n) /\ \A i \in 1 .. n : s[i] = Scalar(SrfM(i - 1))
  BY OneSeq DEF Parts, Tuple, Scalar
<1> HIDE DEF s
<1>4. PICK L : Rests(L, s, n, asm)
  BY <1>2, <1>3, PartsRest
<1>5. Parts(y, n)
  BY SingleFacts DEF Parts
<1>6. PICK D : Rests(D, y, n, data)
  BY <1>2, <1>5, PartsRest
<1> DEFINE Known(t) == known \cup {SrfM(i) : i \in 0 .. t - 1}
<1>7. Known(n) = known \cup {SrfM(i) : i \in 0 .. n - 1} /\ Known(0) = known
  OBVIOUS
<1>8. ASSUME NEW t \in 0 .. n - 1 PROVE Known(t + 1) = Known(t) \cup {SrfM(t)}
  <2>1. 0 .. (t + 1) - 1 = (0 .. t - 1) \cup {t}
    OBVIOUS
  <2> QED BY <2>1
<1> HIDE DEF Known
<1> DEFINE Lasts(t) == InStep(j, L[t], addr, D[t], prog, Known(t), -1, 0)
           N == {t \in 0 .. n : Lasts(t)}
<1>9. n \in N
  <2>1. L[n] = asm /\ D[n] = data
    BY <1>4, <1>6 DEF Rests
  <2>2. Lasts(n)
    BY <1>7, <2>1
  <2> HIDE DEF Lasts
  <2> QED BY <2>2
<1>10. ASSUME NEW t \in 0 .. n - 1, Lasts(t + 1) PROVE Lasts(t)
  <2>1. L[t] = Scalar(SrfM(t)) \o L[t + 1]
    <3>1. t + 1 \in 1 .. n /\ (t + 1) - 1 = t
      OBVIOUS
    <3> QED BY <1>3, <1>4, <3>1 DEF Rests
  <2>2. PICK v : y[t + 1] = <<v>> /\ Len(v) = 1
    <3>1. t + 1 \in 1 .. n
      OBVIOUS
    <3>2. Single(y[t + 1]) /\ Len(y[t + 1][1]) = 1
      BY <3>1
    <3>3. PICK v : y[t + 1] = <<v>>
      BY <3>2 DEF Single
    <3>4. y[t + 1][1] = v
      BY <3>3
    <3> QED BY <3>2, <3>3, <3>4
  <2>3. D[t] = <<v>> \o D[t + 1]
    BY <1>6, <2>2 DEF Rests
  <2>4. InStep(j, L[t + 1], addr, D[t + 1], prog, Known(t) \cup {SrfM(t)}, -1, 0)
    BY <1>8, <1>10
  <2>5. SrfM(t) \in Registers(j)
    OBVIOUS
  <2>6. InStep(j, Scalar(SrfM(t)) \o L[t + 1], addr, <<v>> \o D[t + 1], prog, Known(t), -1, 0)
    BY <2>2, <2>4, <2>5, ScalarLineStep
  <2> QED BY <2>1, <2>3, <2>6
<1>11. InStep(j, L[0], addr, D[0], prog, known, -1, 0)
  <2> HIDE DEF Lasts
  <2>1. \A t \in 0 .. n - 1 : t + 1 \in N => t \in N
    BY <1>10
  <2>2. 0 \in N
    <3> HIDE DEF N
    <3> QED BY <1>9, <2>1, Backwards
  <2>3. Lasts(0)
    BY <2>2
  <2> QED BY <1>7, <2>3 DEF Lasts
<1>12. L[0] = FlattenSeq(s) \o asm /\ D[0] = FlattenSeq(y) \o data
  BY <1>4, <1>6 DEF Rests
<1>13. IsSeq(FlattenSeq(s))
  BY <1>2, <1>3, PartsRest
<1> QED BY <1>1, <1>11, <1>12, <1>13

(* The files of a job that may be mapped. *)
Mapped(j) ==
  /\ j.kernel \in Kernels
  /\ Sizes(j) \cup {j.CRF_ENTRIES, j.GRF_ENTRIES, j.SRF_M_ENTRIES} \subseteq Nat \ {0}
  /\ j.CRF_ENTRIES >= Fewest(j)

(* The sizes of the register files, and the registers there are.           *)
LEMMA RegisterFacts ==
  ASSUME NEW j, Mapped(j)
  PROVE  /\ j.CRF_ENTRIES \in Nat /\ j.GRF_ENTRIES \in Nat \ {0} /\ j.SRF_M_ENTRIES \in Nat \ {0}
         /\ \A i \in 0 .. 2 * j.GRF_ENTRIES - 1 : Grf(i) \in Registers(j)
         /\ \A i \in 0 .. j.SRF_M_ENTRIES - 1 : SrfM(i) \in Registers(j)
         /\ GrfB0 \in Registers(j) /\ SrfA0 \in Registers(j)
<1>1. j.CRF_ENTRIES \in Nat /\ j.GRF_ENTRIES \in Nat \ {0} /\ j.SRF_M_ENTRIES \in Nat \ {0}
  BY DEF Mapped
<1>2. 1 \in 0 .. 2 * j.GRF_ENTRIES - 1
  BY <1>1
<1> QED BY <1>1, <1>2 DEF Registers, GrfB0

(***************************************************************************)
(* Element-wise addition.                                                  *)
(***************************************************************************)

(* Loads, ...                                                              *)
LEMMA LoadsCode ==
  ASSUME NEW j, Mapped(j), NEW n \in Nat, n <= 2 * j.GRF_ENTRIES
  PROVE  Code(j, Loads(n), n)
<1>1. IsSeq(Loads(n)) /\ Len(Loads(n)) = n
  BY FunSeq DEF Loads
<1>2. ASSUME NEW i \in 1 .. n PROVE GoodInstr(j, Loads(n)[i])
  <2>1. Loads(n)[i] = Mov(Grf(i - 1), Bank(i - 1))
    BY DEF Loads
  <2>2. i - 1 \in 0 .. 2 * j.GRF_ENTRIES - 1
    BY RegisterFacts
  <2>3. Grf(i - 1) \in Registers(j)
    BY <2>2, RegisterFacts
  <2> QED BY <2>1, <2>3, Banks, GoodMov
<1> QED BY <1>1, <1>2 DEF Code

(* ... stores ...                                                          *)
LEMMA StoresCode ==
  ASSUME NEW j, Mapped(j), NEW n \in Nat, n <= 2 * j.GRF_ENTRIES
  PROVE  Code(j, Stores(n), n)
<1>1. IsSeq(Stores(n)) /\ Len(Stores(n)) = n
  BY FunSeq DEF Stores
<1>2. ASSUME NEW i \in 1 .. n PROVE GoodInstr(j, Stores(n)[i])
  <2>1. Stores(n)[i] = Mov(Bank(i - 1), Grf(i - 1))
    BY DEF Stores
  <2>2. i - 1 \in 0 .. 2 * j.GRF_ENTRIES - 1
    BY RegisterFacts
  <2>3. Grf(i - 1) \in Registers(j)
    BY <2>2, RegisterFacts
  <2> QED BY <2>1, <2>3, Banks, GoodMov
<1> QED BY <1>1, <1>2 DEF Code

(* ... and additions of n words name registers that exist.                 *)
LEMMA AddsCode ==
  ASSUME NEW j, Mapped(j), NEW n \in Nat, n <= 2 * j.GRF_ENTRIES
  PROVE  Code(j, Adds(n), n)
<1>1. IsSeq(Adds(n)) /\ Len(Adds(n)) = n
  BY FunSeq DEF Adds
<1>2. ASSUME NEW i \in 1 .. n PROVE GoodInstr(j, Adds(n)[i])
  <2>1. Adds(n)[i] = Instr("ADD", Grf(i - 1), <<Grf(i - 1), Bank(i - 1)>>)
    BY DEF Adds
  <2>2. i - 1 \in 0 .. 2 * j.GRF_ENTRIES - 1
    BY RegisterFacts
  <2>3. Grf(i - 1) \in Registers(j)
    BY <2>2, RegisterFacts
  <2> QED BY <2>1, <2>3, Banks, GoodInstr2
<1> QED BY <1>1, <1>2 DEF Code

(* So does the program for n words, of 3 * n instructions.                 *)
LEMMA VaProgramCode ==
  ASSUME NEW j, Mapped(j), NEW n \in Nat, n <= 2 * j.GRF_ENTRIES
  PROVE  Code(j, VaProgram(n), 3 * n)
<1>1. Code(j, Loads(n), n) /\ Code(j, Adds(n), n) /\ Code(j, Stores(n), n)
  BY LoadsCode, AddsCode, StoresCode
<1>2. Code(j, Loads(n) \o Adds(n), n + n)
  BY <1>1, CodeJoined
<1>3. Code(j, (Loads(n) \o Adds(n)) \o Stores(n), (n + n) + n)
  BY <1>1, <1>2, CodeJoined
<1>4. (n + n) + n = 3 * n
  OBVIOUS
<1> QED BY <1>3, <1>4 DEF VaProgram

(* The program for n words takes their columns of both operands and of the *)
(* result, and the lines of both operands.                                 *)
LEMMA VaProgramRuns ==
  ASSUME NEW j, NEW asm, NEW addr, NEW data, NEW prog, NEW left, NEW known,
         NEW n \in Nat, NEW at \in Nat, Holds(prog, at, VaProgram(n)),
         NEW b1, NEW b2, NEW b3, NEW y1, NEW y2, Lines(y1, n), Lines(y2, n),
         InStep(j, asm, addr, data, prog, known, at + 3 * n, left)
  PROVE  InStep(j, asm, Columns(b1, n) \o (Columns(b2, n) \o (Columns(b3, n) \o addr)),
                y1 \o (y2 \o data), prog, known, at, left)
<1> DEFINE both == Loads(n) \o Adds(n)
           more == known \cup {Grf(i) : i \in 0 .. n - 1}
<1>1. /\ IsSeq(Loads(n)) /\ Len(Loads(n)) = n /\ IsSeq(Adds(n)) /\ Len(Adds(n)) = n
      /\ IsSeq(Stores(n)) /\ Len(Stores(n)) = n
  BY FunSeq DEF Loads, Adds, Stores
<1>2. IsSeq(both) /\ Len(both) = n + n
  BY <1>1, Joined
<1>3. Holds(prog, at, both \o Stores(n))
  BY DEF VaProgram
<1>4. Holds(prog, at, both) /\ Holds(prog, at + (n + n), Stores(n))
  <2> HIDE DEF both
  <2> QED BY <1>1, <1>2, <1>3, HoldsParts
<1>5. Holds(prog, at, Loads(n)) /\ Holds(prog, at + n, Adds(n))
  BY <1>1, <1>4, HoldsParts
<1>6. {Grf(i) : i \in 0 .. n - 1} \subseteq more /\ known \subseteq more
  OBVIOUS
<1> HIDE DEF more, both
<1>7. InStep(j, asm, addr, data, prog, more, at + 3 * n, left)
  BY <1>6, MoreKnown
<1>8. (at + (n + n)) + n = at + 3 * n /\ (at + n) + n = at + (n + n)
      /\ at + n \in Nat /\ at + (n + n) \in Nat
  OBVIOUS
<1>9. InStep(j, asm, Columns(b3, n) \o addr, data, prog, more, at + (n + n), left)
  BY <1>4, <1>6, <1>7, <1>8, StoresBlock
<1>10. InStep(j, asm, Columns(b2, n) \o (Columns(b3, n) \o addr), y2 \o data, prog, more, at + n, left)
  BY <1>5, <1>6, <1>8, <1>9, AddsBlock
<1> QED BY <1>5, <1>10, LoadsBlock DEF more

(* The lines of the data file. *)
LEMMA LaneLines ==
  ASSUME NEW j, NEW op, NEW w
  PROVE  Len(VaWord(j, op, w)) = SIMD_WIDTH
<1>1. SIMD_WIDTH \in Nat
  BY KernelFilesAssumption
<1>2. Len(VaWordRow(j, op, w)) = SIMD_WIDTH
  BY <1>1 DEF VaWordRow, Line
<1>3. Len(VaWordCol(j, op, w)) = SIMD_WIDTH
  BY <1>1 DEF VaWordCol, Line
<1> QED BY <1>2, <1>3 DEF VaWord

(* The parts of a job: their number, their sizes, and the program that     *)
(* fits the CRF.                                                           *)
LEMMA VaSizes ==
  ASSUME NEW j, Mapped(j), j.kernel \in {"EWARW", "EWACW"}
  PROVE  /\ VaWords(j) \in Nat
         /\ VaSegment(j) \in Nat \ {0} /\ VaSegment(j) <= 2 * j.GRF_ENTRIES
         /\ VaLoops(j) \in Nat /\ VaPeeling(j) \in Nat /\ VaPeeling(j) < VaSegment(j)
         /\ Len(VaParts(j)) = VaLoops(j) + (IF VaPeeling(j) = 0 THEN 0 ELSE 1)
         /\ \A p \in 1 .. Len(VaParts(j)) :
              VaParts(j)[p] = IF p <= VaLoops(j) THEN VaSegment(j) ELSE VaPeeling(j)
         /\ 3 * VaSegment(j) + 2 <= j.CRF_ENTRIES
         /\ VaRLim(j) => 3 * VaSegment(j) + 3 * VaPeeling(j) + 2 <= j.CRF_ENTRIES
<1> DEFINE C == j.CRF_ENTRIES
           G == j.GRF_ENTRIES
           W == VaWords(j)
           S == VaSegment(j)
<1>1. C \in Nat /\ C >= 5 /\ G \in Nat \ {0} /\ j.V \in Nat \ {0} /\ j.n \in Nat \ {0}
  BY DEF Mapped, Fewest, Sizes
<1>2. SIMD_WIDTH \in Nat \ {0}
  BY KernelFilesAssumption
<1>3. W \in Nat
  <2>1. j.n * j.V \in Nat
    BY <1>1
  <2>2. CeilDiv(j.n * j.V, SIMD_WIDTH) \in Nat /\ CeilDiv(j.V, SIMD_WIDTH) \in Nat
    BY <1>1, <1>2, <2>1, CeilDivNat
  <2>3. j.n * CeilDiv(j.V, SIMD_WIDTH) \in Nat
    BY <1>1, <2>2
  <2> QED BY <2>2, <2>3 DEF VaWords
<1>4. VaRLim(j) => C >= 6 * G + 3 * (W % (2 * G)) + 2
  BY DEF VaRLim
<1>5. S = IF VaRLim(j) THEN 2 * G ELSE Smaller((C - 2) \div 3, 2 * G)
  BY DEF VaSegment
<1>6. VaLoops(j) = W \div S /\ VaPeeling(j) = W % S
  BY DEF VaLoops, VaPeeling
<1>7. Len(VaParts(j)) = CeilDiv(W, S) \/ CeilDiv(W, S) \notin Nat
  BY FunSeq DEF VaParts
<1>8. \A p \in 1 .. CeilDiv(W, S) :
        VaParts(j)[p] = IF p <= VaLoops(j) THEN S ELSE VaPeeling(j)
  BY DEF VaParts
<1> HIDE DEF C, G, W, S
<1>9. 2 * G \in Nat \ {0} /\ W % (2 * G) \in Nat
  BY <1>1, <1>3, DivMod
<1>10. S \in Nat \ {0} /\ S <= 2 * G /\ 3 * S + 2 <= C
  <2>1. CASE VaRLim(j)
    BY <1>1, <1>4, <1>5, <1>9, <2>1
  <2>2. CASE ~VaRLim(j)
    <3>1. (C - 2) \div 3 \in Nat /\ (C - 2) \div 3 >= 1 /\ 3 * ((C - 2) \div 3) <= C - 2
      BY <1>1
    <3>2. S \in {(C - 2) \div 3, 2 * G} /\ S <= (C - 2) \div 3 /\ S <= 2 * G
      BY <1>5, <1>9, <2>2, <3>1, SmallerFacts
    <3> DEFINE d == (C - 2) \div 3
    <3> HIDE DEF d
    <3>3. d \in Nat /\ d >= 1 /\ 3 * d <= C - 2 /\ S \in {d, 2 * G} /\ S <= d /\ S <= 2 * G
      BY <3>1, <3>2 DEF d
    <3> QED BY <1>1, <1>9, <3>3
  <2> QED BY <2>1, <2>2
<1>11. VaLoops(j) \in Nat /\ VaPeeling(j) \in 0 .. S - 1
  BY <1>3, <1>6, <1>10, DivMod
<1>12. CeilDiv(W, S) = VaLoops(j) + (IF VaPeeling(j) = 0 THEN 0 ELSE 1)
  BY <1>3, <1>6, <1>10, CeilDivFacts
<1>13. VaRLim(j) => 3 * S + 3 * VaPeeling(j) + 2 <= C
  <2> SUFFICES ASSUME VaRLim(j) PROVE 3 * S + 3 * VaPeeling(j) + 2 <= C
    OBVIOUS
  <2>1. S = 2 * G /\ VaPeeling(j) = W % (2 * G)
    BY <1>5, <1>6
  <2> QED BY <1>1, <1>4, <1>9, <2>1
<1>14. CeilDiv(W, S) \in Nat
  BY <1>11, <1>12
<1>15. Len(VaParts(j)) = CeilDiv(W, S)
  BY <1>7, <1>14
<1> QED BY <1>1, <1>3, <1>8, <1>10, <1>11, <1>12, <1>13, <1>15 DEF C, G, W, S

(* The columns, and the lines, a program for n words takes first. *)
VaColumns(columns, n, rest) ==
  \E b1, b2, b3 : columns = Columns(b1, n) \o (Columns(b2, n) \o (Columns(b3, n) \o rest))
VaLines(lines, n, rest) ==
  \E y1, y2 : Lines(y1, n) /\ Lines(y2, n) /\ lines = y1 \o (y2 \o rest)

(* The files of a part. *)
LEMMA VaPartFiles ==
  ASSUME NEW j, Mapped(j), Handled(j), j.kernel \in {"EWARW", "EWACW"},
         NEW t \in 0 .. Len(VaParts(j)) - 1, NEW n, n = VaParts(j)[t + 1], n \in Nat
  PROVE  /\ IsSeq(VaPartColumns(j, t)) /\ IsSeq(VaPartData(j, t))
         /\ \A rest : IsSeq(rest) => VaColumns(VaPartColumns(j, t) \o rest, n, rest)
         /\ \A rest : IsSeq(rest) => VaLines(VaPartData(j, t) \o rest, n, rest)
<1> DEFINE b(array) == VaBase(j, array) + t * CeilDiv(VaSegment(j), 2)
           x == [i \in 1 .. 3 |-> Columns(b(i - 1), n)]
           Word(array, k) ==
             LET w == t * VaSegment(j) + k - 1
             IN IF array = 1 /\ VaDoubled(j, t, k) THEN VaDoubledWord(j, w)
                ELSE VaWord(j, <<"op1", "op2">>[array + 1], w)
           y == [i \in 1 .. 2 |-> [k \in 1 .. n |-> Word(i - 1, k)]]
<1>1. VaPartColumns(j, t) = FlattenSeq(x)
  BY DEF VaPartColumns, For
<1>2. VaPartData(j, t) = FlattenSeq(y)
  BY DEF VaPartData, For
<1>3. Parts(x, 3) /\ x[1] = Columns(b(0), n) /\ x[2] = Columns(b(1), n) /\ x[3] = Columns(b(2), n)
  BY ColumnsFacts DEF Parts, Tuple
<1>4. ASSUME NEW array, NEW k PROVE Len(Word(array, k)) = SIMD_WIDTH
  <2>1. ~VaDoubled(j, t, k)
    BY DEF Handled, VaDoubled
  <2> QED BY <2>1, LaneLines
<1>5. Tuple(y, 2) /\ \A i \in 1 .. 2 : y[i] = [k \in 1 .. n |-> Word(i - 1, k)]
  BY DEF Tuple
<1> HIDE DEF b, x, y, Word
<1>6. ASSUME NEW i \in 1 .. 2 PROVE Lines(y[i], n)
  <2> DEFINE line == [k \in 1 .. n |-> Word(i - 1, k)]
  <2>1. IsSeq(line) /\ Len(line) = n
    BY FunSeq
  <2>2. \A k \in 1 .. n : Len(line[k]) = SIMD_WIDTH
    BY <1>4
  <2> HIDE DEF line
  <2>3. Lines(line, n)
    BY <2>1, <2>2 DEF Lines
  <2> QED BY <1>5, <2>3 DEF line
<1>7. Parts(y, 2)
  BY <1>5, <1>6 DEF Parts, Lines
<1>8. IsSeq(FlattenSeq(x)) /\ IsSeq(FlattenSeq(y))
  BY <1>3, <1>7, NoneSeq, ThreeParts, TwoParts
<1>9. ASSUME NEW rest, IsSeq(rest)
      PROVE  FlattenSeq(x) \o rest = x[1] \o (x[2] \o (x[3] \o rest))
  BY <1>3, <1>9, ThreeParts
<1>10. ASSUME NEW rest, IsSeq(rest)
       PROVE  FlattenSeq(y) \o rest = y[1] \o (y[2] \o rest)
  BY <1>7, <1>10, TwoParts
<1>11. Lines(y[1], n) /\ Lines(y[2], n)
  BY <1>6
<1>12. ASSUME NEW rest, IsSeq(rest)
       PROVE  VaColumns(VaPartColumns(j, t) \o rest, n, rest)
  <2>1. VaPartColumns(j, t) \o rest = x[1] \o (x[2] \o (x[3] \o rest))
    BY <1>1, <1>9, <1>12
  <2>2. VaPartColumns(j, t) \o rest =
          Columns(b(0), n) \o (Columns(b(1), n) \o (Columns(b(2), n) \o rest))
    BY <1>3, <2>1
  <2> QED BY <2>2 DEF VaColumns
<1>13. ASSUME NEW rest, IsSeq(rest)
       PROVE  VaLines(VaPartData(j, t) \o rest, n, rest)
  <2>1. VaPartData(j, t) \o rest = y[1] \o (y[2] \o rest)
    BY <1>2, <1>10, <1>13
  <2> QED BY <1>11, <2>1 DEF VaLines
<1> QED BY <1>1, <1>2, <1>8, <1>12, <1>13

(* X and Y are the files from a part on.                                   *)
VaRests(j, X, Y) ==
  /\ \A t \in 0 .. Len(VaParts(j)) - 1 : /\ X[t] = VaPartColumns(j, t) \o X[t + 1]
                                        /\ Y[t] = VaPartData(j, t) \o Y[t + 1]
  /\ \A t \in 0 .. Len(VaParts(j)) : IsSeq(X[t]) /\ IsSeq(Y[t])

(* Both files are what the parts write, one after the other.               *)
LEMMA VaFiles ==
  ASSUME NEW j, Mapped(j), Handled(j), j.kernel \in {"EWARW", "EWACW"}
  PROVE  \E X, Y : /\ VaRests(j, X, Y) /\ X[0] = VaAddresses(j) /\ Y[0] = VaData(j)
                   /\ X[Len(VaParts(j))] = <<>> /\ Y[Len(VaParts(j))] = <<>>
<1> DEFINE n == Len(VaParts(j))
<1>1. n \in Nat /\ \A t \in 0 .. n - 1 : VaParts(j)[t + 1] \in Nat
  <2>1. ASSUME NEW t \in 0 .. n - 1 PROVE VaParts(j)[t + 1] \in Nat
    <3>1. t + 1 \in 1 .. n
      BY VaSizes
    <3> QED BY <3>1, VaSizes
  <2> QED BY <2>1, VaSizes
<1> DEFINE x == [p \in 1 .. n |-> VaPartColumns(j, p - 1)]
           y == [p \in 1 .. n |-> VaPartData(j, p - 1)]
<1>2. VaAddresses(j) = FlattenSeq(x) /\ VaData(j) = FlattenSeq(y)
  BY DEF VaAddresses, VaData, For
<1>3. ASSUME NEW p \in 1 .. n
      PROVE  x[p] = VaPartColumns(j, p - 1) /\ y[p] = VaPartData(j, p - 1) /\ IsSeq(x[p]) /\ IsSeq(y[p])
  <2>1. p - 1 \in 0 .. n - 1
    BY <1>1
  <2> QED BY <1>1, <2>1, VaPartFiles
<1>4. Parts(x, n) /\ Parts(y, n)
  BY <1>3 DEF Parts, Tuple
<1> HIDE DEF x, y
<1>5. PICK X : Rests(X, x, n, <<>>)
  BY <1>1, <1>4, NoneSeq, PartsRest
<1>6. PICK Y : Rests(Y, y, n, <<>>)
  BY <1>1, <1>4, NoneSeq, PartsRest
<1>7. X[0] = VaAddresses(j) /\ Y[0] = VaData(j)
  <2>1. IsSeq(FlattenSeq(x)) /\ IsSeq(FlattenSeq(y))
    BY <1>1, <1>4, NoneSeq, PartsRest
  <2> QED BY <1>2, <1>5, <1>6, <2>1, JoinedNone DEF Rests
<1>8. ASSUME NEW t \in 0 .. n - 1
      PROVE  X[t] = VaPartColumns(j, t) \o X[t + 1] /\ Y[t] = VaPartData(j, t) \o Y[t + 1]
  <2>1. t + 1 \in 1 .. n /\ (t + 1) - 1 = t
    BY <1>1
  <2> QED BY <1>3, <1>5, <1>6, <2>1 DEF Rests
<1>9. /\ X[n] = <<>> /\ Y[n] = <<>> /\ \A t \in 0 .. n : IsSeq(X[t]) /\ IsSeq(Y[t])
  BY <1>5, <1>6 DEF Rests
<1>10. VaRests(j, X, Y)
  BY <1>8, <1>9 DEF VaRests
<1> QED BY <1>7, <1>9, <1>10

(* One part after the other: those of the full segments go round the loop, *)
(* what is left of the words follows.                                      *)
LEMMA VaPartRuns ==
  ASSUME NEW j, Mapped(j), Handled(j), j.kernel \in {"EWARW", "EWACW"},
         NEW t \in 0 .. Len(VaParts(j)) - 1, NEW n, n = VaParts(j)[t + 1], n \in Nat,
         NEW asm, NEW addr, NEW data, NEW prog, NEW known, NEW left, NEW at \in Nat,
         Holds(prog, at, VaProgram(n)),
         InStep(j, asm, addr, data, prog, known, at + 3 * n, left)
  PROVE  InStep(j, asm, VaPartColumns(j, t) \o addr, VaPartData(j, t) \o data, prog, known, at, left)
<1>1. IsSeq(addr) /\ IsSeq(data)
  BY InStepSeqs
<1>2. VaColumns(VaPartColumns(j, t) \o addr, n, addr) /\ VaLines(VaPartData(j, t) \o data, n, data)
  BY <1>1, VaPartFiles
<1>5. PICK b1, b2, b3 : VaPartColumns(j, t) \o addr =
                          Columns(b1, n) \o (Columns(b2, n) \o (Columns(b3, n) \o addr))
  BY <1>2 DEF VaColumns
<1>3. PICK y1, y2 : Lines(y1, n) /\ Lines(y2, n) /\ VaPartData(j, t) \o data = y1 \o (y2 \o data)
  BY <1>2 DEF VaLines
<1>4. InStep(j, asm, Columns(b1, n) \o (Columns(b2, n) \o (Columns(b3, n) \o addr)),
             y1 \o (y2 \o data), prog, known, at, left)
  BY <1>3, VaProgramRuns
<1> QED BY <1>3, <1>4, <1>5

(* What is left of the words: the walk takes all other lines and exits.    *)
LEMMA VaPeeledRuns ==
  ASSUME NEW j, Mapped(j), Handled(j), j.kernel \in {"EWARW", "EWACW"}, NEW X, NEW Y,
         VaRests(j, X, Y),
         NEW asm, NEW prog, NEW known, NEW at \in Nat,
         Holds(prog, at, VaProgram(VaPeeling(j))),
         at + 3 * VaPeeling(j) \in DOMAIN prog, prog[at + 3 * VaPeeling(j)] = EXIT,
         InStep(j, asm, X[Len(VaParts(j))], Y[Len(VaParts(j))], prog, known, -1, 0)
  PROVE  InStep(j, asm, X[VaLoops(j)], Y[VaLoops(j)], prog, known, at, 0)
<1> DEFINE n == Len(VaParts(j))
           p == VaPeeling(j)
           l == VaLoops(j)
<1>1. p \in Nat /\ l \in Nat /\ n = l + (IF p = 0 THEN 0 ELSE 1)
  BY VaSizes
<1>2. InStep(j, asm, X[n], Y[n], prog, known, at + 3 * p, 0)
  <2>1. at + 3 * p \in Nat
    <3> HIDE DEF n, p, l
    <3> QED BY <1>1
  <2> QED BY <2>1, ExitEntry
<1>3. CASE p = 0
  <2> HIDE DEF n, p, l
  <2>1. n = l /\ at + 3 * p = at
    BY <1>1, <1>3
  <2>2. InStep(j, asm, X[l], Y[l], prog, known, at, 0)
    BY <1>2, <2>1
  <2> QED BY <2>2 DEF l
<1>4. CASE p # 0
  <2>1. l \in 0 .. n - 1 /\ n = l + 1 /\ l + 1 \in 1 .. n /\ ~(l + 1 <= l)
    BY <1>1, <1>4
  <2>2. VaParts(j)[l + 1] = p
    BY <2>1, VaSizes
  <2>3. InStep(j, asm, X[l + 1], Y[l + 1], prog, known, at + 3 * p, 0)
    <3> HIDE DEF n, l
    <3> QED BY <1>2, <2>1
  <2>4. InStep(j, asm, VaPartColumns(j, l) \o X[l + 1], VaPartData(j, l) \o Y[l + 1], prog, known, at, 0)
    BY <1>1, <2>1, <2>2, <2>3, VaPartRuns
  <2>5. X[l] = VaPartColumns(j, l) \o X[l + 1] /\ Y[l] = VaPartData(j, l) \o Y[l + 1]
    BY <2>1 DEF VaRests
  <2> QED BY <2>4, <2>5
<1> QED BY <1>3, <1>4

(* The full segments: the loop takes the lines of all of them.             *)
LEMMA VaLoopRuns ==
  ASSUME NEW j, Mapped(j), Handled(j), j.kernel \in {"EWARW", "EWACW"}, NEW X, NEW Y,
         VaRests(j, X, Y),
         VaLoops(j) # 0, NEW asm, NEW prog, NEW known,
         Holds(prog, 0, VaLoop(j)),
         InStep(j, asm, X[VaLoops(j)], Y[VaLoops(j)], prog, known, Len(VaLoop(j)), 0)
  PROVE  InStep(j, asm, X[0], Y[0], prog, known, 0, 0)
<1> DEFINE s == VaSegment(j)
           l == VaLoops(j)
           n == Len(VaParts(j))
<1>1. s \in Nat \ {0} /\ l \in Nat \ {0} /\ l <= n /\ s <= 2 * j.GRF_ENTRIES /\ n \in Nat
  BY VaSizes
<1>2. VaLoop(j) = VaProgram(s) \o Jump(3 * s, l)
  BY DEF VaLoop, If
<1>3. Code(j, VaProgram(s), 3 * s)
  BY <1>1, VaProgramCode
<1>4. /\ l = 1 => Jump(3 * s, l) = <<>> /\ Code(j, Jump(3 * s, l), 0)
      /\ l # 1 => Jump(3 * s, l) = <<JumpInstr(3 * s, l - 1)>> /\ Code(j, Jump(3 * s, l), 1)
  BY JumpCode
<1>5. IsSeq(Jump(3 * s, l)) /\ Len(Jump(3 * s, l)) = IF l = 1 THEN 0 ELSE 1
  BY <1>4 DEF Code
<1>6. IsSeq(VaProgram(s)) /\ Len(VaProgram(s)) = 3 * s
  BY <1>3 DEF Code
<1>7. Len(VaLoop(j)) = 3 * s + (IF l = 1 THEN 0 ELSE 1)
  BY <1>2, <1>5, <1>6, Joined
<1>8. Holds(prog, 0, VaProgram(s)) /\ Holds(prog, 0 + 3 * s, Jump(3 * s, l))
  BY <1>2, <1>5, <1>6, HoldsParts
<1>9. l # 1 => 0 + 3 * s \in DOMAIN prog /\ prog[0 + 3 * s] = JumpInstr(3 * s, l - 1)
  <2> SUFFICES ASSUME l # 1
               PROVE  0 + 3 * s \in DOMAIN prog /\ prog[0 + 3 * s] = JumpInstr(3 * s, l - 1)
    OBVIOUS
  <2>1. Jump(3 * s, l) = <<JumpInstr(3 * s, l - 1)>> /\ Len(Jump(3 * s, l)) = 1
    BY <1>4, <1>5
  <2>2. (0 + 3 * s) + 1 - 1 = 0 + 3 * s
    BY <1>1
  <2>3. 1 \in 1 .. Len(Jump(3 * s, l))
    BY <2>1, SMTT(30)
  <2>4. /\ (0 + 3 * s) + 1 - 1 \in DOMAIN prog
        /\ prog[(0 + 3 * s) + 1 - 1] = Jump(3 * s, l)[1]
    BY <1>8, <2>3 DEF Holds
  <2>5. Jump(3 * s, l)[1] = JumpInstr(3 * s, l - 1)
    BY <2>1
  <2> QED BY <2>2, <2>4, <2>5
<1>10. ASSUME NEW t \in 0 .. l - 1, NEW left \in Nat,
              InStep(j, asm, X[t + 1], Y[t + 1], prog, known, 0 + 3 * s, left)
       PROVE  InStep(j, asm, X[t], Y[t], prog, known, 0, left)
  <2>1. t \in 0 .. n - 1 /\ t + 1 \in 1 .. n /\ t + 1 <= l
    BY <1>1
  <2>2. VaParts(j)[t + 1] = s
    BY <2>1, VaSizes
  <2>3. X[t] = VaPartColumns(j, t) \o X[t + 1] /\ Y[t] = VaPartData(j, t) \o Y[t + 1]
    BY <2>1 DEF VaRests
  <2>4. InStep(j, asm, VaPartColumns(j, t) \o X[t + 1], VaPartData(j, t) \o Y[t + 1], prog, known, 0, left)
    BY <1>1, <1>8, <1>10, <2>1, <2>2, VaPartRuns
  <2> QED BY <2>3, <2>4
<1>11. InStep(j, asm, X[l], Y[l], prog, known, 0 + 3 * s + (IF l = 1 THEN 0 ELSE 1), 0)
  <2>1. 0 + 3 * s + (IF l = 1 THEN 0 ELSE 1) = Len(VaLoop(j))
    BY <1>1, <1>7
  <2> HIDE DEF s, l
  <2> QED BY <2>1 DEF l
<1>12. 3 * s \in Nat /\ 0 \in Nat
  BY <1>1
<1> HIDE DEF s, l, n
<1> QED BY <1>1, <1>9, <1>10, <1>11, <1>12, LoopBlock

(* A program and its end are written, then run. *)
LEMMA RunOf ==
  ASSUME NEW j, Mapped(j), NEW asm, IsSeq(asm), NEW addr, NEW data, NEW prog, NEW known,
         NEW program, NEW n \in Nat, Code(j, program, n), n + 1 <= j.CRF_ENTRIES,
         \A new : (Holds(new, 0, program) /\ n \in DOMAIN new /\ new[n] = EXIT) =>
                    InStep(j, asm, addr, data, new, known, 0, 0)
  PROVE  IsSeq(VaRun(program)) /\ InStep(j, VaRun(program) \o asm, addr, data, prog, known, -1, 0)
<1> DEFINE instrs == program \o <<EXIT>>
           new == Written(prog, 0, instrs)
           at == 0
<1>1. IsSeq(program) /\ Len(program) = n /\ Code(j, <<EXIT>>, 1) /\ IsSeq(<<EXIT>>)
  BY CodeOne, GoodEnd, OneSeq DEF Code
<1>2. Append(program, EXIT) = instrs
  BY <1>1, Appended
<1>3. Code(j, instrs, n + 1)
  BY <1>1, CodeJoined
<1>4. IsSeq(instrs) /\ Len(instrs) = n + 1 /\ \A i \in 1 .. Len(instrs) : GoodInstr(j, instrs[i])
  <2> HIDE DEF instrs
  <2> QED BY <1>3 DEF Code
<1>5. IsSeq(Section(0, instrs)) /\ IsSeq(Exec)
  <2> HIDE DEF instrs
  <2> QED BY OneSeq DEF Section, Exec
<1>6. Holds(new, 0, program) /\ Holds(new, at + Len(program), <<EXIT>>)
  <2>1. Holds(new, at, instrs)
    <3> HIDE DEF instrs
    <3> QED BY <1>4, HoldsWritten
  <2> HIDE DEF new
  <2> QED BY <1>1, <2>1, HoldsParts
<1>7. n \in DOMAIN new /\ new[n] = EXIT
  <2> HIDE DEF new
  <2>1. 1 \in 1 .. Len(<<EXIT>>) /\ <<EXIT>>[1] = EXIT
    BY OneSeq
  <2>2. (at + Len(program)) + 1 - 1 = n
    BY <1>1
  <2>3. /\ (at + Len(program)) + 1 - 1 \in DOMAIN new
        /\ new[(at + Len(program)) + 1 - 1] = <<EXIT>>[1]
    BY <1>6, <2>1 DEF Holds
  <2> QED BY <2>1, <2>2, <2>3
<1>8. InStep(j, Exec \o asm, addr, data, new, known, -1, 0)
  <2>1. InStep(j, asm, addr, data, new, known, 0, 0)
    BY <1>6, <1>7
  <2> HIDE DEF new
  <2> QED BY <2>1, ExecLine
<1>9. InStep(j, Section(0, instrs) \o (Exec \o asm), addr, data, prog, known, -1, 0)
  <2>1. 0 + Len(instrs) <= j.CRF_ENTRIES
    BY <1>4
  <2> HIDE DEF instrs
  <2> QED BY <1>4, <1>8, <2>1, CrfLine
<1>10. VaRun(program) = Section(0, instrs) \o Exec
  BY <1>2 DEF VaRun
<1> HIDE DEF instrs
<1>11. IsSeq(VaRun(program)) /\ VaRun(program) \o asm = Section(0, instrs) \o (Exec \o asm)
  BY <1>5, <1>10, Joined, Regroup
<1> QED BY <1>9, <1>11

(* The loop names registers that exist and fits beside the rest.           *)
LEMMA VaLoopCode ==
  ASSUME NEW j, Mapped(j), j.kernel \in {"EWARW", "EWACW"}
  PROVE  /\ Code(j, VaLoop(j), Len(VaLoop(j))) /\ Len(VaLoop(j)) \in Nat
         /\ Len(VaLoop(j)) <= 3 * VaSegment(j) + 1
         /\ VaLoops(j) = 0 => VaLoop(j) = <<>> /\ Len(VaLoop(j)) = 0
<1> DEFINE s == VaSegment(j)
           l == VaLoops(j)
<1>1. s \in Nat \ {0} /\ l \in Nat /\ s <= 2 * j.GRF_ENTRIES
  BY VaSizes
<1>2. CASE l = 0
  <2>1. VaLoop(j) = <<>>
    BY <1>2 DEF VaLoop, If
  <2>2. 0 <= 3 * s + 1
    <3> HIDE DEF s
    <3> QED BY <1>1
  <2> QED BY <2>1, <2>2, CodeNone, NoneSeq
<1>3. CASE l # 0
  <2>1. VaLoop(j) = VaProgram(s) \o Jump(3 * s, l)
    BY <1>3 DEF VaLoop, If
  <2>2. Code(j, VaProgram(s), 3 * s)
    BY <1>1, VaProgramCode
  <2>3. PICK m \in {0, 1} : Code(j, Jump(3 * s, l), m)
    BY JumpCode
  <2> HIDE DEF s, l
  <2>4. 3 * s \in Nat /\ m \in Nat
    BY <1>1
  <2>5. Code(j, VaLoop(j), 3 * s + m)
    BY <2>1, <2>2, <2>3, <2>4, CodeJoined
  <2>6. Len(VaLoop(j)) = 3 * s + m
    BY <2>5 DEF Code
  <2> QED BY <1>3, <2>4, <2>5, <2>6 DEF s, l
<1> QED BY <1>2, <1>3

(* The three files of an element-wise addition stay in step. *)
LEMMA VaRuns ==
  ASSUME NEW j, Mapped(j), Handled(j), j.kernel \in {"EWARW", "EWACW"}
  PROVE  InStep(j, VaAssembly(j), VaAddresses(j), VaData(j), <<>>, {}, -1, 0)
<1> DEFINE n == Len(VaParts(j))
           p == VaPeeling(j)
           l == VaLoops(j)
           c == Len(VaLoop(j))
           C == j.CRF_ENTRIES
           last == VaProgram(p)
           known == {}
<1>1. PICK X, Y : /\ VaRests(j, X, Y) /\ X[0] = VaAddresses(j) /\ Y[0] = VaData(j)
                  /\ X[n] = <<>> /\ Y[n] = <<>>
  BY VaFiles
<1>2. VaRests(j, X, Y)
  BY <1>1
<1>3. /\ p \in Nat /\ l \in Nat /\ n = l + (IF p = 0 THEN 0 ELSE 1)
      /\ p <= 2 * j.GRF_ENTRIES /\ C \in Nat /\ 3 * p + 2 <= C
  <2>1. /\ p \in Nat /\ l \in Nat /\ n = l + (IF p = 0 THEN 0 ELSE 1)
        /\ p < VaSegment(j) /\ VaSegment(j) \in Nat /\ VaSegment(j) <= 2 * j.GRF_ENTRIES
        /\ 3 * VaSegment(j) + 2 <= C
    BY VaSizes
  <2>2. C \in Nat /\ j.GRF_ENTRIES \in Nat
    BY RegisterFacts
  <2> HIDE DEF p, l, n, C
  <2> QED BY <2>1, <2>2
<1>4. /\ Code(j, VaLoop(j), c) /\ c \in Nat /\ c + 1 <= C
      /\ l = 0 => VaLoop(j) = <<>> /\ c = 0
      /\ VaRLim(j) => c + 3 * p + 1 <= C
  <2>1. /\ Code(j, VaLoop(j), c) /\ c \in Nat /\ c <= 3 * VaSegment(j) + 1
        /\ l = 0 => VaLoop(j) = <<>> /\ c = 0
    BY VaLoopCode
  <2>2. /\ VaSegment(j) \in Nat /\ 3 * VaSegment(j) + 2 <= C
        /\ VaRLim(j) => 3 * VaSegment(j) + 3 * p + 2 <= C
    BY VaSizes
  <2> HIDE DEF p, l, n, C, c
  <2> QED BY <1>3, <2>1, <2>2
<1>5. Code(j, last, 3 * p)
  BY <1>3, VaProgramCode
<1>6. ASSUME NEW new, l # 0, Holds(new, 0, VaLoop(j)), NEW asm,
             InStep(j, asm, X[l], Y[l], new, known, c, 0)
      PROVE  InStep(j, asm, X[0], Y[0], new, known, 0, 0)
  BY <1>2, <1>6, VaLoopRuns
<1>7. ASSUME NEW new, NEW at \in Nat, Holds(new, at, last), at + 3 * p \in DOMAIN new,
             new[at + 3 * p] = EXIT
      PROVE  InStep(j, <<>>, X[l], Y[l], new, known, at, 0)
  <2>1. InStep(j, <<>>, X[n], Y[n], new, known, -1, 0)
    BY <1>1, TheEnd
  <2> QED BY <1>2, <1>7, <2>1, VaPeeledRuns
<1> HIDE DEF p, l, n, C, c, last, known
<1>8. CASE VaRLim(j)
  <2> DEFINE program == VaLoop(j) \o last
  <2>1. Code(j, program, c + 3 * p) /\ 3 * p \in Nat /\ c + 3 * p \in Nat
    BY <1>3, <1>4, <1>5, CodeJoined
  <2>2. (c + 3 * p) + 1 <= C
    BY <1>3, <1>4, <1>8
  <2>3. ASSUME NEW new, Holds(new, 0, program), c + 3 * p \in DOMAIN new, new[c + 3 * p] = EXIT
        PROVE  InStep(j, <<>>, X[0], Y[0], new, known, 0, 0)
    <3>1. IsSeq(VaLoop(j)) /\ IsSeq(last) /\ 0 + Len(VaLoop(j)) = c
      BY <1>4, <1>5 DEF Code
    <3>2. Holds(new, 0, VaLoop(j)) /\ Holds(new, 0 + Len(VaLoop(j)), last)
      BY <2>3, <3>1, HoldsParts
    <3>3. InStep(j, <<>>, X[l], Y[l], new, known, c, 0)
      BY <1>4, <1>7, <2>3, <3>1, <3>2
    <3>4. CASE l = 0
      BY <1>4, <3>3, <3>4
    <3>5. CASE l # 0
      BY <1>6, <3>2, <3>3, <3>5
    <3> QED BY <3>4, <3>5
  <2>4. VaAssembly(j) = VaRun(program)
    BY <1>8 DEF VaAssembly, VaAssemblyRLim, last, p
  <2> HIDE DEF program
  <2>5. /\ IsSeq(VaRun(program))
        /\ InStep(j, VaRun(program) \o <<>>, X[0], Y[0], <<>>, known, -1, 0)
    BY <2>1, <2>2, <2>3, NoneSeq, RunOf DEF C
  <2> QED BY <1>1, <2>4, <2>5, JoinedNone DEF known
<1>9. CASE ~VaRLim(j)
  <2> DEFINE second == If(p # 0, VaRun(last))
             first == If(l # 0, VaRun(VaLoop(j)))
  <2>1. VaAssembly(j) = first \o second
    BY <1>9 DEF VaAssembly, VaAssemblyCLim, last, p, l
  <2>2. ASSUME NEW prog PROVE IsSeq(second) /\ InStep(j, second, X[l], Y[l], prog, known, -1, 0)
    <3>1. CASE p = 0
      <4>1. second = <<>> /\ n = l
        BY <1>3, <3>1 DEF If
      <4> QED BY <1>1, <4>1, TheEnd, NoneSeq
    <3>2. CASE p # 0
      <4>1. second = VaRun(last)
        BY <3>2 DEF If
      <4>2. ASSUME NEW new, Holds(new, 0, last), 3 * p \in DOMAIN new, new[3 * p] = EXIT
            PROVE  InStep(j, <<>>, X[l], Y[l], new, known, 0, 0)
        <5>1. 0 + 3 * p = 3 * p
          BY <1>3
        <5> QED BY <1>7, <4>2, <5>1
      <4>3. 3 * p \in Nat /\ 3 * p + 1 <= C
        BY <1>3
      <4>4. IsSeq(VaRun(last)) /\ InStep(j, VaRun(last) \o <<>>, X[l], Y[l], prog, known, -1, 0)
        BY <1>5, <4>2, <4>3, NoneSeq, RunOf DEF C
      <4> QED BY <4>1, <4>4, JoinedNone
    <3> QED BY <3>1, <3>2
  <2> HIDE DEF second
  <2>3. InStep(j, first \o second, X[0], Y[0], <<>>, known, -1, 0)
    <3>1. CASE l = 0
      <4>1. first = <<>>
        BY <3>1 DEF If
      <4> QED BY <2>2, <3>1, <4>1, JoinedNone
    <3>2. CASE l # 0
      <4>1. first = VaRun(VaLoop(j))
        BY <3>2 DEF If
      <4>2. ASSUME NEW new, Holds(new, 0, VaLoop(j)), c \in DOMAIN new, new[c] = EXIT
            PROVE  InStep(j, second, X[0], Y[0], new, known, 0, 0)
        <5>1. InStep(j, second, X[l], Y[l], new, known, c, 0)
          BY <1>4, <2>2, <4>2, ExitEntry
        <5> QED BY <1>6, <3>2, <4>2, <5>1
      <4>3. InStep(j, VaRun(VaLoop(j)) \o second, X[0], Y[0], <<>>, known, -1, 0)
        BY <1>4, <2>2, <4>2, RunOf DEF C
      <4> QED BY <4>1, <4>3
    <3> QED BY <3>1, <3>2
  <2> QED BY <1>1, <2>1, <2>3 DEF known
<1> QED BY <1>8, <1>9

(***************************************************************************)
(* Dot products.                                                           *)
(***************************************************************************)

(* The accumulator is a register that exists.                              *)
LEMMA DpAccFacts ==
  ASSUME NEW j, Mapped(j)
  PROVE  DpAcc(j) \in Registers(j) /\ ~IsBank(DpAcc(j))
<1> DEFINE g == j.GRF_ENTRIES
           k == 2 * g - 1
<1>1. g \in Nat \ {0}
  BY RegisterFacts
<1>2. k \in 0 .. 2 * g - 1 /\ k % 2 # 0 /\ k \div 2 = g - 1
  <2> HIDE DEF g
  <2> QED BY <1>1 DEF k
<1>3. Grf(k) = DpAcc(j)
  <2> HIDE DEF k
  <2> QED BY <1>2 DEF Grf, Even, DpAcc
<1>4. Grf(k) \in Registers(j)
  <2> HIDE DEF k
  <2> QED BY <1>2, RegisterFacts
<1>5. ~IsBank(DpAcc(j))
  BY DEF IsBank, DpAcc
<1> QED BY <1>3, <1>4, <1>5

(* The MACs name registers that exist ...                                  *)
LEMMA MacsCode ==
  ASSUME NEW j, Mapped(j), NEW n \in Nat, n <= 2 * j.GRF_ENTRIES, NEW acc \in Registers(j)
  PROVE  Code(j, Macs(n, acc), n)
<1>1. IsSeq(Macs(n, acc)) /\ Len(Macs(n, acc)) = n
  BY FunSeq DEF Macs
<1>2. ASSUME NEW i \in 1 .. n PROVE GoodInstr(j, Macs(n, acc)[i])
  <2>1. Macs(n, acc)[i] = Instr("MAC", acc, <<Grf(i - 1), Bank(i - 1)>>)
    BY DEF Macs
  <2>2. i - 1 \in 0 .. 2 * j.GRF_ENTRIES - 1
    BY RegisterFacts
  <2>3. Grf(i - 1) \in Registers(j)
    BY <2>2, RegisterFacts
  <2> QED BY <2>1, <2>3, Banks, GoodInstr2
<1> QED BY <1>1, <1>2 DEF Code

(* ... and so does the program for n elements.                             *)
LEMMA DpProgramCode ==
  ASSUME NEW j, Mapped(j), NEW n \in Nat, n <= 2 * j.GRF_ENTRIES
  PROVE  Code(j, DpProgram(j, n), 2 * n)
<1>1. Code(j, Loads(n), n) /\ Code(j, Macs(n, DpAcc(j)), n)
  BY LoadsCode, MacsCode, DpAccFacts
<1>2. Code(j, Loads(n) \o Macs(n, DpAcc(j)), n + n)
  BY <1>1, CodeJoined
<1>3. n + n = 2 * n
  OBVIOUS
<1> QED BY <1>2, <1>3 DEF DpProgram

(* The segments of a dot product and the program that fits the CRF;        *)
(* limited by the rows, the peeled program fits behind it.                 *)
LEMMA DpSizes ==
  ASSUME NEW j, Mapped(j), j.kernel = "DP"
  PROVE  /\ DpSegment(j) \in Nat \ {0} /\ DpSegment(j) <= 2 * j.GRF_ENTRIES
         /\ DpLoops(j) \in Nat /\ DpPeeling(j) \in Nat /\ DpPeeling(j) < DpSegment(j)
         /\ DpGroups(j) \in Nat
         /\ 2 * DpSegment(j) + 4 <= j.CRF_ENTRIES
         /\ DpRLim(j) => 2 * DpSegment(j) + 2 * DpPeeling(j) + 4 <= j.CRF_ENTRIES
<1> DEFINE C == j.CRF_ENTRIES
           G == j.GRF_ENTRIES
           S == DpSegment(j)
           N == j.n
<1>1. C \in Nat /\ C >= 6 /\ G \in Nat \ {0} /\ j.V \in Nat \ {0} /\ N \in Nat \ {0}
  BY DEF Mapped, Fewest, Sizes
<1>2. DpGroups(j) \in Nat
  BY <1>1, KernelFilesAssumption, CeilDivNat DEF DpGroups
<1>3. DpRLim(j) => C >= 4 * G + 2 * (N % (2 * G - 1)) + 2
  BY DEF DpRLim
<1>4. S = IF DpRLim(j) THEN 2 * G - 1 ELSE Smaller((C - 4) \div 2, 2 * G)
  BY DEF DpSegment
<1>5. DpLoops(j) = N \div S /\ DpPeeling(j) = N % S
  BY DEF DpLoops, DpPeeling
<1> HIDE DEF C, G, S, N
<1>6. 2 * G \in Nat \ {0} /\ 2 * G - 1 \in Nat \ {0}
  BY <1>1
<1>7. N % (2 * G - 1) \in Nat
  BY <1>1, <1>6, DivMod
<1>8. S \in Nat \ {0} /\ S <= 2 * G /\ 2 * S + 4 <= C
  <2>1. CASE DpRLim(j)
    BY <1>1, <1>3, <1>4, <1>7, <2>1
  <2>2. CASE ~DpRLim(j)
    <3> DEFINE d == (C - 4) \div 2
    <3>1. d \in Nat /\ d >= 1 /\ 2 * d <= C - 4
      BY <1>1
    <3>2. S = Smaller(d, 2 * G)
      BY <1>4, <2>2
    <3> HIDE DEF d
    <3>3. S \in {d, 2 * G} /\ S <= d /\ S <= 2 * G
      BY <1>6, <3>1, <3>2, SmallerFacts
    <3> QED BY <1>1, <1>6, <3>1, <3>3
  <2> QED BY <2>1, <2>2
<1>9. DpLoops(j) \in Nat /\ DpPeeling(j) \in 0 .. S - 1
  BY <1>1, <1>5, <1>8, DivMod, ZenonT(60)
<1>10. DpRLim(j) => 2 * S + 2 * DpPeeling(j) + 4 <= C
  <2> SUFFICES ASSUME DpRLim(j) PROVE 2 * S + 2 * DpPeeling(j) + 4 <= C
    OBVIOUS
  <2>1. S = 2 * G - 1 /\ DpPeeling(j) = N % (2 * G - 1)
    BY <1>4, <1>5
  <2> QED BY <1>1, <1>3, <1>7, <2>1
<1> QED BY <1>2, <1>8, <1>9, <1>10 DEF C, G, S

(* A part of the elements of a group. *)
LEMMA DpPartRuns ==
  ASSUME NEW j, NEW asm, NEW addr, NEW data, NEW prog, NEW left, NEW known,
         NEW n \in Nat, NEW at \in Nat, Holds(prog, at, DpProgram(j, n)), Mapped(j),
         DpAcc(j) \in known,
         NEW start, NEW g, NEW first,
         InStep(j, asm, addr, data, prog, known, at + 2 * n, left)
  PROVE  InStep(j, asm, DpPart(j, start, n) \o addr, DpWords(j, g, first, n) \o data,
                prog, known, at, left)
<1> DEFINE b(array) == DpBase(j, array) + start
           x == [i \in 1 .. 2 |-> Columns(b(i - 1), n)]
           Word(array, k) == Line(LAMBDA lane :
             LET v == g * SIMD_WIDTH + lane
             IN IF v < j.V THEN Element(<< <<"op1", "op2">>[array + 1], v, first + k - 1>>)
                           ELSE Zero)
           y == [i \in 1 .. 2 |-> [k \in 1 .. n |-> Word(i - 1, k)]]
           more == known \cup {Grf(i) : i \in 0 .. n - 1}
           acc == DpAcc(j)
<1>1. DpPart(j, start, n) = FlattenSeq(x)
  BY DEF DpPart, For
<1>2. DpWords(j, g, first, n) = FlattenSeq(y)
  BY DEF DpWords, For
<1>3. Parts(x, 2) /\ x[1] = Columns(b(0), n) /\ x[2] = Columns(b(1), n)
  BY ColumnsFacts DEF Parts, Tuple
<1>4. ASSUME NEW array, NEW k PROVE Len(Word(array, k)) = SIMD_WIDTH
  <2>1. SIMD_WIDTH \in Nat
    BY KernelFilesAssumption
  <2> QED BY <2>1 DEF Line
<1>5. Tuple(y, 2) /\ \A i \in 1 .. 2 : y[i] = [k \in 1 .. n |-> Word(i - 1, k)]
  BY DEF Tuple
<1> HIDE DEF b, x, y, Word
<1>6. ASSUME NEW i \in 1 .. 2 PROVE Lines(y[i], n)
  <2> DEFINE line == [k \in 1 .. n |-> Word(i - 1, k)]
  <2>1. IsSeq(line) /\ Len(line) = n
    BY FunSeq
  <2>2. \A k \in 1 .. n : Len(line[k]) = SIMD_WIDTH
    BY <1>4
  <2> HIDE DEF line
  <2>3. Lines(line, n)
    BY <2>1, <2>2 DEF Lines
  <2> QED BY <1>5, <2>3 DEF line
<1>7. Parts(y, 2)
  BY <1>5, <1>6 DEF Parts, Lines
<1>8. IsSeq(addr) /\ IsSeq(data)
  BY InStepSeqs
<1>9. FlattenSeq(x) \o addr = x[1] \o (x[2] \o addr)
  BY <1>3, <1>8, TwoParts
<1>10. FlattenSeq(y) \o data = y[1] \o (y[2] \o data)
  BY <1>7, <1>8, TwoParts
<1>11. Lines(y[1], n) /\ Lines(y[2], n)
  BY <1>6
<1>12. /\ IsSeq(Loads(n)) /\ Len(Loads(n)) = n /\ IsSeq(Macs(n, acc)) /\ Len(Macs(n, acc)) = n
  BY FunSeq DEF Loads, Macs
<1>13. Holds(prog, at, Loads(n)) /\ Holds(prog, at + n, Macs(n, acc))
  BY <1>12, HoldsParts DEF DpProgram
<1>14. {Grf(i) : i \in 0 .. n - 1} \subseteq more /\ known \subseteq more /\ ~IsBank(acc) /\ acc \in more
  BY DpAccFacts
<1> HIDE DEF more, acc
<1>15. InStep(j, asm, addr, data, prog, more, at + 2 * n, left)
  BY <1>14, MoreKnown
<1>16. (at + n) + n = at + 2 * n /\ at + n \in Nat
  OBVIOUS
<1>17. InStep(j, asm, x[2] \o addr, y[2] \o data, prog, more, at + n, left)
  BY <1>3, <1>11, <1>13, <1>14, <1>15, <1>16, MacsBlock
<1>18. InStep(j, asm, x[1] \o (x[2] \o addr), y[1] \o (y[2] \o data), prog, known, at, left)
  BY <1>3, <1>11, <1>13, <1>17, LoadsBlock DEF more
<1> QED BY <1>1, <1>2, <1>9, <1>10, <1>18

(* The files of a part are sequences, whatever they are read by. *)
LEMMA DpPartSeqs ==
  ASSUME NEW j, NEW start, NEW g, NEW first, NEW n \in Nat
  PROVE  IsSeq(DpPart(j, start, n)) /\ IsSeq(DpWords(j, g, first, n))
<1> DEFINE b(array) == DpBase(j, array) + start
           x == [i \in 1 .. 2 |-> Columns(b(i - 1), n)]
           Word(array, k) == Line(LAMBDA lane :
             LET v == g * SIMD_WIDTH + lane
             IN IF v < j.V THEN Element(<< <<"op1", "op2">>[array + 1], v, first + k - 1>>)
                           ELSE Zero)
           line(i) == [k \in 1 .. n |-> Word(i - 1, k)]
           y == [i \in 1 .. 2 |-> line(i)]
<1>1. DpPart(j, start, n) = FlattenSeq(x)
  BY DEF DpPart, For
<1>2. DpWords(j, g, first, n) = FlattenSeq(y)
  BY DEF DpWords, For
<1>3. Parts(x, 2)
  BY ColumnsFacts DEF Parts, Tuple
<1>4. \A i \in 1 .. 2 : IsSeq(line(i))
  BY FunSeq
<1>5. Parts(y, 2)
  <2> HIDE DEF line
  <2> QED BY <1>4 DEF Parts, Tuple
<1> HIDE DEF x, y
<1> QED BY <1>1, <1>2, <1>3, <1>5, NoneSeq, TwoParts

(* The loop names registers that exist and fits the CRF.                   *)
LEMMA DpLoopCode ==
  ASSUME NEW j, Mapped(j), j.kernel = "DP"
  PROVE  /\ Code(j, DpLoop(j), Len(DpLoop(j))) /\ Len(DpLoop(j)) \in Nat
         /\ Len(DpLoop(j)) <= 2 * DpSegment(j) + 1
<1> DEFINE s == DpSegment(j)
           l == DpLoops(j)
<1>1. s \in Nat \ {0} /\ l \in Nat /\ s <= 2 * j.GRF_ENTRIES
  BY DpSizes
<1>2. CASE l = 0
  <2>1. DpLoop(j) = <<>>
    BY <1>2 DEF DpLoop, If
  <2>2. 0 <= 2 * s + 1
    <3> HIDE DEF s
    <3> QED BY <1>1
  <2> QED BY <2>1, <2>2, CodeNone, NoneSeq
<1>3. CASE l # 0
  <2>1. DpLoop(j) = DpProgram(j, s) \o Jump(2 * s, l)
    BY <1>3 DEF DpLoop, If
  <2>2. Code(j, DpProgram(j, s), 2 * s)
    BY <1>1, DpProgramCode
  <2>3. PICK m \in {0, 1} : Code(j, Jump(2 * s, l), m)
    BY JumpCode
  <2> HIDE DEF s, l
  <2>4. 2 * s \in Nat /\ m \in Nat
    BY <1>1
  <2>5. Code(j, DpLoop(j), 2 * s + m)
    BY <2>1, <2>2, <2>3, <2>4, CodeJoined
  <2>6. Len(DpLoop(j)) = 2 * s + m
    BY <2>5 DEF Code
  <2> QED BY <2>4, <2>5, <2>6 DEF s
<1> QED BY <1>2, <1>3

(* The full segments of a group, in the turns of the loop. *)
LEMMA DpLoopRuns ==
  ASSUME NEW j, Mapped(j), j.kernel = "DP", NEW asm, NEW addr, NEW data, NEW prog, NEW known,
         DpAcc(j) \in known, NEW at \in Nat, Holds(prog, at, DpLoop(j)), NEW start, NEW g,
         InStep(j, asm, addr, data, prog, known, at + Len(DpLoop(j)), 0)
  PROVE  /\ IsSeq(DpFull(j, start)) /\ IsSeq(DpFullWords(j, g))
         /\ InStep(j, asm, DpFull(j, start) \o addr, DpFullWords(j, g) \o data, prog, known, at, 0)
<1> DEFINE s == DpSegment(j)
           l == DpLoops(j)
           b(p) == start + p * CeilDiv(s, 2)
           x == [i \in 1 .. l |-> DpPart(j, b(i - 1), s)]
           y == [i \in 1 .. l |-> DpWords(j, g, (i - 1) * s, s)]
           jump == Jump(2 * s, l)
<1>1. s \in Nat \ {0} /\ l \in Nat /\ s <= 2 * j.GRF_ENTRIES
  BY DpSizes
<1>2. DpFull(j, start) = FlattenSeq(x) /\ DpFullWords(j, g) = FlattenSeq(y)
  BY DEF DpFull, DpFullWords, For
<1>3. \A i \in 1 .. l : /\ x[i] = DpPart(j, b(i - 1), s) /\ y[i] = DpWords(j, g, (i - 1) * s, s)
                        /\ IsSeq(x[i]) /\ IsSeq(y[i])
  BY <1>1, DpPartSeqs
<1>4. Parts(x, l) /\ Parts(y, l)
  BY <1>3 DEF Parts, Tuple
<1>5. DpLoop(j) = If(l # 0, DpProgram(j, s) \o jump)
  BY DEF DpLoop
<1>6. Code(j, DpProgram(j, s), 2 * s)
  BY <1>1, DpProgramCode
<1>7. /\ l = 1 => jump = <<>> /\ Code(j, jump, 0)
      /\ l # 1 => jump = <<JumpInstr(2 * s, l - 1)>> /\ Code(j, jump, 1)
  BY JumpCode
<1> HIDE DEF s, l, b, x, y, jump
<1>8. IsSeq(addr) /\ IsSeq(data)
  BY InStepSeqs
<1>9. PICK X : Rests(X, x, l, addr)
  BY <1>1, <1>4, <1>8, PartsRest
<1>10. PICK Y : Rests(Y, y, l, data)
  BY <1>1, <1>4, <1>8, PartsRest
<1>11. IsSeq(FlattenSeq(x)) /\ IsSeq(FlattenSeq(y))
  BY <1>1, <1>4, <1>8, PartsRest
<1>12. /\ X[0] = FlattenSeq(x) \o addr /\ X[l] = addr /\ Y[0] = FlattenSeq(y) \o data /\ Y[l] = data
  BY <1>9, <1>10 DEF Rests
<1>13. CASE l = 0
  <2>1. DpLoop(j) = <<>> /\ at + 0 = at
    BY <1>5, <1>13 DEF If
  <2>2. InStep(j, asm, addr, data, prog, known, at, 0)
    BY <2>1, NoneSeq
  <2>3. X[0] = addr /\ Y[0] = data
    BY <1>12, <1>13
  <2> QED BY <1>2, <1>11, <1>12, <2>2, <2>3
<1>14. CASE l # 0
  <2>1. IsSeq(jump) /\ Len(jump) = IF l = 1 THEN 0 ELSE 1
    BY <1>7 DEF Code
  <2>2. IsSeq(DpProgram(j, s)) /\ Len(DpProgram(j, s)) = 2 * s
    BY <1>6 DEF Code
  <2>3. DpLoop(j) = DpProgram(j, s) \o jump
    BY <1>5, <1>14 DEF If
  <2>4. Len(DpLoop(j)) = 2 * s + (IF l = 1 THEN 0 ELSE 1)
    BY <2>1, <2>2, <2>3, Joined, ZenonT(60)
  <2>5. Holds(prog, at, DpProgram(j, s)) /\ Holds(prog, at + 2 * s, jump)
    BY <2>1, <2>2, <2>3, HoldsParts
  <2>6. ASSUME l # 1 PROVE at + 2 * s \in DOMAIN prog /\ prog[at + 2 * s] = JumpInstr(2 * s, l - 1)
    <3>1. jump = <<JumpInstr(2 * s, l - 1)>> /\ Len(jump) = 1 /\ 1 \in 1 .. Len(jump)
      BY <1>7, <2>1, <2>6
    <3>2. (at + 2 * s) + 1 - 1 = at + 2 * s
      BY <1>1
    <3>3. (at + 2 * s) + 1 - 1 \in DOMAIN prog /\ prog[(at + 2 * s) + 1 - 1] = jump[1]
      BY <2>5, <3>1 DEF Holds
    <3>4. jump[1] = JumpInstr(2 * s, l - 1)
      BY <3>1
    <3> QED BY <3>2, <3>3, <3>4
  <2>7. ASSUME NEW t \in 0 .. l - 1, NEW left \in Nat,
               InStep(j, asm, X[t + 1], Y[t + 1], prog, known, at + 2 * s, left)
        PROVE  InStep(j, asm, X[t], Y[t], prog, known, at, left)
    <3>1. t + 1 \in 1 .. l /\ (t + 1) - 1 = t
      BY <1>1
    <3>2. x[t + 1] = DpPart(j, b(t), s) /\ y[t + 1] = DpWords(j, g, t * s, s)
      BY <1>3, <3>1
    <3>3. X[t] = DpPart(j, b(t), s) \o X[t + 1] /\ Y[t] = DpWords(j, g, t * s, s) \o Y[t + 1]
      BY <1>9, <1>10, <3>2 DEF Rests
    <3>4. InStep(j, asm, DpPart(j, b(t), s) \o X[t + 1], DpWords(j, g, t * s, s) \o Y[t + 1],
                 prog, known, at, left)
      BY <1>1, <2>5, <2>7, DpPartRuns
    <3> QED BY <3>3, <3>4
  <2>8. InStep(j, asm, X[l], Y[l], prog, known, at + 2 * s + (IF l = 1 THEN 0 ELSE 1), 0)
    <3>1. at + 2 * s + (IF l = 1 THEN 0 ELSE 1) = at + Len(DpLoop(j))
      BY <1>1, <2>4
    <3> QED BY <1>12, <3>1
  <2>9. InStep(j, asm, X[0], Y[0], prog, known, at, 0)
    <3>1. 2 * s \in Nat /\ l \in Nat \ {0}
      BY <1>1, <1>14
    <3> QED BY <2>6, <2>7, <2>8, <3>1, LoopBlock
  <2> QED BY <1>2, <1>11, <1>12, <2>9
<1> QED BY <1>13, <1>14

(***************************************************************************)
(* Lines of the three files that go together.                              *)
(***************************************************************************)
(* Between two EXECs the lines left fit, whatever program is in the CRF    *)
(* that begins with held.                                                  *)
Ready(j, held, asm, addr, data) ==
  \A prog : Holds(prog, 0, held) => InStep(j, asm, addr, data, prog, {}, -1, 0)

(* If that is so behind the lines a, x and y, it is so before them.        *)
Passes(j, held, a, x, y) ==
  /\ IsSeq(a) /\ IsSeq(x) /\ IsSeq(y)
  /\ \A asm, addr, data : Ready(j, held, asm, addr, data) =>
                            Ready(j, held, a \o asm, x \o addr, y \o data)

(* Every CRF holds the empty program.                                      *)
LEMMA HoldsNone == ASSUME NEW prog PROVE Holds(prog, 0, <<>>)
<1>1. Len(<<>>) = 0
  BY NoneSeq
<1> QED BY <1>1 DEF Holds

(* The lines left are sequences.                                           *)
LEMMA ReadySeqs ==
  ASSUME NEW j, NEW held, IsSeq(held), NEW asm, NEW addr, NEW data, Ready(j, held, asm, addr, data)
  PROVE  IsSeq(asm) /\ IsSeq(addr) /\ IsSeq(data)
<1>1. Holds(Written(<<>>, 0, held), 0, held)
  BY HoldsWritten
<1> QED BY <1>1, InStepSeqs DEF Ready

(* No lines at all.                                                        *)
LEMMA PassesNone == ASSUME NEW j, NEW held, IsSeq(held) PROVE Passes(j, held, <<>>, <<>>, <<>>)
<1> SUFFICES ASSUME NEW asm, NEW addr, NEW data, Ready(j, held, asm, addr, data)
             PROVE  Ready(j, held, <<>> \o asm, <<>> \o addr, <<>> \o data)
  BY NoneSeq DEF Passes
<1> QED BY ReadySeqs, JoinedNone

(* Lines that pass, and after them others.                                 *)
LEMMA PassesJoined ==
  ASSUME NEW j, NEW held, IsSeq(held), NEW a, NEW x, NEW y, Passes(j, held, a, x, y),
         NEW b, NEW z, NEW w, Passes(j, held, b, z, w)
  PROVE  Passes(j, held, a \o b, x \o z, y \o w)
<1>1. IsSeq(a) /\ IsSeq(b)
  BY DEF Passes
<1>4. IsSeq(x) /\ IsSeq(z)
  BY DEF Passes
<1>5. IsSeq(y) /\ IsSeq(w)
  BY DEF Passes
<1>2. IsSeq(a \o b) /\ IsSeq(x \o z) /\ IsSeq(y \o w)
  BY <1>1, <1>4, <1>5, Joined
<1>3. ASSUME NEW asm, NEW addr, NEW data, Ready(j, held, asm, addr, data)
      PROVE  Ready(j, held, (a \o b) \o asm, (x \o z) \o addr, (y \o w) \o data)
  <2>1. Ready(j, held, a \o (b \o asm), x \o (z \o addr), y \o (w \o data))
    BY <1>3 DEF Passes
  <2>2. IsSeq(asm) /\ IsSeq(addr) /\ IsSeq(data)
    BY <1>3, ReadySeqs
  <2>3. (a \o b) \o asm = a \o (b \o asm)
    <3> SUFFICES IsSeq(asm)
      BY <1>1, Regroup
    <3> QED BY <2>2
  <2>4. (x \o z) \o addr = x \o (z \o addr)
    <3> SUFFICES IsSeq(addr)
      BY <1>4, Regroup, SMTT(30)
    <3> QED BY <2>2
  <2>5. (y \o w) \o data = y \o (w \o data)
    <3> SUFFICES IsSeq(data)
      BY <1>5, Regroup
    <3> QED BY <2>2
  <2> QED BY <2>1, <2>3, <2>4, <2>5
<1> QED BY <1>2, <1>3 DEF Passes

(* Any number of parts of the files, each of which passes.                 *)
LEMMA PassesParts ==
  ASSUME NEW j, NEW held, IsSeq(held), NEW n \in Nat,
         NEW a, NEW x, NEW y, Tuple(a, n), Tuple(x, n), Tuple(y, n),
         \A t \in 1 .. n : Passes(j, held, a[t], x[t], y[t])
  PROVE  Passes(j, held, FlattenSeq(a), FlattenSeq(x), FlattenSeq(y))
<1>1. Parts(a, n) /\ Parts(x, n) /\ Parts(y, n)
  BY DEF Passes, Parts
<1>2. IsSeq(FlattenSeq(a)) /\ IsSeq(FlattenSeq(x)) /\ IsSeq(FlattenSeq(y))
  BY <1>1, PartsRest, NoneSeq
<1>3. ASSUME NEW asm, NEW addr, NEW data, Ready(j, held, asm, addr, data)
      PROVE  Ready(j, held, FlattenSeq(a) \o asm, FlattenSeq(x) \o addr, FlattenSeq(y) \o data)
  <2>1. IsSeq(asm) /\ IsSeq(addr) /\ IsSeq(data)
    BY <1>3, ReadySeqs
  <2>2. PICK A : Rests(A, a, n, asm)
    BY <1>1, <2>1, PartsRest
  <2>3. PICK X : Rests(X, x, n, addr)
    BY <1>1, <2>1, PartsRest
  <2>4. PICK Y : Rests(Y, y, n, data)
    BY <1>1, <2>1, PartsRest
  <2> DEFINE N == {t \in 0 .. n : Ready(j, held, A[t], X[t], Y[t])}
  <2>5. n \in N
    BY <1>3, <2>2, <2>3, <2>4 DEF Rests
  <2>6. ASSUME NEW t \in 0 .. n - 1, t + 1 \in N PROVE t \in N
    <3>1. t + 1 \in 1 .. n /\ t \in 0 .. n
      OBVIOUS
    <3>2. Ready(j, held, a[t + 1] \o A[t + 1], x[t + 1] \o X[t + 1], y[t + 1] \o Y[t + 1])
      BY <2>6, <3>1 DEF Passes
    <3>3. /\ A[t] = a[t + 1] \o A[t + 1] /\ X[t] = x[t + 1] \o X[t + 1]
          /\ Y[t] = y[t + 1] \o Y[t + 1]
      BY <2>2, <2>3, <2>4 DEF Rests
    <3> QED BY <3>1, <3>2, <3>3
  <2>7. 0 \in N
    <3> HIDE DEF N
    <3> QED BY <2>5, <2>6, Backwards
  <2> QED BY <2>2, <2>3, <2>4, <2>7 DEF Rests
<1> QED BY <1>2, <1>3 DEF Passes

(* The program is written before the lines that need it. *)
LEMMA SectionPasses ==
  ASSUME NEW j, NEW n \in Nat, NEW held, Code(j, held, n), n <= j.CRF_ENTRIES,
         NEW a, NEW x, NEW y, Passes(j, held, a, x, y)
  PROVE  Passes(j, <<>>, Section(0, held) \o a, x, y)
<1>1. IsSeq(held) /\ Len(held) = n /\ \A i \in 1 .. n : GoodInstr(j, held[i])
  BY DEF Code
<1>2. IsSeq(a) /\ IsSeq(x) /\ IsSeq(y) /\ IsSeq(Section(0, held))
  BY OneSeq DEF Passes, Section
<1>3. ASSUME NEW asm, NEW addr, NEW data, Ready(j, <<>>, asm, addr, data), NEW prog
      PROVE  InStep(j, (Section(0, held) \o a) \o asm, x \o addr, y \o data, prog, {}, -1, 0)
  <2>1. Ready(j, held, asm, addr, data)
    BY <1>3, HoldsNone DEF Ready
  <2>2. Ready(j, held, a \o asm, x \o addr, y \o data)
    BY <2>1 DEF Passes
  <2>3. InStep(j, a \o asm, x \o addr, y \o data, Written(prog, 0, held), {}, -1, 0)
    BY <1>1, <2>2, HoldsWritten DEF Ready
  <2>4. InStep(j, Section(0, held) \o (a \o asm), x \o addr, y \o data, prog, {}, -1, 0)
    BY <1>1, <2>3, CrfLine
  <2>5. IsSeq(asm)
    BY <1>3, ReadySeqs, NoneSeq
  <2>6. (Section(0, held) \o a) \o asm = Section(0, held) \o (a \o asm)
    BY <1>2, <2>5, Regroup, SMTT(30)
  <2> QED BY <2>4, <2>6
<1>4. ASSUME NEW asm, NEW addr, NEW data, Ready(j, <<>>, asm, addr, data)
      PROVE  Ready(j, <<>>, (Section(0, held) \o a) \o asm, x \o addr, y \o data)
  BY <1>3, <1>4 DEF Ready
<1> QED BY <1>2, <1>4, Joined DEF Passes

(* What an EXEC takes, with the registers written that known names.        *)
Walks(j, held, x, y, known) ==
  \A prog, asm, addr, data :
    (Holds(prog, 0, held) /\ InStep(j, asm, addr, data, prog, {}, -1, 0)) =>
      InStep(j, asm, x \o addr, y \o data, prog, known, 0, 0)

(* An EXEC with the lines its walk takes.                                  *)
LEMMA ExecPasses ==
  ASSUME NEW j, NEW held, IsSeq(held), NEW x, NEW y, IsSeq(x), IsSeq(y), Walks(j, held, x, y, {})
  PROVE  Passes(j, held, Exec, x, y)
<1>1. IsSeq(Exec)
  BY OneSeq DEF Exec
<1>2. ASSUME NEW asm, NEW addr, NEW data, Ready(j, held, asm, addr, data),
             NEW prog, Holds(prog, 0, held)
      PROVE  InStep(j, Exec \o asm, x \o addr, y \o data, prog, {}, -1, 0)
  <2>1. InStep(j, asm, x \o addr, y \o data, prog, {}, 0, 0)
    BY <1>2 DEF Ready, Walks
  <2> QED BY <2>1, ExecLine
<1>3. ASSUME NEW asm, NEW addr, NEW data, Ready(j, held, asm, addr, data)
      PROVE  Ready(j, held, Exec \o asm, x \o addr, y \o data)
  BY <1>2, <1>3 DEF Ready
<1> QED BY <1>1, <1>3 DEF Passes

(* All lines together. *)
LEMMA AllPass ==
  ASSUME NEW j, NEW a, NEW x, NEW y, Passes(j, <<>>, a, x, y)
  PROVE  InStep(j, a, x, y, <<>>, {}, -1, 0)
<1>1. Ready(j, <<>>, <<>>, <<>>, <<>>)
  BY TheEnd DEF Ready
<1>2. Ready(j, <<>>, a \o <<>>, x \o <<>>, y \o <<>>)
  BY <1>1 DEF Passes
<1>3. a \o <<>> = a /\ x \o <<>> = x /\ y \o <<>> = y
  BY JoinedNone DEF Passes
<1>4. Ready(j, <<>>, a, x, y)
  BY <1>2, <1>3
<1> QED BY <1>4, HoldsNone DEF Ready

(* A sequence of two elements.                                             *)
LEMMA TwoSeq ==
  ASSUME NEW a, NEW b
  PROVE  IsSeq(<<a, b>>) /\ Len(<<a, b>>) = 2 /\ <<a, b>>[1] = a /\ <<a, b>>[2] = b
<1>1. <<a, b>> \in Seq({a, b})
  OBVIOUS
<1> QED BY <1>1, InSeq

(* The program of a group: the sum so far around the products.             *)
DpWhole(j, program) == <<Mov(DpAcc(j), Odd)>> \o program \o <<Mov(Odd, DpAcc(j)), EXIT>>

(* The program of a group has three instructions more: load, store, EXIT.  *)
LEMMA DpWholeCode ==
  ASSUME NEW j, Mapped(j), NEW program, NEW n \in Nat, Code(j, program, n)
  PROVE  Code(j, DpWhole(j, program), n + 3)
<1> DEFINE first == <<Mov(DpAcc(j), Odd)>>
           end == <<Mov(Odd, DpAcc(j)), EXIT>>
<1>1. GoodInstr(j, Mov(DpAcc(j), Odd)) /\ GoodInstr(j, Mov(Odd, DpAcc(j))) /\ GoodInstr(j, EXIT)
  BY DpAccFacts, Banks, GoodMov, GoodEnd DEF Odd
<1>2. Code(j, first, 1)
  BY <1>1, CodeOne
<1>3. Code(j, end, 2)
  <2>1. ASSUME NEW i \in 1 .. 2 PROVE GoodInstr(j, end[i])
    <3>1. i = 1 \/ i = 2
      OBVIOUS
    <3> QED BY <1>1, <3>1, TwoSeq
  <2> QED BY <2>1, TwoSeq DEF Code
<1> HIDE DEF first, end
<1>4. Code(j, first \o program, 1 + n)
  BY <1>2, CodeJoined
<1>5. Code(j, (first \o program) \o end, (1 + n) + 2)
  BY <1>3, <1>4, CodeJoined
<1>6. (1 + n) + 2 = n + 3
  OBVIOUS
<1> QED BY <1>5, <1>6 DEF DpWhole, first, end

(* One group: the program between loads the columns and lines between.     *)
LEMMA DpWalks ==
  ASSUME NEW j, Mapped(j), NEW program, NEW n \in Nat, Code(j, program, n),
         NEW c1, c1[1] = Odd[1], NEW c2, c2[1] = Odd[1], NEW line, Len(line) = SIMD_WIDTH,
         NEW mid, IsSeq(mid), NEW words, IsSeq(words),
         \A prog, asm, addr, data :
           (Holds(prog, 1, program) /\ InStep(j, asm, addr, data, prog, {DpAcc(j)}, 1 + n, 0)) =>
             InStep(j, asm, mid \o addr, words \o data, prog, {DpAcc(j)}, 1, 0)
  PROVE  /\ IsSeq((<<c1>> \o mid) \o <<c2>>) /\ IsSeq(<<line>> \o words)
         /\ Walks(j, DpWhole(j, program), (<<c1>> \o mid) \o <<c2>>, <<line>> \o words, {})
<1> DEFINE acc == DpAcc(j)
           first == <<Mov(acc, Odd)>>
           end == <<Mov(Odd, acc), EXIT>>
<1>1. ~IsBank(acc) /\ IsBank(Odd)
  BY DpAccFacts, Banks DEF Odd
<1>2. /\ IsSeq(first) /\ Len(first) = 1 /\ first[1] = Mov(acc, Odd)
      /\ IsSeq(end) /\ Len(end) = 2 /\ end[1] = Mov(Odd, acc) /\ end[2] = EXIT
  BY OneSeq, TwoSeq
<1>3. DpWhole(j, program) = (first \o program) \o end
  BY DEF DpWhole
<1>4. IsSeq(program) /\ Len(program) = n
  BY DEF Code
<1>5. IsSeq(<<c1>>) /\ IsSeq(<<c2>>) /\ IsSeq(<<line>>)
  BY OneSeq
<1> HIDE DEF acc, first, end
<1>6. IsSeq(<<c1>> \o mid)
  BY <1>5, Joined
<1>7. IsSeq((<<c1>> \o mid) \o <<c2>>)
  BY <1>5, <1>6, Joined
<1>8. IsSeq(<<line>> \o words)
  BY <1>5, Joined
<1>9. ASSUME NEW prog, Holds(prog, 0, DpWhole(j, program)), NEW asm, NEW addr, NEW data,
             InStep(j, asm, addr, data, prog, {}, -1, 0)
      PROVE  InStep(j, asm, ((<<c1>> \o mid) \o <<c2>>) \o addr, (<<line>> \o words) \o data,
                    prog, {}, 0, 0)
  <2>1. IsSeq(first \o program) /\ Len(first \o program) = 1 + n
    BY <1>2, <1>4, Joined
  <2>2. Holds(prog, 0, first \o program) /\ Holds(prog, 0 + (1 + n), end)
    BY <1>2, <1>3, <1>9, <2>1, HoldsParts
  <2>3. Holds(prog, 0, first) /\ Holds(prog, 0 + 1, program)
    BY <1>2, <1>4, <2>2, HoldsParts
  <2>4. 0 \in DOMAIN prog /\ prog[0] = Mov(acc, Odd)
    <3>1. 1 \in 1 .. Len(first) /\ 0 + 1 - 1 = 0
      BY <1>2
    <3>2. 0 + 1 - 1 \in DOMAIN prog /\ prog[0 + 1 - 1] = first[1]
      BY <2>3, <3>1 DEF Holds
    <3> QED BY <1>2, <3>1, <3>2
  <2>5. 1 + n \in DOMAIN prog /\ prog[1 + n] = Mov(Odd, acc)
    <3>1. 1 \in 1 .. Len(end) /\ 0 + (1 + n) + 1 - 1 = 1 + n
      BY <1>2
    <3>2. 0 + (1 + n) + 1 - 1 \in DOMAIN prog /\ prog[0 + (1 + n) + 1 - 1] = end[1]
      BY <2>2, <3>1 DEF Holds
    <3> QED BY <1>2, <3>1, <3>2
  <2>6. (1 + n) + 1 \in DOMAIN prog /\ prog[(1 + n) + 1] = EXIT
    <3>1. 2 \in 1 .. Len(end) /\ 0 + (1 + n) + 2 - 1 = (1 + n) + 1
      BY <1>2
    <3>2. 0 + (1 + n) + 2 - 1 \in DOMAIN prog /\ prog[0 + (1 + n) + 2 - 1] = end[2]
      BY <2>2, <3>1 DEF Holds
    <3> QED BY <1>2, <3>1, <3>2
  <2>7. InStep(j, asm, addr, data, prog, {acc}, -1, 0)
    BY <1>9, MoreKnown
  <2>8. InStep(j, asm, addr, data, prog, {acc}, (1 + n) + 1, 0)
    BY <2>6, <2>7, ExitEntry
  <2>9. StoresTo(Mov(Odd, acc), c2, {acc})
    BY <1>1, MovStores
  <2>10. InStep(j, asm, <<c2>> \o addr, data, prog, {acc}, 1 + n, 0)
    BY <2>5, <2>8, <2>9, StoreEntry
  <2>11. InStep(j, asm, mid \o (<<c2>> \o addr), words \o data, prog, {acc}, 1, 0)
    <3>1. Holds(prog, 1, program)
      BY <2>3
    <3> QED BY <2>10, <3>1 DEF acc
  <2>12. LoadsFrom(Mov(acc, Odd), c1, {}) /\ Mov(acc, Odd).dst = acc
    BY <1>1, MovLoads
  <2>13. InStep(j, asm, <<c1>> \o (mid \o (<<c2>> \o addr)), <<line>> \o (words \o data), prog,
                {}, 0, 0)
    <3>1. {} \cup {prog[0].dst} = {acc} /\ 0 + 1 = 1
      BY <2>4, <2>12
    <3>2. InStep(j, asm, mid \o (<<c2>> \o addr), words \o data, prog, {} \cup {prog[0].dst},
                 0 + 1, 0)
      BY <2>11, <3>1
    <3>3. LoadsFrom(prog[0], c1, {})
      BY <2>4, <2>12
    <3> QED BY <2>4, <3>2, <3>3, LoadEntry
  <2>14. IsSeq(addr) /\ IsSeq(data)
    BY <1>9, InStepSeqs
  <2>15. (<<line>> \o words) \o data = <<line>> \o (words \o data)
    BY <1>5, <2>14, Regroup, SMTT(30)
  <2>16. IsSeq(<<c2>> \o addr)
    BY <1>5, <2>14, Joined
  <2>17. ((<<c1>> \o mid) \o <<c2>>) \o addr = (<<c1>> \o mid) \o (<<c2>> \o addr)
    <3> SUFFICES IsSeq(<<c1>> \o mid) /\ IsSeq(<<c2>>) /\ IsSeq(addr)
      BY Regroup
    <3> QED BY <1>5, <1>6, <2>14
  <2>18. (<<c1>> \o mid) \o (<<c2>> \o addr) = <<c1>> \o (mid \o (<<c2>> \o addr))
    <3> SUFFICES IsSeq(<<c1>>) /\ IsSeq(mid) /\ IsSeq(<<c2>> \o addr)
      BY Regroup
    <3> QED BY <1>5, <2>16
  <2> QED BY <2>13, <2>15, <2>17, <2>18
<1> QED BY <1>7, <1>8, <1>9 DEF Walks

(* A pass over all groups. *)
LEMMA DpPass ==
  ASSUME NEW j, Mapped(j), j.kernel = "DP", NEW program, NEW n \in Nat, Code(j, program, n),
         n + 3 <= j.CRF_ENTRIES, NEW x, NEW y, Tuple(x, DpGroups(j)), Tuple(y, DpGroups(j)),
         \A t \in 1 .. DpGroups(j) : /\ IsSeq(x[t]) /\ IsSeq(y[t])
                                     /\ Walks(j, DpWhole(j, program), x[t], y[t], {})
  PROVE  Passes(j, <<>>, DpRun(j, program), FlattenSeq(x), FlattenSeq(y))
<1> DEFINE whole == DpWhole(j, program)
           a == [i \in 1 .. DpGroups(j) |-> Exec]
<1>1. Code(j, whole, n + 3)
  BY DpWholeCode
<1>2. DpGroups(j) \in Nat
  BY DpSizes
<1>3. DpRun(j, program) = Section(0, whole) \o FlattenSeq(a)
  BY DEF DpRun, DpWhole, For
<1>4. Tuple(a, DpGroups(j)) /\ \A t \in 1 .. DpGroups(j) : a[t] = Exec
  BY DEF Tuple
<1> HIDE DEF whole, a
<1>5. IsSeq(whole)
  BY <1>1 DEF Code
<1>6. ASSUME NEW t \in 1 .. DpGroups(j) PROVE Passes(j, whole, a[t], x[t], y[t])
  <2>1. Passes(j, whole, Exec, x[t], y[t])
    BY <1>5, ExecPasses DEF whole
  <2> QED BY <1>4, <2>1
<1>7. Passes(j, whole, FlattenSeq(a), FlattenSeq(x), FlattenSeq(y))
  BY <1>2, <1>4, <1>5, <1>6, PassesParts
<1>8. n + 3 \in Nat
  OBVIOUS
<1> QED BY <1>1, <1>3, <1>7, <1>8, SectionPasses

(* The lines of a group are sequences.                                     *)
LEMMA DpFullSeqs ==
  ASSUME NEW j, Mapped(j), j.kernel = "DP", NEW start, NEW g
  PROVE  IsSeq(DpFull(j, start)) /\ IsSeq(DpFullWords(j, g)) /\ IsSeq(DpPeeledWords(j, g))
<1> DEFINE s == DpSegment(j)
           l == DpLoops(j)
           b(p) == start + p * CeilDiv(s, 2)
           x == [i \in 1 .. l |-> DpPart(j, b(i - 1), s)]
           y == [i \in 1 .. l |-> DpWords(j, g, (i - 1) * s, s)]
<1>1. s \in Nat \ {0} /\ l \in Nat /\ DpPeeling(j) \in Nat
  BY DpSizes
<1>2. DpFull(j, start) = FlattenSeq(x) /\ DpFullWords(j, g) = FlattenSeq(y)
  BY DEF DpFull, DpFullWords, For
<1>3. \A i \in 1 .. l : IsSeq(x[i]) /\ IsSeq(y[i])
  BY <1>1, DpPartSeqs
<1>4. Parts(x, l) /\ Parts(y, l)
  BY <1>3 DEF Parts, Tuple
<1>5. IsSeq(DpPeeledWords(j, g))
  BY <1>1, DpPartSeqs DEF DpPeeledWords
<1> HIDE DEF x, y
<1> QED BY <1>1, <1>2, <1>4, <1>5, NoneSeq, PartsRest

(* A group with its full segments, ...                                     *)
LEMMA DpWalkFull ==
  ASSUME NEW j, Mapped(j), j.kernel = "DP", NEW start, NEW g,
         NEW c1, c1[1] = Odd[1], NEW c2, c2[1] = Odd[1], NEW line, Len(line) = SIMD_WIDTH
  PROVE  /\ IsSeq((<<c1>> \o DpFull(j, start)) \o <<c2>>) /\ IsSeq(<<line>> \o DpFullWords(j, g))
         /\ Walks(j, DpWhole(j, DpLoop(j)),
                  (<<c1>> \o DpFull(j, start)) \o <<c2>>, <<line>> \o DpFullWords(j, g), {})
<1> DEFINE mid == DpFull(j, start)
           words == DpFullWords(j, g)
           c == Len(DpLoop(j))
<1>1. Code(j, DpLoop(j), c) /\ c \in Nat
  BY DpLoopCode
<1>2. IsSeq(mid) /\ IsSeq(words)
  BY DpFullSeqs
<1>3. ASSUME NEW prog, NEW asm, NEW addr, NEW data, Holds(prog, 1, DpLoop(j)),
             InStep(j, asm, addr, data, prog, {DpAcc(j)}, 1 + c, 0)
      PROVE  InStep(j, asm, mid \o addr, words \o data, prog, {DpAcc(j)}, 1, 0)
  BY <1>3, DpLoopRuns
<1> HIDE DEF mid, words, c
<1>4. /\ IsSeq((<<c1>> \o mid) \o <<c2>>) /\ IsSeq(<<line>> \o words)
      /\ Walks(j, DpWhole(j, DpLoop(j)), (<<c1>> \o mid) \o <<c2>>, <<line>> \o words, {})
  BY <1>1, <1>2, <1>3, DpWalks
<1> QED BY <1>4 DEF mid, words

(* ... with the elements that are left, ...                                *)
LEMMA DpWalkPeeled ==
  ASSUME NEW j, Mapped(j), j.kernel = "DP", NEW start, NEW g,
         NEW c1, c1[1] = Odd[1], NEW c2, c2[1] = Odd[1], NEW line, Len(line) = SIMD_WIDTH
  PROVE  /\ IsSeq((<<c1>> \o DpPart(j, start, DpPeeling(j))) \o <<c2>>)
         /\ IsSeq(<<line>> \o DpPeeledWords(j, g))
         /\ Walks(j, DpWhole(j, DpProgram(j, DpPeeling(j))),
                  (<<c1>> \o DpPart(j, start, DpPeeling(j))) \o <<c2>>,
                  <<line>> \o DpPeeledWords(j, g), {})
<1> DEFINE p == DpPeeling(j)
           mid == DpPart(j, start, p)
           words == DpPeeledWords(j, g)
<1>1. p \in Nat /\ p <= 2 * j.GRF_ENTRIES
  <2>1. p \in Nat /\ p < DpSegment(j) /\ DpSegment(j) \in Nat /\ DpSegment(j) <= 2 * j.GRF_ENTRIES
    BY DpSizes
  <2>2. j.GRF_ENTRIES \in Nat
    BY RegisterFacts
  <2> HIDE DEF p
  <2> QED BY <2>1, <2>2
<1>2. Code(j, DpProgram(j, p), 2 * p) /\ 2 * p \in Nat
  BY <1>1, DpProgramCode
<1>3. IsSeq(mid) /\ IsSeq(words)
  BY <1>1, DpFullSeqs, DpPartSeqs
<1>4. ASSUME NEW prog, NEW asm, NEW addr, NEW data, Holds(prog, 1, DpProgram(j, p)),
             InStep(j, asm, addr, data, prog, {DpAcc(j)}, 1 + 2 * p, 0)
      PROVE  InStep(j, asm, mid \o addr, words \o data, prog, {DpAcc(j)}, 1, 0)
  BY <1>1, <1>4, DpPartRuns DEF DpPeeledWords
<1> HIDE DEF mid, words, p
<1>5. /\ IsSeq((<<c1>> \o mid) \o <<c2>>) /\ IsSeq(<<line>> \o words)
      /\ Walks(j, DpWhole(j, DpProgram(j, p)), (<<c1>> \o mid) \o <<c2>>, <<line>> \o words, {})
  BY <1>2, <1>3, <1>4, DpWalks
<1> QED BY <1>5 DEF mid, words, p

(* ... or with both. *)
LEMMA DpWalkBoth ==
  ASSUME NEW j, Mapped(j), j.kernel = "DP", NEW start, NEW next, NEW g,
         NEW c1, c1[1] = Odd[1], NEW c2, c2[1] = Odd[1], NEW line, Len(line) = SIMD_WIDTH
  PROVE  /\ IsSeq(((<<c1>> \o DpFull(j, start)) \o DpPart(j, next, DpPeeling(j))) \o <<c2>>)
         /\ IsSeq((<<line>> \o DpFullWords(j, g)) \o DpPeeledWords(j, g))
         /\ Walks(j, DpWhole(j, DpLoop(j) \o DpProgram(j, DpPeeling(j))),
                  ((<<c1>> \o DpFull(j, start)) \o DpPart(j, next, DpPeeling(j))) \o <<c2>>,
                  (<<line>> \o DpFullWords(j, g)) \o DpPeeledWords(j, g), {})
<1> DEFINE p == DpPeeling(j)
           full == DpFull(j, start)
           part == DpPart(j, next, p)
           wordsF == DpFullWords(j, g)
           wordsP == DpPeeledWords(j, g)
           loop == DpLoop(j)
           last == DpProgram(j, p)
           c == Len(loop)
           acc == DpAcc(j)
<1>1. p \in Nat /\ p <= 2 * j.GRF_ENTRIES
  <2>1. p \in Nat /\ p < DpSegment(j) /\ DpSegment(j) \in Nat /\ DpSegment(j) <= 2 * j.GRF_ENTRIES
    BY DpSizes
  <2>2. j.GRF_ENTRIES \in Nat
    BY RegisterFacts
  <2> HIDE DEF p
  <2> QED BY <2>1, <2>2
<1>2. Code(j, last, 2 * p) /\ 2 * p \in Nat
  BY <1>1, DpProgramCode
<1>3. Code(j, loop, c) /\ c \in Nat
  BY DpLoopCode
<1>4. IsSeq(full) /\ IsSeq(part) /\ IsSeq(wordsF) /\ IsSeq(wordsP)
  BY <1>1, DpFullSeqs, DpPartSeqs
<1>5. ASSUME NEW prog, NEW asm, NEW addr, NEW data, Holds(prog, 1, loop),
             InStep(j, asm, addr, data, prog, {acc}, 1 + c, 0)
      PROVE  InStep(j, asm, full \o addr, wordsF \o data, prog, {acc}, 1, 0)
  BY <1>5, DpLoopRuns
<1>6. ASSUME NEW prog, NEW asm, NEW addr, NEW data, Holds(prog, 1 + c, last),
             InStep(j, asm, addr, data, prog, {acc}, (1 + c) + 2 * p, 0)
      PROVE  InStep(j, asm, part \o addr, wordsP \o data, prog, {acc}, 1 + c, 0)
  <2>1. 1 + c \in Nat
    <3> HIDE DEF c
    <3> QED BY <1>3
  <2> QED BY <1>1, <1>6, <2>1, DpPartRuns DEF DpPeeledWords
<1> HIDE DEF p, full, part, wordsF, wordsP, loop, last, c
<1>7. Code(j, loop \o last, c + 2 * p) /\ c + 2 * p \in Nat
  BY <1>2, <1>3, CodeJoined
<1>8. IsSeq(full \o part) /\ IsSeq(wordsF \o wordsP)
  BY <1>4, Joined
<1>9. ASSUME NEW prog, NEW asm, NEW addr, NEW data, Holds(prog, 1, loop \o last),
             InStep(j, asm, addr, data, prog, {acc}, 1 + (c + 2 * p), 0)
      PROVE  InStep(j, asm, (full \o part) \o addr, (wordsF \o wordsP) \o data, prog, {acc}, 1, 0)
  <2>1. Holds(prog, 1, loop) /\ Holds(prog, 1 + c, last)
    <3>1. IsSeq(loop) /\ IsSeq(last) /\ Len(loop) = c
      BY <1>2, <1>3 DEF Code
    <3> QED BY <1>9, <3>1, HoldsParts
  <2>2. 1 + (c + 2 * p) = (1 + c) + 2 * p
    BY <1>2, <1>3
  <2>3. InStep(j, asm, part \o addr, wordsP \o data, prog, {acc}, 1 + c, 0)
    BY <1>6, <1>9, <2>1, <2>2
  <2>4. InStep(j, asm, full \o (part \o addr), wordsF \o (wordsP \o data), prog, {acc}, 1, 0)
    BY <1>5, <2>1, <2>3
  <2>5. IsSeq(addr) /\ IsSeq(data)
    BY <1>9, InStepSeqs
  <2>6. (full \o part) \o addr = full \o (part \o addr)
    <3> SUFFICES IsSeq(full) /\ IsSeq(part) /\ IsSeq(addr)
      BY Regroup
    <3> QED BY <1>4, <2>5
  <2>7. (wordsF \o wordsP) \o data = wordsF \o (wordsP \o data)
    <3> SUFFICES IsSeq(wordsF) /\ IsSeq(wordsP) /\ IsSeq(data)
      BY Regroup, SMTT(30)
    <3> QED BY <1>4, <2>5
  <2> QED BY <2>4, <2>6, <2>7
<1> DEFINE mid == full \o part
           words == wordsF \o wordsP
<1>10. ASSUME NEW prog, NEW asm, NEW addr, NEW data, Holds(prog, 1, loop \o last),
             InStep(j, asm, addr, data, prog, {acc}, 1 + (c + 2 * p), 0)
       PROVE  InStep(j, asm, mid \o addr, words \o data, prog, {acc}, 1, 0)
  BY <1>9, <1>10
<1>11. IsSeq(mid) /\ IsSeq(words)
  BY <1>8
<1>12. IsSeq(<<c1>>) /\ IsSeq(<<line>>)
  BY OneSeq
<1>13. (<<c1>> \o full) \o part = <<c1>> \o mid
  BY <1>4, <1>12, Regroup
<1>14. (<<line>> \o wordsF) \o wordsP = <<line>> \o words
  BY <1>4, <1>12, Regroup
<1> HIDE DEF mid, words
<1>15. /\ IsSeq((<<c1>> \o mid) \o <<c2>>) /\ IsSeq(<<line>> \o words)
       /\ Walks(j, DpWhole(j, loop \o last), (<<c1>> \o mid) \o <<c2>>, <<line>> \o words, {})
  BY <1>7, <1>10, <1>11, DpWalks
<1>16. /\ IsSeq(((<<c1>> \o full) \o part) \o <<c2>>) /\ IsSeq((<<line>> \o wordsF) \o wordsP)
       /\ Walks(j, DpWhole(j, loop \o last), ((<<c1>> \o full) \o part) \o <<c2>>,
                (<<line>> \o wordsF) \o wordsP, {})
  BY <1>13, <1>14, <1>15
<1> QED BY <1>16 DEF full, part, wordsF, wordsP, loop, last, p

(* The first lines of a group, and its result. *)
LEMMA DpLines ==
  ASSUME NEW j, NEW g
  PROVE  /\ \E c : DpZeros(j) = <<c>> /\ c[1] = Odd[1]
         /\ \E c : DpResult(j, g) = <<c>> /\ c[1] = Odd[1]
         /\ \E line : DpPartial(j, g) = <<line>> /\ Len(line) = SIMD_WIDTH
         /\ Len(ZeroLine) = SIMD_WIDTH
<1>1. SIMD_WIDTH \in Nat
  BY KernelFilesAssumption
<1>2. ASSUME NEW number PROVE Column(Odd, number)[1] = Odd[1]
  BY DEF Column
<1>3. \E c : DpZeros(j) = <<c>> /\ c[1] = Odd[1]
  BY <1>2 DEF DpZeros
<1>4. \E c : DpResult(j, g) = <<c>> /\ c[1] = Odd[1]
  BY <1>2 DEF DpResult
<1>5. \E line : DpPartial(j, g) = <<line>> /\ Len(line) = SIMD_WIDTH
  <2> DEFINE value(lane) ==
               LET v == g * SIMD_WIDTH + lane
               IN IF DpLoops(j) # 0 /\ v < j.V
                  THEN partDotProduct(v, j.n - DpPeeling(j)) ELSE Zero
             line == Line(value)
  <2>1. DpPartial(j, g) = <<line>>
    BY DEF DpPartial
  <2>2. Len(line) = SIMD_WIDTH
    <3> HIDE DEF value
    <3> QED BY <1>1 DEF Line
  <2> HIDE DEF line
  <2> QED BY <2>1, <2>2
<1>6. Len(ZeroLine) = SIMD_WIDTH
  BY <1>1 DEF ZeroLine, Line
<1> QED BY <1>3, <1>4, <1>5, <1>6

(* The C-limited passes. *)
LEMMA DpPassFull ==
  ASSUME NEW j, Mapped(j), j.kernel = "DP", NEW x, NEW y, Tuple(x, DpGroups(j)),
         Tuple(y, DpGroups(j)),
         \A t \in 1 .. DpGroups(j) :
           /\ \E start : x[t] = (DpZeros(j) \o DpFull(j, start)) \o DpResult(j, t - 1)
           /\ y[t] = <<ZeroLine>> \o DpFullWords(j, t - 1)
  PROVE  Passes(j, <<>>, DpRun(j, DpLoop(j)), FlattenSeq(x), FlattenSeq(y))
<1> DEFINE c == Len(DpLoop(j))
<1>1. Code(j, DpLoop(j), c) /\ c \in Nat /\ c + 3 <= j.CRF_ENTRIES
  <2>1. Code(j, DpLoop(j), c) /\ c \in Nat /\ c <= 2 * DpSegment(j) + 1
    BY DpLoopCode
  <2>2. DpSegment(j) \in Nat /\ 2 * DpSegment(j) + 4 <= j.CRF_ENTRIES /\ j.CRF_ENTRIES \in Nat
    BY DpSizes, RegisterFacts
  <2> HIDE DEF c
  <2> QED BY <2>1, <2>2
<1>2. ASSUME NEW t \in 1 .. DpGroups(j)
      PROVE  /\ IsSeq(x[t]) /\ IsSeq(y[t])
             /\ Walks(j, DpWhole(j, DpLoop(j)), x[t], y[t], {})
  <2>1. PICK start : x[t] = (DpZeros(j) \o DpFull(j, start)) \o DpResult(j, t - 1)
    OBVIOUS
  <2>2. PICK c1 : DpZeros(j) = <<c1>> /\ c1[1] = Odd[1]
    BY DpLines
  <2>3. PICK c2 : DpResult(j, t - 1) = <<c2>> /\ c2[1] = Odd[1]
    BY DpLines
  <2>4. Len(ZeroLine) = SIMD_WIDTH
    BY DpLines
  <2>5. /\ IsSeq((<<c1>> \o DpFull(j, start)) \o <<c2>>) /\ IsSeq(<<ZeroLine>> \o DpFullWords(j, t - 1))
        /\ Walks(j, DpWhole(j, DpLoop(j)), (<<c1>> \o DpFull(j, start)) \o <<c2>>,
                 <<ZeroLine>> \o DpFullWords(j, t - 1), {})
    BY <2>2, <2>3, <2>4, DpWalkFull
  <2>6. x[t] = (<<c1>> \o DpFull(j, start)) \o <<c2>> /\ y[t] = <<ZeroLine>> \o DpFullWords(j, t - 1)
    BY <2>1, <2>2, <2>3
  <2> QED BY <2>5, <2>6
<1> HIDE DEF c
<1> QED BY <1>1, <1>2, DpPass

(* The second of them: the elements left go on from the sum so far.        *)
LEMMA DpPassPeeled ==
  ASSUME NEW j, Mapped(j), j.kernel = "DP", NEW x, NEW y, Tuple(x, DpGroups(j)),
         Tuple(y, DpGroups(j)),
         \A t \in 1 .. DpGroups(j) :
           /\ \E start, first : /\ first \in {DpZeros(j), DpResult(j, t - 1)}
                                /\ x[t] = (first \o DpPart(j, start, DpPeeling(j))) \o DpResult(j, t - 1)
           /\ y[t] = DpPartial(j, t - 1) \o DpPeeledWords(j, t - 1)
  PROVE  Passes(j, <<>>, DpRun(j, DpProgram(j, DpPeeling(j))), FlattenSeq(x), FlattenSeq(y))
<1> DEFINE p == DpPeeling(j)
<1>1. p \in Nat /\ p <= 2 * j.GRF_ENTRIES /\ 2 * p + 3 <= j.CRF_ENTRIES
  <2>1. /\ p \in Nat /\ p < DpSegment(j) /\ DpSegment(j) \in Nat
        /\ DpSegment(j) <= 2 * j.GRF_ENTRIES /\ 2 * DpSegment(j) + 4 <= j.CRF_ENTRIES
    BY DpSizes
  <2>2. j.GRF_ENTRIES \in Nat /\ j.CRF_ENTRIES \in Nat
    BY RegisterFacts
  <2> HIDE DEF p
  <2> QED BY <2>1, <2>2
<1>2. Code(j, DpProgram(j, p), 2 * p) /\ 2 * p \in Nat
  BY <1>1, DpProgramCode
<1>3. ASSUME NEW t \in 1 .. DpGroups(j)
      PROVE  /\ IsSeq(x[t]) /\ IsSeq(y[t])
             /\ Walks(j, DpWhole(j, DpProgram(j, p)), x[t], y[t], {})
  <2>1. PICK start, first :
          /\ first \in {DpZeros(j), DpResult(j, t - 1)}
          /\ x[t] = (first \o DpPart(j, start, p)) \o DpResult(j, t - 1)
    OBVIOUS
  <2>2. PICK c1 : first = <<c1>> /\ c1[1] = Odd[1]
    BY <2>1, DpLines
  <2>3. PICK c2 : DpResult(j, t - 1) = <<c2>> /\ c2[1] = Odd[1]
    BY DpLines
  <2>4. PICK line : DpPartial(j, t - 1) = <<line>> /\ Len(line) = SIMD_WIDTH
    BY DpLines
  <2>5. /\ IsSeq((<<c1>> \o DpPart(j, start, p)) \o <<c2>>) /\ IsSeq(<<line>> \o DpPeeledWords(j, t - 1))
        /\ Walks(j, DpWhole(j, DpProgram(j, p)), (<<c1>> \o DpPart(j, start, p)) \o <<c2>>,
                 <<line>> \o DpPeeledWords(j, t - 1), {})
    BY <2>2, <2>3, <2>4, DpWalkPeeled
  <2>6. x[t] = (<<c1>> \o DpPart(j, start, p)) \o <<c2>> /\ y[t] = <<line>> \o DpPeeledWords(j, t - 1)
    BY <2>1, <2>2, <2>3, <2>4
  <2> QED BY <2>5, <2>6
<1> HIDE DEF p
<1> QED BY <1>1, <1>2, <1>3, DpPass DEF p

(* The R-limited pass. *)
LEMMA DpPassBoth ==
  ASSUME NEW j, Mapped(j), j.kernel = "DP", DpRLim(j),
         NEW x, NEW y, Tuple(x, DpGroups(j)), Tuple(y, DpGroups(j)),
         \A t \in 1 .. DpGroups(j) :
           /\ \E start, next : x[t] = ((DpZeros(j) \o DpFull(j, start))
                                       \o DpPart(j, next, DpPeeling(j))) \o DpResult(j, t - 1)
           /\ y[t] = (<<ZeroLine>> \o DpFullWords(j, t - 1)) \o DpPeeledWords(j, t - 1)
  PROVE  Passes(j, <<>>, DpRun(j, DpLoop(j) \o DpProgram(j, DpPeeling(j))), FlattenSeq(x),
                FlattenSeq(y))
<1> DEFINE p == DpPeeling(j)
           c == Len(DpLoop(j))
           program == DpLoop(j) \o DpProgram(j, p)
<1>1. /\ p \in Nat /\ p <= 2 * j.GRF_ENTRIES /\ Code(j, DpLoop(j), c) /\ c \in Nat
      /\ (c + 2 * p) + 3 <= j.CRF_ENTRIES
  <2>1. /\ p \in Nat /\ p < DpSegment(j) /\ DpSegment(j) \in Nat
        /\ DpSegment(j) <= 2 * j.GRF_ENTRIES /\ 2 * DpSegment(j) + 2 * p + 4 <= j.CRF_ENTRIES
    BY DpSizes
  <2>2. j.GRF_ENTRIES \in Nat /\ j.CRF_ENTRIES \in Nat
    BY RegisterFacts
  <2>3. Code(j, DpLoop(j), c) /\ c \in Nat /\ c <= 2 * DpSegment(j) + 1
    BY DpLoopCode
  <2> HIDE DEF p, c
  <2> QED BY <2>1, <2>2, <2>3, SMTT(30)
<1>2. Code(j, DpProgram(j, p), 2 * p) /\ 2 * p \in Nat
  BY <1>1, DpProgramCode
<1>3. ASSUME NEW t \in 1 .. DpGroups(j)
      PROVE  /\ IsSeq(x[t]) /\ IsSeq(y[t]) /\ Walks(j, DpWhole(j, program), x[t], y[t], {})
  <2>1. PICK start, next : x[t] = ((DpZeros(j) \o DpFull(j, start)) \o DpPart(j, next, p))
                                  \o DpResult(j, t - 1)
    OBVIOUS
  <2>2. PICK c1 : DpZeros(j) = <<c1>> /\ c1[1] = Odd[1]
    BY DpLines
  <2>3. PICK c2 : DpResult(j, t - 1) = <<c2>> /\ c2[1] = Odd[1]
    BY DpLines
  <2>4. Len(ZeroLine) = SIMD_WIDTH
    BY DpLines
  <2>5. /\ IsSeq(((<<c1>> \o DpFull(j, start)) \o DpPart(j, next, p)) \o <<c2>>)
        /\ IsSeq((<<ZeroLine>> \o DpFullWords(j, t - 1)) \o DpPeeledWords(j, t - 1))
        /\ Walks(j, DpWhole(j, program),
                 ((<<c1>> \o DpFull(j, start)) \o DpPart(j, next, p)) \o <<c2>>,
                 (<<ZeroLine>> \o DpFullWords(j, t - 1)) \o DpPeeledWords(j, t - 1), {})
    BY <2>2, <2>3, <2>4, DpWalkBoth
  <2>6. /\ x[t] = ((<<c1>> \o DpFull(j, start)) \o DpPart(j, next, p)) \o <<c2>>
        /\ y[t] = (<<ZeroLine>> \o DpFullWords(j, t - 1)) \o DpPeeledWords(j, t - 1)
    BY <2>1, <2>2, <2>3
  <2> QED BY <2>5, <2>6
<1>4. Code(j, program, c + 2 * p) /\ c + 2 * p \in Nat
  <2> HIDE DEF p, c
  <2> QED BY <1>1, <1>2, CodeJoined
<1> HIDE DEF c, program
<1>5. Passes(j, <<>>, DpRun(j, program), FlattenSeq(x), FlattenSeq(y))
  <2> HIDE DEF p
  <2> QED BY <1>1, <1>3, <1>4, DpPass
<1> QED BY <1>5 DEF program

(* The three files of a dot product stay in step. *)
LEMMA DpRuns ==
  ASSUME NEW j, Mapped(j), j.kernel = "DP"
  PROVE  InStep(j, DpAssembly(j), DpAddresses(j), DpData(j), <<>>, {}, -1, 0)
<1> DEFINE G == DpGroups(j)
           p == DpPeeling(j)
           l == DpLoops(j)
<1>1. CASE DpRLim(j)
  <2> DEFINE Start(g) == g * (DpFullColumns(j) + p \div 2)
             x == [i \in 1 .. G |-> ((DpZeros(j) \o DpFull(j, Start(i - 1)))
                     \o DpPart(j, Start(i - 1) + DpFullColumns(j), p)) \o DpResult(j, i - 1)]
             y == [i \in 1 .. G |-> (<<ZeroLine>> \o DpFullWords(j, i - 1)) \o DpPeeledWords(j, i - 1)]
  <2>1. DpAddresses(j) = FlattenSeq(x)
    BY <1>1 DEF DpAddresses, DpAddressesRLim, For
  <2>2. DpData(j) = FlattenSeq(y)
    BY <1>1 DEF DpData, For
  <2>3. DpAssembly(j) = DpRun(j, DpLoop(j) \o DpProgram(j, p))
    BY <1>1 DEF DpAssembly, DpAssemblyRLim
  <2>4. Tuple(x, G) /\ Tuple(y, G)
    BY DEF Tuple
  <2>5. \A t \in 1 .. G :
          /\ \E start, next : x[t] = ((DpZeros(j) \o DpFull(j, start)) \o DpPart(j, next, p))
                                     \o DpResult(j, t - 1)
          /\ y[t] = (<<ZeroLine>> \o DpFullWords(j, t - 1)) \o DpPeeledWords(j, t - 1)
    OBVIOUS
  <2> HIDE DEF x, y
  <2>6. Passes(j, <<>>, DpRun(j, DpLoop(j) \o DpProgram(j, p)), FlattenSeq(x), FlattenSeq(y))
    BY <1>1, <2>4, <2>5, DpPassBoth
  <2> QED BY <2>1, <2>2, <2>3, <2>6, AllPass
<1>2. CASE ~DpRLim(j)
  <2> DEFINE skip == IF DpTwoPasses(j) THEN p - 1 + (DpSegment(j) % 2) ELSE 0
             Start1(g) == g * (DpFullColumns(j) + skip)
             before == IF l # 0 THEN CeilDiv(j.n - p, 2) ELSE 0
             Start2(g) == g * (before + CeilDiv(p, 2)) + before
             x == [i \in 1 .. G |-> (DpZeros(j) \o DpFull(j, Start1(i - 1))) \o DpResult(j, i - 1)]
             y == [i \in 1 .. G |-> <<ZeroLine>> \o DpFullWords(j, i - 1)]
             first(g) == IF l # 0 THEN DpResult(j, g) ELSE DpZeros(j)
             z == [i \in 1 .. G |-> (first(i - 1) \o DpPart(j, Start2(i - 1), p)) \o DpResult(j, i - 1)]
             w == [i \in 1 .. G |-> DpPartial(j, i - 1) \o DpPeeledWords(j, i - 1)]
             runF == DpRun(j, DpLoop(j))
             runP == DpRun(j, DpProgram(j, p))
  <2>1. DpAddresses(j) = If(l # 0, FlattenSeq(x)) \o If(p # 0, FlattenSeq(z))
    BY <1>2 DEF DpAddresses, DpAddressesCLim, For
  <2>2. DpData(j) = If(l # 0, FlattenSeq(y)) \o If(p # 0, FlattenSeq(w))
    BY <1>2 DEF DpData, For
  <2>3. DpAssembly(j) = If(l # 0, runF) \o If(p # 0, runP)
    BY <1>2 DEF DpAssembly, DpAssemblyCLim
  <2>4. Tuple(x, G) /\ Tuple(y, G) /\ Tuple(z, G) /\ Tuple(w, G)
    BY DEF Tuple
  <2>5. \A t \in 1 .. G :
          /\ \E start : x[t] = (DpZeros(j) \o DpFull(j, start)) \o DpResult(j, t - 1)
          /\ y[t] = <<ZeroLine>> \o DpFullWords(j, t - 1)
    OBVIOUS
  <2>6. ASSUME NEW t \in 1 .. G
        PROVE  /\ \E start, f : /\ f \in {DpZeros(j), DpResult(j, t - 1)}
                                /\ z[t] = (f \o DpPart(j, start, p)) \o DpResult(j, t - 1)
               /\ w[t] = DpPartial(j, t - 1) \o DpPeeledWords(j, t - 1)
    <3>1. first(t - 1) \in {DpZeros(j), DpResult(j, t - 1)}
      OBVIOUS
    <3>2. z[t] = (first(t - 1) \o DpPart(j, Start2(t - 1), p)) \o DpResult(j, t - 1)
      OBVIOUS
    <3>3. w[t] = DpPartial(j, t - 1) \o DpPeeledWords(j, t - 1)
      OBVIOUS
    <3> HIDE DEF first, Start2, z, w
    <3> QED BY <3>1, <3>2, <3>3
  <2> HIDE DEF x, y, z, w, runF, runP
  <2>7. Passes(j, <<>>, runF, FlattenSeq(x), FlattenSeq(y))
    BY <2>4, <2>5, DpPassFull DEF runF
  <2>8. Passes(j, <<>>, runP, FlattenSeq(z), FlattenSeq(w))
    BY <2>4, <2>6, DpPassPeeled DEF runP
  <2>9. Passes(j, <<>>, <<>>, <<>>, <<>>)
    BY PassesNone, NoneSeq
  <2>10. Passes(j, <<>>, If(l # 0, runF), If(l # 0, FlattenSeq(x)), If(l # 0, FlattenSeq(y)))
    BY <2>7, <2>9 DEF If
  <2>11. Passes(j, <<>>, If(p # 0, runP), If(p # 0, FlattenSeq(z)), If(p # 0, FlattenSeq(w)))
    BY <2>8, <2>9 DEF If
  <2>12. Passes(j, <<>>, If(l # 0, runF) \o If(p # 0, runP),
                If(l # 0, FlattenSeq(x)) \o If(p # 0, FlattenSeq(z)),
                If(l # 0, FlattenSeq(y)) \o If(p # 0, FlattenSeq(w)))
    BY <2>10, <2>11, NoneSeq, PassesJoined
  <2> QED BY <2>1, <2>2, <2>3, <2>12, AllPass
<1> QED BY <1>1, <1>2

(***************************************************************************)
(* Sums that are kept with the result: products of matrices, convolution.  *)
(* A turn of the loop loads, stores the sum, and goes back.                *)
(***************************************************************************)
SumEnd(length, loops) == (<<Mov(Odd, GrfB0)>> \o Jump(length, loops)) \o <<EXIT>>

(* The length of two sequences put together.                               *)
LEMMA JoinedLen ==
  ASSUME NEW s, NEW t, IsSeq(s), IsSeq(t)
  PROVE  IsSeq(s \o t) /\ Len(s \o t) = Len(s) + Len(t)
  BY Joined

(* The end names registers that exist.                                     *)
LEMMA SumEndCode ==
  ASSUME NEW j, Mapped(j), NEW length, NEW loops
  PROVE  \E m \in {2, 3} : Code(j, SumEnd(length, loops), m)
<1>1. GoodInstr(j, Mov(Odd, GrfB0)) /\ GoodInstr(j, EXIT)
  BY RegisterFacts, Banks, GoodMov, GoodEnd DEF Odd
<1>2. Code(j, <<Mov(Odd, GrfB0)>>, 1) /\ Code(j, <<EXIT>>, 1)
  BY <1>1, CodeOne
<1>3. PICK m \in {0, 1} : Code(j, Jump(length, loops), m)
  BY JumpCode
<1>4. m \in Nat
  OBVIOUS
<1>5. Code(j, <<Mov(Odd, GrfB0)>> \o Jump(length, loops), 1 + m)
  BY <1>2, <1>3, <1>4, CodeJoined
<1>6. Code(j, (<<Mov(Odd, GrfB0)>> \o Jump(length, loops)) \o <<EXIT>>, (1 + m) + 1)
  BY <1>2, <1>4, <1>5, CodeJoined
<1>7. (1 + m) + 1 \in {2, 3}
  OBVIOUS
<1> QED BY <1>6, <1>7 DEF SumEnd

(* What a turn takes before the sum is stored.                             *)
Turn(j, body, b, mid, words, known) ==
  /\ IsSeq(mid) /\ IsSeq(words)
  /\ \A prog, asm, addr, data, left :
       (Holds(prog, 0, body) /\ InStep(j, asm, addr, data, prog, known \cup {GrfB0}, b, left)) =>
         InStep(j, asm, mid \o addr, words \o data, prog, known, 0, left)

(* A turn takes its lines, and the column the sum is stored to.            *)
LEMMA SumTurn ==
  ASSUME NEW j, NEW body, NEW b \in Nat, IsSeq(body), Len(body) = b, NEW known,
         NEW mid, NEW words, Turn(j, body, b, mid, words, known), NEW col, col[1] = Odd[1],
         NEW prog, Holds(prog, 0, body), b \in DOMAIN prog, prog[b] = Mov(Odd, GrfB0),
         NEW asm, NEW addr, NEW data, NEW left, InStep(j, asm, addr, data, prog, known, b + 1, left)
  PROVE  InStep(j, asm, (mid \o <<col>>) \o addr, words \o data, prog, known, 0, left)
<1>1. ~IsBank(GrfB0) /\ IsBank(Odd)
  BY Banks DEF GrfB0, Odd
<1> DEFINE more == known \cup {GrfB0}
<1>2. InStep(j, asm, addr, data, prog, more, b + 1, left)
  BY MoreKnown
<1>3. StoresTo(Mov(Odd, GrfB0), col, more)
  BY <1>1, MovStores
<1> HIDE DEF more
<1>4. InStep(j, asm, <<col>> \o addr, data, prog, more, b, left)
  BY <1>2, <1>3, StoreEntry
<1>5. InStep(j, asm, mid \o (<<col>> \o addr), words \o data, prog, known, 0, left)
  BY <1>4 DEF Turn, more
<1>6. IsSeq(mid) /\ IsSeq(<<col>>) /\ IsSeq(addr)
  BY OneSeq, InStepSeqs DEF Turn
<1>7. (mid \o <<col>>) \o addr = mid \o (<<col>> \o addr)
  BY <1>6, Regroup
<1> QED BY <1>5, <1>7

(* All turns of the loop, then EXIT.                                       *)
LEMMA SumWalks ==
  ASSUME NEW j, NEW body, NEW b \in Nat, Code(j, body, b), NEW loops \in Nat \ {0}, NEW known,
         NEW x, NEW y, Tuple(x, loops), Tuple(y, loops),
         \A t \in 1 .. loops : \E mid, col : /\ x[t] = mid \o <<col>> /\ col[1] = Odd[1]
                                             /\ Turn(j, body, b, mid, y[t], known)
  PROVE  /\ IsSeq(FlattenSeq(x)) /\ IsSeq(FlattenSeq(y))
         /\ Walks(j, body \o SumEnd(b + 1, loops), FlattenSeq(x), FlattenSeq(y), known)
<1> DEFINE jump == Jump(b + 1, loops)
           move == <<Mov(Odd, GrfB0)>>
           end == <<EXIT>>
           m == IF loops = 1 THEN 0 ELSE 1
<1>1. \A t \in 1 .. loops : IsSeq(x[t]) /\ IsSeq(y[t])
  <2> SUFFICES ASSUME NEW t \in 1 .. loops PROVE IsSeq(x[t]) /\ IsSeq(y[t])
    OBVIOUS
  <2>1. PICK mid, col : x[t] = mid \o <<col>> /\ Turn(j, body, b, mid, y[t], known)
    OBVIOUS
  <2>2. IsSeq(mid) /\ IsSeq(y[t]) /\ IsSeq(<<col>>)
    BY <2>1, OneSeq DEF Turn
  <2> QED BY <2>1, <2>2, Joined
<1>2. Parts(x, loops) /\ Parts(y, loops)
  BY <1>1 DEF Parts
<1>3. IsSeq(FlattenSeq(x)) /\ IsSeq(FlattenSeq(y))
  BY <1>2, NoneSeq, PartsRest
<1>4. IsSeq(body) /\ Len(body) = b
  BY DEF Code
<1>5. /\ loops = 1 => jump = <<>> /\ Code(j, jump, 0)
      /\ loops # 1 => jump = <<JumpInstr(b + 1, loops - 1)>> /\ Code(j, jump, 1)
  BY JumpCode
<1>6. IsSeq(jump) /\ Len(jump) = m
  BY <1>5 DEF Code
<1>7. /\ IsSeq(move) /\ Len(move) = 1 /\ move[1] = Mov(Odd, GrfB0)
      /\ IsSeq(end) /\ Len(end) = 1 /\ end[1] = EXIT
  BY OneSeq
<1>8. body \o SumEnd(b + 1, loops) = body \o ((move \o jump) \o end)
  BY DEF SumEnd
<1>9. m \in Nat
  OBVIOUS
<1> HIDE DEF jump, move, end, m
<1>10. IsSeq(move \o jump) /\ Len(move \o jump) = 1 + m
  <2>1. IsSeq(move) /\ IsSeq(jump) /\ Len(move) = 1 /\ Len(jump) = m
    BY <1>6, <1>7
  <2> QED BY <2>1, JoinedLen
<1>11. IsSeq((move \o jump) \o end)
  <2>1. IsSeq(move \o jump) /\ IsSeq(end)
    BY <1>7, <1>10
  <2> QED BY <2>1, Joined
<1>12. ASSUME NEW prog, Holds(prog, 0, body \o SumEnd(b + 1, loops)), NEW asm, NEW addr, NEW data,
              InStep(j, asm, addr, data, prog, {}, -1, 0)
       PROVE  InStep(j, asm, FlattenSeq(x) \o addr, FlattenSeq(y) \o data, prog, known, 0, 0)
  <2>1. Holds(prog, 0, body) /\ Holds(prog, 0 + b, (move \o jump) \o end)
    BY <1>4, <1>8, <1>11, <1>12, HoldsParts
  <2>2. 0 + b = b
    OBVIOUS
  <2>3. Holds(prog, b, move \o jump) /\ Holds(prog, b + (1 + m), end)
    BY <1>7, <1>10, <2>1, <2>2, HoldsParts
  <2>4. Holds(prog, b, move) /\ Holds(prog, b + 1, jump)
    BY <1>6, <1>7, <2>3, HoldsParts
  <2>5. b \in DOMAIN prog /\ prog[b] = Mov(Odd, GrfB0)
    <3>1. 1 \in 1 .. Len(move) /\ b + 1 - 1 = b
      BY <1>7
    <3> QED BY <1>7, <2>4, <3>1 DEF Holds
  <2>6. ASSUME loops # 1 PROVE b + 1 \in DOMAIN prog /\ prog[b + 1] = JumpInstr(b + 1, loops - 1)
    <3>1. jump = <<JumpInstr(b + 1, loops - 1)>>
      BY <1>5, <2>6
    <3>2. Len(jump) = 1 /\ jump[1] = JumpInstr(b + 1, loops - 1)
      BY <3>1, OneSeq
    <3>3. 1 \in 1 .. Len(jump) /\ (b + 1) + 1 - 1 = b + 1
      BY <3>2
    <3> QED BY <2>4, <3>2, <3>3 DEF Holds
  <2>7. b + (1 + m) \in DOMAIN prog /\ prog[b + (1 + m)] = EXIT
    <3>1. 1 \in 1 .. Len(end) /\ (b + (1 + m)) + 1 - 1 = b + (1 + m)
      BY <1>7, <1>9
    <3> QED BY <1>7, <2>3, <3>1 DEF Holds
  <2>8. InStep(j, asm, addr, data, prog, known, b + (1 + m), 0)
    <3>1. InStep(j, asm, addr, data, prog, known, -1, 0)
      BY <1>12, MoreKnown
    <3>2. b + (1 + m) \in Nat
      BY <1>9
    <3> QED BY <2>7, <3>1, <3>2, ExitEntry
  <2>9. IsSeq(addr) /\ IsSeq(data)
    BY <1>12, InStepSeqs
  <2>10. PICK X : Rests(X, x, loops, addr)
    BY <1>2, <2>9, PartsRest
  <2>11. PICK Y : Rests(Y, y, loops, data)
    BY <1>2, <2>9, PartsRest
  <2>12. ASSUME NEW t \in 0 .. loops - 1, NEW left \in Nat,
                InStep(j, asm, X[t + 1], Y[t + 1], prog, known, 0 + (b + 1), left)
         PROVE  InStep(j, asm, X[t], Y[t], prog, known, 0, left)
    <3>1. t + 1 \in 1 .. loops /\ 0 + (b + 1) = b + 1
      OBVIOUS
    <3>2. PICK mid, col : /\ x[t + 1] = mid \o <<col>> /\ col[1] = Odd[1]
                          /\ Turn(j, body, b, mid, y[t + 1], known)
      BY <3>1
    <3>3. InStep(j, asm, X[t + 1], Y[t + 1], prog, known, b + 1, left)
      BY <2>12, <3>1
    <3>4. InStep(j, asm, (mid \o <<col>>) \o X[t + 1], y[t + 1] \o Y[t + 1], prog, known, 0, left)
      BY <1>4, <2>1, <2>5, <3>2, <3>3, SumTurn
    <3>5. X[t] = x[t + 1] \o X[t + 1] /\ Y[t] = y[t + 1] \o Y[t + 1]
      BY <2>10, <2>11 DEF Rests
    <3> QED BY <3>2, <3>4, <3>5
  <2>13. X[0] = FlattenSeq(x) \o addr /\ Y[0] = FlattenSeq(y) \o data /\ X[loops] = addr /\ Y[loops] = data
    BY <2>10, <2>11 DEF Rests
  <2>14. InStep(j, asm, X[loops], Y[loops], prog, known,
                0 + (b + 1) + (IF loops = 1 THEN 0 ELSE 1), 0)
    <3>1. 0 + (b + 1) + (IF loops = 1 THEN 0 ELSE 1) = b + (1 + m)
      BY DEF m
    <3> QED BY <2>8, <2>13, <3>1
  <2>15. InStep(j, asm, X[0], Y[0], prog, known, 0, 0)
    <3>1. loops # 1 => /\ 0 + (b + 1) \in DOMAIN prog
                       /\ prog[0 + (b + 1)] = JumpInstr(b + 1, loops - 1)
      <4>1. 0 + (b + 1) = b + 1
        OBVIOUS
      <4> QED BY <2>6, <4>1
    <3>2. b + 1 \in Nat
      OBVIOUS
    <3> QED BY <2>12, <2>14, <3>1, <3>2, LoopBlock
  <2> QED BY <2>13, <2>15
<1> QED BY <1>3, <1>12 DEF Walks

(* Four sequences put together. *)
AllSeqs(s, t, u, v) == IsSeq(s) /\ IsSeq(t) /\ IsSeq(u) /\ IsSeq(v)

(* Four sequences, put together from the right.                            *)
LEMMA RegroupTwice ==
  ASSUME NEW s, NEW t, NEW u, NEW v, AllSeqs(s, t, u, v)
  PROVE  ((s \o t) \o u) \o v = s \o (t \o (u \o v))
<1> DEFINE a == s \o t
           b == u \o v
<1>1. IsSeq(a) /\ IsSeq(b)
  BY JoinedLen DEF AllSeqs
<1>2. (s \o t) \o b = s \o (t \o b)
  <2> HIDE DEF b
  <2> SUFFICES IsSeq(s) /\ IsSeq(t) /\ IsSeq(b)
    BY Regroup
  <2> QED BY <1>1 DEF AllSeqs
<1>3. (a \o u) \o v = a \o (u \o v)
  <2> HIDE DEF a
  <2> SUFFICES IsSeq(a) /\ IsSeq(u) /\ IsSeq(v)
    BY Regroup
  <2> QED BY <1>1 DEF AllSeqs
<1> HIDE DEF a, b
<1>4. (a \o u) \o v = a \o b
  BY <1>3 DEF b
<1>5. a \o b = s \o (t \o b)
  BY <1>2 DEF a
<1>6. (a \o u) \o v = s \o (t \o b)
  BY <1>4, <1>5
<1> QED BY <1>6, Zenon DEF a, b

(* n multiplications with scalars, from number d on. *)
ScalarMacs(macs, n, d) ==
  IsSeq(macs) /\ Len(macs) = n /\ \A k \in 1 .. n : macs[k] = ScalarMac(k - 1 + d)

(* The multiplications name registers that exist ...                       *)
LEMMA ScalarMacsCode ==
  ASSUME NEW j, Mapped(j), NEW n \in Nat, NEW d \in Nat, n + d <= j.SRF_M_ENTRIES,
         NEW macs, ScalarMacs(macs, n, d)
  PROVE  Code(j, macs, n)
<1>1. ASSUME NEW k \in 1 .. n PROVE GoodInstr(j, macs[k])
  <2>1. k - 1 + d \in 0 .. j.SRF_M_ENTRIES - 1
    BY RegisterFacts
  <2>2. SrfM(k - 1 + d) \in Registers(j) /\ GrfB0 \in Registers(j)
    BY <2>1, RegisterFacts
  <2>3. GoodInstr(j, ScalarMac(k - 1 + d))
    BY <2>2, Banks, GoodInstr2 DEF ScalarMac
  <2>4. macs[k] = ScalarMac(k - 1 + d)
    BY DEF ScalarMacs
  <2> QED BY <2>3, <2>4
<1> QED BY <1>1 DEF Code, ScalarMacs

(* ... and each takes a column and a data line.                            *)
LEMMA ScalarMacsBlock ==
  ASSUME NEW j, NEW asm, NEW addr, NEW data, NEW prog, NEW left, NEW known,
         NEW n \in Nat, NEW at \in Nat, NEW d \in Nat, NEW macs, ScalarMacs(macs, n, d),
         Holds(prog, at, macs), GrfB0 \in known, \A i \in 0 .. n - 1 : SrfM(i + d) \in known,
         NEW x, IsSeq(x), Len(x) = n, \A i \in 1 .. n : x[i][1] = Bank(i - 1 + d)[1],
         NEW y, Lines(y, n), InStep(j, asm, addr, data, prog, known, at + n, left)
  PROVE  InStep(j, asm, x \o addr, y \o data, prog, known, at, left)
<1>1. ASSUME NEW i \in 1 .. n PROVE LoadsFrom(macs[i], x[i], known)
  <2>1. i - 1 \in 0 .. n - 1
    OBVIOUS
  <2>2. SrfM(i - 1 + d) \in known
    BY <2>1
  <2>3. LoadsFrom(ScalarMac(i - 1 + d), x[i], known)
    BY <2>2, ScalarMacLoads
  <2>4. macs[i] = ScalarMac(i - 1 + d)
    BY DEF ScalarMacs
  <2> QED BY <2>3, <2>4
<1>2. Len(macs) = n
  BY DEF ScalarMacs
<1> QED BY <1>1, <1>2, WorkBlock

(* The scalars a set has been given.                                       *)
Given(n) == {SrfM(i) : i \in 0 .. n - 1}

(* A turn begins with an instruction that brings the sum. *)
LEMMA BeginTurn ==
  ASSUME NEW j, Mapped(j), NEW ins, GoodInstr(j, ins), ins.dst = GrfB0,
         NEW n \in Nat, NEW d \in Nat, n + d <= j.SRF_M_ENTRIES, NEW macs, ScalarMacs(macs, n, d),
         NEW known, \A i \in 0 .. n - 1 : SrfM(i + d) \in known, NEW col,
         LoadsFrom(ins, col, known),
         NEW x, IsSeq(x), Len(x) = n, \A i \in 1 .. n : x[i][1] = Bank(i - 1 + d)[1],
         NEW line, Len(line) = SIMD_WIDTH, NEW y, Lines(y, n)
  PROVE  /\ Code(j, <<ins>> \o macs, 1 + n)
         /\ Turn(j, <<ins>> \o macs, 1 + n, <<col>> \o x, <<line>> \o y, known)
<1>1. Code(j, <<ins>>, 1) /\ Code(j, macs, n)
  BY CodeOne, ScalarMacsCode
<1>2. Code(j, <<ins>> \o macs, 1 + n)
  BY <1>1, CodeJoined
<1>3. IsSeq(<<ins>>) /\ Len(<<ins>>) = 1 /\ <<ins>>[1] = ins /\ IsSeq(macs)
  BY OneSeq DEF ScalarMacs
<1>4. IsSeq(<<col>>) /\ IsSeq(<<line>>) /\ IsSeq(y)
  BY OneSeq DEF Lines
<1>5. IsSeq(<<col>> \o x) /\ IsSeq(<<line>> \o y)
  BY <1>4, JoinedLen
<1>6. ASSUME NEW prog, Holds(prog, 0, <<ins>> \o macs), NEW asm, NEW addr, NEW data, NEW left,
             InStep(j, asm, addr, data, prog, known \cup {GrfB0}, 1 + n, left)
      PROVE  InStep(j, asm, (<<col>> \o x) \o addr, (<<line>> \o y) \o data, prog, known, 0, left)
  <2> DEFINE more == known \cup {GrfB0}
  <2>1. Holds(prog, 0, <<ins>>) /\ Holds(prog, 0 + 1, macs)
    BY <1>3, <1>6, HoldsParts
  <2>2. 0 \in DOMAIN prog /\ prog[0] = ins
    <3>1. 1 \in 1 .. Len(<<ins>>) /\ 0 + 1 - 1 = 0
      BY <1>3
    <3> QED BY <1>3, <2>1, <3>1 DEF Holds
  <2>3. GrfB0 \in more /\ \A i \in 0 .. n - 1 : SrfM(i + d) \in more
    OBVIOUS
  <2>4. InStep(j, asm, addr, data, prog, more, (0 + 1) + n, left)
    BY <1>6
  <2> HIDE DEF more
  <2>5. InStep(j, asm, x \o addr, y \o data, prog, more, 0 + 1, left)
    <3>1. 0 + 1 \in Nat
      OBVIOUS
    <3> QED BY <2>1, <2>3, <2>4, <3>1, ScalarMacsBlock
  <2>6. InStep(j, asm, <<col>> \o (x \o addr), <<line>> \o (y \o data), prog, known, 0, left)
    <3>1. known \cup {prog[0].dst} = more
      BY <2>2 DEF more
    <3> QED BY <2>2, <2>5, <3>1, LoadEntry
  <2>7. IsSeq(addr) /\ IsSeq(data)
    BY <1>6, InStepSeqs
  <2>8. (<<col>> \o x) \o addr = <<col>> \o (x \o addr)
    <3> SUFFICES IsSeq(<<col>>) /\ IsSeq(x) /\ IsSeq(addr)
      BY Regroup
    <3> QED BY <1>4, <2>7
  <2>9. (<<line>> \o y) \o data = <<line>> \o (y \o data)
    <3> SUFFICES IsSeq(<<line>>) /\ IsSeq(y) /\ IsSeq(data)
      BY Regroup
    <3> QED BY <1>4, <2>7
  <2> QED BY <2>6, <2>8, <2>9
<1> QED BY <1>2, <1>5, <1>6 DEF Turn

(* Runs that are given scalars, and runs that are given a bias too.        *)
LEMMA GivenPasses ==
  ASSUME NEW j, Mapped(j), NEW held, IsSeq(held), NEW n \in Nat, n <= j.SRF_M_ENTRIES,
         NEW w, Tuple(w, n), \A i \in 1 .. n : Single(w[i]) /\ Len(w[i][1]) = 1,
         NEW x, NEW y, IsSeq(x), IsSeq(y), Walks(j, held, x, y, Given(n))
  PROVE  Passes(j, held, Weights(n) \o Exec, x, FlattenSeq(w) \o y)
<1>1. IsSeq(Exec)
  BY OneSeq DEF Exec
<1>2. \A i \in 0 .. n - 1 : SrfM(i) \in Registers(j)
  <2> SUFFICES ASSUME NEW i \in 0 .. n - 1 PROVE SrfM(i) \in Registers(j)
    OBVIOUS
  <2>1. i \in 0 .. j.SRF_M_ENTRIES - 1
    BY RegisterFacts
  <2> QED BY <2>1, RegisterFacts
<1>3. IsSeq(FlattenSeq(w))
  BY SinglesFlatten
<1>4. ASSUME NEW prog, NEW asm, NEW addr, NEW data, Holds(prog, 0, held),
             InStep(j, asm, addr, data, prog, {}, -1, 0)
      PROVE  /\ IsSeq(Weights(n))
             /\ InStep(j, Weights(n) \o (Exec \o asm), x \o addr, FlattenSeq(w) \o (y \o data),
                       prog, {}, -1, 0)
  <2>1. InStep(j, asm, x \o addr, y \o data, prog, Given(n), 0, 0)
    BY <1>4 DEF Walks
  <2>2. InStep(j, Exec \o asm, x \o addr, y \o data, prog, Given(n), -1, 0)
    BY <2>1, ExecLine
  <2>3. InStep(j, Exec \o asm, x \o addr, y \o data, prog, {} \cup {SrfM(i) : i \in 0 .. n - 1}, -1, 0)
    BY <2>2 DEF Given
  <2> QED BY <1>2, <2>3, WeightsBlock
<1>5. IsSeq(Weights(n))
  <2>1. Holds(Written(<<>>, 0, held), 0, held)
    BY HoldsWritten
  <2>2. InStep(j, <<>>, <<>>, <<>>, Written(<<>>, 0, held), {}, -1, 0)
    BY TheEnd
  <2> QED BY <1>4, <2>1, <2>2
<1>6. ASSUME NEW asm, NEW addr, NEW data, Ready(j, held, asm, addr, data)
      PROVE  Ready(j, held, (Weights(n) \o Exec) \o asm, x \o addr, (FlattenSeq(w) \o y) \o data)
  <2>1. IsSeq(asm) /\ IsSeq(data)
    BY <1>6, ReadySeqs
  <2>2. (Weights(n) \o Exec) \o asm = Weights(n) \o (Exec \o asm)
    <3> SUFFICES IsSeq(Weights(n)) /\ IsSeq(Exec) /\ IsSeq(asm)
      BY Regroup, SMTT(30)
    <3> QED BY <1>1, <1>5, <2>1
  <2>3. (FlattenSeq(w) \o y) \o data = FlattenSeq(w) \o (y \o data)
    <3> SUFFICES IsSeq(FlattenSeq(w)) /\ IsSeq(y) /\ IsSeq(data)
      BY Regroup
    <3> QED BY <1>3, <2>1
  <2> QED BY <1>4, <1>6, <2>2, <2>3 DEF Ready
<1>7. IsSeq(Weights(n) \o Exec) /\ IsSeq(FlattenSeq(w) \o y)
  BY <1>1, <1>3, <1>5, JoinedLen
<1> QED BY <1>6, <1>7 DEF Passes

(* The same with the bias as a last scalar.                                *)
LEMMA BiasPasses ==
  ASSUME NEW j, Mapped(j), NEW held, IsSeq(held), NEW n \in Nat, n <= j.SRF_M_ENTRIES,
         NEW w, Tuple(w, n), \A i \in 1 .. n : Single(w[i]) /\ Len(w[i][1]) = 1,
         NEW bias, Len(bias) = 1,
         NEW x, NEW y, IsSeq(x), IsSeq(y), Walks(j, held, x, y, Given(n) \cup {SrfA0})
  PROVE  Passes(j, held, (Weights(n) \o Scalar(SrfA0)) \o Exec, x, (FlattenSeq(w) \o <<bias>>) \o y)
<1>1. IsSeq(Exec) /\ IsSeq(Scalar(SrfA0)) /\ IsSeq(<<bias>>)
  BY OneSeq DEF Exec, Scalar
<1>2. \A i \in 0 .. n - 1 : SrfM(i) \in Registers(j)
  <2> SUFFICES ASSUME NEW i \in 0 .. n - 1 PROVE SrfM(i) \in Registers(j)
    OBVIOUS
  <2>1. i \in 0 .. j.SRF_M_ENTRIES - 1
    BY RegisterFacts
  <2> QED BY <2>1, RegisterFacts
<1>3. IsSeq(FlattenSeq(w))
  BY SinglesFlatten
<1>4. ASSUME NEW prog, NEW asm, NEW addr, NEW data, Holds(prog, 0, held),
             InStep(j, asm, addr, data, prog, {}, -1, 0)
      PROVE  /\ IsSeq(Weights(n))
             /\ InStep(j, Weights(n) \o (Scalar(SrfA0) \o (Exec \o asm)), x \o addr,
                       FlattenSeq(w) \o (<<bias>> \o (y \o data)), prog, {}, -1, 0)
  <2>1. InStep(j, asm, x \o addr, y \o data, prog, Given(n) \cup {SrfA0}, 0, 0)
    BY <1>4 DEF Walks
  <2>2. InStep(j, Exec \o asm, x \o addr, y \o data, prog, Given(n) \cup {SrfA0}, -1, 0)
    BY <2>1, ExecLine
  <2>3. InStep(j, Scalar(SrfA0) \o (Exec \o asm), x \o addr, <<bias>> \o (y \o data), prog,
               Given(n), -1, 0)
    BY <2>2, RegisterFacts, ScalarLineStep
  <2>4. InStep(j, Scalar(SrfA0) \o (Exec \o asm), x \o addr, <<bias>> \o (y \o data), prog,
               {} \cup {SrfM(i) : i \in 0 .. n - 1}, -1, 0)
    BY <2>3 DEF Given
  <2> QED BY <1>2, <2>4, WeightsBlock
<1>5. IsSeq(Weights(n))
  <2>1. Holds(Written(<<>>, 0, held), 0, held)
    BY HoldsWritten
  <2>2. InStep(j, <<>>, <<>>, <<>>, Written(<<>>, 0, held), {}, -1, 0)
    BY TheEnd
  <2> QED BY <1>4, <2>1, <2>2
<1>6. ASSUME NEW asm, NEW addr, NEW data, Ready(j, held, asm, addr, data)
      PROVE  Ready(j, held, ((Weights(n) \o Scalar(SrfA0)) \o Exec) \o asm, x \o addr,
                   ((FlattenSeq(w) \o <<bias>>) \o y) \o data)
  <2>1. IsSeq(asm) /\ IsSeq(data)
    BY <1>6, ReadySeqs
  <2>2. ((Weights(n) \o Scalar(SrfA0)) \o Exec) \o asm = Weights(n) \o (Scalar(SrfA0) \o (Exec \o asm))
    <3>1. AllSeqs(Weights(n), Scalar(SrfA0), Exec, asm)
      BY <1>1, <1>5, <2>1 DEF AllSeqs
    <3> QED BY <3>1, RegroupTwice
  <2>3. ((FlattenSeq(w) \o <<bias>>) \o y) \o data = FlattenSeq(w) \o (<<bias>> \o (y \o data))
    <3>1. AllSeqs(FlattenSeq(w), <<bias>>, y, data)
      BY <1>1, <1>3, <2>1 DEF AllSeqs
    <3> QED BY <3>1, RegroupTwice
  <2> QED BY <1>4, <1>6, <2>2, <2>3 DEF Ready
<1>7. IsSeq((Weights(n) \o Scalar(SrfA0)) \o Exec) /\ IsSeq((FlattenSeq(w) \o <<bias>>) \o y)
  <2>1. IsSeq(Weights(n) \o Scalar(SrfA0)) /\ IsSeq(FlattenSeq(w) \o <<bias>>)
    BY <1>1, <1>3, <1>5, JoinedLen
  <2> QED BY <1>1, <2>1, JoinedLen
<1> QED BY <1>6, <1>7 DEF Passes

(***************************************************************************)
(* Runs that are repeated, and programs of which the end is overwritten.   *)
(***************************************************************************)
Copies(c, n) == FlattenSeq([i \in 1 .. n |-> c])

ThreeSeqs(s, t, u) == IsSeq(s) /\ IsSeq(t) /\ IsSeq(u)

(* Three sequences, put together from the right.                           *)
LEMMA RegroupThree ==
  ASSUME NEW s, NEW t, NEW u, ThreeSeqs(s, t, u)
  PROVE  (s \o t) \o u = s \o (t \o u)
<1> DEFINE T == Items(s) \cup Items(t) \cup Items(u)
<1>1. s \in Seq(T) /\ t \in Seq(T) /\ u \in Seq(T)
  BY DEF IsSeq, ThreeSeqs
<1> QED BY <1>1, ConcatAssociative

(* No run.                                                                 *)
LEMMA CopiesNone == ASSUME NEW c PROVE Copies(c, 0) = <<>>
<1> DEFINE s == [i \in 1 .. 0 |-> c]
<1>1. Tuple(s, 0)
  BY DEF Tuple
<1>2. Copies(c, 0) = FlattenSeq(s)
  BY DEF Copies
<1> HIDE DEF s
<1> QED BY <1>1, <1>2, FlattenNone

(* One run more.                                                           *)
LEMMA CopiesOneMore ==
  ASSUME NEW c, IsSeq(c), NEW n \in Nat
  PROVE  Copies(c, n + 1) = Copies(c, n) \o c
<1> DEFINE s == [i \in 1 .. n + 1 |-> c]
<1>1. Parts(s, n + 1)
  BY DEF Parts, Tuple
<1>2. [i \in 1 .. n |-> s[i]] = [i \in 1 .. n |-> c] /\ s[n + 1] = c
  OBVIOUS
<1>3. Copies(c, n + 1) = FlattenSeq(s)
  BY DEF Copies
<1> HIDE DEF s
<1>4. FlattenSeq(s) = FlattenSeq([i \in 1 .. n |-> s[i]]) \o s[n + 1]
  BY <1>1, FlattenOneMore
<1> QED BY <1>2, <1>3, <1>4 DEF Copies

(* Runs are lines.                                                         *)
LEMMA CopiesSeq ==
  ASSUME NEW c, IsSeq(c), NEW n \in Nat
  PROVE  IsSeq(Copies(c, n))
<1> DEFINE s == [i \in 1 .. n |-> c]
<1>1. Parts(s, n)
  BY DEF Parts, Tuple
<1>2. Copies(c, n) = FlattenSeq(s)
  BY DEF Copies
<1> HIDE DEF s
<1> QED BY <1>1, <1>2, NoneSeq, PartsRest

(* a runs and then b runs.                                                 *)
LEMMA CopiesJoined ==
  ASSUME NEW c, IsSeq(c), NEW a \in Nat, NEW b \in Nat
  PROVE  Copies(c, a + b) = Copies(c, a) \o Copies(c, b)
<1> DEFINE N == {n \in Nat : Copies(c, a + n) = Copies(c, a) \o Copies(c, n)}
<1>1. 0 \in N
  <2>1. Copies(c, a) \o Copies(c, 0) = Copies(c, a)
    BY CopiesNone, CopiesSeq, JoinedNone
  <2>2. a + 0 = a
    OBVIOUS
  <2> QED BY <2>1, <2>2
<1>2. ASSUME NEW n \in N PROVE n + 1 \in N
  <2>0. n \in Nat /\ n + 1 \in Nat /\ a + n \in Nat /\ a + (n + 1) = (a + n) + 1
    OBVIOUS
  <2>1. Copies(c, (a + n) + 1) = (Copies(c, a) \o Copies(c, n)) \o c
    <3>1. Copies(c, (a + n) + 1) = Copies(c, a + n) \o c
      BY <2>0, CopiesOneMore
    <3> QED BY <3>1
  <2>2. (Copies(c, a) \o Copies(c, n)) \o c = Copies(c, a) \o (Copies(c, n) \o c)
    <3> HIDE DEF N
    <3> SUFFICES IsSeq(Copies(c, a)) /\ IsSeq(Copies(c, n)) /\ IsSeq(c)
      BY Regroup
    <3> QED BY <2>0, CopiesSeq
  <2>3. Copies(c, n + 1) = Copies(c, n) \o c
    BY <2>0, CopiesOneMore
  <2>4. Copies(c, a + (n + 1)) = Copies(c, a) \o Copies(c, n + 1)
    <3> HIDE DEF N
    <3> QED BY <2>0, <2>1, <2>2, <2>3
  <2> QED BY <2>0, <2>4
<1>3. N = Nat
  <2> HIDE DEF N
  <2>1. N \in SUBSET Nat
    BY DEF N
  <2> QED BY <1>1, <1>2, <2>1, Induction
<1> QED BY <1>3

(* m times n runs.                                                         *)
LEMMA CopiesOfCopies ==
  ASSUME NEW c, IsSeq(c), NEW m \in Nat, NEW n \in Nat
  PROVE  Copies(c, m * n) = Copies(Copies(c, n), m)
<1> DEFINE d == Copies(c, n)
           N == {k \in Nat : Copies(c, k * n) = Copies(d, k)}
<1>0. IsSeq(d)
  BY CopiesSeq
<1> HIDE DEF d
<1>1. 0 \in N
  <2>1. 0 * n = 0
    OBVIOUS
  <2> QED BY <2>1, CopiesNone
<1>2. ASSUME NEW k \in N PROVE k + 1 \in N
  <2>0. k \in Nat /\ k + 1 \in Nat /\ k * n \in Nat /\ (k + 1) * n = k * n + n
    OBVIOUS
  <2>1. Copies(c, k * n + n) = Copies(c, k * n) \o d
    BY <2>0, CopiesJoined DEF d
  <2>2. Copies(d, k + 1) = Copies(d, k) \o d
    BY <1>0, <2>0, CopiesOneMore
  <2>3. Copies(c, k * n) = Copies(d, k)
    OBVIOUS
  <2> QED BY <2>0, <2>1, <2>2, <2>3
<1>3. N = Nat
  <2> HIDE DEF N
  <2>1. N \in SUBSET Nat
    BY DEF N
  <2> QED BY <1>1, <1>2, <2>1, Induction
<1> QED BY <1>3 DEF d

(* No lines stay no lines, however often.                                  *)
LEMMA CopiesOfNone == ASSUME NEW n \in Nat PROVE Copies(<<>>, n) = <<>>
<1> DEFINE N == {k \in Nat : Copies(<<>>, k) = <<>>}
<1>1. 0 \in N
  BY CopiesNone
<1>2. ASSUME NEW k \in N PROVE k + 1 \in N
  <2>0. k \in Nat /\ k + 1 \in Nat /\ Copies(<<>>, k) = <<>>
    OBVIOUS
  <2>1. Copies(<<>>, k + 1) = Copies(<<>>, k) \o <<>>
    BY <2>0, NoneSeq, CopiesOneMore
  <2>2. <<>> \o <<>> = <<>>
    BY NoneSeq, JoinedNone
  <2> QED BY <2>0, <2>1, <2>2
<1>3. N = Nat
  <2> HIDE DEF N
  <2>1. N \in SUBSET Nat
    BY DEF N
  <2> QED BY <1>1, <1>2, <2>1, Induction
<1> QED BY <1>3

(* A run that passes may be repeated, each time with other lines.          *)
LEMMA PassesCopies ==
  ASSUME NEW j, NEW held, IsSeq(held), NEW n \in Nat, NEW a,
         NEW x, NEW y, Tuple(x, n), Tuple(y, n), \A t \in 1 .. n : Passes(j, held, a, x[t], y[t])
  PROVE  Passes(j, held, Copies(a, n), FlattenSeq(x), FlattenSeq(y))
<1> DEFINE s == [i \in 1 .. n |-> a]
<1>1. Tuple(s, n) /\ \A t \in 1 .. n : s[t] = a
  BY DEF Tuple
<1>2. Copies(a, n) = FlattenSeq(s)
  BY DEF Copies
<1> HIDE DEF s
<1>3. \A t \in 1 .. n : Passes(j, held, s[t], x[t], y[t])
  BY <1>1
<1>4. Passes(j, held, FlattenSeq(s), FlattenSeq(x), FlattenSeq(y))
  BY <1>1, <1>3, PassesParts
<1> QED BY <1>2, <1>4

-----------------------------------------------------------------------------
(* Lines that need the program held, whatever it is afterwards.            *)
Leaves(j, held, a, x, y) ==
  /\ IsSeq(a) /\ IsSeq(x) /\ IsSeq(y)
  /\ \A asm, addr, data : Ready(j, <<>>, asm, addr, data) =>
                            Ready(j, held, a \o asm, x \o addr, y \o data)

(* Lines that keep the program, and after them lines that need not.        *)
LEMMA LeavesJoined ==
  ASSUME NEW j, NEW held, IsSeq(held), NEW a, NEW x, NEW y, Passes(j, held, a, x, y),
         NEW b, NEW z, NEW w, Leaves(j, held, b, z, w)
  PROVE  Leaves(j, held, a \o b, x \o z, y \o w)
<1>1. IsSeq(a) /\ IsSeq(b)
  BY DEF Passes, Leaves
<1>2. IsSeq(x) /\ IsSeq(z)
  BY DEF Passes, Leaves
<1>3. IsSeq(y) /\ IsSeq(w)
  BY DEF Passes, Leaves
<1>4. IsSeq(a \o b) /\ IsSeq(x \o z) /\ IsSeq(y \o w)
  BY <1>1, <1>2, <1>3, JoinedLen
<1>5. ASSUME NEW asm, NEW addr, NEW data, Ready(j, <<>>, asm, addr, data)
      PROVE  Ready(j, held, (a \o b) \o asm, (x \o z) \o addr, (y \o w) \o data)
  <2>1. Ready(j, held, a \o (b \o asm), x \o (z \o addr), y \o (w \o data))
    BY <1>5 DEF Passes, Leaves
  <2>2. IsSeq(asm) /\ IsSeq(addr) /\ IsSeq(data)
    BY <1>5, NoneSeq, ReadySeqs
  <2>3. (a \o b) \o asm = a \o (b \o asm)
    <3> SUFFICES IsSeq(asm)
      BY <1>1, Regroup
    <3> QED BY <2>2
  <2>4. (x \o z) \o addr = x \o (z \o addr)
    <3> SUFFICES IsSeq(addr)
      BY <1>2, Regroup, SMTT(30)
    <3> QED BY <2>2
  <2>5. (y \o w) \o data = y \o (w \o data)
    <3> SUFFICES IsSeq(data)
      BY <1>3, Regroup
    <3> QED BY <2>2
  <2> QED BY <2>1, <2>3, <2>4, <2>5
<1> QED BY <1>4, <1>5 DEF Leaves

(* The lines of a program that has been written. *)
LEMMA WrittenLeaves ==
  ASSUME NEW j, NEW n \in Nat, NEW held, Code(j, held, n), n <= j.CRF_ENTRIES,
         NEW a, NEW x, NEW y, Leaves(j, held, a, x, y)
  PROVE  Passes(j, <<>>, Section(0, held) \o a, x, y)
<1>1. IsSeq(held) /\ Len(held) = n /\ \A i \in 1 .. n : GoodInstr(j, held[i])
  BY DEF Code
<1>2. IsSeq(a) /\ IsSeq(x) /\ IsSeq(y) /\ IsSeq(Section(0, held))
  BY OneSeq DEF Leaves, Section
<1>3. ASSUME NEW asm, NEW addr, NEW data, Ready(j, <<>>, asm, addr, data), NEW prog
      PROVE  InStep(j, (Section(0, held) \o a) \o asm, x \o addr, y \o data, prog, {}, -1, 0)
  <2>2. Ready(j, held, a \o asm, x \o addr, y \o data)
    BY <1>3 DEF Leaves
  <2>3. InStep(j, a \o asm, x \o addr, y \o data, Written(prog, 0, held), {}, -1, 0)
    BY <1>1, <2>2, HoldsWritten DEF Ready
  <2>4. InStep(j, Section(0, held) \o (a \o asm), x \o addr, y \o data, prog, {}, -1, 0)
    BY <1>1, <2>3, CrfLine
  <2>5. IsSeq(asm)
    BY <1>3, ReadySeqs, NoneSeq
  <2>6. (Section(0, held) \o a) \o asm = Section(0, held) \o (a \o asm)
    BY <1>2, <2>5, Regroup, SMTT(30)
  <2> QED BY <2>4, <2>6
<1>4. ASSUME NEW asm, NEW addr, NEW data, Ready(j, <<>>, asm, addr, data)
      PROVE  Ready(j, <<>>, (Section(0, held) \o a) \o asm, x \o addr, y \o data)
  BY <1>3, <1>4 DEF Ready
<1>5. IsSeq(Section(0, held) \o a)
  BY <1>2, JoinedLen
<1> QED BY <1>2, <1>4, <1>5 DEF Passes

(* A program begins with kept; what follows is overwritten. *)
Begins(held, kept) ==
  Len(kept) <= Len(held) /\ \A i \in 1 .. Len(kept) : held[i] = kept[i]

(* A CRF that holds two programs one behind the other holds both as one.   *)
LEMMA HoldsJoined ==
  ASSUME NEW prog, NEW s, NEW t, IsSeq(s), IsSeq(t), Holds(prog, 0, s), Holds(prog, Len(s), t)
  PROVE  Holds(prog, 0, s \o t)
<1>1. Len(s) \in Nat /\ Len(t) \in Nat /\ Len(s \o t) = Len(s) + Len(t)
  BY SeqFacts, JoinedLen
<1> SUFFICES ASSUME NEW i \in 1 .. Len(s) + Len(t)
             PROVE  0 + i - 1 \in DOMAIN prog /\ prog[0 + i - 1] = (s \o t)[i]
  BY <1>1 DEF Holds
<1>2. (s \o t)[i] = IF i <= Len(s) THEN s[i] ELSE t[i - Len(s)]
  BY Joined
<1>3. CASE i <= Len(s)
  <2>1. i \in 1 .. Len(s)
    BY <1>1, <1>3
  <2> QED BY <1>2, <1>3, <2>1 DEF Holds
<1>4. CASE ~(i <= Len(s))
  <2> DEFINE k == i - Len(s)
  <2>1. k \in 1 .. Len(t) /\ Len(s) + k - 1 = 0 + i - 1
    BY <1>1, <1>4
  <2> HIDE DEF k
  <2>2. Len(s) + k - 1 \in DOMAIN prog /\ prog[Len(s) + k - 1] = t[k]
    BY <2>1 DEF Holds
  <2> QED BY <1>2, <1>4, <2>1, <2>2 DEF k
<1> QED BY <1>3, <1>4

(* A new end is written behind the part of the program that is kept.       *)
LEMMA OverwriteLeaves ==
  ASSUME NEW j, NEW held, NEW kept, IsSeq(held), IsSeq(kept), Begins(held, kept),
         NEW n \in Nat, NEW end, Code(j, end, n), Len(kept) + n <= j.CRF_ENTRIES,
         NEW a, NEW x, NEW y, Passes(j, kept \o end, a, x, y)
  PROVE  Leaves(j, held, Section(Len(kept), end) \o a, x, y)
<1> DEFINE at == Len(kept)
<1>1. IsSeq(end) /\ Len(end) = n /\ \A i \in 1 .. n : GoodInstr(j, end[i])
  BY DEF Code
<1>2. IsSeq(a) /\ IsSeq(x) /\ IsSeq(y) /\ IsSeq(Section(at, end))
  BY OneSeq DEF Passes, Section
<1>3. at \in Nat /\ Len(held) \in Nat
  BY SeqFacts
<1> HIDE DEF at
<1>4. ASSUME NEW asm, NEW addr, NEW data, Ready(j, <<>>, asm, addr, data),
             NEW prog, Holds(prog, 0, held)
      PROVE  InStep(j, (Section(at, end) \o a) \o asm, x \o addr, y \o data, prog, {}, -1, 0)
  <2> DEFINE new == Written(prog, at, end)
  <2>1. Holds(prog, 0, kept)
    <3> SUFFICES ASSUME NEW i \in 1 .. at
                 PROVE  0 + i - 1 \in DOMAIN prog /\ prog[0 + i - 1] = kept[i]
      BY DEF Holds, at
    <3>1. i \in 1 .. Len(held) /\ held[i] = kept[i]
      BY <1>3 DEF Begins, at
    <3> QED BY <1>4, <3>1 DEF Holds
  <2>2. Holds(new, 0, kept)
    <3>1. Len(kept) <= at
      BY <1>3 DEF at
    <3> QED BY <1>3, <2>1, <3>1, HoldsBefore
  <2>3. Holds(new, at, end)
    BY <1>1, <1>3, HoldsWritten
  <2> HIDE DEF new
  <2>4. Holds(new, 0, kept \o end)
    BY <1>1, <2>2, <2>3, HoldsJoined DEF at
  <2>5. Ready(j, kept \o end, asm, addr, data)
    BY <1>4, HoldsNone DEF Ready
  <2>6. InStep(j, a \o asm, x \o addr, y \o data, new, {}, -1, 0)
    <3> DEFINE whole == kept \o end
               lines == a \o asm
               columns == x \o addr
               words == y \o data
    <3>1. Ready(j, whole, lines, columns, words)
      BY <2>5 DEF Passes
    <3>2. Holds(new, 0, whole)
      BY <2>4
    <3> HIDE DEF whole, lines, columns, words
    <3>3. InStep(j, lines, columns, words, new, {}, -1, 0)
      BY <3>1, <3>2 DEF Ready
    <3> QED BY <3>3 DEF lines, columns, words
  <2>7. InStep(j, Section(at, end) \o (a \o asm), x \o addr, y \o data, prog, {}, -1, 0)
    <3>1. at + Len(end) <= j.CRF_ENTRIES
      BY <1>1 DEF at
    <3> QED BY <1>1, <1>3, <2>6, <3>1, CrfLine DEF new
  <2>8. IsSeq(asm)
    BY <1>4, ReadySeqs, NoneSeq
  <2>9. (Section(at, end) \o a) \o asm = Section(at, end) \o (a \o asm)
    <3>1. ThreeSeqs(Section(at, end), a, asm)
      BY <1>2, <2>8 DEF ThreeSeqs
    <3> QED BY <3>1, RegroupThree
  <2> QED BY <2>7, <2>9
<1>5. ASSUME NEW asm, NEW addr, NEW data, Ready(j, <<>>, asm, addr, data)
      PROVE  Ready(j, held, (Section(at, end) \o a) \o asm, x \o addr, y \o data)
  BY <1>4, <1>5 DEF Ready
<1>6. IsSeq(Section(at, end) \o a)
  BY <1>2, JoinedLen
<1> QED BY <1>2, <1>5, <1>6 DEF Leaves, at

(***************************************************************************)
(* The product of two matrices.                                            *)
(***************************************************************************)

(* The sets of scalars of a product: they fit the registers and the CRF.   *)
LEMMA MmSizes ==
  ASSUME NEW j, Mapped(j), j.kernel = "MMS"
  PROVE  /\ MmSegment(j) \in Nat \ {0} /\ MmSegment(j) <= j.SRF_M_ENTRIES
         /\ MmSegment(j) + 4 <= j.CRF_ENTRIES
         /\ MmSets(j) \in Nat /\ MmPeeling(j) \in Nat /\ MmPeeling(j) < MmSegment(j)
         /\ MmLoops(j) \in Nat \ {0} /\ j.m \in Nat
<1> DEFINE C == j.CRF_ENTRIES
           M == j.SRF_M_ENTRIES
           s == MmSegment(j)
<1>1. /\ C \in Nat /\ C >= 5 /\ M \in Nat \ {0} /\ j.m \in Nat /\ j.n \in Nat /\ j.q \in Nat \ {0}
  BY DEF Mapped, Fewest, Sizes
<1>2. SIMD_WIDTH \in Nat \ {0}
  BY KernelFilesAssumption
<1>3. MmLoops(j) \in Nat \ {0}
  BY <1>1, <1>2, CeilDivNat DEF MmLoops
<1>4. s = IF C >= M + 4 THEN M ELSE Smaller(C - 4, M)
  BY DEF MmSegment, MmRLim
<1>5. Smaller(C - 4, M) \in {C - 4, M} /\ Smaller(C - 4, M) <= C - 4 /\ Smaller(C - 4, M) <= M
  <2>1. C - 4 \in Int /\ M \in Int
    BY <1>1
  <2> HIDE DEF C, M
  <2> QED BY <2>1, SmallerFacts
<1> HIDE DEF C, M, s
<1>6. s \in Nat \ {0} /\ s <= M /\ s + 4 <= C
  BY <1>1, <1>4, <1>5
<1>7. j.n \div s \in Nat /\ j.n % s \in 0 .. s - 1
  BY <1>1, <1>6, DivMod
<1>8. MmSets(j) \in Nat /\ MmPeeling(j) \in Nat /\ MmPeeling(j) < s
  BY <1>6, <1>7 DEF MmSets, MmPeeling, s
<1> QED BY <1>1, <1>3, <1>6, <1>8 DEF C, M, s

(* Before the end the program has a load and a MAC per scalar. *)
MmBody(n) == <<Mov(GrfB0, Odd)>> \o [k \in 1 .. n |-> ScalarMac(k - 1)]

(* The MACs of a set multiply with the scalars from number 0 on.           *)
LEMMA MmMacsCode ==
  ASSUME NEW n \in Nat
  PROVE  ScalarMacs([k \in 1 .. n |-> ScalarMac(k - 1)], n, 0)
<1> DEFINE macs == [k \in 1 .. n |-> ScalarMac(k - 1)]
<1>1. IsSeq(macs) /\ Len(macs) = n
  BY FunSeq
<1>2. ASSUME NEW k \in 1 .. n PROVE macs[k] = ScalarMac(k - 1 + 0)
  <2>1. k - 1 + 0 = k - 1
    OBVIOUS
  <2> QED BY <2>1
<1> HIDE DEF macs
<1>3. ScalarMacs(macs, n, 0)
  BY <1>1, <1>2 DEF ScalarMacs
<1> QED BY <1>3 DEF macs

(* The program of a set, its length, and its end.                          *)
LEMMA MmBodyFacts ==
  ASSUME NEW j, Mapped(j), NEW n \in Nat, n <= j.SRF_M_ENTRIES
  PROVE  /\ Code(j, MmBody(n), 1 + n)
         /\ MmProgram(j, n, n) = MmBody(n) \o SumEnd((1 + n) + 1, MmLoops(j))
         /\ MmEnd(j, n) = SumEnd((1 + n) + 1, MmLoops(j))
         /\ \E m \in {2, 3} : /\ Code(j, MmEnd(j, n), m)
                              /\ Code(j, MmProgram(j, n, n), (1 + n) + m)
<1> DEFINE macs == [k \in 1 .. n |-> ScalarMac(k - 1)]
<1>1. ScalarMacs(macs, n, 0)
  BY MmMacsCode
<1>2. MmBody(n) = <<Mov(GrfB0, Odd)>> \o macs
  BY DEF MmBody
<1>3. MmProgram(j, n, n) = MmBody(n) \o MmEnd(j, n)
  BY DEF MmProgram, MmBody
<1>4. MmEnd(j, n) = SumEnd((1 + n) + 1, MmLoops(j))
  <2>1. n + 2 = (1 + n) + 1
    OBVIOUS
  <2>2. MmEnd(j, n) = SumEnd(n + 2, MmLoops(j))
    BY DEF MmEnd, SumEnd
  <2> QED BY <2>1, <2>2
<1> HIDE DEF macs
<1>5. Code(j, macs, n)
  <2>1. n + 0 <= j.SRF_M_ENTRIES /\ 0 \in Nat
    BY RegisterFacts
  <2> QED BY <1>1, <2>1, ScalarMacsCode
<1>6. Code(j, <<Mov(GrfB0, Odd)>>, 1)
  <2>1. GoodInstr(j, Mov(GrfB0, Odd))
    BY RegisterFacts, Banks, GoodMov DEF Odd
  <2> QED BY <2>1, CodeOne
<1>7. Code(j, MmBody(n), 1 + n)
  BY <1>2, <1>5, <1>6, CodeJoined
<1>8. PICK m \in {2, 3} : Code(j, MmEnd(j, n), m)
  BY <1>4, SumEndCode
<1>9. Code(j, MmBody(n) \o MmEnd(j, n), (1 + n) + m)
  <2>1. m \in Nat /\ 1 + n \in Nat
    OBVIOUS
  <2> QED BY <1>7, <1>8, <2>1, CodeJoined
<1> QED BY <1>3, <1>4, <1>7, <1>8, <1>9

(* A turn that begins with the sums so far. *)
LEMMA MmTurns ==
  ASSUME NEW j, Mapped(j), NEW n \in Nat, n <= j.SRF_M_ENTRIES,
         NEW col, col[1] = Odd[1], NEW x, IsSeq(x), Len(x) = n,
         \A i \in 1 .. n : x[i][1] = Bank(i - 1)[1],
         NEW line, Len(line) = SIMD_WIDTH, NEW y, Lines(y, n)
  PROVE  Turn(j, MmBody(n), 1 + n, <<col>> \o x, <<line>> \o y, Given(n))
<1> DEFINE ins == Mov(GrfB0, Odd)
           macs == [k \in 1 .. n |-> ScalarMac(k - 1)]
<1>1. ~IsBank(GrfB0) /\ IsBank(Odd)
  BY Banks DEF GrfB0, Odd
<1>2. LoadsFrom(ins, col, Given(n)) /\ ins.dst = GrfB0
  BY <1>1, MovLoads
<1>3. GoodInstr(j, ins)
  BY RegisterFacts, Banks, GoodMov DEF Odd
<1>4. ScalarMacs(macs, n, 0)
  BY MmMacsCode
<1>5. \A i \in 0 .. n - 1 : SrfM(i + 0) \in Given(n)
  <2> SUFFICES ASSUME NEW i \in 0 .. n - 1 PROVE SrfM(i + 0) \in Given(n)
    OBVIOUS
  <2>1. i + 0 = i
    OBVIOUS
  <2> QED BY <2>1 DEF Given
<1>6. \A i \in 1 .. n : x[i][1] = Bank(i - 1 + 0)[1]
  <2> SUFFICES ASSUME NEW i \in 1 .. n PROVE x[i][1] = Bank(i - 1 + 0)[1]
    OBVIOUS
  <2>1. i - 1 + 0 = i - 1
    OBVIOUS
  <2> QED BY <2>1
<1>7. n + 0 <= j.SRF_M_ENTRIES /\ 0 \in Nat
  BY RegisterFacts
<1>8. MmBody(n) = <<ins>> \o macs
  BY DEF MmBody
<1> HIDE DEF ins, macs
<1>9. Turn(j, <<ins>> \o macs, 1 + n, <<col>> \o x, <<line>> \o y, Given(n))
  BY <1>2, <1>3, <1>4, <1>5, <1>6, <1>7, BeginTurn
<1> QED BY <1>8, <1>9

(* The lines of a set of scalars. *)
SetLines(data, n, loops) ==
  \E w, y : /\ data = FlattenSeq(w) \o FlattenSeq(y)
            /\ Tuple(w, n) /\ \A i \in 1 .. n : Single(w[i]) /\ Len(w[i][1]) = 1
            /\ Tuple(y, loops)
            /\ \A t \in 1 .. loops : \E line, words :
                 y[t] = <<line>> \o words /\ Len(line) = SIMD_WIDTH /\ Lines(words, n)

(* A line for a scalar register holds one value.                           *)
LEMMA ScalarLineFacts == ASSUME NEW e PROVE Len(ScalarLine(e)) = 1
  BY OneSeq DEF ScalarLine

(* The data lines of a set: a line for each scalar, then those of the      *)
(* turns.                                                                  *)
LEMMA MmSetLines ==
  ASSUME NEW j, NEW i, NEW first, NEW n \in Nat
  PROVE  SetLines(MmSetData(j, i, first, n), n, MmLoops(j))
<1> DEFINE E(t) == ScalarLine(<<"op1", i, first + t>>)
           w == [t \in 1 .. n |-> <<E(t - 1)>>]
           Sum(k, x) == LET col == k * SIMD_WIDTH + x
                        IN IF col < j.q THEN partMatMultDP(i, col, first) ELSE Zero
           Elem(k, t, x) == LET col == k * SIMD_WIDTH + x
                            IN IF col < j.q THEN Element(<<"op2", first + t, col>>) ELSE Zero
           SumLine(k) == [x \in 1 .. SIMD_WIDTH |-> Sum(k, x - 1)]
           ElemLine(k, t) == [x \in 1 .. SIMD_WIDTH |-> Elem(k, t, x - 1)]
           words(k) == [t \in 1 .. n |-> <<ElemLine(k, t - 1)>>]
           y == [k \in 1 .. MmLoops(j) |-> <<SumLine(k - 1)>> \o FlattenSeq(words(k - 1))]
<1>1. MmSetData(j, i, first, n) = FlattenSeq(w) \o FlattenSeq(y)
  BY DEF MmSetData, For, Line
<1>2. Tuple(w, n)
  BY DEF Tuple
<1>3. ASSUME NEW t \in 1 .. n PROVE Single(w[t]) /\ Len(w[t][1]) = 1
  <2>1. w[t] = <<E(t - 1)>> /\ Len(E(t - 1)) = 1
    BY ScalarLineFacts
  <2> HIDE DEF E, w
  <2> QED BY <2>1, OneSeq DEF Single
<1>4. Tuple(y, MmLoops(j))
  BY DEF Tuple
<1>5. SIMD_WIDTH \in Nat
  BY KernelFilesAssumption
<1> HIDE DEF w, E, Sum, Elem
<1>6. ASSUME NEW k \in 1 .. MmLoops(j)
      PROVE  \E line, u : y[k] = <<line>> \o u /\ Len(line) = SIMD_WIDTH /\ Lines(u, n)
  <2>1. y[k] = <<SumLine(k - 1)>> \o FlattenSeq(words(k - 1))
    OBVIOUS
  <2>2. Len(SumLine(k - 1)) = SIMD_WIDTH
    BY <1>5
  <2>3. Tuple(words(k - 1), n)
    BY DEF Tuple
  <2>4. ASSUME NEW t \in 1 .. n
        PROVE  Single(words(k - 1)[t]) /\ Len(words(k - 1)[t][1]) = SIMD_WIDTH
    <3>1. words(k - 1)[t] = <<ElemLine(k - 1, t - 1)>> /\ Len(ElemLine(k - 1, t - 1)) = SIMD_WIDTH
      BY <1>5
    <3> HIDE DEF words, ElemLine, y
    <3> QED BY <3>1, OneSeq DEF Single
  <2> HIDE DEF y, SumLine, words
  <2>5. Lines(FlattenSeq(words(k - 1)), n)
    BY <2>3, <2>4, SingleLines
  <2> QED BY <2>1, <2>2, <2>5
<1> HIDE DEF y
<1> QED BY <1>1, <1>2, <1>3, <1>4, <1>6, ZenonT(60) DEF SetLines

(* The columns of a turn: the sums so far, a column per scalar, the sums.  *)
TurnOf(x, n, first, cols, last) ==
  /\ x = (<<first>> \o cols) \o <<last>> /\ first[1] = Odd[1] /\ last[1] = Odd[1]
  /\ IsSeq(cols) /\ Len(cols) = n /\ \A i \in 1 .. n : cols[i][1] = Bank(i - 1)[1]
SetColumns(x, n) == \E first, cols, last : TurnOf(x, n, first, cols, last)

(* A turn of a product has the columns of a set.                           *)
LEMMA MmTurnColumns ==
  ASSUME NEW j, NEW fresh, NEW i, NEW k, NEW start, NEW n \in Nat
  PROVE  SetColumns(MmTurn(j, fresh, i, k, start, n), n)
<1> DEFINE cols == [t \in 1 .. n |-> Column(Bank(t - 1), start + ((t - 1) \div 2) * MmRowColumns(j))]
<1>1. IsSeq(cols) /\ Len(cols) = n
  BY FunSeq
<1>2. \A t \in 1 .. n : cols[t][1] = Bank(t - 1)[1]
  BY DEF Column
<1>0. ASSUME NEW number PROVE Column(Odd, number)[1] = Odd[1]
  BY DEF Column
<1>3. PICK c : MmZeros(j) = <<c>> /\ c[1] = Odd[1]
  BY <1>0 DEF MmZeros
<1>4. PICK d : MmResult(j, i, k) = <<d>> /\ d[1] = Odd[1]
  BY <1>0 DEF MmResult
<1>5. MmTurn(j, fresh, i, k, start, n)
        = ((IF fresh THEN MmZeros(j) ELSE MmResult(j, i, k)) \o cols) \o MmResult(j, i, k)
  BY DEF MmTurn
<1> HIDE DEF cols
<1>6. PICK first : /\ (IF fresh THEN MmZeros(j) ELSE MmResult(j, i, k)) = <<first>>
                   /\ first[1] = Odd[1]
  BY <1>3, <1>4
<1>7. MmTurn(j, fresh, i, k, start, n) = (<<first>> \o cols) \o <<d>>
  BY <1>4, <1>5, <1>6
<1> DEFINE whole == (<<first>> \o cols) \o <<d>>
<1>8. SetColumns(whole, n)
  <2>1. first[1] = Odd[1] /\ d[1] = Odd[1]
    BY <1>4, <1>6
  <2>2. TurnOf(whole, n, first, cols, d)
    BY <1>1, <1>2, <2>1 DEF TurnOf
  <2> QED BY <2>2 DEF SetColumns
<1>9. MmTurn(j, fresh, i, k, start, n) = whole
  BY <1>7
<1> HIDE DEF whole
<1> QED BY <1>8, <1>9

(* A run with the sums so far, of products and of convolutions.            *)
LEMMA SetPasses ==
  ASSUME NEW j, Mapped(j), NEW n \in Nat, n <= j.SRF_M_ENTRIES, NEW loops \in Nat \ {0},
         NEW x, Tuple(x, loops), \A t \in 1 .. loops : SetColumns(x[t], n),
         NEW data, SetLines(data, n, loops)
  PROVE  Passes(j, MmBody(n) \o SumEnd((1 + n) + 1, loops), Weights(n) \o Exec, FlattenSeq(x), data)
<1>1. PICK w, y : /\ data = FlattenSeq(w) \o FlattenSeq(y)
                  /\ Tuple(w, n) /\ \A i \in 1 .. n : Single(w[i]) /\ Len(w[i][1]) = 1
                  /\ Tuple(y, loops)
                  /\ \A t \in 1 .. loops : \E line, words :
                       y[t] = <<line>> \o words /\ Len(line) = SIMD_WIDTH /\ Lines(words, n)
  BY DEF SetLines
<1> DEFINE held == MmBody(n) \o SumEnd((1 + n) + 1, loops)
<1>2. ASSUME NEW t \in 1 .. loops
      PROVE  \E mid, col : /\ x[t] = mid \o <<col>> /\ col[1] = Odd[1]
                           /\ Turn(j, MmBody(n), 1 + n, mid, y[t], Given(n))
  <2>0. PICK first, cols, last : TurnOf(x[t], n, first, cols, last)
    BY DEF SetColumns
  <2>1. /\ x[t] = (<<first>> \o cols) \o <<last>> /\ first[1] = Odd[1] /\ last[1] = Odd[1]
        /\ IsSeq(cols) /\ Len(cols) = n /\ \A i \in 1 .. n : cols[i][1] = Bank(i - 1)[1]
    BY <2>0 DEF TurnOf
  <2>2. PICK line, words : y[t] = <<line>> \o words /\ Len(line) = SIMD_WIDTH /\ Lines(words, n)
    BY <1>1
  <2>3. Turn(j, MmBody(n), 1 + n, <<first>> \o cols, <<line>> \o words, Given(n))
    BY <2>1, <2>2, MmTurns
  <2> QED BY <2>1, <2>2, <2>3
<1>3. Code(j, MmBody(n), 1 + n) /\ 1 + n \in Nat
  BY MmBodyFacts
<1>4. /\ IsSeq(FlattenSeq(x)) /\ IsSeq(FlattenSeq(y))
      /\ Walks(j, held, FlattenSeq(x), FlattenSeq(y), Given(n))
  BY <1>1, <1>2, <1>3, SumWalks
<1>5. IsSeq(held)
  <2>1. \E m \in {2, 3} : Code(j, SumEnd((1 + n) + 1, loops), m)
    BY SumEndCode
  <2>2. IsSeq(SumEnd((1 + n) + 1, loops)) /\ IsSeq(MmBody(n))
    BY <1>3, <2>1 DEF Code
  <2> QED BY <2>2, JoinedLen
<1> HIDE DEF held
<1>6. Passes(j, held, Weights(n) \o Exec, FlattenSeq(x), FlattenSeq(w) \o FlattenSeq(y))
  BY <1>1, <1>4, <1>5, GivenPasses
<1> QED BY <1>1, <1>6 DEF held

(* Nothing, any number of times.                                           *)
LEMMA FlattenAllNone ==
  ASSUME NEW n \in Nat, NEW x, Tuple(x, n), \A i \in 1 .. n : x[i] = <<>>
  PROVE  FlattenSeq(x) = <<>>
<1> DEFINE s == [i \in 1 .. n |-> <<>>]
<1>1. x = s
  <2>1. x = [i \in 1 .. n |-> x[i]]
    BY DEF Tuple
  <2>2. [i \in 1 .. n |-> x[i]] = s
    OBVIOUS
  <2> HIDE DEF s
  <2> QED BY <2>1, <2>2
<1>2. Copies(<<>>, n) = FlattenSeq(s)
  BY DEF Copies
<1> HIDE DEF s
<1> QED BY <1>1, <1>2, CopiesOfNone

(* The runs of a product, with all scalars of a set or with what is left.  *)
MmRuns(times, n) == For(times, LAMBDA i : Weights(n) \o Exec)
MmFullAddresses(j) ==
  For(j.m, LAMBDA i : For(MmSets(j), LAMBDA s : For(MmLoops(j), LAMBDA k :
    MmTurn(j, s = 0, i, k, MmOp2Base(j) + s * MmSetColumns(j) + k, MmMacs(j)))))
MmFullData(j) ==
  For(j.m, LAMBDA i : For(MmSets(j), LAMBDA s :
    MmSetData(j, i, s * MmSegment(j), MmSegment(j))))
MmPeeledData(j) ==
  For(j.m, LAMBDA i : MmSetData(j, i, MmSets(j) * MmSegment(j), MmPeeling(j)))

(* The program of a set is a sequence.                                     *)
LEMMA MmProgramSeq ==
  ASSUME NEW j, Mapped(j), NEW n \in Nat, n <= j.SRF_M_ENTRIES
  PROVE  IsSeq(MmProgram(j, n, n))
<1>1. PICK m \in {2, 3} : Code(j, MmProgram(j, n, n), (1 + n) + m)
  BY MmBodyFacts
<1> QED BY <1>1 DEF Code

(* The assembly lines that pass are a sequence.                            *)
LEMMA RunSeq ==
  ASSUME NEW j, Mapped(j), NEW held, NEW a, NEW x, NEW y, Passes(j, held, a, x, y)
  PROVE  IsSeq(a)
  BY DEF Passes

(* A set of a product passes behind the program for it.                    *)
LEMMA MmSetPasses ==
  ASSUME NEW j, Mapped(j), j.kernel = "MMS", NEW n \in Nat, n <= j.SRF_M_ENTRIES,
         NEW x, Tuple(x, MmLoops(j)), \A t \in 1 .. MmLoops(j) : SetColumns(x[t], n),
         NEW i, NEW first
  PROVE  Passes(j, MmProgram(j, n, n), Weights(n) \o Exec, FlattenSeq(x), MmSetData(j, i, first, n))
<1>1. SetLines(MmSetData(j, i, first, n), n, MmLoops(j))
  BY MmSetLines
<1>2. MmLoops(j) \in Nat \ {0}
  BY MmSizes
<1>3. MmProgram(j, n, n) = MmBody(n) \o SumEnd((1 + n) + 1, MmLoops(j))
  BY MmBodyFacts
<1> DEFINE data == MmSetData(j, i, first, n)
           loops == MmLoops(j)
<1> HIDE DEF data, loops
<1>4. Passes(j, MmBody(n) \o SumEnd((1 + n) + 1, loops), Weights(n) \o Exec, FlattenSeq(x), data)
  BY <1>1, <1>2, SetPasses DEF data, loops
<1> QED BY <1>3, <1>4 DEF data, loops

(* All full sets of all rows ...                                           *)
LEMMA MmFullPasses ==
  ASSUME NEW j, Mapped(j), Handled(j), j.kernel = "MMS"
  PROVE  Passes(j, MmProgram(j, MmSegment(j), MmSegment(j)), MmRuns(j.m * MmSets(j), MmSegment(j)),
                MmFullAddresses(j), MmFullData(j))
<1> DEFINE n == MmSegment(j)
           run == Weights(n) \o Exec
           held == MmProgram(j, n, n)
           X(i, s) == [t \in 1 .. MmLoops(j) |->
                         MmTurn(j, s = 0, i, t - 1, MmOp2Base(j) + s * MmSetColumns(j) + (t - 1), MmMacs(j))]
           x(i) == [s \in 1 .. MmSets(j) |-> FlattenSeq(X(i, s - 1))]
           y(i) == [s \in 1 .. MmSets(j) |-> MmSetData(j, i, (s - 1) * n, n)]
           z == [i \in 1 .. j.m |-> FlattenSeq(x(i - 1))]
           w == [i \in 1 .. j.m |-> FlattenSeq(y(i - 1))]
<1>1. n \in Nat /\ n <= j.SRF_M_ENTRIES /\ MmSets(j) \in Nat /\ j.m \in Nat
  BY MmSizes
<1>2. MmFullAddresses(j) = FlattenSeq(z) /\ MmFullData(j) = FlattenSeq(w)
  BY DEF MmFullAddresses, MmFullData, For
<1>3. MmRuns(j.m * MmSets(j), n) = Copies(run, j.m * MmSets(j))
  BY DEF MmRuns, For, Copies
<1>4. IsSeq(held)
  <2> HIDE DEF n
  <2> QED BY <1>1, MmProgramSeq
<1>5. ASSUME NEW i, NEW s
      PROVE  Passes(j, held, run, FlattenSeq(X(i, s)), MmSetData(j, i, s * n, n))
  <2>1. Tuple(X(i, s), MmLoops(j))
    BY DEF Tuple
  <2>2. ASSUME NEW t \in 1 .. MmLoops(j) PROVE SetColumns(X(i, s)[t], n)
    <3>1. X(i, s)[t]
            = MmTurn(j, s = 0, i, t - 1, MmOp2Base(j) + s * MmSetColumns(j) + (t - 1), MmMacs(j))
      OBVIOUS
    <3>2. MmMacs(j) = n
      BY DEF Handled
    <3> HIDE DEF X, n
    <3> QED BY <1>1, <3>1, <3>2, MmTurnColumns
  <2> HIDE DEF X, n
  <2> QED BY <1>1, <2>1, <2>2, MmSetPasses
<1>6. ASSUME NEW i PROVE Passes(j, held, Copies(run, MmSets(j)), FlattenSeq(x(i)), FlattenSeq(y(i)))
  <2>1. Tuple(x(i), MmSets(j)) /\ Tuple(y(i), MmSets(j))
    BY DEF Tuple
  <2>2. \A s \in 1 .. MmSets(j) : /\ x(i)[s] = FlattenSeq(X(i, s - 1))
                                  /\ y(i)[s] = MmSetData(j, i, (s - 1) * n, n)
    OBVIOUS
  <2> HIDE DEF x, y, held, run, X, n
  <2>3. \A s \in 1 .. MmSets(j) : Passes(j, held, run, x(i)[s], y(i)[s])
    BY <1>5, <2>2
  <2> QED BY <1>1, <1>4, <2>1, <2>3, PassesCopies
<1>7. Tuple(z, j.m) /\ Tuple(w, j.m)
  BY DEF Tuple
<1>8. \A i \in 1 .. j.m : z[i] = FlattenSeq(x(i - 1)) /\ w[i] = FlattenSeq(y(i - 1))
  OBVIOUS
<1> HIDE DEF x, y, z, w, held, run, n
<1>9. \A i \in 1 .. j.m : Passes(j, held, Copies(run, MmSets(j)), z[i], w[i])
  BY <1>6, <1>8
<1>10. Passes(j, held, Copies(Copies(run, MmSets(j)), j.m), FlattenSeq(z), FlattenSeq(w))
  BY <1>1, <1>4, <1>7, <1>9, PassesCopies
<1>11. IsSeq(run)
  <2>1. Passes(j, held, run, FlattenSeq(X(0, 0)), MmSetData(j, 0, 0 * n, n))
    BY <1>5
  <2> QED BY <2>1, RunSeq
<1>12. Copies(run, j.m * MmSets(j)) = Copies(Copies(run, MmSets(j)), j.m)
  BY <1>1, <1>11, CopiesOfCopies
<1> QED BY <1>2, <1>3, <1>10, <1>12 DEF held, n

(* ... and of each row what is left of them.                               *)
LEMMA MmPeeledPasses ==
  ASSUME NEW j, Mapped(j), j.kernel = "MMS"
  PROVE  Passes(j, MmProgram(j, MmPeeling(j), MmPeeling(j)), MmRuns(j.m, MmPeeling(j)),
                MmPeeledAddresses(j), MmPeeledData(j))
<1> DEFINE n == MmPeeling(j)
           run == Weights(n) \o Exec
           held == MmProgram(j, n, n)
           Start(k) == MmResBase(j) + (k \div COLPERROW) * COLPERROW
                       + ((MmSets(j) * MmSetColumns(j) + k) % COLPERROW)
           X(i) == [t \in 1 .. MmLoops(j) |-> MmTurn(j, MmSets(j) = 0, i, t - 1, Start(t - 1), n)]
           z == [i \in 1 .. j.m |-> FlattenSeq(X(i - 1))]
           w == [i \in 1 .. j.m |-> MmSetData(j, i - 1, MmSets(j) * MmSegment(j), n)]
<1>1. n \in Nat /\ n <= j.SRF_M_ENTRIES /\ j.m \in Nat
  <2>1. /\ n \in Nat /\ n < MmSegment(j) /\ MmSegment(j) \in Nat /\ MmSegment(j) <= j.SRF_M_ENTRIES
        /\ j.m \in Nat
    BY MmSizes
  <2>2. j.SRF_M_ENTRIES \in Nat
    BY RegisterFacts
  <2> HIDE DEF n
  <2> QED BY <2>1, <2>2
<1>2. MmPeeledAddresses(j) = FlattenSeq(z) /\ MmPeeledData(j) = FlattenSeq(w)
  BY DEF MmPeeledAddresses, MmPeeledData, For
<1>3. MmRuns(j.m, n) = Copies(run, j.m)
  BY DEF MmRuns, For, Copies
<1>4. IsSeq(held)
  <2> HIDE DEF n
  <2> QED BY <1>1, MmProgramSeq
<1>5. ASSUME NEW i
      PROVE  Passes(j, held, run, FlattenSeq(X(i)), MmSetData(j, i, MmSets(j) * MmSegment(j), n))
  <2>1. Tuple(X(i), MmLoops(j))
    BY DEF Tuple
  <2>2. ASSUME NEW t \in 1 .. MmLoops(j) PROVE SetColumns(X(i)[t], n)
    <3>1. X(i)[t] = MmTurn(j, MmSets(j) = 0, i, t - 1, Start(t - 1), n)
      OBVIOUS
    <3> HIDE DEF X, n, Start
    <3> QED BY <1>1, <3>1, MmTurnColumns
  <2> HIDE DEF X, n
  <2> QED BY <1>1, <2>1, <2>2, MmSetPasses
<1>7. Tuple(z, j.m) /\ Tuple(w, j.m)
  BY DEF Tuple
<1>8. \A i \in 1 .. j.m : /\ z[i] = FlattenSeq(X(i - 1))
                          /\ w[i] = MmSetData(j, i - 1, MmSets(j) * MmSegment(j), n)
  OBVIOUS
<1> HIDE DEF X, z, w, held, run, n
<1>9. \A i \in 1 .. j.m : Passes(j, held, run, z[i], w[i])
  BY <1>5, <1>8
<1>10. Passes(j, held, Copies(run, j.m), FlattenSeq(z), FlattenSeq(w))
  BY <1>1, <1>4, <1>7, <1>9, PassesCopies
<1> QED BY <1>2, <1>3, <1>10 DEF held, n

(* A program is a sequence.                                                *)
LEMMA CodeSeq ==
  ASSUME NEW j, NEW s, NEW n, Code(j, s, n)
  PROVE  IsSeq(s) /\ Len(s) = n
  BY DEF Code

(* The program of the peeled sets is that of the full sets with a new end. *)
LEMMA MmBodyBegins ==
  ASSUME NEW j, Mapped(j), NEW n \in Nat, n <= j.SRF_M_ENTRIES, NEW p \in Nat, p <= n,
         NEW end, IsSeq(end)
  PROVE  /\ IsSeq(MmBody(p)) /\ Len(MmBody(p)) = 1 + p
         /\ Begins(MmBody(n) \o end, MmBody(p))
<1>1. p <= j.SRF_M_ENTRIES
  BY RegisterFacts
<1>2. /\ IsSeq(MmBody(p)) /\ Len(MmBody(p)) = 1 + p /\ IsSeq(MmBody(n)) /\ Len(MmBody(n)) = 1 + n
      /\ IsSeq(end)
  <2>1. Code(j, MmBody(p), 1 + p) /\ Code(j, MmBody(n), 1 + n)
    BY <1>1, MmBodyFacts
  <2>2. IsSeq(MmBody(p)) /\ Len(MmBody(p)) = 1 + p
    BY <2>1, CodeSeq
  <2>3. IsSeq(MmBody(n)) /\ Len(MmBody(n)) = 1 + n
    BY <2>1, CodeSeq
  <2> QED BY <2>2, <2>3
<1>3. ASSUME NEW q \in Nat, NEW i \in 1 .. 1 + q
      PROVE  MmBody(q)[i] = IF i = 1 THEN Mov(GrfB0, Odd) ELSE ScalarMac(i - 2)
  <2> DEFINE macs == [k \in 1 .. q |-> ScalarMac(k - 1)]
             mov == <<Mov(GrfB0, Odd)>>
  <2>1. IsSeq(macs) /\ Len(macs) = q
    BY FunSeq
  <2>2. IsSeq(mov) /\ Len(mov) = 1 /\ mov[1] = Mov(GrfB0, Odd)
    BY OneSeq
  <2>3. i # 1 => macs[i - 1] = ScalarMac(i - 2)
    <3> SUFFICES ASSUME i # 1 PROVE macs[i - 1] = ScalarMac(i - 2)
      OBVIOUS
    <3>1. i - 1 \in 1 .. q /\ (i - 1) - 1 = i - 2
      OBVIOUS
    <3>2. macs[i - 1] = ScalarMac((i - 1) - 1)
      BY <3>1
    <3> QED BY <3>1, <3>2
  <2>4. MmBody(q) = mov \o macs
    BY DEF MmBody
  <2> HIDE DEF macs, mov
  <2>5. (mov \o macs)[i] = IF i <= 1 THEN mov[i] ELSE macs[i - 1]
    <3>1. i \in 1 .. Len(mov) + Len(macs)
      BY <2>1, <2>2
    <3>2. (mov \o macs)[i] = IF i <= Len(mov) THEN mov[i] ELSE macs[i - Len(mov)]
      BY <2>1, <2>2, <3>1, Joined
    <3> QED BY <2>2, <3>2
  <2> QED BY <2>2, <2>3, <2>4, <2>5
<1>4. Len(end) \in Nat
  BY <1>2, SeqFacts
<1>5. /\ Len(MmBody(n) \o end) = (1 + n) + Len(end)
      /\ \A i \in 1 .. 1 + n : (MmBody(n) \o end)[i] = MmBody(n)[i]
  <2> DEFINE s == MmBody(n)
             t == end
  <2>1. IsSeq(s) /\ Len(s) = 1 + n /\ IsSeq(t) /\ Len(t) \in Nat
    BY <1>2, <1>4
  <2> HIDE DEF s, t
  <2>2. Len(s \o t) = (1 + n) + Len(t)
    BY <2>1, JoinedLen
  <2>3. ASSUME NEW i \in 1 .. 1 + n PROVE (s \o t)[i] = s[i]
    <3>1. i \in 1 .. Len(s) + Len(t) /\ i <= Len(s)
      BY <2>1
    <3> QED BY <2>1, <3>1, Joined
  <2> QED BY <2>2, <2>3 DEF s, t
<1>6. ASSUME NEW i \in 1 .. 1 + p PROVE (MmBody(n) \o end)[i] = MmBody(p)[i]
  <2>1. i \in 1 .. 1 + n
    OBVIOUS
  <2>2. MmBody(n)[i] = MmBody(p)[i]
    BY <1>3, <2>1
  <2> QED BY <1>5, <2>1, <2>2
<1>7. 1 + p <= (1 + n) + Len(end)
  BY <1>4
<1> QED BY <1>2, <1>5, <1>6, <1>7 DEF Begins

(* The three files of a product of matrices stay in step. *)
LEMMA MmRunsInStep ==
  ASSUME NEW j, Mapped(j), Handled(j), j.kernel = "MMS"
  PROVE  InStep(j, MmAssembly(j), MmAddresses(j), MmData(j), <<>>, {}, -1, 0)
<1> DEFINE n == MmSegment(j)
           p == MmPeeling(j)
           S == MmSets(j)
           full == MmRuns(j.m * S, n)
           rest == MmRuns(j.m, p)
           x == MmFullAddresses(j)
           y == MmFullData(j)
           z == MmPeeledAddresses(j)
           w == MmPeeledData(j)
           P == MmProgram(j, n, n)
           Q == MmProgram(j, p, p)
           first == Section(0, P) \o full
           second == IF S # 0 THEN Section(MmPeeledEntry(j), MmEnd(j, p)) ELSE Section(0, Q)
<1>1. /\ n \in Nat /\ n <= j.SRF_M_ENTRIES /\ n + 4 <= j.CRF_ENTRIES /\ S \in Nat
      /\ p \in Nat /\ p < n /\ p <= j.SRF_M_ENTRIES /\ j.m \in Nat /\ j.CRF_ENTRIES \in Nat
  <2>1. /\ n \in Nat /\ n <= j.SRF_M_ENTRIES /\ n + 4 <= j.CRF_ENTRIES /\ S \in Nat
        /\ p \in Nat /\ p < n /\ j.m \in Nat
    BY MmSizes
  <2>2. j.SRF_M_ENTRIES \in Nat /\ j.CRF_ENTRIES \in Nat
    BY RegisterFacts
  <2> HIDE DEF n, p, S
  <2> QED BY <2>1, <2>2
<1>2. MmAssembly(j) = If(S # 0, first) \o If(p # 0, second \o rest)
  <2>1. MmMacs(j) = n
    BY DEF Handled
  <2> QED BY <2>1 DEF MmAssembly, MmRuns
<1>3. MmAddresses(j) = x \o If(p # 0, z)
  BY DEF MmAddresses, MmFullAddresses
<1>4. MmData(j) = y \o If(p # 0, w)
  BY DEF MmData, MmFullData, MmPeeledData
<1>5. Passes(j, P, full, x, y) /\ Passes(j, Q, rest, z, w)
  BY MmFullPasses, MmPeeledPasses
<1>6. ASSUME S = 0 PROVE x = <<>> /\ y = <<>>
  <2> DEFINE X(i) == [s \in 1 .. S |-> For(MmLoops(j), LAMBDA k :
                        MmTurn(j, s - 1 = 0, i, k, MmOp2Base(j) + (s - 1) * MmSetColumns(j) + k, MmMacs(j)))]
             Y(i) == [s \in 1 .. S |-> MmSetData(j, i, (s - 1) * n, n)]
             u == [i \in 1 .. j.m |-> FlattenSeq(X(i - 1))]
             v == [i \in 1 .. j.m |-> FlattenSeq(Y(i - 1))]
  <2>1. x = FlattenSeq(u) /\ y = FlattenSeq(v)
    BY DEF MmFullAddresses, MmFullData, For
  <2>2. ASSUME NEW i PROVE Tuple(X(i), 0) /\ Tuple(Y(i), 0)
    BY <1>6 DEF Tuple
  <2>3. Tuple(u, j.m) /\ Tuple(v, j.m)
    BY DEF Tuple
  <2>4. \A i \in 1 .. j.m : u[i] = FlattenSeq(X(i - 1)) /\ v[i] = FlattenSeq(Y(i - 1))
    OBVIOUS
  <2> HIDE DEF X, Y, u, v, x, y
  <2>5. \A i \in 1 .. j.m : u[i] = <<>> /\ v[i] = <<>>
    BY <2>2, <2>4, FlattenNone
  <2>6. FlattenSeq(u) = <<>> /\ FlattenSeq(v) = <<>>
    BY <1>1, <2>3, <2>5, FlattenAllNone
  <2> QED BY <2>1, <2>6
<1>7. IsSeq(P) /\ IsSeq(Q)
  <2> HIDE DEF n, p
  <2> QED BY <1>1, MmProgramSeq
<1>8. PICK a \in {2, 3} : Code(j, P, (1 + n) + a)
  <2> HIDE DEF n
  <2> QED BY <1>1, MmBodyFacts
<1>9. PICK b \in {2, 3} : /\ Code(j, MmEnd(j, p), b) /\ Code(j, Q, (1 + p) + b)
  <2> HIDE DEF p
  <2> QED BY <1>1, MmBodyFacts
<1>10. a \in Nat /\ b \in Nat /\ a <= 3 /\ b <= 3
  OBVIOUS
<1>11. P = MmBody(n) \o MmEnd(j, n) /\ Q = MmBody(p) \o MmEnd(j, p)
  BY DEF MmProgram, MmBody
<1>12. /\ IsSeq(MmBody(p)) /\ Len(MmBody(p)) = 1 + p
       /\ Begins(MmBody(n) \o MmEnd(j, n), MmBody(p))
  <2> HIDE DEF n, p
  <2>1. \E m \in {2, 3} : Code(j, MmEnd(j, n), m)
    BY <1>1, MmBodyFacts
  <2>2. IsSeq(MmEnd(j, n))
    BY <2>1, CodeSeq
  <2> QED BY <1>1, <2>2, MmBodyBegins
<1>13. MmPeeledEntry(j) = 1 + p
  <2>1. MmPeeledEntry(j) = p + 1
    BY DEF MmPeeledEntry
  <2> HIDE DEF p
  <2> QED BY <1>1, <2>1
<1> HIDE DEF n, p, S, full, rest, x, y, z, w, P, Q
<1>14. Passes(j, <<>>, <<>>, <<>>, <<>>)
  BY PassesNone, NoneSeq
<1>15. Passes(j, <<>>, Section(0, P) \o full, x, y)
  <2>1. (1 + n) + a \in Nat /\ (1 + n) + a <= j.CRF_ENTRIES
    BY <1>1, <1>10
  <2> QED BY <1>5, <1>8, <2>1, SectionPasses
<1>16. Passes(j, <<>>, Section(0, Q) \o rest, z, w)
  <2>1. (1 + p) + b \in Nat /\ (1 + p) + b <= j.CRF_ENTRIES
    BY <1>1, <1>10
  <2> QED BY <1>5, <1>9, <2>1, SectionPasses
<1>17. Passes(j, <<>>, (Section(0, P) \o full) \o (Section(MmPeeledEntry(j), MmEnd(j, p)) \o rest),
              x \o z, y \o w)
  <2> DEFINE over == Section(MmPeeledEntry(j), MmEnd(j, p)) \o rest
  <2>1. Leaves(j, P, over, z, w)
    <3>1. Begins(P, MmBody(p))
      BY <1>11, <1>12
    <3>2. Passes(j, MmBody(p) \o MmEnd(j, p), rest, z, w)
      BY <1>5, <1>11
    <3>3. Len(MmBody(p)) + b <= j.CRF_ENTRIES
      BY <1>1, <1>10, <1>12
    <3>4. Leaves(j, P, Section(Len(MmBody(p)), MmEnd(j, p)) \o rest, z, w)
      BY <1>7, <1>9, <1>10, <1>12, <3>1, <3>2, <3>3, OverwriteLeaves
    <3> QED BY <1>12, <1>13, <3>4
  <2> HIDE DEF over
  <2>2. Leaves(j, P, full \o over, x \o z, y \o w)
    BY <1>5, <1>7, <2>1, LeavesJoined
  <2>3. Passes(j, <<>>, Section(0, P) \o (full \o over), x \o z, y \o w)
    <3>1. (1 + n) + a \in Nat /\ (1 + n) + a <= j.CRF_ENTRIES
      BY <1>1, <1>10
    <3> QED BY <1>8, <2>2, <3>1, WrittenLeaves
  <2>4. (Section(0, P) \o full) \o over = Section(0, P) \o (full \o over)
    <3>1. IsSeq(Section(0, P)) /\ IsSeq(full) /\ IsSeq(over)
      BY <1>5, <2>1, OneSeq DEF Passes, Leaves, Section
    <3>2. ThreeSeqs(Section(0, P), full, over)
      BY <3>1 DEF ThreeSeqs
    <3> QED BY <3>2, RegroupThree
  <2>5. Passes(j, <<>>, (Section(0, P) \o full) \o over, x \o z, y \o w)
    BY <2>3, <2>4
  <2> QED BY <2>5 DEF over
<1>18. Passes(j, <<>>, If(S # 0, first) \o If(p # 0, second \o rest),
              x \o If(p # 0, z), y \o If(p # 0, w))
  <2>1. CASE S = 0
    <3>1. Passes(j, <<>>, If(S # 0, first), x, y)
      BY <1>6, <1>14, <2>1 DEF If
    <3>2. Passes(j, <<>>, If(p # 0, second \o rest), If(p # 0, z), If(p # 0, w))
      BY <1>14, <1>16, <2>1 DEF If
    <3> QED BY <3>1, <3>2, NoneSeq, PassesJoined
  <2>2. CASE S # 0 /\ p = 0
    <3>1. Passes(j, <<>>, If(S # 0, first), x, y)
      BY <1>15, <2>2 DEF If
    <3>2. Passes(j, <<>>, If(p # 0, second \o rest), If(p # 0, z), If(p # 0, w))
      BY <1>14, <2>2 DEF If
    <3> QED BY <3>1, <3>2, NoneSeq, PassesJoined
  <2>3. CASE S # 0 /\ p # 0
    <3>1. /\ If(S # 0, first) = Section(0, P) \o full
          /\ If(p # 0, second \o rest) = Section(MmPeeledEntry(j), MmEnd(j, p)) \o rest
          /\ If(p # 0, z) = z /\ If(p # 0, w) = w
      BY <2>3 DEF If
    <3> HIDE DEF first, second
    <3> QED BY <1>17, <3>1
  <2> QED BY <2>1, <2>2, <2>3
<1> QED BY <1>2, <1>3, <1>4, <1>18, AllPass

(***************************************************************************)
(* Convolution.                                                            *)
(***************************************************************************)

(* The first part stands before the others put together.                   *)
LEMMA FlattenFirst ==
  ASSUME NEW n \in Nat, NEW s, Parts(s, n + 1)
  PROVE  FlattenSeq(s) = s[1] \o FlattenSeq([i \in 1 .. n |-> s[i + 1]])
<1> DEFINE Claim(m, p) == FlattenSeq(p) = p[1] \o FlattenSeq([i \in 1 .. m |-> p[i + 1]])
           N == {m \in Nat : \A p : Parts(p, m + 1) => Claim(m, p)}
<1>1. 0 \in N
  <2> SUFFICES ASSUME NEW p, Parts(p, 0 + 1) PROVE Claim(0, p)
    OBVIOUS
  <2> DEFINE q == [i \in 1 .. 0 |-> p[i]]
             r == [i \in 1 .. 0 |-> p[i + 1]]
  <2>1. Tuple(q, 0) /\ Tuple(r, 0)
    BY DEF Tuple
  <2>2. FlattenSeq(p) = FlattenSeq(q) \o p[0 + 1]
    BY FlattenOneMore
  <2>3. IsSeq(p[1])
    BY DEF Parts
  <2>4. 0 + 1 = 1
    OBVIOUS
  <2> HIDE DEF q, r
  <2>5. FlattenSeq(q) = <<>> /\ FlattenSeq(r) = <<>>
    BY <2>1, FlattenNone
  <2>6. <<>> \o p[1] = p[1] /\ p[1] \o <<>> = p[1]
    BY <2>3, JoinedNone
  <2>7. FlattenSeq(p) = p[1] \o FlattenSeq(r)
    BY <2>2, <2>4, <2>5, <2>6
  <2> QED BY <2>7 DEF r
<1>2. ASSUME NEW m \in N PROVE m + 1 \in N
  <2>0. m \in Nat /\ m + 1 \in Nat
    OBVIOUS
  <2> SUFFICES ASSUME NEW p, Parts(p, (m + 1) + 1) PROVE Claim(m + 1, p)
    BY <2>0
  <2> DEFINE q == [i \in 1 .. m + 1 |-> p[i]]
             a == [i \in 1 .. m |-> q[i + 1]]
             b == [i \in 1 .. m + 1 |-> p[i + 1]]
             last == p[(m + 1) + 1]
  <2>1. FlattenSeq(p) = FlattenSeq(q) \o last
    BY <2>0, FlattenOneMore
  <2>2. Parts(q, m + 1) /\ q[1] = p[1]
    BY <2>0 DEF Parts, Tuple
  <2>3. FlattenSeq(q) = q[1] \o FlattenSeq(a)
    <3> HIDE DEF q
    <3> QED BY <2>2
  <2>4. Parts(b, m + 1)
    BY <2>0 DEF Parts, Tuple
  <2>5. a = [i \in 1 .. m |-> b[i]]
    <3>1. ASSUME NEW i \in 1 .. m PROVE q[i + 1] = b[i]
      BY <2>0
    <3> QED BY <3>1
  <2>6. b[m + 1] = last
    BY <2>0
  <2>7. FlattenSeq(b) = FlattenSeq([i \in 1 .. m |-> b[i]]) \o b[m + 1]
    <3> HIDE DEF b
    <3> QED BY <2>0, <2>4, FlattenOneMore
  <2>8. Parts(a, m) /\ IsSeq(p[1]) /\ IsSeq(last)
    BY <2>0 DEF Parts, Tuple
  <2> HIDE DEF q, a, b, last
  <2>9. FlattenSeq(b) = FlattenSeq(a) \o last
    BY <2>5, <2>6, <2>7
  <2> DEFINE start == p[1]
             most == FlattenSeq(q)
             middle == FlattenSeq(a)
  <2>10. ThreeSeqs(start, middle, last)
    <3>1. IsSeq(middle)
      BY <2>0, <2>8, NoneSeq, PartsRest
    <3> HIDE DEF middle
    <3> QED BY <2>8, <3>1 DEF ThreeSeqs
  <2>11. FlattenSeq(p) = most \o last /\ most = start \o middle /\ FlattenSeq(b) = middle \o last
    BY <2>1, <2>2, <2>3, <2>9
  <2> HIDE DEF start, most, middle
  <2>12. (start \o middle) \o last = start \o (middle \o last)
    BY <2>10, RegroupThree
  <2>13. FlattenSeq(p) = start \o FlattenSeq(b)
    BY <2>11, <2>12
  <2> QED BY <2>13 DEF b, start
<1>3. N = Nat
  <2> HIDE DEF N
  <2>1. N \in SUBSET Nat
    BY DEF N
  <2> QED BY <1>1, <1>2, <2>1, Induction
<1> HIDE DEF Claim
<1>4. Claim(n, s)
  BY <1>3
<1> QED BY <1>4 DEF Claim

(* A product is not 0 unless one of its factors is.                        *)
LEMMA NonZero ==
  ASSUME NEW a \in Nat \ {0}, NEW b \in Nat \ {0}
  PROVE  a * b \in Nat \ {0}
<1>1. a * b \in Nat /\ a * b >= a * 1
  BY a >= 1, b >= 1
<1>2. a * 1 = a
  OBVIOUS
<1> QED BY <1>1, <1>2

(* The sets of weights of a filter: they fit the registers and the CRF,    *)
(* and what is left of the filter fits the program of the later sets.      *)
LEMMA ConvSizes ==
  ASSUME NEW j, Mapped(j), Handled(j), j.kernel = "CCWWR"
  PROVE  /\ ConvSegment(j) \in Nat /\ ConvSegment(j) > 1 /\ ConvSegment(j) <= j.SRF_M_ENTRIES
         /\ ConvMacs(j) = ConvSegment(j) /\ ConvSegment(j) + 4 <= j.CRF_ENTRIES
         /\ ConvSets(j) \in Nat \ {0} /\ ConvPeeling(j) \in Nat /\ ConvPeeling(j) <= j.SRF_M_ENTRIES
         /\ ConvPeeling(j) = 0 \/ (ConvSets(j) > 1 /\ ConvPeeling(j) <= ConvSegment(j))
         /\ ConvLoops(j) \in Nat \ {0} /\ j.co \in Nat
<1> DEFINE C == j.CRF_ENTRIES
           M == j.SRF_M_ENTRIES
           G == j.GRF_ENTRIES
           s == ConvSegment(j)
           f == FilterSize(j)
           d == ConvDivisor(j)
<1>1. /\ C \in Nat /\ C >= 5 /\ M \in Nat \ {0} /\ G \in Nat \ {0} /\ j.co \in Nat
      /\ j.k \in Nat \ {0} /\ j.ci \in Nat \ {0} /\ j.wo \in Nat \ {0} /\ j.ho \in Nat \ {0}
  BY DEF Mapped, Fewest, Sizes
<1>2. SIMD_WIDTH \in Nat \ {0}
  BY KernelFilesAssumption
<1>3. ConvLoops(j) \in Nat \ {0}
  <2>1. j.wo * j.ho \in Nat \ {0}
    BY <1>1, NonZero
  <2> DEFINE pixels == j.wo * j.ho
  <2> HIDE DEF pixels
  <2>2. CeilDiv(pixels, SIMD_WIDTH) \in Nat \ {0}
    <3>1. pixels \in Nat /\ pixels # 0
      BY <2>1 DEF pixels
    <3> QED BY <1>2, <3>1, CeilDivNat
  <2> QED BY <2>2 DEF ConvLoops, pixels
<1>4. f \in Nat \ {0}
  <2>1. j.k * j.k \in Nat \ {0}
    BY <1>1, NonZero
  <2> DEFINE square == j.k * j.k
  <2>2. f = square * j.ci
    BY DEF FilterSize
  <2> HIDE DEF square, f
  <2>3. square \in Nat \ {0}
    BY <2>1 DEF square
  <2>4. square * j.ci \in Nat \ {0}
    BY <1>1, <2>3, NonZero
  <2> QED BY <2>2, <2>4
<1>5. s = IF C >= M + 4 THEN M ELSE Smaller(C - 4, M)
  BY DEF ConvSegment, ConvRLim
<1>6. Smaller(C - 4, M) \in {C - 4, M} /\ Smaller(C - 4, M) <= C - 4 /\ Smaller(C - 4, M) <= M
  <2>1. C - 4 \in Int /\ M \in Int
    BY <1>1
  <2> HIDE DEF C, M
  <2> QED BY <2>1, SmallerFacts
<1>7. d \in {G, s}
  BY DEF ConvDivisor
<1>8. s > 1 /\ ConvMacs(j) = s /\ (ConvPeeling(j) = 0 \/ (ConvSets(j) > 1 /\ ConvPeeling(j) <= s))
  BY DEF Handled
<1>9. ConvSets(j) = f \div d /\ ConvPeeling(j) = f % d
  BY DEF ConvSets, ConvPeeling
<1> HIDE DEF C, M, G, s, f, d
<1>10. s \in Nat /\ s <= M /\ s + 4 <= C
  BY <1>1, <1>5, <1>6
<1>11. d \in Nat \ {0}
  BY <1>1, <1>7, <1>8, <1>10
<1>12. f \div d \in Nat /\ f % d \in 0 .. d - 1 /\ f = d * (f \div d) + (f % d)
  <2>1. f \in Nat
    BY <1>4
  <2> QED BY <1>11, <2>1, DivMod
<1>13. ConvSets(j) \in Nat /\ ConvPeeling(j) \in Nat
  BY <1>9, <1>12
<1>14. ConvSets(j) # 0
  <2> SUFFICES ASSUME ConvSets(j) = 0 PROVE FALSE
    OBVIOUS
  <2>1. f \div d = 0 /\ d * 0 = 0
    BY <1>9, <1>11
  <2>2. f = f % d
    BY <1>4, <1>11, <1>12, <2>1
  <2> QED BY <1>4, <1>8, <1>9, <2>2
<1>15. ConvPeeling(j) <= M
  BY <1>1, <1>8, <1>10, <1>13
<1> QED BY <1>1, <1>3, <1>8, <1>10, <1>13, <1>14, <1>15 DEF C, M, s

(* A MAD with the bias and a MAC for each further weight, then the end.    *)
Bias == Instr("MAD", GrfB0, <<Bank(0), SrfM(0), SrfA0>>)
ConvBody(n) == <<Bias>> \o [t \in 1 .. n - 1 |-> ScalarMac(t)]

(* The MACs behind the bias multiply with the weights from number 1 on.    *)
LEMMA ConvMacsCode ==
  ASSUME NEW n \in Nat \ {0}
  PROVE  ScalarMacs([t \in 1 .. n - 1 |-> ScalarMac(t)], n - 1, 1)
<1> DEFINE macs == [t \in 1 .. n - 1 |-> ScalarMac(t)]
<1>0. n - 1 \in Nat
  OBVIOUS
<1>1. IsSeq(macs) /\ Len(macs) = n - 1
  BY <1>0, FunSeq
<1>2. ASSUME NEW k \in 1 .. n - 1 PROVE macs[k] = ScalarMac(k - 1 + 1)
  <2>1. k - 1 + 1 = k
    OBVIOUS
  <2> QED BY <2>1
<1> HIDE DEF macs
<1>3. ScalarMacs(macs, n - 1, 1)
  BY <1>1, <1>2 DEF ScalarMacs
<1> QED BY <1>3 DEF macs

(* The MAD with the bias loads, and brings the sum.                        *)
LEMMA BiasFacts ==
  ASSUME NEW j, Mapped(j)
  PROVE  /\ GoodInstr(j, Bias) /\ Bias.dst = GrfB0
         /\ \A known, column : (SrfM(0) \in known /\ SrfA0 \in known /\ column[1] = Bank(0)[1]) =>
                                 LoadsFrom(Bias, column, known)
<1>1. /\ IsBank(Bank(0)) /\ ~IsBank(GrfB0) /\ ~IsBank(SrfM(0)) /\ ~IsBank(SrfA0)
  BY Banks DEF GrfB0
<1>2. GrfB0 \in Registers(j) /\ SrfA0 \in Registers(j) /\ SrfM(0) \in Registers(j)
  <2>1. 0 \in 0 .. j.SRF_M_ENTRIES - 1
    BY RegisterFacts
  <2> QED BY <2>1, RegisterFacts
<1>3. GoodInstr(j, Bias)
  BY <1>1, <1>2, GoodInstr3 DEF Bias
<1>4. Bias.dst = GrfB0
  BY DEF Bias, Instr
<1>5. ASSUME NEW known, NEW column, SrfM(0) \in known, SrfA0 \in known, column[1] = Bank(0)[1]
      PROVE  LoadsFrom(Bias, column, known)
  BY <1>1, <1>5, MadLoads DEF Bias
<1> QED BY <1>3, <1>4, <1>5

(* The end of a convolution's program is that of every sum.                *)
LEMMA ConvTailEnd == ASSUME NEW j, NEW t PROVE ConvTail(j, t) = SumEnd(t, ConvLoops(j))
  BY DEF ConvTail, SumEnd

(* The program of the first set of a filter ...                            *)
LEMMA ConvFirstCode ==
  ASSUME NEW j, Mapped(j), NEW n \in Nat, n > 1, n <= j.SRF_M_ENTRIES
  PROVE  /\ Code(j, ConvBody(n), 1 + (n - 1))
         /\ ConvFirst(j, n, n) = ConvBody(n) \o SumEnd((1 + (n - 1)) + 1, ConvLoops(j))
         /\ \E m \in {2, 3} : Code(j, ConvFirst(j, n, n), (1 + (n - 1)) + m)
<1> DEFINE macs == [t \in 1 .. n - 1 |-> ScalarMac(t)]
           end == SumEnd((1 + (n - 1)) + 1, ConvLoops(j))
<1>1. ScalarMacs(macs, n - 1, 1)
  BY ConvMacsCode
<1>2. ConvBody(n) = <<Bias>> \o macs
  BY DEF ConvBody
<1>3. ConvFirst(j, n, n) = ConvBody(n) \o end
  <2>1. ConvFirst(j, n, n) = (ConvBody(n) \o If(n = 1, <<ScalarMac(0)>>)) \o ConvTail(j, n + 1)
    BY DEF ConvFirst, ConvBody, Bias
  <2>2. If(n = 1, <<ScalarMac(0)>>) = <<>>
    BY DEF If
  <2>3. IsSeq(ConvBody(n))
    <3>1. IsSeq(<<Bias>>) /\ IsSeq(macs)
      BY <1>1, OneSeq DEF ScalarMacs
    <3> HIDE DEF macs
    <3> QED BY <1>2, <3>1, JoinedLen
  <2>4. ConvBody(n) \o <<>> = ConvBody(n)
    BY <2>3, JoinedNone
  <2>5. ConvTail(j, n + 1) = end
    <3>1. n + 1 = (1 + (n - 1)) + 1
      OBVIOUS
    <3> QED BY <3>1, ConvTailEnd
  <2> HIDE DEF end
  <2> QED BY <2>1, <2>2, <2>4, <2>5
<1> HIDE DEF macs, end
<1>4. n - 1 \in Nat /\ (n - 1) + 1 <= j.SRF_M_ENTRIES /\ 1 + (n - 1) \in Nat
  BY RegisterFacts
<1>5. Code(j, macs, n - 1)
  BY <1>1, <1>4, ScalarMacsCode
<1>6. Code(j, <<Bias>>, 1)
  BY BiasFacts, CodeOne
<1>7. Code(j, ConvBody(n), 1 + (n - 1))
  BY <1>2, <1>4, <1>5, <1>6, CodeJoined
<1>8. PICK m \in {2, 3} : Code(j, end, m)
  BY SumEndCode DEF end
<1>9. Code(j, ConvBody(n) \o end, (1 + (n - 1)) + m)
  <2>1. m \in Nat
    OBVIOUS
  <2> QED BY <1>4, <1>7, <1>8, <2>1, CodeJoined
<1> QED BY <1>3, <1>7, <1>9 DEF end

(* ... and that of the later ones.                                         *)
LEMMA ConvNextCode ==
  ASSUME NEW j, Mapped(j), NEW n \in Nat, n <= j.SRF_M_ENTRIES
  PROVE  /\ ConvNext(j, n, n) = MmBody(n) \o ConvTail(j, n + 2)
         /\ ConvTail(j, n + 2) = SumEnd((1 + n) + 1, ConvLoops(j))
         /\ \E m \in {2, 3} : /\ Code(j, ConvTail(j, n + 2), m)
                              /\ Code(j, ConvNext(j, n, n), (1 + n) + m)
<1>1. ConvNext(j, n, n) = MmBody(n) \o ConvTail(j, n + 2)
  BY DEF ConvNext, MmBody
<1>2. ConvTail(j, n + 2) = SumEnd((1 + n) + 1, ConvLoops(j))
  <2>1. n + 2 = (1 + n) + 1
    OBVIOUS
  <2> QED BY <2>1, ConvTailEnd
<1>3. PICK m \in {2, 3} : Code(j, ConvTail(j, n + 2), m)
  BY <1>2, SumEndCode
<1>4. Code(j, MmBody(n) \o ConvTail(j, n + 2), (1 + n) + m)
  <2>1. m \in Nat /\ 1 + n \in Nat
    OBVIOUS
  <2>2. Code(j, MmBody(n), 1 + n)
    BY MmBodyFacts
  <2> QED BY <1>3, <2>1, <2>2, CodeJoined
<1> QED BY <1>1, <1>2, <1>3, <1>4

(* The first set of a filter: its columns, with no sums before them, and   *)
(* its lines, with the bias behind the weights.                            *)
FirstTurn(x, n, cols, last) ==
  /\ x = cols \o <<last>> /\ last[1] = Odd[1]
  /\ IsSeq(cols) /\ Len(cols) = n /\ \A i \in 1 .. n : cols[i][1] = Bank(i - 1)[1]
FirstColumns(x, n) == \E cols, last : FirstTurn(x, n, cols, last)
BiasLines(data, n, loops, w, bias, y) ==
  /\ data = (FlattenSeq(w) \o <<bias>>) \o FlattenSeq(y) /\ Len(bias) = 1
  /\ Tuple(w, n) /\ \A i \in 1 .. n : Single(w[i]) /\ Len(w[i][1]) = 1
  /\ Tuple(y, loops) /\ \A t \in 1 .. loops : Lines(y[t], n)
FirstLines(data, n, loops) == \E w, bias, y : BiasLines(data, n, loops, w, bias, y)

(* The first of n lines and the others.                                    *)
LEMMA LinesSplit ==
  ASSUME NEW n \in Nat \ {0}, NEW y, Lines(y, n)
  PROVE  /\ y = <<Head(y)>> \o Tail(y) /\ Len(Head(y)) = SIMD_WIDTH /\ Lines(Tail(y), n - 1)
<1>1. IsSeq(y) /\ Len(y) = n /\ \A i \in 1 .. n : Len(y[i]) = SIMD_WIDTH
  BY DEF Lines
<1>2. y # <<>>
  BY <1>1, NoneSeq
<1>3. /\ IsSeq(Tail(y)) /\ Len(Tail(y)) = n - 1 /\ Head(y) = y[1] /\ y = <<Head(y)>> \o Tail(y)
      /\ \A i \in 1 .. n - 1 : Tail(y)[i] = y[i + 1]
  BY <1>1, <1>2, Split
<1>4. Len(Head(y)) = SIMD_WIDTH
  <2>1. 1 \in 1 .. n
    OBVIOUS
  <2> QED BY <1>1, <1>3, <2>1
<1>5. ASSUME NEW i \in 1 .. n - 1 PROVE Len(Tail(y)[i]) = SIMD_WIDTH
  <2>1. i + 1 \in 1 .. n
    OBVIOUS
  <2> QED BY <1>1, <1>3, <2>1
<1>6. Lines(Tail(y), n - 1)
  BY <1>3, <1>5 DEF Lines
<1> QED BY <1>3, <1>4, <1>6

(* A turn of the first set begins with the bias.                           *)
LEMMA BiasTurn ==
  ASSUME NEW j, Mapped(j), NEW n \in Nat, n > 1, n <= j.SRF_M_ENTRIES,
         NEW cols, IsSeq(cols), Len(cols) = n, \A i \in 1 .. n : cols[i][1] = Bank(i - 1)[1],
         NEW words, Lines(words, n)
  PROVE  Turn(j, ConvBody(n), 1 + (n - 1), cols, words, Given(n) \cup {SrfA0})
<1> DEFINE macs == [t \in 1 .. n - 1 |-> ScalarMac(t)]
           known == Given(n) \cup {SrfA0}
           first == Head(cols)
           x == Tail(cols)
           line == Head(words)
           y == Tail(words)
<1>1. cols # <<>>
  BY NoneSeq
<1>2. /\ IsSeq(x) /\ Len(x) = n - 1 /\ first = cols[1] /\ \A i \in 1 .. n - 1 : x[i] = cols[i + 1]
      /\ cols = <<first>> \o x
  BY <1>1, Split
<1>3. words = <<line>> \o y /\ Len(line) = SIMD_WIDTH /\ Lines(y, n - 1)
  BY LinesSplit
<1>4. n - 1 \in Nat /\ 1 \in Nat /\ (n - 1) + 1 <= j.SRF_M_ENTRIES
  BY RegisterFacts
<1>5. ScalarMacs(macs, n - 1, 1)
  BY ConvMacsCode
<1>6. ConvBody(n) = <<Bias>> \o macs
  BY DEF ConvBody
<1> HIDE DEF macs, first, x, line, y
<1>7. \A i \in 0 .. (n - 1) - 1 : SrfM(i + 1) \in known
  <2> SUFFICES ASSUME NEW i \in 0 .. (n - 1) - 1 PROVE SrfM(i + 1) \in known
    OBVIOUS
  <2>1. i + 1 \in 0 .. n - 1
    OBVIOUS
  <2> QED BY <2>1 DEF Given
<1>8. LoadsFrom(Bias, first, known)
  <2>1. SrfM(0) \in known
    <3>1. 0 \in 0 .. n - 1
      OBVIOUS
    <3> QED BY <3>1 DEF Given
  <2>2. first[1] = Bank(0)[1]
    <3>1. 1 \in 1 .. n /\ 1 - 1 = 0
      OBVIOUS
    <3>2. cols[1][1] = Bank(1 - 1)[1]
      BY <3>1
    <3> QED BY <1>2, <3>1, <3>2
  <2>3. SrfA0 \in known
    OBVIOUS
  <2> HIDE DEF known
  <2> QED BY <2>1, <2>2, <2>3, BiasFacts
<1>9. \A i \in 1 .. n - 1 : x[i][1] = Bank(i - 1 + 1)[1]
  <2> SUFFICES ASSUME NEW i \in 1 .. n - 1 PROVE x[i][1] = Bank(i - 1 + 1)[1]
    OBVIOUS
  <2>1. i + 1 \in 1 .. n /\ (i + 1) - 1 = i - 1 + 1
    OBVIOUS
  <2>2. cols[i + 1][1] = Bank((i + 1) - 1)[1]
    BY <2>1
  <2> QED BY <1>2, <2>1, <2>2
<1>10. GoodInstr(j, Bias) /\ Bias.dst = GrfB0
  BY BiasFacts
<1> HIDE DEF known
<1> DEFINE m == n - 1
<1>11. m = n - 1
  OBVIOUS
<1> HIDE DEF m
<1>12. Turn(j, <<Bias>> \o macs, 1 + m, <<first>> \o x, <<line>> \o y, known)
  <2>1. m \in Nat /\ 1 \in Nat /\ m + 1 <= j.SRF_M_ENTRIES /\ ScalarMacs(macs, m, 1)
    BY <1>4, <1>5, <1>11
  <2>2. \A i \in 0 .. m - 1 : SrfM(i + 1) \in known
    BY <1>7, <1>11
  <2>3. IsSeq(x) /\ Len(x) = m /\ \A i \in 1 .. m : x[i][1] = Bank(i - 1 + 1)[1]
    BY <1>2, <1>9, <1>11
  <2>4. Len(line) = SIMD_WIDTH /\ Lines(y, m)
    BY <1>3, <1>11
  <2> QED BY <1>8, <1>10, <2>1, <2>2, <2>3, <2>4, BeginTurn
<1>13. Turn(j, ConvBody(n), 1 + m, cols, words, known)
  <2> DEFINE a == <<Bias>> \o macs
             b == <<first>> \o x
             c == <<line>> \o y
  <2>1. Turn(j, a, 1 + m, b, c, known)
    BY <1>12
  <2>2. ConvBody(n) = a /\ cols = b /\ words = c
    BY <1>2, <1>3, <1>6
  <2> HIDE DEF a, b, c
  <2> QED BY <2>1, <2>2
<1> QED BY <1>11, <1>13 DEF known

(* A run of the first set, which is given the bias too.                    *)
LEMMA FirstPasses ==
  ASSUME NEW j, Mapped(j), NEW n \in Nat, n > 1, n <= j.SRF_M_ENTRIES, NEW loops \in Nat \ {0},
         NEW x, Tuple(x, loops), \A t \in 1 .. loops : FirstColumns(x[t], n),
         NEW data, FirstLines(data, n, loops)
  PROVE  Passes(j, ConvBody(n) \o SumEnd((1 + (n - 1)) + 1, loops),
                (Weights(n) \o Scalar(SrfA0)) \o Exec, FlattenSeq(x), data)
<1>1. PICK w, bias, y : BiasLines(data, n, loops, w, bias, y)
  BY DEF FirstLines
<1>2. /\ Len(bias) = 1 /\ Tuple(w, n) /\ \A i \in 1 .. n : Single(w[i]) /\ Len(w[i][1]) = 1
      /\ Tuple(y, loops) /\ \A t \in 1 .. loops : Lines(y[t], n)
  BY <1>1 DEF BiasLines
<1> DEFINE b == 1 + (n - 1)
           held == ConvBody(n) \o SumEnd(b + 1, loops)
           known == Given(n) \cup {SrfA0}
<1>3. Code(j, ConvBody(n), b) /\ b \in Nat
  BY ConvFirstCode
<1>4. ASSUME NEW t \in 1 .. loops
      PROVE  \E mid, col : /\ x[t] = mid \o <<col>> /\ col[1] = Odd[1]
                           /\ Turn(j, ConvBody(n), b, mid, y[t], known)
  <2>1. PICK cols, last : FirstTurn(x[t], n, cols, last)
    BY DEF FirstColumns
  <2>2. /\ x[t] = cols \o <<last>> /\ last[1] = Odd[1]
        /\ IsSeq(cols) /\ Len(cols) = n /\ \A i \in 1 .. n : cols[i][1] = Bank(i - 1)[1]
    BY <2>1 DEF FirstTurn
  <2>3. Turn(j, ConvBody(n), b, cols, y[t], known)
    BY <1>2, <2>2, BiasTurn
  <2> QED BY <2>2, <2>3
<1> HIDE DEF b, known
<1>5. /\ IsSeq(FlattenSeq(x)) /\ IsSeq(FlattenSeq(y))
      /\ Walks(j, held, FlattenSeq(x), FlattenSeq(y), known)
  BY <1>2, <1>3, <1>4, SumWalks
<1>6. IsSeq(held)
  <2>1. \E m \in {2, 3} : Code(j, SumEnd(b + 1, loops), m)
    BY SumEndCode
  <2>2. IsSeq(SumEnd(b + 1, loops)) /\ IsSeq(ConvBody(n))
    BY <1>3, <2>1 DEF Code
  <2> QED BY <2>2, JoinedLen
<1> HIDE DEF held
<1>7. Passes(j, held, (Weights(n) \o Scalar(SrfA0)) \o Exec, FlattenSeq(x),
             (FlattenSeq(w) \o <<bias>>) \o FlattenSeq(y))
  BY <1>2, <1>5, <1>6, BiasPasses DEF known
<1>8. data = (FlattenSeq(w) \o <<bias>>) \o FlattenSeq(y)
  BY <1>1 DEF BiasLines
<1> QED BY <1>7, <1>8 DEF held, b

(* The columns of a turn of a convolution. *)
LEMMA ResultTurn ==
  ASSUME NEW j, NEW i, NEW turn, NEW number, NEW n \in Nat
  PROVE  /\ SetColumns((ConvResult(j, i, turn) \o Columns(number, n)) \o ConvResult(j, i, turn), n)
         /\ FirstColumns((<<>> \o Columns(number, n)) \o ConvResult(j, i, turn), n)
<1> DEFINE cols == Columns(number, n)
<1>1. IsSeq(cols) /\ Len(cols) = n /\ \A t \in 1 .. n : cols[t][1] = Bank(t - 1)[1]
  BY ColumnsFacts
<1>0. ASSUME NEW num PROVE Column(Odd, num)[1] = Odd[1]
  BY DEF Column
<1>2. PICK d : ConvResult(j, i, turn) = <<d>> /\ d[1] = Odd[1]
  BY <1>0 DEF ConvResult
<1> HIDE DEF cols
<1>3. <<>> \o cols = cols
  BY <1>1, JoinedNone
<1> DEFINE later == (<<d>> \o cols) \o <<d>>
           first == cols \o <<d>>
<1>4. SetColumns(later, n)
  <2>1. TurnOf(later, n, d, cols, d)
    BY <1>1, <1>2 DEF TurnOf
  <2> QED BY <2>1 DEF SetColumns
<1>5. FirstColumns(first, n)
  <2>1. FirstTurn(first, n, cols, d)
    BY <1>1, <1>2 DEF FirstTurn
  <2> QED BY <2>1 DEF FirstColumns
<1>6. /\ (ConvResult(j, i, turn) \o cols) \o ConvResult(j, i, turn) = later
      /\ (<<>> \o cols) \o ConvResult(j, i, turn) = first
  BY <1>2, <1>3
<1> HIDE DEF later, first
<1> QED BY <1>4, <1>5, <1>6 DEF cols

(* The lines of a set of a convolution. *)
LEMMA ConvWeightsFacts ==
  ASSUME NEW j, NEW i, NEW first, NEW n \in Nat
  PROVE  \E w : /\ ConvWeights(j, i, first, n) = FlattenSeq(w) /\ IsSeq(FlattenSeq(w))
                /\ Tuple(w, n) /\ \A t \in 1 .. n : Single(w[t]) /\ Len(w[t][1]) = 1
<1> DEFINE E(t) == ScalarLine(Weight(j, i, first + t))
           w == [t \in 1 .. n |-> <<E(t - 1)>>]
<1>1. ConvWeights(j, i, first, n) = FlattenSeq(w)
  BY DEF ConvWeights, For
<1>2. Tuple(w, n)
  BY DEF Tuple
<1>3. ASSUME NEW t \in 1 .. n PROVE Single(w[t]) /\ Len(w[t][1]) = 1
  <2>1. w[t] = <<E(t - 1)>> /\ Len(E(t - 1)) = 1
    BY ScalarLineFacts
  <2> HIDE DEF E, w
  <2> QED BY <2>1, OneSeq DEF Single
<1> HIDE DEF w
<1>4. IsSeq(FlattenSeq(w))
  BY <1>2, <1>3, SinglesFlatten
<1> QED BY <1>1, <1>2, <1>3, <1>4

(* The activations of a turn: a line for all lanes for each weight.        *)
LEMMA ConvActivationsFacts ==
  ASSUME NEW j, NEW first, NEW n \in Nat, NEW turn
  PROVE  Lines(ConvActivations(j, first, n, turn), n)
<1> DEFINE A(t, x) == Activation(j, first + t, turn * SIMD_WIDTH + x)
           L(t) == [x \in 1 .. SIMD_WIDTH |-> A(t, x - 1)]
           w == [t \in 1 .. n |-> <<L(t - 1)>>]
<1>1. ConvActivations(j, first, n, turn) = FlattenSeq(w)
  BY DEF ConvActivations, For, Line
<1>2. Tuple(w, n)
  BY DEF Tuple
<1>3. SIMD_WIDTH \in Nat
  BY KernelFilesAssumption
<1> HIDE DEF A
<1>4. ASSUME NEW t \in 1 .. n PROVE Single(w[t]) /\ Len(w[t][1]) = SIMD_WIDTH
  <2>1. w[t] = <<L(t - 1)>> /\ Len(L(t - 1)) = SIMD_WIDTH
    BY <1>3
  <2> HIDE DEF L, w
  <2> QED BY <2>1, OneSeq DEF Single
<1> HIDE DEF w
<1> QED BY <1>1, <1>2, <1>4, SingleLines

(* The sums so far: one line for all lanes.                                *)
LEMMA ConvPartialFacts ==
  ASSUME NEW j, NEW done, NEW i, NEW turn
  PROVE  \E line : ConvPartial(j, done, i, turn) = <<line>> /\ Len(line) = SIMD_WIDTH
<1> DEFINE A(x) == LET o == turn * SIMD_WIDTH + x
                   IN IF o < j.wo * j.ho THEN partPixConv(j, done, i, o \div j.wo, o % j.wo) ELSE Zero
           line == [x \in 1 .. SIMD_WIDTH |-> A(x - 1)]
<1>1. ConvPartial(j, done, i, turn) = <<line>>
  BY DEF ConvPartial, Line
<1>2. SIMD_WIDTH \in Nat
  BY KernelFilesAssumption
<1> HIDE DEF A
<1>3. Len(line) = SIMD_WIDTH
  BY <1>2
<1> QED BY <1>1, <1>3

(* A later set: its weights, then of each turn the sums and activations.   *)
LEMMA ConvSetLines ==
  ASSUME NEW j, NEW i, NEW first, first # 0, NEW n \in Nat
  PROVE  SetLines(ConvSetData(j, i, first, n), n, ConvLoops(j))
<1>1. PICK w : /\ ConvWeights(j, i, first, n) = FlattenSeq(w) /\ IsSeq(FlattenSeq(w))
               /\ Tuple(w, n) /\ \A t \in 1 .. n : Single(w[t]) /\ Len(w[t][1]) = 1
  BY ConvWeightsFacts
<1> DEFINE y == [t \in 1 .. ConvLoops(j) |->
                   If(first # 0, ConvPartial(j, first % FilterSize(j), i, t - 1)) \o ConvActivations(j, first, n, t - 1)]
<1>2. ConvSetData(j, i, first, n)
        = (ConvWeights(j, i, first, n) \o If(first = 0, <<ScalarLine(<<"bias", i>>)>>)) \o FlattenSeq(y)
  BY DEF ConvSetData, For
<1>3. If(first = 0, <<ScalarLine(<<"bias", i>>)>>) = <<>>
  BY DEF If
<1>4. Tuple(y, ConvLoops(j))
  BY DEF Tuple
<1>5. ASSUME NEW t \in 1 .. ConvLoops(j)
      PROVE  y[t] = ConvPartial(j, first % FilterSize(j), i, t - 1) \o ConvActivations(j, first, n, t - 1)
  BY <1>5 DEF If
<1> HIDE DEF y
<1>6. ASSUME NEW t \in 1 .. ConvLoops(j)
      PROVE  \E line, words : y[t] = <<line>> \o words /\ Len(line) = SIMD_WIDTH /\ Lines(words, n)
  <2>1. PICK line : ConvPartial(j, first % FilterSize(j), i, t - 1) = <<line>> /\ Len(line) = SIMD_WIDTH
    BY ConvPartialFacts
  <2>2. Lines(ConvActivations(j, first, n, t - 1), n)
    BY ConvActivationsFacts
  <2>3. y[t] = <<line>> \o ConvActivations(j, first, n, t - 1)
    BY <1>5, <2>1
  <2> QED BY <2>1, <2>2, <2>3
<1>7. FlattenSeq(w) \o <<>> = FlattenSeq(w)
  BY <1>1, JoinedNone
<1>8. ConvSetData(j, i, first, n) = FlattenSeq(w) \o FlattenSeq(y)
  BY <1>1, <1>2, <1>3, <1>7
<1> QED BY <1>1, <1>4, <1>6, <1>8 DEF SetLines

(* The first set: weights and bias, then of each turn the activations.     *)
LEMMA ConvFirstLines ==
  ASSUME NEW j, NEW i, NEW n \in Nat
  PROVE  FirstLines(ConvSetData(j, i, 0, n), n, ConvLoops(j))
<1>1. PICK w : /\ ConvWeights(j, i, 0, n) = FlattenSeq(w) /\ IsSeq(FlattenSeq(w))
               /\ Tuple(w, n) /\ \A t \in 1 .. n : Single(w[t]) /\ Len(w[t][1]) = 1
  BY ConvWeightsFacts
<1> DEFINE y == [t \in 1 .. ConvLoops(j) |->
                   If(0 # 0, ConvPartial(j, 0 % FilterSize(j), i, t - 1)) \o ConvActivations(j, 0, n, t - 1)]
           bias == ScalarLine(<<"bias", i>>)
<1>2. ConvSetData(j, i, 0, n) = (ConvWeights(j, i, 0, n) \o If(0 = 0, <<bias>>)) \o FlattenSeq(y)
  BY DEF ConvSetData, For
<1>3. If(0 = 0, <<bias>>) = <<bias>>
  BY DEF If
<1>4. Tuple(y, ConvLoops(j))
  BY DEF Tuple
<1>5. ASSUME NEW t \in 1 .. ConvLoops(j)
      PROVE  y[t] = <<>> \o ConvActivations(j, 0, n, t - 1)
  BY <1>5 DEF If
<1>6. Len(bias) = 1
  BY ScalarLineFacts
<1> HIDE DEF y, bias
<1>7. ASSUME NEW t \in 1 .. ConvLoops(j) PROVE Lines(y[t], n)
  <2> DEFINE words == ConvActivations(j, 0, n, t - 1)
  <2>1. Lines(words, n)
    BY ConvActivationsFacts
  <2>2. y[t] = <<>> \o words
    BY <1>5
  <2> HIDE DEF words
  <2>3. <<>> \o words = words
    BY <2>1, JoinedNone DEF Lines
  <2> QED BY <2>1, <2>2, <2>3
<1> DEFINE data == (FlattenSeq(w) \o <<bias>>) \o FlattenSeq(y)
<1>8. ConvSetData(j, i, 0, n) = data
  BY <1>1, <1>2, <1>3
<1>9. BiasLines(data, n, ConvLoops(j), w, bias, y)
  BY <1>1, <1>4, <1>6, <1>7 DEF BiasLines
<1> HIDE DEF data
<1>10. FirstLines(data, n, ConvLoops(j))
  BY <1>9 DEF FirstLines
<1> QED BY <1>8, <1>10

(* The columns of a set and of what is left of a filter. *)
ConvTurn(j, i, s, turn) ==
  If(s > 0, ConvResult(j, i, turn)) \o ConvSetColumns(j, s, turn) \o ConvResult(j, i, turn)
ConvSet(j, i, s) == For(ConvLoops(j), LAMBDA turn : ConvTurn(j, i, s, turn))
ConvPeel(j, i) ==
  LET peeled == ConvSets(j) * ConvLoops(j) * CeilDiv(ConvMacs(j), 2)
  IN For(ConvLoops(j), LAMBDA turn :
       ConvResult(j, i, turn)
       \o Columns(peeled + turn * (ConvPeeling(j) \div 2), ConvPeeling(j))
       \o ConvResult(j, i, turn))

(* A turn has the columns of a first set, or of any other.                 *)
LEMMA ConvTurnColumns ==
  ASSUME NEW j, Mapped(j), NEW i, NEW turn, NEW s \in Nat,
         ConvSegment(j) \in Nat, ConvMacs(j) = ConvSegment(j)
  PROVE  IF s = 0 THEN FirstColumns(ConvTurn(j, i, s, turn), ConvSegment(j))
                  ELSE SetColumns(ConvTurn(j, i, s, turn), ConvSegment(j))
<1> DEFINE n == ConvSegment(j)
           number == (s * ConvLoops(j) + turn) * CeilDiv(n, 2)
           result == ConvResult(j, i, turn)
<1>1. ConvTurn(j, i, s, turn) = (If(s > 0, result) \o Columns(number, n)) \o result
  <2>1. ConvMacs(j) = n
    OBVIOUS
  <2> HIDE DEF n
  <2> QED BY <2>1 DEF ConvTurn, ConvSetColumns
<1>2. /\ SetColumns((result \o Columns(number, n)) \o result, n)
      /\ FirstColumns((<<>> \o Columns(number, n)) \o result, n)
  BY ResultTurn
<1>3. If(s > 0, result) = IF s = 0 THEN <<>> ELSE result
  BY DEF If
<1> HIDE DEF n, number, result
<1>4. CASE s = 0
  <2>1. ConvTurn(j, i, s, turn) = (<<>> \o Columns(number, n)) \o result
    BY <1>1, <1>3, <1>4
  <2> QED BY <1>2, <1>4, <2>1 DEF n
<1>5. CASE s # 0
  <2>1. ConvTurn(j, i, s, turn) = (result \o Columns(number, n)) \o result
    BY <1>1, <1>3, <1>5
  <2> QED BY <1>2, <1>5, <2>1 DEF n
<1> QED BY <1>4, <1>5

(* The first set of a filter.                                              *)
LEMMA ConvFirstPasses ==
  ASSUME NEW j, Mapped(j), Handled(j), j.kernel = "CCWWR", NEW i
  PROVE  Passes(j, ConvFirst(j, ConvSegment(j), ConvSegment(j)), (Weights(ConvSegment(j)) \o Scalar(SrfA0)) \o Exec,
                ConvSet(j, i, 0), ConvSetData(j, i, 0, ConvSegment(j)))
<1> DEFINE n == ConvSegment(j)
           loops == ConvLoops(j)
           x == [t \in 1 .. loops |-> ConvTurn(j, i, 0, t - 1)]
           data == ConvSetData(j, i, 0, n)
<1>1. /\ n \in Nat /\ n > 1 /\ n <= j.SRF_M_ENTRIES /\ loops \in Nat \ {0}
      /\ ConvMacs(j) = n
  BY ConvSizes
<1>2. ConvSet(j, i, 0) = FlattenSeq(x)
  BY DEF ConvSet, For
<1>3. Tuple(x, loops)
  BY DEF Tuple
<1>4. ASSUME NEW t \in 1 .. loops PROVE FirstColumns(x[t], n)
  <2>1. FirstColumns(ConvTurn(j, i, 0, t - 1), n)
    BY <1>1, ConvTurnColumns
  <2>2. x[t] = ConvTurn(j, i, 0, t - 1)
    OBVIOUS
  <2> QED BY <2>1, <2>2
<1>5. FirstLines(data, n, loops)
  BY <1>1, ConvFirstLines
<1>6. ConvFirst(j, n, n) = ConvBody(n) \o SumEnd((1 + (n - 1)) + 1, loops)
  BY <1>1, ConvFirstCode
<1> HIDE DEF n, loops, x, data
<1>7. Passes(j, ConvBody(n) \o SumEnd((1 + (n - 1)) + 1, loops),
             (Weights(n) \o Scalar(SrfA0)) \o Exec, FlattenSeq(x), data)
  BY <1>1, <1>3, <1>4, <1>5, FirstPasses
<1> QED BY <1>2, <1>6, <1>7 DEF n, data

(* Any other set, of all weights that fit or of those left over. *)
LEMMA ConvSetPasses ==
  ASSUME NEW j, Mapped(j), Handled(j), j.kernel = "CCWWR", NEW n \in Nat, n <= j.SRF_M_ENTRIES,
         NEW x, Tuple(x, ConvLoops(j)), \A t \in 1 .. ConvLoops(j) : SetColumns(x[t], n),
         NEW i, NEW first, first # 0
  PROVE  Passes(j, ConvNext(j, n, n), Weights(n) \o Exec, FlattenSeq(x), ConvSetData(j, i, first, n))
<1>1. ConvLoops(j) \in Nat \ {0}
  BY ConvSizes
<1>2. SetLines(ConvSetData(j, i, first, n), n, ConvLoops(j))
  BY ConvSetLines
<1>3. ConvNext(j, n, n) = MmBody(n) \o SumEnd((1 + n) + 1, ConvLoops(j))
  BY ConvNextCode
<1> DEFINE data == ConvSetData(j, i, first, n)
           loops == ConvLoops(j)
<1> HIDE DEF data, loops
<1>4. Passes(j, MmBody(n) \o SumEnd((1 + n) + 1, loops), Weights(n) \o Exec, FlattenSeq(x), data)
  BY <1>1, <1>2, SetPasses DEF data, loops
<1> QED BY <1>3, <1>4 DEF data, loops

(* A later set of a filter ...                                             *)
LEMMA ConvLaterPasses ==
  ASSUME NEW j, Mapped(j), Handled(j), j.kernel = "CCWWR", NEW i, NEW s \in Nat \ {0}
  PROVE  Passes(j, ConvNext(j, ConvSegment(j), ConvSegment(j)), Weights(ConvSegment(j)) \o Exec,
                ConvSet(j, i, s), ConvSetData(j, i, s * ConvSegment(j), ConvSegment(j)))
<1> DEFINE n == ConvSegment(j)
           loops == ConvLoops(j)
           x == [t \in 1 .. loops |-> ConvTurn(j, i, s, t - 1)]
<1>1. n \in Nat /\ n > 1 /\ n <= j.SRF_M_ENTRIES /\ ConvMacs(j) = n
  BY ConvSizes
<1>2. ConvSet(j, i, s) = FlattenSeq(x)
  BY DEF ConvSet, For
<1>3. Tuple(x, loops)
  BY DEF Tuple
<1>4. ASSUME NEW t \in 1 .. loops PROVE SetColumns(x[t], n)
  <2>1. SetColumns(ConvTurn(j, i, s, t - 1), n)
    BY <1>1, ConvTurnColumns
  <2>2. x[t] = ConvTurn(j, i, s, t - 1)
    OBVIOUS
  <2> QED BY <2>1, <2>2
<1> HIDE DEF n, x
<1>5. s * n # 0
  <2>1. n \in Nat \ {0}
    BY <1>1
  <2> QED BY <2>1, NonZero
<1>6. Passes(j, ConvNext(j, n, n), Weights(n) \o Exec, FlattenSeq(x), ConvSetData(j, i, s * n, n))
  BY <1>1, <1>3, <1>4, <1>5, ConvSetPasses
<1> QED BY <1>2, <1>6 DEF n

(* ... and what is left of the filter.                                     *)
LEMMA ConvPeelPasses ==
  ASSUME NEW j, Mapped(j), Handled(j), j.kernel = "CCWWR", NEW i
  PROVE  Passes(j, ConvNext(j, ConvPeeling(j), ConvPeeling(j)), Weights(ConvPeeling(j)) \o Exec, ConvPeel(j, i),
                ConvSetData(j, i, ConvSets(j) * ConvSegment(j), ConvPeeling(j)))
<1> DEFINE n == ConvPeeling(j)
           peeled == ConvSets(j) * ConvLoops(j) * CeilDiv(ConvMacs(j), 2)
           first == ConvSets(j) * ConvSegment(j)
           number(t) == peeled + t * (n \div 2)
           turn(t) == (ConvResult(j, i, t) \o Columns(number(t), n)) \o ConvResult(j, i, t)
           x == [t \in 1 .. ConvLoops(j) |-> turn(t - 1)]
<1>1. n \in Nat /\ n <= j.SRF_M_ENTRIES
  BY ConvSizes
<1>2. ConvPeel(j, i) = FlattenSeq(x)
  BY DEF ConvPeel, For
<1>3. Tuple(x, ConvLoops(j))
  BY DEF Tuple
<1>4. ASSUME NEW t \in 1 .. ConvLoops(j) PROVE SetColumns(x[t], n)
  <2>1. SetColumns(turn(t - 1), n)
    <3> HIDE DEF number
    <3> QED BY <1>1, ResultTurn
  <2>2. x[t] = turn(t - 1)
    OBVIOUS
  <2> HIDE DEF x, turn
  <2> QED BY <2>1, <2>2
<1>5. first # 0
  <2>1. ConvSets(j) \in Nat \ {0} /\ ConvSegment(j) \in Nat /\ ConvSegment(j) > 1
    BY ConvSizes
  <2>2. ConvSegment(j) \in Nat \ {0}
    BY <2>1
  <2> QED BY <2>1, <2>2, NonZero
<1> HIDE DEF n, x, first
<1>6. Passes(j, ConvNext(j, n, n), Weights(n) \o Exec, FlattenSeq(x), ConvSetData(j, i, first, n))
  BY <1>1, <1>3, <1>4, <1>5, ConvSetPasses
<1> QED BY <1>2, <1>6 DEF n, first

(* The lines of a filter: of its first set, of the later sets, of what is  *)
(* left of it.                                                             *)
ConvStart(j) ==
  Section(0, ConvFirst(j, ConvSegment(j), ConvSegment(j))) \o Weights(ConvSegment(j)) \o Scalar(SrfA0) \o Exec
ConvLater(j) ==
  Section(0, ConvNext(j, ConvSegment(j), ConvSegment(j))) \o Copies(Weights(ConvSegment(j)) \o Exec, ConvSets(j) - 1)
ConvLast(j) ==
  Section(ConvPeeling(j) + 1, ConvTail(j, ConvPeeling(j) + 2)) \o Weights(ConvPeeling(j)) \o Exec
LaterSets(j, i) == FlattenSeq([s \in 1 .. ConvSets(j) - 1 |-> ConvSet(j, i, s)])
LaterData(j, i) ==
  FlattenSeq([s \in 1 .. ConvSets(j) - 1 |-> ConvSetData(j, i, s * ConvSegment(j), ConvSegment(j))])
FilterData(j, i) ==
  For(ConvSets(j), LAMBDA s : ConvSetData(j, i, s * ConvSegment(j), ConvSegment(j)))
  \o ConvPeeledData(j, i)

(* The lines of a set of scalars are a sequence.                           *)
LEMMA WeightsSeq ==
  ASSUME NEW j, Mapped(j), NEW n \in Nat, n <= j.SRF_M_ENTRIES
  PROVE  IsSeq(Weights(n))
<1>1. \A k \in 0 .. n - 1 : SrfM(k) \in Registers(j)
  <2> SUFFICES ASSUME NEW k \in 0 .. n - 1 PROVE SrfM(k) \in Registers(j)
    OBVIOUS
  <2>1. k \in 0 .. j.SRF_M_ENTRIES - 1
    BY RegisterFacts
  <2> QED BY <2>1, RegisterFacts
<1>2. PICK w : Tuple(w, n) /\ \A t \in 1 .. n : Single(w[t]) /\ Len(w[t][1]) = 1
  BY ConvWeightsFacts
<1>3. InStep(j, <<>>, <<>>, <<>>, <<>>, {} \cup {SrfM(k) : k \in 0 .. n - 1}, -1, 0)
  BY TheEnd
<1> QED BY <1>1, <1>2, <1>3, WeightsBlock

(* The program of the first set is written, and the set is run.            *)
LEMMA ConvStartPasses ==
  ASSUME NEW j, Mapped(j), Handled(j), j.kernel = "CCWWR", NEW i
  PROVE  Passes(j, <<>>, ConvStart(j), ConvSet(j, i, 0), ConvSetData(j, i, 0, ConvSegment(j)))
<1> DEFINE n == ConvSegment(j)
           held == ConvFirst(j, n, n)
           run == (Weights(n) \o Scalar(SrfA0)) \o Exec
           x == ConvSet(j, i, 0)
           y == ConvSetData(j, i, 0, n)
<1>1. n \in Nat /\ n > 1 /\ n <= j.SRF_M_ENTRIES /\ n + 4 <= j.CRF_ENTRIES
  BY ConvSizes
<1>2. Passes(j, held, run, x, y)
  BY ConvFirstPasses
<1>3. PICK m \in {2, 3} : Code(j, held, (1 + (n - 1)) + m)
  <2> HIDE DEF n
  <2> QED BY <1>1, ConvFirstCode
<1>4. ConvStart(j) = ((Section(0, held) \o Weights(n)) \o Scalar(SrfA0)) \o Exec
  BY DEF ConvStart
<1>5. IsSeq(Weights(n))
  <2> HIDE DEF n
  <2> QED BY <1>1, WeightsSeq
<1> HIDE DEF n, held, x, y
<1>6. Passes(j, <<>>, Section(0, held) \o run, x, y)
  <2>1. (1 + (n - 1)) + m \in Nat /\ (1 + (n - 1)) + m <= j.CRF_ENTRIES
    BY <1>1, RegisterFacts
  <2> HIDE DEF run
  <2> QED BY <1>2, <1>3, <2>1, SectionPasses
<1>7. ConvStart(j) = Section(0, held) \o run
  <2>1. IsSeq(Section(0, held)) /\ IsSeq(Scalar(SrfA0)) /\ IsSeq(Exec)
    BY OneSeq DEF Section, Scalar, Exec
  <2> DEFINE a == Section(0, held)
             b == Weights(n)
             c == Scalar(SrfA0)
             d == Exec
  <2>2. AllSeqs(a, b, c, d) /\ ThreeSeqs(b, c, d)
    BY <1>5, <2>1 DEF AllSeqs, ThreeSeqs
  <2> HIDE DEF a, b, c, d
  <2>3. ((a \o b) \o c) \o d = a \o (b \o (c \o d))
    BY <2>2, RegroupTwice, SMTT(30)
  <2>4. (b \o c) \o d = b \o (c \o d)
    BY <2>2, RegroupThree
  <2>5. ((a \o b) \o c) \o d = a \o ((b \o c) \o d)
    BY <2>3, <2>4
  <2> QED BY <1>4, <2>5 DEF a, b, c, d
<1> QED BY <1>6, <1>7 DEF x, y, n

(* All later sets, once their program has been written.                    *)
LEMMA ConvLaterSets ==
  ASSUME NEW j, Mapped(j), Handled(j), j.kernel = "CCWWR", NEW i
  PROVE  Passes(j, ConvNext(j, ConvSegment(j), ConvSegment(j)),
                Copies(Weights(ConvSegment(j)) \o Exec, ConvSets(j) - 1), LaterSets(j, i), LaterData(j, i))
<1> DEFINE n == ConvSegment(j)
           m == ConvSets(j) - 1
           held == ConvNext(j, n, n)
           run == Weights(n) \o Exec
           x == [s \in 1 .. m |-> ConvSet(j, i, s)]
           y == [s \in 1 .. m |-> ConvSetData(j, i, s * n, n)]
<1>1. m \in Nat /\ n \in Nat /\ n <= j.SRF_M_ENTRIES
  BY ConvSizes
<1>2. IsSeq(held)
  <2>1. \E k \in {2, 3} : Code(j, held, (1 + n) + k)
    BY <1>1, ConvNextCode
  <2> QED BY <2>1, CodeSeq
<1>3. Tuple(x, m) /\ Tuple(y, m)
  BY DEF Tuple
<1>4. LaterSets(j, i) = FlattenSeq(x) /\ LaterData(j, i) = FlattenSeq(y)
  BY DEF LaterSets, LaterData
<1>5. ASSUME NEW s \in 1 .. m PROVE Passes(j, held, run, x[s], y[s])
  <2>1. s \in Nat \ {0}
    BY <1>1
  <2>2. Passes(j, held, run, ConvSet(j, i, s), ConvSetData(j, i, s * n, n))
    BY <2>1, ConvLaterPasses
  <2>3. x[s] = ConvSet(j, i, s) /\ y[s] = ConvSetData(j, i, s * n, n)
    OBVIOUS
  <2> HIDE DEF x, y, held, run, n, m
  <2> QED BY <2>2, <2>3
<1> HIDE DEF x, y, held, run, n, m
<1>6. Passes(j, held, Copies(run, m), FlattenSeq(x), FlattenSeq(y))
  BY <1>1, <1>2, <1>3, <1>5, PassesCopies
<1> QED BY <1>4, <1>6 DEF held, run, m, n

(* The later sets alone, and with what is left of the filter behind them.  *)
LEMMA ConvLaterWritten ==
  ASSUME NEW j, Mapped(j), Handled(j), j.kernel = "CCWWR", NEW i
  PROVE  /\ Passes(j, <<>>, ConvLater(j), LaterSets(j, i), LaterData(j, i))
         /\ ConvPeeling(j) <= ConvSegment(j) =>
              Passes(j, <<>>, ConvLater(j) \o ConvLast(j), LaterSets(j, i) \o ConvPeel(j, i),
                     LaterData(j, i) \o ConvSetData(j, i, ConvSets(j) * ConvSegment(j), ConvPeeling(j)))
<1> DEFINE n == ConvSegment(j)
           p == ConvPeeling(j)
           held == ConvNext(j, n, n)
           run == Weights(p) \o Exec
           sets == Copies(Weights(n) \o Exec, ConvSets(j) - 1)
           x == LaterSets(j, i)
           y == LaterData(j, i)
           z == ConvPeel(j, i)
           w == ConvSetData(j, i, ConvSets(j) * n, p)
           end == ConvTail(j, p + 2)
           over == Section(p + 1, end) \o run
<1>1. /\ n \in Nat /\ n <= j.SRF_M_ENTRIES /\ n + 4 <= j.CRF_ENTRIES
      /\ p \in Nat /\ p <= j.SRF_M_ENTRIES /\ j.CRF_ENTRIES \in Nat
  BY ConvSizes, RegisterFacts
<1>2. Passes(j, held, sets, x, y)
  BY ConvLaterSets
<1>3. PICK a \in {2, 3} : Code(j, held, (1 + n) + a)
  <2> HIDE DEF n
  <2> QED BY <1>1, ConvNextCode
<1>4. /\ held = MmBody(n) \o ConvTail(j, n + 2) /\ ConvNext(j, p, p) = MmBody(p) \o end
      /\ \E b \in {2, 3} : Code(j, ConvTail(j, n + 2), b)
  <2> HIDE DEF n, p
  <2> QED BY <1>1, ConvNextCode
<1>5. PICK b \in {2, 3} : Code(j, end, b)
  <2> HIDE DEF p
  <2> QED BY <1>1, ConvNextCode
<1>6. Passes(j, ConvNext(j, p, p), run, z, w)
  BY ConvPeelPasses
<1>7. ConvLater(j) = Section(0, held) \o sets
  BY DEF ConvLater
<1>8. ConvLast(j) = (Section(p + 1, end) \o Weights(p)) \o Exec
  BY DEF ConvLast
<1>9. a \in Nat /\ b \in Nat /\ a <= 3 /\ b <= 3
  OBVIOUS
<1>10. (1 + n) + a \in Nat /\ (1 + n) + a <= j.CRF_ENTRIES
  <2> HIDE DEF n
  <2> QED BY <1>1, <1>9
<1>11. IsSeq(Weights(p))
  <2> HIDE DEF p
  <2> QED BY <1>1, WeightsSeq
<1> HIDE DEF n, p, held, sets, x, y, z, w, end
<1>12. Passes(j, <<>>, Section(0, held) \o sets, x, y)
  BY <1>2, <1>3, <1>10, SectionPasses
<1>13. ConvLast(j) = over
  <2>1. IsSeq(Section(p + 1, end)) /\ IsSeq(Exec)
    BY OneSeq DEF Section, Exec
  <2>2. ThreeSeqs(Section(p + 1, end), Weights(p), Exec)
    BY <1>11, <2>1 DEF ThreeSeqs
  <2>3. (Section(p + 1, end) \o Weights(p)) \o Exec = Section(p + 1, end) \o (Weights(p) \o Exec)
    BY <2>2, RegroupThree
  <2> QED BY <1>8, <2>3
<1>14. ASSUME p <= n
       PROVE  Passes(j, <<>>, ConvLater(j) \o ConvLast(j), x \o z, y \o w)
  <2>1. /\ IsSeq(MmBody(p)) /\ Len(MmBody(p)) = 1 + p /\ Begins(held, MmBody(p))
    <3>1. IsSeq(ConvTail(j, n + 2))
      BY <1>4, CodeSeq
    <3>2. Begins(MmBody(n) \o ConvTail(j, n + 2), MmBody(p))
      BY <1>1, <1>14, <3>1, MmBodyBegins
    <3>3. IsSeq(MmBody(p)) /\ Len(MmBody(p)) = 1 + p
      BY <1>1, <1>14, <3>1, MmBodyBegins
    <3> QED BY <1>4, <3>2, <3>3
  <2>2. IsSeq(held)
    BY <1>3, CodeSeq
  <2>3. Leaves(j, held, over, z, w)
    <3>1. Passes(j, MmBody(p) \o end, run, z, w)
      BY <1>4, <1>6
    <3>2. Len(MmBody(p)) + b <= j.CRF_ENTRIES
      BY <1>1, <1>9, <1>14, <2>1
    <3> HIDE DEF run
    <3>3. Leaves(j, held, Section(Len(MmBody(p)), end) \o run, z, w)
      BY <1>5, <1>9, <2>1, <2>2, <3>1, <3>2, OverwriteLeaves
    <3>4. Len(MmBody(p)) = p + 1
      BY <1>1, <2>1
    <3> QED BY <3>3, <3>4
  <2> HIDE DEF over
  <2>4. Leaves(j, held, sets \o over, x \o z, y \o w)
    BY <1>2, <2>2, <2>3, LeavesJoined
  <2>5. Passes(j, <<>>, Section(0, held) \o (sets \o over), x \o z, y \o w)
    BY <1>3, <1>10, <2>4, WrittenLeaves
  <2>6. (Section(0, held) \o sets) \o over = Section(0, held) \o (sets \o over)
    <3>1. IsSeq(Section(0, held)) /\ IsSeq(sets) /\ IsSeq(over)
      BY <1>2, <2>3, OneSeq DEF Passes, Leaves, Section
    <3>2. ThreeSeqs(Section(0, held), sets, over)
      BY <3>1 DEF ThreeSeqs
    <3> QED BY <3>2, RegroupThree
  <2>7. ConvLater(j) \o ConvLast(j) = Section(0, held) \o (sets \o over)
    BY <1>7, <1>13, <2>6
  <2> QED BY <2>5, <2>7
<1>15. Passes(j, <<>>, ConvLater(j), x, y)
  BY <1>7, <1>12
<1> QED BY <1>14, <1>15 DEF x, y, z, w, n, p

(* The lines of a filter are those of its first set, of the later sets if  *)
(* there are any, and of what is left of it if something is.               *)
LEMMA ConvFilterParts ==
  ASSUME NEW j, Mapped(j), Handled(j), j.kernel = "CCWWR", NEW i
  PROVE  /\ ConvFilterAssembly(j)
              = (ConvStart(j) \o If(ConvSets(j) > 1, ConvLater(j))) \o If(ConvPeeling(j) # 0, ConvLast(j))
         /\ ConvFilterAddresses(j, i)
              = (ConvSet(j, i, 0) \o LaterSets(j, i)) \o If(ConvPeeling(j) # 0, ConvPeel(j, i))
         /\ FilterData(j, i)
              = (ConvSetData(j, i, 0, ConvSegment(j)) \o LaterData(j, i))
                \o If(ConvPeeling(j) # 0,
                      ConvSetData(j, i, ConvSets(j) * ConvSegment(j), ConvPeeling(j)))
<1> DEFINE n == ConvSegment(j)
           S == ConvSets(j)
           p == ConvPeeling(j)
           x == [s \in 1 .. S |-> ConvSet(j, i, s - 1)]
           y == [s \in 1 .. S |-> ConvSetData(j, i, (s - 1) * n, n)]
<1>1. S \in Nat \ {0} /\ S - 1 \in Nat /\ n \in Nat
  BY ConvSizes
<1>2. ConvFilterAssembly(j) = (ConvStart(j) \o If(S > 1, ConvLater(j))) \o If(p # 0, ConvLast(j))
  <2>1. S > 0
    BY <1>1
  <2>2. ConvFilterAssembly(j)
          = (If(S > 0, ConvStart(j)) \o If(S > 1, ConvLater(j)))
            \o If(p # 0, IF S > 0 THEN ConvLast(j)
                         ELSE Section(0, ConvFirst(j, p, p)) \o Weights(p) \o Scalar(SrfA0) \o Exec)
    <3>1. ConvMacs(j) = ConvSegment(j)
      BY ConvSizes
    <3> QED BY <3>1 DEF ConvFilterAssembly, ConvStart, ConvLater, ConvLast, Copies, For
  <2>3. /\ If(S > 0, ConvStart(j)) = ConvStart(j)
        /\ (IF S > 0 THEN ConvLast(j)
            ELSE Section(0, ConvFirst(j, p, p)) \o Weights(p) \o Scalar(SrfA0) \o Exec) = ConvLast(j)
    BY <2>1 DEF If
  <2> HIDE DEF S, p
  <2> QED BY <2>2, <2>3
<1>3. ConvFilterAddresses(j, i) = FlattenSeq(x) \o If(p # 0, ConvPeel(j, i))
  BY DEF ConvFilterAddresses, ConvPeel, ConvSet, ConvTurn, For
<1>4. FilterData(j, i) = FlattenSeq(y) \o If(p # 0, ConvSetData(j, i, S * n, p))
  BY DEF FilterData, ConvPeeledData, For
<1>5. ASSUME NEW s \in 0 .. S - 1
      PROVE  IsSeq(ConvSet(j, i, s)) /\ IsSeq(ConvSetData(j, i, s * n, n))
  <2>1. CASE s = 0
    <3>1. Passes(j, ConvFirst(j, n, n), (Weights(n) \o Scalar(SrfA0)) \o Exec,
                 ConvSet(j, i, 0), ConvSetData(j, i, 0, n))
      BY ConvFirstPasses
    <3>2. 0 * n = 0
      BY <1>1
    <3> HIDE DEF n
    <3> QED BY <2>1, <3>1, <3>2 DEF Passes
  <2>2. CASE s # 0
    <3>1. s \in Nat \ {0}
      BY <1>1, <2>2
    <3>2. Passes(j, ConvNext(j, n, n), Weights(n) \o Exec, ConvSet(j, i, s),
                 ConvSetData(j, i, s * n, n))
      BY <3>1, ConvLaterPasses
    <3> HIDE DEF n
    <3> QED BY <3>2 DEF Passes
  <2> QED BY <2>1, <2>2
<1>6. (S - 1) + 1 = S /\ 1 \in 1 .. S
  BY <1>1
<1>7. Parts(x, S) /\ x[1] = ConvSet(j, i, 0) /\ \A s \in 1 .. S - 1 : x[s + 1] = ConvSet(j, i, s)
  <2>1. Tuple(x, S)
    BY DEF Tuple
  <2>2. ASSUME NEW s \in 1 .. S PROVE IsSeq(x[s])
    <3>1. s - 1 \in 0 .. S - 1
      BY <1>1
    <3> HIDE DEF S
    <3> QED BY <1>5, <3>1
  <2>3. x[1] = ConvSet(j, i, 0)
    <3>1. 1 - 1 = 0
      OBVIOUS
    <3> HIDE DEF S
    <3> QED BY <1>6, <3>1
  <2>4. ASSUME NEW s \in 1 .. S - 1 PROVE x[s + 1] = ConvSet(j, i, s)
    <3>1. s + 1 \in 1 .. S /\ (s + 1) - 1 = s
      BY <1>1
    <3> HIDE DEF S
    <3> QED BY <3>1
  <2> HIDE DEF x
  <2> QED BY <2>1, <2>2, <2>3, <2>4 DEF Parts
<1>8. /\ Parts(y, S) /\ y[1] = ConvSetData(j, i, 0, n)
      /\ \A s \in 1 .. S - 1 : y[s + 1] = ConvSetData(j, i, s * n, n)
  <2>1. Tuple(y, S)
    BY DEF Tuple
  <2>2. ASSUME NEW s \in 1 .. S PROVE IsSeq(y[s])
    <3>1. s - 1 \in 0 .. S - 1
      BY <1>1
    <3> HIDE DEF S
    <3> QED BY <1>5, <3>1
  <2>3. y[1] = ConvSetData(j, i, 0, n)
    <3>1. 1 - 1 = 0 /\ 0 * n = 0
      BY <1>1
    <3> HIDE DEF S, n
    <3> QED BY <1>6, <3>1
  <2>4. ASSUME NEW s \in 1 .. S - 1 PROVE y[s + 1] = ConvSetData(j, i, s * n, n)
    <3>1. s + 1 \in 1 .. S /\ (s + 1) - 1 = s
      BY <1>1
    <3> HIDE DEF S, n
    <3> QED BY <3>1
  <2> HIDE DEF y
  <2> QED BY <2>1, <2>2, <2>3, <2>4 DEF Parts
<1>9. /\ LaterSets(j, i) = FlattenSeq([s \in 1 .. S - 1 |-> ConvSet(j, i, s)])
      /\ LaterData(j, i) = FlattenSeq([s \in 1 .. S - 1 |-> ConvSetData(j, i, s * n, n)])
  BY DEF LaterSets, LaterData
<1> DEFINE m == S - 1
<1>10. m = S - 1
  OBVIOUS
<1> HIDE DEF x, y, S, n, p, m
<1>11. FlattenSeq(x) = ConvSet(j, i, 0) \o LaterSets(j, i)
  <2>1. m \in Nat /\ Parts(x, m + 1)
    BY <1>1, <1>6, <1>7, <1>10
  <2>2. FlattenSeq(x) = x[1] \o FlattenSeq([s \in 1 .. m |-> x[s + 1]])
    BY <2>1, FlattenFirst
  <2>3. [s \in 1 .. m |-> x[s + 1]] = [s \in 1 .. m |-> ConvSet(j, i, s)]
    BY <1>7, <1>10
  <2>4. LaterSets(j, i) = FlattenSeq([s \in 1 .. m |-> ConvSet(j, i, s)])
    BY <1>9, <1>10
  <2> QED BY <1>7, <2>2, <2>3, <2>4
<1>12. FlattenSeq(y) = ConvSetData(j, i, 0, n) \o LaterData(j, i)
  <2>1. m \in Nat /\ Parts(y, m + 1)
    BY <1>1, <1>6, <1>8, <1>10
  <2>2. FlattenSeq(y) = y[1] \o FlattenSeq([s \in 1 .. m |-> y[s + 1]])
    BY <2>1, FlattenFirst
  <2>3. [s \in 1 .. m |-> y[s + 1]] = [s \in 1 .. m |-> ConvSetData(j, i, s * n, n)]
    BY <1>8, <1>10
  <2>4. LaterData(j, i) = FlattenSeq([s \in 1 .. m |-> ConvSetData(j, i, s * n, n)])
    BY <1>9, <1>10
  <2> QED BY <1>8, <2>2, <2>3, <2>4
<1> QED BY <1>2, <1>3, <1>4, <1>11, <1>12 DEF n, p, S

(* One filter.                                                             *)
LEMMA ConvFilterPasses ==
  ASSUME NEW j, Mapped(j), Handled(j), j.kernel = "CCWWR", NEW i
  PROVE  Passes(j, <<>>, ConvFilterAssembly(j), ConvFilterAddresses(j, i), FilterData(j, i))
<1> DEFINE S == ConvSets(j)
           p == ConvPeeling(j)
           a == ConvStart(j)
           b == ConvLater(j)
           c == ConvLast(j)
           x == ConvSet(j, i, 0)
           y == LaterSets(j, i)
           z == ConvPeel(j, i)
           u == ConvSetData(j, i, 0, ConvSegment(j))
           v == LaterData(j, i)
           w == ConvSetData(j, i, S * ConvSegment(j), p)
<1>1. S \in Nat \ {0} /\ (p = 0 \/ (S > 1 /\ p <= ConvSegment(j)))
  BY ConvSizes
<1>2. Passes(j, <<>>, a, x, u)
  BY ConvStartPasses
<1>3. Passes(j, <<>>, b, y, v) /\ (p <= ConvSegment(j) => Passes(j, <<>>, b \o c, y \o z, v \o w))
  BY ConvLaterWritten
<1>4. /\ ConvFilterAssembly(j) = (a \o If(S > 1, b)) \o If(p # 0, c)
      /\ ConvFilterAddresses(j, i) = (x \o y) \o If(p # 0, z)
      /\ FilterData(j, i) = (u \o v) \o If(p # 0, w)
  BY ConvFilterParts
<1>5. ASSUME S = 1 PROVE y = <<>> /\ v = <<>>
  <2> DEFINE r == [s \in 1 .. S - 1 |-> ConvSet(j, i, s)]
             q == [s \in 1 .. S - 1 |-> ConvSetData(j, i, s * ConvSegment(j), ConvSegment(j))]
  <2>1. y = FlattenSeq(r) /\ v = FlattenSeq(q)
    BY DEF LaterSets, LaterData
  <2>2. S - 1 = 0
    BY <1>5
  <2>3. Tuple(r, 0) /\ Tuple(q, 0)
    BY <2>2 DEF Tuple
  <2> HIDE DEF r, q, y, v
  <2> QED BY <2>1, <2>3, FlattenNone
<1>6. IsSeq(u) /\ IsSeq(v) /\ IsSeq(x) /\ IsSeq(y) /\ IsSeq(a) /\ IsSeq(b)
  <2> HIDE DEF a, b, x, y, u, v
  <2>1. IsSeq(a) /\ IsSeq(x) /\ IsSeq(u)
    BY <1>2 DEF Passes
  <2>2. IsSeq(b) /\ IsSeq(y) /\ IsSeq(v)
    BY <1>3 DEF Passes
  <2> QED BY <2>1, <2>2
<1> HIDE DEF S, p, a, b, c, x, y, z, u, v, w
<1>7. CASE S > 1 /\ p # 0
  <2>1. Passes(j, <<>>, b \o c, y \o z, v \o w)
    BY <1>1, <1>3, <1>7
  <2>2. Passes(j, <<>>, a \o (b \o c), x \o (y \o z), u \o (v \o w))
    BY <1>2, <2>1, NoneSeq, PassesJoined
  <2>3. IsSeq(c) /\ IsSeq(z) /\ IsSeq(w)
    <3>1. c = (Section(p + 1, ConvTail(j, p + 2)) \o Weights(p)) \o Exec
      BY DEF c, p, ConvLast
    <3>2. p \in Nat /\ p <= j.SRF_M_ENTRIES
      BY ConvSizes DEF p
    <3>3. IsSeq(Weights(p)) /\ IsSeq(Section(p + 1, ConvTail(j, p + 2))) /\ IsSeq(Exec)
      BY <3>2, WeightsSeq, OneSeq DEF Section, Exec
    <3>4. IsSeq(Section(p + 1, ConvTail(j, p + 2)) \o Weights(p))
      BY <3>3, JoinedLen
    <3>5. IsSeq(c)
      BY <3>1, <3>3, <3>4, JoinedLen
    <3>6. Passes(j, ConvNext(j, p, p), Weights(p) \o Exec, z, w)
      BY ConvPeelPasses DEF z, w, p, S
    <3> QED BY <3>5, <3>6 DEF Passes
  <2>4. ThreeSeqs(a, b, c) /\ ThreeSeqs(x, y, z) /\ ThreeSeqs(u, v, w)
    BY <1>6, <2>3 DEF ThreeSeqs
  <2>5. (a \o b) \o c = a \o (b \o c)
    BY <2>4, RegroupThree
  <2>6. (x \o y) \o z = x \o (y \o z)
    BY <2>4, RegroupThree
  <2>7. (u \o v) \o w = u \o (v \o w)
    BY <2>4, RegroupThree
  <2>8. Passes(j, <<>>, (a \o b) \o c, (x \o y) \o z, (u \o v) \o w)
    BY <2>2, <2>5, <2>6, <2>7
  <2>9. If(S > 1, b) = b /\ If(p # 0, c) = c /\ If(p # 0, z) = z /\ If(p # 0, w) = w
    BY <1>7 DEF If
  <2> QED BY <1>4, <2>8, <2>9
<1>8. CASE p = 0
  <2>1. If(p # 0, c) = <<>> /\ If(p # 0, z) = <<>> /\ If(p # 0, w) = <<>>
    BY <1>8 DEF If
  <2>2. Passes(j, <<>>, a \o If(S > 1, b), x \o y, u \o v)
    <3>1. CASE S > 1
      <4>1. Passes(j, <<>>, a \o b, x \o y, u \o v)
        BY <1>2, <1>3, NoneSeq, PassesJoined
      <4> QED BY <3>1, <4>1 DEF If
    <3>2. CASE ~(S > 1)
      <4>1. S = 1
        BY <1>1, <3>2
      <4>2. y = <<>> /\ v = <<>> /\ If(S > 1, b) = <<>>
        BY <1>5, <4>1 DEF If
      <4>3. a \o <<>> = a /\ x \o <<>> = x /\ u \o <<>> = u
        BY <1>6, JoinedNone
      <4> QED BY <1>2, <4>2, <4>3
    <3> QED BY <3>1, <3>2
  <2> DEFINE A == a \o If(S > 1, b)
             X == x \o y
             U == u \o v
  <2>3. IsSeq(A) /\ IsSeq(X) /\ IsSeq(U)
    BY <2>2 DEF Passes
  <2>4. Passes(j, <<>>, A, X, U)
    BY <2>2
  <2>5. ConvFilterAssembly(j) = A \o <<>> /\ ConvFilterAddresses(j, i) = X \o <<>> /\ FilterData(j, i) = U \o <<>>
    BY <1>4, <2>1
  <2> HIDE DEF A, X, U
  <2>6. A \o <<>> = A /\ X \o <<>> = X /\ U \o <<>> = U
    BY <2>3, JoinedNone
  <2> QED BY <2>4, <2>5, <2>6
<1> QED BY <1>1, <1>7, <1>8

(* The three files of a convolution stay in step. *)
LEMMA ConvRuns ==
  ASSUME NEW j, Mapped(j), Handled(j), j.kernel = "CCWWR"
  PROVE  InStep(j, ConvAssembly(j), ConvAddresses(j), ConvData(j), <<>>, {}, -1, 0)
<1> DEFINE a == ConvFilterAssembly(j)
           x == [i \in 1 .. j.co |-> ConvFilterAddresses(j, i - 1)]
           y == [i \in 1 .. j.co |-> FilterData(j, i - 1)]
<1>1. j.co \in Nat
  BY ConvSizes
<1>2. /\ ConvAssembly(j) = Copies(a, j.co) /\ ConvAddresses(j) = FlattenSeq(x)
      /\ ConvData(j) = FlattenSeq(y)
  BY DEF ConvAssembly, ConvAddresses, ConvData, FilterData, Copies, For
<1>3. Tuple(x, j.co) /\ Tuple(y, j.co)
  BY DEF Tuple
<1>4. ASSUME NEW i \in 1 .. j.co PROVE Passes(j, <<>>, a, x[i], y[i])
  <2>1. x[i] = ConvFilterAddresses(j, i - 1) /\ y[i] = FilterData(j, i - 1)
    OBVIOUS
  <2> HIDE DEF x, y
  <2> QED BY <2>1, ConvFilterPasses
<1> HIDE DEF a, x, y
<1>5. Passes(j, <<>>, Copies(a, j.co), FlattenSeq(x), FlattenSeq(y))
  BY <1>1, <1>3, <1>4, NoneSeq, PassesCopies
<1> QED BY <1>2, <1>5, AllPass

(***************************************************************************)
(* The assembler's walk through the files of any job that is handled.      *)
(***************************************************************************)
AllHandled == \A j \in Jobs : Handled(j)

(* Where the assembler is. *)
Now == State(assembly, addrFile, dataFile, crf, DOMAIN regs, IF exec THEN execIdx ELSE -1,
             IF exec /\ jmpAct THEN jmpNum + 1 ELSE 0)

(* Inductive: the lines fit all steps to come, and what has been written   *)
(* is in its place.                                                        *)
WalkInv ==
  /\ job \in Jobs /\ Safe(job, Now)
  /\ exec \in BOOLEAN /\ jmpAct \in BOOLEAN /\ jmpNum \in Nat
  /\ exec => execIdx \in Nat
RegsInv ==
  /\ DOMAIN crf \subseteq 0 .. job.CRF_ENTRIES - 1
  /\ \A e \in DOMAIN crf : GoodInstr(job, crf[e])
  /\ DOMAIN regs \subseteq Registers(job)
  /\ \A o \in DOMAIN regs : Len(regs[o]) \in {1, SIMD_WIDTH}
ResultsInv == IsSeq(results) /\ ToSet(results) \subseteq DOMAIN mem
Inv == WalkInv /\ RegsInv /\ ResultsInv

(* Whatever the kernel: the files of a job stay in step from the start.    *)
LEMMA JobRuns ==
  ASSUME NEW j \in Jobs, AllHandled
  PROVE  InStep(j, Assembly(j), Addresses(j), Data(j), <<>>, {}, -1, 0)
<1>1. Mapped(j) /\ Handled(j)
  BY JobsAssumption DEF Mapped, AllHandled
<1>2. CASE j.kernel \in {"EWARW", "EWACW"}
  <2>1. InStep(j, VaAssembly(j), VaAddresses(j), VaData(j), <<>>, {}, -1, 0)
    BY <1>1, <1>2, VaRuns
  <2>2. Assembly(j) = VaAssembly(j) /\ Addresses(j) = VaAddresses(j) /\ Data(j) = VaData(j)
    BY <1>2 DEF Assembly, Addresses, Data
  <2> QED BY <2>1, <2>2
<1>3. CASE j.kernel = "DP"
  <2>1. InStep(j, DpAssembly(j), DpAddresses(j), DpData(j), <<>>, {}, -1, 0)
    BY <1>1, <1>3, DpRuns
  <2>2. Assembly(j) = DpAssembly(j) /\ Addresses(j) = DpAddresses(j) /\ Data(j) = DpData(j)
    BY <1>3 DEF Assembly, Addresses, Data
  <2> QED BY <2>1, <2>2
<1>4. CASE j.kernel = "MMS"
  <2>1. InStep(j, MmAssembly(j), MmAddresses(j), MmData(j), <<>>, {}, -1, 0)
    BY <1>1, <1>4, MmRunsInStep
  <2>2. Assembly(j) = MmAssembly(j) /\ Addresses(j) = MmAddresses(j) /\ Data(j) = MmData(j)
    BY <1>4 DEF Assembly, Addresses, Data
  <2> QED BY <2>1, <2>2
<1>5. CASE j.kernel = "CCWWR"
  <2>1. InStep(j, ConvAssembly(j), ConvAddresses(j), ConvData(j), <<>>, {}, -1, 0)
    BY <1>1, <1>5, ConvRuns
  <2>2. Assembly(j) = ConvAssembly(j) /\ Addresses(j) = ConvAddresses(j) /\ Data(j) = ConvData(j)
    BY <1>5 DEF Assembly, Addresses, Data
  <2> QED BY <2>1, <2>2
<1> QED BY <1>1, <1>2, <1>3, <1>4, <1>5 DEF Mapped, Kernels

(* The empty function and the empty sequence.                              *)
LEMMA NoSources == DOMAIN << >> = {} /\ ToSet(<< >>) = {}
  BY DEF ToSet

(* The domain and the values of a function that was changed in one place.  *)
LEMMA WithFacts ==
  ASSUME NEW f, NEW x, NEW v
  PROVE  /\ DOMAIN With(f, x, v) = DOMAIN f \cup {x}
         /\ \A y \in DOMAIN f \cup {x} : With(f, x, v)[y] = IF y = x THEN v ELSE f[y]
  BY DEF With

(* The elements of a sequence with one element behind.                     *)
LEMMA AppendedItems ==
  ASSUME NEW s, IsSeq(s), NEW e
  PROVE  IsSeq(Append(s, e)) /\ ToSet(Append(s, e)) \subseteq ToSet(s) \cup {e}
<1>1. Append(s, e) = s \o <<e>>
  BY Appended
<1>2. IsSeq(<<e>>) /\ Len(<<e>>) = 1 /\ <<e>>[1] = e
  BY OneSeq
<1> DEFINE one == <<e>>
           all == s \o one
<1> HIDE DEF one
<1>3. IsSeq(one) /\ Len(one) = 1 /\ one[1] = e
  BY <1>2 DEF one
<1>4. /\ IsSeq(all) /\ Len(all) = Len(s) + 1
      /\ \A i \in 1 .. Len(s) + 1 : all[i] = IF i <= Len(s) THEN s[i] ELSE one[i - Len(s)]
  BY <1>3, Joined
<1>5. Len(s) \in Nat /\ DOMAIN s = 1 .. Len(s) /\ DOMAIN all = 1 .. Len(s) + 1
  BY <1>4, SeqFacts
<1> HIDE DEF all
<1>6. ASSUME NEW i \in 1 .. Len(s) + 1 PROVE all[i] \in ToSet(s) \cup {e}
  <2>1. CASE i <= Len(s)
    BY <1>4, <1>5, <2>1 DEF ToSet
  <2>2. CASE ~(i <= Len(s))
    <3>1. i - Len(s) = 1
      BY <1>5, <2>2
    <3> QED BY <1>3, <1>4, <2>2, <3>1
  <2> QED BY <2>1, <2>2
<1>7. ToSet(all) \subseteq ToSet(s) \cup {e}
  BY <1>5, <1>6 DEF ToSet
<1>8. Append(s, e) = all
  BY <1>1 DEF all, one
<1> QED BY <1>4, <1>7, <1>8

(* The parts of the state the walk depends on.                             *)
LEMMA NowFacts ==
  /\ Now.asm = assembly /\ Now.addr = addrFile /\ Now.data = dataFile /\ Now.prog = crf
  /\ Now.known = DOMAIN regs /\ Now.at = (IF exec THEN execIdx ELSE -1)
  /\ Now.left = IF exec /\ jmpAct THEN jmpNum + 1 ELSE 0
  BY DEF Now, State

(* What a line, or an entry of the program, fits. *)
LEMMA AtLine ==
  ASSUME WalkInv, ~exec, assembly # <<>>
  PROVE  /\ GoodLine(job, Head(assembly), dataFile)
         /\ Safe(job, LineStep(Now, Head(assembly)))
<1>1. /\ Now.asm = assembly /\ Now.data = dataFile /\ Now.at = -1
  BY NowFacts
<1>2. ~Over(Now)
  BY <1>1 DEF Over
<1>3. Good(job, Now) /\ Safe(job, StepOf(Now))
  BY <1>2, SafeIsGood DEF WalkInv
<1>4. StepOf(Now) = LineStep(Now, Head(assembly))
  BY <1>1 DEF StepOf
<1> HIDE DEF Now
<1> QED BY <1>1, <1>3, <1>4 DEF Good

(* Inside an EXEC the entry the walk is at fits.                           *)
LEMMA AtEntry ==
  ASSUME WalkInv, exec
  PROVE  /\ execIdx \in DOMAIN crf /\ GoodEntry(Now, crf[execIdx])
         /\ Safe(job, EntryStep(Now, crf[execIdx]))
<1>1. /\ Now.prog = crf /\ Now.at = execIdx
  BY NowFacts
<1>2. Now.at # -1
  BY <1>1 DEF WalkInv
<1>3. ~Over(Now)
  BY <1>2 DEF Over
<1>4. Good(job, Now) /\ Safe(job, StepOf(Now))
  BY <1>3, SafeIsGood DEF WalkInv
<1>5. StepOf(Now) = EntryStep(Now, crf[execIdx])
  BY <1>1, <1>2 DEF StepOf
<1> QED BY <1>1, <1>2, <1>4, <1>5 DEF Good

(* The files as they are when map_kernel has written them.                 *)
LEMMA InvInit == ASSUME AllHandled PROVE Init => Inv
<1> SUFFICES ASSUME Init PROVE Inv
  OBVIOUS
<1>1. /\ job \in Jobs /\ assembly = Assembly(job) /\ addrFile = Addresses(job)
      /\ dataFile = Data(job) /\ crf = << >> /\ exec = FALSE /\ jmpAct = FALSE /\ jmpNum = 0
      /\ regs = << >> /\ mem = << >> /\ results = << >>
  BY DEF Init
<1>2. Now = State(Assembly(job), Addresses(job), Data(job), <<>>, {}, -1, 0)
  BY <1>1, NoSources DEF Now
<1>3. Safe(job, Now)
  BY <1>1, <1>2, JobRuns DEF InStep
<1>4. WalkInv
  BY <1>1, <1>3 DEF WalkInv
<1>5. RegsInv /\ ResultsInv
  BY <1>1, NoSources, NoneSeq DEF RegsInv, ResultsInv
<1> QED BY <1>4, <1>5 DEF Inv

(* A section of the CRF is overwritten.                                    *)
LEMMA WriteCrfStep == ASSUME Inv, WriteCrf PROVE Inv'
<1> DEFINE line == Head(assembly)
<1>1. /\ ~exec /\ assembly # <<>> /\ line.line = "WRF CRF" /\ assembly' = Tail(assembly)
      /\ crf' = Written(crf, line.at, line.instrs)
      /\ UNCHANGED <<job, addrFile, dataFile, exec, execIdx, jmpAct, jmpNum, regs, mem, results>>
  BY DEF WriteCrf, ReadLine, Written, walk
<1>2. WalkInv /\ RegsInv /\ ResultsInv
  BY DEF Inv
<1>3. GoodLine(job, line, dataFile) /\ Safe(job, LineStep(Now, line))
  BY <1>1, <1>2, AtLine
<1>4. /\ line.at \in Nat /\ IsSeq(line.instrs) /\ line.at + Len(line.instrs) <= job.CRF_ENTRIES
      /\ \A i \in 1 .. Len(line.instrs) : GoodInstr(job, line.instrs[i])
  <2> HIDE DEF line
  <2> QED BY <1>1, <1>3 DEF GoodLine
<1> HIDE DEF line
<1>5. Now' = LineStep(Now, line)
  <2>1. LineStep(Now, line)
          = State(Tail(assembly), addrFile, dataFile, Written(crf, line.at, line.instrs),
                  DOMAIN regs, -1, 0)
    BY <1>1, NowFacts DEF LineStep
  <2>2. Now' = State(Tail(assembly), addrFile, dataFile, Written(crf, line.at, line.instrs),
                     DOMAIN regs, -1, 0)
    BY <1>1 DEF Now
  <2> QED BY <2>1, <2>2
<1>6. WalkInv'
  BY <1>1, <1>2, <1>3, <1>5 DEF WalkInv
<1>7. RegsInv'
  <2>1. DOMAIN crf \subseteq 0 .. job.CRF_ENTRIES - 1 /\ \A e \in DOMAIN crf : GoodInstr(job, crf[e])
    BY <1>2 DEF RegsInv
  <2> DEFINE new == line.at .. line.at + Len(line.instrs) - 1
  <2>2. /\ DOMAIN crf' = DOMAIN crf \cup new
        /\ \A e \in DOMAIN crf \cup new : crf'[e] = IF e \in new THEN line.instrs[e - line.at + 1] ELSE crf[e]
    BY <1>1 DEF Written
  <2>3. Len(line.instrs) \in Nat /\ job.CRF_ENTRIES \in Nat
    <3>1. Mapped(job)
      BY <1>2, JobsAssumption DEF Mapped, WalkInv
    <3> QED BY <1>4, <3>1, SeqFacts, RegisterFacts
  <2>4. ASSUME NEW e \in new
        PROVE  e \in 0 .. job.CRF_ENTRIES - 1 /\ e - line.at + 1 \in 1 .. Len(line.instrs)
    <3> DEFINE first == line.at
               n == Len(line.instrs)
               size == job.CRF_ENTRIES
    <3>1. first \in Nat /\ n \in Nat /\ size \in Nat /\ first + n <= size
      BY <1>4, <2>3
    <3>2. e \in first .. first + n - 1
      OBVIOUS
    <3> HIDE DEF first, n, size
    <3>3. e \in 0 .. size - 1 /\ e - first + 1 \in 1 .. n
      BY <3>1, <3>2
    <3> QED BY <3>3 DEF first, n, size
  <2> HIDE DEF new
  <2>5. DOMAIN crf' \subseteq 0 .. job.CRF_ENTRIES - 1
    BY <2>1, <2>2, <2>4
  <2>6. \A e \in DOMAIN crf' : GoodInstr(job, crf'[e])
    BY <1>4, <2>1, <2>2, <2>4
  <2> QED BY <1>1, <1>2, <2>5, <2>6 DEF RegsInv, Registers, GoodInstr
<1>8. ResultsInv'
  BY <1>1, <1>2 DEF ResultsInv
<1> QED BY <1>6, <1>7, <1>8 DEF Inv

(* A scalar register takes the value the data file has for it.             *)
LEMMA WriteScalarStep == ASSUME Inv, WriteScalar PROVE Inv'
<1> DEFINE line == Head(assembly)
<1>1. /\ ~exec /\ assembly # <<>> /\ line.line = "WRF SRF" /\ assembly' = Tail(assembly)
      /\ regs' = With(regs, line.reg, Head(dataFile)) /\ dataFile' = Tail(dataFile)
      /\ UNCHANGED <<job, addrFile, crf, exec, execIdx, jmpAct, jmpNum, mem, results>>
  BY DEF WriteScalar, ReadLine, walk
<1>2. WalkInv /\ RegsInv /\ ResultsInv
  BY DEF Inv
<1>3. GoodLine(job, line, dataFile) /\ Safe(job, LineStep(Now, line))
  BY <1>1, <1>2, AtLine
<1> HIDE DEF line
<1>4. line.reg \in Registers(job) /\ Len(Head(dataFile)) = 1
  BY <1>1, <1>3 DEF GoodLine
<1>5. /\ DOMAIN regs' = DOMAIN regs \cup {line.reg}
      /\ \A o \in DOMAIN regs \cup {line.reg} :
           regs'[o] = IF o = line.reg THEN Head(dataFile) ELSE regs[o]
  <2> DEFINE reg == line.reg
             value == Head(dataFile)
  <2>1. regs' = With(regs, reg, value)
    BY <1>1
  <2> HIDE DEF reg, value
  <2>2. /\ DOMAIN regs' = DOMAIN regs \cup {reg}
        /\ \A o \in DOMAIN regs \cup {reg} : regs'[o] = IF o = reg THEN value ELSE regs[o]
    BY <2>1 DEF With
  <2> QED BY <2>2 DEF reg, value
<1>6. Now' = LineStep(Now, line)
  <2>1. LineStep(Now, line)
          = State(Tail(assembly), addrFile, Tail(dataFile), crf, DOMAIN regs \cup {line.reg}, -1, 0)
    BY <1>1, NowFacts DEF LineStep
  <2>2. Now' = State(Tail(assembly), addrFile, Tail(dataFile), crf, DOMAIN regs \cup {line.reg}, -1, 0)
    BY <1>1, <1>5 DEF Now
  <2> QED BY <2>1, <2>2
<1>7. WalkInv'
  BY <1>1, <1>2, <1>3, <1>6 DEF WalkInv
<1>8. RegsInv'
  <2>1. DOMAIN regs' \subseteq Registers(job) /\ \A o \in DOMAIN regs' : Len(regs'[o]) \in {1, SIMD_WIDTH}
    BY <1>2, <1>4, <1>5 DEF RegsInv
  <2> QED BY <1>1, <1>2, <2>1 DEF RegsInv, Registers, GoodInstr
<1>9. ResultsInv'
  BY <1>1, <1>2 DEF ResultsInv
<1> QED BY <1>7, <1>8, <1>9 DEF Inv

(* EXEC begins the walk at entry 0.                                        *)
LEMMA BeginExecStep == ASSUME Inv, BeginExec PROVE Inv'
<1> DEFINE line == Head(assembly)
<1>1. /\ ~exec /\ assembly # <<>> /\ line.line = "EXEC" /\ assembly' = Tail(assembly)
      /\ exec' = TRUE /\ execIdx' = 0 /\ jmpAct' = FALSE /\ jmpNum' = 0
      /\ UNCHANGED <<job, addrFile, dataFile, crf, regs, mem, results>>
  BY DEF BeginExec, ReadLine
<1>2. WalkInv /\ RegsInv /\ ResultsInv
  BY DEF Inv
<1>3. Safe(job, LineStep(Now, line))
  BY <1>1, <1>2, AtLine
<1> HIDE DEF line
<1>4. Now' = LineStep(Now, line)
  <2>1. LineStep(Now, line) = State(Tail(assembly), addrFile, dataFile, crf, DOMAIN regs, 0, 0)
    BY <1>1, NowFacts DEF LineStep
  <2>2. Now' = State(Tail(assembly), addrFile, dataFile, crf, DOMAIN regs, 0, 0)
    BY <1>1 DEF Now
  <2> QED BY <2>1, <2>2
<1>5. WalkInv'
  BY <1>1, <1>2, <1>3, <1>4 DEF WalkInv
<1>6. RegsInv'
  BY <1>1, <1>2 DEF RegsInv, Registers, GoodInstr
<1>7. ResultsInv'
  BY <1>1, <1>2 DEF ResultsInv
<1> QED BY <1>5, <1>6, <1>7 DEF Inv

(* A load takes a line of both files and writes its register.              *)
LEMMA LoadStep == ASSUME Inv, Load PROVE Inv'
<1> DEFINE ins == crf[execIdx]
<1>1. /\ exec /\ BankOperands(ins) # {} /\ ~IsStore(ins)
      /\ regs' = With(regs, ins.dst, Computed(ins))
      /\ mem' = IF Head(addrFile) \in DOMAIN mem THEN mem
                ELSE With(mem, Head(addrFile), Head(dataFile))
      /\ addrFile' = Tail(addrFile) /\ dataFile' = Tail(dataFile) /\ execIdx' = execIdx + 1
      /\ UNCHANGED <<job, assembly, crf, exec, jmpAct, jmpNum, results>>
  BY DEF Load, Walking
<1>2. WalkInv /\ RegsInv /\ ResultsInv
  BY DEF Inv
<1>3. execIdx \in DOMAIN crf /\ GoodEntry(Now, ins) /\ Safe(job, EntryStep(Now, ins))
  BY <1>1, <1>2, AtEntry
<1>4. Len(Computed(ins)) = SIMD_WIDTH
  <2> DEFINE V(x) == LET v(i) == Value(ins.src[i], x)
                     IN CASE ins.op = "MOV" -> v(1)
                          [] ins.op = "ADD" -> Plus(v(1), v(2))
                          [] ins.op = "MAC" -> Plus(Value(ins.dst, x), Times(v(1), v(2)))
                          [] ins.op = "MAD" -> Plus(v(3), Times(v(1), v(2)))
  <2>1. Computed(ins) = [x \in 1 .. SIMD_WIDTH |-> V(x - 1)]
    BY DEF Computed, Line
  <2>2. SIMD_WIDTH \in Nat
    BY KernelFilesAssumption
  <2> HIDE DEF V
  <2> QED BY <2>1, <2>2
<1>5. GoodInstr(job, ins)
  BY <1>2, <1>3 DEF RegsInv
<1> HIDE DEF ins
<1>6. ins.op \notin {"JUMP", "EXIT"}
  BY <1>1 DEF BankOperands
<1>7. ins.dst \in Registers(job)
  <2>1. ~IsBank(ins.dst)
    BY <1>1, <1>3, <1>6 DEF GoodEntry
  <2> QED BY <1>5, <1>6, <2>1 DEF GoodInstr
<1>8. /\ DOMAIN regs' = DOMAIN regs \cup {ins.dst}
      /\ \A o \in DOMAIN regs \cup {ins.dst} :
           regs'[o] = IF o = ins.dst THEN Computed(ins) ELSE regs[o]
  <2> DEFINE value == Computed(ins)
             reg == ins.dst
  <2>1. regs' = With(regs, reg, value)
    BY <1>1
  <2> HIDE DEF value, reg
  <2>2. /\ DOMAIN regs' = DOMAIN regs \cup {reg}
        /\ \A o \in DOMAIN regs \cup {reg} : regs'[o] = IF o = reg THEN value ELSE regs[o]
    BY <2>1 DEF With
  <2> QED BY <2>2 DEF value, reg
<1> DEFINE left == IF exec /\ jmpAct THEN jmpNum + 1 ELSE 0
<1>9. Now' = EntryStep(Now, ins)
  <2>1. EntryStep(Now, ins)
          = State(assembly, Tail(addrFile), Tail(dataFile), crf, DOMAIN regs \cup {ins.dst},
                  execIdx + 1, left)
    BY <1>1, <1>6, NowFacts DEF EntryStep
  <2>2. Now' = State(assembly, Tail(addrFile), Tail(dataFile), crf, DOMAIN regs \cup {ins.dst},
                     execIdx + 1, left)
    BY <1>1, <1>8 DEF Now
  <2> QED BY <2>1, <2>2
<1>10. WalkInv'
  BY <1>1, <1>2, <1>3, <1>9 DEF WalkInv
<1>11. RegsInv'
  <2>1. DOMAIN regs' \subseteq Registers(job) /\ \A o \in DOMAIN regs' : Len(regs'[o]) \in {1, SIMD_WIDTH}
    BY <1>2, <1>4, <1>7, <1>8 DEF RegsInv
  <2> QED BY <1>1, <1>2, <2>1 DEF RegsInv, Registers, GoodInstr
<1>12. ResultsInv'
  <2> DEFINE new == With(mem, Head(addrFile), Head(dataFile))
  <2>1. DOMAIN mem \subseteq DOMAIN new
    <3>1. DOMAIN new = DOMAIN mem \cup {Head(addrFile)}
      BY WithFacts
    <3> QED BY <3>1
  <2>2. mem' = mem \/ mem' = new
    BY <1>1
  <2> HIDE DEF new
  <2>3. DOMAIN mem \subseteq DOMAIN mem'
    BY <2>1, <2>2
  <2> QED BY <1>1, <1>2, <2>3 DEF ResultsInv
<1> QED BY <1>10, <1>11, <1>12 DEF Inv

(* A store takes an address line, and its column is a result.              *)
LEMMA StoreStep == ASSUME Inv, Store PROVE Inv'
<1> DEFINE ins == crf[execIdx]
           column == Head(addrFile)
<1>1. /\ exec /\ IsStore(ins)
      /\ mem' = With(mem, column, Computed(ins))
      /\ results' = IF column \in ToSet(results) THEN results ELSE Append(results, column)
      /\ addrFile' = Tail(addrFile) /\ execIdx' = execIdx + 1
      /\ UNCHANGED <<job, assembly, dataFile, crf, exec, jmpAct, jmpNum, regs>>
  BY DEF Store, Walking
<1>2. WalkInv /\ RegsInv /\ ResultsInv
  BY DEF Inv
<1>3. Safe(job, EntryStep(Now, ins))
  BY <1>1, <1>2, AtEntry
<1> HIDE DEF ins, column
<1>4. ins.op = "MOV"
  BY <1>1 DEF IsStore
<1> DEFINE left == IF exec /\ jmpAct THEN jmpNum + 1 ELSE 0
<1>5. Now' = EntryStep(Now, ins)
  <2>1. EntryStep(Now, ins) = State(assembly, Tail(addrFile), dataFile, crf, DOMAIN regs,
                                    execIdx + 1, left)
    BY <1>1, <1>4, NowFacts DEF EntryStep
  <2>2. Now' = State(assembly, Tail(addrFile), dataFile, crf, DOMAIN regs, execIdx + 1, left)
    BY <1>1 DEF Now
  <2> QED BY <2>1, <2>2
<1>6. WalkInv'
  BY <1>1, <1>2, <1>3, <1>5 DEF WalkInv
<1>7. RegsInv'
  BY <1>1, <1>2 DEF RegsInv, Registers, GoodInstr
<1>8. ResultsInv'
  <2>1. DOMAIN mem' = DOMAIN mem \cup {column}
    BY <1>1, WithFacts
  <2>2. IsSeq(results') /\ ToSet(results') \subseteq ToSet(results) \cup {column}
    BY <1>1, <1>2, AppendedItems DEF ResultsInv
  <2> QED BY <1>2, <2>1, <2>2 DEF ResultsInv
<1> QED BY <1>6, <1>7, <1>8 DEF Inv

(* JUMP loads its counter, counts down, or lets the walk go on.            *)
LEMMA JumpBackStep == ASSUME Inv, JumpBack PROVE Inv'
<1> DEFINE ins == crf[execIdx]
           left == IF jmpAct THEN jmpNum + 1 ELSE 0
<1>1. /\ exec /\ ins.op = "JUMP"
      /\ IF jmpAct /\ jmpNum = 0
         THEN jmpAct' = FALSE /\ execIdx' = execIdx + 1 /\ jmpNum' = jmpNum
         ELSE /\ jmpAct' = TRUE /\ jmpNum' = (IF jmpAct THEN jmpNum ELSE ins.dst[2]) - 1
              /\ execIdx' = execIdx - ins.dst[1]
      /\ UNCHANGED <<job, assembly, addrFile, dataFile, crf, exec, regs, mem, results>>
  BY DEF JumpBack, Walking
<1>2. WalkInv /\ RegsInv /\ ResultsInv
  BY DEF Inv
<1>3. execIdx \in DOMAIN crf /\ GoodEntry(Now, ins) /\ Safe(job, EntryStep(Now, ins))
  BY <1>1, <1>2, AtEntry
<1> HIDE DEF ins
<1>4. ins.dst[2] \in Nat \ {0} /\ execIdx - ins.dst[1] \in Nat
  <2>1. Now.at = execIdx
    BY <1>1, NowFacts
  <2> QED BY <1>1, <1>3, <2>1 DEF GoodEntry
<1>5. jmpNum \in Nat /\ execIdx \in Nat /\ jmpAct \in BOOLEAN
  BY <1>1, <1>2 DEF WalkInv
<1>6. EntryStep(Now, ins)
        = IF left = 1 THEN State(assembly, addrFile, dataFile, crf, DOMAIN regs, execIdx + 1, 0)
          ELSE State(assembly, addrFile, dataFile, crf, DOMAIN regs, execIdx - ins.dst[1],
                     IF left = 0 THEN ins.dst[2] ELSE left - 1)
  BY <1>1, NowFacts DEF EntryStep, JumpStep
<1>7. /\ Now' = EntryStep(Now, ins)
      /\ jmpAct' \in BOOLEAN /\ jmpNum' \in Nat /\ execIdx' \in Nat
  <2>1. CASE jmpAct /\ jmpNum = 0
    <3>1. left = 1
      BY <2>1
    <3>2. jmpAct' = FALSE /\ execIdx' = execIdx + 1 /\ jmpNum' = jmpNum
      BY <1>1, <2>1
    <3>3. Now' = State(assembly, addrFile, dataFile, crf, DOMAIN regs, execIdx + 1, 0)
      BY <1>1, <3>2 DEF Now
    <3>4. EntryStep(Now, ins) = State(assembly, addrFile, dataFile, crf, DOMAIN regs, execIdx + 1, 0)
      BY <1>6, <3>1
    <3>5. jmpAct' \in BOOLEAN
      BY <3>2, Zenon
    <3>6. jmpNum' \in Nat
      BY <1>5, <3>2
    <3>7. execIdx' \in Nat
      BY <1>5, <3>2
    <3> QED BY <3>3, <3>4, <3>5, <3>6, <3>7
  <2>2. CASE ~(jmpAct /\ jmpNum = 0)
    <3>1. left # 1 /\ (jmpAct => left # 0 /\ left - 1 = jmpNum) /\ (~jmpAct => left = 0)
      BY <1>5, <2>2
    <3>2. /\ jmpAct' = TRUE /\ jmpNum' = (IF jmpAct THEN jmpNum ELSE ins.dst[2]) - 1
          /\ execIdx' = execIdx - ins.dst[1]
      BY <1>1, <2>2
    <3>3. jmpNum' \in Nat /\ jmpNum' + 1 = IF left = 0 THEN ins.dst[2] ELSE left - 1
      BY <1>4, <1>5, <2>2, <3>1, <3>2
    <3> HIDE DEF left
    <3>4. Now' = State(assembly, addrFile, dataFile, crf, DOMAIN regs, execIdx - ins.dst[1],
                       IF left = 0 THEN ins.dst[2] ELSE left - 1)
      BY <1>1, <3>2, <3>3 DEF Now
    <3> QED BY <1>4, <1>6, <3>1, <3>2, <3>3, <3>4
  <2> QED BY <2>1, <2>2
<1>8. WalkInv'
  BY <1>1, <1>2, <1>3, <1>7 DEF WalkInv
<1>9. RegsInv'
  BY <1>1, <1>2 DEF RegsInv, Registers, GoodInstr
<1>10. ResultsInv'
  BY <1>1, <1>2 DEF ResultsInv
<1> QED BY <1>8, <1>9, <1>10 DEF Inv

(* EXIT ends the walk.                                                     *)
LEMMA ExitStep == ASSUME Inv, Exit PROVE Inv'
<1> DEFINE ins == crf[execIdx]
<1>1. /\ exec /\ ins.op = "EXIT" /\ exec' = FALSE
      /\ UNCHANGED <<job, assembly, addrFile, dataFile, crf, execIdx, jmpAct, jmpNum, regs, mem, results>>
  BY DEF Exit, Walking
<1>2. WalkInv /\ RegsInv /\ ResultsInv
  BY DEF Inv
<1>3. Safe(job, EntryStep(Now, ins))
  BY <1>1, <1>2, AtEntry
<1> HIDE DEF ins
<1>4. Now' = EntryStep(Now, ins)
  <2>1. EntryStep(Now, ins) = State(assembly, addrFile, dataFile, crf, DOMAIN regs, -1, 0)
    BY <1>1, NowFacts DEF EntryStep
  <2>2. Now' = State(assembly, addrFile, dataFile, crf, DOMAIN regs, -1, 0)
    BY <1>1 DEF Now
  <2> QED BY <2>1, <2>2
<1>5. WalkInv'
  BY <1>1, <1>2, <1>3, <1>4 DEF WalkInv
<1>6. RegsInv'
  BY <1>1, <1>2 DEF RegsInv, Registers, GoodInstr
<1>7. ResultsInv'
  BY <1>1, <1>2 DEF ResultsInv
<1> QED BY <1>5, <1>6, <1>7 DEF Inv

(* Every step keeps the invariant.                                         *)
LEMMA InvStep == Inv /\ [Next]_vars => Inv'
<1> SUFFICES ASSUME Inv, [Next]_vars PROVE Inv'
  OBVIOUS
<1>1. CASE WriteCrf
  BY <1>1, WriteCrfStep
<1>2. CASE WriteScalar
  BY <1>2, WriteScalarStep
<1>3. CASE BeginExec
  BY <1>3, BeginExecStep
<1>4. CASE Load
  BY <1>4, LoadStep
<1>5. CASE Store
  BY <1>5, StoreStep
<1>6. CASE JumpBack
  BY <1>6, JumpBackStep
<1>7. CASE Exit
  BY <1>7, ExitStep
<1>8. CASE Finished \/ UNCHANGED vars
  <2>1. UNCHANGED vars
    BY <1>8 DEF Finished
  <2> QED BY <2>1 DEF vars, Inv, WalkInv, RegsInv, ResultsInv, Now, Registers, GoodInstr
<1> QED BY <1>1, <1>2, <1>3, <1>4, <1>5, <1>6, <1>7, <1>8 DEF Next

(* It implies that the program and the registers are well formed ...       *)
LEMMA InvTypeOK == Inv => TypeOK
<1> SUFFICES ASSUME Inv PROVE TypeOK
  OBVIOUS
<1>1. WalkInv /\ RegsInv /\ ResultsInv
  BY DEF Inv
<1>2. exec => execIdx \in DOMAIN crf
  BY <1>1, AtEntry
<1>3. \A e \in DOMAIN crf : crf[e].op \in {"JUMP", "EXIT"}
        \/ \A o \in ToSet(crf[e].src) \cup {crf[e].dst} : IsBank(o) \/ o \in Registers(job)
  BY <1>1 DEF RegsInv, GoodInstr
<1> QED BY <1>1, <1>2, <1>3 DEF TypeOK, WalkInv, RegsInv, ResultsInv

(* ... and that the three files are in step.                               *)
LEMMA InvFilesAgree == Inv => FilesAgree
<1> SUFFICES ASSUME Inv PROVE FilesAgree
  OBVIOUS
<1>1. WalkInv
  BY DEF Inv
<1>2. ASSUME ~exec, assembly # <<>>, Head(assembly).line = "WRF SRF"
      PROVE  dataFile # <<>> /\ Len(Head(dataFile)) = 1
  BY <1>1, <1>2, AtLine DEF GoodLine
<1>3. ASSUME Walking, NEW o \in BankOperands(crf[execIdx])
      PROVE  /\ addrFile # << >> /\ Head(addrFile)[1] = o[1]
             /\ IsStore(crf[execIdx]) \/ (dataFile # << >> /\ Len(Head(dataFile)) = SIMD_WIDTH)
             /\ \A s \in ReadsFrom(crf[execIdx]) : IsBank(s) \/ s \in DOMAIN regs
  <2> DEFINE ins == crf[execIdx]
  <2>1. GoodEntry(Now, ins)
    BY <1>1, <1>3, AtEntry DEF Walking
  <2>2. o \in BankOperands(ins)
    BY <1>3
  <2>3. Now.addr = addrFile /\ Now.data = dataFile /\ Now.known = DOMAIN regs
    BY NowFacts
  <2> HIDE DEF ins
  <2>4. ins.op \notin {"JUMP", "EXIT"}
    BY <2>2 DEF BankOperands
  <2>5. /\ Now.addr # <<>> /\ \A q \in BankOperands(ins) : Head(Now.addr)[1] = q[1]
        /\ \A q \in ReadsFrom(ins) : IsBank(q) \/ q \in Now.known
        /\ IsStore(ins) \/ (Now.data # <<>> /\ Len(Head(Now.data)) = SIMD_WIDTH)
    BY <2>1, <2>4 DEF GoodEntry
  <2> QED BY <2>2, <2>3, <2>5 DEF ins
<1>4. ASSUME Done PROVE addrFile = <<>> /\ dataFile = <<>>
  <2>1. Now.asm = <<>> /\ Now.at = -1 /\ Now.addr = addrFile /\ Now.data = dataFile
    BY <1>4, NowFacts DEF Done
  <2>2. Over(Now)
    BY <2>1 DEF Over
  <2>3. Good(job, Now)
    BY <1>1, SafeIsGood DEF WalkInv
  <2> QED BY <2>1, <2>2, <2>3 DEF Good
<1> QED BY <1>2, <1>3, <1>4 DEF FilesAgree

(* Along every walk the lines left fit all steps to come, and what has     *)
(* been written to the CRF, the registers and the banks is in its place.   *)
THEOREM KernelInvariance == ASSUME AllHandled PROVE Spec => []Inv
<1>1. Init => Inv
  BY InvInit
<1>2. Inv /\ [Next]_vars => Inv'
  BY InvStep
<1> QED BY <1>1, <1>2, PTL DEF Spec

(* Whatever the sizes of the jobs, as long as they are handled: the        *)
(* program of every kernel (map_kernel, VA/DP/MM/conv) fits the CRF, also  *)
(* where part of it was overwritten, it names registers that exist, the    *)
(* walk never leaves the instructions written, a register holds one value  *)
(* or one per lane, and every result has been stored.                      *)
THEOREM KernelTyping == ASSUME AllHandled PROVE Spec => []TypeOK
<1>1. Inv => TypeOK
  BY InvTypeOK
<1> QED BY <1>1, KernelInvariance, PTL

(* Whatever the sizes of the jobs, as long as they are handled: the        *)
(* assembly, address and data files map_kernel writes stay in step through *)
(* loops, peeled parts and several EXECs.  An instruction on a bank finds  *)
(* an address of that bank, a load a line for all lanes, a scalar register *)
(* one value; no register is read before it was written; and the three     *)
(* files end together.                                                     *)
THEOREM KernelFilesAgree == ASSUME AllHandled PROVE Spec => []FilesAgree
<1>1. Inv => FilesAgree
  BY InvFilesAgree
<1> QED BY <1>1, KernelInvariance, PTL
=============================================================================
