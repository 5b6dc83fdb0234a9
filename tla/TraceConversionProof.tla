------------------------ MODULE TraceConversionProof ------------------------
(***************************************************************************)
(* Proofs about TraceConversion.  Every line has an ordinal on its channel; *)
(* the controllers send the lines of a channel by their ordinals, so the   *)
(* column command the converter reads next on a channel is that of the     *)
(* next ordinal.  Its line is the first of its queue if it has been read   *)
(* (lines wait in order), and else nothing of its channel waits, and the   *)
(* first match in the rest of the raw sequence is that line.               *)
(***************************************************************************)
EXTENDS TraceConversion, FunctionTheorems, FiniteSetTheorems, SequenceTheorems, TLAPS

-----------------------------------------------------------------------------
(* The number of indices of n bits: that of the subsets of the bits.       *)
LEMMA PowerOfTwo ==
  ASSUME NEW n \in Nat
  PROVE  /\ 2 ^ n \in Nat \ {0}
         /\ \A S : IsFiniteSet(S) /\ Cardinality(S) = n => Cardinality(SUBSET S) = 2 ^ n
<1>1. IsFiniteSet(1 .. n) /\ Cardinality(1 .. n) = n
  BY FS_Interval
<1>2. IsFiniteSet(SUBSET (1 .. n)) /\ Cardinality(SUBSET (1 .. n)) = 2 ^ n
  BY <1>1, FS_SUBSET
<1>3. SUBSET (1 .. n) # {}
  OBVIOUS
<1>4. 2 ^ n \in Nat \ {0}
  BY <1>2, <1>3, FS_CardinalityType, FS_EmptySet
<1> QED BY <1>4, FS_SUBSET

(* The indices of a word of a + b bits are the pairs of those of its parts. *)
LEMMA PowerOfSum ==
  ASSUME NEW a \in Nat, NEW b \in Nat
  PROVE  2 ^ (a + b) = 2 ^ a * 2 ^ b
<1> DEFINE L == 1 .. a
           H == a + 1 .. a + b
           W == 1 .. a + b
           f == [S \in SUBSET W |-> <<S \cap L, S \cap H>>]
<1>1. /\ IsFiniteSet(L) /\ Cardinality(L) = a
      /\ IsFiniteSet(H) /\ Cardinality(H) = b
      /\ IsFiniteSet(W) /\ Cardinality(W) = a + b
  <2>1. IsFiniteSet(L) /\ Cardinality(L) = a
    BY FS_Interval
  <2>2. /\ IsFiniteSet(H)
        /\ Cardinality(H) = IF a + 1 > a + b THEN 0 ELSE (a + b) - (a + 1) + 1
    BY a + 1 \in Int, a + b \in Int, FS_Interval
  <2>3. IsFiniteSet(W) /\ Cardinality(W) = IF 1 > a + b THEN 0 ELSE (a + b) - 1 + 1
    BY 1 \in Int, a + b \in Int, FS_Interval
  <2> HIDE DEF L, H, W
  <2> QED BY <2>1, <2>2, <2>3
<1>2. /\ IsFiniteSet(SUBSET L) /\ Cardinality(SUBSET L) = 2 ^ a
      /\ IsFiniteSet(SUBSET H) /\ Cardinality(SUBSET H) = 2 ^ b
      /\ IsFiniteSet(SUBSET W) /\ Cardinality(SUBSET W) = 2 ^ (a + b)
  BY <1>1, FS_SUBSET
<1>3. W = L \cup H /\ L \cap H = {}
  OBVIOUS
<1> HIDE DEF L, H, W
<1>4. \A S \in SUBSET W : S \cap L \in SUBSET L /\ S \cap H \in SUBSET H
  OBVIOUS
<1>5. \A l \in SUBSET L, h \in SUBSET H :
        l \cup h \in SUBSET W /\ (l \cup h) \cap L = l /\ (l \cup h) \cap H = h
  BY <1>3
<1> DEFINE Low == SUBSET L
           High == SUBSET H
           Both == SUBSET W
<1>6. f \in Bijection(Both, Low \X High)
  <2>1. /\ \A S \in Both : f[S] = <<S \cap L, S \cap H>>
        /\ \A S \in Both : S \cap L \in Low /\ S \cap H \in High
        /\ \A l \in Low, h \in High :
             l \cup h \in Both /\ (l \cup h) \cap L = l /\ (l \cup h) \cap H = h
        /\ \A S \in Both : S = (S \cap L) \cup (S \cap H)
    BY <1>3, <1>4, <1>5
  <2>2. f = [S \in Both |-> <<S \cap L, S \cap H>>]
    OBVIOUS
  <2> HIDE DEF Low, High, Both, f
  <2>3. f \in [Both -> Low \X High]
    BY <2>1, <2>2
  <2>4. ASSUME NEW S \in Both, NEW T \in Both, f[S] = f[T] PROVE S = T
    <3>1. S \cap L = T \cap L /\ S \cap H = T \cap H
      BY <2>1, <2>4
    <3> QED BY <2>1, <3>1
  <2>5. ASSUME NEW t \in Low \X High PROVE \E S \in Both : f[S] = t
    <3>1. t[1] \in Low /\ t[2] \in High /\ t = <<t[1], t[2]>>
      OBVIOUS
    <3>2. t[1] \cup t[2] \in Both /\ f[t[1] \cup t[2]] = t
      BY <2>1, <3>1
    <3> QED BY <3>2
  <2> QED BY <2>3, <2>4, <2>5 DEF Bijection, Injection, Surjection, IsInjective
<1>7. /\ IsFiniteSet(Low) /\ Cardinality(Low) = 2 ^ a
      /\ IsFiniteSet(High) /\ Cardinality(High) = 2 ^ b
      /\ IsFiniteSet(Both) /\ Cardinality(Both) = 2 ^ (a + b)
  BY <1>2
<1> HIDE DEF Low, High, Both, f
<1>8. Cardinality(Low \X High) = Cardinality(Both)
  BY <1>6, <1>7, FS_Bijection DEF ExistsBijection
<1>9. Cardinality(Low \X High) = Cardinality(Low) * Cardinality(High)
  BY <1>7, FS_Product
<1> QED BY <1>7, <1>8, <1>9

(* The number in front of a field of s indices, and what is behind it.     *)
LEMMA Field ==
  ASSUME NEW s \in Nat \ {0}, NEW x \in 0 .. s - 1, NEW y \in Nat
  PROVE  /\ (x + s * y) % s = x
         /\ (x + s * y) \div s = y
         /\ x + s * y \in Nat
<1>1. s * y \in Nat
  OBVIOUS
<1> DEFINE n == x + s * y
<1>2. n \in Nat /\ n = s * (n \div s) + (n % s) /\ n % s \in 0 .. s - 1 /\ n \div s \in Nat
  BY <1>1
<1> DEFINE q == n \div s
           r == n % s
<1>3. s * q + r = s * y + x /\ r \in 0 .. s - 1 /\ q \in Nat
  BY <1>1, <1>2
<1> HIDE DEF q, r, n
<1>4. q = y
  <2>1. CASE q < y
    <3>1. s * (q + 1) <= s * y BY <2>1, <1>3
    <3> QED BY <1>3, <3>1
  <2>2. CASE y < q
    <3>1. s * (y + 1) <= s * q BY <2>2, <1>3
    <3> QED BY <1>3, <3>1
  <2> QED BY <2>1, <2>2, <1>3
<1> QED BY <1>1, <1>3, <1>4 DEF q, r, n

(* The sizes of the levels, and an address as its fields behind each other. *)
LEMMA Sizes ==
  /\ 2 ^ GlobalOffset \in Nat \ {0}
  /\ \A l \in Levels : Size(l) \in Nat \ {0}
<1>1. GlobalOffset \in Nat /\ \A l \in Levels : AddrBits[l] \in Nat
  BY AddressAssumption DEF AddressAssumption
<1> QED BY <1>1, PowerOfTwo DEF Size

(* build_addr puts each level behind the ones before it. *)
Packed(vec) ==
  2 ^ GlobalOffset
    * (vec.Channel + Size("Channel")
        * (vec.Column + Size("Column")
            * (vec.Rank + Size("Rank")
                * (vec.BankGroup + Size("BankGroup") * (vec.Bank + Size("Bank") * vec.Row)))))

(* The six terms build_addr adds are one product of sums. *)
LEMMA Nested ==
  ASSUME NEW g \in Nat, NEW s1 \in Nat, NEW s2 \in Nat, NEW s3 \in Nat, NEW s4 \in Nat, NEW s5 \in Nat,
         NEW a \in Nat, NEW b \in Nat, NEW c \in Nat, NEW d \in Nat, NEW e \in Nat, NEW f \in Nat
  PROVE  a * g + b * (g * s1) + c * ((g * s1) * s2) + d * (((g * s1) * s2) * s3)
           + e * ((((g * s1) * s2) * s3) * s4) + f * (((((g * s1) * s2) * s3) * s4) * s5)
         = g * (a + s1 * (b + s2 * (c + s3 * (d + s4 * (e + s5 * f)))))
  OBVIOUS

(* The indices of a request, each below the size of its level. *)
LEMMA VectorFields ==
  ASSUME NEW vec \in Vectors
  PROVE  /\ vec.Channel \in 0 .. Size("Channel") - 1 /\ vec.Column \in 0 .. Size("Column") - 1
         /\ vec.Rank \in 0 .. Size("Rank") - 1 /\ vec.BankGroup \in 0 .. Size("BankGroup") - 1
         /\ vec.Bank \in 0 .. Size("Bank") - 1 /\ vec.Row \in 0 .. Size("Row") - 1
         /\ vec = [Channel |-> vec.Channel, Column |-> vec.Column, Rank |-> vec.Rank,
                   BankGroup |-> vec.BankGroup, Bank |-> vec.Bank, Row |-> vec.Row]
  BY DEF Vectors, Channels

(* build_addr (ramulator2sc.cpp) puts each level behind the ones before    *)
(* it, for all widths.                                                     *)
LEMMA BuildPacks == ASSUME NEW vec \in Vectors PROVE build_addr(vec) = Packed(vec)
<1> DEFINE g == 2 ^ GlobalOffset
           s1 == Size("Channel")
           s2 == Size("Column")
           s3 == Size("Rank")
           s4 == Size("BankGroup")
           s5 == Size("Bank")
<1>1. GlobalOffset \in Nat /\ \A l \in Levels : AddrBits[l] \in Nat
  BY AddressAssumption DEF AddressAssumption
<1>2. /\ AddrBits["Channel"] \in Nat /\ AddrBits["Column"] \in Nat /\ AddrBits["Rank"] \in Nat
      /\ AddrBits["BankGroup"] \in Nat /\ AddrBits["Bank"] \in Nat
  BY <1>1 DEF Levels
<1>3. /\ addr_map.Channel = GlobalOffset
      /\ addr_map.Column = addr_map.Channel + AddrBits["Channel"]
      /\ addr_map.Rank = addr_map.Column + AddrBits["Column"]
      /\ addr_map.BankGroup = addr_map.Rank + AddrBits["Rank"]
      /\ addr_map.Bank = addr_map.BankGroup + AddrBits["BankGroup"]
      /\ addr_map.Row = addr_map.Bank + AddrBits["Bank"]
  BY DEF addr_map
<1>4. /\ addr_map.Channel \in Nat /\ addr_map.Column \in Nat /\ addr_map.Rank \in Nat
      /\ addr_map.BankGroup \in Nat /\ addr_map.Bank \in Nat
  BY <1>1, <1>2, <1>3
<1>5. /\ 2 ^ addr_map.Channel = g
      /\ 2 ^ addr_map.Column = g * s1
      /\ 2 ^ addr_map.Rank = (g * s1) * s2
      /\ 2 ^ addr_map.BankGroup = ((g * s1) * s2) * s3
      /\ 2 ^ addr_map.Bank = (((g * s1) * s2) * s3) * s4
      /\ 2 ^ addr_map.Row = ((((g * s1) * s2) * s3) * s4) * s5
  <2>1. /\ s1 = 2 ^ AddrBits["Channel"] /\ s2 = 2 ^ AddrBits["Column"] /\ s3 = 2 ^ AddrBits["Rank"]
        /\ s4 = 2 ^ AddrBits["BankGroup"] /\ s5 = 2 ^ AddrBits["Bank"]
    BY DEF Size
  <2> HIDE DEF g, s1, s2, s3, s4, s5
  <2>2. 2 ^ addr_map.Channel = g
    BY <1>3 DEF g
  <2>3. /\ 2 ^ addr_map.Column = 2 ^ addr_map.Channel * s1
        /\ 2 ^ addr_map.Rank = 2 ^ addr_map.Column * s2
        /\ 2 ^ addr_map.BankGroup = 2 ^ addr_map.Rank * s3
        /\ 2 ^ addr_map.Bank = 2 ^ addr_map.BankGroup * s4
        /\ 2 ^ addr_map.Row = 2 ^ addr_map.Bank * s5
    <3>1. 2 ^ (addr_map.Channel + AddrBits["Channel"]) = 2 ^ addr_map.Channel * s1
      BY <1>2, <1>4, <2>1, PowerOfSum
    <3>2. 2 ^ (addr_map.Column + AddrBits["Column"]) = 2 ^ addr_map.Column * s2
      BY <1>2, <1>4, <2>1, PowerOfSum
    <3>3. 2 ^ (addr_map.Rank + AddrBits["Rank"]) = 2 ^ addr_map.Rank * s3
      BY <1>2, <1>4, <2>1, PowerOfSum
    <3>4. 2 ^ (addr_map.BankGroup + AddrBits["BankGroup"]) = 2 ^ addr_map.BankGroup * s4
      BY <1>2, <1>4, <2>1, PowerOfSum
    <3>5. 2 ^ (addr_map.Bank + AddrBits["Bank"]) = 2 ^ addr_map.Bank * s5
      BY <1>2, <1>4, <2>1, PowerOfSum
    <3> QED BY <1>3, <3>1, <3>2, <3>3, <3>4, <3>5
  <2>4. 2 ^ addr_map.Column = g * s1
    BY <2>2, <2>3
  <2>5. 2 ^ addr_map.Rank = (g * s1) * s2
    BY <2>3, <2>4
  <2>6. 2 ^ addr_map.BankGroup = ((g * s1) * s2) * s3
    BY <2>3, <2>5
  <2>7. 2 ^ addr_map.Bank = (((g * s1) * s2) * s3) * s4
    BY <2>3, <2>6
  <2>8. 2 ^ addr_map.Row = ((((g * s1) * s2) * s3) * s4) * s5
    BY <2>3, <2>7
  <2> QED BY <2>2, <2>4, <2>5, <2>6, <2>7, <2>8
<1>6. /\ g \in Nat /\ s1 \in Nat /\ s2 \in Nat /\ s3 \in Nat /\ s4 \in Nat /\ s5 \in Nat
  BY Sizes DEF Levels
<1>7. /\ vec.Channel \in Nat /\ vec.Column \in Nat /\ vec.Rank \in Nat
      /\ vec.BankGroup \in Nat /\ vec.Bank \in Nat /\ vec.Row \in Nat
  BY Sizes, VectorFields DEF Levels
<1> HIDE DEF g, s1, s2, s3, s4, s5
<1>8. build_addr(vec) = g * (vec.Channel + s1 * (vec.Column + s2 * (vec.Rank
                           + s3 * (vec.BankGroup + s4 * (vec.Bank + s5 * vec.Row)))))
  <2> DEFINE a == vec.Channel
             b == vec.Column
             c == vec.Rank
             d == vec.BankGroup
             e == vec.Bank
             f == vec.Row
  <2>1. a \in Nat /\ b \in Nat /\ c \in Nat /\ d \in Nat /\ e \in Nat /\ f \in Nat
    BY <1>7
  <2>2. build_addr(vec)
          = a * g + b * (g * s1) + c * ((g * s1) * s2) + d * (((g * s1) * s2) * s3)
              + e * ((((g * s1) * s2) * s3) * s4) + f * (((((g * s1) * s2) * s3) * s4) * s5)
    BY <1>5 DEF build_addr
  <2> HIDE DEF a, b, c, d, e, f
  <2>3. build_addr(vec) = g * (a + s1 * (b + s2 * (c + s3 * (d + s4 * (e + s5 * f)))))
    BY <1>6, <2>1, <2>2, Nested
  <2> QED BY <2>3 DEF a, b, c, d, e, f
<1> QED BY <1>8 DEF Packed, g, s1, s2, s3, s4, s5

(* Cutting a packed address gives the fields back. *)
LEMMA SliceUnpacks ==
  ASSUME NEW vec \in Vectors
  PROVE  /\ Slice(build_addr(vec)) = vec
         /\ get_channel(build_addr(vec)) = vec.Channel
<1> DEFINE g == 2 ^ GlobalOffset
           s1 == Size("Channel")
           s2 == Size("Column")
           s3 == Size("Rank")
           s4 == Size("BankGroup")
           s5 == Size("Bank")
           s6 == Size("Row")
           y5 == vec.Row
           y4 == vec.Bank + s5 * y5
           y3 == vec.BankGroup + s4 * y4
           y2 == vec.Rank + s3 * y3
           y1 == vec.Column + s2 * y2
           y0 == vec.Channel + s1 * y1
<1>1. /\ g \in Nat \ {0} /\ s1 \in Nat \ {0} /\ s2 \in Nat \ {0} /\ s3 \in Nat \ {0}
      /\ s4 \in Nat \ {0} /\ s5 \in Nat \ {0} /\ s6 \in Nat \ {0}
  BY Sizes DEF Levels
<1>2. build_addr(vec) = g * y0
  BY BuildPacks DEF Packed
<1> HIDE DEF g, s1, s2, s3, s4, s5, s6
<1>3. /\ vec.Channel \in 0 .. s1 - 1 /\ vec.Column \in 0 .. s2 - 1
      /\ vec.Rank \in 0 .. s3 - 1 /\ vec.BankGroup \in 0 .. s4 - 1
      /\ vec.Bank \in 0 .. s5 - 1 /\ vec.Row \in 0 .. s6 - 1
  BY VectorFields DEF s1, s2, s3, s4, s5, s6
<1>4. y5 \in Nat /\ y5 % s6 = y5
  <2>1. (y5 + s6 * 0) % s6 = y5
    BY <1>1, <1>3, 0 \in Nat, Field
  <2> QED BY <1>1, <1>3, <2>1
<1> HIDE DEF y5
<1>5. y4 \in Nat /\ y4 % s5 = vec.Bank /\ y4 \div s5 = y5
  BY <1>1, <1>3, <1>4, Field
<1>6. y3 \in Nat /\ y3 % s4 = vec.BankGroup /\ y3 \div s4 = y4
  <2> HIDE DEF y4
  <2> QED BY <1>1, <1>3, <1>5, Field
<1>7. y2 \in Nat /\ y2 % s3 = vec.Rank /\ y2 \div s3 = y3
  <2> HIDE DEF y3
  <2> QED BY <1>1, <1>3, <1>6, Field
<1>8. y1 \in Nat /\ y1 % s2 = vec.Column /\ y1 \div s2 = y2
  <2> HIDE DEF y2
  <2> QED BY <1>1, <1>3, <1>7, Field
<1>9. y0 \in Nat /\ y0 % s1 = vec.Channel /\ y0 \div s1 = y1
  <2> HIDE DEF y1
  <2> QED BY <1>1, <1>3, <1>8, Field
<1> HIDE DEF y0, y1, y2, y3, y4
<1>10. build_addr(vec) \div g = y0
  <2>1. (0 + g * y0) \div g = y0
    BY <1>1, <1>9, 0 \in 0 .. g - 1, Field
  <2> QED BY <1>1, <1>2, <1>9, <2>1
<1>11. get_channel(build_addr(vec)) = vec.Channel
  BY <1>9, <1>10 DEF get_channel, g, s1
<1>12. Slice(build_addr(vec))
         = [Channel |-> vec.Channel, Column |-> vec.Column, Rank |-> vec.Rank,
            BankGroup |-> vec.BankGroup, Bank |-> vec.Bank, Row |-> y5]
  BY <1>4, <1>5, <1>6, <1>7, <1>8, <1>9, <1>10 DEF Slice, g, s1, s2, s3, s4, s5, s6
<1> QED BY <1>11, <1>12, VectorFields DEF y5

(* The address the converter builds of the indices the simulator writes is *)
(* the one of the raw sequence they were cut from, for all widths of the   *)
(* levels (Memory.h, send; ramulator2sc.cpp, build_addr).                  *)
THEOREM AddressesRoundTrip ==
  ASSUME NEW addr \in Addresses
  PROVE  /\ build_addr(Slice(addr)) = addr
         /\ Slice(addr).Channel = get_channel(addr)
         /\ get_channel(addr) \in Channels
<1>1. PICK vec \in Vectors : addr = build_addr(vec)
  BY AddressAssumption DEF AddressAssumption
<1>2. Slice(addr) = vec /\ get_channel(addr) = vec.Channel
  BY <1>1, SliceUnpacks
<1> QED BY <1>1, <1>2, VectorFields DEF Channels

-----------------------------------------------------------------------------
(* Counting: of a set of positions, how many are among the first n.        *)
LEMMA CountNone == ASSUME NEW M PROVE Cardinality(M \cap 1 .. 0) = 0
<1>1. M \cap 1 .. 0 = {}
  OBVIOUS
<1> QED BY <1>1, FS_EmptySet

(* A count is a number. *)
LEMMA CountType ==
  ASSUME NEW M, NEW n \in Nat
  PROVE  IsFiniteSet(M \cap 1 .. n) /\ Cardinality(M \cap 1 .. n) \in Nat
<1>1. IsFiniteSet(1 .. n)
  BY FS_Interval
<1>2. IsFiniteSet(M \cap 1 .. n)
  BY <1>1, FS_Subset
<1> QED BY <1>2, FS_CardinalityType

(* The next position counts if it is in the set. *)
LEMMA CountStep ==
  ASSUME NEW M, NEW n \in Nat
  PROVE  Cardinality(M \cap 1 .. n + 1)
           = IF n + 1 \in M THEN Cardinality(M \cap 1 .. n) + 1 ELSE Cardinality(M \cap 1 .. n)
<1>1. IsFiniteSet(M \cap 1 .. n)
  BY CountType
<1>2. CASE n + 1 \in M
  <2>1. M \cap 1 .. n + 1 = (M \cap 1 .. n) \cup {n + 1} /\ n + 1 \notin M \cap 1 .. n
    BY <1>2
  <2> QED BY <1>1, <1>2, <2>1, FS_AddElement
<1>3. CASE n + 1 \notin M
  <2>1. M \cap 1 .. n + 1 = M \cap 1 .. n
    BY <1>3
  <2> QED BY <1>3, <2>1
<1> QED BY <1>2, <1>3

(* A position of the set is counted after all positions before it. *)
LEMMA CountOrder ==
  ASSUME NEW M, NEW m \in Nat, NEW n \in Nat, m < n, n \in M
  PROVE  Cardinality(M \cap 1 .. m) < Cardinality(M \cap 1 .. n)
<1>1. IsFiniteSet(M \cap 1 .. m) /\ Cardinality(M \cap 1 .. m) \in Nat
  BY CountType
<1>2. IsFiniteSet(M \cap 1 .. n) /\ Cardinality(M \cap 1 .. n) \in Nat
  BY CountType
<1>3. /\ n \notin M \cap 1 .. m
      /\ (M \cap 1 .. m) \cup {n} \in SUBSET (M \cap 1 .. n)
  OBVIOUS
<1>4. Cardinality((M \cap 1 .. m) \cup {n}) = Cardinality(M \cap 1 .. m) + 1
  BY <1>1, <1>3, FS_AddElement
<1>5. Cardinality((M \cap 1 .. m) \cup {n}) <= Cardinality(M \cap 1 .. n)
  BY <1>2, <1>3, FS_Subset
<1> QED BY <1>1, <1>2, <1>4, <1>5

-----------------------------------------------------------------------------
(* The place of line n of the raw sequence r among those of channel c, and *)
(* how many of the first n commands of the simulator's output out are      *)
(* column commands of channel c.                                           *)
Ordinal(r, c, n) == Cardinality({i \in 1 .. n : get_channel(r[i].addr) = c})
Served(out, c, n) ==
  Cardinality({p \in 1 .. n : out[p].cmd \in Columnwise /\ out[p].vec.Channel = c})

(* The ordinal of a line of c is one more than that of the line before;    *)
(* no other line has it.                                                   *)
LEMMA Ordinals ==
  ASSUME NEW r, NEW c
  PROVE  /\ Ordinal(r, c, 0) = 0
         /\ \A n \in Nat : Ordinal(r, c, n) \in Nat
         /\ \A n \in Nat : Ordinal(r, c, n + 1)
              = IF get_channel(r[n + 1].addr) = c THEN Ordinal(r, c, n) + 1 ELSE Ordinal(r, c, n)
         /\ \A m, n \in Nat :
              m < n /\ get_channel(r[n].addr) = c => Ordinal(r, c, m) < Ordinal(r, c, n)
<1> DEFINE M == {i \in Nat : get_channel(r[i].addr) = c}
<1>1. \A n \in Nat : {i \in 1 .. n : get_channel(r[i].addr) = c} = M \cap 1 .. n
  OBVIOUS
<1>2. \A n \in Nat : n \in M <=> get_channel(r[n].addr) = c
  OBVIOUS
<1> HIDE DEF M
<1>3. \A n \in Nat : Ordinal(r, c, n) = Cardinality(M \cap 1 .. n)
  BY <1>1 DEF Ordinal
<1>4. Ordinal(r, c, 0) = 0
  BY <1>3, CountNone
<1>5. \A n \in Nat : Ordinal(r, c, n) \in Nat
  BY <1>3, CountType
<1>6. ASSUME NEW n \in Nat
      PROVE  Ordinal(r, c, n + 1)
               = IF get_channel(r[n + 1].addr) = c THEN Ordinal(r, c, n) + 1 ELSE Ordinal(r, c, n)
  <2>1. Cardinality(M \cap 1 .. n + 1)
          = IF n + 1 \in M THEN Cardinality(M \cap 1 .. n) + 1 ELSE Cardinality(M \cap 1 .. n)
    BY CountStep
  <2>2. n + 1 \in Nat
    OBVIOUS
  <2> QED BY <1>2, <1>3, <2>1, <2>2
<1>7. ASSUME NEW m \in Nat, NEW n \in Nat, m < n, get_channel(r[n].addr) = c
      PROVE  Ordinal(r, c, m) < Ordinal(r, c, n)
  BY <1>2, <1>3, <1>7, CountOrder
<1> QED BY <1>4, <1>5, <1>6, <1>7

(* The count of the column commands of a channel, command by command. *)
LEMMA ServedCounts ==
  ASSUME NEW out, NEW c
  PROVE  /\ Served(out, c, 0) = 0
         /\ \A n \in Nat : Served(out, c, n) \in Nat
         /\ \A n \in Nat : Served(out, c, n + 1)
              = IF out[n + 1].cmd \in Columnwise /\ out[n + 1].vec.Channel = c
                THEN Served(out, c, n) + 1 ELSE Served(out, c, n)
<1> DEFINE M == {p \in Nat : out[p].cmd \in Columnwise /\ out[p].vec.Channel = c}
<1>1. \A n \in Nat :
        {p \in 1 .. n : out[p].cmd \in Columnwise /\ out[p].vec.Channel = c} = M \cap 1 .. n
  OBVIOUS
<1>2. \A n \in Nat : n \in M <=> out[n].cmd \in Columnwise /\ out[n].vec.Channel = c
  OBVIOUS
<1> HIDE DEF M
<1>3. \A n \in Nat : Served(out, c, n) = Cardinality(M \cap 1 .. n)
  BY <1>1 DEF Served
<1>4. Served(out, c, 0) = 0
  BY <1>3, CountNone
<1>5. \A n \in Nat : Served(out, c, n) \in Nat
  BY <1>3, CountType
<1>6. ASSUME NEW n \in Nat
      PROVE  Served(out, c, n + 1)
               = IF out[n + 1].cmd \in Columnwise /\ out[n + 1].vec.Channel = c
                 THEN Served(out, c, n) + 1 ELSE Served(out, c, n)
  <2>1. Cardinality(M \cap 1 .. n + 1)
          = IF n + 1 \in M THEN Cardinality(M \cap 1 .. n) + 1 ELSE Cardinality(M \cap 1 .. n)
    BY CountStep
  <2>2. n + 1 \in Nat
    OBVIOUS
  <2> QED BY <1>2, <1>3, <2>1, <2>2
<1> QED BY <1>4, <1>5, <1>6

(* A command behind the output changes no count of what is in front of it. *)
LEMMA ServedAppend ==
  ASSUME NEW T, NEW out \in Seq(T), NEW q \in T, NEW c
  PROVE  /\ \A n \in 0 .. Len(out) : Served(Append(out, q), c, n) = Served(out, c, n)
         /\ Served(Append(out, q), c, Len(out) + 1)
              = IF q.cmd \in Columnwise /\ q.vec.Channel = c
                THEN Served(out, c, Len(out)) + 1 ELSE Served(out, c, Len(out))
<1> DEFINE new == Append(out, q)
<1>1. /\ \A p \in 1 .. Len(out) : new[p] = out[p]
      /\ new[Len(out) + 1] = q /\ Len(out) \in Nat
  OBVIOUS
<1> HIDE DEF new
<1>2. ASSUME NEW n \in 0 .. Len(out) PROVE Served(new, c, n) = Served(out, c, n)
  <2>1. {p \in 1 .. n : new[p].cmd \in Columnwise /\ new[p].vec.Channel = c}
          = {p \in 1 .. n : out[p].cmd \in Columnwise /\ out[p].vec.Channel = c}
    BY <1>1
  <2> QED BY <2>1 DEF Served
<1>3. Served(new, c, Len(out) + 1)
        = IF q.cmd \in Columnwise /\ q.vec.Channel = c
          THEN Served(new, c, Len(out)) + 1 ELSE Served(new, c, Len(out))
  <2>1. \A n \in Nat : Served(new, c, n + 1)
          = IF new[n + 1].cmd \in Columnwise /\ new[n + 1].vec.Channel = c
            THEN Served(new, c, n) + 1 ELSE Served(new, c, n)
    BY ServedCounts, ZenonT(60)
  <2> QED BY <1>1, <2>1
<1>4. Served(new, c, Len(out)) = Served(out, c, Len(out))
  BY <1>1, <1>2
<1> QED BY <1>2, <1>3, <1>4 DEF new

-----------------------------------------------------------------------------
(* The inductive invariant.                                                *)
Requests == [cmd : Columnwise, vec : Vectors]
Commands == [cmd : Columnwise \cup {"ACT"}, vec : Vectors]

Typed ==
  /\ raw \in Seq(RawLines)
  /\ sent \in 0 .. Len(raw)
  /\ waiting \in [Channels -> Seq(Requests)]
  /\ openRow \in [Channels -> Seq(Nat)]
  /\ ramOut \in Seq(Commands)
  /\ pc \in {"simulate", "convert", "done"}
  /\ line \in 0 .. Len(ramOut)
  /\ rsLine \in 0 .. Len(raw)
  /\ queue \in [Channels -> [Columnwise -> Seq(1 .. Len(raw))]]
  /\ output \in [Channels -> Seq(RawLines)]

(* The column commands sent, and behind them the requests that wait, are   *)
(* the lines of their channel in their order, as many as have been taken.  *)
SentInOrder ==
  \A c \in Channels : \A p \in 1 .. Len(ramOut) :
    ramOut[p].cmd \in Columnwise /\ ramOut[p].vec.Channel = c =>
      \E i \in 1 .. Len(raw) :
        ramOut[p] = Request(raw[i]) /\ Ordinal(raw, c, i) = Served(ramOut, c, p)

WaitsInOrder ==
  \A c \in Channels :
    /\ Ordinal(raw, c, sent) = Served(ramOut, c, Len(ramOut)) + Len(waiting[c])
    /\ \A n \in 1 .. Len(waiting[c]) :
         \E i \in 1 .. Len(raw) :
           /\ waiting[c][n] = Request(raw[i])
           /\ get_channel(raw[i].addr) = c
           /\ Ordinal(raw, c, i) = Served(ramOut, c, Len(ramOut)) + n

(* A file holds as many lines as the converter has read commands of its    *)
(* channel; the lines read are in the file or in a queue.                  *)
Written ==
  \A c \in Channels :
    /\ Len(output[c]) = Served(ramOut, c, line)
    /\ Ordinal(raw, c, rsLine) = Len(output[c]) + Len(queue[c]["RD"]) + Len(queue[c]["WR"])

(* s holds, in their order, the lines of channel c and command k among the *)
(* first upto of the raw sequence r, but for the first done of the channel. *)
Pending(r, upto, done, c, k, s) ==
  /\ \A n \in 1 .. Len(s) :
       /\ s[n] <= upto
       /\ r[s[n]].cmd = k /\ get_channel(r[s[n]].addr) = c
       /\ Ordinal(r, c, s[n]) > done
  /\ \A m, n \in 1 .. Len(s) : m < n => s[m] < s[n]
  /\ \A i \in 1 .. upto :
       r[i].cmd = k /\ get_channel(r[i].addr) = c /\ Ordinal(r, c, i) > done
         => \E n \in 1 .. Len(s) : s[n] = i

(* A queue holds the lines that have been read but not written.            *)
Queued ==
  \A c \in Channels, k \in Columnwise : Pending(raw, rsLine, Len(output[c]), c, k, queue[c][k])

(* The n-th line of a file is the n-th line of its channel.                *)
Own ==
  \A c \in Channels : \A n \in 1 .. Len(output[c]) :
    \E i \in 1 .. Len(raw) :
      output[c][n] = raw[i] /\ get_channel(raw[i].addr) = c /\ Ordinal(raw, c, i) = n

IInv == Typed /\ SentInOrder /\ WaitsInOrder /\ Written /\ Queued /\ Own

-----------------------------------------------------------------------------
(* A raw line names a column: its request has the indices its address is   *)
(* built of, and building them again gives the address.                    *)
LEMMA LineFields ==
  ASSUME NEW r \in RawLines
  PROVE  /\ r.addr \in Addresses /\ r.cmd \in Columnwise
         /\ r = [addr |-> r.addr, cmd |-> r.cmd, data |-> r.data]
         /\ Request(r) \in Requests /\ Request(r).cmd = r.cmd
         /\ Request(r).vec.Channel = get_channel(r.addr)
         /\ get_channel(r.addr) \in Channels
         /\ build_addr(Request(r).vec) = r.addr
<1>1. PICK i \in 1 .. MaxLines, kind \in Addresses \X Columnwise : r = RawLine(i, kind)
  BY DEF RawLines
<1>2. /\ r.addr \in Addresses /\ r.cmd \in Columnwise
      /\ r = [addr |-> r.addr, cmd |-> r.cmd, data |-> r.data]
  BY <1>1 DEF RawLine
<1>3. PICK vec \in Vectors : r.addr = build_addr(vec)
  BY <1>2, AddressAssumption DEF AddressAssumption
<1>4. Slice(r.addr) \in Vectors
  BY <1>3, SliceUnpacks
<1>5. Request(r) = [cmd |-> r.cmd, vec |-> Slice(r.addr)]
  BY DEF Request
<1> QED BY <1>2, <1>4, <1>5, AddressesRoundTrip DEF Requests

(* Nothing is taken, sent, read or written at first. *)
LEMMA InitIInv == Init => IInv
<1> SUFFICES ASSUME Init PROVE IInv
  OBVIOUS
<1>1. Typed
  <2>1. raw \in Seq(RawLines)
    <3>0. PICK n \in 1 .. MaxLines : \E kinds \in [1 .. n -> Addresses \X Columnwise] :
            raw = [i \in 1 .. n |-> RawLine(i, kinds[i])]
      BY DEF Init
    <3>1. PICK kinds \in [1 .. n -> Addresses \X Columnwise] :
            raw = [i \in 1 .. n |-> RawLine(i, kinds[i])]
      BY <3>0
    <3>2. \A i \in 1 .. n : RawLine(i, kinds[i]) \in RawLines
      <4>1. MaxLines \in Nat
        BY AddressAssumption DEF AddressAssumption
      <4> QED BY <4>1 DEF RawLines
    <3>3. n \in Nat
      BY AddressAssumption DEF AddressAssumption
    <3> QED BY <3>1, <3>2, <3>3
  <2>2. queue \in [Channels -> [Columnwise -> Seq(1 .. Len(raw))]]
    BY DEF Init
  <2> QED BY <2>1, <2>2 DEF Init, Typed
<1>2. /\ Len(ramOut) = 0 /\ line = 0 /\ rsLine = 0 /\ sent = 0
      /\ \A c \in Channels : waiting[c] = <<>> /\ output[c] = <<>>
      /\ \A c \in Channels, k \in Columnwise : queue[c][k] = <<>>
  BY DEF Init
<1>3. SentInOrder
  BY <1>2 DEF SentInOrder
<1>4. WaitsInOrder
  BY <1>2, Ordinals, ServedCounts DEF WaitsInOrder
<1>5. Written
  <2> SUFFICES ASSUME NEW c \in Channels
               PROVE  /\ Len(output[c]) = Served(ramOut, c, line)
                      /\ Ordinal(raw, c, rsLine) = Len(output[c]) + Len(queue[c]["RD"]) + Len(queue[c]["WR"])
    BY DEF Written
  <2>1. Served(ramOut, c, 0) = 0 /\ Ordinal(raw, c, 0) = 0
    BY Ordinals, ServedCounts
  <2>2. "RD" \in Columnwise /\ "WR" \in Columnwise
    BY DEF Columnwise
  <2>3. output[c] = <<>> /\ queue[c]["RD"] = <<>> /\ queue[c]["WR"] = <<>>
    BY <1>2, <2>2
  <2>4. Len(output[c]) = 0 /\ Len(queue[c]["RD"]) = 0 /\ Len(queue[c]["WR"]) = 0
    BY <2>3
  <2> QED BY <1>2, <2>1, <2>4
<1>6. Queued
  <2>1. ASSUME NEW c, NEW k PROVE Pending(raw, 0, 0, c, k, <<>>)
    BY DEF Pending
  <2> QED BY <1>2, <2>1 DEF Queued
<1>7. Own
  BY <1>2 DEF Own
<1> QED BY <1>1, <1>3, <1>4, <1>5, <1>6, <1>7 DEF IInv

-----------------------------------------------------------------------------
(* The simulator's steps.                                                  *)
LEMMA SendIInv == ASSUME IInv, Send PROVE IInv'
<1>0. Typed /\ SentInOrder /\ WaitsInOrder /\ Written /\ Queued /\ Own
  BY DEF IInv
<1> DEFINE req == Request(raw[sent + 1])
           d   == req.vec.Channel
<1>1. /\ sent < Len(raw) /\ sent' = sent + 1
      /\ waiting' = [waiting EXCEPT ![d] = Append(@, req)]
      /\ raw' = raw /\ openRow' = openRow /\ ramOut' = ramOut /\ pc' = pc
      /\ line' = line /\ rsLine' = rsLine /\ queue' = queue /\ output' = output
  BY DEF Send, convVars
<1>2. /\ sent \in Nat /\ Len(raw) \in Nat /\ sent + 1 \in 1 .. Len(raw)
      /\ waiting \in [Channels -> Seq(Requests)] /\ raw[sent + 1] \in RawLines
  BY <1>0, <1>1 DEF Typed
<1>3. req \in Requests /\ d = get_channel(raw[sent + 1].addr) /\ d \in Channels
  BY <1>2, LineFields
<1> HIDE DEF req, d
<1>4. Typed'
  <2>1. waiting' \in [Channels -> Seq(Requests)]
    <3>1. Append(waiting[d], req) \in Seq(Requests)
      BY <1>2, <1>3
    <3> QED BY <1>1, <1>2, <3>1
  <2> QED BY <1>0, <1>1, <1>2, <2>1 DEF Typed
<1>5. WaitsInOrder'
  <2> SUFFICES ASSUME NEW c \in Channels
               PROVE  /\ Ordinal(raw, c, sent + 1) = Served(ramOut, c, Len(ramOut)) + Len(waiting'[c])
                      /\ \A n \in 1 .. Len(waiting'[c]) :
                           \E i \in 1 .. Len(raw) :
                             /\ waiting'[c][n] = Request(raw[i])
                             /\ get_channel(raw[i].addr) = c
                             /\ Ordinal(raw, c, i) = Served(ramOut, c, Len(ramOut)) + n
    BY <1>1 DEF WaitsInOrder
  <2>1. /\ Ordinal(raw, c, sent) = Served(ramOut, c, Len(ramOut)) + Len(waiting[c])
        /\ \A n \in 1 .. Len(waiting[c]) :
             \E i \in 1 .. Len(raw) :
               /\ waiting[c][n] = Request(raw[i])
               /\ get_channel(raw[i].addr) = c
               /\ Ordinal(raw, c, i) = Served(ramOut, c, Len(ramOut)) + n
    BY <1>0 DEF WaitsInOrder
  <2>2. Ordinal(raw, c, sent + 1)
          = IF d = c THEN Ordinal(raw, c, sent) + 1 ELSE Ordinal(raw, c, sent)
    <3>1. \A n \in Nat : Ordinal(raw, c, n + 1)
            = IF get_channel(raw[n + 1].addr) = c THEN Ordinal(raw, c, n) + 1 ELSE Ordinal(raw, c, n)
      BY Ordinals, ZenonT(60)
    <3> QED BY <1>2, <1>3, <3>1
  <2>3. Served(ramOut, c, Len(ramOut)) \in Nat
    <3>1. Len(ramOut) \in Nat
      BY <1>0 DEF Typed
    <3> QED BY <3>1, ServedCounts
  <2>4. CASE d # c
    <3>1. waiting'[c] = waiting[c]
      BY <1>1, <1>2, <2>4
    <3> QED BY <2>1, <2>2, <2>4, <3>1
  <2>5. CASE d = c
    <3>1. waiting'[c] = Append(waiting[c], req) /\ waiting[c] \in Seq(Requests)
      BY <1>1, <1>2, <2>5
    <3>2. /\ Len(waiting'[c]) = Len(waiting[c]) + 1 /\ Len(waiting[c]) \in Nat
          /\ \A n \in 1 .. Len(waiting[c]) : waiting'[c][n] = waiting[c][n]
          /\ waiting'[c][Len(waiting[c]) + 1] = req
      BY <1>3, <3>1
    <3>3. Ordinal(raw, c, sent + 1) = Served(ramOut, c, Len(ramOut)) + Len(waiting'[c])
      BY <2>1, <2>2, <2>3, <2>5, <3>2
    <3>4. ASSUME NEW n \in 1 .. Len(waiting'[c])
          PROVE  \E i \in 1 .. Len(raw) :
                   /\ waiting'[c][n] = Request(raw[i])
                   /\ get_channel(raw[i].addr) = c
                   /\ Ordinal(raw, c, i) = Served(ramOut, c, Len(ramOut)) + n
      <4>1. CASE n = Len(waiting'[c])
        BY <1>2, <1>3, <2>5, <3>2, <3>3, <4>1 DEF req
      <4>2. CASE n # Len(waiting'[c])
        <5>1. n \in 1 .. Len(waiting[c]) /\ waiting'[c][n] = waiting[c][n]
          BY <3>2, <4>2
        <5> QED BY <2>1, <5>1
      <4> QED BY <4>1, <4>2
    <3> QED BY <3>3, <3>4
  <2> QED BY <2>4, <2>5
<1>6. SentInOrder' /\ Written' /\ Queued' /\ Own'
  <2>1. SentInOrder'
    BY <1>0, <1>1 DEF SentInOrder
  <2>2. Written'
    BY <1>0, <1>1 DEF Written
  <2>3. Queued'
    BY <1>0, <1>1 DEF Queued
  <2>4. Own'
    BY <1>0, <1>1 DEF Own
  <2> QED BY <2>1, <2>2, <2>3, <2>4
<1> QED BY <1>4, <1>5, <1>6 DEF IInv

(* A command behind ramOut leaves the converter's files and the commands   *)
(* before it as they are.                                                  *)
LEMMA AppendKeeps ==
  ASSUME IInv, NEW q \in Commands, ramOut' = Append(ramOut, q),
         raw' = raw, UNCHANGED convVars,
         \A c \in Channels : q.cmd \in Columnwise /\ q.vec.Channel = c =>
           \E i \in 1 .. Len(raw) :
             q = Request(raw[i]) /\ Ordinal(raw, c, i) = Served(ramOut, c, Len(ramOut)) + 1
  PROVE  /\ SentInOrder' /\ Written' /\ Queued' /\ Own'
         /\ ramOut' \in Seq(Commands) /\ line' \in 0 .. Len(ramOut')
         /\ \A c \in Channels :
              Served(ramOut', c, Len(ramOut'))
                = IF q.cmd \in Columnwise /\ q.vec.Channel = c
                  THEN Served(ramOut, c, Len(ramOut)) + 1 ELSE Served(ramOut, c, Len(ramOut))
<1>0. Typed /\ SentInOrder /\ WaitsInOrder /\ Written /\ Queued /\ Own
  BY DEF IInv
<1>1. /\ ramOut \in Seq(Commands) /\ Len(ramOut) \in Nat /\ line \in 0 .. Len(ramOut)
      /\ raw' = raw /\ line' = line /\ rsLine' = rsLine /\ queue' = queue /\ output' = output
  BY <1>0 DEF Typed, convVars
<1>2. /\ ramOut' \in Seq(Commands) /\ Len(ramOut') = Len(ramOut) + 1
      /\ \A p \in 1 .. Len(ramOut) : ramOut'[p] = ramOut[p]
      /\ ramOut'[Len(ramOut) + 1] = q
  BY <1>1
<1>3. \A c : /\ \A n \in 0 .. Len(ramOut) : Served(ramOut', c, n) = Served(ramOut, c, n)
             /\ Served(ramOut', c, Len(ramOut) + 1)
                  = IF q.cmd \in Columnwise /\ q.vec.Channel = c
                    THEN Served(ramOut, c, Len(ramOut)) + 1 ELSE Served(ramOut, c, Len(ramOut))
  <2> SUFFICES ASSUME NEW c
               PROVE  /\ \A n \in 0 .. Len(ramOut) :
                           Served(Append(ramOut, q), c, n) = Served(ramOut, c, n)
                      /\ Served(Append(ramOut, q), c, Len(ramOut) + 1)
                           = IF q.cmd \in Columnwise /\ q.vec.Channel = c
                             THEN Served(ramOut, c, Len(ramOut)) + 1
                             ELSE Served(ramOut, c, Len(ramOut))
    OBVIOUS
  <2>1. ramOut \in Seq(Commands) /\ q \in Commands
    BY <1>1
  <2> QED BY <2>1, ServedAppend, ZenonT(60)
<1>4. SentInOrder'
  <2> SUFFICES ASSUME NEW c \in Channels, NEW p \in 1 .. Len(ramOut'),
                      ramOut'[p].cmd \in Columnwise, ramOut'[p].vec.Channel = c
               PROVE  \E i \in 1 .. Len(raw') :
                        /\ ramOut'[p] = Request(raw'[i])
                        /\ Ordinal(raw', c, i) = Served(ramOut', c, p)
    BY Zenon DEF SentInOrder
  <2> SUFFICES \E i \in 1 .. Len(raw) :
                 ramOut'[p] = Request(raw[i]) /\ Ordinal(raw, c, i) = Served(ramOut', c, p)
    <3>1. raw' = raw
      BY <1>1
    <3> QED BY <3>1
  <2>1. CASE p \in 1 .. Len(ramOut)
    <3>1. ramOut'[p] = ramOut[p] /\ Served(ramOut', c, p) = Served(ramOut, c, p)
      BY <1>1, <1>2, <1>3, <2>1
    <3> QED BY <1>0, <2>1, <3>1 DEF SentInOrder
  <2>2. CASE p = Len(ramOut) + 1
    <3>1. /\ ramOut'[p] = q
          /\ Served(ramOut', c, p) = Served(ramOut, c, Len(ramOut)) + 1
      BY <1>2, <1>3, <2>2
    <3> QED BY <3>1
  <2> QED BY <1>1, <1>2, <2>1, <2>2
<1>5. Written'
  BY <1>0, <1>1, <1>3 DEF Written
<1>6. Queued' /\ Own'
  <2>1. Queued'
    BY <1>0, <1>1 DEF Queued
  <2>2. Own'
    BY <1>0, <1>1 DEF Own
  <2> QED BY <2>1, <2>2
<1>7. line' \in 0 .. Len(ramOut')
  BY <1>1, <1>2
<1>8. \A c \in Channels :
        Served(ramOut', c, Len(ramOut'))
          = IF q.cmd \in Columnwise /\ q.vec.Channel = c
            THEN Served(ramOut, c, Len(ramOut)) + 1 ELSE Served(ramOut, c, Len(ramOut))
  BY <1>2, <1>3
<1> QED BY <1>2, <1>4, <1>5, <1>6, <1>7, <1>8

(* An activation is not a column command: no count changes. *)
LEMMA ActivateIInv == ASSUME IInv, NEW d \in Channels, Activate(d) PROVE IInv'
<1>0. Typed /\ WaitsInOrder
  BY DEF IInv
<1> DEFINE q == [cmd |-> "ACT", vec |-> Head(waiting[d]).vec]
<1>1. /\ waiting[d] # <<>> /\ ramOut' = Append(ramOut, q)
      /\ openRow' = [openRow EXCEPT ![d] = <<Head(waiting[d]).vec.Row>>]
      /\ raw' = raw /\ sent' = sent /\ waiting' = waiting /\ pc' = pc /\ UNCHANGED convVars
  BY DEF Activate
<1>2. Head(waiting[d]) \in Requests
  BY <1>0, <1>1 DEF Typed
<1>3. q \in Commands /\ q.cmd \notin Columnwise /\ Head(waiting[d]).vec.Row \in Nat
  <2>1. Head(waiting[d]).vec \in Vectors
    BY <1>2 DEF Requests
  <2>2. q \in Commands /\ q.cmd \notin Columnwise
    BY <2>1 DEF Commands, Columnwise
  <2>3. Head(waiting[d]).vec.Row \in 0 .. Size("Row") - 1 /\ Size("Row") \in Nat
    BY <2>1, VectorFields, Sizes DEF Levels
  <2> QED BY <2>2, <2>3
<1> HIDE DEF q
<1>4. /\ SentInOrder' /\ Written' /\ Queued' /\ Own'
      /\ ramOut' \in Seq(Commands) /\ line' \in 0 .. Len(ramOut')
      /\ \A c \in Channels : Served(ramOut', c, Len(ramOut')) = Served(ramOut, c, Len(ramOut))
  BY <1>1, <1>3, AppendKeeps
<1>5. Typed'
  <2>1. openRow' \in [Channels -> Seq(Nat)]
    <3>1. <<Head(waiting[d]).vec.Row>> \in Seq(Nat)
      BY <1>3
    <3> QED BY <1>0, <1>1, <3>1 DEF Typed
  <2> QED BY <1>0, <1>1, <1>4, <2>1 DEF Typed, convVars
<1>6. WaitsInOrder'
  BY <1>0, <1>1, <1>4 DEF WaitsInOrder
<1> QED BY <1>4, <1>5, <1>6 DEF IInv

(* The column command a controller sends is that of the oldest request,    *)
(* and the others move up.                                                 *)
LEMMA ServeIInv == ASSUME IInv, NEW d \in Channels, Serve(d) PROVE IInv'
<1>0. Typed /\ WaitsInOrder
  BY DEF IInv
<1> DEFINE q == Head(waiting[d])
<1>1. /\ waiting[d] # <<>> /\ ramOut' = Append(ramOut, q)
      /\ waiting' = [waiting EXCEPT ![d] = Tail(@)]
      /\ raw' = raw /\ sent' = sent /\ openRow' = openRow /\ pc' = pc /\ UNCHANGED convVars
  BY DEF Serve
<1>2. /\ waiting \in [Channels -> Seq(Requests)] /\ waiting[d] \in Seq(Requests)
      /\ Len(waiting[d]) \in Nat \ {0} /\ q = waiting[d][1] /\ q \in Requests
  BY <1>0, <1>1 DEF Typed
<1>3. PICK i \in 1 .. Len(raw) :
        /\ waiting[d][1] = Request(raw[i])
        /\ get_channel(raw[i].addr) = d
        /\ Ordinal(raw, d, i) = Served(ramOut, d, Len(ramOut)) + 1
  <2>1. 1 \in 1 .. Len(waiting[d])
    BY <1>2
  <2> QED BY <1>0, <2>1 DEF WaitsInOrder
<1>4. q.vec.Channel = d /\ q.cmd \in Columnwise /\ q \in Commands
  <2>1. raw[i] \in RawLines
    BY <1>0 DEF Typed
  <2>2. q.vec.Channel = d
    BY <1>2, <1>3, <2>1, LineFields
  <2> QED BY <1>2, <2>2 DEF Requests, Commands
<1> HIDE DEF q
<1>5. /\ SentInOrder' /\ Written' /\ Queued' /\ Own'
      /\ ramOut' \in Seq(Commands) /\ line' \in 0 .. Len(ramOut')
      /\ \A c \in Channels :
           Served(ramOut', c, Len(ramOut'))
             = IF d = c THEN Served(ramOut, c, Len(ramOut)) + 1 ELSE Served(ramOut, c, Len(ramOut))
  BY <1>1, <1>2, <1>3, <1>4, AppendKeeps
<1>6. Typed'
  <2>1. Tail(waiting[d]) \in Seq(Requests)
    BY <1>1, <1>2
  <2>2. waiting' \in [Channels -> Seq(Requests)]
    BY <1>1, <1>2, <2>1
  <2> QED BY <1>0, <1>1, <1>5, <2>2 DEF Typed, convVars
<1>7. WaitsInOrder'
  <2> SUFFICES ASSUME NEW c \in Channels
               PROVE  /\ Ordinal(raw, c, sent) = Served(ramOut', c, Len(ramOut')) + Len(waiting'[c])
                      /\ \A n \in 1 .. Len(waiting'[c]) :
                           \E j \in 1 .. Len(raw) :
                             /\ waiting'[c][n] = Request(raw[j])
                             /\ get_channel(raw[j].addr) = c
                             /\ Ordinal(raw, c, j) = Served(ramOut', c, Len(ramOut')) + n
    BY <1>1 DEF WaitsInOrder
  <2>1. /\ Ordinal(raw, c, sent) = Served(ramOut, c, Len(ramOut)) + Len(waiting[c])
        /\ \A n \in 1 .. Len(waiting[c]) :
             \E j \in 1 .. Len(raw) :
               /\ waiting[c][n] = Request(raw[j])
               /\ get_channel(raw[j].addr) = c
               /\ Ordinal(raw, c, j) = Served(ramOut, c, Len(ramOut)) + n
    BY <1>0 DEF WaitsInOrder
  <2>2. CASE d # c
    <3>1. waiting'[c] = waiting[c]
      BY <1>1, <1>2, <2>2
    <3> QED BY <1>5, <2>1, <2>2, <3>1
  <2>3. CASE d = c
    <3>1. waiting'[c] = Tail(waiting[c]) /\ waiting[c] # <<>> /\ waiting[c] \in Seq(Requests)
      BY <1>1, <1>2, <2>3
    <3>2. /\ Len(waiting'[c]) = Len(waiting[c]) - 1 /\ Len(waiting[c]) \in Nat \ {0}
          /\ \A n \in 1 .. Len(waiting[c]) - 1 : waiting'[c][n] = waiting[c][n + 1]
      BY <3>1
    <3>3. Served(ramOut, c, Len(ramOut)) \in Nat
      <4>1. Len(ramOut) \in Nat
        BY <1>0 DEF Typed
      <4> QED BY <4>1, ServedCounts
    <3>4. Served(ramOut', c, Len(ramOut')) = Served(ramOut, c, Len(ramOut)) + 1
      BY <1>5, <2>3
    <3>5. ASSUME NEW n \in 1 .. Len(waiting'[c])
          PROVE  \E j \in 1 .. Len(raw) :
                   /\ waiting'[c][n] = Request(raw[j])
                   /\ get_channel(raw[j].addr) = c
                   /\ Ordinal(raw, c, j) = Served(ramOut', c, Len(ramOut')) + n
      <4>1. n + 1 \in 1 .. Len(waiting[c]) /\ waiting'[c][n] = waiting[c][n + 1]
        BY <3>2
      <4>2. PICK j \in 1 .. Len(raw) :
              /\ waiting[c][n + 1] = Request(raw[j])
              /\ get_channel(raw[j].addr) = c
              /\ Ordinal(raw, c, j) = Served(ramOut, c, Len(ramOut)) + (n + 1)
        BY <2>1, <4>1
      <4>3. Ordinal(raw, c, j) = Served(ramOut', c, Len(ramOut')) + n
        BY <3>3, <3>4, <4>2
      <4> QED BY <4>1, <4>2, <4>3
    <3> QED BY <2>1, <3>2, <3>3, <3>4, <3>5, SMTT(30)
  <2> QED BY <2>2, <2>3
<1> QED BY <1>5, <1>6, <1>7 DEF IInv

(* When a program ends, nothing else changes. *)
LEMMA TurnIInv == ASSUME IInv, SimulationDone \/ ConvertDone \/ UNCHANGED vars PROVE IInv'
<1>1. /\ raw' = raw /\ sent' = sent /\ waiting' = waiting /\ openRow' = openRow /\ ramOut' = ramOut
      /\ line' = line /\ rsLine' = rsLine /\ queue' = queue /\ output' = output
      /\ pc' = pc \/ pc' \in {"convert", "done"}
  BY DEF SimulationDone, ConvertDone, vars, simVars, convVars
<1>2. Typed'
  BY <1>1 DEF IInv, Typed
<1>3. SentInOrder'
  BY <1>1 DEF IInv, SentInOrder
<1>4. WaitsInOrder'
  BY <1>1 DEF IInv, WaitsInOrder
<1>5. Written'
  BY <1>1 DEF IInv, Written
<1>6. Queued'
  BY <1>1 DEF IInv, Queued
<1>7. Own'
  BY <1>1 DEF IInv, Own
<1> QED BY <1>2, <1>3, <1>4, <1>5, <1>6, <1>7 DEF IInv

-----------------------------------------------------------------------------
(* The converter's steps.                                                  *)
LEMMA FirstFound ==
  ASSUME NEW s, NEW addr, Len(s) \in Nat \ {0}, Matches(raw[s[1]].addr, addr)
  PROVE  Find(s, addr) = 1
<1> DEFINE I == {n \in 1 .. Len(s) : Matches(raw[s[n]].addr, addr)}
<1>1. 1 \in I /\ I \in SUBSET Nat /\ \A n \in I : 1 <= n
  OBVIOUS
<1>2. Find(s, addr) = IF I # {} THEN Min(I) ELSE 0
  BY DEF Find, SelectInSeq
<1> HIDE DEF I
<1>3. Min(I) \in I /\ \A n \in I : Min(I) <= n
  BY <1>1 DEF Min
<1>4. Min(I) = 1
  <2> DEFINE m == Min(I)
  <2>1. m \in I /\ \A n \in I : m <= n
    BY <1>3
  <2> HIDE DEF m
  <2>2. m \in Nat /\ m <= 1 /\ 1 <= m
    BY <1>1, <2>1
  <2>3. m = 1
    BY <2>2
  <2> QED BY <2>3 DEF m
<1> QED BY <1>1, <1>2, <1>4

(* In an empty queue the search finds nothing. *)
LEMMA NoneFound == ASSUME NEW addr PROVE Find(<<>>, addr) = 0
<1>1. {n \in 1 .. Len(<<>>) : Matches(raw[<<>>[n]].addr, addr)} = {}
  OBVIOUS
<1> QED BY <1>1 DEF Find, SelectInSeq

(* The line a column command asks for.                                     *)
IsDue(q, c, i) ==
  /\ c = q.vec.Channel /\ get_channel(raw[i].addr) = c
  /\ raw[i].cmd = q.cmd /\ raw[i].addr = build_addr(q.vec)
  /\ raw[i] = [addr |-> build_addr(q.vec), cmd |-> q.cmd, data |-> raw[i].data]
  /\ Ordinal(raw, c, i) = Len(output[c]) + 1

(* Every column command in the simulator's output asks for one raw line:   *)
(* the next one of its channel that is not in the file yet.                *)
LEMMA Due ==
  ASSUME IInv, line < Len(ramOut), NEW q, q = ramOut[line + 1], q.cmd \in Columnwise
  PROVE  \E c \in Channels, i \in 1 .. Len(raw) :
           /\ IsDue(q, c, i)
           /\ \A e \in Channels :
                Served(ramOut, e, line + 1)
                  = IF e = c THEN Len(output[e]) + 1 ELSE Len(output[e])
<1>0. Typed /\ SentInOrder /\ Written
  BY DEF IInv
<1>1. /\ line \in Nat /\ line + 1 \in 1 .. Len(ramOut) /\ ramOut \in Seq(Commands)
      /\ raw \in Seq(RawLines)
  BY <1>0 DEF Typed
<1> DEFINE c == q.vec.Channel
<1>2. c \in Channels
  <2>1. q \in Commands
    BY <1>1
  <2> QED BY <2>1, VectorFields DEF Commands, Channels
<1>3. \A e : Served(ramOut, e, line + 1)
               = IF e = c THEN Served(ramOut, e, line) + 1 ELSE Served(ramOut, e, line)
  <2> SUFFICES ASSUME NEW e
               PROVE Served(ramOut, e, line + 1)
                       = IF e = c THEN Served(ramOut, e, line) + 1 ELSE Served(ramOut, e, line)
    OBVIOUS
  <2>1. \A n \in Nat : Served(ramOut, e, n + 1)
          = IF ramOut[n + 1].cmd \in Columnwise /\ ramOut[n + 1].vec.Channel = e
            THEN Served(ramOut, e, n) + 1 ELSE Served(ramOut, e, n)
    BY ServedCounts, ZenonT(60)
  <2> QED BY <1>1, <2>1
<1>4. \A e \in Channels : Len(output[e]) = Served(ramOut, e, line)
  BY <1>0 DEF Written
<1>5. PICK i \in 1 .. Len(raw) :
        q = Request(raw[i]) /\ Ordinal(raw, c, i) = Served(ramOut, c, line + 1)
  <2>1. ramOut[line + 1].cmd \in Columnwise /\ ramOut[line + 1].vec.Channel = c
    OBVIOUS
  <2> QED BY <1>0, <1>1, <1>2, <2>1 DEF SentInOrder
<1>6. raw[i] \in RawLines
  BY <1>1
<1>7. /\ c = get_channel(raw[i].addr) /\ raw[i].cmd = q.cmd /\ raw[i].addr = build_addr(q.vec)
      /\ raw[i] = [addr |-> raw[i].addr, cmd |-> raw[i].cmd, data |-> raw[i].data]
  BY <1>5, <1>6, LineFields
<1>8. Ordinal(raw, c, i) = Len(output[c]) + 1
  BY <1>2, <1>3, <1>4, <1>5
<1>9. \A e \in Channels :
        Served(ramOut, e, line + 1) = IF e = c THEN Len(output[e]) + 1 ELSE Len(output[e])
  BY <1>3, <1>4
<1> HIDE DEF c
<1>10. IsDue(q, c, i)
  BY <1>7, <1>8 DEF IsDue, c
<1> QED BY <1>2, <1>9, <1>10

(* Types of a queue and of a file. *)
LEMMA QueueTypes ==
  ASSUME Typed, NEW c \in Channels, NEW k \in Columnwise
  PROVE  /\ queue[c][k] \in Seq(1 .. Len(raw)) /\ Len(queue[c][k]) \in Nat
         /\ \A n \in 1 .. Len(queue[c][k]) : queue[c][k][n] \in 1 .. Len(raw)
         /\ output[c] \in Seq(RawLines) /\ Len(output[c]) \in Nat
         /\ Len(raw) \in Nat /\ rsLine \in 0 .. Len(raw)
<1>1. queue[c][k] \in Seq(1 .. Len(raw)) /\ output[c] \in Seq(RawLines) /\ raw \in Seq(RawLines)
      /\ rsLine \in 0 .. Len(raw)
  BY DEF Typed
<1> QED BY <1>1

(* The line that is due is the first of its queue if it has been read, and *)
(* else all queues of its channel are empty.                               *)
LEMMA DuePlace ==
  ASSUME IInv, NEW q, q.cmd \in Columnwise, NEW c \in Channels, NEW i \in 1 .. Len(raw), IsDue(q, c, i)
  PROVE  /\ i <= rsLine => /\ Len(queue[c][q.cmd]) > 0 /\ queue[c][q.cmd][1] = i
                           /\ Place(q) = 1
         /\ i > rsLine  => /\ \A k \in Columnwise : queue[c][k] = <<>>
                           /\ Place(q) = 0
<1>0. Typed /\ Queued
  BY DEF IInv
<1>1. /\ q.vec.Channel = c /\ get_channel(raw[i].addr) = c /\ raw[i].cmd = q.cmd
      /\ raw[i].addr = build_addr(q.vec) /\ Ordinal(raw, c, i) = Len(output[c]) + 1
  BY DEF IsDue
<1>2. Len(output[c]) \in Nat /\ Len(raw) \in Nat /\ rsLine \in 0 .. Len(raw) /\ i \in Nat
  BY <1>0, QueueTypes
<1>3. \A m, n \in Nat :
        m < n /\ get_channel(raw[n].addr) = c => Ordinal(raw, c, m) < Ordinal(raw, c, n)
  BY Ordinals, ZenonT(60)
<1>4. \A n \in Nat : Ordinal(raw, c, n) \in Nat
  BY Ordinals, ZenonT(60)
<1>5. ASSUME i <= rsLine
      PROVE  Len(queue[c][q.cmd]) > 0 /\ queue[c][q.cmd][1] = i /\ Place(q) = 1
  <2> DEFINE s == queue[c][q.cmd]
  <2>1. /\ Len(s) \in Nat /\ \A n \in 1 .. Len(s) : s[n] \in 1 .. Len(raw)
    BY <1>0, QueueTypes
  <2>2. i \in 1 .. rsLine /\ Ordinal(raw, c, i) > Len(output[c])
    BY <1>1, <1>2, <1>5
  <2>3. PICK n \in 1 .. Len(s) : s[n] = i
    BY <1>0, <1>1, <2>2 DEF Queued, Pending
  <2>4. /\ \A m \in 1 .. Len(s) : Ordinal(raw, c, s[m]) > Len(output[c])
        /\ \A m, j \in 1 .. Len(s) : m < j => s[m] < s[j]
    BY <1>0 DEF Queued, Pending
  <2> HIDE DEF s
  <2>5. n = 1
    <3>1. SUFFICES ASSUME n # 1 PROVE FALSE
      OBVIOUS
    <3>2. 1 \in 1 .. Len(s) /\ s[1] \in Nat /\ s[1] < i
      BY <2>1, <2>3, <2>4, <3>1
    <3>3. Ordinal(raw, c, s[1]) < Ordinal(raw, c, i)
      BY <1>1, <1>2, <1>3, <3>2
    <3>4. Ordinal(raw, c, s[1]) \in Nat /\ Ordinal(raw, c, s[1]) > Len(output[c])
      BY <1>4, <2>4, <3>2
    <3> QED BY <1>1, <1>2, <3>3, <3>4
  <2>6. Len(s) \in Nat \ {0} /\ s[1] = i
    BY <2>1, <2>3, <2>5
  <2>7. Find(s, build_addr(q.vec)) = 1
    BY <1>1, <2>6, FirstFound DEF Matches
  <2> QED BY <1>1, <2>6, <2>7 DEF Place, s
<1>6. ASSUME i > rsLine
      PROVE  (\A k \in Columnwise : queue[c][k] = <<>>) /\ Place(q) = 0
  <2>1. ASSUME NEW k \in Columnwise PROVE queue[c][k] = <<>>
    <3>1. queue[c][k] \in Seq(1 .. Len(raw)) /\ \A n \in 1 .. Len(queue[c][k]) : queue[c][k][n] \in 1 .. Len(raw)
      BY <1>0, QueueTypes
    <3>2. ASSUME NEW n \in 1 .. Len(queue[c][k]) PROVE FALSE
      <4>1. queue[c][k][n] <= rsLine /\ Ordinal(raw, c, queue[c][k][n]) > Len(output[c])
        BY <1>0 DEF Queued, Pending
      <4>2. queue[c][k][n] \in Nat /\ queue[c][k][n] < i
        BY <1>2, <1>6, <3>1, <4>1
      <4>3. Ordinal(raw, c, queue[c][k][n]) < Ordinal(raw, c, i)
        BY <1>1, <1>2, <1>3, <4>2
      <4>4. Ordinal(raw, c, queue[c][k][n]) \in Nat
        BY <1>4, <4>2
      <4> HIDE DEF Columnwise
      <4> QED BY <1>1, <1>2, <4>1, <4>3, <4>4
    <3>3. Len(queue[c][k]) = 0
      BY <3>1, <3>2
    <3> QED BY <3>1, <3>3
  <2>2. queue[c][q.cmd] = <<>>
    BY <2>1
  <2> QED BY <1>1, <2>1, <2>2, NoneFound DEF Place
<1> QED BY <1>5, <1>6

(* Writing the line that is due.                                           *)
LEMMA WriteKeeps ==
  ASSUME IInv, NEW q, NEW c \in Channels, NEW i \in 1 .. Len(raw), IsDue(q, c, i),
         line < Len(ramOut), Write(q, i), raw' = raw, ramOut' = ramOut,
         \A e \in Channels :
           Served(ramOut, e, line + 1) = IF e = c THEN Len(output[e]) + 1 ELSE Len(output[e])
  PROVE  /\ output' \in [Channels -> Seq(RawLines)]
         /\ line' \in 0 .. Len(ramOut)
         /\ Own'
         /\ \A e \in Channels :
              /\ Len(output'[e]) = Served(ramOut, e, line')
              /\ Len(output'[e]) = IF e = c THEN Len(output[e]) + 1 ELSE Len(output[e])
<1>0. Typed /\ Own
  BY DEF IInv
<1>1. /\ output \in [Channels -> Seq(RawLines)] /\ raw[i] \in RawLines
      /\ line' = line + 1 /\ line \in 0 .. Len(ramOut) /\ Len(ramOut) \in Nat
  BY <1>0 DEF Typed, Write
<1>2. output' = [output EXCEPT ![c] = Append(@, raw[i])]
  BY DEF Write, IsDue
<1>3. output' \in [Channels -> Seq(RawLines)]
  <2>1. Append(output[c], raw[i]) \in Seq(RawLines)
    BY <1>1
  <2> QED BY <1>1, <1>2, <2>1
<1>4. ASSUME NEW e \in Channels
      PROVE  Len(output'[e]) = IF e = c THEN Len(output[e]) + 1 ELSE Len(output[e])
  <2>1. output[e] \in Seq(RawLines) /\ output'[e] = IF e = c THEN Append(output[e], raw[i]) ELSE output[e]
    BY <1>1, <1>2
  <2> QED BY <1>1, <2>1
<1>5. Own'
  <2> SUFFICES ASSUME NEW e \in Channels, NEW n \in 1 .. Len(output'[e])
               PROVE  \E j \in 1 .. Len(raw) :
                        /\ output'[e][n] = raw[j]
                        /\ get_channel(raw[j].addr) = e /\ Ordinal(raw, e, j) = n
    BY DEF Own
  <2>1. CASE e # c
    <3>1. output'[e] = output[e]
      BY <1>1, <1>2, <2>1
    <3> QED BY <1>0, <3>1 DEF Own
  <2>2. CASE e = c
    <3>1. output'[e] = Append(output[e], raw[i]) /\ output[e] \in Seq(RawLines)
      BY <1>1, <1>2, <2>2
    <3>2. /\ Len(output'[e]) = Len(output[e]) + 1 /\ Len(output[e]) \in Nat
          /\ \A m \in 1 .. Len(output[e]) : output'[e][m] = output[e][m]
          /\ output'[e][Len(output[e]) + 1] = raw[i]
      BY <1>1, <3>1
    <3>3. CASE n \in 1 .. Len(output[e])
      BY <1>0, <3>2, <3>3 DEF Own
    <3>4. CASE n = Len(output[e]) + 1
      BY <2>2, <3>2, <3>4 DEF IsDue
    <3> QED BY <3>2, <3>3, <3>4
  <2> QED BY <2>1, <2>2
<1>6. line' \in 0 .. Len(ramOut)
  BY <1>1
<1>7. \A e \in Channels : Len(output'[e]) = Served(ramOut, e, line')
  BY <1>1, <1>4
<1> QED BY <1>3, <1>4, <1>5, <1>6, <1>7

-----------------------------------------------------------------------------
(* How what waits changes with a line that is written or read.             *)

(* Two lines of a channel with the same ordinal are one line. *)
LEMMA OneOrdinal ==
  ASSUME NEW r, NEW c, NEW m \in Nat, NEW n \in Nat, get_channel(r[m].addr) = c,
         get_channel(r[n].addr) = c, Ordinal(r, c, m) = Ordinal(r, c, n)
  PROVE  m = n
<1>1. \A i, j \in Nat :
        i < j /\ get_channel(r[j].addr) = c => Ordinal(r, c, i) < Ordinal(r, c, j)
  BY Ordinals, ZenonT(60)
<1>2. Ordinal(r, c, m) \in Nat
  BY Ordinals, ZenonT(60)
<1>3. ~(m < n) /\ ~(n < m)
  BY <1>1, <1>2
<1> QED BY <1>3

(* The line written had the other command: what waits for this one stays. *)
LEMMA PendingOther ==
  ASSUME NEW r, NEW upto \in Nat, NEW done \in Nat, NEW c, NEW k, NEW s \in Seq(Nat),
         Pending(r, upto, done, c, k, s),
         NEW i \in Nat, get_channel(r[i].addr) = c, r[i].cmd # k, Ordinal(r, c, i) = done + 1
  PROVE  Pending(r, upto, done + 1, c, k, s)
<1>1. \A n \in Nat : Ordinal(r, c, n) \in Nat
  BY Ordinals, ZenonT(60)
<1>2. ASSUME NEW n \in 1 .. Len(s) PROVE Ordinal(r, c, s[n]) > done + 1
  <2>1. /\ s[n] \in Nat /\ r[s[n]].cmd = k /\ get_channel(r[s[n]].addr) = c
        /\ Ordinal(r, c, s[n]) > done
    BY DEF Pending
  <2>2. s[n] # i
    BY <2>1
  <2>3. Ordinal(r, c, s[n]) # Ordinal(r, c, i)
    BY <2>1, <2>2, OneOrdinal
  <2>4. Ordinal(r, c, s[n]) \in Nat
    BY <1>1, <2>1
  <2> QED BY <2>1, <2>3, <2>4
<1>3. ASSUME NEW a \in 1 .. upto, Ordinal(r, c, a) > done + 1 PROVE Ordinal(r, c, a) > done
  <2>1. a \in Nat
    OBVIOUS
  <2>2. Ordinal(r, c, a) \in Nat
    BY <1>1, <2>1
  <2> QED BY <1>3, <2>2
<1> QED BY <1>2, <1>3 DEF Pending

(* The line written was the first of the queue. *)
LEMMA PendingTail ==
  ASSUME NEW r, NEW upto \in Nat, NEW done \in Nat, NEW c, NEW k, NEW s \in Seq(Nat), s # <<>>,
         Pending(r, upto, done, c, k, s), Ordinal(r, c, s[1]) = done + 1
  PROVE  Pending(r, upto, done + 1, c, k, Tail(s))
<1> DEFINE t == Tail(s)
<1>1. /\ Len(s) \in Nat \ {0} /\ Len(t) = Len(s) - 1
      /\ \A n \in 1 .. Len(t) : t[n] = s[n + 1]
      /\ \A n \in 1 .. Len(s) : s[n] \in Nat
  OBVIOUS
<1> HIDE DEF t
<1>2. /\ \A n \in 1 .. Len(s) :
           /\ s[n] <= upto
           /\ r[s[n]].cmd = k /\ get_channel(r[s[n]].addr) = c
           /\ Ordinal(r, c, s[n]) > done
      /\ \A m, n \in 1 .. Len(s) : m < n => s[m] < s[n]
      /\ \A i \in 1 .. upto :
           r[i].cmd = k /\ get_channel(r[i].addr) = c /\ Ordinal(r, c, i) > done
             => \E n \in 1 .. Len(s) : s[n] = i
  BY DEF Pending
<1>3. \A n \in Nat : Ordinal(r, c, n) \in Nat
  BY Ordinals, ZenonT(60)
<1>4. ASSUME NEW n \in 1 .. Len(t)
      PROVE  /\ t[n] <= upto /\ r[t[n]].cmd = k
             /\ get_channel(r[t[n]].addr) = c
             /\ Ordinal(r, c, t[n]) > done + 1
  <2>1. t[n] = s[n + 1] /\ n + 1 \in 1 .. Len(s) /\ 1 \in 1 .. Len(s) /\ 1 < n + 1
    BY <1>1
  <2>2. t[n] <= upto /\ r[t[n]].cmd = k /\ get_channel(r[t[n]].addr) = c
    BY <1>2, <2>1
  <2>3. s[1] < t[n] /\ t[n] \in Nat /\ s[1] \in Nat
    BY <1>1, <1>2, <2>1
  <2>4. \A a, b \in Nat :
          a < b /\ get_channel(r[b].addr) = c => Ordinal(r, c, a) < Ordinal(r, c, b)
    BY Ordinals, ZenonT(60)
  <2>5. Ordinal(r, c, s[1]) < Ordinal(r, c, t[n])
    BY <2>2, <2>3, <2>4
  <2>6. Ordinal(r, c, t[n]) \in Nat
    BY <1>3, <2>3
  <2> QED BY <2>2, <2>5, <2>6
<1>5. ASSUME NEW m \in 1 .. Len(t), NEW n \in 1 .. Len(t), m < n PROVE t[m] < t[n]
  <2>1. /\ m + 1 \in 1 .. Len(s) /\ n + 1 \in 1 .. Len(s) /\ m + 1 < n + 1
        /\ t[m] = s[m + 1] /\ t[n] = s[n + 1]
    BY <1>1, <1>5
  <2> QED BY <1>2, <2>1
<1>6. ASSUME NEW a \in 1 .. upto, r[a].cmd = k, get_channel(r[a].addr) = c,
             Ordinal(r, c, a) > done + 1
      PROVE  \E n \in 1 .. Len(t) : t[n] = a
  <2>1. Ordinal(r, c, a) \in Nat
    <3>1. a \in Nat
      OBVIOUS
    <3> QED BY <1>3, <3>1
  <2>2. Ordinal(r, c, a) > done
    BY <1>6, <2>1
  <2>3. PICK n \in 1 .. Len(s) : s[n] = a
    BY <1>2, <1>6, <2>2
  <2>4. n # 1
    BY <1>6, <2>1, <2>3
  <2>5. n - 1 \in 1 .. Len(t) /\ (n - 1) + 1 = n
    BY <1>1, <2>4
  <2>6. t[n - 1] = a
    BY <1>1, <2>3, <2>5
  <2> QED BY <2>5, <2>6
<1>7. Pending(r, upto, done + 1, c, k, t)
  BY <1>4, <1>5, <1>6 DEF Pending
<1> QED BY <1>7 DEF t

(* A line of the channel and command that is passed over goes behind the   *)
(* others.                                                                 *)
LEMMA PendingAppend ==
  ASSUME NEW r, NEW upto \in Nat, NEW done \in Nat, NEW c, NEW k, NEW s \in Seq(Nat),
         Pending(r, upto, done, c, k, s), r[upto + 1].cmd = k,
         get_channel(r[upto + 1].addr) = c, Ordinal(r, c, upto + 1) > done
  PROVE  Pending(r, upto + 1, done, c, k, Append(s, upto + 1))
<1> DEFINE t == Append(s, upto + 1)
<1>1. /\ Len(s) \in Nat /\ Len(t) = Len(s) + 1 /\ t[Len(s) + 1] = upto + 1
      /\ \A n \in 1 .. Len(s) : t[n] = s[n] /\ s[n] \in Nat
  OBVIOUS
<1> HIDE DEF t
<1>2. /\ \A n \in 1 .. Len(s) :
           /\ s[n] <= upto
           /\ r[s[n]].cmd = k /\ get_channel(r[s[n]].addr) = c
           /\ Ordinal(r, c, s[n]) > done
      /\ \A m, n \in 1 .. Len(s) : m < n => s[m] < s[n]
      /\ \A i \in 1 .. upto :
           r[i].cmd = k /\ get_channel(r[i].addr) = c /\ Ordinal(r, c, i) > done
             => \E n \in 1 .. Len(s) : s[n] = i
  BY DEF Pending
<1>3. ASSUME NEW n \in 1 .. Len(t)
      PROVE  /\ t[n] <= upto + 1
             /\ r[t[n]].cmd = k /\ get_channel(r[t[n]].addr) = c
             /\ Ordinal(r, c, t[n]) > done
  <2>1. CASE n = Len(s) + 1
    BY <1>1, <2>1
  <2>2. CASE n \in 1 .. Len(s)
    <3>1. t[n] = s[n] /\ s[n] \in Nat /\ s[n] <= upto
      BY <1>1, <1>2, <2>2
    <3> QED BY <1>2, <2>2, <3>1
  <2> QED BY <1>1, <2>1, <2>2
<1>4. ASSUME NEW m \in 1 .. Len(t), NEW n \in 1 .. Len(t), m < n PROVE t[m] < t[n]
  <2>1. m \in 1 .. Len(s) /\ t[m] = s[m] /\ s[m] \in Nat /\ s[m] <= upto
    BY <1>1, <1>2, <1>4
  <2>2. CASE n = Len(s) + 1
    BY <1>1, <2>1, <2>2
  <2>3. CASE n \in 1 .. Len(s)
    BY <1>1, <1>2, <1>4, <2>1, <2>3
  <2> QED BY <1>1, <2>2, <2>3
<1>5. ASSUME NEW i \in 1 .. upto + 1, r[i].cmd = k, get_channel(r[i].addr) = c,
             Ordinal(r, c, i) > done
      PROVE  \E n \in 1 .. Len(t) : t[n] = i
  <2>1. CASE i = upto + 1
    BY <1>1, <2>1
  <2>2. CASE i \in 1 .. upto
    <3>1. PICK n \in 1 .. Len(s) : s[n] = i
      BY <1>2, <1>5, <2>2
    <3>2. n \in 1 .. Len(t) /\ t[n] = i
      BY <1>1, <3>1
    <3> QED BY <3>2
  <2> QED BY <2>1, <2>2
<1>6. Pending(r, upto + 1, done, c, k, t)
  BY <1>3, <1>4, <1>5 DEF Pending
<1> QED BY <1>6 DEF t

(* A line of another channel or command changes nothing. *)
LEMMA PendingPassed ==
  ASSUME NEW r, NEW upto \in Nat, NEW done \in Nat, NEW c, NEW k, NEW s \in Seq(Nat),
         Pending(r, upto, done, c, k, s),
         r[upto + 1].cmd # k \/ get_channel(r[upto + 1].addr) # c
  PROVE  Pending(r, upto + 1, done, c, k, s)
<1>1. \A n \in 1 .. Len(s) : s[n] \in Nat
  OBVIOUS
<1>2. ASSUME NEW n \in 1 .. Len(s)
      PROVE  /\ s[n] <= upto + 1
             /\ r[s[n]].cmd = k /\ get_channel(r[s[n]].addr) = c
             /\ Ordinal(r, c, s[n]) > done
  BY <1>1 DEF Pending
<1>3. ASSUME NEW i \in 1 .. upto + 1, r[i].cmd = k, get_channel(r[i].addr) = c,
             Ordinal(r, c, i) > done
      PROVE  \E n \in 1 .. Len(s) : s[n] = i
  <2>1. i \in 1 .. upto
    BY <1>3
  <2> QED BY <1>3, <2>1 DEF Pending
<1>4. \A m, n \in 1 .. Len(s) : m < n => s[m] < s[n]
  BY DEF Pending
<1> QED BY <1>2, <1>3, <1>4 DEF Pending

(* When the line written is the last one read, nothing of its channel      *)
(* waits.                                                                  *)
LEMMA PendingNone ==
  ASSUME NEW r, NEW upto \in Nat, NEW c, NEW k, get_channel(r[upto].addr) = c
  PROVE  Pending(r, upto, Ordinal(r, c, upto), c, k, <<>>)
<1>1. \A m, n \in Nat :
        m < n /\ get_channel(r[n].addr) = c => Ordinal(r, c, m) < Ordinal(r, c, n)
  BY Ordinals, ZenonT(60)
<1>2. \A n \in Nat : Ordinal(r, c, n) \in Nat
  BY Ordinals, ZenonT(60)
<1>3. ASSUME NEW i \in 1 .. upto PROVE ~(Ordinal(r, c, i) > Ordinal(r, c, upto))
  <2>1. i \in Nat /\ Ordinal(r, c, i) \in Nat /\ Ordinal(r, c, upto) \in Nat
    <3>1. i \in Nat
      OBVIOUS
    <3> QED BY <1>2, <3>1
  <2>2. CASE i = upto
    BY <2>1, <2>2
  <2>3. CASE i < upto
    <3>1. Ordinal(r, c, i) < Ordinal(r, c, upto)
      BY <1>1, <2>1, <2>3
    <3> QED BY <2>1, <3>1
  <2> QED BY <2>2, <2>3
<1> QED BY <1>3 DEF Pending

(* What the steps of the converter leave alone. *)
ConvertKeeps == /\ raw' = raw /\ sent' = sent /\ waiting' = waiting
                /\ openRow' = openRow /\ ramOut' = ramOut

(* The converter changes nothing the simulator has said. *)
LEMMA KeepsSimulation ==
  ASSUME IInv, ConvertKeeps
  PROVE  SentInOrder' /\ WaitsInOrder'
<1>1. SentInOrder'
  BY DEF IInv, SentInOrder, ConvertKeeps
<1>2. WaitsInOrder'
  BY DEF IInv, WaitsInOrder, ConvertKeeps
<1> QED BY <1>1, <1>2

(* A line of the simulator with another command adds to no file. *)
LEMMA SkipIInv ==
  ASSUME IInv, line < Len(ramOut), ConvertKeeps, Skip(ramOut[line + 1])
  PROVE  IInv'
<1>0. Typed /\ Written /\ Queued /\ Own
  BY DEF IInv
<1>1. /\ ramOut[line + 1].cmd \notin Columnwise /\ line' = line + 1
      /\ raw' = raw /\ sent' = sent /\ waiting' = waiting /\ openRow' = openRow /\ ramOut' = ramOut
      /\ pc' = pc /\ rsLine' = rsLine /\ queue' = queue /\ output' = output
  BY DEF Skip, ConvertKeeps
<1>2. line \in Nat /\ Len(ramOut) \in Nat
  BY <1>0 DEF Typed
<1>3. ASSUME NEW c PROVE Served(ramOut, c, line + 1) = Served(ramOut, c, line)
  <2>1. \A n \in Nat : Served(ramOut, c, n + 1)
          = IF ramOut[n + 1].cmd \in Columnwise /\ ramOut[n + 1].vec.Channel = c
            THEN Served(ramOut, c, n) + 1 ELSE Served(ramOut, c, n)
    BY ServedCounts, ZenonT(60)
  <2> QED BY <1>1, <1>2, <2>1
<1>4. Typed'
  <2>1. line' \in 0 .. Len(ramOut')
    BY <1>1, <1>2
  <2> QED BY <1>0, <1>1, <2>1 DEF Typed
<1>5. Written'
  BY <1>0, <1>1, <1>3 DEF Written
<1>6. Queued'
  BY <1>0, <1>1 DEF Queued
<1>7. Own'
  BY <1>0, <1>1 DEF Own
<1> QED BY <1>4, <1>5, <1>6, <1>7, KeepsSimulation DEF IInv

(* The line that is due is the first of its queue and leaves it for the    *)
(* file.                                                                   *)
LEMMA FromQueueIInv ==
  ASSUME IInv, line < Len(ramOut), ConvertKeeps, FromQueue(ramOut[line + 1])
  PROVE  IInv'
<1>0. Typed /\ Written /\ Queued
  BY DEF IInv
<1> DEFINE q == ramOut[line + 1]
           k == q.cmd
<1>1. /\ q.cmd \in Columnwise /\ Place(q) # 0
      /\ Write(q, queue[q.vec.Channel][k][Place(q)])
      /\ queue' = Taken(q.vec.Channel, k, Place(q))
      /\ raw' = raw /\ sent' = sent /\ waiting' = waiting /\ openRow' = openRow /\ ramOut' = ramOut
      /\ pc' = pc /\ rsLine' = rsLine
  BY DEF FromQueue, ConvertKeeps
<1>2. PICK c \in Channels, i \in 1 .. Len(raw) :
        /\ IsDue(q, c, i)
        /\ \A e \in Channels :
             Served(ramOut, e, line + 1) = IF e = c THEN Len(output[e]) + 1 ELSE Len(output[e])
  BY <1>1, Due
<1> HIDE DEF q
<1>3. /\ q.vec.Channel = c /\ get_channel(raw[i].addr) = c /\ raw[i].cmd = k
      /\ Ordinal(raw, c, i) = Len(output[c]) + 1
  BY <1>2 DEF IsDue
<1>4. Len(output[c]) \in Nat /\ Len(raw) \in Nat /\ rsLine \in 0 .. Len(raw) /\ i \in Nat
  BY <1>0, <1>1, QueueTypes
<1>5. i <= rsLine /\ Len(queue[c][k]) > 0 /\ queue[c][k][1] = i /\ Place(q) = 1
  BY <1>1, <1>2, <1>4, DuePlace
<1> DEFINE s == queue[c][k]
<1>6. s \in Seq(1 .. Len(raw)) /\ Len(s) \in Nat \ {0} /\ \A n \in 1 .. Len(s) : s[n] \in Nat
  BY <1>0, <1>1, <1>5, QueueTypes, SMTT(30)
<1>7. Write(q, i)
  BY <1>1, <1>3, <1>5
<1>8. /\ output' \in [Channels -> Seq(RawLines)]
      /\ line' \in 0 .. Len(ramOut)
      /\ Own'
      /\ \A e \in Channels :
           /\ Len(output'[e]) = Served(ramOut, e, line')
           /\ Len(output'[e]) = IF e = c THEN Len(output[e]) + 1 ELSE Len(output[e])
  BY <1>1, <1>2, <1>7, WriteKeeps
<1>9. RemoveAt(s, 1) = Tail(s) /\ Tail(s) \in Seq(1 .. Len(raw)) /\ Len(Tail(s)) = Len(s) - 1
  <2> HIDE DEF s
  <2>1. s # <<>>
    BY <1>6
  <2>2. Tail(s) \in Seq(1 .. Len(raw)) /\ Len(Tail(s)) = Len(s) - 1
    BY <1>6, <2>1
  <2>3. SubSeq(s, 1, 1 - 1) = <<>>
    OBVIOUS
  <2>4. SubSeq(s, 1 + 1, Len(s)) = Tail(s)
    <3>1. SubSeq(s, 2, Len(s)) = Tail(s)
      BY <1>6, <2>1, TailIsSubSeq
    <3>2. 1 + 1 = 2
      OBVIOUS
    <3> QED BY <3>1, <3>2
  <2>5. RemoveAt(s, 1) = SubSeq(s, 1, 1 - 1) \o SubSeq(s, 1 + 1, Len(s))
    BY DEF RemoveAt
  <2>6. <<>> \o Tail(s) = Tail(s)
    BY <2>2, ConcatEmptySeq
  <2> QED BY <2>2, <2>3, <2>4, <2>5, <2>6
<1> DEFINE t == Tail(s)
<1>10. /\ queue \in [Channels -> [Columnwise -> Seq(1 .. Len(raw))]]
       /\ queue' = [queue EXCEPT ![c] = [queue[c] EXCEPT ![k] = t]]
  <2>1. queue' = [queue EXCEPT ![c][k] = RemoveAt(@, 1)]
    BY <1>1, <1>3, <1>5 DEF Taken
  <2>2. queue \in [Channels -> [Columnwise -> Seq(1 .. Len(raw))]]
    BY <1>0 DEF Typed
  <2> QED BY <1>9, <2>1, <2>2
<1> HIDE DEF s, t, k
<1>11. /\ queue' \in [Channels -> [Columnwise -> Seq(1 .. Len(raw))]]
       /\ \A e \in Channels, j \in Columnwise :
            queue'[e][j] = IF e = c /\ j = k THEN t ELSE queue[e][j]
  <2>1. k \in Columnwise
    BY <1>1 DEF k
  <2> QED BY <1>9, <1>10, <2>1 DEF t
<1>12. Typed'
  BY <1>0, <1>1, <1>8, <1>11 DEF Typed
<1>13. Written'
  <2> SUFFICES ASSUME NEW e \in Channels
               PROVE  Ordinal(raw, e, rsLine)
                        = Len(output'[e]) + Len(queue'[e]["RD"]) + Len(queue'[e]["WR"])
    BY <1>1, <1>8 DEF Written
  <2>1. Ordinal(raw, e, rsLine) = Len(output[e]) + Len(queue[e]["RD"]) + Len(queue[e]["WR"])
    BY <1>0 DEF Written
  <2>2. /\ "RD" \in Columnwise /\ "WR" \in Columnwise /\ k \in {"RD", "WR"}
        /\ Len(queue[e]["RD"]) \in Nat /\ Len(queue[e]["WR"]) \in Nat /\ Len(output[e]) \in Nat
    BY <1>0, <1>1, QueueTypes DEF Columnwise, k
  <2>3. \A j \in Columnwise :
          Len(queue'[e][j]) = IF e = c /\ j = k THEN Len(queue[e][j]) - 1 ELSE Len(queue[e][j])
    BY <1>9, <1>11 DEF s, t
  <2>4. Len(output'[e]) = IF e = c THEN Len(output[e]) + 1 ELSE Len(output[e])
    BY <1>8
  <2>5. /\ Len(queue'[e]["RD"])
             = IF e = c /\ k = "RD" THEN Len(queue[e]["RD"]) - 1 ELSE Len(queue[e]["RD"])
        /\ Len(queue'[e]["WR"])
             = IF e = c /\ k = "WR" THEN Len(queue[e]["WR"]) - 1 ELSE Len(queue[e]["WR"])
    BY <2>2, <2>3
  <2> DEFINE o  == Len(output[e])
             x  == Len(queue[e]["RD"])
             y  == Len(queue[e]["WR"])
             o1 == Len(output'[e])
             x1 == Len(queue'[e]["RD"])
             y1 == Len(queue'[e]["WR"])
  <2>6. /\ o \in Nat /\ x \in Nat /\ y \in Nat /\ Ordinal(raw, e, rsLine) = o + x + y
        /\ o1 = IF e = c THEN o + 1 ELSE o
        /\ x1 = IF e = c /\ k = "RD" THEN x - 1 ELSE x
        /\ y1 = IF e = c /\ k = "WR" THEN y - 1 ELSE y
    BY <2>1, <2>2, <2>4, <2>5
  <2> HIDE DEF o, x, y, o1, x1, y1
  <2>7. o1 + x1 + y1 = o + x + y
    BY <2>2, <2>6
  <2> QED BY <2>6, <2>7 DEF o1, x1, y1
<1>14. Queued'
  <2> SUFFICES ASSUME NEW e \in Channels, NEW j \in Columnwise
               PROVE  Pending(raw, rsLine, Len(output'[e]), e, j, queue'[e][j])
    BY <1>1 DEF Queued
  <2>1. Pending(raw, rsLine, Len(output[e]), e, j, queue[e][j])
    BY <1>0 DEF Queued
  <2>2. CASE e # c
    <3>1. queue'[e][j] = queue[e][j] /\ Len(output'[e]) = Len(output[e])
      BY <1>8, <1>11, <2>2
    <3> QED BY <2>1, <3>1
  <2>3. Len(output[e]) \in Nat /\ rsLine \in Nat /\ queue[e][j] \in Seq(Nat)
    <3>1. queue[e][j] \in Seq(1 .. Len(raw)) /\ Len(raw) \in Nat
      BY <1>0, QueueTypes
    <3>2. queue[e][j] \in Seq(Nat)
      BY <3>1
    <3> QED BY <1>0, <1>4, <3>2, QueueTypes
  <2>4. CASE e = c /\ j # k
    <3>1. queue'[e][j] = queue[e][j] /\ Len(output'[e]) = Len(output[e]) + 1
      BY <1>8, <1>11, <2>4
    <3>2. Pending(raw, rsLine, Len(output[e]) + 1, e, j, queue[e][j])
      BY <1>3, <1>4, <2>1, <2>3, <2>4, PendingOther
    <3> QED BY <3>1, <3>2
  <2>5. CASE e = c /\ j = k
    <3>1. queue'[e][j] = Tail(queue[e][j]) /\ Len(output'[e]) = Len(output[e]) + 1
      BY <1>8, <1>11, <2>5 DEF s, t
    <3>2. queue[e][j] # <<>> /\ queue[e][j][1] = i
      BY <1>5, <2>5
    <3>3. Pending(raw, rsLine, Len(output[e]) + 1, e, j, Tail(queue[e][j]))
      BY <1>3, <2>1, <2>3, <2>5, <3>2, PendingTail
    <3> QED BY <3>1, <3>3
  <2> QED BY <2>2, <2>4, <2>5
<1> QED BY <1>8, <1>12, <1>13, <1>14, KeepsSimulation DEF IInv

(* The raw line that matches is the one that is due: no line of its        *)
(* channel waits, so it is the next one of its channel.                    *)
LEMMA FromRawIInv ==
  ASSUME IInv, line < Len(ramOut), ConvertKeeps, FromRaw(ramOut[line + 1])
  PROVE  IInv'
<1>0. Typed /\ Written /\ Queued
  BY DEF IInv
<1> DEFINE q == ramOut[line + 1]
<1>1. /\ q.cmd \in Columnwise /\ Place(q) = 0 /\ rsLine < Len(raw)
      /\ Wanted(q) /\ Write(q, rsLine + 1) /\ rsLine' = rsLine + 1
      /\ raw' = raw /\ sent' = sent /\ waiting' = waiting /\ openRow' = openRow /\ ramOut' = ramOut
      /\ pc' = pc /\ queue' = queue
  BY DEF FromRaw, ConvertKeeps
<1>2. PICK c \in Channels, i \in 1 .. Len(raw) :
        /\ IsDue(q, c, i)
        /\ \A e \in Channels :
             Served(ramOut, e, line + 1) = IF e = c THEN Len(output[e]) + 1 ELSE Len(output[e])
  BY <1>1, Due
<1> HIDE DEF q
<1>3. /\ get_channel(raw[i].addr) = c /\ raw[i].addr = build_addr(q.vec)
      /\ Ordinal(raw, c, i) = Len(output[c]) + 1
  BY <1>2 DEF IsDue
<1>4. Len(output[c]) \in Nat /\ Len(raw) \in Nat /\ rsLine \in Nat /\ i \in Nat
  BY <1>0, <1>1, QueueTypes
<1>5. i > rsLine /\ \A k \in Columnwise : queue[c][k] = <<>>
  BY <1>1, <1>2, <1>4, DuePlace
<1>6. get_channel(raw[rsLine + 1].addr) = c
  BY <1>1, <1>3 DEF Wanted, Matches, get_channel
<1>7. \A n \in Nat : Ordinal(raw, c, n + 1)
        = IF get_channel(raw[n + 1].addr) = c THEN Ordinal(raw, c, n) + 1 ELSE Ordinal(raw, c, n)
  BY Ordinals, ZenonT(60)
<1>8. Ordinal(raw, c, rsLine + 1) = Len(output[c]) + 1
  <2>1. Ordinal(raw, c, rsLine) = Len(output[c]) + Len(queue[c]["RD"]) + Len(queue[c]["WR"])
    BY <1>0 DEF Written
  <2>2. queue[c]["RD"] = <<>> /\ queue[c]["WR"] = <<>>
    BY <1>5 DEF Columnwise
  <2>3. Len(queue[c]["RD"]) = 0 /\ Len(queue[c]["WR"]) = 0
    BY <2>2
  <2>4. Ordinal(raw, c, rsLine + 1) = Ordinal(raw, c, rsLine) + 1
    BY <1>4, <1>6, <1>7
  <2> QED BY <1>4, <2>1, <2>3, <2>4
<1>9. i = rsLine + 1
  <2>1. rsLine + 1 \in Nat
    BY <1>4
  <2> QED BY <1>3, <1>4, <1>6, <1>8, <2>1, OneOrdinal
<1>10. Write(q, i)
  BY <1>1, <1>9
<1>11. /\ output' \in [Channels -> Seq(RawLines)]
       /\ line' \in 0 .. Len(ramOut)
       /\ Own'
       /\ \A e \in Channels :
            /\ Len(output'[e]) = Served(ramOut, e, line')
            /\ Len(output'[e]) = IF e = c THEN Len(output[e]) + 1 ELSE Len(output[e])
  BY <1>1, <1>2, <1>10, WriteKeeps
<1>12. Typed'
  <2>1. rsLine' \in 0 .. Len(raw')
    BY <1>1, <1>4
  <2> QED BY <1>0, <1>1, <1>11, <2>1 DEF Typed
<1>13. Written'
  <2> SUFFICES ASSUME NEW e \in Channels
               PROVE  Ordinal(raw, e, rsLine + 1)
                        = Len(output'[e]) + Len(queue[e]["RD"]) + Len(queue[e]["WR"])
    BY <1>1, <1>11 DEF Written
  <2>1. Ordinal(raw, e, rsLine) = Len(output[e]) + Len(queue[e]["RD"]) + Len(queue[e]["WR"])
    BY <1>0 DEF Written
  <2>2. \A n \in Nat : Ordinal(raw, e, n + 1)
          = IF get_channel(raw[n + 1].addr) = e THEN Ordinal(raw, e, n) + 1 ELSE Ordinal(raw, e, n)
    BY Ordinals, ZenonT(60)
  <2>3. Ordinal(raw, e, rsLine + 1)
          = IF e = c THEN Ordinal(raw, e, rsLine) + 1 ELSE Ordinal(raw, e, rsLine)
    BY <1>4, <1>6, <2>2
  <2>4. Len(queue[e]["RD"]) \in Nat /\ Len(queue[e]["WR"]) \in Nat /\ Len(output[e]) \in Nat
    BY <1>0, QueueTypes DEF Columnwise
  <2>5. Len(output'[e]) = IF e = c THEN Len(output[e]) + 1 ELSE Len(output[e])
    BY <1>11
  <2> DEFINE o  == Len(output[e])
             x  == Len(queue[e]["RD"])
             y  == Len(queue[e]["WR"])
             o1 == Len(output'[e])
  <2>6. /\ o \in Nat /\ x \in Nat /\ y \in Nat
        /\ Ordinal(raw, e, rsLine + 1) = IF e = c THEN (o + x + y) + 1 ELSE o + x + y
        /\ o1 = IF e = c THEN o + 1 ELSE o
    BY <2>1, <2>3, <2>4, <2>5
  <2> HIDE DEF o, x, y, o1
  <2>7. Ordinal(raw, e, rsLine + 1) = o1 + x + y
    BY <2>6
  <2> QED BY <2>7 DEF o1, x, y
<1>14. Queued'
  <2> SUFFICES ASSUME NEW e \in Channels, NEW j \in Columnwise
               PROVE  Pending(raw, rsLine + 1, Len(output'[e]), e, j, queue[e][j])
    BY <1>1 DEF Queued
  <2>1. CASE e = c
    <3>1. queue[e][j] = <<>> /\ Len(output'[e]) = Ordinal(raw, e, rsLine + 1)
      BY <1>5, <1>8, <1>11, <2>1
    <3>2. rsLine + 1 \in Nat
      BY <1>4
    <3> QED BY <1>6, <2>1, <3>1, <3>2, PendingNone
  <2>2. CASE e # c
    <3>1. Pending(raw, rsLine, Len(output[e]), e, j, queue[e][j]) /\ Len(output'[e]) = Len(output[e])
      BY <1>0, <1>11, <2>2 DEF Queued
    <3>2. Len(output[e]) \in Nat /\ queue[e][j] \in Seq(Nat)
      <4>1. queue[e][j] \in Seq(1 .. Len(raw)) /\ Len(output[e]) \in Nat
        BY <1>0, QueueTypes
      <4>2. queue[e][j] \in Seq(Nat)
        BY <4>1
      <4> QED BY <4>1, <4>2
    <3> QED BY <1>4, <1>6, <2>2, <3>1, <3>2, PendingPassed
  <2> QED BY <2>1, <2>2
<1> QED BY <1>11, <1>12, <1>13, <1>14, KeepsSimulation DEF IInv

(* A raw line that does not match goes to the queue of its channel and     *)
(* command.                                                                *)
LEMMA PassOverIInv ==
  ASSUME IInv, line < Len(ramOut), ConvertKeeps, PassOver(ramOut[line + 1])
  PROVE  IInv'
<1>0. Typed /\ Written /\ Queued /\ Own
  BY DEF IInv
<1> DEFINE next == raw[rsLine + 1]
           c == get_channel(next.addr)
<1>1. /\ rsLine < Len(raw) /\ rsLine' = rsLine + 1
      /\ queue' = [queue EXCEPT ![c][next.cmd] = Append(@, rsLine + 1)]
      /\ raw' = raw /\ sent' = sent /\ waiting' = waiting /\ openRow' = openRow /\ ramOut' = ramOut
      /\ pc' = pc /\ line' = line /\ output' = output
  BY DEF PassOver, ConvertKeeps
<1>2. /\ queue \in [Channels -> [Columnwise -> Seq(1 .. Len(raw))]]
      /\ rsLine \in Nat /\ Len(raw) \in Nat /\ rsLine + 1 \in 1 .. Len(raw)
      /\ next \in RawLines
  BY <1>0, <1>1 DEF Typed
<1>3. c \in Channels /\ next.cmd \in Columnwise
  BY <1>2, LineFields
<1> HIDE DEF next, c
<1> DEFINE k == next.cmd
<1>4. queue' = [queue EXCEPT ![c] = [queue[c] EXCEPT ![k] = Append(queue[c][k], rsLine + 1)]]
  BY <1>1, <1>2, <1>3
<1>5. queue[c][k] \in Seq(1 .. Len(raw)) /\ Append(queue[c][k], rsLine + 1) \in Seq(1 .. Len(raw))
  BY <1>2, <1>3
<1>6. k \in Columnwise
  BY <1>3
<1> HIDE DEF k
<1>7. /\ queue' \in [Channels -> [Columnwise -> Seq(1 .. Len(raw))]]
      /\ \A e \in Channels, j \in Columnwise :
           queue'[e][j] = IF e = c /\ j = k THEN Append(queue[e][j], rsLine + 1) ELSE queue[e][j]
  BY <1>2, <1>3, <1>4, <1>5, <1>6
<1>8. Typed'
  <2>1. rsLine' \in 0 .. Len(raw')
    BY <1>1, <1>2
  <2> QED BY <1>0, <1>1, <1>7, <2>1 DEF Typed
<1>9. ASSUME NEW e \in Channels
      PROVE  /\ Ordinal(raw, e, rsLine) = Len(output[e]) + Len(queue[e]["RD"]) + Len(queue[e]["WR"])
             /\ Len(queue[e]["RD"]) \in Nat /\ Len(queue[e]["WR"]) \in Nat /\ Len(output[e]) \in Nat
             /\ Ordinal(raw, e, rsLine + 1)
                  = IF e = c THEN Ordinal(raw, e, rsLine) + 1 ELSE Ordinal(raw, e, rsLine)
  <2>1. Ordinal(raw, e, rsLine) = Len(output[e]) + Len(queue[e]["RD"]) + Len(queue[e]["WR"])
    BY <1>0 DEF Written
  <2>2. \A n \in Nat : Ordinal(raw, e, n + 1)
          = IF get_channel(raw[n + 1].addr) = e THEN Ordinal(raw, e, n) + 1 ELSE Ordinal(raw, e, n)
    BY Ordinals, ZenonT(60)
  <2>3. Ordinal(raw, e, rsLine + 1)
          = IF e = c THEN Ordinal(raw, e, rsLine) + 1 ELSE Ordinal(raw, e, rsLine)
    BY <1>2, <2>2 DEF c, next
  <2>4. Len(queue[e]["RD"]) \in Nat /\ Len(queue[e]["WR"]) \in Nat /\ Len(output[e]) \in Nat
    BY <1>0, QueueTypes DEF Columnwise
  <2> QED BY <2>1, <2>3, <2>4
<1>10. Written'
  <2> SUFFICES ASSUME NEW e \in Channels
               PROVE  /\ Len(output[e]) = Served(ramOut, e, line)
                      /\ Ordinal(raw, e, rsLine + 1)
                           = Len(output[e]) + Len(queue'[e]["RD"]) + Len(queue'[e]["WR"])
    BY <1>1 DEF Written
  <2>1. Len(output[e]) = Served(ramOut, e, line)
    BY <1>0 DEF Written
  <2>2. /\ queue[e]["RD"] \in Seq(1 .. Len(raw)) /\ queue[e]["WR"] \in Seq(1 .. Len(raw))
        /\ queue'[e]["RD"]
             = IF e = c /\ k = "RD" THEN Append(queue[e]["RD"], rsLine + 1) ELSE queue[e]["RD"]
        /\ queue'[e]["WR"]
             = IF e = c /\ k = "WR" THEN Append(queue[e]["WR"], rsLine + 1) ELSE queue[e]["WR"]
    BY <1>2, <1>7 DEF Columnwise
  <2> DEFINE o  == Len(output[e])
             x  == Len(queue[e]["RD"])
             y  == Len(queue[e]["WR"])
             x1 == Len(queue'[e]["RD"])
             y1 == Len(queue'[e]["WR"])
  <2>3. /\ o \in Nat /\ x \in Nat /\ y \in Nat
        /\ Ordinal(raw, e, rsLine + 1) = IF e = c THEN (o + x + y) + 1 ELSE o + x + y
    BY <1>9
  <2>4. /\ x1 = IF e = c /\ k = "RD" THEN x + 1 ELSE x
        /\ y1 = IF e = c /\ k = "WR" THEN y + 1 ELSE y
    BY <2>2
  <2>5. k \in {"RD", "WR"}
    BY <1>6 DEF Columnwise
  <2> HIDE DEF o, x, y, x1, y1
  <2>6. Ordinal(raw, e, rsLine + 1) = o + x1 + y1
    BY <2>3, <2>4, <2>5
  <2> QED BY <2>1, <2>6 DEF o, x1, y1
<1>11. Queued'
  <2> SUFFICES ASSUME NEW e \in Channels, NEW j \in Columnwise
               PROVE  Pending(raw, rsLine + 1, Len(output[e]), e, j, queue'[e][j])
    BY <1>1 DEF Queued
  <2>1. Pending(raw, rsLine, Len(output[e]), e, j, queue[e][j])
    BY <1>0 DEF Queued
  <2>2. Len(output[e]) \in Nat /\ queue[e][j] \in Seq(Nat)
    <3>1. queue[e][j] \in Seq(1 .. Len(raw)) /\ Len(output[e]) \in Nat
      BY <1>0, QueueTypes
    <3>2. queue[e][j] \in Seq(Nat)
      BY <3>1
    <3> QED BY <3>1, <3>2
  <2>3. CASE e = c /\ j = k
    <3>1. queue'[e][j] = Append(queue[e][j], rsLine + 1)
      BY <1>7, <2>3
    <3>2. Ordinal(raw, e, rsLine + 1) > Len(output[e])
      <4> DEFINE o == Len(output[e])
                 x == Len(queue[e]["RD"])
                 y == Len(queue[e]["WR"])
      <4>1. /\ o \in Nat /\ x \in Nat /\ y \in Nat
            /\ Ordinal(raw, e, rsLine + 1) = (o + x + y) + 1
        BY <1>9, <2>3
      <4> HIDE DEF o, x, y
      <4>2. Ordinal(raw, e, rsLine + 1) > o
        BY <4>1
      <4> QED BY <4>2 DEF o
    <3>3. raw[rsLine + 1].cmd = j /\ get_channel(raw[rsLine + 1].addr) = e
      BY <2>3 DEF k, c, next
    <3> QED BY <1>2, <2>1, <2>2, <3>1, <3>2, <3>3, PendingAppend
  <2>4. CASE e # c \/ j # k
    <3>1. queue'[e][j] = queue[e][j]
      BY <1>7, <2>4
    <3>2. raw[rsLine + 1].cmd # j \/ get_channel(raw[rsLine + 1].addr) # e
      BY <2>4 DEF k, c, next
    <3> QED BY <1>2, <2>1, <2>2, <3>1, <3>2, PendingPassed
  <2> QED BY <2>3, <2>4
<1>12. Own'
  BY <1>0, <1>1 DEF Own
<1> QED BY <1>8, <1>10, <1>11, <1>12, KeepsSimulation DEF IInv

(* The raw line a command asks for is never missing. *)
LEMMA NeverMissing ==
  ASSUME IInv, line < Len(ramOut), NotFound(ramOut[line + 1])
  PROVE  FALSE
<1>0. Typed
  BY DEF IInv
<1> DEFINE q == ramOut[line + 1]
<1>1. q.cmd \in Columnwise /\ Place(q) = 0 /\ rsLine = Len(raw)
  BY DEF NotFound
<1>2. PICK c \in Channels, i \in 1 .. Len(raw) : IsDue(q, c, i)
  BY <1>1, Due
<1> HIDE DEF q
<1>3. i <= rsLine
  BY <1>1
<1>4. Place(q) = 1
  BY <1>1, <1>2, <1>3, DuePlace
<1> QED BY <1>1, <1>4

-----------------------------------------------------------------------------
(* The orders of the three sequences stay the same on every channel in     *)
(* every run of simulator and converter.                                   *)
THEOREM Invariance == Spec => []IInv
<1>1. Init => IInv
  BY InitIInv
<1>2. IInv /\ [Next]_vars => IInv'
  <2> SUFFICES ASSUME IInv, [Next]_vars PROVE IInv'
    OBVIOUS
  <2>1. CASE Send
    BY <2>1, SendIInv
  <2>2. CASE \E c \in Channels : Activate(c) \/ Serve(c)
    BY <2>2, ActivateIInv, ServeIInv
  <2>3. CASE SimulationDone \/ ConvertDone \/ UNCHANGED vars
    BY <2>3, TurnIInv
  <2>4. CASE Convert
    <3>1. line < Len(ramOut) /\ ConvertKeeps
      BY <2>4 DEF Convert, ConvertKeeps, simVars
    <3>2. CASE Skip(ramOut[line + 1])
      BY <3>1, <3>2, SkipIInv
    <3>3. CASE FromQueue(ramOut[line + 1])
      BY <3>1, <3>3, FromQueueIInv
    <3>4. CASE FromRaw(ramOut[line + 1])
      BY <3>1, <3>4, FromRawIInv
    <3>5. CASE PassOver(ramOut[line + 1])
      BY <3>1, <3>5, PassOverIInv
    <3>6. CASE NotFound(ramOut[line + 1])
      BY <3>1, <3>6, NeverMissing
    <3> QED BY <2>4, <3>2, <3>3, <3>4, <3>5, <3>6 DEF Convert
  <2> QED BY <2>1, <2>2, <2>3, <2>4 DEF Next
<1> QED BY <1>1, <1>2, PTL DEF Spec

(* Types; of every channel each line the converter has read is in one      *)
(* queue or in the file (ramulator2sc.cpp, main).                          *)
THEOREM TypeCorrect == Spec => []TypeOK
<1>1. ASSUME IInv PROVE TypeOK
  <2>0. Typed /\ Written /\ Queued
    BY <1>1 DEF IInv
  <2>1. /\ sent \in 0 .. Len(raw) /\ rsLine \in 0 .. Len(raw) /\ line \in 0 .. Len(ramOut)
        /\ pc \in {"simulate", "convert", "done", "abort"}
    BY <2>0 DEF Typed
  <2>2. ASSUME NEW c \in Channels
        PROVE  /\ output[c] \in Seq(RawLines)
               /\ \A k \in Columnwise :
                    /\ queue[c][k] \in Seq(LinesOf(c, rsLine))
                    /\ \A n \in DOMAIN queue[c][k] : raw[queue[c][k][n]].cmd = k
               /\ Cardinality(LinesOf(c, rsLine))
                    = Len(output[c]) + Len(queue[c]["RD"]) + Len(queue[c]["WR"])
    <3>1. output[c] \in Seq(RawLines)
      BY <2>0 DEF Typed
    <3>2. ASSUME NEW k \in Columnwise
          PROVE  /\ queue[c][k] \in Seq(LinesOf(c, rsLine))
                 /\ \A n \in DOMAIN queue[c][k] : raw[queue[c][k][n]].cmd = k
      <4> DEFINE s == queue[c][k]
      <4>1. s \in Seq(1 .. Len(raw)) /\ Len(raw) \in Nat /\ rsLine \in 0 .. Len(raw)
        BY <2>0, QueueTypes
      <4>2. \A n \in 1 .. Len(s) :
              s[n] <= rsLine /\ raw[s[n]].cmd = k /\ get_channel(raw[s[n]].addr) = c
        BY <2>0 DEF Queued, Pending
      <4> HIDE DEF s
      <4>3. DOMAIN s = 1 .. Len(s) /\ \A n \in 1 .. Len(s) : s[n] \in 1 .. Len(raw)
        BY <4>1
      <4>4. \A n \in 1 .. Len(s) : s[n] \in LinesOf(c, rsLine)
        BY <4>1, <4>2, <4>3 DEF LinesOf
      <4>5. s \in Seq(LinesOf(c, rsLine))
        BY <4>1, <4>4
      <4> QED BY <4>2, <4>3, <4>5 DEF s
    <3>3. Cardinality(LinesOf(c, rsLine))
            = Len(output[c]) + Len(queue[c]["RD"]) + Len(queue[c]["WR"])
      BY <2>0 DEF Written, Ordinal, LinesOf
    <3> QED BY <3>1, <3>2, <3>3
  <2> QED BY <2>1, <2>2 DEF TypeOK
<1> QED BY <1>1, Invariance, PTL

(* The n-th line of every file is the n-th line of its channel in the raw  *)
(* sequence with its own data, for any number of channels, any widths of   *)
(* the levels, any raw sequence and any order in which the channels are    *)
(* served (ramulator2sc.cpp, the search in main).                          *)
THEOREM DataFollows == Spec => []OwnData
<1>1. ASSUME IInv PROVE OwnData
  <2>0. Typed /\ Own
    BY <1>1 DEF IInv
  <2> SUFFICES ASSUME NEW c \in Channels, NEW n \in DOMAIN output[c]
               PROVE  \E i \in LinesOf(c, Len(raw)) :
                        output[c][n] = raw[i] /\ Cardinality(LinesOf(c, i)) = n
    BY DEF OwnData
  <2>1. output[c] \in Seq(RawLines)
    BY <2>0 DEF Typed
  <2>2. n \in 1 .. Len(output[c])
    BY <2>1
  <2>3. PICK i \in 1 .. Len(raw) :
          output[c][n] = raw[i] /\ get_channel(raw[i].addr) = c /\ Ordinal(raw, c, i) = n
    BY <2>0, <2>2 DEF Own
  <2>4. i \in LinesOf(c, Len(raw)) /\ Cardinality(LinesOf(c, i)) = n
    BY <2>3 DEF LinesOf, Ordinal
  <2> QED BY <2>3, <2>4
<1> QED BY <1>1, Invariance, PTL

(* The search never runs off the end of the raw sequence, where the        *)
(* converter gives up (ramulator2sc.cpp, "not found").                     *)
THEOREM NeverAborts == Spec => [](pc # "abort")
<1>1. IInv => pc # "abort"
  BY DEF IInv, Typed
<1> QED BY <1>1, Invariance, PTL

(* What the programs leave behind when they end: the simulator no request, *)
(* the converter no command.                                               *)
Phases ==
  /\ pc # "simulate" => sent = Len(raw) /\ \A c \in Channels : waiting[c] = <<>>
  /\ pc = "done" => line = Len(ramOut)

(* When the converter has ended, every file holds all lines of its channel *)
(* and no others.                                                          *)
Complete ==
  pc = "done" => \A c \in Channels : Len(output[c]) = Cardinality(LinesOf(c, Len(raw)))

(* The converter ends with every line of the raw sequence in a file:       *)
(* together with DataFollows, every file is its channel's part of the raw  *)
(* sequence.                                                               *)
THEOREM NothingLost == Spec => []Complete
<1>1. Init => Phases
  BY DEF Init, Phases
<1>2. Phases /\ [Next]_vars => Phases'
  <2> SUFFICES ASSUME Phases, [Next]_vars PROVE Phases'
    OBVIOUS
  <2>1. CASE Send
    BY <2>1 DEF Send, Phases
  <2>2. CASE \E c \in Channels : Activate(c) \/ Serve(c)
    BY <2>2 DEF Activate, Serve, Phases
  <2>3. CASE SimulationDone
    BY <2>3 DEF SimulationDone, Phases, simVars
  <2>4. CASE ConvertDone
    BY <2>4 DEF ConvertDone, Phases, simVars, convVars
  <2>5. CASE UNCHANGED vars
    BY <2>5 DEF vars, Phases, simVars, convVars
  <2>6. CASE Convert
    <3>1. /\ pc = "convert" /\ pc' \in {"convert", "abort"}
          /\ raw' = raw /\ sent' = sent /\ waiting' = waiting
      BY <2>6 DEF Convert, Skip, FromQueue, FromRaw, PassOver, NotFound, simVars
    <3> QED BY <3>1 DEF Phases
  <2> QED BY <2>1, <2>2, <2>3, <2>4, <2>5, <2>6 DEF Next
<1>3. ASSUME IInv, Phases PROVE Complete
  <2> SUFFICES ASSUME pc = "done", NEW c \in Channels
               PROVE  Len(output[c]) = Cardinality(LinesOf(c, Len(raw)))
    BY DEF Complete
  <2>1. sent = Len(raw) /\ line = Len(ramOut) /\ waiting[c] = <<>>
    BY <1>3 DEF Phases
  <2>2. /\ Ordinal(raw, c, sent) = Served(ramOut, c, Len(ramOut)) + Len(waiting[c])
        /\ Len(output[c]) = Served(ramOut, c, line)
    BY <1>3 DEF IInv, WaitsInOrder, Written
  <2>3. Len(waiting[c]) = 0 /\ Served(ramOut, c, Len(ramOut)) \in Nat
    <3>1. Len(ramOut) \in Nat
      BY <1>3 DEF IInv, Typed
    <3> QED BY <2>1, <3>1, ServedCounts
  <2>4. Ordinal(raw, c, Len(raw)) = Len(output[c])
    BY <2>1, <2>2, <2>3
  <2> QED BY <2>4 DEF Ordinal, LinesOf
<1> QED BY <1>1, <1>2, <1>3, Invariance, PTL DEF Spec
=============================================================================
