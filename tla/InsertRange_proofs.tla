------------------------- MODULE InsertRange_proofs -------------------------
(***************************************************************************)
(* insert_range covers exactly its range, in the fewest networks, and      *)
(* ends: proved for words of every width.                                  *)
(*                                                                         *)
(* The argument is that the networks first grow and then shrink.  While    *)
(* they are as large as where they begin allows (Rising), each leaves the  *)
(* loop at an address with more zero bits at its end; once one is as       *)
(* large as the end of the range allows (Falling), what is left of the     *)
(* range is less than a network of that size.  Either way no network can   *)
(* be twice as large.                                                      *)
(***************************************************************************)
EXTENDS InsertRange, FiniteSetTheorems, SequenceTheorems, WellFoundedInduction, TLAPS

-----------------------------------------------------------------------------
(* Multiples *)

\* The remainder is zero for multiples.
LEMMA Multiple ==
    ASSUME NEW a \in Nat, a > 0, NEW x \in Nat
    PROVE  x % a = 0 <=> \E q \in Nat : x = q * a
<1>1. x = a * (x \div a) + (x % a) /\ x \div a \in Nat /\ x % a \in 0..(a - 1)
  OBVIOUS
<1>2. ASSUME x % a = 0 PROVE \E q \in Nat : x = q * a
  BY <1>1, <1>2
<1>3. ASSUME NEW q \in Nat, x = q * a PROVE x % a = 0
  BY <1>3
<1> QED BY <1>2, <1>3

\* The block of a numbers an x lies in.
LEMMA Block ==
    ASSUME NEW a \in Nat, a > 0, NEW x \in Nat
    PROVE  /\ x % a \in 0..(a - 1)
           /\ x - (x % a) \in Nat
           /\ (x - (x % a)) % a = 0
<1>1. x = a * (x \div a) + (x % a) /\ x \div a \in Nat /\ x % a \in 0..(a - 1)
  OBVIOUS
<1>2. x - (x % a) = (x \div a) * a /\ (x \div a) * a \in Nat
  BY <1>1
<1>3. ((x \div a) * a) % a = 0
  BY <1>1, <1>2, Multiple
<1> QED BY <1>1, <1>2, <1>3

\* From one multiple to the next, of a or of 2 * a.
LEMMA Double ==
    ASSUME NEW a \in Nat, a > 0, NEW x \in Nat, x % a = 0
    PROVE  /\ (x + a) % a = 0
           /\ x < a => x = 0
           /\ x % (2 * a) # 0 => /\ x % (2 * a) = a /\ x >= a
                                 /\ (x + a) % (2 * a) = 0
<1>1. PICK q \in Nat : x = q * a
  BY Multiple
<1>2. x + a = (q + 1) * a /\ q + 1 \in Nat
  BY <1>1
<1>3. (x + a) % a = 0
  <2> DEFINE y == x + a
             r == q + 1
  <2>1. y \in Nat /\ r \in Nat /\ y = r * a
    BY <1>2
  <2> HIDE DEF y, r
  <2>2. y % a = 0
    BY <2>1, Multiple
  <2> QED BY <2>2 DEF y
<1>4. ASSUME x < a PROVE x = 0
  BY <1>4
<1>5. ASSUME x % (2 * a) # 0
      PROVE  x % (2 * a) = a /\ x >= a /\ (x + a) % (2 * a) = 0
  <2>1. PICK h \in Nat : q = 2 * h \/ q = 2 * h + 1
    <3>1. q \div 2 \in Nat /\ (q = 2 * (q \div 2) \/ q = 2 * (q \div 2) + 1)
      OBVIOUS
    <3> QED BY <3>1
  <2>2. q # 2 * h
    <3> SUFFICES ASSUME q = 2 * h PROVE FALSE
      OBVIOUS
    <3>1. x = h * (2 * a) /\ 2 * a \in Nat /\ 2 * a > 0
      BY <1>1
    <3> QED BY <1>5, <3>1, Multiple
  <2>3. x = h * (2 * a) + a /\ x + a = (h + 1) * (2 * a) /\ h + 1 \in Nat
    BY <1>1, <2>1, <2>2
  <2>4. \A b, y, r \in Nat : b > 0 /\ r < b => (y * b + r) % b = r
    OBVIOUS
  <2>5. 2 * a \in Nat /\ 2 * a > 0 /\ a < 2 * a /\ 0 < 2 * a
    OBVIOUS
  <2>6. x % (2 * a) = a
    BY <2>3, <2>4, <2>5
  <2>7. (x + a) % (2 * a) = 0
    BY <2>3, <2>5, Multiple
  <2>8. h * (2 * a) >= 0
    OBVIOUS
  <2> QED BY <2>3, <2>6, <2>7, <2>8
<1> QED BY <1>3, <1>4, <1>5

\* A multiple of q * a is one of a.
LEMMA Coarser ==
    ASSUME NEW a \in Nat, a > 0, NEW q \in Nat, q > 0, NEW x \in Nat, x % (q * a) = 0
    PROVE  x % a = 0
<1>1. q * a \in Nat /\ q * a > 0
  OBVIOUS
<1>2. PICK h \in Nat : x = h * (q * a)
  BY <1>1, Multiple
<1>3. x = (h * q) * a /\ h * q \in Nat
  BY <1>2
<1> QED BY <1>3, Multiple

\* A block of a numbers that meets a block of q * a lies in it.
LEMMA Nested ==
    ASSUME NEW a \in Nat, a > 0, NEW q \in Nat, q > 0,
           NEW x \in Nat, x % a = 0, NEW y \in Nat, y % (q * a) = 0,
           x < y + q * a, y < x + a
    PROVE  y <= x /\ x + a <= y + q * a
<1>1. y % a = 0
  BY Coarser
<1>2. PICK u \in Nat : x = u * a
  BY Multiple
<1>3. PICK v \in Nat : y = v * a
  BY <1>1, Multiple
<1>4. \A m, n \in Nat : m * a < n * a + a => m <= n
  <2> SUFFICES ASSUME NEW m \in Nat, NEW n \in Nat, m > n PROVE m * a >= n * a + a
    OBVIOUS
  <2>1. m - n - 1 \in Nat /\ m * a = (m - n - 1) * a + n * a + a
    OBVIOUS
  <2>2. (m - n - 1) * a >= 0 /\ m * a \in Int /\ n * a \in Int
    BY <2>1
  <2> QED BY <2>1, <2>2
<1>5. y + q * a = (v + q) * a /\ v + q \in Nat
  BY <1>3
<1>6. v <= u
  BY <1>2, <1>3, <1>4
<1>7. u < v + q
  <2> SUFFICES ASSUME u >= v + q PROVE FALSE
    OBVIOUS
  <2>1. u * a = (u - (v + q)) * a + (v + q) * a /\ (u - (v + q)) * a >= 0
    BY <1>5
  <2> QED BY <1>2, <1>5, <2>1
<1>8. x = y + (u - v) * a /\ (u - v) * a >= 0
  BY <1>2, <1>3, <1>6
<1>9. y + q * a = x + a + (v + q - u - 1) * a /\ (v + q - u - 1) * a >= 0
  BY <1>2, <1>5, <1>7
<1> QED BY <1>8, <1>9

-----------------------------------------------------------------------------
(* Powers of two *)

\* A set that holds 0 and, below N, the successor of all it holds, has all the
\* numbers up to N.
LEMMA CountUp ==
    ASSUME NEW N \in Nat, NEW S, 0 \in S,
           \A i \in 0..(N - 1) : i \in S => i + 1 \in S
    PROVE  \A i \in 0..N : i \in S
<1> DEFINE T == {i \in 0..N : i \notin S}
           R == {ss \in Nat \X Nat : ss[1] < ss[2]}
<1> SUFFICES ASSUME T # {} PROVE FALSE
  OBVIOUS
<1>0. IsWellFoundedOn(R, Nat)
  BY NatLessThanWellFounded DEF OpToRel
<1>1. PICK x \in T : \A y \in T : <<y, x>> \notin R
  <2>1. T \subseteq Nat
    OBVIOUS
  <2> HIDE DEF T, R
  <2> QED BY <2>1, <1>0, WFMin
<1>2. \A y \in T : <<y, x>> \in Nat \X Nat
  OBVIOUS
<1>3. x # 0 /\ x - 1 \in 0..(N - 1) /\ x - 1 \notin S
  OBVIOUS
<1>4. x - 1 \in T
  BY <1>3
<1>5. <<x - 1, x>> \in R
  BY <1>2, <1>4
<1> QED BY <1>1, <1>4, <1>5

\* The recursive definition has a value at every power.
LEMMA Pow2Is == /\ Pow2[0] = 1
                /\ \A k \in 1..M : Pow2[k] = 2 * Pow2[k - 1]
<1> DEFINE IsPow(f, n) ==
               /\ f = [k \in 0..n |-> f[k]] /\ f[0] = 1
               /\ \A k \in 1..n : f[k] = 2 * f[k - 1]
           S == {n \in 0..M : \E f : IsPow(f, n)}
<1>1. M \in Nat /\ 0 \in 0..M
  BY WidthAssumption
<1>2. 0 \in S
  <2> DEFINE f == [k \in 0..0 |-> 1]
  <2>1. f = [k \in 0..0 |-> f[k]] /\ f[0] = 1 /\ 1..0 = {}
    OBVIOUS
  <2> HIDE DEF f
  <2>2. IsPow(f, 0)
    BY <2>1
  <2> QED BY <1>1, <2>2
<1>3. \A n \in 0..(M - 1) : n \in S => n + 1 \in S
  <2> SUFFICES ASSUME NEW n \in 0..(M - 1), n \in S PROVE n + 1 \in S
    OBVIOUS
  <2>1. PICK f : IsPow(f, n)
    OBVIOUS
  <2> DEFINE m == n + 1
             g == [k \in 0..m |-> IF k = m THEN 2 * f[n] ELSE f[k]]
  <2>2. /\ n \in Nat /\ m \in 0..M /\ m - 1 = n /\ m # 0 /\ m # n
        /\ 0 \in 0..m /\ n \in 0..m /\ m \in 0..m
        /\ \A k \in 1..m : k \in 0..m /\ k - 1 \in 0..m /\ k - 1 # m /\ (k # m => k \in 1..n)
    BY <1>1
  <2> HIDE DEF m
  <2>3. /\ g = [k \in 0..m |-> g[k]] /\ g[m] = 2 * f[n]
        /\ \A k \in 0..m : k # m => g[k] = f[k]
    BY <2>2
  <2> HIDE DEF g
  <2>4. \A k \in 1..m : g[k] = 2 * g[k - 1]
    BY <2>1, <2>2, <2>3
  <2>5. IsPow(g, m)
    BY <2>1, <2>2, <2>3, <2>4
  <2>6. m \in S
    BY <2>2, <2>5
  <2> QED BY <2>6 DEF m
<1> HIDE DEF S
<1>4. M \in S
  BY <1>1, <1>2, <1>3, CountUp
<1>5. PICK f : IsPow(f, M)
  BY <1>4 DEF S
<1>6. f = [k \in 0..M |-> IF k = 0 THEN 1 ELSE 2 * f[k - 1]]
  <2>1. \A k \in 0..M : k # 0 => k \in 1..M
    BY <1>1
  <2>2. \A k \in 0..M : f[k] = IF k = 0 THEN 1 ELSE 2 * f[k - 1]
    BY <1>5, <2>1
  <2> QED BY <1>5, <2>2
<1>7. Pow2 = [k \in 0..M |-> IF k = 0 THEN 1 ELSE 2 * Pow2[k - 1]]
  BY <1>6 DEF Pow2
<1> HIDE DEF Pow2
<1>8. /\ \A k \in 0..M : Pow2[k] = IF k = 0 THEN 1 ELSE 2 * Pow2[k - 1]
      /\ \A k \in 1..M : k \in 0..M /\ k # 0
  BY <1>1, <1>7
<1> QED BY <1>1, <1>8

\* Powers are positive, and each is twice the one before.
LEMMA Pow2Facts ==
    /\ Pow2[0] = 1
    /\ \A k \in 0..M : Pow2[k] \in Nat /\ Pow2[k] > 0
    /\ \A k \in 0..(M - 1) : k + 1 \in 0..M /\ Pow2[k + 1] = 2 * Pow2[k]
<1> DEFINE S == {k \in 0..M : Pow2[k] \in Nat /\ Pow2[k] > 0}
<1>1. M \in Nat /\ 0 \in 0..M /\ 0 \in S
  BY WidthAssumption, Pow2Is
<1>2. \A k \in 0..(M - 1) : k + 1 \in 0..M /\ Pow2[k + 1] = 2 * Pow2[k]
  <2> SUFFICES ASSUME NEW k \in 0..(M - 1)
               PROVE  k + 1 \in 0..M /\ Pow2[k + 1] = 2 * Pow2[k]
    OBVIOUS
  <2>1. k + 1 \in 1..M /\ k + 1 \in 0..M /\ (k + 1) - 1 = k
    BY <1>1
  <2> QED BY <2>1, Pow2Is
<1>3. \A k \in 0..(M - 1) : k \in S => k + 1 \in S
  BY <1>2
<1> HIDE DEF S
<1>4. \A k \in 0..M : k \in S
  BY <1>1, <1>3, CountUp
<1> QED BY <1>2, <1>4, Pow2Is DEF S

\* A higher power is a multiple of a lower one.
LEMMA Pow2Divides ==
    ASSUME NEW j \in 0..M, NEW k \in 0..M, j <= k
    PROVE  \E q \in Nat : q > 0 /\ Pow2[k] = q * Pow2[j]
<1> DEFINE N == M - j
           S == {i \in 0..N : \E q \in Nat : q > 0 /\ Pow2[j + i] = q * Pow2[j]}
<1>1. N \in Nat /\ M \in Nat /\ \A i \in 0..N : j + i \in 0..M
  BY WidthAssumption
<1>2. 0 \in S
  <2>1. j + 0 = j /\ 0 \in 0..N /\ Pow2[j] \in Nat
    BY <1>1, Pow2Facts
  <2>2. Pow2[j + 0] = 1 * Pow2[j]
    BY <2>1
  <2> QED BY <2>1, <2>2
<1>3. \A i \in 0..(N - 1) : i \in S => i + 1 \in S
  <2> SUFFICES ASSUME NEW i \in 0..(N - 1), i \in S PROVE i + 1 \in S
    OBVIOUS
  <2>1. PICK q \in Nat : q > 0 /\ Pow2[j + i] = q * Pow2[j]
    OBVIOUS
  <2>2. i + 1 \in 0..N /\ j + i \in 0..(M - 1) /\ j + (i + 1) = (j + i) + 1
    BY <1>1
  <2>3. Pow2[j + (i + 1)] = 2 * Pow2[j + i]
    BY <2>2, Pow2Facts
  <2>4. Pow2[j] \in Nat
    BY Pow2Facts
  <2>5. Pow2[j + (i + 1)] = (2 * q) * Pow2[j] /\ 2 * q \in Nat /\ 2 * q > 0
    BY <2>1, <2>3, <2>4
  <2> QED BY <2>2, <2>5
<1> HIDE DEF S, N
<1>4. \A i \in 0..N : i \in S
  BY <1>1, <1>2, <1>3, CountUp
<1>5. k - j \in 0..N /\ j + (k - j) = k
  BY <1>1 DEF N
<1>6. k - j \in S
  BY <1>4, <1>5
<1> QED BY <1>5, <1>6 DEF S

\* ... and so at least as large, and twice as large if it is another one.
LEMMA Pow2Grows ==
    ASSUME NEW j \in 0..M, NEW k \in 0..M, j <= k
    PROVE  /\ Pow2[j] <= Pow2[k]
           /\ j < k => 2 * Pow2[j] <= Pow2[k]
<1>1. \A i, h \in 0..M : i <= h => Pow2[i] <= Pow2[h]
  <2> SUFFICES ASSUME NEW i \in 0..M, NEW h \in 0..M, i <= h PROVE Pow2[i] <= Pow2[h]
    OBVIOUS
  <2>1. PICK q \in Nat : q > 0 /\ Pow2[h] = q * Pow2[i]
    BY Pow2Divides
  <2>2. Pow2[i] \in Nat
    BY Pow2Facts
  <2>3. \A c, b \in Nat : c > 0 => b <= c * b
    OBVIOUS
  <2> QED BY <2>1, <2>2, <2>3
<1>2. ASSUME j < k PROVE 2 * Pow2[j] <= Pow2[k]
  <2>1. j \in 0..(M - 1) /\ j + 1 <= k
    BY <1>2, WidthAssumption
  <2> QED BY <1>1, <2>1, Pow2Facts
<1> QED BY <1>1, <1>2

\* A multiple of a power is one of every lower power.
LEMMA Pow2Aligned ==
    ASSUME NEW j \in 0..M, NEW k \in 0..M, j <= k, NEW x \in Nat, x % Pow2[k] = 0
    PROVE  x % Pow2[j] = 0
<1>1. PICK q \in Nat : q > 0 /\ Pow2[k] = q * Pow2[j]
  BY Pow2Divides
<1> QED BY <1>1, Pow2Facts, Coarser

-----------------------------------------------------------------------------
(* The invariant *)

\* The bits a network of the length reached leaves to its hosts.
HostBits == W - prefix_length

\* The network that begins at start_ip and has k bits for hosts.
Fitting(k) == start_ip % Pow2[k] = 0 /\ start_ip + Pow2[k] - 1 <= end_ip

Ready == pc \in {"size", "insert"}

RangeTypes ==
    /\ ip_version \in {4, 6} /\ first \in IP /\ end_ip \in IP
    /\ start_ip \in 0..(Pow2[M] - 1)
    /\ prefix_length \in 0..W
    /\ nets \in Seq(Network)
    /\ pc \in {"size", "insert", "done", "croaked"}

Begun ==
    /\ nets = << >> => start_ip = first
    /\ Ready => start_ip <= end_ip

\* The network being sized is in the range and, once sizing is over, none of
\* twice its size is; the mask is that of its hosts, one more before that.
Sizing ==
    /\ Ready => Fitting(HostBits)
    /\ pc = "size" =>
          reverse_mask = Pow2[IF HostBits < M THEN HostBits + 1 ELSE M] - 1
    /\ pc = "insert" =>
          /\ reverse_mask = Pow2[IF HostBits < M THEN HostBits ELSE M - 1] - 1
          /\ HostBits < W => ~Fitting(HostBits + 1)

Rising(j) ==
    /\ start_ip % Pow2[j] = 0
    /\ ~WholeIPv6 => start_ip - first < Pow2[j]
    /\ Len(nets) <= j

Falling(j) ==
    /\ start_ip % Pow2[j] = 0
    /\ end_ip - start_ip + 1 < Pow2[j]
    /\ Len(nets) + j <= 2 * W

Phase == Ready => \E j \in 0..W : Rising(j) \/ Falling(j)

InOrder ==
    /\ \A i, j \in DOMAIN nets : i < j => nets[i].ip < nets[j].ip
    /\ Ready => \A i \in DOMAIN nets : nets[i].ip < start_ip

AllLargest == ~WholeIPv6 => \A i \in DOMAIN nets : nets[i] \in Largest

RangeInv ==
    /\ RangeTypes /\ CoversTheRange /\ Begun /\ Sizing /\ Phase
    /\ AtMostTwoPerBit /\ InOrder /\ AllLargest

\* The width of the tree's addresses is one a word has.
LEMMA WidthFacts ==
    ASSUME ip_version \in {4, 6}
    PROVE  /\ M \in Nat /\ W \in 1..M /\ M >= 2 /\ W \in 0..M /\ 0 \in 0..W
           /\ ip_version = 6 <=> W = M
           /\ Pow2[W] \in Nat /\ Pow2[W] > 0 /\ Pow2[W] <= Pow2[M] /\ Pow2[M] \in Nat
           /\ \A x \in IP : x \in Nat /\ x < Pow2[W]
<1>1. M \in Nat /\ W \in 1..M /\ M >= 2 /\ W \in 0..M /\ 0 \in 0..W /\ M \in 0..M
      /\ (ip_version = 6 <=> W = M)
  BY WidthAssumption DEF W
<1>2. /\ Pow2[W] \in Nat /\ Pow2[W] > 0 /\ Pow2[M] \in Nat
      /\ Pow2[W] <= Pow2[M]
  BY <1>1, Pow2Facts, Pow2Grows
<1> QED BY <1>1, <1>2 DEF IP

\* At the start.
LEMMA InitRange == Init => RangeInv
<1> SUFFICES ASSUME Init PROVE RangeInv
  OBVIOUS
<1> USE DEF Init
<1>1. /\ W \in 1..M /\ 0 \in 0..M /\ 0 \in 0..W /\ HostBits = 0 /\ prefix_length = W
      /\ first \in 0..(Pow2[M] - 1) /\ end_ip \in Nat
  BY WidthFacts DEF HostBits, IP
<1>2. Pow2[0] = 1 /\ Pow2[1] = 2
  <2>1. 0 \in 0..(M - 1) /\ 0 + 1 = 1
    BY <1>1, WidthFacts
  <2> QED BY <2>1, Pow2Facts
<1>3. first % 1 = 0
  BY <1>1
<1>4. nets = << >> /\ nets \in Seq(Network) /\ Len(nets) = 0 /\ DOMAIN nets = {}
  OBVIOUS
<1>5. RangeTypes
  BY <1>1, <1>4, WidthFacts DEF RangeTypes
<1>6. CoversTheRange
  BY <1>4 DEF CoversTheRange
<1>7. Begun
  BY <1>1, WidthFacts DEF Begun, Ready
<1>8. Sizing
  BY <1>1, <1>2, <1>3, WidthFacts DEF Sizing, Fitting, Ready
<1>9. Phase
  <2>1. Rising(0)
    BY <1>1, <1>2, <1>3, <1>4 DEF Rising
  <2> QED BY <1>1, <2>1 DEF Phase
<1>10. AtMostTwoPerBit /\ InOrder /\ AllLargest
  BY <1>1, <1>4 DEF AtMostTwoPerBit, InOrder, AllLargest
<1> QED BY <1>5, <1>6, <1>7, <1>8, <1>9, <1>10 DEF RangeInv

\* A step that inserts nothing leaves all that speaks of the networks alone.
LEMMA SameNetworks ==
    ASSUME RangeInv, Ready,
           UNCHANGED <<ip_version, first, end_ip, start_ip, nets>>,
           prefix_length' \in 0..W, pc' \in {"size", "insert", "croaked"}
    PROVE  /\ (RangeTypes /\ CoversTheRange /\ Begun /\ Phase)'
           /\ (AtMostTwoPerBit /\ InOrder /\ AllLargest)'
<1>1. W' = W /\ IP' = IP /\ Network' = Network
  BY DEF W, IP, Network
<1>2. RangeTypes'
  BY <1>1 DEF RangeInv, RangeTypes
<1>3. \A n : Size(n)' = Size(n)
  BY <1>1 DEF Size
<1>4. Covered' = Covered /\ \A n : Aligned(n)' = Aligned(n) /\ InRange(n)' = InRange(n)
  BY <1>3 DEF Covered, Addresses, Aligned, InRange
<1>5. CoversTheRange'
  BY <1>1, <1>4 DEF RangeInv, CoversTheRange, Ready
<1>6. WholeIPv6' = WholeIPv6 /\ Largest' = Largest
  BY <1>1, <1>3, <1>4 DEF WholeIPv6, Largest
<1>7. Begun' /\ InOrder'
  BY DEF RangeInv, Begun, InOrder, Ready
<1>8. Phase'
  <2>1. \A j : Rising(j)' = Rising(j) /\ Falling(j)' = Falling(j)
    BY <1>1, <1>6 DEF Rising, Falling
  <2> QED BY <1>1, <2>1 DEF RangeInv, Phase
<1>9. AtMostTwoPerBit' /\ AllLargest'
  BY <1>1, <1>6 DEF RangeInv, AtMostTwoPerBit, AllLargest
<1> QED BY <1>2, <1>5, <1>7, <1>8, <1>9

\* Sizing doubles the network while it fits ...
LEMMA GrowKeepsInv == RangeInv /\ Grow => RangeInv'
<1> SUFFICES ASSUME RangeInv, Grow PROVE RangeInv'
  OBVIOUS
<1> USE DEF Grow
<1> DEFINE k == HostBits
<1>1. /\ W \in 0..M /\ M \in Nat /\ prefix_length \in 1..W /\ k \in 0..(W - 1) /\ k \in 0..(M - 1)
      /\ k = W - prefix_length /\ start_ip \in Nat /\ end_ip \in Nat
  BY WidthFacts DEF RangeInv, RangeTypes, Fits, HostBits, IP
<1>2. /\ HostBits' = k + 1 /\ prefix_length' \in 0..W /\ k + 1 \in 0..M
      /\ W' = W
  <2>1. W' = W /\ HostBits' = W' - prefix_length'
    BY DEF HostBits, W
  <2> HIDE DEF k
  <2> QED BY <1>1, <2>1
<1> HIDE DEF k
<1>3. reverse_mask = Pow2[k + 1] - 1 /\ Pow2[k + 1] \in Nat /\ Pow2[k + 1] > 0
  <2>1. reverse_mask = Pow2[k + 1] - 1
    BY <1>1 DEF RangeInv, Sizing, k
  <2> QED BY <1>2, <2>1, Pow2Facts
<1>4. Fitting(k + 1)
  <2>1. reverse_mask + 1 = Pow2[k + 1]
    BY <1>3
  <2>2. start_ip % Pow2[k + 1] \in Int
    BY <1>1, <1>3, Block
  <2>3. /\ start_ip - (start_ip % (reverse_mask + 1)) = start_ip
        /\ start_ip - (start_ip % (reverse_mask + 1)) + reverse_mask <= end_ip
    BY DEF Fits, With, Without
  <2>4. /\ start_ip - (start_ip % Pow2[k + 1]) = start_ip
        /\ start_ip - (start_ip % Pow2[k + 1]) + reverse_mask <= end_ip
    BY <2>1, <2>3
  <2>5. start_ip % Pow2[k + 1] = 0
    BY <1>1, <2>2, <2>4
  <2>6. start_ip + Pow2[k + 1] - 1 <= end_ip
    BY <1>1, <1>3, <2>4, <2>5
  <2> QED BY <2>5, <2>6 DEF Fitting
<1>5. reverse_mask' = Pow2[IF k + 1 < M THEN k + 2 ELSE M] - 1
  <2>1. reverse_mask' = (2 * Pow2[k + 1] - 1) % Pow2[M]
    BY <1>3 DEF Widen
  <2>2. CASE k + 1 < M
    <3>1. k + 1 \in 0..(M - 1) /\ (k + 1) + 1 = k + 2 /\ k + 2 \in 0..M /\ M \in 0..M /\ k + 2 <= M
      BY <1>1, <2>2
    <3>2. Pow2[k + 2] = 2 * Pow2[k + 1] /\ Pow2[k + 2] <= Pow2[M] /\ Pow2[M] \in Nat
      BY <3>1, Pow2Facts, Pow2Grows
    <3>3. 2 * Pow2[k + 1] - 1 \in 0..(Pow2[M] - 1)
      BY <1>3, <3>2
    <3>4. \A a, x \in Nat : x < a => x % a = x
      OBVIOUS
    <3>5. reverse_mask' = 2 * Pow2[k + 1] - 1
      BY <1>3, <2>1, <3>2, <3>3, <3>4
    <3> QED BY <2>2, <3>2, <3>5
  <2>3. CASE k + 1 = M
    <3>1. \A a \in Nat : a > 0 => (2 * a - 1) % a = a - 1
      OBVIOUS
    <3>2. reverse_mask' = Pow2[M] - 1
      BY <1>3, <2>1, <2>3, <3>1
    <3>3. ~(k + 1 < M)
      BY <1>1, <2>3
    <3> QED BY <3>2, <3>3
  <2> QED BY <1>1, <2>2, <2>3
<1>6. Sizing'
  <2>1. Fitting(HostBits)'
    BY <1>2, <1>4 DEF Fitting
  <2>2. k + 2 = (k + 1) + 1
    BY <1>1
  <2> QED BY <1>2, <1>5, <2>1, <2>2 DEF Sizing
<1>7. Ready /\ pc' = "size"
  BY DEF Ready
<1> QED BY <1>2, <1>6, <1>7, SameNetworks DEF RangeInv

\* ... and ends with a network that cannot be doubled.
LEMMA SizedKeepsInv == RangeInv /\ Sized => RangeInv'
<1> SUFFICES ASSUME RangeInv, Sized PROVE RangeInv'
  OBVIOUS
<1> USE DEF Sized
<1> DEFINE k == HostBits
<1>1. /\ W \in 0..M /\ M \in Nat /\ M >= 2 /\ prefix_length \in 0..W /\ k \in 0..W
      /\ prefix_length = W - k /\ start_ip \in Nat /\ end_ip \in Nat
  BY WidthFacts DEF RangeInv, RangeTypes, HostBits, IP
<1>2. HostBits' = k /\ prefix_length' \in 0..W /\ W' = W
  BY <1>1 DEF HostBits, W
<1>3. Fitting(k) /\ reverse_mask = Pow2[IF k < M THEN k + 1 ELSE M] - 1
  BY DEF RangeInv, Sizing, Ready
<1> HIDE DEF k
<1>4. reverse_mask' = Pow2[IF k < M THEN k ELSE M - 1] - 1
  <2> DEFINE h == IF k < M THEN k ELSE M - 1
  <2>1. h \in 0..(M - 1) /\ h \in 0..M /\ (h + 1 = IF k < M THEN k + 1 ELSE M)
    BY <1>1
  <2> HIDE DEF h
  <2>2. Pow2[h] \in Nat /\ Pow2[h] > 0 /\ reverse_mask = 2 * Pow2[h] - 1
    BY <1>3, <2>1, Pow2Facts
  <2>3. \A a \in Nat : a > 0 => (2 * a - 1) \div 2 = a - 1
    OBVIOUS
  <2>4. reverse_mask' = Pow2[h] - 1
    BY <2>2, <2>3 DEF Narrow
  <2> QED BY <2>4 DEF h
<1>5. ASSUME k < W PROVE ~Fitting(k + 1)
  <2>1. k < M /\ k + 1 \in 0..M /\ prefix_length > 0
    BY <1>1, <1>5
  <2>2. reverse_mask = Pow2[k + 1] - 1 /\ Pow2[k + 1] \in Nat /\ Pow2[k + 1] > 0
    BY <1>3, <2>1, Pow2Facts
  <2>3. reverse_mask + 1 = Pow2[k + 1]
    BY <2>2
  <2>4. ~(/\ start_ip - (start_ip % Pow2[k + 1]) = start_ip
          /\ start_ip - (start_ip % Pow2[k + 1]) + reverse_mask <= end_ip)
    BY <2>1, <2>3 DEF Fits, With, Without
  <2> QED BY <1>1, <2>2, <2>4 DEF Fitting
<1>6. Sizing'
  <2>1. Fitting(HostBits)' /\ Fitting(HostBits + 1)' = Fitting(k + 1)
    BY <1>2, <1>3 DEF Fitting
  <2> QED BY <1>2, <1>4, <1>5, <2>1 DEF Sizing
<1>7. Ready /\ pc' = "insert"
  BY DEF Ready
<1> QED BY <1>2, <1>6, <1>7, SameNetworks DEF RangeInv

\* A network that is refused ends the call with what was inserted before.
LEMMA FailureKeepsInv == RangeInv /\ InsertFails => RangeInv'
<1> SUFFICES ASSUME RangeInv, InsertFails PROVE RangeInv'
  OBVIOUS
<1>1. Ready /\ pc' = "croaked" /\ prefix_length' \in 0..W
  BY DEF InsertFails, Ready, RangeInv, RangeTypes
<1>2. Sizing'
  BY <1>1 DEF Sizing, Ready
<1> QED BY <1>1, <1>2, SameNetworks DEF RangeInv, InsertFails

-----------------------------------------------------------------------------
(* A network is inserted *)

\* The network that goes in.
Reached == [ip |-> start_ip, prefix_length |-> prefix_length]

\* It is a network of the range that begins where the loop is.
LEMMA NetworkFacts ==
    ASSUME RangeInv, pc = "insert"
    PROVE  /\ HostBits \in 0..W /\ HostBits \in 0..M /\ prefix_length = W - HostBits
           /\ Pow2[HostBits] \in Nat /\ Pow2[HostBits] > 0
           /\ start_ip \in Nat /\ end_ip \in Nat /\ end_ip < Pow2[W] /\ first \in Nat
           /\ start_ip % Pow2[HostBits] = 0
           /\ start_ip + Pow2[HostBits] - 1 <= end_ip
           /\ first <= start_ip /\ start_ip <= end_ip
           /\ Reached \in Network /\ Size(Reached) = Pow2[HostBits]
           /\ Aligned(Reached) /\ InRange(Reached)
           /\ Addresses(Reached) = start_ip..(start_ip + Pow2[HostBits] - 1)
<1> DEFINE k == HostBits
<1>1. /\ k \in 0..W /\ W \in 0..M /\ k \in 0..M /\ prefix_length = W - k
      /\ prefix_length \in 0..W /\ start_ip \in Nat /\ end_ip \in Nat /\ first \in Nat
      /\ end_ip < Pow2[W] /\ Pow2[W] \in Nat /\ W - prefix_length = k
  BY WidthFacts DEF RangeInv, RangeTypes, HostBits, IP
<1>2. Pow2[k] \in Nat /\ Pow2[k] > 0
  BY <1>1, Pow2Facts
<1>3. start_ip % Pow2[k] = 0 /\ start_ip + Pow2[k] - 1 <= end_ip
  BY DEF RangeInv, Sizing, Ready, Fitting
<1>4. first <= start_ip /\ start_ip <= end_ip
  BY <1>1 DEF RangeInv, Begun, CoversTheRange, Ready
<1>5. Reached \in Network /\ Reached.ip = start_ip /\ Size(Reached) = Pow2[k]
  BY <1>1, <1>4 DEF Reached, Network, Size, IP
<1> QED BY <1>1, <1>2, <1>3, <1>4, <1>5 DEF Aligned, InRange, Addresses

\* Where the next one begins, but for the whole of IPv6 ...
LEMMA NextStartFacts ==
    ASSUME RangeInv, pc = "insert", HostBits < M
    PROVE  LET after == start_ip + Pow2[HostBits]
           IN  /\ AtEnd <=> after = end_ip + 1
               /\ ~AtEnd => NextStart = after
               /\ NextStart \in 0..(Pow2[M] - 1)
<1> DEFINE P == Pow2[HostBits]
<1>1. P \in Nat /\ P > 0 /\ start_ip \in Nat /\ start_ip % P = 0 /\ end_ip \in Nat
      /\ start_ip + P - 1 <= end_ip /\ end_ip < Pow2[W]
  BY NetworkFacts
<1>2. Pow2[W] <= Pow2[M] /\ Pow2[W] \in Nat /\ Pow2[M] \in Nat
  BY WidthFacts DEF RangeInv, RangeTypes
<1>3. reverse_mask = P - 1
  BY DEF RangeInv, Sizing
<1> HIDE DEF P
<1>4. With(start_ip, reverse_mask) + 1 = start_ip + P
  <2>1. reverse_mask + 1 = P
    BY <1>1, <1>3
  <2>2. With(start_ip, reverse_mask) = start_ip - (start_ip % P) + reverse_mask
    BY <2>1 DEF With, Without
  <2> QED BY <1>1, <1>3, <2>2
<1>5. start_ip + P \in Nat /\ start_ip + P <= Pow2[M] /\ start_ip + P > 0
  BY <1>1, <1>2
<1>6. \A x, a \in Nat : x <= a /\ a > 0 => x % a = IF x = a THEN 0 ELSE x
  OBVIOUS
<1>7. NextStart = IF start_ip + P = Pow2[M] THEN 0 ELSE start_ip + P
  BY <1>2, <1>4, <1>5, <1>6 DEF NextStart
<1>8. /\ AtEnd <=> start_ip + P = end_ip + 1
      /\ ~AtEnd => NextStart = start_ip + P
  <2>1. CASE start_ip + P = Pow2[M]
    BY <1>1, <1>2, <1>7, <2>1 DEF AtEnd
  <2>2. CASE start_ip + P # Pow2[M]
    BY <1>1, <1>2, <1>5, <1>7, <2>2 DEF AtEnd
  <2> QED BY <2>1, <2>2
<1>9. NextStart \in 0..(Pow2[M] - 1)
  BY <1>2, <1>5, <1>7
<1> QED BY <1>8, <1>9 DEF P

\* ... of which the lower half is done.
LEMMA WholeFacts ==
    ASSUME RangeInv, pc = "insert", HostBits = M
    PROVE  /\ WholeIPv6 /\ W = M /\ M - 1 \in 0..W /\ M >= 2 /\ nets = << >>
           /\ first = 0 /\ start_ip = 0 /\ end_ip = Pow2[M] - 1
           /\ Pow2[M - 1] \in Nat /\ Pow2[M - 1] > 0 /\ Pow2[M] = 2 * Pow2[M - 1]
           /\ NextStart = Pow2[M - 1] /\ ~AtEnd
<1>1. W = M /\ M \in Nat /\ M >= 2 /\ M - 1 \in 0..W /\ M - 1 \in 0..(M - 1) /\ ip_version = 6
      /\ Pow2[M] \in Nat
  <2>1. HostBits \in 0..W /\ M \in Nat /\ W \in 1..M /\ M >= 2 /\ (ip_version = 6 <=> W = M)
        /\ Pow2[M] \in Nat
    BY NetworkFacts, WidthFacts DEF RangeInv, RangeTypes
  <2> QED BY <2>1
<1>2. Pow2[M - 1] \in Nat /\ Pow2[M - 1] > 0 /\ Pow2[M] = 2 * Pow2[M - 1]
  <2>1. (M - 1) + 1 = M /\ M - 1 \in 0..M
    BY <1>1
  <2> QED BY <1>1, <2>1, Pow2Facts
<1>3. start_ip = 0 /\ first = 0 /\ end_ip = Pow2[M] - 1
  <2>1. start_ip < Pow2[M] /\ start_ip \in Nat /\ first \in Nat /\ first <= start_ip
        /\ start_ip % Pow2[M] = 0 /\ start_ip + Pow2[M] - 1 <= end_ip /\ end_ip \in Nat
        /\ end_ip < Pow2[M]
    BY <1>1, NetworkFacts
  <2>2. Pow2[M] > 0
    BY <1>2
  <2>3. start_ip = 0
    BY <1>1, <2>1, <2>2, Double
  <2> QED BY <1>1, <2>1, <2>3
<1>4. nets = << >>
  BY <1>3 DEF RangeInv, CoversTheRange
<1>5. reverse_mask = Pow2[M - 1] - 1
  BY <1>1 DEF RangeInv, Sizing
<1>6. NextStart = Pow2[M - 1]
  <2>1. reverse_mask + 1 = Pow2[M - 1]
    BY <1>2, <1>5
  <2>2. 0 % Pow2[M - 1] = 0
    BY <1>2
  <2>3. With(start_ip, reverse_mask) + 1 = Pow2[M - 1]
    BY <1>2, <1>3, <1>5, <2>1, <2>2 DEF With, Without
  <2>4. \A a \in Nat : a > 0 => a % (2 * a) = a
    OBVIOUS
  <2> QED BY <1>2, <2>3, <2>4 DEF NextStart
<1> QED BY <1>1, <1>2, <1>3, <1>4, <1>6 DEF WholeIPv6, AtEnd

\* Why the network is not twice as large: it begins in the middle of one that
\* is, the other half of which is before the range, or the range ends before.
LEMMA WhyNotTwice ==
    ASSUME RangeInv, pc = "insert", HostBits < W
    PROVE  LET k == HostBits
           IN  /\ k + 1 \in 0..M /\ k \in 0..M /\ Pow2[k + 1] = 2 * Pow2[k]
               /\ \/ /\ start_ip % Pow2[k + 1] # 0
                     /\ ~WholeIPv6 => start_ip - first < Pow2[k]
                     /\ Len(nets) <= k
                  \/ /\ start_ip % Pow2[k + 1] = 0
                     /\ start_ip + Pow2[k + 1] - 1 > end_ip
                     /\ Len(nets) + k + 1 <= 2 * W
<1> DEFINE k == HostBits
<1>1. /\ k \in 0..W /\ k \in 0..M /\ W \in 1..M /\ M \in Nat /\ start_ip \in Nat /\ first \in Nat
      /\ end_ip \in Nat /\ Pow2[k] \in Nat /\ start_ip + Pow2[k] - 1 <= end_ip
      /\ Len(nets) \in Nat
  BY NetworkFacts, WidthFacts DEF RangeInv, RangeTypes
<1>2. ~Fitting(k + 1)
  BY DEF RangeInv, Sizing
<1>3. PICK j \in 0..W : Rising(j) \/ Falling(j)
  BY DEF RangeInv, Phase, Ready
<1> HIDE DEF k
<1>4. k < W /\ k + 1 \in 0..M /\ Pow2[k + 1] = 2 * Pow2[k] /\ k \in 0..(M - 1) /\ j \in 0..M
  <2>1. k < W
    BY DEF k
  <2>2. k \in 0..(M - 1) /\ k + 1 \in 0..M
    BY <1>1, <2>1
  <2> QED BY <1>1, <1>3, <2>1, <2>2, Pow2Facts
<1>5. start_ip % Pow2[j] = 0
  BY <1>3 DEF Rising, Falling
<1>6. ASSUME start_ip % Pow2[k + 1] # 0
      PROVE  (~WholeIPv6 => start_ip - first < Pow2[k]) /\ Len(nets) <= k
  <2>1. j <= k
    <3> SUFFICES ASSUME k + 1 <= j PROVE FALSE
      BY <1>1, <1>3
    <3> QED BY <1>1, <1>4, <1>5, <1>6, Pow2Aligned
  <2>2. Pow2[j] <= Pow2[k] /\ Pow2[j] \in Nat
    BY <1>1, <1>4, <2>1, Pow2Grows, Pow2Facts
  <2>3. ~Falling(j)
    BY <1>1, <2>2 DEF Falling
  <2> QED BY <1>1, <1>3, <1>6, <2>1, <2>2, <2>3 DEF Rising
<1>7. ASSUME start_ip % Pow2[k + 1] = 0
      PROVE  start_ip + Pow2[k + 1] - 1 > end_ip /\ Len(nets) + k + 1 <= 2 * W
  <2>1. start_ip + Pow2[k + 1] - 1 > end_ip
    BY <1>1, <1>2, <1>4, <1>7 DEF Fitting
  <2>2. CASE Rising(j)
    <3>1. Len(nets) + k + 1 <= 2 * W
      BY <1>1, <1>3, <1>4, <2>2 DEF Rising
    <3> QED BY <2>1, <3>1
  <2>3. CASE Falling(j)
    <3>1. k + 1 <= j
      <4> SUFFICES ASSUME j <= k PROVE FALSE
        BY <1>1, <1>3
      <4>1. Pow2[j] <= Pow2[k] /\ Pow2[j] \in Nat
        BY <1>1, <1>4, Pow2Grows, Pow2Facts
      <4> QED BY <1>1, <2>3, <4>1 DEF Falling
    <3>2. Len(nets) + k + 1 <= 2 * W
      BY <1>1, <1>3, <2>3, <3>1 DEF Falling
    <3> QED BY <2>1, <3>2
  <2> QED BY <1>3, <2>2, <2>3
<1> QED BY <1>1, <1>4, <1>6, <1>7 DEF k

\* So it is one of the largest in the range.
LEMMA LargestGoesIn ==
    ASSUME RangeInv, pc = "insert", ~WholeIPv6
    PROVE  Reached \in Largest
<1> DEFINE P == Pow2[HostBits]
           parent == [ip |-> start_ip - (start_ip % (2 * P)), prefix_length |-> prefix_length - 1]
<1>1. /\ Reached \in Network /\ Size(Reached) = P /\ InRange(Reached) /\ start_ip \in Nat
      /\ start_ip % P = 0 /\ P \in Nat /\ P > 0 /\ first \in Nat /\ end_ip \in Nat
      /\ prefix_length = W - HostBits /\ HostBits \in 0..W /\ W \in Nat
  BY NetworkFacts, WidthFacts DEF RangeInv, RangeTypes
<1>2. ASSUME prefix_length > 0 PROVE ~InRange(parent)
  <2>1. HostBits < W /\ W - (prefix_length - 1) = HostBits + 1
    BY <1>1, <1>2
  <2>2. Pow2[HostBits + 1] = 2 * P
    BY <2>1, WhyNotTwice
  <2>3. Size(parent) = 2 * P
    BY <2>1, <2>2 DEF Size
  <2>4. CASE start_ip % (2 * P) # 0
    <3>1. start_ip - first < P
      BY <2>1, <2>2, <2>4, WhyNotTwice
    <3>2. start_ip % (2 * P) = P
      BY <1>1, <2>4, Double
    <3> HIDE DEF P
    <3>3. parent.ip < first
      BY <1>1, <3>1, <3>2
    <3> QED BY <1>1, <3>2, <3>3 DEF InRange
  <2>5. CASE start_ip % (2 * P) = 0
    <3>1. start_ip + 2 * P - 1 > end_ip
      BY <2>1, <2>2, <2>5, WhyNotTwice
    <3> HIDE DEF P
    <3>2. parent.ip = start_ip
      BY <1>1, <2>5
    <3> QED BY <1>1, <2>3, <3>1, <3>2 DEF InRange
  <2> QED BY <2>4, <2>5
<1> HIDE DEF P
<1>3. Reached.prefix_length = prefix_length /\ Reached.ip = start_ip
  BY DEF Reached
<1> QED BY <1>1, <1>2, <1>3 DEF Largest

\* What the new list of networks is made of.
LEMMA Appended ==
    ASSUME RangeInv, Insert
    PROVE  /\ Reached \in Network /\ nets' = Append(nets, Reached) /\ nets' \in Seq(Network)
           /\ Len(nets) \in Nat /\ Len(nets') = Len(nets) + 1
           /\ DOMAIN nets = 1..Len(nets) /\ DOMAIN nets' = 1..(Len(nets) + 1)
           /\ \A i \in DOMAIN nets : i \in DOMAIN nets' /\ nets'[i] = nets[i]
           /\ nets'[Len(nets) + 1] = Reached /\ Len(nets) + 1 \in DOMAIN nets'
           /\ \A i \in DOMAIN nets' : i \in DOMAIN nets \/ i = Len(nets) + 1
           /\ nets # << >> <=> Len(nets) > 0
           /\ nets' # << >>
           /\ Covered' = Covered \cup Addresses(Reached)
<1>1. Reached \in Network /\ nets' = Append(nets, Reached) /\ nets \in Seq(Network)
  BY NetworkFacts DEF Insert, Reached, RangeInv, RangeTypes
<1>2. /\ nets' \in Seq(Network) /\ Len(nets) \in Nat /\ Len(nets') = Len(nets) + 1
      /\ DOMAIN nets = 1..Len(nets) /\ DOMAIN nets' = 1..(Len(nets) + 1)
      /\ \A i \in 1..Len(nets) : nets'[i] = nets[i]
      /\ nets'[Len(nets) + 1] = Reached
      /\ nets # << >> <=> Len(nets) > 0
      /\ nets' # << >>
  BY <1>1
<1>3. /\ \A i \in DOMAIN nets : i \in DOMAIN nets' /\ nets'[i] = nets[i]
      /\ Len(nets) + 1 \in DOMAIN nets'
      /\ \A i \in DOMAIN nets' : i \in DOMAIN nets \/ i = Len(nets) + 1
  BY <1>2
<1>4. \A n : Addresses(n)' = Addresses(n)
  BY DEF Addresses, Size, W, Insert
<1>5. Covered' = UNION {Addresses(nets'[i]) : i \in DOMAIN nets'}
  BY <1>4 DEF Covered
<1>6. Covered' \subseteq Covered \cup Addresses(Reached)
  BY <1>2, <1>3, <1>5 DEF Covered
<1>7. Covered \cup Addresses(Reached) \subseteq Covered'
  BY <1>2, <1>3, <1>5 DEF Covered
<1> QED BY <1>1, <1>2, <1>3, <1>6, <1>7

\* The range covered so far ends where the network inserted does.
LEMMA InsertCovers ==
    ASSUME RangeInv, Insert
    PROVE  CoversTheRange' /\ Begun'
<1> DEFINE after == start_ip + Pow2[HostBits]
<1>1. pc = "insert" /\ UNCHANGED <<ip_version, first, end_ip>>
      /\ pc' = (IF AtEnd THEN "done" ELSE "size") /\ start_ip' = NextStart
  BY DEF Insert
<1>2. /\ start_ip \in Nat /\ end_ip \in Nat /\ first \in Nat /\ after \in Nat
      /\ after > start_ip /\ after <= end_ip + 1 /\ first <= start_ip
      /\ Addresses(Reached) = start_ip..(after - 1) /\ Aligned(Reached)
      /\ HostBits \in 0..M
  BY <1>1, NetworkFacts
<1> HIDE DEF after
<1>3. first..(start_ip - 1) \subseteq Covered /\ Covered \subseteq first..end_ip
  <2>1. CASE nets = << >>
    <3>1. start_ip = first
      BY <2>1 DEF RangeInv, Begun
    <3>2. Covered = {}
      BY <2>1 DEF Covered
    <3> QED BY <1>2, <3>1, <3>2
  <2>2. CASE nets # << >>
    BY <1>1, <2>2 DEF RangeInv, CoversTheRange
  <2> QED BY <2>1, <2>2
<1>4. /\ Covered' = Covered \cup start_ip..(after - 1)
      /\ Covered' \subseteq first..end_ip
      /\ first..(after - 1) \subseteq Covered'
  <2>1. Covered' = Covered \cup start_ip..(after - 1)
    BY <1>2, Appended
  <2>2. start_ip..(after - 1) \subseteq first..end_ip
    BY <1>2
  <2>3. \A x \in first..(after - 1) : x \in first..(start_ip - 1) \/ x \in start_ip..(after - 1)
    BY <1>2
  <2> QED BY <1>3, <2>1, <2>2, <2>3
<1>5. (\A i \in DOMAIN nets : nets[i] \in Network /\ Aligned(nets[i]))'
  <2>1. Network' = Network /\ W' = W
    BY <1>1 DEF Network, IP, W
  <2>2. \A i \in DOMAIN nets : nets[i] \in Network /\ Aligned(nets[i])
    BY DEF RangeInv, CoversTheRange
  <2>3. \A i \in DOMAIN nets' : nets'[i] \in Network /\ Aligned(nets'[i])
    BY <1>2, <2>2, Appended
  <2> QED BY <2>1, <2>3 DEF Aligned, Size
<1>6. CASE HostBits < M
  <2>1. /\ AtEnd <=> after = end_ip + 1
        /\ ~AtEnd => NextStart = after
    BY <1>1, <1>6, NextStartFacts DEF after
  <2>2. CASE AtEnd
    <3>1. Covered' = first..end_ip
      <4>1. after - 1 = end_ip
        BY <1>2, <2>1, <2>2
      <4> QED BY <1>4, <4>1
    <3> QED BY <1>1, <1>5, <2>2, <3>1, Appended DEF CoversTheRange, Begun, Ready
  <2>3. CASE ~AtEnd
    <3>1. start_ip' = after /\ after \in (first + 1)..end_ip
      BY <1>1, <1>2, <2>1, <2>3
    <3> QED BY <1>1, <1>2, <1>4, <1>5, <2>3, <3>1, Appended DEF CoversTheRange, Begun, Ready
  <2> QED BY <2>2, <2>3
<1>7. CASE HostBits = M
  <2>1. /\ first = 0 /\ start_ip = 0 /\ end_ip = Pow2[M] - 1 /\ ~AtEnd
        /\ Pow2[M - 1] \in Nat /\ Pow2[M - 1] > 0 /\ Pow2[M] = 2 * Pow2[M - 1]
        /\ NextStart = Pow2[M - 1]
    BY <1>1, <1>7, WholeFacts
  <2>2. after = Pow2[M]
    BY <1>7, <2>1 DEF after
  <2>3. start_ip' \in (first + 1)..end_ip /\ start_ip' <= after /\ start_ip' \in Nat
    BY <1>1, <2>1, <2>2
  <2>4. first..(start_ip' - 1) \subseteq Covered'
    <3>1. \A a, b, c \in Nat : b <= c => a..(b - 1) \subseteq a..(c - 1)
      OBVIOUS
    <3> QED BY <1>2, <1>4, <2>3, <3>1
  <2> QED BY <1>1, <1>2, <1>4, <1>5, <2>1, <2>3, <2>4, Appended DEF CoversTheRange, Begun, Ready
<1>8. M \in Nat
  BY WidthAssumption
<1> QED BY <1>2, <1>6, <1>7, <1>8

\* The networks still to come grow, or what is left is too short for that.
LEMMA InsertPhase ==
    ASSUME RangeInv, Insert
    PROVE  Phase' /\ AtMostTwoPerBit'
<1>0. PICK k \in 0..W : HostBits = k
  BY NetworkFacts DEF Insert
<1> DEFINE P == Pow2[k]
<1>1. pc = "insert" /\ UNCHANGED <<ip_version, first, end_ip>>
      /\ pc' = (IF AtEnd THEN "done" ELSE "size") /\ start_ip' = NextStart
      /\ W' = W /\ WholeIPv6' = WholeIPv6
  BY DEF Insert, W, WholeIPv6
<1>2. /\ start_ip \in Nat /\ end_ip \in Nat /\ first \in Nat /\ P \in Nat /\ P > 0
      /\ start_ip % P = 0 /\ start_ip + P - 1 <= end_ip /\ end_ip < Pow2[W]
      /\ k \in 0..W /\ k \in 0..M /\ M \in Nat /\ W \in 1..M
      /\ Len(nets) \in Nat /\ Len(nets') = Len(nets) + 1
  BY <1>0, <1>1, NetworkFacts, Appended, WidthFacts DEF RangeInv, RangeTypes
<1>3. (start_ip + P) % P = 0
  BY <1>2, Double
<1> HIDE DEF P
<1>4. AtMostTwoPerBit'
  <2>1. PICK j \in 0..W : Rising(j) \/ Falling(j)
    BY <1>1 DEF RangeInv, Phase, Ready
  <2>2. CASE Rising(j)
    BY <1>1, <1>2, <2>1, <2>2 DEF Rising, AtMostTwoPerBit
  <2>3. CASE Falling(j)
    <3>1. j # 0
      BY <1>2, <2>3, Pow2Facts DEF Falling
    <3> QED BY <1>1, <1>2, <2>1, <2>3, <3>1 DEF Falling, AtMostTwoPerBit
  <2> QED BY <2>1, <2>2, <2>3
<1>5. ASSUME ~AtEnd PROVE \E j \in 0..W : (Rising(j) \/ Falling(j))'
  <2>1. CASE k < W
    <3>1. start_ip' = start_ip + P
      BY <1>0, <1>1, <1>2, <1>5, <2>1, NextStartFacts DEF P
    <3>2. k + 1 \in 0..W /\ Pow2[k + 1] = 2 * P
      BY <1>0, <1>1, <1>2, <2>1, WhyNotTwice DEF P
    <3>3. CASE start_ip % Pow2[k + 1] # 0
      <4>1. (~WholeIPv6 => start_ip - first < P) /\ Len(nets) <= k
        BY <1>0, <1>1, <2>1, <3>3, WhyNotTwice DEF P
      <4>2. (start_ip + P) % Pow2[k + 1] = 0
        <5>1. start_ip % (2 * P) # 0
          BY <3>2, <3>3
        <5>2. (start_ip + P) % (2 * P) = 0
          BY <1>2, <5>1, Double
        <5> QED BY <3>2, <5>2
      <4>3. Rising(k + 1)'
        BY <1>1, <1>2, <3>1, <3>2, <4>1, <4>2 DEF Rising
      <4> QED BY <3>2, <4>3
    <3>4. CASE start_ip % Pow2[k + 1] = 0
      <4>1. start_ip + Pow2[k + 1] - 1 > end_ip /\ Len(nets) + k + 1 <= 2 * W
        BY <1>0, <1>1, <2>1, <3>4, WhyNotTwice
      <4>2. end_ip - (start_ip + P) + 1 < P
        BY <1>2, <3>2, <4>1
      <4>3. (Len(nets) + 1) + k <= 2 * W
        BY <1>2, <4>1
      <4>4. Falling(k)'
        BY <1>1, <1>2, <1>3, <3>1, <4>2, <4>3 DEF Falling, P
      <4> QED BY <1>2, <4>4
    <3> QED BY <3>3, <3>4
  <2>2. CASE k = W /\ W < M
    <3>1. start_ip = 0
      BY <1>2, <2>2, Double DEF P
    <3>2. start_ip + P = end_ip + 1
      BY <1>2, <2>2, <3>1 DEF P
    <3> QED BY <1>0, <1>1, <1>5, <2>2, <3>2, NextStartFacts DEF P
  <2>3. CASE k = W /\ W = M
    <3>1. /\ M - 1 \in 0..W /\ M >= 2 /\ nets = << >> /\ WholeIPv6
          /\ Pow2[M - 1] \in Nat /\ Pow2[M - 1] > 0 /\ NextStart = Pow2[M - 1]
      BY <1>0, <1>1, <2>3, WholeFacts
    <3>2. \A a \in Nat : a > 0 => a % a = 0
      OBVIOUS
    <3>3. start_ip' % Pow2[M - 1] = 0 /\ Len(nets') <= M - 1 /\ WholeIPv6'
      <4>1. Len(nets) = 0
        BY <3>1
      <4> QED BY <1>1, <1>2, <3>1, <3>2, <4>1
    <3>4. Rising(M - 1)'
      BY <3>3 DEF Rising
    <3> QED BY <3>1, <3>4
  <2> QED BY <1>2, <2>1, <2>2, <2>3
<1>6. Phase'
  BY <1>1, <1>5 DEF Phase, Ready
<1> QED BY <1>4, <1>6

\* The network inserted is behind the others, and the next one behind it.
LEMMA InsertInOrder ==
    ASSUME RangeInv, Insert
    PROVE  InOrder'
<1>1. pc = "insert" /\ pc' = (IF AtEnd THEN "done" ELSE "size") /\ start_ip' = NextStart
      /\ start_ip \in Nat /\ Reached.ip = start_ip
      /\ Pow2[HostBits] \in Nat /\ Pow2[HostBits] > 0
      /\ HostBits \in 0..M /\ M \in Nat
  BY NetworkFacts, WidthAssumption DEF Insert, Reached
<1>2. \A i \in DOMAIN nets : nets[i].ip < start_ip
  BY <1>1 DEF RangeInv, InOrder, Ready
<1>3. \A i, j \in DOMAIN nets' : i < j => i \in DOMAIN nets
  BY Appended
<1>4. ASSUME NEW i \in DOMAIN nets', NEW j \in DOMAIN nets', i < j
      PROVE  nets'[i].ip < nets'[j].ip
  <2>1. i \in DOMAIN nets /\ nets'[i] = nets[i]
    BY <1>3, <1>4, Appended
  <2>2. CASE j \in DOMAIN nets
    BY <1>4, <2>1, <2>2, Appended DEF RangeInv, InOrder
  <2>3. CASE j = Len(nets) + 1
    BY <1>1, <1>2, <2>1, <2>3, Appended
  <2> QED BY <2>2, <2>3, Appended
<1>5. ASSUME ~AtEnd PROVE NextStart > start_ip /\ NextStart \in Nat
  <2>1. CASE HostBits < M
    <3>1. NextStart = start_ip + Pow2[HostBits]
      BY <1>1, <1>5, <2>1, NextStartFacts
    <3> QED BY <1>1, <3>1
  <2>2. CASE HostBits = M
    BY <1>1, <2>2, WholeFacts
  <2> QED BY <1>1, <2>1, <2>2
<1>6. ASSUME Ready', NEW i \in DOMAIN nets' PROVE nets'[i].ip < start_ip'
  <2>1. ~AtEnd
    BY <1>1, <1>6 DEF Ready
  <2>2. start_ip' > start_ip /\ start_ip' \in Nat
    BY <1>1, <1>5, <2>1
  <2>3. CASE i \in DOMAIN nets
    <3>1. nets'[i] = nets[i] /\ nets[i].ip < start_ip /\ nets[i].ip \in Nat
      <4>1. nets[i] \in Network
        BY <2>3 DEF RangeInv, CoversTheRange
      <4>2. nets[i].ip \in Nat
        BY <4>1, WidthFacts DEF Network, RangeInv, RangeTypes
      <4> QED BY <1>2, <2>3, <4>2, Appended
    <3> QED BY <1>1, <2>2, <3>1
  <2>4. CASE i = Len(nets) + 1
    BY <1>1, <2>2, <2>4, Appended
  <2> QED BY <2>3, <2>4, Appended
<1> QED BY <1>4, <1>6 DEF InOrder

\* So the rest of the invariant is kept as well.
LEMMA InsertKeepsInv == RangeInv /\ Insert => RangeInv'
<1> SUFFICES ASSUME RangeInv, Insert PROVE RangeInv'
  OBVIOUS
<1>1. pc = "insert" /\ UNCHANGED <<ip_version, first, end_ip>>
      /\ pc' = (IF AtEnd THEN "done" ELSE "size") /\ start_ip' = NextStart
      /\ prefix_length' = W /\ reverse_mask' = 1
      /\ W' = W /\ IP' = IP /\ Network' = Network /\ WholeIPv6' = WholeIPv6
  BY DEF Insert, W, IP, Network, WholeIPv6
<1>2. W \in 1..M /\ W \in 0..M /\ M \in Nat /\ M >= 2 /\ HostBits' = 0 /\ HostBits \in 0..M
      /\ Pow2[0] = 1 /\ Pow2[1] = 2 /\ end_ip \in Nat
  <2>1. W \in 1..M /\ W \in 0..M /\ M \in Nat /\ M >= 2 /\ HostBits \in 0..M /\ end_ip \in Nat
    BY <1>1, WidthFacts, NetworkFacts DEF RangeInv, RangeTypes
  <2>2. HostBits' = 0
    BY <1>1, <2>1 DEF HostBits
  <2>3. Pow2[0] = 1 /\ Pow2[1] = 2
    <3>1. 0 \in 0..(M - 1) /\ 0 + 1 = 1
      BY <2>1
    <3> QED BY <3>1, Pow2Facts
  <2> QED BY <2>1, <2>2, <2>3
<1>3. NextStart \in 0..(Pow2[M] - 1)
  <2>1. CASE HostBits < M
    BY <1>1, <2>1, NextStartFacts
  <2>2. CASE HostBits = M
    <3>1. /\ Pow2[M - 1] \in Nat /\ Pow2[M - 1] > 0 /\ Pow2[M] = 2 * Pow2[M - 1]
          /\ NextStart = Pow2[M - 1]
      BY <1>1, <2>2, WholeFacts
    <3> QED BY <3>1
  <2> QED BY <1>2, <2>1, <2>2
<1>4. RangeTypes'
  BY <1>1, <1>2, <1>3, Appended DEF RangeInv, RangeTypes
<1>5. CoversTheRange' /\ Begun'
  BY InsertCovers
<1>6. Sizing'
  <2>1. Ready' => start_ip' \in Nat /\ start_ip' <= end_ip
    BY <1>1, <1>3, <1>5 DEF Begun
  <2>2. \A x \in Nat : x % 1 = 0
    OBVIOUS
  <2>3. Ready' => Fitting(HostBits)'
    BY <1>1, <1>2, <2>1, <2>2 DEF Fitting
  <2> QED BY <1>1, <1>2, <2>3 DEF Sizing
<1>7. AllLargest'
  <2>1. Largest' = Largest
    <3>1. \A n : Size(n)' = Size(n)
      BY <1>1 DEF Size
    <3>2. \A n : InRange(n)' = InRange(n)
      BY <1>1, <3>1 DEF InRange, Aligned
    <3> QED BY <1>1, <3>1, <3>2 DEF Largest
  <2>2. ~WholeIPv6 => Reached \in Largest
    BY <1>1, LargestGoesIn
  <2> QED BY <1>1, <2>1, <2>2, Appended DEF RangeInv, AllLargest
<1> QED BY <1>4, <1>5, <1>6, <1>7, InsertPhase, InsertInOrder DEF RangeInv

-----------------------------------------------------------------------------
(* The theorems *)

\* The invariant holds in every state.
LEMMA RangeInvAlways == Spec => []RangeInv
<1>1. RangeInv /\ [Next]_vars => RangeInv'
  <2> SUFFICES ASSUME RangeInv, [Next]_vars PROVE RangeInv'
    OBVIOUS
  <2>1. CASE Grow
    BY <2>1, GrowKeepsInv
  <2>2. CASE Sized
    BY <2>2, SizedKeepsInv
  <2>3. CASE Insert
    BY <2>3, InsertKeepsInv
  <2>4. CASE InsertFails
    BY <2>4, FailureKeepsInv
  <2>5. CASE UNCHANGED vars
    <3> USE <2>5 DEF vars
    <3>1. W' = W /\ IP' = IP /\ Network' = Network /\ WholeIPv6' = WholeIPv6
      BY DEF W, IP, Network, WholeIPv6
    <3>2. RangeTypes' /\ Begun' /\ InOrder' /\ AtMostTwoPerBit'
      BY <3>1 DEF RangeInv, RangeTypes, Begun, InOrder, AtMostTwoPerBit, Ready
    <3>3. /\ \A n : Size(n)' = Size(n) /\ Aligned(n)' = Aligned(n) /\ InRange(n)' = InRange(n)
          /\ Covered' = Covered
      BY <3>1 DEF Size, Aligned, InRange, Covered, Addresses
    <3>4. CoversTheRange'
      BY <3>1, <3>3 DEF RangeInv, CoversTheRange
    <3>5. AllLargest'
      <4>1. Largest' = Largest
        BY <3>1, <3>3 DEF Largest
      <4> QED BY <3>1, <4>1 DEF RangeInv, AllLargest
    <3>6. Sizing'
      BY <3>1 DEF RangeInv, Sizing, HostBits, Fitting, Ready
    <3>7. Phase'
      <4>1. \A k : Rising(k)' = Rising(k) /\ Falling(k)' = Falling(k)
        BY <3>1 DEF Rising, Falling
      <4> QED BY <3>1, <4>1 DEF RangeInv, Phase, Ready
    <3> QED BY <3>2, <3>4, <3>5, <3>6, <3>7 DEF RangeInv
  <2> QED BY <2>1, <2>2, <2>3, <2>4, <2>5 DEF Next
<1> QED BY <1>1, InitRange, PTL DEF Spec

\* insert_range inserts networks that together are its range, each on its own
\* boundary, and never one address outside.
THEOREM CoversTheRangeAlways == Spec => []CoversTheRange
<1>1. RangeInv => CoversTheRange
  BY DEF RangeInv
<1> QED BY <1>1, RangeInvAlways, PTL

\* It inserts at most two networks for each bit of an address.
THEOREM AtMostTwoPerBitAlways == Spec => []AtMostTwoPerBit
<1>1. RangeInv => AtMostTwoPerBit
  BY DEF RangeInv
<1> QED BY <1>1, RangeInvAlways, PTL

\* A network that meets another one of the largest in the range is that one.
LEMMA LargestAreApart ==
    ASSUME ip_version \in {4, 6}, NEW m \in Largest, NEW n \in Largest,
           first \in Nat, end_ip \in Nat,
           m.ip <= n.ip + Size(n) - 1, n.ip <= m.ip + Size(m) - 1
    PROVE  m = n
<1>1. W \in 0..M /\ M \in Nat
  BY WidthFacts
<1>2. ASSUME NEW s \in Largest
      PROVE  /\ s \in Network /\ s.ip \in Nat /\ s.prefix_length \in 0..W
             /\ W - s.prefix_length \in 0..M
             /\ Size(s) = Pow2[W - s.prefix_length] /\ Size(s) \in Nat /\ Size(s) > 0
             /\ s.ip % Size(s) = 0
             /\ s.ip >= first /\ s.ip + Size(s) - 1 <= end_ip
  <2>1. s \in Network /\ InRange(s)
    BY DEF Largest
  <2>2. s.ip \in Nat /\ s.prefix_length \in 0..W
    BY <2>1, WidthFacts DEF Network
  <2>3. W - s.prefix_length \in 0..M
    BY <1>1, <2>2
  <2> QED BY <2>1, <2>2, <2>3, Pow2Facts DEF InRange, Aligned, Size
\* Were one larger, twice the other one would lie in it.
<1>3. ASSUME NEW s \in Largest, NEW t \in Largest, s.prefix_length > t.prefix_length,
             s.ip <= t.ip + Size(t) - 1, t.ip <= s.ip + Size(s) - 1
      PROVE  FALSE
  <2> DEFINE a == Size(s)
             parent == [ip |-> s.ip - (s.ip % (2 * a)), prefix_length |-> s.prefix_length - 1]
             h == W - s.prefix_length
             g == W - t.prefix_length
  <2>1. h \in 0..M /\ g \in 0..M /\ h + 1 \in 0..M /\ h + 1 <= g /\ h \in 0..(M - 1)
        /\ W - (s.prefix_length - 1) = h + 1 /\ s.prefix_length > 0
    BY <1>1, <1>2, <1>3
  <2>2. Pow2[h + 1] = 2 * a /\ a \in Nat /\ a > 0 /\ s.ip \in Nat /\ t.ip \in Nat
        /\ Size(t) = Pow2[g] /\ Size(t) \in Nat /\ t.ip % Size(t) = 0
    BY <1>2, <2>1, Pow2Facts
  <2>3. PICK q \in Nat : q > 0 /\ Pow2[g] = q * Pow2[h + 1]
    BY <2>1, Pow2Divides
  <2> DEFINE b == 2 * a
             x == parent.ip
  <2>4. b \in Nat /\ b > 0 /\ Size(t) = q * b
    BY <2>2, <2>3
  <2>5. parent.ip = x /\ Size(parent) = b
    BY <2>1, <2>2 DEF Size
  <2>6. x = s.ip - (s.ip % b) /\ s.ip % b \in 0..(b - 1) /\ x \in Nat /\ x % b = 0
    BY <2>2, <2>4, Block
  <2>7. s.ip % b # 0 => s.ip % b = a
    BY <1>2, <2>2, Double
  <2> HIDE DEF b, x, a
  <2>8. x < t.ip + q * b /\ t.ip < x + b
    <3>1. b = 2 * a
      BY DEF b
    <3>2. s.ip + a <= x + b
      BY <2>2, <2>6, <2>7, <3>1
    <3> QED BY <1>3, <2>2, <2>4, <2>6, <3>2 DEF a
  <2>9. t.ip <= x /\ x + b <= t.ip + q * b
    BY <2>2, <2>3, <2>4, <2>6, <2>8, Nested
  <2>10. t.ip >= first /\ t.ip + Size(t) - 1 <= end_ip
    BY <1>2
  <2>11. x >= first /\ x + b - 1 <= end_ip
    BY <2>2, <2>4, <2>6, <2>9, <2>10
  <2>12. InRange(parent)
    BY <2>5, <2>6, <2>11 DEF InRange, Aligned
  <2>13. ~InRange(parent)
    BY <2>1 DEF Largest, a
  <2> QED BY <2>12, <2>13
<1>4. m.prefix_length = n.prefix_length
  <2>1. m.prefix_length \in Int /\ n.prefix_length \in Int
    BY <1>2
  <2>2. ~(m.prefix_length > n.prefix_length) /\ ~(n.prefix_length > m.prefix_length)
    BY <1>3
  <2> QED BY <2>1, <2>2
<1>5. m.ip = n.ip
  <2> DEFINE a == Size(m)
  <2>1. Size(n) = a
    BY <1>4 DEF Size
  <2>2. a \in Nat /\ a > 0 /\ m.ip \in Nat /\ n.ip \in Nat /\ m.ip % a = 0 /\ n.ip % a = 0
    BY <1>2, <2>1
  <2> HIDE DEF a
  <2>3. m.ip < n.ip + a /\ n.ip < m.ip + a
    BY <2>1, <2>2 DEF a
  <2>4. 1 \in Nat /\ 1 * a = a
    BY <2>2
  <2>5. n.ip <= m.ip /\ m.ip <= n.ip
    BY <2>2, <2>3, <2>4, Nested
  <2> QED BY <2>2, <2>5
<1> QED BY <1>2, <1>4, <1>5 DEF Network

\* The networks are the largest in the range, each once, unless the range is
\* the whole of IPv6.
THEOREM LargestNetworksOnceAlways == Spec => []LargestNetworksOnce
<1>1. RangeInv => LargestNetworksOnce
  <2> SUFFICES ASSUME RangeInv, pc = "done", ~WholeIPv6
               PROVE  /\ {nets[i] : i \in DOMAIN nets} = Largest
                      /\ Len(nets) = Cardinality(Largest)
    BY DEF LargestNetworksOnce
  <2>1. \A i \in DOMAIN nets : nets[i] \in Largest
    BY DEF RangeInv, AllLargest
  <2>2. Covered = first..end_ip /\ first \in Nat /\ end_ip \in Nat /\ ip_version \in {4, 6}
    BY WidthFacts DEF RangeInv, CoversTheRange, RangeTypes
  <2>3. ASSUME NEW n \in Largest PROVE \E i \in DOMAIN nets : nets[i] = n
    <3>1. n.ip \in first..end_ip /\ Size(n) \in Nat /\ Size(n) > 0 /\ n.ip \in Nat
      <4>1. n \in Network /\ InRange(n)
        BY DEF Largest
      <4>2. n.ip \in Nat /\ W - n.prefix_length \in 0..M
        BY <2>2, <4>1, WidthFacts DEF Network
      <4>3. Size(n) \in Nat /\ Size(n) > 0
        BY <4>2, Pow2Facts DEF Size
      <4> QED BY <2>2, <4>1, <4>2, <4>3 DEF InRange
    <3>2. PICK i \in DOMAIN nets : n.ip \in Addresses(nets[i])
      BY <2>2, <3>1 DEF Covered
    <3>3. nets[i] \in Largest /\ nets[i].ip \in Nat
      <4>1. nets[i] \in Network
        BY <2>1 DEF Largest
      <4> QED BY <2>1, <2>2, <4>1, WidthFacts DEF Network
    <3>4. nets[i].ip <= n.ip + Size(n) - 1 /\ n.ip <= nets[i].ip + Size(nets[i]) - 1
      BY <3>1, <3>2, <3>3 DEF Addresses
    <3> QED BY <2>2, <3>3, <3>4, LargestAreApart
  <2>4. {nets[i] : i \in DOMAIN nets} = Largest
    BY <2>1, <2>3
  <2>5. nets \in Seq(Network) /\ Len(nets) \in Nat /\ DOMAIN nets = 1..Len(nets)
    BY DEF RangeInv, RangeTypes
  <2>6. \A i, j \in DOMAIN nets : nets[i] = nets[j] => i = j
    <3> SUFFICES ASSUME NEW i \in DOMAIN nets, NEW j \in DOMAIN nets, nets[i] = nets[j], i # j
                 PROVE  FALSE
      OBVIOUS
    <3>1. i < j \/ j < i
      BY <2>5
    <3>2. nets[i].ip < nets[j].ip \/ nets[j].ip < nets[i].ip
      BY <3>1 DEF RangeInv, InOrder
    <3>3. nets[i].ip \in Nat
      <4>1. nets[i] \in Network
        BY <2>1 DEF Largest
      <4> QED BY <2>2, <4>1, WidthFacts DEF Network
    <3> QED BY <3>2, <3>3
  <2>7. nets \in Bijection(1..Len(nets), Largest)
    <3>1. nets \in [1..Len(nets) -> Largest]
      BY <2>1, <2>5
    <3> QED BY <2>3, <2>5, <2>6, <3>1 DEF Bijection, Injection, Surjection, IsInjective
  <2>8. Len(nets) = Cardinality(Largest)
    BY <2>5, <2>7, FS_CountingElements DEF ExistsBijection
  <2> QED BY <2>4, <2>8
<1> QED BY <1>1, RangeInvAlways, PTL

=============================================================================
