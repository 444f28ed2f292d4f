--------------------------- MODULE ReadingsProofs ---------------------------
(***************************************************************************)
(* Theorems about a value on its way from a device to a reading, for every *)
(* set of bytes, every slave id and every set of configurations: it is     *)
(* read as the device means it, and a reply with a byte that noise changed *)
(* is refused.                                                             *)
(*                                                                         *)
(* The checksums go through the bytes of a frame one by one.  What such a  *)
(* run comes to is shown without induction over sequences, of which the    *)
(* provers have none, by its least counterexample: runs with the same      *)
(* steps agree (RunsAgree), and runs with one different step end apart if  *)
(* no step brings together what is apart (RunsPart).  A shift of a         *)
(* register is linear, and no two registers are shifted into one; so every *)
(* checksum shows that a byte is another one (ChecksumShows; crc32, which  *)
(* is sent by half, excepted), and the CRC the code computes is the        *)
(* remainder the standard speaks of (CrcIsTheStandards).                   *)
(***************************************************************************)
EXTENDS Readings, FiniteSetTheorems, SequenceTheorems, TLAPS

-----------------------------------------------------------------------------
(* Runs: what comes of taking a start through one step after another.      *)

\* A set of naturals that is not empty has a least one.
LEMMA LeastOf ==
  ASSUME NEW T \in SUBSET Nat, T # {}
  PROVE  \E n \in T : \A m \in T : n <= m
<1> DEFINE less == {ss \in Nat \X Nat : ss[1] < ss[2]}
<1>1. IsWellFoundedOn(less, Nat)  BY NatLessThanWellFounded DEF OpToRel
<1>2. PICK n \in T : \A m \in T : ~(<<m, n>> \in less)
  <2> HIDE DEF less
  <2> QED  BY <1>1, WFMin
<1>3. ASSUME NEW m \in T PROVE n <= m
  <2>1. n \in Nat /\ m \in Nat /\ <<m, n>> \notin less  BY <1>2
  <2>2. ~(m < n)  BY <2>1
  <2> QED  BY <2>1, <2>2
<1> QED  BY <1>3

\* A run of N steps from s0: it exists for any steps,
IsSteps(F, N, S) == F \in [1 .. N -> [S -> S]]
IsRun(g, N, S, s0, F) == g \in [0 .. N -> S] /\ g[0] = s0 /\ \A n \in 1 .. N : g[n] = F[n][g[n - 1]]

LEMMA RunExists ==
  ASSUME NEW N \in Nat, NEW S, NEW s0 \in S, NEW F, IsSteps(F, N, S)
  PROVE  \E g : IsRun(g, N, S, s0, F)
<1> DEFINE bad == {m \in 0 .. N : ~ \E g : IsRun(g, m, S, s0, F)}
<1>1. bad = {}
  <2> SUFFICES ASSUME bad # {} PROVE FALSE  OBVIOUS
  <2>1. bad \in SUBSET Nat  OBVIOUS
  <2>2. PICK m \in bad : \A n \in bad : m <= n
    <3> HIDE DEF bad
    <3> QED  BY <2>1, LeastOf
  <2>3. m # 0
    <3>1. IsRun([i \in 0 .. 0 |-> s0], 0, S, s0, F)  BY DEF IsRun
    <3> QED  BY <2>2, <3>1
  <2>4. m - 1 \in 0 .. N /\ m - 1 \notin bad /\ m \in 1 .. N
    <3>1. m \in 1 .. N  BY <2>2, <2>3
    <3> HIDE DEF bad
    <3> QED  BY <2>2, <3>1
  <2>5. PICK g : IsRun(g, m - 1, S, s0, F)  BY <2>4
  <2> DEFINE h == [i \in 0 .. m |-> IF i = m THEN F[m][g[m - 1]] ELSE g[i]]
  <2>6. g[m - 1] \in S /\ F[m] \in [S -> S]  BY <2>4, <2>5 DEF IsRun, IsSteps
  <2>7. IsRun(h, m, S, s0, F)
    <3>1. h \in [0 .. m -> S]  BY <2>4, <2>5, <2>6 DEF IsRun
    <3>2. h[0] = s0  BY <2>4, <2>5 DEF IsRun
    <3>3. ASSUME NEW n \in 1 .. m PROVE h[n] = F[n][h[n - 1]]  BY <2>4, <2>5 DEF IsRun
    <3> HIDE DEF h
    <3> QED  BY <3>1, <3>2, <3>3 DEF IsRun
  <2> HIDE DEF h
  <2> QED  BY <2>2, <2>7
<1>2. N \in 0 .. N  OBVIOUS
<1> QED  BY <1>1, <1>2

\* it is the only one,
Together(f, g, N) == N \in Nat /\ f[0] = g[0] /\ \A n \in 1 .. N : f[n - 1] = g[n - 1] => f[n] = g[n]

LEMMA RunsAgree ==
  ASSUME NEW N, NEW f, NEW g, Together(f, g, N)
  PROVE  \A n \in 0 .. N : f[n] = g[n]
<1>0. N \in Nat /\ f[0] = g[0] /\ \A n \in 1 .. N : f[n - 1] = g[n - 1] => f[n] = g[n]
  BY DEF Together
<1> DEFINE bad == {n \in 0 .. N : f[n] # g[n]}
<1> SUFFICES ASSUME bad # {} PROVE FALSE  OBVIOUS
<1>1. bad \in SUBSET Nat  OBVIOUS
<1>2. PICK m \in bad : \A n \in bad : m <= n
  <2> HIDE DEF bad
  <2> QED  BY <1>1, LeastOf
<1>3. m \in 1 .. N /\ m - 1 \in 0 .. N  BY <1>0, <1>2
<1>4. f[m - 1] = g[m - 1]
  <2>1. m - 1 \notin bad
    <3> HIDE DEF bad
    <3> QED  BY <1>2, <1>3
  <2> QED  BY <1>3, <2>1
<1> QED  BY <1>0, <1>2, <1>3, <1>4

\* and two runs with different steps at one place, i, end apart if no step brings what is
\* apart together.
Apart(f, g, i, N) ==
  /\ N \in Nat /\ i \in 1 .. N /\ f[0] = g[0]
  /\ \A n \in 1 .. N : n # i /\ f[n - 1] = g[n - 1] => f[n] = g[n]
  /\ f[i - 1] = g[i - 1] => f[i] # g[i]
  /\ \A n \in 1 .. N : n # i /\ f[n - 1] # g[n - 1] => f[n] # g[n]

LEMMA RunsPart ==
  ASSUME NEW N, NEW i, NEW f, NEW g, Apart(f, g, i, N)
  PROVE  f[N] # g[N]
<1>0. /\ N \in Nat /\ i \in 1 .. N /\ f[0] = g[0]
      /\ \A n \in 1 .. N : n # i /\ f[n - 1] = g[n - 1] => f[n] = g[n]
      /\ f[i - 1] = g[i - 1] => f[i] # g[i]
      /\ \A n \in 1 .. N : n # i /\ f[n - 1] # g[n - 1] => f[n] # g[n]
  BY DEF Apart
<1>1. \A n \in 0 .. i - 1 : f[n] = g[n]
  <2>1. i - 1 \in Nat /\ \A n \in 1 .. i - 1 : n \in 1 .. N /\ n # i  BY <1>0
  <2>2. Together(f, g, i - 1)  BY <1>0, <2>1 DEF Together
  <2> QED  BY <2>2, RunsAgree
<1>2. f[i] # g[i]  BY <1>0, <1>1
<1> DEFINE bad == {n \in i .. N : f[n] = g[n]}
<1> SUFFICES ASSUME bad # {} PROVE FALSE  BY <1>0
<1>3. bad \in SUBSET Nat  BY <1>0
<1>4. PICK m \in bad : \A n \in bad : m <= n
  <2> HIDE DEF bad
  <2> QED  BY <1>3, LeastOf
<1>5. m \in 1 .. N /\ m # i /\ m - 1 \in i .. N  BY <1>0, <1>2, <1>4
<1>6. f[m - 1] # g[m - 1]
  <2>1. m - 1 \notin bad
    <3> HIDE DEF bad
    <3> QED  BY <1>4, <1>5
  <2> QED  BY <1>5, <2>1
<1> QED  BY <1>0, <1>4, <1>5, <1>6

-----------------------------------------------------------------------------
(* Bits and registers.                                                     *)

Reg == [1 .. 16 -> {0, 1}]
Byte == 0 .. 255

\* A function on 1 .. n is a sequence of length n,
LEMMA RegIsSeq ==
  ASSUME NEW S, NEW n \in Nat, NEW x \in [1 .. n -> S]
  PROVE  x \in Seq(S) /\ Len(x) = n /\ DOMAIN x = 1 .. n
<1>1. x \in Seq(S)  BY SeqDef
<1>2. Len(x) \in Nat /\ 1 .. Len(x) = 1 .. n  BY <1>1, LenProperties
<1> QED  BY <1>1, <1>2

\* The sum of two sequences of bits.
LEMMA PlusIs ==
  ASSUME NEW n \in Nat, NEW x \in [1 .. n -> {0, 1}], NEW y \in [1 .. n -> {0, 1}]
  PROVE  /\ Plus(x, y) \in [1 .. n -> {0, 1}]
         /\ \A k \in 1 .. n : Plus(x, y)[k] = IF x[k] = y[k] THEN 0 ELSE 1
BY DEF Plus

\* and the other way round.
LEMMA SeqIsReg ==
  ASSUME NEW S, NEW n \in Nat, NEW x \in Seq(S), Len(x) = n
  PROVE  x \in [1 .. n -> S]
<1>1. x \in [1 .. Len(x) -> S]  BY LenProperties, SeqDef
<1> QED  BY <1>1

\* A register that is shifted.
LEMMA RegSeq ==
  ASSUME NEW r \in Reg
  PROVE  r \in Seq({0, 1}) /\ Len(r) = 16 /\ DOMAIN r = 1 .. 16 /\ r # <<>>
<1> DEFINE S == {0, 1}
           n == 16
<1>1. n \in Nat /\ r \in [1 .. n -> S]  BY DEF Reg
<1> HIDE DEF n, S
<1>2. r \in Seq(S) /\ Len(r) = n /\ DOMAIN r = 1 .. n  BY <1>1, RegIsSeq
<1>3. r \in Seq({0, 1}) /\ Len(r) = 16 /\ DOMAIN r = 1 .. 16  BY <1>2 DEF n, S
<1>4. r # <<>>
  <2>1. Len(<<>>) = 0  OBVIOUS
  <2>2. Len(r) # 0  BY <1>3
  <2> QED  BY <2>1, <2>2
<1> QED  BY <1>3, <1>4

\* Sixteen bits are a register.
LEMMA SeqReg ==
  ASSUME NEW r \in Seq({0, 1}), Len(r) = 16
  PROVE  r \in Reg
<1> DEFINE S == {0, 1}
           n == 16
<1>1. n \in Nat /\ r \in Seq(S) /\ Len(r) = n  OBVIOUS
<1> HIDE DEF n, S
<1>2. r \in [1 .. n -> S]  BY <1>1, SeqIsReg
<1> QED  BY <1>2 DEF n, S, Reg

\* The sum of two registers.
LEMMA PlusReg ==
  ASSUME NEW x \in Reg, NEW y \in Reg
  PROVE  /\ Plus(x, y) \in Reg
         /\ \A k \in 1 .. 16 : Plus(x, y)[k] = IF x[k] = y[k] THEN 0 ELSE 1
<1> DEFINE n == 16
<1>1. n \in Nat /\ x \in [1 .. n -> {0, 1}] /\ y \in [1 .. n -> {0, 1}]  BY DEF Reg
<1> HIDE DEF n
<1>2. Plus(x, y) \in [1 .. n -> {0, 1}] /\ \A k \in 1 .. n : Plus(x, y)[k] = IF x[k] = y[k] THEN 0 ELSE 1
  BY <1>1, PlusIs
<1> QED  BY <1>2 DEF n, Reg

\* A sequence that lost its first element and got another one at its end.
LEMMA MovedOn ==
  ASSUME NEW S, NEW s \in Seq(S), NEW e \in S, s # <<>>
  PROVE  /\ Append(Tail(s), e) \in Seq(S) /\ Len(Append(Tail(s), e)) = Len(s)
         /\ \A k \in 1 .. Len(s) : Append(Tail(s), e)[k] = IF k = Len(s) THEN e ELSE s[k + 1]
<1>1. Tail(s) \in Seq(S) /\ Len(Tail(s)) = Len(s) - 1 /\ \A k \in 1 .. Len(Tail(s)) : Tail(s)[k] = s[k + 1]
  BY HeadTailProperties, Zenon
<1> DEFINE t == Tail(s)
<1>2. t \in Seq(S)  BY <1>1
<1>3. Len(s) \in Nat /\ Len(t) \in Nat  BY <1>2, LenProperties
<1>4. Append(t, e) \in Seq(S) /\ Len(Append(t, e)) = Len(t) + 1 /\ Append(t, e)[Len(t) + 1] = e
      /\ \A k \in 1 .. Len(t) : Append(t, e)[k] = t[k]
  <2> HIDE DEF t
  <2> QED  BY <1>2, AppendProperties
<1> DEFINE a == Append(t, e)
<1>5. a \in Seq(S) /\ Len(a) = Len(t) + 1 /\ a[Len(t) + 1] = e /\ \A k \in 1 .. Len(t) : a[k] = t[k]
  BY <1>4
<1>6. Len(t) = Len(s) - 1 /\ \A k \in 1 .. Len(t) : t[k] = s[k + 1]  BY <1>1
<1> HIDE DEF a, t
<1>7. a \in Seq(S) /\ Len(a) = Len(s) /\ \A k \in 1 .. Len(s) : a[k] = IF k = Len(s) THEN e ELSE s[k + 1]
  BY <1>3, <1>5, <1>6
<1> QED  BY <1>7 DEF a, t

\* One shift, bit by bit: Shifted moves every bit one place and adds the polynomial.
LEMMA ShiftedIs ==
  ASSUME NEW r \in Reg, NEW bit \in {0, 1}, NEW poly \in Reg
  PROVE  /\ Shifted(r, bit, poly) \in Reg
         /\ \A k \in 1 .. 15 : Shifted(r, bit, poly)[k] =
              IF r[k + 1] = (IF r[1] = 1 THEN poly[k] ELSE 0) THEN 0 ELSE 1
         /\ Shifted(r, bit, poly)[16] = IF bit = (IF r[1] = 1 THEN poly[16] ELSE 0) THEN 0 ELSE 1
<1> DEFINE next == Append(Tail(r), bit)
<1>1. r \in Seq({0, 1}) /\ Len(r) = 16 /\ r # <<>>  BY RegSeq
<1> DEFINE S == {0, 1}
<1>0. r \in Seq(S) /\ bit \in S /\ r # <<>>  BY <1>1
<1> HIDE DEF S
<1>2. next \in Seq(S) /\ Len(next) = Len(r) /\ \A k \in 1 .. Len(r) : next[k] = IF k = Len(r) THEN bit ELSE r[k + 1]
  BY <1>0, MovedOn
<1> HIDE DEF next
<1>3. next[16] = bit /\ \A k \in 1 .. 15 : next[k] = r[k + 1]  BY <1>1, <1>2
<1>4. next \in Reg  BY <1>1, <1>2, SeqReg DEF S
<1>5. Shifted(r, bit, poly) = IF r[1] = 1 THEN Plus(next, poly) ELSE next  BY DEF Shifted, next
<1>6. Plus(next, poly) \in Reg /\ \A k \in 1 .. 16 : Plus(next, poly)[k] = IF next[k] = poly[k] THEN 0 ELSE 1
  BY <1>4, PlusReg
<1>7. r[1] \in {0, 1} /\ \A k \in 1 .. 15 : r[k + 1] \in {0, 1}  BY DEF Reg
<1> QED  BY <1>3, <1>4, <1>5, <1>6, <1>7

\* What Through computes: the last state of a run of the steps.
LEMMA ShiftsRun ==
  ASSUME NEW r \in Reg, NEW bits \in Seq({0, 1}), NEW poly \in Reg
  PROVE  \E c \in [0 .. Len(bits) -> Reg] :
           /\ c[0] = r /\ Shifts(r, bits, poly) = c[Len(bits)]
           /\ \A n \in 1 .. Len(bits) : c[n] = Shifted(c[n - 1], bits[n], poly)
<1> DEFINE N == Len(bits)
           F == [n \in 1 .. N |-> [s \in Reg |-> Shifted(s, bits[n], poly)]]
           f == CHOOSE g : g = [n \in 0 .. N |-> IF n = 0 THEN r ELSE Shifted(g[n - 1], bits[n], poly)]
<1>1. N \in Nat /\ \A n \in 1 .. N : bits[n] \in {0, 1}  BY LenProperties, ElementOfSeq
<1>2. F \in [1 .. N -> [Reg -> Reg]]  BY <1>1, ShiftedIs
<1>3. PICK c \in [0 .. N -> Reg] : c[0] = r /\ \A n \in 1 .. N : c[n] = F[n][c[n - 1]]
  <2> HIDE DEF F, N
  <2>1. N \in Nat /\ r \in Reg /\ IsSteps(F, N, Reg)  BY <1>1, <1>2 DEF IsSteps
  <2>2. \E c : IsRun(c, N, Reg, r, F)  BY <2>1, RunExists
  <2> QED  BY <2>2 DEF IsRun
<1>4. \A n \in 1 .. N : c[n] = Shifted(c[n - 1], bits[n], poly)
  <2> HIDE DEF N
  <2> TAKE n \in 1 .. N
  <2>1. c[n - 1] \in Reg  BY <1>1, <1>3
  <2> QED  BY <1>3, <2>1
<1>5. c = [n \in 0 .. N |-> IF n = 0 THEN r ELSE Shifted(c[n - 1], bits[n], poly)]
  <2> HIDE DEF N, F
  <2> QED  BY <1>1, <1>3, <1>4
<1>6. f = [n \in 0 .. N |-> IF n = 0 THEN r ELSE Shifted(f[n - 1], bits[n], poly)]  BY <1>5
<1>7. Shifts(r, bits, poly) = f[N]  BY DEF Shifts, Through
<1> HIDE DEF f, N, F
<1>8. \A n \in 0 .. N : f[n] = c[n]
  <2>1. f[0] = c[0]  BY <1>1, <1>3, <1>6
  <2>2. \A n \in 1 .. N : f[n - 1] = c[n - 1] => f[n] = c[n]  BY <1>1, <1>4, <1>6
  <2>3. N \in Nat  BY <1>1
  <2> HIDE <1>6
  <2>4. Together(f, c, N)  BY <2>1, <2>2, <2>3 DEF Together
  <2> QED  BY ZenonT(60), <2>4, RunsAgree
<1> QED  BY <1>1, <1>3, <1>4, <1>7, <1>8 DEF N

-----------------------------------------------------------------------------
(* Bytes as eight bits.                                                    *)

Octet == [1 .. 8 -> {0, 1}]

\* Eight bits are a sequence.
LEMMA OctetSeq ==
  ASSUME NEW x \in Octet
  PROVE  x \in Seq({0, 1}) /\ Len(x) = 8 /\ DOMAIN x = 1 .. 8 /\ \A k \in 1 .. 8 : x[k] \in {0, 1}
<1> DEFINE S == {0, 1}
           n == 8
<1>1. n \in Nat /\ x \in [1 .. n -> S]  BY DEF Octet
<1> HIDE DEF n, S
<1>2. x \in Seq(S) /\ Len(x) = n /\ DOMAIN x = 1 .. n  BY <1>1, RegIsSeq
<1> QED  BY <1>1, <1>2 DEF n, S

\* The registers the checksums start from,
LEMMA ZerosIs == Zeros(8) \in Octet /\ (\A k \in 1 .. 8 : Zeros(8)[k] = 0) /\ Zeros(16) \in Reg /\ Ones \in Reg
                 /\ (\A k \in 1 .. 16 : Zeros(16)[k] = 0) /\ (\A k \in 1 .. 16 : Ones[k] = 1)
BY DEF Zeros, Octet, Reg, Ones

\* and the polynomials: the divisor of the standard is the one crc16_modbus goes by.
LEMMA PolysAre ==
  /\ Poly16 \in Reg /\ PolyCcitt \in Reg /\ Divisor = Poly16 /\ Poly16[16] = 1 /\ PolyCcitt[16] = 1
  /\ \A k \in 1 .. 16 : Poly16[k] = IF k \in {1, 14, 16} THEN 1 ELSE 0
BY DEF Poly16, PolyCcitt, Divisor, Reg

\* A byte is the number of its bits,
LEMMA BitsIs ==
  ASSUME NEW b \in Byte
  PROVE  Bits(b) \in Octet /\ b = Number(Bits(b))
         /\ Bits(b)[1] = b % 2 /\ Bits(b)[2] = (b \div 2) % 2 /\ Bits(b)[3] = (b \div 4) % 2 /\ Bits(b)[4] = (b \div 8) % 2
         /\ Bits(b)[5] = (b \div 16) % 2 /\ Bits(b)[6] = (b \div 32) % 2 /\ Bits(b)[7] = (b \div 64) % 2
         /\ Bits(b)[8] = (b \div 128) % 2
<1>1. \A k \in 1 .. 8 : Weight[k] \in {1, 2, 4, 8, 16, 32, 64, 128}  BY DEF Weight
<1>2. \A k \in 1 .. 8 : (b \div Weight[k]) % 2 \in {0, 1}  BY <1>1 DEF Byte
<1>3. Bits(b)[1] = b % 2 /\ Bits(b)[2] = (b \div 2) % 2 /\ Bits(b)[3] = (b \div 4) % 2 /\ Bits(b)[4] = (b \div 8) % 2
         /\ Bits(b)[5] = (b \div 16) % 2 /\ Bits(b)[6] = (b \div 32) % 2 /\ Bits(b)[7] = (b \div 64) % 2
         /\ Bits(b)[8] = (b \div 128) % 2
  BY DEF Bits, Weight, Byte
<1>4. b = Number(Bits(b))  BY <1>3 DEF Number, Byte
<1> QED  BY <1>2, <1>3, <1>4 DEF Bits, Octet

\* every eight bits are a byte,
LEMMA NumberIs ==
  ASSUME NEW x \in Octet
  PROVE  Number(x) \in Byte
BY DEF Octet, Number, Byte

\* and no two are the same byte.
LEMMA NumbersDiffer ==
  ASSUME NEW x \in Octet, NEW y \in Octet, Number(x) = Number(y)
  PROVE  x = y
<1>1. PICK a1 \in 0 .. 1, a2 \in 0 .. 1, a3 \in 0 .. 1, a4 \in 0 .. 1,
           a5 \in 0 .. 1, a6 \in 0 .. 1, a7 \in 0 .. 1, a8 \in 0 .. 1 :
        x[1] = a1 /\ x[2] = a2 /\ x[3] = a3 /\ x[4] = a4 /\ x[5] = a5 /\ x[6] = a6 /\ x[7] = a7 /\ x[8] = a8
  <2>1. \A k \in 1 .. 8 : x[k] \in 0 .. 1  BY DEF Octet
  <2> QED  BY <2>1
<1>2. PICK b1 \in 0 .. 1, b2 \in 0 .. 1, b3 \in 0 .. 1, b4 \in 0 .. 1,
           b5 \in 0 .. 1, b6 \in 0 .. 1, b7 \in 0 .. 1, b8 \in 0 .. 1 :
        y[1] = b1 /\ y[2] = b2 /\ y[3] = b3 /\ y[4] = b4 /\ y[5] = b5 /\ y[6] = b6 /\ y[7] = b7 /\ y[8] = b8
  <2>1. \A k \in 1 .. 8 : y[k] \in 0 .. 1  BY DEF Octet
  <2> QED  BY <2>1
<1>3. a1 + 2 * a2 + 4 * a3 + 8 * a4 + 16 * a5 + 32 * a6 + 64 * a7 + 128 * a8
        = b1 + 2 * b2 + 4 * b3 + 8 * b4 + 16 * b5 + 32 * b6 + 64 * b7 + 128 * b8
  BY <1>1, <1>2 DEF Number
<1>4. a1 = b1 /\ a2 = b2 /\ a3 = b3 /\ a4 = b4 /\ a5 = b5 /\ a6 = b6 /\ a7 = b7 /\ a8 = b8
  BY <1>3
<1>5. \A k \in 1 .. 8 : x[k] = y[k]  BY <1>1, <1>2, <1>4
<1> QED  BY <1>5 DEF Octet

\* Two times eight bits are a register,
LEMMA OctetsJoin ==
  ASSUME NEW x \in Octet, NEW y \in Octet
  PROVE  x \o y \in Reg /\ \A k \in 1 .. 16 : (x \o y)[k] = IF k <= 8 THEN x[k] ELSE y[k - 8]
<1> DEFINE S == {0, 1}
<1>1. x \in Seq(S) /\ y \in Seq(S) /\ Len(x) = 8 /\ Len(y) = 8  BY OctetSeq
<1> HIDE DEF S
<1>2. x \o y \in Seq(S) /\ Len(x \o y) = Len(x) + Len(y)
      /\ \A k \in 1 .. Len(x) + Len(y) : (x \o y)[k] = IF k <= Len(x) THEN x[k] ELSE y[k - Len(x)]
  BY <1>1, ConcatProperties
<1> DEFINE z == x \o y
<1>3. z \in Seq({0, 1}) /\ Len(z) = 16 /\ \A k \in 1 .. 16 : z[k] = IF k <= 8 THEN x[k] ELSE y[k - 8]
  BY <1>1, <1>2 DEF S
<1> HIDE DEF z
<1>4. z \in Reg  BY <1>3, SeqReg
<1> QED  BY <1>3, <1>4 DEF z

\* read backwards as eight bits,
LEMMA ReverseOctet ==
  ASSUME NEW x \in Octet
  PROVE  Reverse(x) \in Octet /\ \A k \in 1 .. 8 : Reverse(x)[k] = x[9 - k]
<1>1. Len(x) = 8 /\ \A k \in 1 .. 8 : x[k] \in {0, 1}  BY OctetSeq
<1>2. Reverse(x) = [k \in 1 .. 8 |-> x[9 - k]]
  <2>1. \A k \in 1 .. 8 : 8 - k + 1 = 9 - k  OBVIOUS
  <2> QED  BY <1>1, <2>1 DEF Reverse
<1>3. \A k \in 1 .. 8 : 9 - k \in 1 .. 8  OBVIOUS
<1> QED  BY <1>1, <1>2, <1>3 DEF Octet

\* or as sixteen,
LEMMA ReverseReg ==
  ASSUME NEW x \in Reg
  PROVE  Reverse(x) \in Reg /\ \A k \in 1 .. 16 : Reverse(x)[k] = x[17 - k]
<1>1. Len(x) = 16 /\ \A k \in 1 .. 16 : x[k] \in {0, 1}  BY RegSeq DEF Reg
<1>2. Reverse(x) = [k \in 1 .. 16 |-> x[17 - k]]
  <2>1. \A k \in 1 .. 16 : 16 - k + 1 = 17 - k  OBVIOUS
  <2> QED  BY <1>1, <2>1 DEF Reverse
<1>3. \A k \in 1 .. 16 : 17 - k \in 1 .. 16  OBVIOUS
<1> QED  BY <1>1, <1>2, <1>3 DEF Reg

\* and taken apart again.
LEMMA HalvesOf ==
  ASSUME NEW x \in Reg
  PROVE  /\ SubSeq(x, 1, 8) \in Octet /\ SubSeq(x, 9, 16) \in Octet
         /\ \A k \in 1 .. 8 : SubSeq(x, 1, 8)[k] = x[k] /\ SubSeq(x, 9, 16)[k] = x[k + 8]
<1>1. x \in Seq({0, 1}) /\ Len(x) = 16 /\ \A k \in 1 .. 16 : x[k] \in {0, 1}  BY RegSeq DEF Reg
<1>2. SubSeq(x, 1, 8) = [k \in 1 .. 8 |-> x[k]]
  <2>1. SubSeq(x, 1, 8) = [k \in 1 .. 1 + 8 - 1 |-> x[k + 1 - 1]]  BY DEF SubSeq
  <2> QED  BY <2>1
<1>3. SubSeq(x, 9, 16) = [k \in 1 .. 8 |-> x[k + 8]]  OBVIOUS
<1>4. \A k \in 1 .. 8 : k \in 1 .. 16 /\ k + 8 \in 1 .. 16  OBVIOUS
<1> QED  BY <1>1, <1>2, <1>3, <1>4 DEF Octet

-----------------------------------------------------------------------------
(* The checksums as runs.                                                  *)

\* Eight shifts make a register of a register.
LEMMA ShiftsIs ==
  ASSUME NEW r \in Reg, NEW x \in Octet, NEW poly \in Reg
  PROVE  Shifts(r, x, poly) \in Reg
<1>1. x \in Seq({0, 1}) /\ Len(x) = 8  BY OctetSeq
<1>2. PICK c \in [0 .. Len(x) -> Reg] : Shifts(r, x, poly) = c[Len(x)]  BY <1>1, ShiftsRun
<1> QED  BY <1>1, <1>2

ModbusStep(r, b) == Shifts(Plus(r, Bits(b) \o Zeros(8)), Zeros(8), Poly16)
CcittStep(r, b) == Shifts(Plus(r, Reverse(Bits(b)) \o Zeros(8)), Zeros(8), PolyCcitt)
XorStep(x, b) == Plus(x, Bits(b))
SumStep(n, b) == n + b
DivisionStep(r, b) == Shifts(r, Bits(b), Divisor)

\* The sum of eight bits and eight bits.
LEMMA PlusOctet ==
  ASSUME NEW x \in Octet, NEW y \in Octet
  PROVE  Plus(x, y) \in Octet /\ \A k \in 1 .. 8 : Plus(x, y)[k] = IF x[k] = y[k] THEN 0 ELSE 1
BY DEF Plus, Octet

\* Each step makes a register, eight bits or a number of the one before.
LEMMA ModbusStepIs == \A r \in Reg, b \in Byte : ModbusStep(r, b) \in Reg
<1> TAKE r \in Reg, b \in Byte
<1>1. Bits(b) \o Zeros(8) \in Reg  BY BitsIs, ZerosIs, OctetsJoin
<1>2. Plus(r, Bits(b) \o Zeros(8)) \in Reg  BY <1>1, PlusReg
<1> QED  BY <1>2, ZerosIs, PolysAre, ShiftsIs DEF ModbusStep

\* The step of crc16_ccitt,
LEMMA CcittStepIs == \A r \in Reg, b \in Byte : CcittStep(r, b) \in Reg
<1> TAKE r \in Reg, b \in Byte
<1>1. Reverse(Bits(b)) \o Zeros(8) \in Reg  BY BitsIs, ReverseOctet, ZerosIs, OctetsJoin
<1>2. Plus(r, Reverse(Bits(b)) \o Zeros(8)) \in Reg  BY <1>1, PlusReg
<1> QED  BY <1>2, ZerosIs, PolysAre, ShiftsIs DEF CcittStep

\* of checksum_xor,
LEMMA XorStepIs == \A x \in Octet, b \in Byte : XorStep(x, b) \in Octet
BY BitsIs, PlusOctet DEF XorStep

\* of checksum_sum,
LEMMA SumStepIs == \A n \in Nat, b \in Byte : SumStep(n, b) \in Nat
BY DEF SumStep, Byte

\* and of the division.
LEMMA DivisionStepIs == \A r \in Reg, b \in Byte : DivisionStep(r, b) \in Reg
BY BitsIs, PolysAre, ShiftsIs DEF DivisionStep

\* crc16_modbus is the last state of a run of its steps;
LEMMA Crc16ModbusRun ==
  ASSUME NEW bytes \in Seq(Byte)
  PROVE  \E c \in [0 .. Len(bytes) -> Reg] :
           /\ c[0] = Ones /\ Crc16Modbus(bytes) = c[Len(bytes)]
           /\ \A n \in 1 .. Len(bytes) : c[n] = ModbusStep(c[n - 1], bytes[n])
<1> DEFINE N == Len(bytes)
           F == [n \in 1 .. N |-> [s \in Reg |-> ModbusStep(s, bytes[n])]]
           f == CHOOSE g : g = [n \in 0 .. N |-> IF n = 0 THEN Ones ELSE ModbusStep(g[n - 1], bytes[n])]
<1>1. N \in Nat /\ \A n \in 1 .. N : bytes[n] \in Byte  BY LenProperties, ElementOfSeq
<1>2. IsSteps(F, N, Reg) /\ Ones \in Reg  BY <1>1, ModbusStepIs, ZerosIs DEF IsSteps
<1>3. PICK c : IsRun(c, N, Reg, Ones, F)
  <2> HIDE DEF F, N
  <2> QED  BY <1>1, <1>2, RunExists
<1>4. \A n \in 1 .. N : c[n] = ModbusStep(c[n - 1], bytes[n])
  <2> HIDE DEF N
  <2> TAKE n \in 1 .. N
  <2>1. c[n - 1] \in Reg  BY <1>1, <1>3 DEF IsRun
  <2> QED  BY <1>3, <2>1 DEF IsRun
<1>5. c = [n \in 0 .. N |-> IF n = 0 THEN Ones ELSE ModbusStep(c[n - 1], bytes[n])]
  <2> HIDE DEF N, F
  <2> QED  BY <1>1, <1>3, <1>4 DEF IsRun
<1>6. f = [n \in 0 .. N |-> IF n = 0 THEN Ones ELSE ModbusStep(f[n - 1], bytes[n])]  BY <1>5
<1>7. Crc16Modbus(bytes) = f[N]  BY DEF Crc16Modbus, Through, ModbusStep
<1> HIDE DEF f, N, F
<1>8. \A n \in 0 .. N : f[n] = c[n]
  <2>1. f[0] = c[0]  BY <1>1, <1>3, <1>6 DEF IsRun
  <2>2. \A n \in 1 .. N : f[n - 1] = c[n - 1] => f[n] = c[n]  BY <1>1, <1>4, <1>6
  <2>3. N \in Nat  BY <1>1
  <2> HIDE <1>6
  <2>4. Together(f, c, N)  BY <2>1, <2>2, <2>3 DEF Together
  <2> QED  BY <2>4, RunsAgree
<1> QED  BY <1>1, <1>3, <1>4, <1>7, <1>8 DEF N, IsRun

\* so is crc16_ccitt,
LEMMA Crc16CcittRun ==
  ASSUME NEW bytes \in Seq(Byte)
  PROVE  \E c \in [0 .. Len(bytes) -> Reg] :
           /\ c[0] = Zeros(16) /\ Crc16Ccitt(bytes) = c[Len(bytes)]
           /\ \A n \in 1 .. Len(bytes) : c[n] = CcittStep(c[n - 1], bytes[n])
<1> DEFINE N == Len(bytes)
           F == [n \in 1 .. N |-> [s \in Reg |-> CcittStep(s, bytes[n])]]
           f == CHOOSE g : g = [n \in 0 .. N |-> IF n = 0 THEN Zeros(16) ELSE CcittStep(g[n - 1], bytes[n])]
<1>1. N \in Nat /\ \A n \in 1 .. N : bytes[n] \in Byte  BY LenProperties, ElementOfSeq
<1>2. IsSteps(F, N, Reg) /\ Zeros(16) \in Reg  BY <1>1, CcittStepIs, ZerosIs DEF IsSteps
<1>3. PICK c : IsRun(c, N, Reg, Zeros(16), F)
  <2> HIDE DEF F, N
  <2> QED  BY <1>1, <1>2, RunExists
<1>4. \A n \in 1 .. N : c[n] = CcittStep(c[n - 1], bytes[n])
  <2> HIDE DEF N
  <2> TAKE n \in 1 .. N
  <2>1. c[n - 1] \in Reg  BY <1>1, <1>3 DEF IsRun
  <2> QED  BY <1>3, <2>1 DEF IsRun
<1>5. c = [n \in 0 .. N |-> IF n = 0 THEN Zeros(16) ELSE CcittStep(c[n - 1], bytes[n])]
  <2> HIDE DEF N, F
  <2> QED  BY <1>1, <1>3, <1>4 DEF IsRun
<1>6. f = [n \in 0 .. N |-> IF n = 0 THEN Zeros(16) ELSE CcittStep(f[n - 1], bytes[n])]  BY <1>5
<1>7. Crc16Ccitt(bytes) = f[N]  BY DEF Crc16Ccitt, Through, CcittStep
<1> HIDE DEF f, N, F
<1>8. \A n \in 0 .. N : f[n] = c[n]
  <2>1. f[0] = c[0]  BY <1>1, <1>3, <1>6 DEF IsRun
  <2>2. \A n \in 1 .. N : f[n - 1] = c[n - 1] => f[n] = c[n]  BY <1>1, <1>4, <1>6
  <2>3. N \in Nat  BY <1>1
  <2> HIDE <1>6
  <2>4. Together(f, c, N)  BY <2>1, <2>2, <2>3 DEF Together
  <2> QED  BY <2>4, RunsAgree
<1> QED  BY <1>1, <1>3, <1>4, <1>7, <1>8 DEF N, IsRun

\* so is checksum_xor,
LEMMA ChecksumXorRun ==
  ASSUME NEW bytes \in Seq(Byte)
  PROVE  \E c \in [0 .. Len(bytes) -> Octet] :
           /\ c[0] = Zeros(8) /\ ChecksumXor(bytes) = c[Len(bytes)]
           /\ \A n \in 1 .. Len(bytes) : c[n] = XorStep(c[n - 1], bytes[n])
<1> DEFINE N == Len(bytes)
           F == [n \in 1 .. N |-> [s \in Octet |-> XorStep(s, bytes[n])]]
           f == CHOOSE g : g = [n \in 0 .. N |-> IF n = 0 THEN Zeros(8) ELSE XorStep(g[n - 1], bytes[n])]
<1>1. N \in Nat /\ \A n \in 1 .. N : bytes[n] \in Byte  BY LenProperties, ElementOfSeq
<1>2. IsSteps(F, N, Octet) /\ Zeros(8) \in Octet  BY <1>1, XorStepIs, ZerosIs DEF IsSteps
<1>3. PICK c : IsRun(c, N, Octet, Zeros(8), F)
  <2> HIDE DEF F, N
  <2> QED  BY <1>1, <1>2, RunExists
<1>4. \A n \in 1 .. N : c[n] = XorStep(c[n - 1], bytes[n])
  <2> HIDE DEF N
  <2> TAKE n \in 1 .. N
  <2>1. c[n - 1] \in Octet  BY <1>1, <1>3 DEF IsRun
  <2> QED  BY <1>3, <2>1 DEF IsRun
<1>5. c = [n \in 0 .. N |-> IF n = 0 THEN Zeros(8) ELSE XorStep(c[n - 1], bytes[n])]
  <2> HIDE DEF N, F
  <2> QED  BY <1>1, <1>3, <1>4 DEF IsRun
<1>6. f = [n \in 0 .. N |-> IF n = 0 THEN Zeros(8) ELSE XorStep(f[n - 1], bytes[n])]  BY <1>5
<1>7. ChecksumXor(bytes) = f[N]  BY DEF ChecksumXor, Through, XorStep
<1> HIDE DEF f, N, F
<1>8. \A n \in 0 .. N : f[n] = c[n]
  <2>1. f[0] = c[0]  BY <1>1, <1>3, <1>6 DEF IsRun
  <2>2. \A n \in 1 .. N : f[n - 1] = c[n - 1] => f[n] = c[n]  BY <1>1, <1>4, <1>6
  <2>3. N \in Nat  BY <1>1
  <2> HIDE <1>6
  <2>4. Together(f, c, N)  BY <2>1, <2>2, <2>3 DEF Together
  <2> QED  BY <2>4, RunsAgree
<1> QED  BY <1>1, <1>3, <1>4, <1>7, <1>8 DEF N, IsRun

\* so, modulo 256, is checksum_sum,
LEMMA ChecksumSumRun ==
  ASSUME NEW bytes \in Seq(Byte)
  PROVE  \E c \in [0 .. Len(bytes) -> Nat] :
           /\ c[0] = 0 /\ ChecksumSum(bytes) = c[Len(bytes)] % 256
           /\ \A n \in 1 .. Len(bytes) : c[n] = SumStep(c[n - 1], bytes[n])
<1> DEFINE N == Len(bytes)
           F == [n \in 1 .. N |-> [s \in Nat |-> SumStep(s, bytes[n])]]
           f == CHOOSE g : g = [n \in 0 .. N |-> IF n = 0 THEN 0 ELSE SumStep(g[n - 1], bytes[n])]
<1>1. N \in Nat /\ \A n \in 1 .. N : bytes[n] \in Byte  BY LenProperties, ElementOfSeq
<1>2. IsSteps(F, N, Nat) /\ 0 \in Nat  BY <1>1, SumStepIs, ZerosIs DEF IsSteps
<1>3. PICK c : IsRun(c, N, Nat, 0, F)
  <2> HIDE DEF F, N
  <2> QED  BY <1>1, <1>2, RunExists
<1>4. \A n \in 1 .. N : c[n] = SumStep(c[n - 1], bytes[n])
  <2> HIDE DEF N
  <2> TAKE n \in 1 .. N
  <2>1. c[n - 1] \in Nat  BY <1>1, <1>3 DEF IsRun
  <2> QED  BY <1>3, <2>1 DEF IsRun
<1>5. c = [n \in 0 .. N |-> IF n = 0 THEN 0 ELSE SumStep(c[n - 1], bytes[n])]
  <2> HIDE DEF N, F
  <2> QED  BY <1>1, <1>3, <1>4 DEF IsRun
<1>6. f = [n \in 0 .. N |-> IF n = 0 THEN 0 ELSE SumStep(f[n - 1], bytes[n])]  BY <1>5
<1>7. ChecksumSum(bytes) = f[N] % 256  BY DEF ChecksumSum, Through, SumStep
<1> HIDE DEF f, N, F
<1>8. \A n \in 0 .. N : f[n] = c[n]
  <2>1. f[0] = c[0]  BY <1>1, <1>3, <1>6 DEF IsRun
  <2>2. \A n \in 1 .. N : f[n - 1] = c[n - 1] => f[n] = c[n]  BY <1>1, <1>4, <1>6
  <2>3. N \in Nat  BY <1>1
  <2> HIDE <1>6
  <2>4. Together(f, c, N)  BY <2>1, <2>2, <2>3 DEF Together
  <2> QED  BY <2>4, RunsAgree
<1> QED  BY <1>1, <1>3, <1>4, <1>7, <1>8 DEF N, IsRun

\* and so is the remainder of the standard.
LEMMA RemainderRun ==
  ASSUME NEW bytes \in Seq(Byte)
  PROVE  \E c \in [0 .. Len(bytes) -> Reg] :
           /\ c[0] = Zeros(16) /\ Remainder(bytes) = c[Len(bytes)]
           /\ \A n \in 1 .. Len(bytes) : c[n] = DivisionStep(c[n - 1], bytes[n])
<1> DEFINE N == Len(bytes)
           F == [n \in 1 .. N |-> [s \in Reg |-> DivisionStep(s, bytes[n])]]
           f == CHOOSE g : g = [n \in 0 .. N |-> IF n = 0 THEN Zeros(16) ELSE DivisionStep(g[n - 1], bytes[n])]
<1>1. N \in Nat /\ \A n \in 1 .. N : bytes[n] \in Byte  BY LenProperties, ElementOfSeq
<1>2. IsSteps(F, N, Reg) /\ Zeros(16) \in Reg  BY <1>1, DivisionStepIs, ZerosIs DEF IsSteps
<1>3. PICK c : IsRun(c, N, Reg, Zeros(16), F)
  <2> HIDE DEF F, N
  <2> QED  BY <1>1, <1>2, RunExists
<1>4. \A n \in 1 .. N : c[n] = DivisionStep(c[n - 1], bytes[n])
  <2> HIDE DEF N
  <2> TAKE n \in 1 .. N
  <2>1. c[n - 1] \in Reg  BY <1>1, <1>3 DEF IsRun
  <2> QED  BY <1>3, <2>1 DEF IsRun
<1>5. c = [n \in 0 .. N |-> IF n = 0 THEN Zeros(16) ELSE DivisionStep(c[n - 1], bytes[n])]
  <2> HIDE DEF N, F
  <2> QED  BY <1>1, <1>3, <1>4 DEF IsRun
<1>6. f = [n \in 0 .. N |-> IF n = 0 THEN Zeros(16) ELSE DivisionStep(f[n - 1], bytes[n])]  BY <1>5
<1>7. Remainder(bytes) = f[N]  BY DEF Remainder, Through, DivisionStep
<1> HIDE DEF f, N, F
<1>8. \A n \in 0 .. N : f[n] = c[n]
  <2>1. f[0] = c[0]  BY <1>1, <1>3, <1>6 DEF IsRun
  <2>2. \A n \in 1 .. N : f[n - 1] = c[n - 1] => f[n] = c[n]  BY <1>1, <1>4, <1>6
  <2>3. N \in Nat  BY <1>1
  <2> HIDE <1>6
  <2>4. Together(f, c, N)  BY <2>1, <2>2, <2>3 DEF Together
  <2> QED  BY <2>4, RunsAgree
<1> QED  BY <1>1, <1>3, <1>4, <1>7, <1>8 DEF N, IsRun

-----------------------------------------------------------------------------
(* Shifts are linear, and part what is apart.                              *)

\* Registers with the same bits are the same.
LEMMA SameReg ==
  ASSUME NEW x \in Reg, NEW y \in Reg, \A k \in 1 .. 16 : x[k] = y[k]
  PROVE  x = y
BY DEF Reg

\* What is in a register is a bit.
LEMMA BitOfReg ==
  ASSUME NEW x \in Reg, NEW k \in 1 .. 16
  PROVE  x[k] \in {0, 1}
BY DEF Reg

\* The sum of bits is a group, in which every register is its own opposite.
LEMMA PlusGroup ==
  ASSUME NEW x \in Reg, NEW y \in Reg, NEW z \in Reg
  PROVE  /\ Plus(Plus(x, y), z) = Plus(x, Plus(y, z)) /\ Plus(x, y) = Plus(y, x)
         /\ Plus(x, Zeros(16)) = x /\ (Plus(x, z) = Plus(y, z) => x = y)
<1>1. Plus(x, y) \in Reg /\ Plus(y, z) \in Reg /\ Plus(y, x) \in Reg /\ Plus(x, z) \in Reg /\ Plus(x, Zeros(16)) \in Reg
      /\ Plus(Plus(x, y), z) \in Reg /\ Plus(x, Plus(y, z)) \in Reg
  BY PlusReg, ZerosIs
<1>2. \A k \in 1 .. 16 : x[k] \in {0, 1} /\ y[k] \in {0, 1} /\ z[k] \in {0, 1}  BY BitOfReg
<1>3. \A k \in 1 .. 16 : /\ Plus(x, y)[k] = IF x[k] = y[k] THEN 0 ELSE 1
                         /\ Plus(y, z)[k] = IF y[k] = z[k] THEN 0 ELSE 1
                         /\ Plus(x, z)[k] = IF x[k] = z[k] THEN 0 ELSE 1
                         /\ Plus(y, x)[k] = IF y[k] = x[k] THEN 0 ELSE 1
  BY PlusReg
<1>4. \A k \in 1 .. 16 : /\ Plus(Plus(x, y), z)[k] = IF Plus(x, y)[k] = z[k] THEN 0 ELSE 1
                         /\ Plus(x, Plus(y, z))[k] = IF x[k] = Plus(y, z)[k] THEN 0 ELSE 1
  BY <1>1, PlusReg
<1>5. Plus(Plus(x, y), z) = Plus(x, Plus(y, z))
  <2>1. \A k \in 1 .. 16 : Plus(Plus(x, y), z)[k] = Plus(x, Plus(y, z))[k]  BY <1>2, <1>3, <1>4
  <2> QED  BY <1>1, <2>1, SameReg
<1>6. Plus(x, y) = Plus(y, x)  BY <1>1, <1>3, SameReg
<1>7. Plus(x, Zeros(16)) = x
  <2>1. \A k \in 1 .. 16 : Plus(x, Zeros(16))[k] = x[k]  BY <1>2, PlusReg, ZerosIs
  <2> QED  BY <1>1, <2>1, SameReg
<1>8. ASSUME Plus(x, z) = Plus(y, z) PROVE x = y
  <2>1. \A k \in 1 .. 16 : x[k] = y[k]  BY <1>2, <1>3, <1>8
  <2> QED  BY <2>1, SameReg
<1> QED  BY <1>5, <1>6, <1>7, <1>8

\* The shift is linear,
LEMMA ShiftedLinear ==
  ASSUME NEW x \in Reg, NEW y \in Reg, NEW bit \in {0, 1}, NEW poly \in Reg
  PROVE  Shifted(Plus(x, y), bit, poly) = Plus(Shifted(x, bit, poly), Shifted(y, 0, poly))
<1> DEFINE s == Shifted(Plus(x, y), bit, poly)
           u == Shifted(x, bit, poly)
           v == Shifted(y, 0, poly)
           p == Plus(x, y)
<1>1. p \in Reg /\ \A k \in 1 .. 16 : p[k] = IF x[k] = y[k] THEN 0 ELSE 1  BY PlusReg
<1>2. s \in Reg /\ (\A k \in 1 .. 15 : s[k] = IF p[k + 1] = (IF p[1] = 1 THEN poly[k] ELSE 0) THEN 0 ELSE 1)
      /\ s[16] = IF bit = (IF p[1] = 1 THEN poly[16] ELSE 0) THEN 0 ELSE 1
  BY <1>1, ShiftedIs
<1>3. u \in Reg /\ (\A k \in 1 .. 15 : u[k] = IF x[k + 1] = (IF x[1] = 1 THEN poly[k] ELSE 0) THEN 0 ELSE 1)
      /\ u[16] = IF bit = (IF x[1] = 1 THEN poly[16] ELSE 0) THEN 0 ELSE 1
  BY ShiftedIs
<1>4. v \in Reg /\ (\A k \in 1 .. 15 : v[k] = IF y[k + 1] = (IF y[1] = 1 THEN poly[k] ELSE 0) THEN 0 ELSE 1)
      /\ v[16] = IF 0 = (IF y[1] = 1 THEN poly[16] ELSE 0) THEN 0 ELSE 1
  BY ShiftedIs
<1>5. \A k \in 1 .. 16 : x[k] \in {0, 1} /\ y[k] \in {0, 1} /\ poly[k] \in {0, 1} /\ p[k] \in {0, 1}
  BY <1>1, BitOfReg
<1> HIDE DEF s, u, v, p
<1>6. Plus(u, v) \in Reg /\ \A k \in 1 .. 16 : Plus(u, v)[k] = IF u[k] = v[k] THEN 0 ELSE 1
  BY <1>3, <1>4, PlusReg
<1>7. \A k \in 1 .. 15 : s[k] = Plus(u, v)[k]
  <2> TAKE k \in 1 .. 15
  <2>1. x[k + 1] \in {0, 1} /\ y[k + 1] \in {0, 1} /\ poly[k] \in {0, 1} /\ x[1] \in {0, 1} /\ y[1] \in {0, 1}
        /\ p[1] = (IF x[1] = y[1] THEN 0 ELSE 1) /\ p[k + 1] = IF x[k + 1] = y[k + 1] THEN 0 ELSE 1
    BY <1>1, <1>5
  <2> QED  BY <1>2, <1>3, <1>4, <1>6, <2>1
<1>8. s[16] = Plus(u, v)[16]  BY <1>1, <1>2, <1>3, <1>4, <1>5, <1>6
<1>9. s = Plus(u, v)  BY <1>2, <1>6, <1>7, <1>8, SameReg
<1> QED  BY <1>9 DEF s, u, v

IsShifts(c, r, x, poly) ==
  c \in [0 .. 8 -> Reg] /\ c[0] = r /\ \A n \in 1 .. 8 : c[n] = Shifted(c[n - 1], x[n], poly)

\* Eight shifts as a run.
LEMMA OctetShifts ==
  ASSUME NEW r \in Reg, NEW x \in Octet, NEW poly \in Reg
  PROVE  \E c : IsShifts(c, r, x, poly) /\ Shifts(r, x, poly) = c[8]
<1>1. x \in Seq({0, 1}) /\ Len(x) = 8  BY OctetSeq
<1>2. PICK c \in [0 .. Len(x) -> Reg] :
        /\ c[0] = r /\ Shifts(r, x, poly) = c[Len(x)]
        /\ \A n \in 1 .. Len(x) : c[n] = Shifted(c[n - 1], x[n], poly)
  BY ZenonT(60), <1>1, ShiftsRun
<1> QED  BY <1>1, <1>2 DEF IsShifts

\* and so are eight shifts.
LEMMA ShiftsLinear ==
  ASSUME NEW x \in Reg, NEW y \in Reg, NEW bits \in Octet, NEW poly \in Reg
  PROVE  Shifts(Plus(x, y), bits, poly) = Plus(Shifts(x, bits, poly), Shifts(y, Zeros(8), poly))
<1>1. (\A n \in 1 .. 8 : bits[n] \in {0, 1}) /\ (\A n \in 1 .. 8 : Zeros(8)[n] = 0)
      /\ Zeros(8) \in Octet /\ Plus(x, y) \in Reg
  BY OctetSeq, ZerosIs, PlusReg
<1>2. PICK c : IsShifts(c, Plus(x, y), bits, poly) /\ Shifts(Plus(x, y), bits, poly) = c[8]
  BY <1>1, OctetShifts
<1>3. PICK d : IsShifts(d, x, bits, poly) /\ Shifts(x, bits, poly) = d[8]  BY <1>1, OctetShifts
<1>4. PICK e : IsShifts(e, y, Zeros(8), poly) /\ Shifts(y, Zeros(8), poly) = e[8]
  BY <1>1, OctetShifts
<1> DEFINE g == [n \in 0 .. 8 |-> Plus(d[n], e[n])]
           N == 8
<1>5. c[0] = g[0]  BY <1>2, <1>3, <1>4 DEF IsShifts
<1>6. \A n \in 1 .. N : c[n - 1] = g[n - 1] => c[n] = g[n]
  <2> SUFFICES ASSUME NEW n \in 1 .. N, c[n - 1] = g[n - 1] PROVE c[n] = g[n]  OBVIOUS
  <2>1. n - 1 \in 0 .. 8 /\ n \in 0 .. 8 /\ bits[n] \in {0, 1} /\ Zeros(8)[n] = 0  BY <1>1
  <2>2. d[n - 1] \in Reg /\ e[n - 1] \in Reg  BY <1>3, <1>4, <2>1 DEF IsShifts
  <2>3. c[n] = Shifted(Plus(d[n - 1], e[n - 1]), bits[n], poly)  BY <1>2, <2>1 DEF IsShifts
  <2>4. d[n] = Shifted(d[n - 1], bits[n], poly) /\ e[n] = Shifted(e[n - 1], 0, poly)
    BY <1>3, <1>4, <2>1 DEF IsShifts
  <2>5. c[n] = Plus(d[n], e[n])  BY <2>1, <2>2, <2>3, <2>4, ShiftedLinear
  <2> QED  BY <2>1, <2>5
<1>7. g[8] = Plus(d[8], e[8]) /\ N \in Nat  OBVIOUS
<1> HIDE DEF g, N
<1>8. \A n \in 0 .. N : c[n] = g[n]
  <2>1. Together(c, g, N)  BY <1>5, <1>6, <1>7 DEF Together
  <2> QED  BY <2>1, RunsAgree
<1>9. c[8] = g[8]  BY <1>8 DEF N
<1> QED  BY <1>2, <1>3, <1>4, <1>7, <1>9

\* They bring nothing together if the polynomial has its lowest coefficient.
LEMMA ShiftedParts ==
  ASSUME NEW x \in Reg, NEW y \in Reg, NEW bit \in {0, 1}, NEW poly \in Reg, poly[16] = 1,
         Shifted(x, bit, poly) = Shifted(y, bit, poly)
  PROVE  x = y
<1> DEFINE u == Shifted(x, bit, poly)
<1>1. (\A k \in 1 .. 15 : u[k] = IF x[k + 1] = (IF x[1] = 1 THEN poly[k] ELSE 0) THEN 0 ELSE 1)
      /\ u[16] = IF bit = (IF x[1] = 1 THEN poly[16] ELSE 0) THEN 0 ELSE 1
  BY ShiftedIs
<1>2. (\A k \in 1 .. 15 : u[k] = IF y[k + 1] = (IF y[1] = 1 THEN poly[k] ELSE 0) THEN 0 ELSE 1)
      /\ u[16] = IF bit = (IF y[1] = 1 THEN poly[16] ELSE 0) THEN 0 ELSE 1
  BY ShiftedIs
<1>3. \A k \in 1 .. 16 : x[k] \in {0, 1} /\ y[k] \in {0, 1} /\ poly[k] \in {0, 1}  BY BitOfReg
<1> HIDE DEF u
<1>4. x[1] = y[1]  BY <1>1, <1>2, <1>3
<1>5. \A k \in 1 .. 15 : x[k + 1] = y[k + 1]
  <2> TAKE k \in 1 .. 15
  <2>1. x[k + 1] \in {0, 1} /\ y[k + 1] \in {0, 1} /\ poly[k] \in {0, 1}  BY <1>3
  <2> QED  BY <1>1, <1>2, <1>4, <2>1
<1>6. \A k \in 1 .. 16 : x[k] = y[k]
  <2> TAKE k \in 1 .. 16
  <2>1. k = 1 \/ (k - 1 \in 1 .. 15 /\ k = (k - 1) + 1)  OBVIOUS
  <2> QED  BY <1>4, <1>5, <2>1
<1> QED  BY <1>6, SameReg

\* No two registers are made into one by eight shifts, as the polynomial ends in a one.
LEMMA ShiftsPart ==
  ASSUME NEW x \in Reg, NEW y \in Reg, NEW bits \in Octet, NEW poly \in Reg, poly[16] = 1,
         Shifts(x, bits, poly) = Shifts(y, bits, poly)
  PROVE  x = y
<1> SUFFICES ASSUME x # y PROVE FALSE  OBVIOUS
<1>1. \A n \in 1 .. 8 : bits[n] \in {0, 1}  BY OctetSeq
<1>2. PICK c : IsShifts(c, x, bits, poly) /\ Shifts(x, bits, poly) = c[8]  BY OctetShifts
<1>3. PICK d : IsShifts(d, y, bits, poly) /\ Shifts(y, bits, poly) = d[8]  BY OctetShifts
<1> DEFINE N == 8
           f == [n \in 0 .. 8 |-> IF c[n] = d[n] THEN 0 ELSE 1]
           g == [n \in 0 .. 8 |-> 1]
<1>4. f[0] = g[0]  BY <1>2, <1>3 DEF IsShifts
<1>5. \A n \in 1 .. N : f[n - 1] = g[n - 1] => f[n] = g[n]
  <2> SUFFICES ASSUME NEW n \in 1 .. N, f[n - 1] = g[n - 1] PROVE f[n] = g[n]  OBVIOUS
  <2>1. n - 1 \in 0 .. 8 /\ n \in 0 .. 8 /\ bits[n] \in {0, 1}  BY <1>1
  <2>2. c[n - 1] \in Reg /\ d[n - 1] \in Reg /\ c[n - 1] # d[n - 1]  BY <1>2, <1>3, <2>1 DEF IsShifts
  <2>3. c[n] = Shifted(c[n - 1], bits[n], poly) /\ d[n] = Shifted(d[n - 1], bits[n], poly)
    BY <1>2, <1>3, <2>1 DEF IsShifts
  <2>4. c[n] # d[n]  BY <2>1, <2>2, <2>3, ShiftedParts
  <2> QED  BY <2>1, <2>4
<1>6. N \in Nat /\ (f[8] = g[8] => c[8] # d[8])  OBVIOUS
<1> HIDE DEF f, g, N
<1>7. \A n \in 0 .. N : f[n] = g[n]
  <2>1. Together(f, g, N)  BY <1>4, <1>5, <1>6 DEF Together
  <2> QED  BY <2>1, RunsAgree
<1>8. f[8] = g[8]  BY <1>7 DEF N
<1> QED  BY <1>2, <1>3, <1>6, <1>8

-----------------------------------------------------------------------------
(* A changed byte shows in every checksum.                                 *)

\* A sequence with one byte changed.
LEMMA OneChanged ==
  ASSUME NEW bytes \in Seq(Byte), NEW i \in 1 .. Len(bytes), NEW b \in Byte
  PROVE  /\ [bytes EXCEPT ![i] = b] \in Seq(Byte) /\ Len([bytes EXCEPT ![i] = b]) = Len(bytes) /\ Len(bytes) \in Nat
         /\ [bytes EXCEPT ![i] = b][i] = b
         /\ \A n \in 1 .. Len(bytes) : n # i => [bytes EXCEPT ![i] = b][n] = bytes[n]
<1>1. bytes \in [1 .. Len(bytes) -> Byte] /\ Len(bytes) \in Nat  BY LenProperties, SeqDef
<1>2. [bytes EXCEPT ![i] = b] \in [1 .. Len(bytes) -> Byte]  BY <1>1
<1> DEFINE N == Len(bytes)
           other == [bytes EXCEPT ![i] = b]
<1>3. N \in Nat /\ other \in [1 .. N -> Byte]  BY <1>1, <1>2
<1>4. other[i] = b /\ \A n \in 1 .. N : n # i => other[n] = bytes[n]  BY <1>1
<1> HIDE DEF N, other
<1>5. other \in Seq(Byte) /\ Len(other) = N  BY <1>3, RegIsSeq
<1> QED  BY <1>3, <1>4, <1>5 DEF N, other

\* Bytes with the same bits are the same.
LEMMA BitsPart ==
  ASSUME NEW b \in Byte, NEW d \in Byte, Bits(b) = Bits(d)
  PROVE  b = d
BY BitsIs

\* The bits of a byte at the end the checksum puts them.
LEMMA ThenZeros ==
  ASSUME NEW z \in Octet
  PROVE  z \o Zeros(8) \in Reg /\ (\A k \in 1 .. 8 : (z \o Zeros(8))[k] = z[k])
         /\ (\A k \in 9 .. 16 : (z \o Zeros(8))[k] = 0)
<1> DEFINE o == Zeros(8)
           w == z \o o
<1>1. o \in Octet /\ \A k \in 1 .. 8 : o[k] = 0  BY ZerosIs
<1>2. w \in Reg /\ \A k \in 1 .. 16 : w[k] = IF k <= 8 THEN z[k] ELSE o[k - 8]
  <2> HIDE DEF o
  <2> QED  BY <1>1, OctetsJoin
<1> HIDE DEF o, w
<1>3. w \in Reg /\ (\A k \in 1 .. 8 : w[k] = z[k]) /\ \A k \in 9 .. 16 : w[k] = 0  BY <1>1, <1>2
<1> QED  BY <1>3 DEF w, o

\* A step brings nothing together that is apart, and parts what another byte goes into: of crc16_modbus,
LEMMA ModbusStepParts ==
  \A r, s \in Reg : \A b, d \in Byte : ModbusStep(r, b) = ModbusStep(s, d) => (b = d => r = s) /\ (r = s => b = d)
<1> SUFFICES ASSUME NEW r \in Reg, NEW s \in Reg, NEW b \in Byte, NEW d \in Byte, ModbusStep(r, b) = ModbusStep(s, d)
             PROVE  (b = d => r = s) /\ (r = s => b = d)
  OBVIOUS
<1> DEFINE x == Bits(b) \o Zeros(8)
           y == Bits(d) \o Zeros(8)
<1>1. Bits(b) \in Octet /\ Bits(d) \in Octet /\ Zeros(8) \in Octet  BY BitsIs, ZerosIs
<1>2. x \in Reg /\ y \in Reg /\ (\A k \in 1 .. 8 : x[k] = Bits(b)[k]) /\ (\A k \in 1 .. 8 : y[k] = Bits(d)[k])
  BY <1>1, ThenZeros
<1>3. Shifts(Plus(r, x), Zeros(8), Poly16) = Shifts(Plus(s, y), Zeros(8), Poly16)  BY DEF ModbusStep
<1>5. b = d => x = y  OBVIOUS
<1> HIDE DEF x, y
<1>4. Plus(r, x) = Plus(s, y)  BY <1>1, <1>2, <1>3, PlusReg, PolysAre, ShiftsPart
<1>6. ASSUME b = d PROVE r = s  BY <1>2, <1>4, <1>5, <1>6, PlusGroup
<1>7. ASSUME r = s PROVE b = d
  <2>1. Plus(x, r) = Plus(y, r)  BY <1>2, <1>4, <1>7, PlusGroup
  <2>2. x = y  BY <1>2, <2>1, PlusGroup
  <2>3. Bits(b) = Bits(d)  BY <1>1, <1>2, <2>2 DEF Octet
  <2> QED  BY <2>3, BitsPart
<1> QED  BY <1>6, <1>7

\* of crc16_ccitt,
LEMMA CcittStepParts ==
  \A r, s \in Reg : \A b, d \in Byte : CcittStep(r, b) = CcittStep(s, d) => (b = d => r = s) /\ (r = s => b = d)
<1> SUFFICES ASSUME NEW r \in Reg, NEW s \in Reg, NEW b \in Byte, NEW d \in Byte, CcittStep(r, b) = CcittStep(s, d)
             PROVE  (b = d => r = s) /\ (r = s => b = d)
  OBVIOUS
<1> DEFINE x == Reverse(Bits(b)) \o Zeros(8)
           y == Reverse(Bits(d)) \o Zeros(8)
<1>1. Bits(b) \in Octet /\ Bits(d) \in Octet /\ Zeros(8) \in Octet /\ Reverse(Bits(b)) \in Octet /\ Reverse(Bits(d)) \in Octet
      /\ \A k \in 1 .. 8 : Reverse(Bits(b))[k] = Bits(b)[9 - k] /\ Reverse(Bits(d))[k] = Bits(d)[9 - k]
  BY BitsIs, ZerosIs, ReverseOctet
<1>2. x \in Reg /\ y \in Reg /\ (\A k \in 1 .. 8 : x[k] = Reverse(Bits(b))[k])
      /\ (\A k \in 1 .. 8 : y[k] = Reverse(Bits(d))[k])
  BY <1>1, ThenZeros
<1>3. Shifts(Plus(r, x), Zeros(8), PolyCcitt) = Shifts(Plus(s, y), Zeros(8), PolyCcitt)
  BY DEF CcittStep
<1>5. b = d => x = y  OBVIOUS
<1> HIDE DEF x, y
<1>4. Plus(r, x) = Plus(s, y)  BY <1>1, <1>2, <1>3, PlusReg, PolysAre, ShiftsPart
<1>6. ASSUME b = d PROVE r = s  BY <1>2, <1>4, <1>5, <1>6, PlusGroup
<1>7. ASSUME r = s PROVE b = d
  <2>1. Plus(x, r) = Plus(y, r)  BY <1>2, <1>4, <1>7, PlusGroup
  <2>2. x = y  BY <1>2, <2>1, PlusGroup
  <2>3. \A k \in 1 .. 8 : Bits(b)[9 - k] = Bits(d)[9 - k]  BY <1>1, <1>2, <2>2
  <2>4. \A k \in 1 .. 8 : Bits(b)[k] = Bits(d)[k]
    <3> TAKE k \in 1 .. 8
    <3>1. 9 - k \in 1 .. 8 /\ 9 - (9 - k) = k  OBVIOUS
    <3>2. Bits(b)[9 - (9 - k)] = Bits(d)[9 - (9 - k)]  BY <2>3, <3>1
    <3> QED  BY <3>1, <3>2
  <2>5. Bits(b) = Bits(d)  BY <1>1, <2>4 DEF Octet
  <2> QED  BY <2>5, BitsPart
<1> QED  BY <1>6, <1>7

\* of checksum_xor,
LEMMA XorStepParts ==
  \A r, s \in Octet : \A b, d \in Byte : XorStep(r, b) = XorStep(s, d) => (b = d => r = s) /\ (r = s => b = d)
<1> SUFFICES ASSUME NEW r \in Octet, NEW s \in Octet, NEW b \in Byte, NEW d \in Byte, XorStep(r, b) = XorStep(s, d)
             PROVE  (b = d => r = s) /\ (r = s => b = d)
  OBVIOUS
<1> DEFINE x == Bits(b)
           y == Bits(d)
<1>1. x \in Octet /\ y \in Octet /\ Plus(r, x) = Plus(s, y) /\ (b = d => x = y) /\ (x = y => b = d)
  BY BitsIs, BitsPart DEF XorStep
<1> HIDE DEF x, y
<1>2. \A k \in 1 .. 8 : r[k] \in {0, 1} /\ s[k] \in {0, 1} /\ x[k] \in {0, 1} /\ y[k] \in {0, 1}
  BY <1>1 DEF Octet
<1>3. \A k \in 1 .. 8 : /\ Plus(r, x)[k] = IF r[k] = x[k] THEN 0 ELSE 1
                        /\ Plus(s, y)[k] = IF s[k] = y[k] THEN 0 ELSE 1
  BY <1>1, PlusOctet
<1>4. ASSUME x = y PROVE r = s
  <2>1. \A k \in 1 .. 8 : r[k] = s[k]  BY <1>1, <1>2, <1>3, <1>4
  <2> QED  BY <2>1 DEF Octet
<1>5. ASSUME r = s PROVE x = y
  <2>1. \A k \in 1 .. 8 : x[k] = y[k]  BY <1>1, <1>2, <1>3, <1>5
  <2> QED  BY <1>1, <2>1 DEF Octet
<1> QED  BY <1>1, <1>4, <1>5

\* and of checksum_sum,
LEMMA SumStepParts ==
  ASSUME NEW n \in Nat, NEW m \in Nat, NEW b \in Byte, NEW d \in Byte, (n + b) % 256 = (m + d) % 256
  PROVE  (b = d => n % 256 = m % 256) /\ (n % 256 = m % 256 => b = d)
<1>1. PICK p \in 0 .. 255 : p = n % 256  OBVIOUS
<1>2. PICK q \in 0 .. 255 : q = m % 256  OBVIOUS
<1>3. (n + b) % 256 = (p + b) % 256  BY <1>1 DEF Byte
<1>4. (m + d) % 256 = (q + d) % 256  BY <1>2 DEF Byte
<1>5. (b = d => p = q) /\ (p = q => b = d)
  <2>1. (p + b) % 256 = (q + d) % 256  BY <1>3, <1>4
  <2>2. (p + b) % 256 = (IF p + b < 256 THEN p + b ELSE p + b - 256)  BY DEF Byte
  <2>3. (q + d) % 256 = (IF q + d < 256 THEN q + d ELSE q + d - 256)  BY DEF Byte
  <2> QED  BY <2>1, <2>2, <2>3 DEF Byte
<1> QED  BY <1>1, <1>2, <1>5

\* where what is the same modulo 256 stays the same.
LEMMA SameSum ==
  ASSUME NEW n \in Nat, NEW m \in Nat, NEW b \in Byte, n % 256 = m % 256
  PROVE  (n + b) % 256 = (m + b) % 256
<1>1. (n + b) % 256 = ((n % 256) + b) % 256  BY DEF Byte
<1>2. (m + b) % 256 = ((m % 256) + b) % 256  BY DEF Byte
<1> QED  BY <1>1, <1>2

\* So another byte is another crc16_modbus,
LEMMA Crc16ModbusShows ==
  ASSUME NEW bytes \in Seq(Byte), NEW i \in 1 .. Len(bytes), NEW b \in Byte, b # bytes[i]
  PROVE  Crc16Modbus([bytes EXCEPT ![i] = b]) # Crc16Modbus(bytes)
<1> DEFINE other == [bytes EXCEPT ![i] = b]
           N == Len(bytes)
<1>1. other \in Seq(Byte) /\ Len(other) = N /\ N \in Nat /\ other[i] = b
      /\ \A n \in 1 .. N : n # i => other[n] = bytes[n]
  BY OneChanged
<1> HIDE DEF other
<1>2. PICK c \in [0 .. Len(bytes) -> Reg] :
        /\ c[0] = Ones /\ Crc16Modbus(bytes) = c[Len(bytes)]
        /\ \A n \in 1 .. Len(bytes) : c[n] = ModbusStep(c[n - 1], bytes[n])
  BY Crc16ModbusRun
<1>3. PICK d \in [0 .. Len(other) -> Reg] :
        /\ d[0] = Ones /\ Crc16Modbus(other) = d[Len(other)]
        /\ \A n \in 1 .. Len(other) : d[n] = ModbusStep(d[n - 1], other[n])
  BY <1>1, Crc16ModbusRun
<1>4. \A n \in 1 .. N : /\ n - 1 \in 0 .. N /\ bytes[n] \in Byte /\ other[n] \in Byte
                         /\ c[n - 1] \in Reg /\ d[n - 1] \in Reg
                         /\ c[n] = ModbusStep(c[n - 1], bytes[n]) /\ d[n] = ModbusStep(d[n - 1], other[n])
  <2> TAKE n \in 1 .. N
  <2>1. n - 1 \in 0 .. N /\ n \in 1 .. Len(bytes) /\ n \in 1 .. Len(other)  BY <1>1
  <2>2. bytes[n] \in Byte /\ other[n] \in Byte  BY <1>1, <2>1, ElementOfSeq
  <2> QED  BY <1>1, <1>2, <1>3, <2>1, <2>2
<1> HIDE DEF N
<1>5. \A n \in 1 .. N : n # i /\ c[n - 1] = d[n - 1] => c[n] = d[n]  BY <1>1, <1>4
<1>6. c[i - 1] = d[i - 1] => c[i] # d[i]  BY <1>1, <1>4, ModbusStepParts DEF N
<1>7. \A n \in 1 .. N : n # i /\ c[n - 1] # d[n - 1] => c[n] # d[n]
  <2> SUFFICES ASSUME NEW n \in 1 .. N, n # i, c[n - 1] # d[n - 1] PROVE c[n] # d[n]  OBVIOUS
  <2>1. other[n] = bytes[n]  BY <1>1
  <2>2. c[n] = ModbusStep(c[n - 1], bytes[n]) /\ d[n] = ModbusStep(d[n - 1], bytes[n])
        /\ c[n - 1] \in Reg /\ d[n - 1] \in Reg /\ bytes[n] \in Byte
    BY <1>4, <2>1
  <2> QED  BY <2>2, ModbusStepParts
<1>8. c[0] = d[0] /\ i \in 1 .. N /\ N \in Nat  BY <1>1, <1>2, <1>3 DEF N
<1>9. c[N] # d[N]
  <2>1. Apart(c, d, i, N)  BY <1>5, <1>6, <1>7, <1>8 DEF Apart
  <2> QED  BY <2>1, RunsPart
<1> QED  BY <1>1, <1>2, <1>3, <1>9 DEF N, other

\* another crc16_ccitt,
LEMMA Crc16CcittShows ==
  ASSUME NEW bytes \in Seq(Byte), NEW i \in 1 .. Len(bytes), NEW b \in Byte, b # bytes[i]
  PROVE  Crc16Ccitt([bytes EXCEPT ![i] = b]) # Crc16Ccitt(bytes)
<1> DEFINE other == [bytes EXCEPT ![i] = b]
           N == Len(bytes)
<1>1. other \in Seq(Byte) /\ Len(other) = N /\ N \in Nat /\ other[i] = b
      /\ \A n \in 1 .. N : n # i => other[n] = bytes[n]
  BY OneChanged
<1> HIDE DEF other
<1>2. PICK c \in [0 .. Len(bytes) -> Reg] :
        /\ c[0] = Zeros(16) /\ Crc16Ccitt(bytes) = c[Len(bytes)]
        /\ \A n \in 1 .. Len(bytes) : c[n] = CcittStep(c[n - 1], bytes[n])
  BY Crc16CcittRun
<1>3. PICK d \in [0 .. Len(other) -> Reg] :
        /\ d[0] = Zeros(16) /\ Crc16Ccitt(other) = d[Len(other)]
        /\ \A n \in 1 .. Len(other) : d[n] = CcittStep(d[n - 1], other[n])
  BY <1>1, Crc16CcittRun
<1>4. \A n \in 1 .. N : /\ n - 1 \in 0 .. N /\ bytes[n] \in Byte /\ other[n] \in Byte
                         /\ c[n - 1] \in Reg /\ d[n - 1] \in Reg
                         /\ c[n] = CcittStep(c[n - 1], bytes[n]) /\ d[n] = CcittStep(d[n - 1], other[n])
  <2> TAKE n \in 1 .. N
  <2>1. n - 1 \in 0 .. N /\ n \in 1 .. Len(bytes) /\ n \in 1 .. Len(other)  BY <1>1
  <2>2. bytes[n] \in Byte /\ other[n] \in Byte  BY <1>1, <2>1, ElementOfSeq
  <2> QED  BY <1>1, <1>2, <1>3, <2>1, <2>2
<1> HIDE DEF N
<1>5. \A n \in 1 .. N : n # i /\ c[n - 1] = d[n - 1] => c[n] = d[n]  BY <1>1, <1>4
<1>6. c[i - 1] = d[i - 1] => c[i] # d[i]  BY <1>1, <1>4, CcittStepParts DEF N
<1>7. \A n \in 1 .. N : n # i /\ c[n - 1] # d[n - 1] => c[n] # d[n]
  <2> SUFFICES ASSUME NEW n \in 1 .. N, n # i, c[n - 1] # d[n - 1] PROVE c[n] # d[n]  OBVIOUS
  <2>1. other[n] = bytes[n]  BY <1>1
  <2>2. c[n] = CcittStep(c[n - 1], bytes[n]) /\ d[n] = CcittStep(d[n - 1], bytes[n])
        /\ c[n - 1] \in Reg /\ d[n - 1] \in Reg /\ bytes[n] \in Byte
    BY <1>4, <2>1
  <2> QED  BY <2>2, CcittStepParts
<1>8. c[0] = d[0] /\ i \in 1 .. N /\ N \in Nat  BY <1>1, <1>2, <1>3 DEF N
<1>9. c[N] # d[N]
  <2>1. Apart(c, d, i, N)  BY <1>5, <1>6, <1>7, <1>8 DEF Apart
  <2> QED  BY <2>1, RunsPart
<1> QED  BY <1>1, <1>2, <1>3, <1>9 DEF N, other

\* another checksum_xor
LEMMA ChecksumXorShows ==
  ASSUME NEW bytes \in Seq(Byte), NEW i \in 1 .. Len(bytes), NEW b \in Byte, b # bytes[i]
  PROVE  ChecksumXor([bytes EXCEPT ![i] = b]) # ChecksumXor(bytes)
<1> DEFINE other == [bytes EXCEPT ![i] = b]
           N == Len(bytes)
<1>1. other \in Seq(Byte) /\ Len(other) = N /\ N \in Nat /\ other[i] = b
      /\ \A n \in 1 .. N : n # i => other[n] = bytes[n]
  BY OneChanged
<1> HIDE DEF other
<1>2. PICK c \in [0 .. Len(bytes) -> Octet] :
        /\ c[0] = Zeros(8) /\ ChecksumXor(bytes) = c[Len(bytes)]
        /\ \A n \in 1 .. Len(bytes) : c[n] = XorStep(c[n - 1], bytes[n])
  BY ChecksumXorRun
<1>3. PICK d \in [0 .. Len(other) -> Octet] :
        /\ d[0] = Zeros(8) /\ ChecksumXor(other) = d[Len(other)]
        /\ \A n \in 1 .. Len(other) : d[n] = XorStep(d[n - 1], other[n])
  BY <1>1, ChecksumXorRun
<1>4. \A n \in 1 .. N : /\ n - 1 \in 0 .. N /\ bytes[n] \in Byte /\ other[n] \in Byte
                         /\ c[n - 1] \in Octet /\ d[n - 1] \in Octet
                         /\ c[n] = XorStep(c[n - 1], bytes[n]) /\ d[n] = XorStep(d[n - 1], other[n])
  <2> TAKE n \in 1 .. N
  <2>1. n - 1 \in 0 .. N /\ n \in 1 .. Len(bytes) /\ n \in 1 .. Len(other)  BY <1>1
  <2>2. bytes[n] \in Byte /\ other[n] \in Byte  BY <1>1, <2>1, ElementOfSeq
  <2> QED  BY <1>1, <1>2, <1>3, <2>1, <2>2
<1> HIDE DEF N
<1>5. \A n \in 1 .. N : n # i /\ c[n - 1] = d[n - 1] => c[n] = d[n]  BY <1>1, <1>4
<1>6. c[i - 1] = d[i - 1] => c[i] # d[i]  BY <1>1, <1>4, XorStepParts DEF N
<1>7. \A n \in 1 .. N : n # i /\ c[n - 1] # d[n - 1] => c[n] # d[n]
  <2> SUFFICES ASSUME NEW n \in 1 .. N, n # i, c[n - 1] # d[n - 1] PROVE c[n] # d[n]  OBVIOUS
  <2>1. other[n] = bytes[n]  BY <1>1
  <2>2. c[n] = XorStep(c[n - 1], bytes[n]) /\ d[n] = XorStep(d[n - 1], bytes[n])
        /\ c[n - 1] \in Octet /\ d[n - 1] \in Octet /\ bytes[n] \in Byte
    BY <1>4, <2>1
  <2> QED  BY <2>2, XorStepParts
<1>8. c[0] = d[0] /\ i \in 1 .. N /\ N \in Nat  BY <1>1, <1>2, <1>3 DEF N
<1>9. c[N] # d[N]
  <2>1. Apart(c, d, i, N)  BY <1>5, <1>6, <1>7, <1>8 DEF Apart
  <2> QED  BY <2>1, RunsPart
<1> QED  BY <1>1, <1>2, <1>3, <1>9 DEF N, other

\* and another checksum_sum.
LEMMA ChecksumSumShows ==
  ASSUME NEW bytes \in Seq(Byte), NEW i \in 1 .. Len(bytes), NEW b \in Byte, b # bytes[i]
  PROVE  ChecksumSum([bytes EXCEPT ![i] = b]) # ChecksumSum(bytes)
<1> DEFINE other == [bytes EXCEPT ![i] = b]
           N == Len(bytes)
<1>1. other \in Seq(Byte) /\ Len(other) = N /\ N \in Nat /\ other[i] = b
      /\ \A n \in 1 .. N : n # i => other[n] = bytes[n]
  BY OneChanged
<1> HIDE DEF other
<1>2. PICK c \in [0 .. Len(bytes) -> Nat] :
        /\ c[0] = 0 /\ ChecksumSum(bytes) = c[Len(bytes)] % 256
        /\ \A n \in 1 .. Len(bytes) : c[n] = SumStep(c[n - 1], bytes[n])
  BY ChecksumSumRun
<1>3. PICK d \in [0 .. Len(other) -> Nat] :
        /\ d[0] = 0 /\ ChecksumSum(other) = d[Len(other)] % 256
        /\ \A n \in 1 .. Len(other) : d[n] = SumStep(d[n - 1], other[n])
  BY <1>1, ChecksumSumRun
<1>4. \A n \in 1 .. N : /\ n - 1 \in 0 .. N /\ bytes[n] \in Byte /\ other[n] \in Byte
                         /\ c[n - 1] \in Nat /\ d[n - 1] \in Nat
                         /\ c[n] = SumStep(c[n - 1], bytes[n]) /\ d[n] = SumStep(d[n - 1], other[n])
  <2> TAKE n \in 1 .. N
  <2>1. n - 1 \in 0 .. N /\ n \in 1 .. Len(bytes) /\ n \in 1 .. Len(other)  BY <1>1
  <2>2. bytes[n] \in Byte /\ other[n] \in Byte  BY <1>1, <2>1, ElementOfSeq
  <2> QED  BY <1>1, <1>2, <1>3, <2>1, <2>2
<1> DEFINE f == [n \in 0 .. N |-> c[n] % 256]
           g == [n \in 0 .. N |-> d[n] % 256]
<1>5. \A n \in 1 .. N : /\ f[n] = (c[n - 1] + bytes[n]) % 256 /\ g[n] = (d[n - 1] + other[n]) % 256
                         /\ f[n - 1] = c[n - 1] % 256 /\ g[n - 1] = d[n - 1] % 256
  BY <1>1, <1>4 DEF SumStep
<1>6. f[0] = g[0] /\ i \in 1 .. N /\ N \in Nat /\ f[N] = c[N] % 256 /\ g[N] = d[N] % 256
  BY <1>1, <1>2, <1>3
<1> HIDE DEF f, g, N
<1>7. \A n \in 1 .. N : n # i /\ f[n - 1] = g[n - 1] => f[n] = g[n]
  <2> TAKE n \in 1 .. N
  <2>1. c[n - 1] \in Nat /\ d[n - 1] \in Nat /\ bytes[n] \in Byte  BY <1>4
  <2>2. (c[n - 1] + bytes[n]) % 256 = (d[n - 1] + bytes[n]) % 256 => c[n - 1] % 256 = d[n - 1] % 256
    BY <2>1, SumStepParts
  <2>4. c[n - 1] % 256 = d[n - 1] % 256 => (c[n - 1] + bytes[n]) % 256 = (d[n - 1] + bytes[n]) % 256
    BY <2>1, SameSum
  <2>3. n # i => other[n] = bytes[n]  BY <1>1
  <2> QED  BY <1>5, <2>2, <2>3, <2>4
<1>8. \A n \in 1 .. N : n # i /\ f[n - 1] # g[n - 1] => f[n] # g[n]
  <2> TAKE n \in 1 .. N
  <2>1. c[n - 1] \in Nat /\ d[n - 1] \in Nat /\ bytes[n] \in Byte  BY <1>4
  <2>2. (c[n - 1] + bytes[n]) % 256 = (d[n - 1] + bytes[n]) % 256 => c[n - 1] % 256 = d[n - 1] % 256
    BY <2>1, SumStepParts
  <2>4. c[n - 1] % 256 = d[n - 1] % 256 => (c[n - 1] + bytes[n]) % 256 = (d[n - 1] + bytes[n]) % 256
    BY <2>1, SameSum
  <2>3. n # i => other[n] = bytes[n]  BY <1>1
  <2> QED  BY <1>5, <2>2, <2>3, <2>4
<1>9. f[i - 1] = g[i - 1] => f[i] # g[i]
  <2>1. c[i - 1] \in Nat /\ d[i - 1] \in Nat /\ bytes[i] \in Byte  BY <1>4, <1>6
  <2> QED  BY <1>1, <1>5, <1>6, <2>1, SumStepParts
<1>10. f[N] # g[N]
  <2>1. Apart(f, g, i, N)  BY <1>6, <1>7, <1>8, <1>9 DEF Apart
  <2> QED  BY <2>1, RunsPart
<1> QED  BY <1>1, <1>2, <1>3, <1>6, <1>10 DEF N, other

-----------------------------------------------------------------------------
(* The CRC of the code and the remainder of the standard.                  *)

\* Eight shifts of a register whose first eight bits are zeros move its last eight there.
LEMMA FreeShifts ==
  ASSUME NEW r \in Reg, NEW x \in Octet, NEW poly \in Reg, \A k \in 1 .. 8 : r[k] = 0
  PROVE  \A k \in 1 .. 16 : Shifts(r, x, poly)[k] = IF k <= 8 THEN r[k + 8] ELSE x[k - 8]
<1>1. (\A k \in 1 .. 8 : x[k] \in {0, 1}) /\ \A k \in 1 .. 16 : r[k] \in {0, 1}
  BY OctetSeq, BitOfReg
<1>2. PICK c : IsShifts(c, r, x, poly) /\ Shifts(r, x, poly) = c[8]  BY OctetShifts
<1> DEFINE moved(n) == [k \in 1 .. 16 |-> IF k + n <= 16 THEN r[k + n] ELSE x[k + n - 16]]
           N == 8
           g == [n \in 0 .. 8 |-> moved(n)]
<1>3. \A n \in 0 .. 8 : moved(n) \in Reg
  <2> TAKE n \in 0 .. 8
  <2>1. \A k \in 1 .. 16 : k + n <= 16 => k + n \in 1 .. 16  OBVIOUS
  <2>2. \A k \in 1 .. 16 : ~(k + n <= 16) => k + n - 16 \in 1 .. 8  OBVIOUS
  <2>3. \A k \in 1 .. 16 : (IF k + n <= 16 THEN r[k + n] ELSE x[k + n - 16]) \in {0, 1}
    BY <1>1, <2>1, <2>2
  <2> QED  BY <2>3 DEF Reg
<1>4. \A n \in 0 .. 8 : \A k \in 1 .. 16 : moved(n)[k] = IF k + n <= 16 THEN r[k + n] ELSE x[k + n - 16]  OBVIOUS
<1>5. \A n \in 0 .. 8 : g[n] = moved(n)  OBVIOUS
<1> HIDE DEF moved, g
<1>6. c[0] = g[0]
  <2>1. c[0] = r  BY <1>2 DEF IsShifts
  <2>2. \A k \in 1 .. 16 : moved(0)[k] = r[k]  BY <1>4
  <2> QED  BY <1>3, <1>5, <2>1, <2>2, SameReg
<1>7. \A n \in 1 .. N : c[n - 1] = g[n - 1] => c[n] = g[n]
  <2> SUFFICES ASSUME NEW n \in 1 .. N, c[n - 1] = g[n - 1] PROVE c[n] = g[n]  OBVIOUS
  <2>1. n \in 1 .. 8 /\ n \in 0 .. 8 /\ n - 1 \in 0 .. 8 /\ x[n] \in {0, 1}  BY <1>1
  <2> DEFINE s == moved(n - 1)
             t == Shifted(s, x[n], poly)
  <2>2. s \in Reg /\ c[n - 1] = s /\ c[n] = t  BY <1>2, <1>3, <1>5, <2>1 DEF IsShifts
  <2>3. s[1] = 0
    <3>1. s[1] = IF 1 + (n - 1) <= 16 THEN r[1 + (n - 1)] ELSE x[1 + (n - 1) - 16]  BY <1>4, <2>1
    <3>2. 1 + (n - 1) = n /\ n <= 16  BY <2>1
    <3> QED  BY <2>1, <3>1, <3>2
  <2>4. t \in Reg /\ (\A k \in 1 .. 15 : t[k] = IF s[k + 1] = 0 THEN 0 ELSE 1) /\ t[16] = IF x[n] = 0 THEN 0 ELSE 1
    BY <2>1, <2>2, <2>3, ShiftedIs
  <2>5. \A k \in 1 .. 15 : s[k + 1] = moved(n)[k]
    <3> TAKE k \in 1 .. 15
    <3>1. s[k + 1] = IF (k + 1) + (n - 1) <= 16 THEN r[(k + 1) + (n - 1)] ELSE x[(k + 1) + (n - 1) - 16]
      BY <1>4, <2>1
    <3>2. moved(n)[k] = IF k + n <= 16 THEN r[k + n] ELSE x[k + n - 16]  BY <1>4, <2>1
    <3>3. (k + 1) + (n - 1) = k + n  BY <2>1
    <3> QED  BY <3>1, <3>2, <3>3
  <2>6. moved(n)[16] = x[n]
    <3>1. moved(n)[16] = IF 16 + n <= 16 THEN r[16 + n] ELSE x[16 + n - 16]  BY <1>4, <2>1
    <3>2. ~(16 + n <= 16) /\ 16 + n - 16 = n  BY <2>1
    <3> QED  BY <3>1, <3>2
  <2>7. \A k \in 1 .. 16 : moved(n)[k] \in {0, 1}  BY <1>3, <2>1, BitOfReg
  <2> HIDE DEF s, t
  <2>8. \A k \in 1 .. 15 : t[k] = moved(n)[k]  BY <2>4, <2>5, <2>7
  <2>9. t[16] = moved(n)[16]  BY <2>1, <2>4, <2>6
  <2>10. \A k \in 1 .. 16 : t[k] = moved(n)[k]  BY <2>8, <2>9
  <2> QED  BY <1>3, <1>5, <2>1, <2>2, <2>4, <2>10, SameReg
<1>8. N \in Nat  OBVIOUS
<1>9. \A n \in 0 .. N : c[n] = g[n]
  <2> HIDE DEF N
  <2>1. Together(c, g, N)  BY <1>6, <1>7, <1>8 DEF Together
  <2> QED  BY <2>1, RunsAgree
<1>10. c[8] = moved(8)  BY <1>5, <1>9
<1>11. \A k \in 1 .. 16 : (k + 8 <= 16 <=> k <= 8) /\ k + 8 - 16 = k - 8  OBVIOUS
<1>12. \A k \in 1 .. 16 : moved(8)[k] = IF k + 8 <= 16 THEN r[k + 8] ELSE x[k + 8 - 16]  BY <1>4
<1> QED  BY <1>2, <1>10, <1>11, <1>12

\* The bits of a byte at the two ends of a register, and what eight shifts make of them.
Lower(x) == x \o Zeros(8)
Upper(x) == Zeros(8) \o x
Eight(r) == Shifts(r, Zeros(8), Poly16)

\* The bits at the first end,
LEMMA LowerIs ==
  ASSUME NEW x \in Octet
  PROVE  Lower(x) \in Reg /\ \A k \in 1 .. 16 : Lower(x)[k] = IF k <= 8 THEN x[k] ELSE 0
<1>1. Lower(x) \in Reg /\ (\A k \in 1 .. 8 : Lower(x)[k] = x[k]) /\ \A k \in 9 .. 16 : Lower(x)[k] = 0
  BY ThenZeros DEF Lower
<1> QED  BY <1>1

\* and at the last.
LEMMA UpperIs ==
  ASSUME NEW x \in Octet
  PROVE  Upper(x) \in Reg /\ \A k \in 1 .. 16 : Upper(x)[k] = IF k <= 8 THEN 0 ELSE x[k - 8]
<1> DEFINE o == Zeros(8)
           w == o \o x
<1>1. o \in Octet /\ \A k \in 1 .. 8 : o[k] = 0  BY ZerosIs
<1>2. w \in Reg /\ \A k \in 1 .. 16 : w[k] = IF k <= 8 THEN o[k] ELSE x[k - 8]
  <2> HIDE DEF o
  <2> QED  BY <1>1, OctetsJoin
<1> HIDE DEF o, w
<1>3. w \in Reg /\ \A k \in 1 .. 16 : w[k] = IF k <= 8 THEN 0 ELSE x[k - 8]  BY <1>1, <1>2
<1> QED  BY <1>3 DEF w, o, Upper

\* Eight shifts of a sum,
LEMMA EightIs ==
  ASSUME NEW r \in Reg, NEW s \in Reg
  PROVE  Eight(r) \in Reg /\ Eight(Plus(r, s)) = Plus(Eight(r), Eight(s))
BY ZerosIs, PolysAre, ShiftsIs, ShiftsLinear DEF Eight

\* of bits at the last end, which come to the first,
LEMMA EightUpper ==
  ASSUME NEW x \in Octet
  PROVE  Eight(Upper(x)) = Lower(x)
<1>1. Upper(x) \in Reg /\ \A k \in 1 .. 16 : Upper(x)[k] = IF k <= 8 THEN 0 ELSE x[k - 8]  BY UpperIs
<1>2. Lower(x) \in Reg /\ \A k \in 1 .. 16 : Lower(x)[k] = IF k <= 8 THEN x[k] ELSE 0  BY LowerIs
<1>3. Eight(Upper(x)) \in Reg  BY <1>1, EightIs
<1>4. Zeros(8) \in Octet /\ Poly16 \in Reg /\ \A k \in 1 .. 8 : Zeros(8)[k] = 0  BY ZerosIs, PolysAre
<1>5. \A k \in 1 .. 16 : Eight(Upper(x))[k] = IF k <= 8 THEN Upper(x)[k + 8] ELSE Zeros(8)[k - 8]
  BY <1>1, <1>4, FreeShifts DEF Eight
<1>6. \A k \in 1 .. 16 : Eight(Upper(x))[k] = Lower(x)[k]
  <2> TAKE k \in 1 .. 16
  <2>1. CASE k <= 8
    <3>1. k + 8 \in 1 .. 16 /\ ~(k + 8 <= 8) /\ k + 8 - 8 = k  BY <2>1
    <3>2. Upper(x)[k + 8] = x[k]  BY <1>1, <3>1
    <3> QED  BY <1>2, <1>5, <2>1, <3>2
  <2>2. CASE ~(k <= 8)
    <3>1. k - 8 \in 1 .. 8  BY <2>2
    <3> QED  BY <1>2, <1>4, <1>5, <2>2, <3>1
  <2> QED  BY <2>1, <2>2
<1> QED  BY <1>2, <1>3, <1>6, SameReg

\* and of nothing, into which the bits come.
LEMMA ZerosShifted ==
  ASSUME NEW x \in Octet
  PROVE  Shifts(Zeros(16), x, Poly16) = Upper(x)
<1>1. Upper(x) \in Reg /\ \A k \in 1 .. 16 : Upper(x)[k] = IF k <= 8 THEN 0 ELSE x[k - 8]  BY UpperIs
<1> DEFINE z == Zeros(16)
<1>2. z \in Reg /\ Poly16 \in Reg /\ \A k \in 1 .. 16 : z[k] = 0  BY ZerosIs, PolysAre
<1> HIDE DEF z
<1> DEFINE s == Shifts(z, x, Poly16)
<1>3. \A k \in 1 .. 8 : z[k] = 0  BY <1>2
<1>4. s \in Reg /\ \A k \in 1 .. 16 : s[k] = IF k <= 8 THEN z[k + 8] ELSE x[k - 8]
  BY <1>2, <1>3, ShiftsIs, FreeShifts
<1> HIDE DEF s
<1>5. \A k \in 1 .. 16 : s[k] = Upper(x)[k]
  <2> TAKE k \in 1 .. 16
  <2>1. k <= 8 => k + 8 \in 1 .. 16  OBVIOUS
  <2> QED  BY <1>1, <1>2, <1>4, <2>1
<1> QED  BY <1>1, <1>4, <1>5, SameReg DEF s, z

\* The step of the division: eight shifts, and the byte is added at the last end,
LEMMA DivisionIs ==
  ASSUME NEW r \in Reg, NEW b \in Byte
  PROVE  DivisionStep(r, b) = Plus(Eight(r), Upper(Bits(b)))
<1> DEFINE x == Bits(b)
           z == Zeros(16)
<1>1. x \in Octet /\ z \in Reg /\ Poly16 \in Reg  BY BitsIs, ZerosIs, PolysAre
<1>2. Shifts(z, x, Poly16) = Upper(x)  BY <1>1, ZerosShifted
<1>3. r = Plus(z, r)  BY <1>1, PlusGroup
<1>4. DivisionStep(r, b) = Shifts(r, x, Poly16)  BY PolysAre DEF DivisionStep
<1> HIDE DEF x, z
<1>5. Shifts(Plus(z, r), x, Poly16) = Plus(Shifts(z, x, Poly16), Eight(r))
  BY <1>1, ShiftsLinear DEF Eight
<1>6. Upper(x) \in Reg /\ Eight(r) \in Reg  BY <1>1, UpperIs, EightIs
<1>7. DivisionStep(r, b) = Plus(Upper(x), Eight(r))  BY <1>2, <1>3, <1>4, <1>5
<1>8. Plus(Upper(x), Eight(r)) = Plus(Eight(r), Upper(x))  BY <1>6, PlusGroup
<1> QED  BY <1>7, <1>8 DEF x

\* where crc16_modbus adds it at the first and then shifts.
LEMMA ModbusIs ==
  ASSUME NEW r \in Reg, NEW b \in Byte
  PROVE  ModbusStep(r, b) = Eight(Plus(r, Lower(Bits(b))))
BY DEF ModbusStep, Eight, Lower

\* What the standard divides and what the code computes differ by sixteen shifts.
LEMMA StepsAgree ==
  ASSUME NEW r \in Reg, NEW b \in Byte
  PROVE  ModbusStep(Eight(Eight(r)), b) = Eight(Eight(DivisionStep(r, b)))
<1> DEFINE x == Bits(b)
<1>1. x \in Octet  BY BitsIs
<1>2. ModbusStep(Eight(Eight(r)), b) = Eight(Plus(Eight(Eight(r)), Lower(x)))  BY EightIs, ModbusIs
<1>3. DivisionStep(r, b) = Plus(Eight(r), Upper(x))  BY DivisionIs
<1> HIDE DEF x
<1>4. Eight(r) \in Reg /\ Upper(x) \in Reg  BY <1>1, EightIs, UpperIs
<1>5. Lower(x) = Eight(Upper(x))  BY <1>1, EightUpper
<1>6. Eight(Plus(Eight(r), Upper(x))) = Plus(Eight(Eight(r)), Eight(Upper(x)))  BY <1>4, EightIs
<1> QED  BY <1>2, <1>3, <1>5, <1>6

\* An inverted byte.
LEMMA Inverted ==
  ASSUME NEW b \in Byte
  PROVE  255 - b \in Byte /\ \A k \in 1 .. 8 : Bits(255 - b)[k] = 1 - Bits(b)[k]
<1> DEFINE x == [k \in 1 .. 8 |-> 1 - Bits(b)[k]]
<1>1. 255 - b \in Byte /\ Bits(b) \in Octet /\ b = Number(Bits(b)) /\ Bits(255 - b) \in Octet /\ 255 - b = Number(Bits(255 - b))
  <2>1. 255 - b \in Byte  BY DEF Byte
  <2> QED  BY <2>1, BitsIs
<1>2. \A k \in 1 .. 8 : Bits(b)[k] \in {0, 1}  BY <1>1, OctetSeq
<1>3. x \in Octet /\ \A k \in 1 .. 8 : x[k] = 1 - Bits(b)[k]
  <2>1. \A k \in 1 .. 8 : 1 - Bits(b)[k] \in {0, 1}  BY <1>2
  <2> QED  BY <2>1 DEF Octet
<1> HIDE DEF x
<1>4. x[1] = 1 - Bits(b)[1] /\ x[2] = 1 - Bits(b)[2] /\ x[3] = 1 - Bits(b)[3] /\ x[4] = 1 - Bits(b)[4]
      /\ x[5] = 1 - Bits(b)[5] /\ x[6] = 1 - Bits(b)[6] /\ x[7] = 1 - Bits(b)[7] /\ x[8] = 1 - Bits(b)[8]
  BY <1>3
<1>5. Bits(b)[1] \in {0, 1} /\ Bits(b)[2] \in {0, 1} /\ Bits(b)[3] \in {0, 1} /\ Bits(b)[4] \in {0, 1}
      /\ Bits(b)[5] \in {0, 1} /\ Bits(b)[6] \in {0, 1} /\ Bits(b)[7] \in {0, 1} /\ Bits(b)[8] \in {0, 1}
  BY <1>2
<1>6. Number(x) = 255 - Number(Bits(b))  BY <1>4, <1>5 DEF Number
<1>7. x = Bits(255 - b)  BY <1>1, <1>3, <1>6, NumbersDiffer
<1> QED  BY <1>1, <1>3, <1>7

\* The bits of 255 and of 0.
LEMMA BitsOfAll == Bits(255) \in Octet /\ (\A k \in 1 .. 8 : Bits(255)[k] = 1) /\ Bits(0) = Zeros(8)
<1>1. 255 \in Byte /\ 0 \in Byte  BY DEF Byte
<1>2. Bits(0) \in Octet /\ \A k \in 1 .. 8 : Bits(0)[k] = 0
  <2>1. Bits(0) \in Octet  BY <1>1, BitsIs
  <2>2. Bits(0)[1] = 0 /\ Bits(0)[2] = 0 /\ Bits(0)[3] = 0 /\ Bits(0)[4] = 0 /\ Bits(0)[5] = 0 /\ Bits(0)[6] = 0
        /\ Bits(0)[7] = 0 /\ Bits(0)[8] = 0
    BY DEF Bits, Weight
  <2> QED  BY <2>1, <2>2
<1>3. Bits(255) \in Octet /\ \A k \in 1 .. 8 : Bits(255)[k] = 1
  <2>1. Bits(255) \in Octet  BY <1>1, BitsIs
  <2>2. \A k \in 1 .. 8 : Bits(255 - 0)[k] = 1 - Bits(0)[k]  BY <1>1, Inverted
  <2> QED  BY <1>2, <2>1, <2>2
<1>4. Bits(0) = Zeros(8)  BY <1>2 DEF Zeros, Octet
<1> QED  BY <1>3, <1>4

\* Adding eight ones inverts a byte.
LEMMA LowerInverted ==
  ASSUME NEW b \in Byte
  PROVE  Plus(Lower(Bits(b)), Lower(Bits(255))) = Lower(Bits(255 - b))
<1> DEFINE x == Bits(b)
           y == Bits(255)
           z == Bits(255 - b)
<1>1. x \in Octet /\ y \in Octet /\ z \in Octet /\ 255 - b \in Byte  BY BitsIs, BitsOfAll, Inverted
<1>2. (\A k \in 1 .. 8 : y[k] = 1) /\ (\A k \in 1 .. 8 : z[k] = 1 - x[k]) /\ \A k \in 1 .. 8 : x[k] \in {0, 1}
  BY <1>1, BitsOfAll, Inverted, OctetSeq
<1> HIDE DEF x, y, z
<1>3. Lower(x) \in Reg /\ \A k \in 1 .. 16 : Lower(x)[k] = IF k <= 8 THEN x[k] ELSE 0
  BY <1>1, LowerIs
<1>4. Lower(y) \in Reg /\ \A k \in 1 .. 16 : Lower(y)[k] = IF k <= 8 THEN y[k] ELSE 0
  BY <1>1, LowerIs
<1>5. Lower(z) \in Reg /\ \A k \in 1 .. 16 : Lower(z)[k] = IF k <= 8 THEN z[k] ELSE 0
  BY <1>1, LowerIs
<1>6. Plus(Lower(x), Lower(y)) \in Reg
      /\ \A k \in 1 .. 16 : Plus(Lower(x), Lower(y))[k] = IF Lower(x)[k] = Lower(y)[k] THEN 0 ELSE 1
  BY <1>3, <1>4, PlusReg
<1>7. \A k \in 1 .. 16 : Plus(Lower(x), Lower(y))[k] = Lower(z)[k]
  <2> TAKE k \in 1 .. 16
  <2>1. CASE k <= 8
    <3>1. k \in 1 .. 8  BY <2>1
    <3> QED  BY <1>2, <1>3, <1>4, <1>5, <1>6, <2>1, <3>1
  <2>2. CASE ~(k <= 8)  BY <1>3, <1>4, <1>5, <1>6, <2>2
  <2> QED  BY <2>1, <2>2
<1>8. Plus(Lower(x), Lower(y)) = Lower(z)  BY <1>5, <1>6, <1>7, SameReg
<1> QED  BY <1>8 DEF x, y, z

\* Sixteen ones are eight ones at each end.
LEMMA OnesAre == Ones = Plus(Lower(Bits(255)), Upper(Bits(255)))
<1> DEFINE y == Bits(255)
<1>1. y \in Octet /\ \A k \in 1 .. 8 : y[k] = 1  BY BitsOfAll
<1>2. Ones \in Reg /\ \A k \in 1 .. 16 : Ones[k] = 1  BY ZerosIs
<1> HIDE DEF y
<1>3. Lower(y) \in Reg /\ \A k \in 1 .. 16 : Lower(y)[k] = IF k <= 8 THEN y[k] ELSE 0
  BY <1>1, LowerIs
<1>4. Upper(y) \in Reg /\ \A k \in 1 .. 16 : Upper(y)[k] = IF k <= 8 THEN 0 ELSE y[k - 8]
  BY <1>1, UpperIs
<1>5. Plus(Lower(y), Upper(y)) \in Reg
      /\ \A k \in 1 .. 16 : Plus(Lower(y), Upper(y))[k] = IF Lower(y)[k] = Upper(y)[k] THEN 0 ELSE 1
  BY <1>3, <1>4, PlusReg
<1>6. \A k \in 1 .. 16 : Plus(Lower(y), Upper(y))[k] = Ones[k]
  <2> TAKE k \in 1 .. 16
  <2>1. CASE k <= 8
    <3>1. k \in 1 .. 8  BY <2>1
    <3> QED  BY <1>1, <1>2, <1>3, <1>4, <1>5, <2>1, <3>1
  <2>2. CASE ~(k <= 8)
    <3>1. k - 8 \in 1 .. 8  BY <2>2
    <3> QED  BY <1>1, <1>2, <1>3, <1>4, <1>5, <2>2, <3>1
  <2> QED  BY <2>1, <2>2
<1>7. Ones = Plus(Lower(y), Upper(y))  BY <1>2, <1>5, <1>6, SameReg
<1> QED  BY <1>7 DEF y

\* The first two bytes, where the code starts with ones and the standard inverts.
LEMMA StartsAgree ==
  ASSUME NEW b \in Byte, NEW d \in Byte
  PROVE  ModbusStep(ModbusStep(Ones, b), d)
           = Eight(Eight(DivisionStep(DivisionStep(Zeros(16), 255 - b), 255 - d)))
<1> DEFINE xb == Lower(Bits(b))
           xd == Lower(Bits(d))
           nb == Lower(Bits(255 - b))
           nd == Lower(Bits(255 - d))
           low == Lower(Bits(255))
           up == Upper(Bits(255))
           r1 == DivisionStep(Zeros(16), 255 - b)
           hb == Upper(Bits(255 - b))
<1>1. 255 - b \in Byte /\ 255 - d \in Byte  BY Inverted
<1>2. Bits(b) \in Octet /\ Bits(d) \in Octet /\ Bits(255 - b) \in Octet /\ Bits(255 - d) \in Octet /\ Bits(255) \in Octet
  BY <1>1, BitsIs, BitsOfAll
<1>3. xb \in Reg /\ xd \in Reg /\ nb \in Reg /\ nd \in Reg /\ low \in Reg /\ up \in Reg /\ hb \in Reg
  BY <1>2, LowerIs, UpperIs
<1>4. r1 = hb /\ r1 \in Reg
  <2>1. Zeros(16) \in Reg /\ Divisor = Poly16  BY ZerosIs, PolysAre
  <2>2. DivisionStep(Zeros(16), 255 - b) = Shifts(Zeros(16), Bits(255 - b), Poly16)
    BY <2>1 DEF DivisionStep
  <2> QED  BY <1>2, <1>3, <2>2, ZerosShifted
<1>5. Eight(hb) = nb /\ Eight(up) = low  BY <1>2, EightUpper
<1>6. Plus(xb, low) = nb /\ Plus(xd, low) = nd  BY LowerInverted
<1>7. Ones = Plus(low, up) /\ Ones \in Reg  BY OnesAre, ZerosIs
<1>8. ModbusStep(Ones, b) = Eight(Plus(Ones, xb))  BY <1>7, ModbusIs
<1>9. \A r \in Reg : ModbusStep(r, d) = Eight(Plus(r, xd)) /\ ModbusStep(r, 255 - d) = Eight(Plus(r, nd))
  BY <1>1, ModbusIs
<1>10. \A r \in Reg : ModbusStep(Eight(Eight(r)), 255 - d) = Eight(Eight(DivisionStep(r, 255 - d)))
  BY <1>1, StepsAgree
<1> HIDE DEF xb, xd, nb, nd, low, up, hb, r1
<1>11. Plus(Ones, xb) = Plus(nb, up)
  <2>1. Plus(Plus(low, up), xb) = Plus(xb, Plus(low, up))  BY <1>3, <1>7, PlusGroup
  <2>2. Plus(Plus(xb, low), up) = Plus(xb, Plus(low, up))  BY <1>3, PlusGroup
  <2> QED  BY <1>6, <1>7, <2>1, <2>2
<1>12. ModbusStep(Ones, b) = Plus(Eight(nb), low)  BY <1>3, <1>5, <1>8, <1>11, EightIs
<1>13. Eight(nb) = Eight(Eight(r1)) /\ Eight(nb) \in Reg  BY <1>3, <1>4, <1>5, EightIs
<1>14. Plus(Plus(Eight(nb), low), xd) = Plus(Eight(nb), nd)
  <2>1. Plus(Plus(Eight(nb), low), xd) = Plus(Eight(nb), Plus(low, xd))  BY <1>3, <1>13, PlusGroup
  <2>2. Plus(low, xd) = Plus(xd, low)  BY <1>3, PlusGroup
  <2> QED  BY <1>6, <2>1, <2>2
<1>15. Plus(Eight(nb), low) \in Reg  BY <1>3, <1>13, PlusReg
<1>16. ModbusStep(ModbusStep(Ones, b), d) = Eight(Plus(Eight(nb), nd))  BY <1>9, <1>12, <1>14, <1>15
<1>17. Eight(Plus(Eight(nb), nd)) = Eight(Eight(DivisionStep(r1, 255 - d)))
  BY <1>4, <1>9, <1>10, <1>13
<1> QED  BY <1>16, <1>17 DEF r1

\* Two bytes of zeros shift the rest sixteen times.
LEMMA ZeroBytes ==
  ASSUME NEW r \in Reg
  PROVE  DivisionStep(r, 0) = Eight(r)
BY BitsOfAll, PolysAre DEF DivisionStep, Eight

\* The bytes the standard divides.
Divided(bytes) == [i \in DOMAIN bytes |-> IF i <= 2 THEN 255 - bytes[i] ELSE bytes[i]] \o <<0, 0>>

\* What the standard divides: the message with its first bytes inverted, and two zeros.
LEMMA DividedIs ==
  ASSUME NEW bytes \in Seq(Byte)
  PROVE  /\ Divided(bytes) \in Seq(Byte) /\ Len(Divided(bytes)) = Len(bytes) + 2 /\ Len(bytes) \in Nat
         /\ \A i \in 1 .. Len(bytes) : bytes[i] \in Byte /\ Divided(bytes)[i] = IF i <= 2 THEN 255 - bytes[i] ELSE bytes[i]
         /\ Divided(bytes)[Len(bytes) + 1] = 0 /\ Divided(bytes)[Len(bytes) + 2] = 0
<1> DEFINE N == Len(bytes)
           x == [i \in DOMAIN bytes |-> IF i <= 2 THEN 255 - bytes[i] ELSE bytes[i]]
           z == <<0, 0>>
<1>1. N \in Nat /\ DOMAIN bytes = 1 .. N /\ \A i \in 1 .. N : bytes[i] \in Byte
  BY LenProperties, ElementOfSeq
<1>2. \A i \in 1 .. N : 255 - bytes[i] \in Byte  BY <1>1, Inverted
<1>3. x \in [1 .. N -> Byte] /\ \A i \in 1 .. N : x[i] = IF i <= 2 THEN 255 - bytes[i] ELSE bytes[i]
  BY <1>1, <1>2
<1>4. z \in Seq(Byte) /\ Len(z) = 2 /\ z[1] = 0 /\ z[2] = 0  BY DEF Byte
<1> HIDE DEF x, z, N
<1>5. x \in Seq(Byte) /\ Len(x) = N  BY <1>1, <1>3, RegIsSeq
<1>6. x \o z \in Seq(Byte) /\ Len(x \o z) = Len(x) + Len(z)
      /\ \A k \in 1 .. Len(x) + Len(z) : (x \o z)[k] = IF k <= Len(x) THEN x[k] ELSE z[k - Len(x)]
  BY <1>4, <1>5, ConcatProperties
<1> DEFINE w == x \o z
<1>7. w \in Seq(Byte) /\ Len(w) = N + 2 /\ \A k \in 1 .. N + 2 : w[k] = IF k <= N THEN x[k] ELSE z[k - N]
  BY <1>4, <1>5, <1>6
<1> HIDE DEF w
<1>8. \A i \in 1 .. N : w[i] = x[i]  BY <1>1, <1>7
<1>9. w[N + 1] = 0 /\ w[N + 2] = 0
  <2>1. N + 1 \in 1 .. N + 2 /\ N + 2 \in 1 .. N + 2 /\ ~(N + 1 <= N) /\ ~(N + 2 <= N) /\ N + 1 - N = 1 /\ N + 2 - N = 2
    BY <1>1
  <2>2. \A k \in 1 .. N + 2 : k = N + 1 => w[k] = 0  BY <1>1, <1>4, <1>7
  <2>3. \A k \in 1 .. N + 2 : k = N + 2 => w[k] = 0  BY <1>1, <1>4, <1>7
  <2> QED  BY <2>1, <2>2, <2>3
<1>10. Divided(bytes) = w  BY DEF Divided, w, x, z
<1> QED  BY <1>1, <1>3, <1>7, <1>8, <1>9, <1>10 DEF N

\* What the code computes is what the standard asks for.
LEMMA CrcIsStandard ==
  ASSUME NEW bytes \in Seq(Byte), Len(bytes) >= 2
  PROVE  Crc16Modbus(bytes) = Remainder(Divided(bytes))
<1> DEFINE N == Len(bytes)
           w == Divided(bytes)
<1>1. /\ w \in Seq(Byte) /\ Len(w) = N + 2 /\ N \in Nat
      /\ \A i \in 1 .. N : bytes[i] \in Byte /\ w[i] = IF i <= 2 THEN 255 - bytes[i] ELSE bytes[i]
      /\ w[N + 1] = 0 /\ w[N + 2] = 0
  BY DividedIs
<1>2. PICK c \in [0 .. Len(bytes) -> Reg] :
        /\ c[0] = Ones /\ Crc16Modbus(bytes) = c[Len(bytes)]
        /\ \A n \in 1 .. Len(bytes) : c[n] = ModbusStep(c[n - 1], bytes[n])
  BY Crc16ModbusRun
<1> HIDE DEF w
<1>3. PICK d \in [0 .. Len(w) -> Reg] :
        /\ d[0] = Zeros(16) /\ Remainder(w) = d[Len(w)]
        /\ \A n \in 1 .. Len(w) : d[n] = DivisionStep(d[n - 1], w[n])
  BY <1>1, RemainderRun
<1> HIDE DEF N
<1>4. N \in Nat /\ N >= 2 /\ Len(bytes) = N /\ Len(w) = N + 2  BY <1>1 DEF N
<1> DEFINE M == N - 2
           f == [n \in 0 .. M |-> c[n + 2]]
           g == [n \in 0 .. M |-> Eight(Eight(d[n + 2]))]
<1>5. f[0] = g[0]
  <2>1. c[1] = ModbusStep(Ones, bytes[1]) /\ c[2] = ModbusStep(c[1], bytes[2])
    <3>1. 1 \in 1 .. Len(bytes) /\ 2 \in 1 .. Len(bytes) /\ 1 - 1 = 0 /\ 2 - 1 = 1  BY <1>4
    <3> QED  BY <1>2, <3>1
  <2>2. d[1] = DivisionStep(Zeros(16), w[1]) /\ d[2] = DivisionStep(d[1], w[2])
    <3>1. 1 \in 1 .. Len(w) /\ 2 \in 1 .. Len(w) /\ 1 - 1 = 0 /\ 2 - 1 = 1  BY <1>4
    <3> QED  BY <1>3, <3>1
  <2>3. bytes[1] \in Byte /\ bytes[2] \in Byte /\ w[1] = 255 - bytes[1] /\ w[2] = 255 - bytes[2]
    <3>1. 1 \in 1 .. N /\ 2 \in 1 .. N  BY <1>4
    <3> QED  BY <1>1, <3>1
  <2>4. c[2] = Eight(Eight(d[2]))  BY <2>1, <2>2, <2>3, StartsAgree
  <2>5. 0 \in 0 .. M /\ 0 + 2 = 2  BY <1>4
  <2> QED  BY <2>4, <2>5
<1>6. \A n \in 1 .. M : f[n - 1] = g[n - 1] => f[n] = g[n]
  <2> SUFFICES ASSUME NEW n \in 1 .. M, f[n - 1] = g[n - 1] PROVE f[n] = g[n]  OBVIOUS
  <2> DEFINE m == n + 2
  <2>1. m \in 1 .. N /\ m \in 1 .. N + 2 /\ m - 1 \in 0 .. N + 2 /\ (n - 1) + 2 = m - 1 /\ n \in 0 .. M /\ n - 1 \in 0 .. M /\ ~(m <= 2)
    BY <1>4
  <2>2. f[n - 1] = c[(n - 1) + 2] /\ g[n - 1] = Eight(Eight(d[(n - 1) + 2]))  BY <2>1
  <2>3. f[n] = c[m] /\ g[n] = Eight(Eight(d[m]))  BY <2>1
  <2> HIDE DEF m, f, g
  <2>4. c[m - 1] = Eight(Eight(d[m - 1]))  BY <2>1, <2>2
  <2>5. bytes[m] \in Byte /\ w[m] = bytes[m]  BY <1>1, <2>1
  <2>6. c[m] = ModbusStep(c[m - 1], bytes[m]) /\ d[m] = DivisionStep(d[m - 1], bytes[m]) /\ d[m - 1] \in Reg
    BY <1>2, <1>3, <1>4, <2>1, <2>5
  <2>7. c[m] = Eight(Eight(d[m]))  BY <2>4, <2>5, <2>6, StepsAgree
  <2> QED  BY <2>3, <2>7
<1>7. M \in Nat /\ f[M] = c[N] /\ g[M] = Eight(Eight(d[N]))
  <2>1. M \in Nat /\ M \in 0 .. M /\ M + 2 = N  BY <1>4
  <2> QED  BY <2>1
<1> HIDE DEF f, g, M
<1>8. \A n \in 0 .. M : f[n] = g[n]
  <2>1. M \in Nat  BY <1>7
  <2>2. Together(f, g, M)  BY <1>5, <1>6, <2>1 DEF Together
  <2> QED  BY <2>2, RunsAgree
<1>9. c[N] = Eight(Eight(d[N]))  BY <1>7, <1>8
<1>10. d[N + 2] = Eight(Eight(d[N]))
  <2>1. N + 1 \in 1 .. N + 2 /\ N + 2 \in 1 .. N + 2 /\ N + 1 - 1 = N /\ N + 2 - 1 = N + 1 /\ N \in 0 .. N + 2 /\ N + 1 \in 0 .. N + 2
    BY <1>4
  <2>2. d[N + 1] = DivisionStep(d[N], 0)
    <3>1. d[N + 1] = DivisionStep(d[N + 1 - 1], w[N + 1])  BY <1>3, <1>4, <2>1
    <3> QED  BY <1>1, <2>1, <3>1
  <2>3. d[N + 2] = DivisionStep(d[N + 1], 0)
    <3>1. d[N + 2] = DivisionStep(d[N + 2 - 1], w[N + 2])  BY <1>3, <1>4, <2>1
    <3> QED  BY <1>1, <2>1, <3>1
  <2>4. d[N] \in Reg /\ d[N + 1] \in Reg  BY <1>3, <1>4, <2>1
  <2> QED  BY <2>2, <2>3, <2>4, ZeroBytes
<1> QED  BY <1>2, <1>3, <1>4, <1>9, <1>10 DEF w

\* crc16_modbus (helpers.py:7) is the CRC Modbus is specified with, its low byte sent first, for
\* every message of two bytes or more.
THEOREM CrcIsTheStandards ==
  ASSUME NEW bytes \in Seq(Byte), Len(bytes) >= 2
  PROVE  StandardCrc(bytes) = <<TwoBytes(Crc16Modbus(bytes))[2], TwoBytes(Crc16Modbus(bytes))[1]>>
BY CrcIsStandard DEF StandardCrc, Divided

-----------------------------------------------------------------------------
(* The two bytes of a check, and frames that end with them.                *)

\* The two bytes of a register,
LEMMA TwoBytesIs ==
  ASSUME NEW r \in Reg
  PROVE  TwoBytes(r) = <<TwoBytes(r)[1], TwoBytes(r)[2]>> /\ TwoBytes(r)[1] \in Byte /\ TwoBytes(r)[2] \in Byte
BY HalvesOf, NumberIs DEF TwoBytes

\* which tell it from any other.
LEMMA TwoBytesPart ==
  ASSUME NEW r \in Reg, NEW s \in Reg, TwoBytes(r) = TwoBytes(s)
  PROVE  r = s
<1>1. Number(SubSeq(r, 9, 16)) = Number(SubSeq(s, 9, 16)) /\ Number(SubSeq(r, 1, 8)) = Number(SubSeq(s, 1, 8))
  BY DEF TwoBytes
<1> DEFINE a == SubSeq(r, 9, 16)
           b == SubSeq(s, 9, 16)
           c == SubSeq(r, 1, 8)
           d == SubSeq(s, 1, 8)
<1>2. a \in Octet /\ b \in Octet /\ c \in Octet /\ d \in Octet
      /\ (\A k \in 1 .. 8 : c[k] = r[k] /\ a[k] = r[k + 8]) /\ (\A k \in 1 .. 8 : d[k] = s[k] /\ b[k] = s[k + 8])
  BY HalvesOf
<1> HIDE DEF a, b, c, d
<1>3. a = b /\ c = d  BY <1>1, <1>2, NumbersDiffer DEF a, b, c, d
<1>4. \A k \in 1 .. 16 : r[k] = s[k]
  <2> TAKE k \in 1 .. 16
  <2>1. k \in 1 .. 8 \/ (k - 8 \in 1 .. 8 /\ (k - 8) + 8 = k)  OBVIOUS
  <2>2. CASE k \in 1 .. 8  BY <1>2, <1>3, <2>2
  <2>3. CASE k - 8 \in 1 .. 8 /\ (k - 8) + 8 = k
    <3>1. a[k - 8] = r[(k - 8) + 8] /\ b[k - 8] = s[(k - 8) + 8]  BY <1>2, <2>3
    <3> QED  BY <1>3, <2>3, <3>1
  <2> QED  BY <2>1, <2>2, <2>3
<1> QED  BY <1>4, SameReg

Checks == {"crc16", "crc16_ccitt", "crc32", "xor", "sum"}

\* What the checksums are,
LEMMA CrcsAre ==
  ASSUME NEW bytes \in Seq(Byte)
  PROVE  /\ Crc16Modbus(bytes) \in Reg /\ Crc16Ccitt(bytes) \in Reg /\ ChecksumXor(bytes) \in Octet
         /\ ChecksumSum(bytes) \in Byte /\ Reverse(Crc16Ccitt(bytes)) \in Reg /\ LowCrc32(bytes) \in Reg
<1>0. Len(bytes) \in Nat  BY LenProperties
<1>1. Crc16Modbus(bytes) \in Reg  BY <1>0, Crc16ModbusRun
<1>2. Crc16Ccitt(bytes) \in Reg  BY <1>0, Crc16CcittRun
<1>3. ChecksumXor(bytes) \in Octet  BY <1>0, ChecksumXorRun
<1>4. ChecksumSum(bytes) \in Byte
  <2>1. \E n \in Nat : ChecksumSum(bytes) = n % 256  BY <1>0, ChecksumSumRun
  <2> QED  BY <2>1 DEF Byte
<1>5. LowCrc32(bytes) \in Reg  BY DEF LowCrc32, Reg
<1> QED  BY <1>1, <1>2, <1>3, <1>4, <1>5, ReverseReg

\* and the two bytes that are sent.
LEMMA ChecksumIs ==
  ASSUME NEW bytes \in Seq(Byte), NEW m \in Checks
  PROVE  /\ ComputeChecksum(bytes, m) = <<ComputeChecksum(bytes, m)[1], ComputeChecksum(bytes, m)[2]>>
         /\ ComputeChecksum(bytes, m)[1] \in Byte /\ ComputeChecksum(bytes, m)[2] \in Byte
<1>1. CASE m = "crc16"
  <2>1. ComputeChecksum(bytes, m) = TwoBytes(Crc16Modbus(bytes))  BY <1>1 DEF ComputeChecksum
  <2> QED  BY <2>1, CrcsAre, TwoBytesIs
<1>2. CASE m = "crc16_ccitt"
  <2>1. ComputeChecksum(bytes, m) = TwoBytes(Reverse(Crc16Ccitt(bytes)))  BY <1>2 DEF ComputeChecksum
  <2> QED  BY <2>1, CrcsAre, TwoBytesIs
<1>3. CASE m = "xor"
  <2>1. ComputeChecksum(bytes, m) = <<0, Number(ChecksumXor(bytes))>>  BY <1>3 DEF ComputeChecksum
  <2>2. 0 \in Byte /\ Number(ChecksumXor(bytes)) \in Byte  BY CrcsAre, NumberIs DEF Byte
  <2> QED  BY <2>1, <2>2
<1>4. CASE m = "sum"
  <2>1. ComputeChecksum(bytes, m) = <<0, ChecksumSum(bytes)>>  BY <1>4 DEF ComputeChecksum
  <2>2. 0 \in Byte /\ ChecksumSum(bytes) \in Byte  BY CrcsAre DEF Byte
  <2> QED  BY <2>1, <2>2
<1>5. CASE m = "crc32"
  <2>1. ComputeChecksum(bytes, m) = TwoBytes(LowCrc32(bytes))  BY <1>5 DEF ComputeChecksum
  <2> QED  BY <2>1, CrcsAre, TwoBytesIs
<1> QED  BY <1>1, <1>2, <1>3, <1>4, <1>5 DEF Checks

\* A register read backwards is told from any other.
LEMMA ReversePart ==
  ASSUME NEW x \in Reg, NEW y \in Reg, Reverse(x) = Reverse(y)
  PROVE  x = y
<1>1. \A k \in 1 .. 16 : x[17 - k] = y[17 - k]  BY ReverseReg
<1>2. \A k \in 1 .. 16 : x[k] = y[k]
  <2> TAKE k \in 1 .. 16
  <2>1. 17 - k \in 1 .. 16 /\ 17 - (17 - k) = k  OBVIOUS
  <2>2. x[17 - (17 - k)] = y[17 - (17 - k)]  BY <1>1, <2>1
  <2> QED  BY <2>1, <2>2
<1> QED  BY <1>2, SameReg

\* Whatever the method, the check of a frame shows that a byte of it is another one: what
\* compute_checksum (helpers.py:54) is for.  Only of crc32 a frame carries but one half, and
\* nothing is claimed of it.
THEOREM ChecksumShows ==
  ASSUME NEW bytes \in Seq(Byte), NEW m \in Checks \ {"crc32"}, NEW i \in 1 .. Len(bytes), NEW b \in Byte, b # bytes[i]
  PROVE  ComputeChecksum([bytes EXCEPT ![i] = b], m) # ComputeChecksum(bytes, m)
<1> DEFINE other == [bytes EXCEPT ![i] = b]
<1>1. other \in Seq(Byte)  BY OneChanged
<1>2. Crc16Modbus(other) # Crc16Modbus(bytes) /\ Crc16Ccitt(other) # Crc16Ccitt(bytes)
      /\ ChecksumXor(other) # ChecksumXor(bytes) /\ ChecksumSum(other) # ChecksumSum(bytes)
  BY Crc16ModbusShows, Crc16CcittShows, ChecksumXorShows, ChecksumSumShows
<1> HIDE DEF other
<1>3. Crc16Modbus(bytes) \in Reg /\ Crc16Ccitt(bytes) \in Reg /\ ChecksumXor(bytes) \in Octet
      /\ Reverse(Crc16Ccitt(bytes)) \in Reg
  BY CrcsAre
<1>4. Crc16Modbus(other) \in Reg /\ Crc16Ccitt(other) \in Reg /\ ChecksumXor(other) \in Octet
      /\ Reverse(Crc16Ccitt(other)) \in Reg
  BY <1>1, CrcsAre
<1>5. CASE m = "crc16"
  <2>1. ComputeChecksum(bytes, m) = TwoBytes(Crc16Modbus(bytes)) /\ ComputeChecksum(other, m) = TwoBytes(Crc16Modbus(other))
    BY <1>5 DEF ComputeChecksum
  <2> QED  BY <1>2, <1>3, <1>4, <2>1, TwoBytesPart DEF other
<1>6. CASE m = "crc16_ccitt"
  <2>1. ComputeChecksum(bytes, m) = TwoBytes(Reverse(Crc16Ccitt(bytes)))
        /\ ComputeChecksum(other, m) = TwoBytes(Reverse(Crc16Ccitt(other)))
    BY <1>6 DEF ComputeChecksum
  <2>2. Reverse(Crc16Ccitt(other)) # Reverse(Crc16Ccitt(bytes))  BY <1>2, <1>3, <1>4, ReversePart
  <2> QED  BY <1>3, <1>4, <2>1, <2>2, TwoBytesPart DEF other
<1>7. CASE m = "xor"
  <2>1. ComputeChecksum(bytes, m) = <<0, Number(ChecksumXor(bytes))>>
        /\ ComputeChecksum(other, m) = <<0, Number(ChecksumXor(other))>>
    BY <1>7 DEF ComputeChecksum
  <2>2. Number(ChecksumXor(other)) # Number(ChecksumXor(bytes))  BY <1>2, <1>3, <1>4, NumbersDiffer
  <2> QED  BY <2>1, <2>2 DEF other
<1>8. CASE m = "sum"
  <2>1. ComputeChecksum(bytes, m) = <<0, ChecksumSum(bytes)>> /\ ComputeChecksum(other, m) = <<0, ChecksumSum(other)>>
    BY <1>8 DEF ComputeChecksum
  <2> QED  BY <1>2, <2>1 DEF other
<1> QED  BY <1>5, <1>6, <1>7, <1>8 DEF Checks

\* A frame that ends with two bytes,
LEMMA FrameIs ==
  ASSUME NEW body \in Seq(Byte), NEW x \in Byte, NEW y \in Byte
  PROVE  /\ body \o <<x, y>> \in Seq(Byte) /\ Len(body \o <<x, y>>) = Len(body) + 2 /\ Len(body) \in Nat
         /\ \A k \in 1 .. Len(body) : (body \o <<x, y>>)[k] = body[k]
         /\ (body \o <<x, y>>)[Len(body) + 1] = x /\ (body \o <<x, y>>)[Len(body) + 2] = y
         /\ SubSeq(body \o <<x, y>>, 1, Len(body)) = body
<1> DEFINE z == <<x, y>>
           N == Len(body)
           w == body \o z
<1>1. z \in Seq(Byte) /\ Len(z) = 2 /\ z[1] = x /\ z[2] = y /\ N \in Nat  BY LenProperties
<1> HIDE DEF z
<1>2. w \in Seq(Byte) /\ Len(w) = Len(body) + Len(z)
      /\ \A k \in 1 .. Len(body) + Len(z) : w[k] = IF k <= Len(body) THEN body[k] ELSE z[k - Len(body)]
  BY <1>1, ConcatProperties
<1>3. SubSeq(w, 1, Len(body)) = body  BY <1>1
<1> HIDE DEF w, N
<1>4. Len(body) = N  BY DEF N
<1>5. Len(w) = N + 2 /\ \A k \in 1 .. N : w[k] = body[k]  BY <1>1, <1>2, <1>4
<1>6. (\A k \in 1 .. N + 2 : k = N + 1 => w[k] = x) /\ \A k \in 1 .. N + 2 : k = N + 2 => w[k] = y
  BY <1>1, <1>2, <1>4
<1>7. N + 1 \in 1 .. N + 2 /\ N + 2 \in 1 .. N + 2  BY <1>1
<1>8. w[N + 1] = x /\ w[N + 2] = y  BY <1>6, <1>7
<1> QED  BY <1>1, <1>2, <1>3, <1>4, <1>5, <1>8 DEF w, z

\* and the frame with one byte of it changed.
Corrupted(w, body, x, y, i, b) ==
  /\ i \in 1 .. Len(body) + 2 /\ b \in Byte /\ b # (body \o <<x, y>>)[i]
  /\ w = [body \o <<x, y>> EXCEPT ![i] = b]

InBody(w, body, x, y, i, b) ==
  /\ i \in 1 .. Len(body) /\ b \in Byte /\ b # body[i] /\ SubSeq(w, 1, Len(body)) = [body EXCEPT ![i] = b]
  /\ w[Len(body) + 1] = x /\ w[Len(body) + 2] = y
InCheck(w, body, x, y) == SubSeq(w, 1, Len(body)) = body /\ (w[Len(body) + 1] # x \/ w[Len(body) + 2] # y)

\* it is changed in what is checked or in the check.
LEMMA FrameChanged ==
  ASSUME NEW body \in Seq(Byte), NEW x \in Byte, NEW y \in Byte, NEW i, NEW b, NEW w, Corrupted(w, body, x, y, i, b)
  PROVE  /\ w \in Seq(Byte) /\ Len(w) = Len(body) + 2 /\ Len(body) \in Nat
         /\ InBody(w, body, x, y, i, b) \/ InCheck(w, body, x, y)
<1>0. /\ i \in 1 .. Len(body) + 2 /\ b \in Byte /\ b # (body \o <<x, y>>)[i]
      /\ w = [body \o <<x, y>> EXCEPT ![i] = b]
  BY DEF Corrupted
<1> DEFINE f == body \o <<x, y>>
           N == Len(body)
<1>1. f \in Seq(Byte) /\ Len(f) = N + 2 /\ N \in Nat /\ (\A k \in 1 .. N : f[k] = body[k])
      /\ f[N + 1] = x /\ f[N + 2] = y
  BY FrameIs
<1> HIDE DEF f
<1>2. w = [f EXCEPT ![i] = b] /\ b # f[i] /\ i \in 1 .. Len(f) /\ b \in Byte  BY <1>0, <1>1 DEF f
<1>3. w \in Seq(Byte) /\ Len(w) = Len(f) /\ w[i] = b /\ \A n \in 1 .. Len(f) : n # i => w[n] = f[n]
  <2>1. /\ [f EXCEPT ![i] = b] \in Seq(Byte) /\ Len([f EXCEPT ![i] = b]) = Len(f) /\ [f EXCEPT ![i] = b][i] = b
        /\ \A n \in 1 .. Len(f) : n # i => [f EXCEPT ![i] = b][n] = f[n]
    BY <1>1, <1>2, OneChanged
  <2> QED  BY <1>2, <2>1
<1>8. \A k \in 1 .. N : k \in 1 .. Len(f)  BY <1>1
<1>4. SubSeq(w, 1, N) = [k \in 1 .. N |-> w[k]]
  <2>1. \A k \in 1 .. N : k + 1 - 1 = k  BY <1>1
  <2> QED  BY <1>1, <1>3, <2>1
<1>5. body \in [1 .. N -> Byte]  BY <1>1, SeqDef
<1> HIDE DEF N
<1>6. CASE i \in 1 .. N
  <2>1. b # body[i]  BY <1>1, <1>2, <1>6
  <2>2. [body EXCEPT ![i] = b] = [k \in 1 .. N |-> IF k = i THEN b ELSE body[k]]  BY <1>5
  <2>3. \A k \in 1 .. N : w[k] = IF k = i THEN b ELSE body[k]  BY <1>1, <1>3, <1>8
  <2>4. SubSeq(w, 1, N) = [body EXCEPT ![i] = b]  BY <1>4, <2>2, <2>3
  <2>5. N + 1 \in 1 .. Len(f) /\ N + 2 \in 1 .. Len(f) /\ N + 1 # i /\ N + 2 # i  BY <1>1, <1>6
  <2>6. w[N + 1] = x /\ w[N + 2] = y  BY <1>1, <1>3, <2>5
  <2> QED  BY <1>1, <1>3, <1>2, <1>6, <2>1, <2>4, <2>6 DEF N, InBody
<1>7. CASE i \notin 1 .. N
  <2>1. \A k \in 1 .. N : w[k] = body[k]  BY <1>1, <1>3, <1>7, <1>8
  <2>2. body = [k \in 1 .. N |-> body[k]]  BY <1>5
  <2>3. SubSeq(w, 1, N) = body  BY <1>4, <2>1, <2>2
  <2>4. i = N + 1 \/ i = N + 2  BY <1>1, <1>2, <1>7
  <2>5. w[N + 1] # x \/ w[N + 2] # y  BY <1>1, <1>2, <1>3, <2>4
  <2> QED  BY <1>1, <1>3, <2>3, <2>5 DEF N, InCheck
<1> QED  BY <1>6, <1>7

\* What noise makes of a byte is another byte.
Turned(b, k) == IF Bits(b)[k] = 1 THEN b - Weight[k] ELSE b + Weight[k]

LEMMA TurnedIs ==
  ASSUME NEW b \in Byte, NEW k \in 1 .. 8
  PROVE  Turned(b, k) \in Byte /\ Turned(b, k) # b
<1>1. Bits(b) \in Octet /\ b = Number(Bits(b)) /\ \A j \in 1 .. 8 : Bits(b)[j] \in {0, 1}
  BY BitsIs, OctetSeq
<1> DEFINE x == Bits(b)
<1>2. PICK x1 \in 0 .. 1, x2 \in 0 .. 1, x3 \in 0 .. 1, x4 \in 0 .. 1, x5 \in 0 .. 1, x6 \in 0 .. 1, x7 \in 0 .. 1, x8 \in 0 .. 1 :
        x[1] = x1 /\ x[2] = x2 /\ x[3] = x3 /\ x[4] = x4 /\ x[5] = x5 /\ x[6] = x6 /\ x[7] = x7 /\ x[8] = x8
  BY <1>1
<1>3. b = x1 + 2 * x2 + 4 * x3 + 8 * x4 + 16 * x5 + 32 * x6 + 64 * x7 + 128 * x8
  <2>1. Number(x) = x1 + 2 * x2 + 4 * x3 + 8 * x4 + 16 * x5 + 32 * x6 + 64 * x7 + 128 * x8
    BY <1>2 DEF Number
  <2> QED  BY <1>1, <2>1
<1> HIDE DEF x
<1>4. b \in 0 .. 255  BY DEF Byte
<1>5. k \in {1, 2, 3, 4, 5, 6, 7, 8}  OBVIOUS
<1>6. Turned(b, 1) = (IF x1 = 1 THEN b - 1 ELSE b + 1) /\ Turned(b, 2) = (IF x2 = 1 THEN b - 2 ELSE b + 2)
      /\ Turned(b, 3) = (IF x3 = 1 THEN b - 4 ELSE b + 4) /\ Turned(b, 4) = (IF x4 = 1 THEN b - 8 ELSE b + 8)
      /\ Turned(b, 5) = (IF x5 = 1 THEN b - 16 ELSE b + 16) /\ Turned(b, 6) = (IF x6 = 1 THEN b - 32 ELSE b + 32)
      /\ Turned(b, 7) = (IF x7 = 1 THEN b - 64 ELSE b + 64) /\ Turned(b, 8) = (IF x8 = 1 THEN b - 128 ELSE b + 128)
  BY <1>2 DEF Turned, Weight, x
<1>7. Turned(b, 1) \in 0 .. 255 /\ Turned(b, 1) # b  BY <1>3, <1>4, <1>6
<1>8. Turned(b, 2) \in 0 .. 255 /\ Turned(b, 2) # b  BY <1>3, <1>4, <1>6
<1>9. Turned(b, 3) \in 0 .. 255 /\ Turned(b, 3) # b  BY <1>3, <1>4, <1>6
<1>10. Turned(b, 4) \in 0 .. 255 /\ Turned(b, 4) # b  BY <1>3, <1>4, <1>6
<1>11. Turned(b, 5) \in 0 .. 255 /\ Turned(b, 5) # b  BY <1>3, <1>4, <1>6
<1>12. Turned(b, 6) \in 0 .. 255 /\ Turned(b, 6) # b  BY <1>3, <1>4, <1>6
<1>13. Turned(b, 7) \in 0 .. 255 /\ Turned(b, 7) # b  BY <1>3, <1>4, <1>6
<1>14. Turned(b, 8) \in 0 .. 255 /\ Turned(b, 8) # b  BY <1>3, <1>4, <1>6
<1> QED  BY <1>5, <1>7, <1>8, <1>9, <1>10, <1>11, <1>12, <1>13, <1>14 DEF Byte

-----------------------------------------------------------------------------
(* Byte orders and data types.                                             *)

\* The bytes of a value, and what a byte order makes of them.
LEMMA BytesAre ==
  ASSUME NEW n \in Nat, NEW v \in [1 .. n -> Byte]
  PROVE  /\ v \in Seq(Byte) /\ Len(v) = n /\ DOMAIN v = 1 .. n
         /\ Reverse(v) \in [1 .. n -> Byte] /\ \A k \in 1 .. n : Reverse(v)[k] = v[n - k + 1]
<1>1. v \in Seq(Byte) /\ Len(v) = n /\ DOMAIN v = 1 .. n  BY RegIsSeq
<1>2. Reverse(v) = [k \in 1 .. n |-> v[n - k + 1]]  BY <1>1 DEF Reverse
<1>3. \A k \in 1 .. n : n - k + 1 \in 1 .. n  OBVIOUS
<1> QED  BY <1>1, <1>2, <1>3

\* Read backwards twice,
LEMMA ReverseTwice ==
  ASSUME NEW n \in Nat, NEW v \in [1 .. n -> Byte]
  PROVE  Reverse(Reverse(v)) = v
<1> DEFINE w == Reverse(v)
<1>1. w \in [1 .. n -> Byte] /\ \A k \in 1 .. n : w[k] = v[n - k + 1]  BY BytesAre
<1> HIDE DEF w
<1>2. Reverse(w) \in [1 .. n -> Byte] /\ \A k \in 1 .. n : Reverse(w)[k] = w[n - k + 1]
  BY <1>1, BytesAre
<1>3. \A k \in 1 .. n : Reverse(w)[k] = v[k]
  <2> TAKE k \in 1 .. n
  <2>1. n - k + 1 \in 1 .. n /\ n - (n - k + 1) + 1 = k  OBVIOUS
  <2>2. w[n - k + 1] = v[n - (n - k + 1) + 1]  BY <1>1, <2>1
  <2> QED  BY <1>2, <2>1, <2>2
<1>4. Reverse(w) = v  BY <1>2, <1>3
<1> QED  BY <1>4 DEF w

\* and one or two bytes read backwards.
LEMMA SmallOnes ==
  /\ \A v \in [1 .. 1 -> Byte] : Reverse(v) = v
  /\ \A v \in [1 .. 2 -> Byte] : Reverse(<<v[2], v[1]>>) = v
<1>1. ASSUME NEW v \in [1 .. 1 -> Byte] PROVE Reverse(v) = v
  <2>1. Reverse(v) \in [1 .. 1 -> Byte] /\ \A k \in 1 .. 1 : Reverse(v)[k] = v[1 - k + 1]
    BY BytesAre
  <2>2. \A k \in 1 .. 1 : Reverse(v)[k] = v[k]  BY <2>1
  <2> QED  BY <2>1, <2>2
<1>2. ASSUME NEW v \in [1 .. 2 -> Byte] PROVE Reverse(<<v[2], v[1]>>) = v
  <2> DEFINE w == <<v[2], v[1]>>
  <2>1. v[1] \in Byte /\ v[2] \in Byte  OBVIOUS
  <2>2. w \in [1 .. 2 -> Byte] /\ w[1] = v[2] /\ w[2] = v[1]  BY <2>1
  <2> HIDE DEF w
  <2>3. Reverse(w) \in [1 .. 2 -> Byte] /\ \A k \in 1 .. 2 : Reverse(w)[k] = w[2 - k + 1]
    BY <2>2, BytesAre
  <2>4. \A k \in 1 .. 2 : Reverse(w)[k] = v[k]  BY <2>2, <2>3
  <2>5. Reverse(w) = v  BY <2>3, <2>4
  <2> QED  BY <2>5 DEF w
<1> QED  BY <1>1, <1>2

\* What is long enough is not padded.
LEMMA PaddedIs ==
  ASSUME NEW n \in Nat, NEW v \in [1 .. n -> Byte]
  PROVE  Padded(v, n) = v
<1> DEFINE z == [i \in 1 .. n |-> 0]
<1>1. v \in Seq(Byte) /\ Len(v) = n  BY BytesAre
<1>2. z \in [1 .. n -> Byte]  BY DEF Byte
<1> HIDE DEF z
<1>3. z \in Seq(Byte) /\ Len(z) = n  BY <1>2, BytesAre
<1>4. v \o z \in Seq(Byte) /\ Len(v \o z) = Len(v) + Len(z)
      /\ \A k \in 1 .. Len(v) + Len(z) : (v \o z)[k] = IF k <= Len(v) THEN v[k] ELSE z[k - Len(v)]
  BY <1>1, <1>3, ConcatProperties
<1> DEFINE w == v \o z
<1>5. w \in Seq(Byte) /\ Len(w) = n + n /\ \A k \in 1 .. n : w[k] = v[k]
  <2>1. \A k \in 1 .. n : k \in 1 .. n + n /\ k <= n  OBVIOUS
  <2> QED  BY <1>1, <1>3, <1>4, <2>1
<1>6. Padded(v, n) = SubSeq(w, 1, n)  BY DEF Padded, w, z
<1> HIDE DEF w
<1>7. SubSeq(w, 1, n) = [k \in 1 .. n |-> w[k]]
  <2>1. \A k \in 1 .. n : k + 1 - 1 = k  OBVIOUS
  <2> QED  BY <1>5, <2>1
<1>8. v = [k \in 1 .. n |-> v[k]]  OBVIOUS
<1> QED  BY <1>5, <1>6, <1>7, <1>8

\* Swapping the bytes of pairs: of one byte nothing, of two the reverse.
LEMMA SwapsAre ==
  ASSUME NEW n \in {1, 2, 4}, NEW v \in [1 .. n -> Byte]
  PROVE  /\ PairsSwapped(v) \in [1 .. n -> Byte]
         /\ n = 1 => PairsSwapped(v) = v
         /\ n = 2 => PairsSwapped(v) = Reverse(v)
<1>1. Len(v) = n /\ DOMAIN v = 1 .. n /\ n \in Nat
      /\ Reverse(v) \in [1 .. n -> Byte] /\ \A k \in 1 .. n : Reverse(v)[k] = v[n - k + 1]
  BY BytesAre
<1>2. PairsSwapped(v) = [i \in 1 .. n |-> IF i % 2 = 0 THEN v[i - 1] ELSE IF i < n THEN v[i + 1] ELSE v[i]]
  BY <1>1 DEF PairsSwapped
<1>3. \A i \in 1 .. n : (IF i % 2 = 0 THEN v[i - 1] ELSE IF i < n THEN v[i + 1] ELSE v[i]) \in Byte
  <2> TAKE i \in 1 .. n
  <2>1. (i % 2 = 0 => i - 1 \in 1 .. n) /\ (i < n => i + 1 \in 1 .. n)  OBVIOUS
  <2> QED  BY <2>1
<1>4. ASSUME n = 1 PROVE PairsSwapped(v) = v  BY <1>2, <1>4
<1>5. ASSUME n = 2 PROVE PairsSwapped(v) = Reverse(v)
  <2>1. \A k \in 1 .. 2 : PairsSwapped(v)[k] = Reverse(v)[k]
    <3>1. PairsSwapped(v)[1] = v[2] /\ PairsSwapped(v)[2] = v[1]  BY <1>2, <1>5
    <3>2. Reverse(v)[1] = v[2] /\ Reverse(v)[2] = v[1]  BY <1>1, <1>5
    <3> QED  BY <3>1, <3>2
  <2> QED  BY <1>1, <1>2, <1>3, <1>5, <2>1
<1> QED  BY <1>2, <1>3, <1>4, <1>5

\* The sizes of the types.
LEMMA SizeIs ==
  ASSUME NEW t \in Types
  PROVE  Size(t) \in {1, 2, 4} /\ (Size(t) = 1 <=> t = "uint8")
         /\ (Size(t) = 2 <=> t \in {"int16", "uint16", "int16_ab", "H"})
BY DEF Types, Size

\* In every byte order a value has the bytes of its size.
LEMMA EncodedIs ==
  ASSUME NEW t \in Types, NEW o \in Orders, NEW v \in [1 .. Size(t) -> Byte]
  PROVE  Encoded(v, t, o) \in [1 .. Size(t) -> Byte]
<1>1. CASE t \in {"int16_ab", "float32_abcd"}  BY <1>1 DEF Encoded
<1>2. CASE t = "float32_cdab"
  <2>1. Size(t) = 4 /\ Encoded(v, t, o) = <<v[3], v[4], v[1], v[2]>>  BY <1>2 DEF Size, Encoded
  <2>2. v[1] \in Byte /\ v[2] \in Byte /\ v[3] \in Byte /\ v[4] \in Byte  BY <2>1
  <2> QED  BY <2>1, <2>2
<1>3. CASE t \notin {"int16_ab", "float32_abcd", "float32_cdab"}
  <2>1. Encoded(v, t, o) = ConvertEndian(v, o)  BY <1>3 DEF Encoded
  <2>2. Size(t) \in {1, 2, 4} /\ Size(t) \in Nat  BY SizeIs
  <2>3. Reverse(v) \in [1 .. Size(t) -> Byte] /\ PairsSwapped(v) \in [1 .. Size(t) -> Byte]
    BY <2>2, BytesAre, SwapsAre
  <2> QED  BY <2>1, <2>3 DEF ConvertEndian, Orders
<1> QED  BY <1>1, <1>2, <1>3

\* What the gateway makes of the bytes of a value that it does not misread.
LEMMA Decodes ==
  ASSUME NEW t \in Types, NEW o \in Orders, NEW v \in [1 .. Size(t) -> Byte],
         t \notin {"float32_abcd", "float32_cdab", "H", "L"}, ~(o = "big_endian_swap" /\ t \in {"uint32", "float32"})
  PROVE  BytesToValue(Encoded(v, t, o), t, o) = [sign |-> Signed(t), bytes |-> v]
<1> DEFINE n == Size(t)
           e == Encoded(v, t, o)
<1>1. n \in {1, 2, 4} /\ n \in Nat /\ (n = 1 <=> t = "uint8") /\ (n = 2 <=> t \in {"int16", "uint16", "int16_ab", "H"})
  BY SizeIs
<1>2. e \in [1 .. n -> Byte]  BY EncodedIs
<1>3. LowerSigned(t) = Signed(t)  BY DEF LowerSigned, Signed
<1>4. Padded(e, n) = e
  <2> HIDE DEF e, n
  <2> QED  BY <1>1, <1>2, PaddedIs
<1>5. CASE t = "int16_ab"
  <2>1. n = 2 /\ e = v  BY <1>1, <1>5 DEF Encoded
  <2>2. BytesToValue(e, t, o) = [sign |-> Signed(t), bytes |-> Reverse(<<v[2], v[1]>>)]
    BY <1>3, <1>4, <1>5, <2>1 DEF BytesToValue
  <2>3. Reverse(<<v[2], v[1]>>) = v
    <3>1. v \in [1 .. 2 -> Byte]  BY <2>1
    <3> QED  BY <3>1, SmallOnes
  <2> QED  BY <2>2, <2>3
<1>6. CASE t \in {"uint8", "int16", "uint16", "uint32", "float32"}
  <2>1. e = ConvertEndian(v, o)  BY <1>6 DEF Encoded
  <2>2. BytesToValue(e, t, o) = [sign |-> Signed(t), bytes |-> IF o = "big_endian" THEN e ELSE Reverse(e)]
    BY <1>3, <1>4, <1>6 DEF BytesToValue
  <2>3. CASE o = "big_endian"  BY <2>1, <2>2, <2>3 DEF ConvertEndian
  <2>4. CASE o = "little_endian"
    <3>1. e = Reverse(v)  BY <2>1, <2>4 DEF ConvertEndian
    <3>2. Reverse(Reverse(v)) = v  BY <1>1, ReverseTwice
    <3> QED  BY <2>2, <2>4, <3>1, <3>2
  <2>5. CASE o = "big_endian_swap"
    <3>1. e = PairsSwapped(v) /\ n \in {1, 2}  BY <1>1, <1>6, <2>1, <2>5 DEF ConvertEndian
    <3>2. Reverse(Reverse(v)) = v  BY <1>1, ReverseTwice
    <3>3. CASE n = 2
      <4>1. e = Reverse(v)  BY <1>1, <3>1, <3>3, SwapsAre
      <4> QED  BY <2>2, <2>5, <3>2, <4>1
    <3>4. CASE n = 1
      <4>1. e = v  BY <1>1, <3>1, <3>4, SwapsAre
      <4>2. Reverse(v) = v
        <5>1. v \in [1 .. 1 -> Byte]  BY <3>4
        <5> QED  BY <5>1, SmallOnes
      <4> QED  BY <2>2, <2>5, <4>1, <4>2
    <3> QED  BY <3>1, <3>3, <3>4
  <2> QED  BY <2>3, <2>4, <2>5 DEF Orders
<1> QED  BY <1>5, <1>6 DEF Types

-----------------------------------------------------------------------------
(* Custom frames.                                                          *)

\* A configuration, by its fields.
LEMMA LinkIs ==
  ASSUME link \in Links
  PROVE  /\ link.proto \in Protocols /\ link.method \in Methods /\ link.type \in Types /\ link.order \in Orders
         /\ link.start = <<>> \/ \E b \in Byte : link.start = <<b>>
         /\ link.end = <<>> \/ \E b \in Byte : link.end = <<b>>
BY ZenonT(60), FramesAssumption DEF Delimiters, Byte

\* A byte before a sequence,
LEMMA FirstIs ==
  ASSUME NEW b \in Byte, NEW rest \in Seq(Byte)
  PROVE  /\ <<b>> \o rest \in Seq(Byte) /\ Len(<<b>> \o rest) = Len(rest) + 1 /\ Len(rest) \in Nat
         /\ (<<b>> \o rest)[1] = b /\ SubSeq(<<b>> \o rest, 2, Len(rest) + 1) = rest
<1> DEFINE z == <<b>>
           w == z \o rest
           N == Len(rest)
<1>1. z \in Seq(Byte) /\ Len(z) = 1 /\ z[1] = b /\ N \in Nat  BY LenProperties
<1> HIDE DEF z
<1>2. w \in Seq(Byte) /\ Len(w) = Len(z) + Len(rest)
      /\ \A k \in 1 .. Len(z) + Len(rest) : w[k] = IF k <= Len(z) THEN z[k] ELSE rest[k - Len(z)]
  BY <1>1, ConcatProperties
<1> HIDE DEF w
<1>3. Len(w) = N + 1 /\ \A k \in 1 .. N + 1 : w[k] = IF k <= 1 THEN z[k] ELSE rest[k - 1]
  BY <1>1, <1>2
<1>4. w[1] = b  BY <1>1, <1>3
<1>5. SubSeq(w, 2, N + 1) = [k \in 1 .. N |-> w[k + 1]]
  <2>1. N + 1 - 2 + 1 = N /\ \A k \in 1 .. N : k + 2 - 1 = k + 1  BY <1>1
  <2> QED  BY <1>1, <1>2, <1>3, <2>1
<1>6. rest = [k \in 1 .. N |-> rest[k]]  BY SeqDef
<1>7. \A k \in 1 .. N : w[k + 1] = rest[k]
  <2> TAKE k \in 1 .. N
  <2>1. k + 1 \in 1 .. N + 1 /\ ~(k + 1 <= 1) /\ k + 1 - 1 = k  BY <1>1
  <2> QED  BY <1>3, <2>1
<1>8. SubSeq(w, 2, N + 1) = rest  BY <1>5, <1>6, <1>7
<1> QED  BY <1>1, <1>2, <1>3, <1>4, <1>8 DEF w, z

\* and one behind it.
LEMMA LastIs ==
  ASSUME NEW b \in Byte, NEW rest \in Seq(Byte)
  PROVE  /\ rest \o <<b>> \in Seq(Byte) /\ Len(rest \o <<b>>) = Len(rest) + 1 /\ Len(rest) \in Nat
         /\ (rest \o <<b>>)[Len(rest) + 1] = b /\ SubSeq(rest \o <<b>>, 1, Len(rest)) = rest
<1> DEFINE z == <<b>>
           w == rest \o z
           N == Len(rest)
<1>1. z \in Seq(Byte) /\ Len(z) = 1 /\ z[1] = b /\ N \in Nat  BY LenProperties
<1> HIDE DEF z
<1>2. w \in Seq(Byte) /\ Len(w) = Len(rest) + Len(z)
      /\ \A k \in 1 .. Len(rest) + Len(z) : w[k] = IF k <= Len(rest) THEN rest[k] ELSE z[k - Len(rest)]
  BY <1>1, ConcatProperties
<1> HIDE DEF w
<1>3. Len(w) = N + 1 /\ \A k \in 1 .. N + 1 : w[k] = IF k <= N THEN rest[k] ELSE z[k - N]
  BY <1>1, <1>2
<1>4. \A k \in 1 .. N + 1 : k = N + 1 => w[k] = b  BY <1>1, <1>3
<1>5. N + 1 \in 1 .. N + 1  BY <1>1
<1>6. w[N + 1] = b  BY <1>4, <1>5
<1>7. SubSeq(w, 1, N) = [k \in 1 .. N |-> w[k]]
  <2>1. N - 1 + 1 = N /\ \A k \in 1 .. N : k + 1 - 1 = k  BY <1>1
  <2> QED  BY <1>1, <1>2, <1>3, <2>1
<1>8. rest = [k \in 1 .. N |-> rest[k]]  BY SeqDef
<1>9. \A k \in 1 .. N : w[k] = rest[k]  BY <1>1, <1>3
<1>10. SubSeq(w, 1, N) = rest  BY <1>7, <1>8, <1>9
<1> QED  BY <1>1, <1>2, <1>3, <1>6, <1>10 DEF w, z

\* The delimiters of a frame are found where they were put.
LEMMA StartFound ==
  ASSUME link \in Links, NEW rest \in Seq(Byte)
  PROVE  AfterStart(link.start \o rest) = rest /\ link.start \o rest \in Seq(Byte)
<1>1. CASE link.start = <<>>
  <2>1. link.start \o rest = rest  BY <1>1, ConcatEmptySeq
  <2> QED  BY <1>1, <2>1 DEF AfterStart
<1>2. ASSUME NEW b \in Byte, link.start = <<b>>
      PROVE  AfterStart(link.start \o rest) = rest /\ link.start \o rest \in Seq(Byte)
  <2> DEFINE raw == <<b>> \o rest
             S == Occurs(raw, <<b>>)
  <2>1. raw \in Seq(Byte) /\ Len(raw) = Len(rest) + 1 /\ Len(rest) \in Nat
        /\ raw[1] = b /\ SubSeq(raw, 2, Len(rest) + 1) = rest /\ DOMAIN raw = 1 .. Len(raw)
    BY FirstIs, LenProperties
  <2> HIDE DEF raw
  <2>2. 1 \in S /\ S \subseteq 1 .. Len(raw)  BY <2>1 DEF Occurs
  <2> HIDE DEF S
  <2> DEFINE c == CHOOSE i \in S : \A j \in S : i <= j
  <2>3. c = 1
    <3>1. \A j \in S : 1 <= j  BY <2>2
    <3>2. \A i \in S : (\A j \in S : i <= j) => i = 1  BY <2>2
    <3> QED  BY <2>2, <3>1, <3>2
  <2>4. AfterStart(raw) = SubSeq(raw, 1 + c, Len(raw))
    BY <1>2, <2>2 DEF AfterStart, S
  <2> HIDE DEF c
  <2>5. AfterStart(raw) = SubSeq(raw, 2, Len(rest) + 1)  BY <2>1, <2>3, <2>4
  <2> QED  BY <1>2, <2>1, <2>5 DEF raw
<1> QED  BY <1>1, <1>2, LinkIs

\* The end delimiter is the last of its kind.
LEMMA EndFound ==
  ASSUME link \in Links, NEW rest \in Seq(Byte)
  PROVE  BeforeEnd(rest \o link.end) = rest /\ rest \o link.end \in Seq(Byte)
<1>1. CASE link.end = <<>>
  <2>1. rest \o link.end = rest  BY <1>1, ConcatEmptySeq
  <2> QED  BY <1>1, <2>1 DEF BeforeEnd
<1>2. ASSUME NEW b \in Byte, link.end = <<b>>
      PROVE  BeforeEnd(rest \o link.end) = rest /\ rest \o link.end \in Seq(Byte)
  <2> DEFINE raw == rest \o <<b>>
             S == Occurs(raw, <<b>>)
             N == Len(rest)
  <2>1. raw \in Seq(Byte) /\ Len(raw) = N + 1 /\ N \in Nat
        /\ raw[N + 1] = b /\ SubSeq(raw, 1, N) = rest /\ DOMAIN raw = 1 .. Len(raw)
    BY LastIs, LenProperties
  <2> HIDE DEF raw, N
  <2>2. N + 1 \in S /\ S \subseteq 1 .. N + 1  BY <2>1 DEF Occurs
  <2> HIDE DEF S
  <2> DEFINE c == CHOOSE i \in S : \A j \in S : j <= i
  <2>3. c = N + 1
    <3>1. \A j \in S : j <= N + 1  BY <2>1, <2>2
    <3>2. \A i \in S : (\A j \in S : j <= i) => i = N + 1  BY <2>1, <2>2
    <3> QED  BY <2>2, <3>1, <3>2
  <2>4. BeforeEnd(raw) = SubSeq(raw, 1, c - 1)
    BY <1>2, <2>2 DEF BeforeEnd, S
  <2> HIDE DEF c
  <2>5. BeforeEnd(raw) = SubSeq(raw, 1, N)
    <3>1. c - 1 = N  BY <2>1, <2>3
    <3> QED  BY <2>4, <3>1
  <2> QED  BY <1>2, <2>1, <2>5 DEF raw
<1> QED  BY <1>1, <1>2, LinkIs

\* The data of a reply: one, two or four bytes.
Data == {d \in Seq(Byte) : Len(d) \in {1, 2, 4}}

\* Parts of a frame, one after another.
LEMMA BytesJoin == \A s, t, u \in Seq(Byte) : (s \o t) \o u = s \o (t \o u)
BY ConcatAssociative

\* A slice of the whole is the whole.
LEMMA WholeIs ==
  ASSUME NEW s \in Seq(Byte)
  PROVE  SubSeq(s, 1, Len(s)) = s /\ (\A n \in Nat : Len(s) <= n => Slice(s, 1, n) = s)
<1>1. Len(s) \in Nat  BY LenProperties
<1>2. SubSeq(s, 1, Len(s)) = s
  <2>1. SubSeq(s, 1, Len(s)) = [k \in 1 .. Len(s) |-> s[k]]
    <3>1. Len(s) - 1 + 1 = Len(s) /\ \A k \in 1 .. Len(s) : k + 1 - 1 = k  BY <1>1
    <3> QED  BY <1>1, <3>1
  <2>2. s = [k \in 1 .. Len(s) |-> s[k]]  BY SeqDef
  <2> QED  BY <2>1, <2>2
<1>3. ASSUME NEW n \in Nat, Len(s) <= n PROVE Slice(s, 1, n) = s
  <2>1. Slice(s, 1, n) = SubSeq(s, 1, Len(s))
    <3>1. n < Len(s) \/ n = Len(s) \/ ~(n < Len(s))  OBVIOUS
    <3> QED  BY <1>1, <1>3 DEF Slice
  <2> QED  BY <1>2, <2>1
<1> QED  BY <1>2, <1>3

\* A custom reply: its parts, and what is taken from it.
LEMMA CustomReply ==
  ASSUME link \in Links, link.proto = "custom", ~CheckMisplaced, NEW d \in Data
  PROVE  /\ link.start \o d \in Seq(Byte)
         /\ link.method = "none" => Reply(d) = link.start \o (d \o link.end)
         /\ link.method # "none" =>
              \E x, y \in Byte :
                /\ ComputeChecksum(link.start \o d, link.method) = <<x, y>>
                /\ Reply(d) = (link.start \o d) \o <<x, y>> /\ Reply(d) = link.start \o (d \o <<x, y>>)
<1>1. d \in Seq(Byte) /\ link.start \in Seq(Byte) /\ link.end \in Seq(Byte)
  <2>1. <<>> \in Seq(Byte) /\ \A b \in Byte : <<b>> \in Seq(Byte)  OBVIOUS
  <2>2. d \in Seq(Byte)  BY DEF Data
  <2> QED  BY <2>1, <2>2, LinkIs
<1>2. link.start \o d \in Seq(Byte)  BY <1>1, StartFound
<1> DEFINE body == link.start \o d
<1>3. Reply(d) = body \o Check(body) \o link.end  BY DEF Reply
<1>4. ASSUME link.method = "none" PROVE Reply(d) = link.start \o (d \o link.end)
  <2>1. Check(body) = <<>>  BY <1>4 DEF Check
  <2>2. body \o <<>> = body  BY <1>2, ConcatEmptySeq
  <2>3. Reply(d) = (link.start \o d) \o link.end  BY <1>3, <2>1, <2>2
  <2> QED  BY <1>1, <2>3, BytesJoin
<1>5. ASSUME link.method # "none"
      PROVE  \E x, y \in Byte :
                /\ ComputeChecksum(body, link.method) = <<x, y>>
                /\ Reply(d) = body \o <<x, y>> /\ Reply(d) = link.start \o (d \o <<x, y>>)
  <2>1. link.method \in Checks  BY <1>5, LinkIs DEF Methods, Checks
  <2> DEFINE x == ComputeChecksum(body, link.method)[1]
             y == ComputeChecksum(body, link.method)[2]
  <2>2. ComputeChecksum(body, link.method) = <<x, y>> /\ x \in Byte /\ y \in Byte
    BY <1>2, <2>1, ChecksumIs
  <2> HIDE DEF x, y
  <2>3. Check(body) = <<x, y>>  BY <1>5, <2>2 DEF Check
  <2>4. link.end = <<>>  BY <1>5 DEF CheckMisplaced
  <2>5. <<x, y>> \in Seq(Byte)  BY <2>2
  <2>6. body \o <<x, y>> \in Seq(Byte)  BY <1>2, <2>2, FrameIs
  <2>7. Reply(d) = body \o <<x, y>>  BY <1>3, <2>3, <2>4, <2>6, ConcatEmptySeq
  <2>8. (link.start \o d) \o <<x, y>> = link.start \o (d \o <<x, y>>)  BY <1>1, <2>5, BytesJoin
  <2> QED  BY <2>2, <2>7, <2>8
<1> QED  BY <1>2, <1>4, <1>5

\* validate_frame and _extract_frame_data give the data back,
LEMMA CustomReads ==
  ASSUME link \in Links, link.proto = "custom", ~CheckMisplaced, NEW d \in Data
  PROVE  ParsesCustom(Reply(d)) = Read(BytesToValue(d, link.type, link.order)) /\ Reply(d) \in Seq(Byte)
<1>1. d \in Seq(Byte) /\ Len(d) \in {1, 2, 4} /\ Slice(d, 1, 16) = d
  <2>1. d \in Seq(Byte) /\ Len(d) \in {1, 2, 4}  BY DEF Data
  <2>2. PICK n \in {1, 2, 4} : Len(d) = n  BY <2>1
  <2>3. 16 \in Nat /\ n <= 16  OBVIOUS
  <2>4. Len(d) <= 16  BY <2>2, <2>3
  <2> QED  BY <2>1, <2>3, <2>4, WholeIs
<1>2. CASE link.method = "none"
  <2>1. Reply(d) = link.start \o (d \o link.end)  BY <1>2, CustomReply
  <2>2. d \o link.end \in Seq(Byte) /\ BeforeEnd(d \o link.end) = d  BY <1>1, EndFound
  <2>3. AfterStart(Reply(d)) = d \o link.end /\ Reply(d) \in Seq(Byte)  BY <2>1, <2>2, StartFound
  <2>4. Extracted(Reply(d)) = d  BY <1>1, <1>2, <2>2, <2>3 DEF Extracted, Unchecked
  <2> QED  BY <1>2, <2>3, <2>4 DEF ParsesCustom, Validates
<1>3. CASE link.method # "none"
  <2>1. PICK x \in Byte, y \in Byte :
          /\ ComputeChecksum(link.start \o d, link.method) = <<x, y>>
          /\ Reply(d) = (link.start \o d) \o <<x, y>> /\ Reply(d) = link.start \o (d \o <<x, y>>)
    BY <1>3, CustomReply
  <2>2. link.start \o d \in Seq(Byte)  BY CustomReply
  <2> DEFINE body == link.start \o d
             raw == Reply(d)
             tail == d \o <<x, y>>
  <2>3. body \in Seq(Byte) /\ Len(body) \in Nat /\ raw \in Seq(Byte) /\ Len(raw) = Len(body) + 2
        /\ raw[Len(body) + 1] = x /\ raw[Len(body) + 2] = y /\ SubSeq(raw, 1, Len(body)) = body
    BY <2>1, <2>2, FrameIs
  <2>4. Len(body) >= 1
    <3>1. CASE link.start = <<>>
      <4>1. body = d  BY <1>1, <3>1, ConcatEmptySeq
      <4> QED  BY <1>1, <4>1
    <3>2. CASE \E b \in Byte : link.start = <<b>>
      <4>1. Len(body) = Len(d) + 1  BY <1>1, <3>2, FirstIs
      <4> QED  BY <1>1, <4>1
    <3> QED  BY <3>1, <3>2, LinkIs
  <2>5. tail \in Seq(Byte) /\ Len(tail) = Len(d) + 2 /\ SubSeq(tail, 1, Len(d)) = d  BY <1>1, FrameIs
  <2>6. AfterStart(raw) = tail  BY <2>1, <2>5, StartFound
  <2> HIDE DEF body, raw, tail
  <2>7. Len(raw) - 2 = Len(body) /\ Len(raw) - 1 = Len(body) + 1 /\ Len(raw) >= 3  BY <2>3, <2>4
  <2>8. Validates(raw)  BY <2>1, <2>3, <2>7 DEF Validates, body
  <2>9. BeforeEnd(tail) = tail  BY <1>3 DEF BeforeEnd, CheckMisplaced
  <2>10. Len(tail) > 2 /\ Len(tail) - 2 = Len(d)  BY <1>1, <2>5
  <2>11. Extracted(raw) = d  BY <1>1, <1>3, <2>5, <2>6, <2>9, <2>10 DEF Extracted, Unchecked
  <2> QED  BY <2>3, <2>8, <2>11 DEF ParsesCustom, raw
<1> QED  BY <1>2, <1>3

\* and a changed byte makes validate_frame refuse the frame.
LEMMA CustomRefuses ==
  ASSUME link \in Links, link.proto = "custom", ~CheckMisplaced, link.method \notin {"none", "crc32"}, NEW d \in Data,
         NEW i \in 1 .. Len(Reply(d)), NEW b \in Byte, b # Reply(d)[i]
  PROVE  ParsesCustom([Reply(d) EXCEPT ![i] = b]) = Failed
<1> DEFINE body == link.start \o d
           w == [Reply(d) EXCEPT ![i] = b]
<1>1. PICK x \in Byte, y \in Byte :
        ComputeChecksum(body, link.method) = <<x, y>> /\ Reply(d) = body \o <<x, y>>
  BY CustomReply
<1>2. body \in Seq(Byte)  BY CustomReply
<1>3. link.method \in Checks \ {"crc32"}  BY LinkIs DEF Methods, Checks
<1>4. Len(Reply(d)) = Len(body) + 2 /\ w = [body \o <<x, y>> EXCEPT ![i] = b] /\ b # (body \o <<x, y>>)[i]
      /\ i \in 1 .. Len(body) + 2
  BY <1>1, <1>2, FrameIs
<1> HIDE DEF body, w
<1>9. Corrupted(w, body, x, y, i, b)  BY <1>4 DEF Corrupted
<1>5. w \in Seq(Byte) /\ Len(w) = Len(body) + 2 /\ Len(body) \in Nat
      /\ (InBody(w, body, x, y, i, b) \/ InCheck(w, body, x, y))
  BY <1>2, <1>9, FrameChanged
<1>6. Len(w) - 2 = Len(body) /\ Len(w) - 1 = Len(body) + 1  BY <1>5
<1>7. ComputeChecksum(SubSeq(w, 1, Len(body)), link.method) # <<w[Len(body) + 1], w[Len(body) + 2]>>
  <2>1. CASE InBody(w, body, x, y, i, b)
    <3>1. ComputeChecksum([body EXCEPT ![i] = b], link.method) # ComputeChecksum(body, link.method)
      BY <1>2, <1>3, <2>1, ChecksumShows DEF InBody
    <3> QED  BY <1>1, <2>1, <3>1 DEF InBody
  <2>2. CASE InCheck(w, body, x, y)
    <3>1. <<w[Len(body) + 1], w[Len(body) + 2]>> # <<x, y>>  BY <2>2 DEF InCheck
    <3> QED  BY <1>1, <2>2, <3>1 DEF InCheck
  <2> QED  BY <1>5, <2>1, <2>2
<1>8. ~Validates(w)  BY <1>5, <1>6, <1>7 DEF Validates
<1> QED  BY <1>8 DEF ParsesCustom, w

-----------------------------------------------------------------------------
(* Modbus frames.                                                          *)

\* What stands before and behind in a frame.
LEMMA HeadOf ==
  ASSUME NEW h \in Seq(Byte), NEW rest \in Seq(Byte)
  PROVE  /\ h \o rest \in Seq(Byte) /\ Len(h \o rest) = Len(h) + Len(rest) /\ Len(h) \in Nat /\ Len(rest) \in Nat
         /\ (\A k \in 1 .. Len(h) : (h \o rest)[k] = h[k])
         /\ \A k \in 1 .. Len(rest) : (h \o rest)[Len(h) + k] = rest[k]
<1> DEFINE w == h \o rest
           N == Len(h)
           M == Len(rest)
<1>1. N \in Nat /\ M \in Nat  BY LenProperties
<1>2. w \in Seq(Byte) /\ Len(w) = N + M /\ \A k \in 1 .. N + M : w[k] = IF k <= N THEN h[k] ELSE rest[k - N]
  BY ConcatProperties
<1> HIDE DEF w, N, M
<1>3. \A k \in 1 .. N : w[k] = h[k]  BY <1>1, <1>2
<1>4. \A k \in 1 .. M : w[N + k] = rest[k]
  <2> TAKE k \in 1 .. M
  <2>1. PICK j \in 1 .. N + M : j = N + k  BY <1>1
  <2>2. ~(j <= N) /\ j - N = k  BY <1>1, <2>1
  <2>3. w[j] = rest[k]  BY <1>2, <2>2
  <2> QED  BY <2>1, <2>3
<1> QED  BY <1>1, <1>2, <1>3, <1>4 DEF w, N, M

\* What a device holds in its registers, and what it answers over Modbus.
Held(d) == IF Len(d) = 1 THEN <<0>> \o d ELSE d
Pdu(d) == <<Slave, 3, Len(Held(d))>> \o Held(d)

\* The value in whole registers,
LEMMA HeldIs ==
  ASSUME NEW d \in Data
  PROVE  Held(d) \in Seq(Byte) /\ Len(Held(d)) \in {2, 4} /\ (Len(d) # 1 => Held(d) = d)
<1>1. d \in Seq(Byte) /\ Len(d) \in {1, 2, 4}  BY DEF Data
<1>2. CASE Len(d) = 1
  <2>1. 0 \in Byte  BY DEF Byte
  <2>2. <<0>> \o d \in Seq(Byte) /\ Len(<<0>> \o d) = Len(d) + 1  BY <1>1, <2>1, FirstIs
  <2> QED  BY <1>2, <2>2 DEF Held
<1>3. CASE Len(d) # 1  BY <1>1, <1>3 DEF Held
<1> QED  BY <1>2, <1>3

\* and the answer, field by field.
LEMMA PduIs ==
  ASSUME NEW d \in Data
  PROVE  LET L == Len(Held(d))
         IN  /\ Pdu(d) \in Seq(Byte) /\ L \in {2, 4} /\ Len(Pdu(d)) = L + 3
             /\ Pdu(d)[1] = Slave /\ Pdu(d)[2] = 3 /\ Pdu(d)[3] = L
             /\ \A k \in 1 .. L : Pdu(d)[3 + k] = Held(d)[k]
<1> DEFINE g == Held(d)
           L == Len(g)
           h == <<Slave, 3, L>>
           w == h \o g
<1>1. g \in Seq(Byte) /\ L \in {2, 4}  BY HeldIs
<1> HIDE DEF g
<1>2. h \in Seq(Byte) /\ Len(h) = 3 /\ h[1] = Slave /\ h[2] = 3 /\ h[3] = L
  BY <1>1, FramesAssumption DEF Byte
<1> HIDE DEF h
<1>3. w \in Seq(Byte) /\ Len(w) = Len(h) + L /\ (\A k \in 1 .. Len(h) : w[k] = h[k]) /\ \A k \in 1 .. L : w[Len(h) + k] = g[k]
  BY <1>1, <1>2, HeadOf
<1> HIDE DEF w, L
<1>4. w \in Seq(Byte) /\ Len(w) = L + 3 /\ w[1] = h[1] /\ w[2] = h[2] /\ w[3] = h[3] /\ \A k \in 1 .. L : w[3 + k] = g[k]
  BY <1>1, <1>2, <1>3
<1> QED  BY <1>1, <1>2, <1>4 DEF w, L, g, h, Pdu

\* A slice that takes what is put there.
LEMMA SlicesAre ==
  ASSUME NEW s \in Seq(Byte), NEW n \in Nat, NEW g \in Seq(Byte), n + Len(g) <= Len(s),
         \A k \in 1 .. Len(g) : s[n + k] = g[k]
  PROVE  Slice(s, n + 1, n + Len(g)) = g
<1> DEFINE L == Len(g)
           to == IF n + L < Len(s) THEN n + L ELSE Len(s)
<1>1. L \in Nat /\ Len(s) \in Nat /\ g = [k \in 1 .. L |-> g[k]]  BY LenProperties, SeqDef
<1>2. to = n + L  BY <1>1
<1>3. Slice(s, n + 1, n + L) = SubSeq(s, n + 1, n + L)  BY <1>2 DEF Slice
<1> HIDE DEF L
<1>4. SubSeq(s, n + 1, n + L) = [k \in 1 .. L |-> s[n + k]]
  <2>1. (n + L) - (n + 1) + 1 = L /\ \A k \in 1 .. L : k + (n + 1) - 1 = n + k  BY <1>1
  <2> QED  BY <1>1, <2>1
<1>5. \A k \in 1 .. L : s[n + k] = g[k]  BY DEF L
<1> QED  BY <1>1, <1>3, <1>4, <1>5 DEF L

\* A device that goes by the standard sends the check the code compares with.
LEMMA RtuReply ==
  ASSUME link.proto = "modbus_rtu", NEW d \in Data
  PROVE  \E x, y \in Byte : TwoBytes(Crc16Modbus(Pdu(d))) = <<x, y>> /\ Reply(d) = Pdu(d) \o <<y, x>>
<1>1. Pdu(d) \in Seq(Byte) /\ Len(Pdu(d)) >= 2  BY PduIs
<1> DEFINE x == TwoBytes(Crc16Modbus(Pdu(d)))[1]
           y == TwoBytes(Crc16Modbus(Pdu(d)))[2]
<1>2. TwoBytes(Crc16Modbus(Pdu(d))) = <<x, y>> /\ x \in Byte /\ y \in Byte
  BY <1>1, CrcsAre, TwoBytesIs
<1>3. StandardCrc(Pdu(d)) = <<y, x>>  BY <1>1, CrcIsTheStandards
<1> HIDE DEF x, y
<1>4. Reply(d) = Pdu(d) \o StandardCrc(Pdu(d))  BY DEF Reply, Pdu, Held
<1> QED  BY <1>2, <1>3, <1>4

\* ModbusRTUProtocol.parse_response gives the data back,
LEMMA RtuReads ==
  ASSUME link.proto = "modbus_rtu", NEW d \in Data, Len(d) # 1
  PROVE  ParsesRtu(Reply(d)) = Read(BytesToValue(d, link.type, link.order))
<1> DEFINE L == Len(Held(d))
           p == Pdu(d)
           raw == Reply(d)
<1>1. p \in Seq(Byte) /\ L \in {2, 4} /\ Len(p) = L + 3 /\ p[1] = Slave /\ p[2] = 3 /\ p[3] = L
      /\ \A k \in 1 .. L : p[3 + k] = Held(d)[k]
  BY PduIs
<1>2. Held(d) = d /\ d \in Seq(Byte)  BY HeldIs DEF Data
<1>3. PICK x \in Byte, y \in Byte : TwoBytes(Crc16Modbus(p)) = <<x, y>> /\ raw = p \o <<y, x>>
  BY RtuReply
<1> HIDE DEF p, raw
<1>4. raw \in Seq(Byte) /\ Len(raw) = Len(p) + 2 /\ (\A k \in 1 .. Len(p) : raw[k] = p[k])
      /\ raw[Len(p) + 1] = y /\ raw[Len(p) + 2] = x /\ SubSeq(raw, 1, Len(p)) = p
  BY <1>1, <1>3, FrameIs
<1> HIDE DEF L
<1>5. Len(raw) = L + 5 /\ raw[L + 4] = y /\ raw[L + 5] = x /\ SubSeq(raw, 1, L + 3) = p
      /\ raw[1] = Slave /\ raw[2] = 3 /\ raw[3] = L
  BY <1>1, <1>4
<1>6. \A k \in 1 .. L : raw[3 + k] = d[k]
  <2> TAKE k \in 1 .. L
  <2>1. 3 + k \in 1 .. Len(p)  BY <1>1
  <2> QED  BY <1>1, <1>2, <1>4, <2>1
<1>7. Slice(raw, 4, 3 + L) = d
  <2>1. L = Len(d) /\ 3 \in Nat /\ 3 + Len(d) <= Len(raw)  BY <1>1, <1>2, <1>5 DEF L
  <2>2. Slice(raw, 3 + 1, 3 + Len(d)) = d  BY <1>2, <1>4, <1>6, <2>1, SlicesAre
  <2> QED  BY <2>1, <2>2
<1>8. Len(raw) - 2 = L + 3 /\ Len(raw) - 1 = L + 4 /\ Len(raw) >= 5  BY <1>1, <1>5
<1>9. TwoBytes(Crc16Modbus(SubSeq(raw, 1, Len(raw) - 2))) = <<raw[Len(raw)], raw[Len(raw) - 1]>>
  BY <1>3, <1>5, <1>8
<1>10. ~(Len(raw) < 5) /\ ~(raw[2] >= 128)  BY <1>1, <1>5
<1>11. ParsesRtu(raw) = Read(BytesToValue(Slice(raw, 4, 3 + raw[3]), link.type, link.order))
  BY <1>5, <1>9, <1>10 DEF ParsesRtu
<1> QED  BY <1>5, <1>7, <1>11 DEF raw

\* and refuses a frame with a changed byte.
LEMMA RtuRefuses ==
  ASSUME link.proto = "modbus_rtu", NEW d \in Data, NEW i \in 1 .. Len(Reply(d)), NEW b \in Byte, b # Reply(d)[i]
  PROVE  ParsesRtu([Reply(d) EXCEPT ![i] = b]) = Failed
<1> DEFINE p == Pdu(d)
           w == [Reply(d) EXCEPT ![i] = b]
<1>1. p \in Seq(Byte)  BY PduIs
<1>2. PICK x \in Byte, y \in Byte : TwoBytes(Crc16Modbus(p)) = <<x, y>> /\ Reply(d) = p \o <<y, x>>
  BY RtuReply
<1>3. Len(Reply(d)) = Len(p) + 2  BY <1>1, <1>2, FrameIs
<1>4. Corrupted(w, p, y, x, i, b)  BY <1>2, <1>3 DEF Corrupted
<1> HIDE DEF p, w
<1>5. w \in Seq(Byte) /\ Len(w) = Len(p) + 2 /\ Len(p) \in Nat /\ (InBody(w, p, y, x, i, b) \/ InCheck(w, p, y, x))
  BY <1>1, <1>4, FrameChanged
<1>6. Len(w) - 2 = Len(p) /\ Len(w) - 1 = Len(p) + 1  BY <1>5
<1>7. TwoBytes(Crc16Modbus(SubSeq(w, 1, Len(p)))) # <<w[Len(p) + 2], w[Len(p) + 1]>>
  <2>1. CASE InBody(w, p, y, x, i, b)
    <3> DEFINE other == [p EXCEPT ![i] = b]
    <3>1. Crc16Modbus(other) # Crc16Modbus(p) /\ other \in Seq(Byte)
      <4>1. i \in 1 .. Len(p) /\ b \in Byte /\ b # p[i]  BY <2>1 DEF InBody
      <4>2. Crc16Modbus([p EXCEPT ![i] = b]) # Crc16Modbus(p)  BY <1>1, <4>1, Crc16ModbusShows
      <4>3. [p EXCEPT ![i] = b] \in Seq(Byte)  BY <1>1, <4>1, OneChanged
      <4> QED  BY <4>2, <4>3
    <3>2. SubSeq(w, 1, Len(p)) = other /\ w[Len(p) + 1] = y /\ w[Len(p) + 2] = x  BY <2>1 DEF InBody
    <3> HIDE DEF other
    <3>3. TwoBytes(Crc16Modbus(other)) # TwoBytes(Crc16Modbus(p))
      BY <1>1, <3>1, CrcsAre, TwoBytesPart
    <3> QED  BY <1>2, <3>2, <3>3
  <2>2. CASE InCheck(w, p, y, x)
    <3>1. <<w[Len(p) + 2], w[Len(p) + 1]>> # <<x, y>>  BY <2>2 DEF InCheck
    <3> QED  BY <1>2, <2>2, <3>1 DEF InCheck
  <2> QED  BY <1>5, <2>1, <2>2
<1>8. TwoBytes(Crc16Modbus(SubSeq(w, 1, Len(w) - 2))) # <<w[Len(w)], w[Len(w) - 1]>>
  BY <1>5, <1>6, <1>7
<1> QED  BY <1>8 DEF ParsesRtu, w

\* ModbusTCPProtocol.parse_response gives the data back.
LEMMA TcpReads ==
  ASSUME link.proto = "modbus_tcp", NEW d \in Data, Len(d) # 1
  PROVE  ParsesTcp(Reply(d)) = Read(BytesToValue(d, link.type, link.order))
<1> DEFINE L == Len(Held(d))
           p == Pdu(d)
           raw == Reply(d)
           h == <<0, 1, 0, 0, 0, 3 + L>>
<1>1. p \in Seq(Byte) /\ L \in {2, 4} /\ Len(p) = L + 3 /\ p[1] = Slave /\ p[2] = 3 /\ p[3] = L
      /\ \A k \in 1 .. L : p[3 + k] = Held(d)[k]
  BY PduIs
<1>2. Held(d) = d /\ d \in Seq(Byte)  BY HeldIs DEF Data
<1>3. raw = h \o p  BY DEF Reply, Pdu, Held
<1>4. h \in Seq(Byte) /\ Len(h) = 6 /\ h[3] = 0 /\ h[4] = 0
  <2>1. 3 + L \in Byte
    <3> HIDE DEF L
    <3>1. L = 2 \/ L = 4  BY <1>1
    <3> QED  BY <3>1 DEF Byte
  <2>2. 0 \in Byte /\ 1 \in Byte  BY DEF Byte
  <2> QED  BY <2>1, <2>2
<1> HIDE DEF p, raw, h
<1>5. raw \in Seq(Byte) /\ Len(raw) = Len(h) + Len(p) /\ (\A k \in 1 .. Len(h) : raw[k] = h[k])
      /\ \A k \in 1 .. Len(p) : raw[Len(h) + k] = p[k]
  BY <1>1, <1>3, <1>4, HeadOf
<1> HIDE DEF L
<1>6. Len(raw) = L + 9 /\ raw[3] = 0 /\ raw[4] = 0 /\ \A k \in 1 .. Len(p) : raw[6 + k] = p[k]
  BY <1>1, <1>4, <1>5
<1>7. raw[8] = 3 /\ raw[9] = L
  <2>1. 2 \in 1 .. Len(p) /\ 3 \in 1 .. Len(p) /\ 6 + 2 = 8 /\ 6 + 3 = 9  BY <1>1
  <2>2. raw[6 + 2] = p[2] /\ raw[6 + 3] = p[3]  BY <1>6, <2>1
  <2> QED  BY <1>1, <2>1, <2>2
<1>8. \A k \in 1 .. L : raw[9 + k] = d[k]
  <2> TAKE k \in 1 .. L
  <2>1. 3 + k \in 1 .. Len(p) /\ 6 + (3 + k) = 9 + k  BY <1>1
  <2>2. raw[6 + (3 + k)] = p[3 + k]  BY <1>6, <2>1
  <2> QED  BY <1>1, <1>2, <2>1, <2>2
<1>9. Slice(raw, 10, 9 + L) = d
  <2>1. L = Len(d) /\ 9 \in Nat /\ 9 + Len(d) <= Len(raw)  BY <1>1, <1>2, <1>6 DEF L
  <2>2. Slice(raw, 9 + 1, 9 + Len(d)) = d  BY <1>2, <1>5, <1>8, <2>1, SlicesAre
  <2> QED  BY <2>1, <2>2
<1>10. ~(Len(raw) < 9) /\ ~(raw[8] >= 128) /\ <<raw[3], raw[4]>> = <<0, 0>>  BY <1>1, <1>6, <1>7
<1>11. ParsesTcp(raw) = Read(BytesToValue(Slice(raw, 10, 9 + raw[9]), link.type, link.order))
  BY <1>10 DEF ParsesTcp
<1> QED  BY <1>7, <1>9, <1>11 DEF raw

\* A device understands every command.
LEMMA CommandUnderstood ==
  ASSUME link \in Links, wire = Command
  PROVE  Understood
<1>1. Registers \in {1, 2}
  <2>1. Size(link.type) \in {1, 2, 4}  BY LinkIs, SizeIs
  <2>2. CASE Size(link.type) = 1  BY <2>2 DEF Registers
  <2>3. CASE Size(link.type) = 2  BY <2>3 DEF Registers
  <2>4. CASE Size(link.type) = 4  BY <2>4 DEF Registers
  <2> QED  BY <2>1, <2>2, <2>3, <2>4
<1>2. CASE link.proto = "modbus_rtu"
  <2> DEFINE p == <<Slave, 3, 0, 1, 0, Registers>>
  <2>1. p \in Seq(Byte) /\ Len(p) = 6
    <3>1. Slave \in Byte /\ Registers \in Byte /\ 0 \in Byte /\ 1 \in Byte /\ 3 \in Byte
      BY <1>1, FramesAssumption DEF Byte
    <3> QED  BY <3>1
  <2>2. wire = p \o <<TwoBytes(Crc16Modbus(p))[2], TwoBytes(Crc16Modbus(p))[1]>>
    BY <1>2 DEF Command, RtuCommand
  <2> HIDE DEF p
  <2>4. Len(p) >= 2  BY <2>1
  <2>3. wire = p \o StandardCrc(p)  BY <2>1, <2>2, <2>4, CrcIsTheStandards
  <2> QED  BY <1>2, <2>3 DEF Understood, p
<1>3. CASE link.proto = "modbus_tcp"
  <2> DEFINE n == Registers
             w == <<0, 1, 0, 0, 0, 6, Slave, 3, 0, 1, 0, n>>
             h == <<0, 0, 0, 6>>
             q == <<Slave, 3, 0, 1, 0, n>>
             s == SubSeq(w, 3, 12)
             t == h \o q
  <2>1. wire = w  BY <1>3 DEF Command, TcpCommand
  <2>2. Slave \in Byte /\ n \in Byte /\ 0 \in Byte /\ 1 \in Byte /\ 3 \in Byte /\ 6 \in Byte
    BY <1>1, FramesAssumption DEF Byte
  <2> HIDE DEF n
  <2>3. w \in Seq(Byte) /\ Len(w) = 12  BY <2>2
  <2>4. w[3] = 0 /\ w[4] = 0 /\ w[5] = 0 /\ w[6] = 6 /\ w[7] = Slave /\ w[8] = 3 /\ w[9] = 0 /\ w[10] = 1 /\ w[11] = 0 /\ w[12] = n
    OBVIOUS
  <2>5. h \in Seq(Byte) /\ Len(h) = 4 /\ h[1] = 0 /\ h[2] = 0 /\ h[3] = 0 /\ h[4] = 6  BY <2>2
  <2>6. q \in Seq(Byte) /\ Len(q) = 6 /\ q[1] = Slave /\ q[2] = 3 /\ q[3] = 0 /\ q[4] = 1 /\ q[5] = 0 /\ q[6] = n
    BY <2>2
  <2>7. Understood <=> s = t  BY <1>3, <2>1 DEF Understood, n
  <2> HIDE DEF w, h, q
  <2>8. s = [k \in 1 .. 10 |-> w[k + 2]]
    <3>1. \A k \in 1 .. 10 : k + 3 - 1 = k + 2  OBVIOUS
    <3> QED  BY <2>3, <3>1
  <2>9. t \in Seq(Byte) /\ Len(t) = Len(h) + Len(q) /\ (\A k \in 1 .. Len(h) : t[k] = h[k])
        /\ \A k \in 1 .. Len(q) : t[Len(h) + k] = q[k]
    BY <2>5, <2>6, HeadOf
  <2> HIDE DEF t, s
  <2>10. Len(t) = 10 /\ (\A k \in 1 .. 4 : t[k] = h[k]) /\ \A k \in 1 .. 6 : t[4 + k] = q[k]
    BY <2>5, <2>6, <2>9
  <2>11. t = [k \in 1 .. 10 |-> t[k]]
    <3>1. t = [k \in 1 .. Len(t) |-> t[k]]  BY <2>9, SeqDef
    <3> QED  BY <2>10, <3>1
  <2>12. t[1] = w[3] /\ t[2] = w[4] /\ t[3] = w[5] /\ t[4] = w[6]  BY <2>4, <2>5, <2>10
  <2>13. t[5] = w[7] /\ t[6] = w[8] /\ t[7] = w[9] /\ t[8] = w[10] /\ t[9] = w[11] /\ t[10] = w[12]
    <3>1. t[4 + 1] = q[1] /\ t[4 + 2] = q[2] /\ t[4 + 3] = q[3] /\ t[4 + 4] = q[4] /\ t[4 + 5] = q[5] /\ t[4 + 6] = q[6]
      BY <2>10
    <3> QED  BY <2>4, <2>6, <3>1
  <2>14. \A k \in 1 .. 10 : t[k] = w[k + 2]
    <3> TAKE k \in 1 .. 10
    <3>1. k \in {1, 2, 3, 4, 5, 6, 7, 8, 9, 10}  OBVIOUS
    <3> QED  BY <2>12, <2>13, <3>1
  <2> QED  BY <2>7, <2>8, <2>11, <2>14
<1>4. CASE link.proto = "custom"  BY <1>4 DEF Understood
<1> QED  BY <1>2, <1>3, <1>4, LinkIs DEF Protocols

-----------------------------------------------------------------------------
(* From the command to the reading.                                        *)

\* What the device sends for the value it means, and what noise makes of it.
Sent == Reply(Encoded(meant, link.type, link.order))
Damaged == \E i \in 1 .. Len(Sent), b \in Byte : b # Sent[i] /\ wire = [Sent EXCEPT ![i] = b]

OnItsWay ==
  /\ meant \in [1 .. Size(link.type) -> Byte]
  /\ \/ noisy = FALSE /\ wire = Sent
     \/ noisy = TRUE /\ link.proto # "modbus_tcp" /\ (CheckMisplaced \/ Damaged)
\* Where the exchange is: what is on the wire, and what has been read.
FramesInv ==
  /\ link \in Links
  /\ stage = "idle" => noisy = FALSE
  /\ stage = "asked" => noisy = FALSE /\ wire = Command
  /\ stage = "answered" => OnItsWay
  /\ stage = "parsed" /\ noisy = FALSE /\ ~Misread /\ ~CheckMisplaced =>
       reading = Read([sign |-> Signed(link.type), bytes |-> meant])
  /\ stage = "parsed" /\ noisy = TRUE /\ (link.proto = "modbus_rtu" \/ link.method \notin {"none", "crc32"}) /\ ~CheckMisplaced =>
       reading = Failed
  /\ stage = "parsed" => noisy \in BOOLEAN

\* A value is sent as one, two or four bytes.
LEMMA EncodedIsData ==
  ASSUME link \in Links, meant \in [1 .. Size(link.type) -> Byte]
  PROVE  /\ Encoded(meant, link.type, link.order) \in Data
         /\ Len(Encoded(meant, link.type, link.order)) = Size(link.type)
<1> DEFINE d == Encoded(meant, link.type, link.order)
           n == Size(link.type)
<1>1. n \in {1, 2, 4} /\ n \in Nat  BY LinkIs, SizeIs
<1>2. d \in [1 .. n -> Byte]  BY LinkIs, EncodedIs
<1> HIDE DEF d, n
<1>3. d \in Seq(Byte) /\ Len(d) = n  BY <1>1, <1>2, BytesAre
<1> QED  BY <1>1, <1>3 DEF Data, d, n

\* What is sent is bytes.
LEMMA SentIs ==
  ASSUME link \in Links, meant \in [1 .. Size(link.type) -> Byte], link.proto # "modbus_tcp", ~CheckMisplaced
  PROVE  Sent \in Seq(Byte)
<1> DEFINE d == Encoded(meant, link.type, link.order)
<1>1. d \in Data  BY EncodedIsData
<1> HIDE DEF d
<1>2. CASE link.proto = "custom"
  <2>1. Reply(d) \in Seq(Byte)  BY <1>1, <1>2, CustomReads
  <2> QED  BY <2>1 DEF Sent, d
<1>3. CASE link.proto = "modbus_rtu"
  <2>1. PICK x \in Byte, y \in Byte : Reply(d) = Pdu(d) \o <<y, x>>  BY <1>1, <1>3, RtuReply
  <2>2. Pdu(d) \in Seq(Byte)  BY <1>1, PduIs
  <2>3. Reply(d) \in Seq(Byte)  BY <2>1, <2>2, FrameIs
  <2> QED  BY <2>3 DEF Sent, d
<1> QED  BY <1>2, <1>3, LinkIs DEF Protocols

\* A reply that nothing happened to is read as what the device means,
LEMMA SentIsRead ==
  ASSUME link \in Links, meant \in [1 .. Size(link.type) -> Byte], ~Misread, ~CheckMisplaced
  PROVE  Parses(Sent) = Read([sign |-> Signed(link.type), bytes |-> meant])
<1> DEFINE d == Encoded(meant, link.type, link.order)
<1>1. d \in Data /\ Len(d) = Size(link.type)  BY EncodedIsData
<1>2. BytesToValue(d, link.type, link.order) = [sign |-> Signed(link.type), bytes |-> meant]
  <2>1. link.type \notin {"float32_abcd", "float32_cdab", "H", "L"}
        /\ ~(link.order = "big_endian_swap" /\ link.type \in {"uint32", "float32"})
    BY DEF Misread
  <2>2. link.type \in Types /\ link.order \in Orders  BY LinkIs
  <2> QED  BY <2>1, <2>2, Decodes
<1>3. link.proto # "custom" => Len(d) # 1
  <2>1. link.proto # "custom" => link.type # "uint8"  BY DEF Misread
  <2>2. link.type \in Types  BY LinkIs
  <2> QED  BY <1>1, <2>1, <2>2, SizeIs
<1>4. Sent = Reply(d)  BY DEF Sent
<1> HIDE DEF d
<1>5. CASE link.proto = "custom"
  <2>1. Parses(Sent) = ParsesCustom(Reply(d))  BY <1>4, <1>5 DEF Parses
  <2> QED  BY <1>1, <1>2, <1>5, <2>1, CustomReads
<1>6. CASE link.proto = "modbus_rtu"
  <2>1. Parses(Sent) = ParsesRtu(Reply(d))  BY <1>4, <1>6 DEF Parses
  <2> QED  BY <1>1, <1>2, <1>3, <1>6, <2>1, RtuReads
<1>7. CASE link.proto = "modbus_tcp"
  <2>1. Parses(Sent) = ParsesTcp(Reply(d))  BY <1>4, <1>7 DEF Parses
  <2> QED  BY <1>1, <1>2, <1>3, <1>7, <2>1, TcpReads
<1> QED  BY <1>5, <1>6, <1>7, LinkIs DEF Protocols

\* and one that noise changed is refused where it carries a check.
LEMMA DamagedIsRefused ==
  ASSUME link \in Links, meant \in [1 .. Size(link.type) -> Byte], link.proto # "modbus_tcp", ~CheckMisplaced, Damaged,
         link.proto = "modbus_rtu" \/ link.method \notin {"none", "crc32"}
  PROVE  Parses(wire) = Failed
<1> DEFINE d == Encoded(meant, link.type, link.order)
<1>1. d \in Data  BY EncodedIsData
<1>2. PICK i \in 1 .. Len(Sent), b \in Byte : b # Sent[i] /\ wire = [Sent EXCEPT ![i] = b]
  BY DEF Damaged
<1>3. Sent = Reply(d)  BY DEF Sent
<1> HIDE DEF d
<1>4. i \in 1 .. Len(Reply(d)) /\ b # Reply(d)[i] /\ wire = [Reply(d) EXCEPT ![i] = b]  BY <1>2, <1>3
<1>5. CASE link.proto = "custom"
  <2>1. ParsesCustom([Reply(d) EXCEPT ![i] = b]) = Failed  BY <1>1, <1>4, <1>5, CustomRefuses
  <2> QED  BY <1>4, <1>5, <2>1 DEF Parses
<1>6. CASE link.proto = "modbus_rtu"
  <2>1. ParsesRtu([Reply(d) EXCEPT ![i] = b]) = Failed  BY <1>1, <1>4, <1>6, RtuRefuses
  <2> QED  BY <1>4, <1>6, <2>1 DEF Parses
<1> QED  BY <1>5, <1>6, LinkIs DEF Protocols

\* FramesInv holds at the start,
LEMMA FramesInvInit == FramesInit => FramesInv
BY DEF FramesInit, FramesInv

\* every step keeps it,
LEMMA FramesInvStep == FramesInv /\ [FramesNext]_framesVars => FramesInv'
<1> SUFFICES ASSUME FramesInv, [FramesNext]_framesVars PROVE FramesInv'  OBVIOUS
<1>1. ASSUME UNCHANGED link PROVE Command' = Command /\ Misread' = Misread /\ CheckMisplaced' = CheckMisplaced
  BY <1>1 DEF Command, RtuCommand, TcpCommand, CustomCommand, Check, Registers, Misread, CheckMisplaced
<1>2. ASSUME UNCHANGED <<link, meant>> PROVE Sent' = Sent  BY <1>2 DEF Sent, Reply, Check
<1>3. CASE Ask
  BY <1>1, <1>3 DEF Ask, FramesInv
<1>4. CASE Answer
  <2>1. link' = link /\ stage' = "answered" /\ noisy' = FALSE  BY <1>4 DEF Answer, FramesInv
  <2>2. meant' \in [1 .. Size(link.type) -> Byte]
    <3>1. PICK value \in [1 .. Size(link.type) -> Bytes] : meant' = value  BY <1>4 DEF Answer
    <3>2. Bytes \subseteq Byte  BY FramesAssumption DEF Byte
    <3> QED  BY <3>1, <3>2
  <2>3. wire' = Sent'
    <3>1. wire' = Reply(Encoded(meant', link.type, link.order))  BY <1>4 DEF Answer
    <3> QED  BY <2>1, <3>1 DEF Sent, Reply, Check
  <2> QED  BY <2>1, <2>2, <2>3 DEF FramesInv, OnItsWay
<1>5. CASE Noise
  <2>1. UNCHANGED <<link, stage, meant, reading>> /\ stage = "answered" /\ noisy = FALSE /\ noisy' = TRUE
        /\ link.proto # "modbus_tcp"
    BY <1>5 DEF Noise, FramesInv
  <2>2. link \in Links /\ meant \in [1 .. Size(link.type) -> Byte] /\ wire = Sent
    BY <2>1 DEF FramesInv, OnItsWay
  <2>3. ASSUME ~CheckMisplaced PROVE Damaged'
    <3>1. Sent \in Seq(Byte)  BY <2>1, <2>2, <2>3, SentIs
    <3>2. PICK i \in DOMAIN wire, k \in 1 .. 8 : wire' = [wire EXCEPT ![i] = Turned(wire[i], k)]
      BY <1>5 DEF Noise, Turned
    <3>3. i \in 1 .. Len(Sent) /\ Sent[i] \in Byte  BY <2>2, <3>1, <3>2, LenProperties, ElementOfSeq
    <3>4. Turned(Sent[i], k) \in Byte /\ Turned(Sent[i], k) # Sent[i]  BY <3>3, TurnedIs
    <3>5. Sent' = Sent  BY <1>2, <2>1
    <3> QED  BY <2>2, <3>2, <3>3, <3>4, <3>5 DEF Damaged
  <2>4. CheckMisplaced' = CheckMisplaced  BY <1>1, <2>1
  <2> QED  BY <2>1, <2>2, <2>3, <2>4 DEF FramesInv, OnItsWay
<1>6. CASE Parse
  <2>1. UNCHANGED <<link, meant, wire, noisy>> /\ stage = "answered" /\ stage' = "parsed" /\ reading' = Parses(wire)
    BY <1>6 DEF Parse
  <2>2. link \in Links /\ meant \in [1 .. Size(link.type) -> Byte]
        /\ ((noisy = FALSE /\ wire = Sent) \/ (noisy = TRUE /\ link.proto # "modbus_tcp" /\ (CheckMisplaced \/ Damaged)))
    <3>1. link \in Links /\ OnItsWay  BY <2>1 DEF FramesInv
    <3> QED  BY <3>1 DEF OnItsWay
  <2>3. CheckMisplaced' = CheckMisplaced /\ Misread' = Misread  BY <1>1, <2>1
  <2>4. ASSUME noisy = FALSE, ~Misread, ~CheckMisplaced
        PROVE  reading' = Read([sign |-> Signed(link.type), bytes |-> meant])
    BY <2>1, <2>2, <2>4, SentIsRead
  <2>5. ASSUME noisy = TRUE, link.proto = "modbus_rtu" \/ link.method \notin {"none", "crc32"}, ~CheckMisplaced
        PROVE  reading' = Failed
    BY <2>1, <2>2, <2>5, DamagedIsRefused
  <2> QED  BY <2>1, <2>2, <2>3, <2>4, <2>5 DEF FramesInv
<1>7. CASE Used
  BY <1>7 DEF Used, FramesInv
<1>8. CASE UNCHANGED framesVars
  <2>1. UNCHANGED <<link, stage, meant, wire, noisy, reading>>  BY <1>8 DEF framesVars
  <2>2. Command' = Command /\ Misread' = Misread /\ CheckMisplaced' = CheckMisplaced /\ Sent' = Sent
    BY <1>1, <1>2, <2>1
  <2>3. Damaged' = Damaged  BY <2>1, <2>2 DEF Damaged
  <2>4. OnItsWay' = OnItsWay  BY <2>1, <2>2, <2>3 DEF OnItsWay
  <2> QED  BY <2>1, <2>2, <2>4 DEF FramesInv
<1> QED  BY <1>3, <1>4, <1>5, <1>6, <1>7, <1>8 DEF FramesNext

\* A frame with a crc32 carries only the low half of it.
HalfChecked == link.proto # "modbus_rtu" /\ link.method = "crc32"

\* it implies what is to be shown,
LEMMA FramesInvShows == FramesInv => ReadsTrue /\ (~HalfChecked => NoiseIsNeverRead)
<1> SUFFICES ASSUME FramesInv PROVE ReadsTrue /\ (~HalfChecked => NoiseIsNeverRead)  OBVIOUS
<1>1. stage = "asked" => Understood  BY CommandUnderstood DEF FramesInv
<1>2. stage = "parsed" => noisy \in BOOLEAN  BY DEF FramesInv
<1>3. stage = "parsed" /\ ~noisy /\ ~Misread /\ ~CheckMisplaced =>
        reading = Read([sign |-> Signed(link.type), bytes |-> meant])
  BY <1>2 DEF FramesInv
<1>4. ~HalfChecked => NoiseIsNeverRead
  <2>1. stage = "parsed" /\ noisy = TRUE /\ (link.proto = "modbus_rtu" \/ link.method \notin {"none", "crc32"})
          /\ ~CheckMisplaced => reading = Failed
    BY DEF FramesInv
  <2> QED  BY <1>2, <2>1 DEF NoiseIsNeverRead, HalfChecked
<1> QED  BY <1>1, <1>3, <1>4 DEF ReadsTrue

\* and it holds throughout.
LEMMA ReadingsInv == ReadingsSpec => []FramesInv
<1>1. ReadingsInit => FramesInv  BY FramesInvInit DEF ReadingsInit
<1>2. FramesInv /\ [ReadingsNext]_<<observed, processingVars, framesVars>> => FramesInv'
  <2>1. [ReadingsNext]_<<observed, processingVars, framesVars>> => [FramesNext]_framesVars
    BY DEF ReadingsNext
  <2> QED  BY <2>1, FramesInvStep
<1> QED  BY <1>1, <1>2, PTL DEF ReadingsSpec

\* Of every value, every device and every configuration the gateway does not misread: the command
\* is understood and the reading is the value the device means.
THEOREM ReadingsReadTrue == ReadingsSpec => []ReadsTrue
<1>1. FramesInv => ReadsTrue  BY FramesInvShows
<1> QED  BY <1>1, ReadingsInv, PTL

\* A reply that lost any one bit is refused wherever it carries a whole check.
THEOREM NoiseNeverRead == ReadingsSpec => [](~HalfChecked => NoiseIsNeverRead)
<1>1. FramesInv => (~HalfChecked => NoiseIsNeverRead)  BY FramesInvShows
<1> QED  BY <1>1, ReadingsInv, PTL

\* The two stages, observed apart, are what they are alone, so that what is proved of Processing
\* is true of the readings, too.
THEOREM ReadingsAreBoth == ReadingsSpec => ProcessingSpec /\ FramesSpec
<1>1. ReadingsInit => ProcessingInit /\ FramesInit
  BY DEF ReadingsInit
<1>2. [ReadingsNext]_<<observed, processingVars, framesVars>> =>
        [ProcessingNext]_processingVars /\ [FramesNext]_framesVars
  BY DEF ReadingsNext
<1> QED  BY <1>1, <1>2, PTL DEF ReadingsSpec, ProcessingSpec, FramesSpec
=============================================================================
