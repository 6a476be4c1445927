---------------------------- MODULE RmpMemProofs ----------------------------
(***************************************************************************)
(* The allocator: whatever is allocated, resized and freed in whatever     *)
(* order, the blocks tile the pool, the free lists and the bitmap hold     *)
(* exactly the free blocks, free neighbours are merged, and what the user  *)
(* holds are exactly the used blocks, each as large as asked for.          *)
(***************************************************************************)
EXTENDS RmpMem, RmpListProofs

----------------------------------------------------------------------------
(* Size classes.                                                           *)

\* The powers of two that fit in a word and the next one.
LEMMA Powers == \A i \in 0..33 : 2^i \in Nat /\ 2^(i + 1) = 2 * 2^i
<1> DEFINE P(i) == 2^i \in Nat /\ 2^(i + 1) = 2 * 2^i
<1>1. /\ P(0) /\ P(1) /\ P(2) /\ P(3) /\ P(4) /\ P(5) /\ P(6) /\ P(7) /\ P(8)
      /\ P(9) /\ P(10) /\ P(11) /\ P(12) /\ P(13) /\ P(14) /\ P(15) /\ P(16) /\ P(17)
      /\ P(18) /\ P(19) /\ P(20) /\ P(21) /\ P(22) /\ P(23) /\ P(24) /\ P(25) /\ P(26)
      /\ P(27) /\ P(28) /\ P(29) /\ P(30) /\ P(31) /\ P(32) /\ P(33)
  OBVIOUS
<1>2. \A i \in 0..33 :
         i \in {0, 1, 2, 3, 4, 5, 6, 7, 8, 9, 10, 11, 12, 13, 14, 15, 16, 17, 18,
          19, 20, 21, 22, 23, 24, 25, 26, 27, 28, 29, 30, 31, 32, 33}
  OBVIOUS
<1> HIDE DEF P
<1>3. \A i \in 0..33 : P(i)  BY <1>1, <1>2
<1>. QED  BY <1>3 DEF P

\* They grow.
LEMMA PowersGrow ==
  ASSUME NEW i \in 0..32, NEW j \in 0..33, i < j
  PROVE  2^i \in Nat \ {0} /\ 2 * 2^i <= 2^j
<1> DEFINE x(n) == 2^n
<1>1. \A n \in 0..33 : x(n) \in Nat /\ x(n + 1) = 2 * x(n)  BY Powers
<1>2. x(0) = 1  OBVIOUS
<1> HIDE DEF x
<1>3. \A n \in 0..33 : x(n) # 0
  <2> DEFINE Bad == {n \in 0..33 : x(n) = 0}
  <2> SUFFICES ASSUME Bad # {}  PROVE FALSE
    OBVIOUS
  <2>1. PICK n \in Bad : \A l \in Bad : n <= l
    <3>1. Bad \in SUBSET Nat  OBVIOUS
    <3> HIDE DEF Bad
    <3>. QED  BY <3>1, LeastNat
  <2>2. n # 0  BY <1>2
  <2>3. n - 1 \in 0..33 /\ n - 1 \notin Bad  BY <2>1, <2>2
  <2>4. PICK l \in 0..33 : l = n - 1 /\ n = l + 1  BY <2>1, <2>3
  <2>5. x(l + 1) = 2 * x(l) /\ x(l) \in Nat  BY <1>1
  <2>. QED  BY <2>1, <2>3, <2>4, <2>5
<1>4. 2 * x(i) <= x(j)
  <2> DEFINE Bad == {n \in (i + 1)..33 : ~(2 * x(i) <= x(n))}
  <2> SUFFICES ASSUME Bad # {}  PROVE FALSE
    OBVIOUS
  <2>1. PICK n \in Bad : \A l \in Bad : n <= l
    <3>1. Bad \in SUBSET Nat  OBVIOUS
    <3> HIDE DEF Bad
    <3>. QED  BY <3>1, LeastNat
  <2>2. n # i + 1  BY <1>1
  <2>3. n - 1 \in (i + 1)..33 /\ n - 1 \notin Bad  BY <2>1, <2>2
  <2>4. PICK l \in 0..33 : l = n - 1 /\ n = l + 1  BY <2>1, <2>3
  <2>5. x(l + 1) = 2 * x(l) /\ x(l) \in Nat /\ x(i) \in Nat  BY <1>1
  <2>. QED  BY <2>1, <2>3, <2>4, <2>5
<1>5. x(i) \in Nat \ {0}  BY <1>1, <1>3
<1>. QED  BY <1>4, <1>5 DEF x

\* Words, sizes and what is aligned.
LEMMA Words ==
  /\ B \in Nat \ {0} /\ Bits \in 16..32 /\ W \in Nat
  /\ PoolSize \in Nat /\ 1024 * B <= PoolSize /\ PoolSize < W
  /\ PoolSize % B = 0 /\ W % 8 = 0 /\ W >= 65536
<1>1. CASE Bits = 16
  <2>1. 2^16 \in Nat /\ 2^16 >= 65536 /\ 2^16 % 8 = 0  OBVIOUS
  <2>2. W = 2^16  BY <1>1 DEF W
  <2>3. W \in Nat /\ W >= 65536 /\ W % 8 = 0  BY <2>1, <2>2
  <2>. QED  BY <1>1, <2>3, MemAssumption
<1>2. CASE Bits = 32
  <2>1. 2^32 \in Nat /\ 2^32 >= 65536 /\ 2^32 % 8 = 0  OBVIOUS
  <2>2. W = 2^32  BY <1>2 DEF W
  <2>3. W \in Nat /\ W >= 65536 /\ W % 8 = 0  BY <2>1, <2>2
  <2>. QED  BY <1>2, <2>3, MemAssumption
<1>. QED  BY <1>1, <1>2, MemAssumption

\* A multiple of 8 or B is aligned, and so are sums and differences.
LEMMA Aligned ==
  /\ \A x, y \in Int : x % B = 0 /\ y % B = 0 => (x + y) % B = 0 /\ (x - y) % B = 0
  /\ \A x \in Int : (B * x) % B = 0 /\ (x % 8 = 0 => x % B = 0)
<1>1. CASE B = 1  BY <1>1
<1>2. CASE B = 2  BY <1>2
<1>3. CASE B = 4  BY <1>3
<1>. QED  BY <1>1, <1>2, <1>3, MemAssumption

\* RMP_MSB_GET is defined, and not more for less.
LEMMA MSBFacts ==
  ASSUME NEW n \in 1..(W - 1)
  PROVE  MSB(n) \in 0..(Bits - 1) /\ 2^MSB(n) <= n /\ n < 2 * 2^MSB(n)
<1> DEFINE x(i) == 2^i
           Over == {i \in 0..Bits : n < x(i)}
<1>1. \A i \in 0..33 : x(i) \in Nat /\ x(i + 1) = 2 * x(i)  BY Powers
<1>2. x(0) = 1 /\ W = x(Bits) /\ Bits \in 16..32 /\ W \in Nat  BY Words DEF W
<1> HIDE DEF x
<1>3. Over # {} /\ Over \in SUBSET Nat  BY <1>2
<1>4. PICK j \in Over : \A l \in Over : j <= l
  <2> HIDE DEF Over
  <2>. QED  BY <1>3, LeastNat
<1>5. j # 0  BY <1>2
<1>6. j - 1 \in 0..(Bits - 1) /\ j - 1 \notin Over  BY <1>2, <1>4, <1>5
<1>7. x(j - 1) <= n /\ n < x(j) /\ x(j) = 2 * x(j - 1)
  BY <1>1, <1>2, <1>6
<1>8. \E i \in 0..(Bits - 1) : x(i) <= n /\ n < x(i + 1)
  BY <1>2, <1>6, <1>7
<1>9. MSB(n) \in 0..(Bits - 1) /\ x(MSB(n)) <= n /\ n < x(MSB(n) + 1)
  BY <1>8 DEF MSB, x
<1>10. x(MSB(n) + 1) = 2 * x(MSB(n))  BY <1>1, <1>2, <1>9
<1>. QED  BY <1>9, <1>10 DEF x

LEMMA MSBOrder ==
  ASSUME NEW a \in 1..(W - 1), NEW b \in 1..(W - 1), a <= b
  PROVE  MSB(a) <= MSB(b)
<1>1. /\ MSB(a) \in 0..(Bits - 1) /\ 2^MSB(a) <= a /\ a < 2 * 2^MSB(a)
      /\ MSB(b) \in 0..(Bits - 1) /\ 2^MSB(b) <= b /\ b < 2 * 2^MSB(b)
  BY MSBFacts
<1>2. ASSUME MSB(b) < MSB(a)  PROVE FALSE
  <2>1. MSB(a) \in 0..33 /\ MSB(b) \in 0..32  BY <1>1, Words
  <2>2. 2^MSB(b) \in Nat /\ 2 * 2^MSB(b) <= 2^MSB(a)  BY <1>2, <2>1, PowersGrow
  <2>3. 2^MSB(a) \in Nat  BY <2>1, Powers
  <2> HIDE DEF MSB
  <2>. QED  BY <1>1, <2>2, <2>3, Words
<1>. QED  BY <1>1, <1>2, Words

\* Size n lies in an eighth of its power of two.
LEMMA ClassFacts ==
  ASSUME NEW n \in 64..(W - 1)
  PROVE  LET u == Unit(n)
         IN  /\ u \in Nat \ {0} /\ FLI(n) \in 0..(Bits - 7) /\ SLI(n) \in 0..7
             /\ Level(n) = 8 * FLI(n) + SLI(n)
             /\ u * (8 + SLI(n)) <= n /\ n < u * (9 + SLI(n))
<1> DEFINE u == Unit(n)
           i == MSB(n)
           q == n \div u
<1>1. W \in Nat /\ Bits \in 16..32  BY Words
<1>2. i \in 0..(Bits - 1) /\ 2^i <= n /\ n < 2 * 2^i
  <2>1. n \in 1..(W - 1)  BY <1>1
  <2>. QED  BY <2>1, MSBFacts
<1>3. i >= 6
  <2> SUFFICES ASSUME i < 6  PROVE FALSE
    BY <1>1, <1>2
  <2> HIDE DEF i
  <2>1. i \in 0..32 /\ i < 6 /\ 6 \in 0..33  BY <1>1, <1>2
  <2>2. 2 * 2^i <= 2^6 /\ 2^i \in Nat  BY <2>1, PowersGrow
  <2>3. 2^6 = 64  OBVIOUS
  <2>. QED  BY <1>1, <1>2, <2>2, <2>3
<1>4. u \in Nat \ {0} /\ 8 * u = 2^i
  <2> DEFINE j == i - 3
  <2>1. u = 2^j
    <3>1. FLI(n) + 3 = j  BY <1>1, <1>2 DEF FLI
    <3>. QED  BY <3>1 DEF Unit
  <2>2. j \in 0..32 /\ j \in 0..33 /\ j + 1 \in 0..33 /\ j + 2 \in 0..33 /\ j < j + 1 /\ (j + 2) + 1 = i
        /\ (j + 1) + 1 = j + 2
    BY <1>1, <1>2, <1>3
  <2> HIDE DEF j
  <2>3. 2^j \in Nat \ {0}  BY <2>2, PowersGrow
  <2>4. 2^(j + 1) = 2 * 2^j /\ 2^(j + 2) = 2 * 2^(j + 1) /\ 2^i = 2 * 2^(j + 2)
    <3>1. 2^(j + 1) = 2 * 2^j  BY <2>2, Powers
    <3>2. 2^((j + 1) + 1) = 2 * 2^(j + 1)  BY <2>2, Powers
    <3>3. 2^((j + 2) + 1) = 2 * 2^(j + 2)  BY <2>2, Powers
    <3>. QED  BY <2>2, <3>1, <3>2, <3>3
  <2>. QED  BY <2>1, <2>3, <2>4
<1> HIDE DEF i, u
<1>5. n \in Nat /\ 8 * u <= n /\ n < 16 * u  BY <1>1, <1>2, <1>4
<1>6. q \in Nat /\ u * q <= n /\ n < u * q + u  BY <1>4, <1>5
<1> HIDE DEF q
<1>7. q >= 8
  <2> SUFFICES ASSUME q <= 7  PROVE FALSE
    BY <1>6
  <2>1. u * q <= u * 7  BY <1>4, <1>6
  <2>. QED  BY <1>4, <1>5, <1>6, <2>1
<1>8. q <= 15
  <2> SUFFICES ASSUME q >= 16  PROVE FALSE
    BY <1>6
  <2>1. u * q >= u * 16  BY <1>4, <1>6
  <2>. QED  BY <1>4, <1>5, <1>6, <2>1
<1>9. SLI(n) = q - 8  BY <1>6, <1>7, <1>8 DEF SLI, q, u
<1>10. u * q + u = u * (q + 1)  BY <1>4, <1>6
<1>11. FLI(n) \in 0..(Bits - 7)  BY <1>1, <1>2, <1>3 DEF FLI, i
<1>. QED  BY <1>4, <1>6, <1>7, <1>8, <1>9, <1>10, <1>11 DEF Level, u

\* A lower class is a smaller size, and a class is an interval.
LEMMA LevelOrder ==
  ASSUME NEW a \in 64..(W - 1), NEW b \in 64..(W - 1)
  PROVE  /\ Level(a) \in Nat /\ Unit(a) \in Nat \ {0} /\ SLI(a) \in 0..7
         /\ Unit(a) * (8 + SLI(a)) <= a /\ a < Unit(a) * (9 + SLI(a))
         /\ Level(a) < Level(b) => Unit(a) * (9 + SLI(a)) <= b
         /\ Level(a) = Level(b) => Unit(a) * (8 + SLI(a)) <= b
         /\ Level(a) = Level(b) => b < Unit(a) * (9 + SLI(a))
         /\ Level(b) < Level(a) => b < Unit(a) * (8 + SLI(a))
<1> DEFINE f(n) == FLI(n)
           s(n) == SLI(n)
           u(n) == Unit(n)
<1>1. ASSUME NEW n \in 64..(W - 1)
      PROVE  /\ u(n) \in Nat \ {0} /\ f(n) \in 0..(Bits - 7) /\ s(n) \in 0..7
             /\ Level(n) = 8 * f(n) + s(n) /\ u(n) = 2^(f(n) + 3)
             /\ u(n) * (8 + s(n)) <= n /\ n < u(n) * (9 + s(n))
  BY ClassFacts DEF Unit
<1>2. ASSUME NEW l \in 64..(W - 1), NEW n \in 64..(W - 1), f(l) < f(n)
      PROVE  2 * u(l) <= u(n)
  <2>1. f(l) \in 0..25 /\ f(n) \in 0..25
    <3>1. f(l) \in 0..(Bits - 7) /\ f(n) \in 0..(Bits - 7)  BY <1>1
    <3>2. \A x \in 0..(Bits - 7) : x \in 0..25  BY Words
    <3>. QED  BY <3>1, <3>2
  <2>2. 2 * 2^(f(l) + 3) <= 2^(f(n) + 3)
    <3> DEFINE i == f(l) + 3
               j == f(n) + 3
    <3>1. i \in 0..32 /\ j \in 0..33 /\ i < j  BY <1>2, <2>1
    <3> HIDE DEF i, j
    <3>2. 2 * 2^i <= 2^j  BY <3>1, PowersGrow
    <3>. QED  BY <3>2 DEF i, j
  <2>. QED  BY <1>1, <2>2
<1> HIDE DEF f, s, u
<1>3. ASSUME NEW l \in 64..(W - 1), NEW n \in 64..(W - 1), f(l) = f(n)
      PROVE  u(l) = u(n)
  BY <1>1, <1>3
<1>4. ASSUME NEW l \in 64..(W - 1), NEW n \in 64..(W - 1), Level(l) < Level(n)
      PROVE  u(l) * (9 + s(l)) <= u(n) * (8 + s(n))
  <2>1. /\ u(l) \in Nat \ {0} /\ f(l) \in Nat /\ s(l) \in 0..7
        /\ u(n) \in Nat \ {0} /\ f(n) \in Nat /\ s(n) \in 0..7
        /\ 8 * f(l) + s(l) < 8 * f(n) + s(n)
    BY <1>1, <1>4
  <2>2. CASE f(l) = f(n)
    <3>1. u(l) = u(n) /\ 9 + s(l) <= 8 + s(n)  BY <1>3, <2>1, <2>2
    <3> DEFINE x == 9 + s(l)
               y == 8 + s(n)
    <3>2. x \in Nat /\ y \in Nat /\ x <= y  BY <2>1, <3>1
    <3> HIDE DEF x, y
    <3>3. u(n) * x <= u(n) * y  BY <2>1, <3>2
    <3>. QED  BY <3>1, <3>3 DEF x, y
  <2>3. CASE f(l) < f(n)
    <3>1. 2 * u(l) <= u(n)  BY <1>2, <2>3
    <3>2. u(l) * (9 + s(l)) <= u(l) * 16  BY <2>1
    <3>3. u(n) * 8 <= u(n) * (8 + s(n))  BY <2>1
    <3> DEFINE x == u(l) * (9 + s(l))
               y == u(n) * (8 + s(n))
    <3>4. x \in Int /\ y \in Int  BY <2>1
    <3> HIDE DEF x, y
    <3>5. x <= u(l) * 16 /\ u(n) * 8 <= y  BY <3>2, <3>3 DEF x, y
    <3>6. x <= y  BY <2>1, <3>1, <3>4, <3>5
    <3>. QED  BY <3>6 DEF x, y
  <2>4. ~(f(n) < f(l))  BY <2>1
  <2>. QED  BY <2>1, <2>2, <2>3, <2>4
<1>5. ASSUME NEW l \in 64..(W - 1), NEW n \in 64..(W - 1), Level(l) = Level(n)
      PROVE  u(l) = u(n) /\ s(l) = s(n)
  <2>1. /\ f(l) \in Int /\ s(l) \in 0..7 /\ f(n) \in Int /\ s(n) \in 0..7
        /\ 8 * f(l) + s(l) = 8 * f(n) + s(n)
    BY <1>1, <1>5
  <2>2. \A x, y \in Int : \A v, w \in 0..7 : 8 * x + v = 8 * y + w => x = y /\ v = w
    OBVIOUS
  <2>3. f(l) = f(n) /\ s(l) = s(n)  BY <2>1, <2>2
  <2>. QED  BY <1>3, <2>3
<1> DEFINE x(n) == u(n) * (8 + s(n))
           y(n) == u(n) * (9 + s(n))
<1>6. /\ \A n \in 64..(W - 1) : x(n) \in Nat /\ y(n) \in Nat /\ x(n) <= n /\ n < y(n)
      /\ Level(a) < Level(b) => y(a) <= x(b)
      /\ Level(b) < Level(a) => y(b) <= x(a)
      /\ Level(a) = Level(b) => x(a) = x(b) /\ y(a) = y(b)
  BY <1>1, <1>4, <1>5
<1> HIDE DEF x, y
<1>7. /\ x(a) <= a /\ a < y(a)
      /\ Level(a) < Level(b) => y(a) <= b
      /\ Level(a) = Level(b) => x(a) <= b /\ b < y(a)
      /\ Level(b) < Level(a) => b < x(a)
  BY <1>6, Words
<1>8. Level(a) \in Nat /\ u(a) \in Nat \ {0} /\ s(a) \in 0..7  BY <1>1
<1>. QED  BY <1>7, <1>8 DEF x, y, u, s

\* The levels of the pool, and what RMP_Mem_Init leaves before the first block.
LEMMA BaseFacts ==
  /\ FLI_Num \in 1..(Bits - 6)
  /\ Base \in Nat /\ Base % B = 0 /\ Mem_Size <= Base /\ Base + Block_Min <= PoolSize
  /\ PoolSize - Mem_Size \in 64..(W - 1)
<1> DEFINE n == PoolSize - Mem_Size
           F == FLI_Num
           words == (8 * F + Bits - 1) \div Bits
<1>1. /\ B \in {1, 2, 4} /\ Bits \in {16, 32} /\ W \in Nat /\ PoolSize \in Nat
      /\ 1024 * B <= PoolSize /\ PoolSize < W
  BY Words, MemAssumption
<1>2. n \in 64..(W - 1) /\ n \in Nat  BY <1>1 DEF Mem_Size
<1>3. F \in 1..(Bits - 6)
  <2>1. FLI(n) \in 0..(Bits - 7)  BY <1>2, ClassFacts
  <2>2. MSB(n) \in 0..(Bits - 1)
    <3>1. n \in 1..(W - 1)  BY <1>1, <1>2
    <3> HIDE DEF n
    <3>. QED  BY <3>1, MSBFacts
  <2> HIDE DEF n
  <2>3. F = MSB(n) - 5 /\ FLI(n) = MSB(n) - 6  BY DEF FLI_Num, FLI, n
  <2> HIDE DEF F
  <2>. QED  BY <1>1, <2>1, <2>2, <2>3
<1> HIDE DEF F, n
<1>4. words \in 1..(F + 1) /\ Bits * words <= 8 * F + Bits - 1
  <2>1. CASE Bits = 16  BY <1>3, <2>1
  <2>2. CASE Bits = 32  BY <1>3, <2>2
  <2>. QED  BY <1>1, <2>1, <2>2
<1>5. Base = 5 * B + B * words - B + 2 * B * 8 * F
  BY DEF Base, words, F, Mem_Size, List_Size
<1> HIDE DEF words
<1>6. /\ Base \in Nat /\ 5 * B <= Base /\ Base + 5 * B + 64 <= PoolSize /\ Base % B = 0
  <2>1. CASE B = 1  BY <1>1, <1>3, <1>4, <1>5, <2>1
  <2>2. CASE B = 2  BY <1>1, <1>3, <1>4, <1>5, <2>2
  <2>3. CASE B = 4  BY <1>1, <1>3, <1>4, <1>5, <2>3
  <2>. QED  BY <1>1, <2>1, <2>2, <2>3
<1>. QED  BY <1>1, <1>2, <1>3, <1>6 DEF F, n, Mem_Size, Block_Min, Head_Size, Tail_Size

\* The table has a list for every payload that fits in the pool.
LEMMA PayloadLevel ==
  ASSUME NEW n \in 64..(PoolSize - Mem_Size)
  PROVE  Level(n) \in Levels
<1> DEFINE z == PoolSize - Mem_Size
<1>1. z \in 64..(W - 1) /\ W \in Nat /\ Bits \in 16..32  BY BaseFacts, Words
<1>2. n \in 64..(W - 1) /\ n \in 1..(W - 1) /\ z \in 1..(W - 1) /\ n <= z  BY <1>1
<1>3. MSB(n) <= MSB(z) /\ MSB(n) \in 0..(Bits - 1) /\ MSB(z) \in 0..(Bits - 1)
  <2> HIDE DEF z
  <2>. QED  BY <1>2, MSBOrder, MSBFacts
<1>4. FLI_Num = MSB(z) - 5 /\ FLI(n) = MSB(n) - 6  BY DEF FLI_Num, FLI
<1>5. FLI(n) \in 0..(Bits - 7) /\ SLI(n) \in 0..7 /\ Level(n) = 8 * FLI(n) + SLI(n)
  BY <1>2, ClassFacts
<1>6. FLI_Num \in 1..(Bits - 6)  BY BaseFacts
<1> HIDE DEF z
<1>7. FLI(n) \in 0..(FLI_Num - 1)  BY <1>1, <1>3, <1>4, <1>5, <1>6
<1>. QED  BY <1>1, <1>5, <1>6, <1>7 DEF Levels

\* What RMP_Malloc makes of a size: a multiple of 8 that is no smaller, unless
\* rounding up wraps.
LEMMA RoundedFacts ==
  ASSUME NEW n \in 0..(W - 1)
  PROVE  LET r == Rounded(n)
         IN  /\ r \in 64..(W - 1) /\ r % 8 = 0 /\ r % B = 0
             /\ n <= W - 8 => n <= r
             /\ Rounded(r) = r
<1> DEFINE x(i) == (((i + 7) % W) \div 8) * 8
           r == Rounded(n)
<1>1. W \in Nat /\ W % 8 = 0 /\ W >= 65536  BY Words
<1>2. ASSUME NEW i \in 0..(W - 1)
      PROVE  /\ x(i) \in 0..(W - 1) /\ x(i) % 8 = 0
             /\ i <= W - 8 => i <= x(i)
             /\ i % 8 = 0 => x(i) = i
  <2> DEFINE y == (i + 7) % W
  <2>1. y \in 0..(W - 1)  BY <1>1
  <2>2. i <= W - 8 => y = i + 7  BY <1>1
  <2>3. i % 8 = 0 => i <= W - 8  BY <1>1
  <2> HIDE DEF y
  <2>4. /\ (y \div 8) * 8 \in 0..(W - 1) /\ ((y \div 8) * 8) % 8 = 0
        /\ (y \div 8) * 8 <= y /\ y < (y \div 8) * 8 + 8
    BY <1>1, <2>1
  <2>5. x(i) = (y \div 8) * 8  BY DEF y
  <2> DEFINE v == (y \div 8) * 8
  <2> HIDE DEF x, v
  <2>6. v \in 0..(W - 1) /\ v % 8 = 0 /\ v <= y /\ y < v + 8  BY <2>4 DEF v
  <2>7. i <= W - 8 => i <= v  BY <1>1, <2>1, <2>2, <2>6
  <2>8. i % 8 = 0 => v = i  BY <1>1, <2>2, <2>3, <2>6
  <2>. QED  BY <2>5, <2>6, <2>7, <2>8 DEF v
<1>3. \A i : Rounded(i) = IF x(i) > 64 THEN x(i) ELSE 64  BY DEF Rounded
<1> HIDE DEF x
<1>4. r \in 64..(W - 1) /\ r % 8 = 0 /\ (n <= W - 8 => n <= r)
  BY <1>1, <1>2, <1>3
<1>5. Rounded(r) = r
  <2> HIDE DEF r
  <2>1. x(r) = r  BY <1>1, <1>2, <1>4
  <2>. QED  BY <1>3, <1>4, <2>1
<1>6. r % B = 0
  <2> HIDE DEF r
  <2>. QED  BY <1>1, <1>4, Aligned
<1>. QED  BY <1>4, <1>5, <1>6

----------------------------------------------------------------------------
(* The blocks.                                                             *)

\* The fields of a pool.
Memory(s) ==
    /\ s = [tail |-> s.tail, back |-> s.back, used |-> s.used,
            table |-> s.table, bitmap |-> s.bitmap]
    /\ s.table \in [Levels -> Seq(Nat)] /\ s.bitmap \subseteq Levels

\* The blocks whose heads are H tile the pool of s: each ends where another one
\* or the pool does, and each but the first begins where another one ends.
Tiles(s, H) ==
    /\ H \subseteq Nat /\ Base \in H
    /\ \A h \in H :
          /\ Base <= h /\ h % B = 0
          /\ h \in DOMAIN s.tail /\ s.tail[h] \in Nat
          /\ s.tail[h] \in DOMAIN s.back /\ s.back[s.tail[h]] = h
          /\ Payload(s, h) >= 64 /\ End(s, h) <= PoolSize
          /\ End(s, h) \in H \cup {PoolSize}
    /\ \A h \in H \ {Base} : \E g \in H : End(s, g) = h
    /\ \A g, h \in H : g < h => End(s, g) <= h

\* Whether the blocks tile the pool depends on heads and tails only.
LEMMA TilesFrame ==
  ASSUME NEW s, NEW u, NEW H, Tiles(s, H), u.tail = s.tail, u.back = s.back
  PROVE  Tiles(u, H)
BY DEF Tiles, Payload, End

\* u is s after _RMP_Mem_Block wrote a block with head h and tail t.
Written(u, s, h, t) ==
    /\ Memory(u) /\ u.used = s.used \ {h}
    /\ u.table = s.table /\ u.bitmap = s.bitmap
    /\ h \in DOMAIN u.tail /\ u.tail[h] = t /\ t \in Nat
    /\ t \in DOMAIN u.back /\ u.back[t] = h
    /\ \A x \in DOMAIN s.tail : x \in DOMAIN u.tail /\ (x # h => u.tail[x] = s.tail[x])
    /\ \A x \in DOMAIN s.back : x \in DOMAIN u.back /\ (x # t => u.back[x] = s.back[x])

LEMMA BlockFields ==
  ASSUME NEW s, Memory(s), NEW h \in Nat, NEW size \in Nat, size >= Tail_Size
  PROVE  Written(Mem_Block(s, h, size), s, h, h + size - Tail_Size)
<1> DEFINE u == Mem_Block(s, h, size)
           t == h + size - Tail_Size
<1>1. t \in Nat  BY Words DEF Tail_Size
<1>2. u = [s EXCEPT !.used = s.used \ {h},
                    !.tail = Write(s.tail, h, t), !.back = Write(s.back, t, h)]
  BY DEF Mem_Block
<1> HIDE DEF u, t
<1>3. /\ u.used = s.used \ {h} /\ u.table = s.table /\ u.bitmap = s.bitmap
      /\ u.tail = Write(s.tail, h, t) /\ u.back = Write(s.back, t, h)
      /\ u = [tail |-> u.tail, back |-> u.back, used |-> u.used,
              table |-> u.table, bitmap |-> u.bitmap]
  BY <1>2 DEF Memory
<1>4. Memory(u)  BY <1>3 DEF Memory
<1>5. /\ h \in DOMAIN u.tail /\ u.tail[h] = t
      /\ \A x \in DOMAIN s.tail : x \in DOMAIN u.tail /\ (x # h => u.tail[x] = s.tail[x])
  BY <1>3 DEF Write
<1>6. /\ t \in DOMAIN u.back /\ u.back[t] = h
      /\ \A x \in DOMAIN s.back : x \in DOMAIN u.back /\ (x # t => u.back[x] = s.back[x])
  BY <1>3 DEF Write
<1>7. Written(u, s, h, t)  BY <1>1, <1>3, <1>4, <1>5, <1>6 DEF Written
<1>. QED  BY <1>7 DEF u, t

\* The blocks with heads N cover the part of the pool from h to e.
Covers(u, N, h, e) ==
    /\ h \in N
    /\ \A x \in N :
          /\ x \in Nat /\ h <= x /\ x % B = 0
          /\ x \in DOMAIN u.tail /\ u.tail[x] \in Nat
          /\ u.tail[x] \in DOMAIN u.back /\ u.back[u.tail[x]] = x
          /\ Payload(u, x) >= 64 /\ End(u, x) <= e /\ x < e
          /\ End(u, x) \in N \cup {e}
    /\ \A x \in N \ {h} : \E y \in N : End(u, y) = x
    /\ \E y \in N : End(u, y) = e
    /\ \A x, y \in N : x < y => End(u, x) <= y

\* The heads outside that part, and that they and their tails are kept.
Outside(H, h, e) == {x \in H : x < h \/ x >= e}
Kept(u, s, K) ==
    \A x \in K : /\ x \in DOMAIN u.tail /\ u.tail[x] = s.tail[x]
                 /\ s.tail[x] \in DOMAIN u.back /\ u.back[s.tail[x]] = x

\* The blocks between the head h and a later border e are replaced by those
\* of N, which cover the same part of the pool.
LEMMA Retile ==
  ASSUME NEW s, NEW H, Tiles(s, H), NEW u,
         NEW h \in H, NEW e \in H \cup {PoolSize}, h < e,
         NEW N, Covers(u, N, h, e), Kept(u, s, Outside(H, h, e))
  PROVE  Tiles(u, Outside(H, h, e) \cup N)
<1> DEFINE K == {x \in H : x < h \/ x >= e}
           G == K \cup N
<1>. USE DEF Covers, Kept, Outside
<1>1. PoolSize \in Nat /\ e \in Nat /\ e <= PoolSize /\ h \in Nat /\ Base <= h
  <2>1. \A x \in H : x < PoolSize
    <3> SUFFICES ASSUME NEW x \in H  PROVE x < PoolSize
      OBVIOUS
    <3>1. /\ x \in Nat /\ s.tail[x] \in Nat /\ Payload(s, x) >= 64 /\ End(s, x) <= PoolSize
      BY DEF Tiles
    <3>. QED  BY <3>1, Words DEF Payload, End, Head_Size, Tail_Size
  <2>. QED  BY <2>1, Words DEF Tiles
<1>2. \A x \in K : x \in H /\ End(u, x) = End(s, x) /\ Payload(u, x) = Payload(s, x)
  BY DEF End, Payload
<1>3. \A x \in H : x \in Nat /\ End(s, x) \in Nat
  BY Words DEF Tiles, End, Tail_Size
<1>4. \A x \in N : End(u, x) \in Nat /\ x \in Nat
  BY Words DEF End, Tail_Size
<1>5. \A x \in K : x < h => End(u, x) <= h
  BY <1>2 DEF Tiles
<1>6. G \subseteq Nat /\ Base \in G
  <2>1. Base \in H /\ Base \in Nat  BY BaseFacts DEF Tiles
  <2>2. Base < h \/ Base = h  BY <1>1, <2>1
  <2>. QED  BY <1>3, <1>4, <2>1, <2>2
<1>7. ASSUME NEW x \in G
      PROVE  /\ Base <= x /\ x % B = 0
             /\ x \in DOMAIN u.tail /\ u.tail[x] \in Nat
             /\ u.tail[x] \in DOMAIN u.back /\ u.back[u.tail[x]] = x
             /\ Payload(u, x) >= 64 /\ End(u, x) <= PoolSize
  <2>1. CASE x \in K  BY <2>1, <1>2 DEF Tiles
  <2>2. CASE x \in N
    <3>1. Base \in Nat /\ x \in Nat /\ h <= x /\ End(u, x) <= e /\ End(u, x) \in Nat
      BY <2>2, <1>4, BaseFacts
    <3>2. Base <= x /\ End(u, x) <= PoolSize  BY <3>1, <1>1
    <3>. QED  BY <2>2, <3>2
  <2>. QED  BY <2>1, <2>2
<1>8. \A x \in G : End(u, x) \in G \cup {PoolSize}
  <2> SUFFICES ASSUME NEW x \in G  PROVE End(u, x) \in G \cup {PoolSize}
    OBVIOUS
  <2>0. e \in G \cup {PoolSize}  BY <1>1, <1>3
  <2>1. CASE x \in N  BY <2>0, <2>1
  <2>2. CASE x \in K
    <3>1. End(u, x) \in H \cup {PoolSize}  BY <2>2, <1>2 DEF Tiles
    <3>2. CASE x < h
      <4>1. End(u, x) <= h  BY <2>2, <3>2, <1>5
      <4>2. CASE End(u, x) = h  BY <4>2
      <4>3. CASE End(u, x) < h  BY <3>1, <4>3, <1>1
      <4>4. End(u, x) \in Nat  BY <2>2, <1>2, <1>3
      <4>. QED  BY <4>1, <4>2, <4>3, <4>4, <1>1
    <3>3. CASE x >= e
      <4>1. End(u, x) > x /\ x \in Nat /\ End(u, x) \in Nat
        <5>1. x \in Nat /\ s.tail[x] \in Nat /\ Payload(s, x) >= 64  BY <2>2, <1>2 DEF Tiles
        <5>2. End(s, x) > x  BY <5>1, Words DEF Payload, End, Head_Size, Tail_Size
        <5>. QED  BY <2>2, <5>1, <5>2, <1>2, <1>3
      <4>2. End(u, x) >= e  BY <3>3, <4>1, <1>1
      <4>. QED  BY <3>1, <4>2
    <3>. QED  BY <2>2, <3>2, <3>3
  <2>. QED  BY <2>1, <2>2
<1>9. ASSUME NEW x \in G \ {Base}  PROVE \E y \in G : End(u, y) = x
  <2>1. CASE x \in N \ {h}  BY <2>1
  <2>2. CASE x = e  BY <2>2
  <2>3. CASE x \in H /\ x # e /\ (x <= h \/ x > e)
    <3>1. PICK y \in H : End(s, y) = x  BY <2>3, <1>9 DEF Tiles
    <3>2. y < h \/ y >= e
      <4> SUFFICES ASSUME h <= y, y < e  PROVE FALSE
        BY <1>1, <1>3, <3>1
      <4>1. y < x
        <5>1. y \in Nat /\ s.tail[y] \in Nat /\ Payload(s, y) >= 64  BY DEF Tiles
        <5>. QED  BY <5>1, <3>1, Words DEF Payload, End, Head_Size, Tail_Size
      <4>2. x <= e
        <5>1. CASE e = PoolSize  BY <3>1, <5>1 DEF Tiles
        <5>2. CASE e \in H  BY <3>1, <5>2 DEF Tiles
        <5>. QED  BY <5>1, <5>2
      <4>. QED  BY <2>3, <4>1, <4>2, <1>1, <1>3
    <3>. QED  BY <3>1, <3>2, <1>2
  <2>4. x \in N \ {h} \/ x = e \/ (x \in H /\ x # e /\ (x <= h \/ x > e))
    BY <1>1, <1>3
  <2>. QED  BY <2>1, <2>2, <2>3, <2>4
<1>10. ASSUME NEW x \in G, NEW y \in G, x < y  PROVE End(u, x) <= y
  <2>1. /\ x \in Nat /\ y \in Nat /\ End(u, x) \in Nat
        /\ x \in K => End(u, x) = End(s, x)
    BY <1>2, <1>3, <1>4
  <2>2. CASE x \in K /\ y \in K  BY <1>10, <2>1, <2>2 DEF Tiles
  <2>3. CASE x \in N /\ y \in N  BY <1>10, <2>3
  <2>4. CASE x \in N /\ y \in K /\ y >= e  BY <2>1, <2>4, <1>1
  <2>5. CASE x \in K /\ x < h /\ y \in N
    <3>1. End(u, x) <= h /\ h <= y  BY <2>5, <1>5
    <3>. QED  BY <2>1, <3>1, <1>1
  <2>6. ~(x \in N /\ y \in K /\ y < h)  BY <1>10, <2>1, <1>1
  <2>7. ~(x \in K /\ x >= e /\ y \in N)
    <3> SUFFICES ASSUME x >= e, y \in N  PROVE FALSE
      OBVIOUS
    <3>1. y < e  OBVIOUS
    <3>. QED  BY <3>1, <1>10, <2>1, <1>1
  <2>. QED  BY <2>2, <2>3, <2>4, <2>5, <2>6, <2>7
<1>. QED
  <2> HIDE DEF G, K
  <2>1. Tiles(u, G)  BY <1>6, <1>7, <1>8, <1>9, <1>10 DEF Tiles
  <2>. QED  BY <2>1 DEF G, K

\* Sizes and places of a block.
LEMMA BlockSize ==
  ASSUME NEW s, NEW H, Tiles(s, H), NEW h \in H
  PROVE  /\ h \in Nat /\ h % B = 0 /\ h >= Mem_Size
         /\ s.tail[h] \in Nat /\ s.tail[h] = End(s, h) - Tail_Size
         /\ End(s, h) \in Nat /\ End(s, h) % B = 0 /\ End(s, h) <= PoolSize
         /\ Payload(s, h) = End(s, h) - h - 5 * B
         /\ Payload(s, h) \in 64..(PoolSize - Mem_Size)
         /\ Level(Payload(s, h)) \in Levels
         /\ h + Block_Min <= End(s, h) /\ h < PoolSize
<1>1. /\ h \in Nat /\ s.tail[h] \in Nat /\ h % B = 0 /\ Base <= h
      /\ Payload(s, h) >= 64 /\ End(s, h) <= PoolSize
  BY DEF Tiles
<1>2. End(s, h) % B = 0
  <2>1. CASE End(s, h) = PoolSize  BY <2>1, Words
  <2>2. CASE End(s, h) \in H  BY <2>2 DEF Tiles
  <2>. QED  BY <2>1, <2>2 DEF Tiles
<1>3. /\ Base \in Nat /\ Mem_Size = 5 * B /\ Mem_Size <= Base
      /\ Head_Size = 4 * B /\ Tail_Size = B /\ Block_Min = 4 * B + 64 + B
      /\ B \in Nat \ {0} /\ PoolSize \in Nat
  BY BaseFacts, Words DEF Mem_Size, Head_Size, Tail_Size, Block_Min
<1>4. Payload(s, h) = s.tail[h] - h - 4 * B /\ End(s, h) = s.tail[h] + B
  BY <1>3 DEF Payload, End
<1> DEFINE p == Payload(s, h)
<1>5. p \in 64..(PoolSize - Mem_Size)  BY <1>1, <1>3, <1>4
<1>6. Level(p) \in Levels
  <2> HIDE DEF p
  <2>. QED  BY <1>5, PayloadLevel
<1>. QED  BY <1>1, <1>2, <1>3, <1>4, <1>5, <1>6

\* Two blocks do not overlap.
LEMMA BlocksApart ==
  ASSUME NEW s, NEW H, Tiles(s, H), NEW g \in H, NEW h \in H
  PROVE  /\ g < h => End(s, g) <= h
         /\ End(s, g) = End(s, h) => g = h
         /\ s.tail[g] = s.tail[h] => g = h
<1>1. /\ g \in Nat /\ h \in Nat /\ g < End(s, g) /\ h < End(s, h)
      /\ End(s, g) \in Nat /\ End(s, h) \in Nat
  BY BlockSize, Words DEF Block_Min, Head_Size, Tail_Size
<1>2. /\ g < h => End(s, g) <= h
      /\ h < g => End(s, h) <= g
  BY DEF Tiles
<1>3. End(s, g) = End(s, h) => g = h  BY <1>1, <1>2
<1>. QED  BY <1>2, <1>3 DEF End

\* The block to the right of a block, and the one to its left, whose tail is
\* just before it.
LEMMA Neighbours ==
  ASSUME NEW s, NEW H, Tiles(s, H), NEW h \in H
  PROVE  /\ End(s, h) # PoolSize => End(s, h) \in H
         /\ h # Base => /\ s.back[h - Tail_Size] \in H
                        /\ End(s, s.back[h - Tail_Size]) = h
<1>1. ASSUME h # Base
      PROVE  s.back[h - Tail_Size] \in H /\ End(s, s.back[h - Tail_Size]) = h
  <2>1. PICK g \in H : End(s, g) = h  BY <1>1 DEF Tiles
  <2>2. s.back[s.tail[g]] = g  BY DEF Tiles
  <2>3. s.tail[g] = h - Tail_Size  BY <2>1, BlockSize
  <2>. QED  BY <2>1, <2>2, <2>3
<1>. QED  BY <1>1 DEF Tiles

\* The blocks from h to the border e become one.
LEMMA JoinStep ==
  ASSUME NEW s, Memory(s), NEW H, Tiles(s, H),
         NEW h \in H, NEW e \in H \cup {PoolSize}, h < e
  PROVE  LET u == Mem_Block(s, h, e - h)
         IN  /\ Memory(u) /\ Tiles(u, {x \in H : x <= h \/ x >= e})
             /\ u.used = s.used \ {h} /\ u.table = s.table /\ u.bitmap = s.bitmap
             /\ End(u, h) = e
             /\ \A x \in H : x # h => u.tail[x] = s.tail[x]
<1> DEFINE size == e - h
           u == Mem_Block(s, h, size)
           t == h + size - Tail_Size
<1>1. /\ e \in Nat /\ h \in Nat /\ e <= PoolSize /\ e % B = 0 /\ h % B = 0
      /\ h + Block_Min <= e
  <2>1. h \in Nat /\ h % B = 0 /\ h + Block_Min <= End(s, h) /\ End(s, h) \in Nat
        /\ End(s, h) <= PoolSize /\ Block_Min \in Nat
    BY BlockSize, Words DEF Block_Min, Head_Size, Tail_Size
  <2>2. CASE e = PoolSize  BY <2>1, <2>2, Words
  <2>3. CASE e \in H
    <3>1. e \in Nat /\ e % B = 0 /\ e < PoolSize  BY <2>3, BlockSize
    <3>2. End(s, h) <= e  BY <2>3, BlocksApart
    <3>. QED  BY <2>1, <3>1, <3>2, Words
  <2>. QED  BY <2>2, <2>3
<1>2. /\ B \in Nat \ {0} /\ Head_Size = 4 * B /\ Tail_Size = B /\ Block_Min = 4 * B + 64 + B
  BY Words DEF Head_Size, Tail_Size, Block_Min
<1>3. size \in Nat /\ size >= Tail_Size /\ t = e - B  BY <1>1, <1>2
<1>4. Written(u, s, h, t)
  <2>1. h \in Nat  BY <1>1
  <2> HIDE DEF size
  <2>. QED  BY <1>3, <2>1, BlockFields
<1> HIDE DEF u, size, t
<1>5. End(u, h) = e /\ Payload(u, h) >= 64
  BY <1>1, <1>2, <1>3, <1>4 DEF End, Payload, Written
<1>6. Kept(u, s, Outside(H, h, e))
  <2> SUFFICES ASSUME NEW x \in H, x < h \/ x >= e
               PROVE  /\ x \in DOMAIN u.tail /\ u.tail[x] = s.tail[x]
                      /\ s.tail[x] \in DOMAIN u.back /\ u.back[s.tail[x]] = x
    BY DEF Kept, Outside
  <2>1. /\ x \in DOMAIN s.tail /\ s.tail[x] \in DOMAIN s.back /\ s.back[s.tail[x]] = x
    BY DEF Tiles
  <2>2. x \in Nat /\ x # h /\ s.tail[x] = End(s, x) - B /\ End(s, x) \in Nat /\ x < End(s, x)
    <3>1. x \in Nat /\ s.tail[x] = End(s, x) - B /\ End(s, x) \in Nat /\ x + Block_Min <= End(s, x)
      BY <1>2, BlockSize
    <3>. QED  BY <1>1, <1>2, <3>1
  <2>3. s.tail[x] # t
    <3>1. CASE x < h
      <4>1. End(s, x) <= h  BY <3>1, BlocksApart
      <4>. QED  BY <4>1, <2>2, <1>1, <1>2, <1>3
    <3>2. CASE x >= e  BY <3>2, <2>2, <1>1, <1>2, <1>3
    <3>. QED  BY <3>1, <3>2
  <2>. QED  BY <1>4, <2>1, <2>2, <2>3 DEF Written
<1>7. Tiles(u, Outside(H, h, e) \cup {h})
  <2>1. Covers(u, {h}, h, e)  BY <1>1, <1>4, <1>5 DEF Covers, Written
  <2>. QED  BY <1>6, <2>1, Retile
<1>8. Outside(H, h, e) \cup {h} = {x \in H : x <= h \/ x >= e}
  <2>1. \A x \in H : x \in Nat  BY DEF Tiles
  <2>2. \A x \in H : (x < h \/ x >= e) \/ x = h <=> x <= h \/ x >= e  BY <2>1, <1>1
  <2>. QED  BY <2>2 DEF Outside
<1>9. /\ \A x \in H : x # h => u.tail[x] = s.tail[x]
      /\ Memory(u) /\ u.used = s.used \ {h} /\ u.table = s.table /\ u.bitmap = s.bitmap
  BY <1>4 DEF Tiles, Written
<1>. QED  BY <1>5, <1>7, <1>8, <1>9 DEF u, size

\* The blocks from h to the border e become two, of which the second begins
\* at g.
Cut(u, s, H, h, g, e) ==
    /\ Memory(u) /\ Tiles(u, Outside(H, h, e) \cup {h, g})
    /\ u.used = s.used \ {h, g} /\ u.table = s.table /\ u.bitmap = s.bitmap
    /\ End(u, h) = g /\ End(u, g) = e
    /\ \A x \in H : x # h /\ x # g => u.tail[x] = s.tail[x]

LEMMA CutStep ==
  ASSUME NEW s, Memory(s), NEW H, Tiles(s, H),
         NEW h \in H, NEW e \in H \cup {PoolSize},
         NEW size \in Nat, size % B = 0, size >= Block_Min, h + size + Block_Min <= e
  PROVE  Cut(Mem_Block(Mem_Block(s, h, size), h + size, e - h - size),
             s, H, h, h + size, e)
<1> DEFINE g == h + size
           rest == e - h - size
           v == Mem_Block(s, h, size)
           u == Mem_Block(v, g, rest)
           t == h + size - Tail_Size
           z == g + rest - Tail_Size
<1>1. /\ B \in Nat \ {0} /\ Head_Size = 4 * B /\ Tail_Size = B /\ Block_Min = 4 * B + 64 + B
  BY Words DEF Head_Size, Tail_Size, Block_Min
<1>2. /\ e \in Nat /\ h \in Nat /\ e <= PoolSize /\ PoolSize \in Nat /\ e % B = 0 /\ h % B = 0
  <2>1. h \in Nat /\ h % B = 0  BY BlockSize
  <2>2. CASE e = PoolSize  BY <2>1, <2>2, Words
  <2>3. CASE e \in H
    <3>1. e \in Nat /\ e % B = 0 /\ e < PoolSize  BY <2>3, BlockSize
    <3>. QED  BY <2>1, <3>1, Words
  <2>. QED  BY <2>2, <2>3
<1>3. /\ g \in Nat /\ g % B = 0 /\ rest \in Nat /\ h + Block_Min <= g /\ g + Block_Min <= e
      /\ t = g - B /\ z = e - B /\ t \in Nat /\ z \in Nat
      /\ size >= Tail_Size /\ rest >= Tail_Size /\ e = g + rest
  <2>1. g % B = 0  BY <1>2, Aligned
  <2>. QED  BY <1>1, <1>2, <2>1
<1>4. Written(v, s, h, t)
  BY <1>2, <1>3, BlockFields
<1>5. Written(u, v, g, z)
  <2>1. Memory(v)  BY <1>4 DEF Written
  <2> HIDE DEF v, g, rest, t
  <2>. QED  BY <1>3, <2>1, BlockFields
<1> HIDE DEF u, v, g, rest, t, z
<1>6. /\ h < g /\ g < e /\ h # g /\ t # z
      /\ h \in DOMAIN u.tail /\ u.tail[h] = t /\ t \in DOMAIN u.back /\ u.back[t] = h
      /\ g \in DOMAIN u.tail /\ u.tail[g] = z /\ z \in DOMAIN u.back /\ u.back[z] = g
  <2>1. h < g /\ g < e /\ h # g /\ t # z  BY <1>1, <1>2, <1>3
  <2>. QED  BY <1>4, <1>5, <2>1 DEF Written
<1>7. /\ End(u, h) = g /\ Payload(u, h) >= 64 /\ End(u, g) = e /\ Payload(u, g) >= 64
  BY <1>1, <1>2, <1>3, <1>6 DEF End, Payload
<1>8. Covers(u, {h, g}, h, e)
  BY <1>2, <1>3, <1>6, <1>7 DEF Covers
<1>9. Kept(u, s, Outside(H, h, e))
  <2> SUFFICES ASSUME NEW x \in H, x < h \/ x >= e
               PROVE  /\ x \in DOMAIN u.tail /\ u.tail[x] = s.tail[x]
                      /\ s.tail[x] \in DOMAIN u.back /\ u.back[s.tail[x]] = x
    BY DEF Kept, Outside
  <2>1. /\ x \in DOMAIN s.tail /\ s.tail[x] \in DOMAIN s.back /\ s.back[s.tail[x]] = x
    BY DEF Tiles
  <2>2. x \in Nat /\ x # h /\ x # g /\ s.tail[x] = End(s, x) - B /\ End(s, x) \in Nat /\ x < End(s, x)
    <3>1. x \in Nat /\ s.tail[x] = End(s, x) - B /\ End(s, x) \in Nat /\ x + Block_Min <= End(s, x)
      BY <1>1, BlockSize
    <3>. QED  BY <1>1, <1>2, <1>3, <1>6, <3>1
  <2>3. s.tail[x] # t /\ s.tail[x] # z
    <3>1. CASE x < h
      <4>1. End(s, x) <= h  BY <3>1, BlocksApart
      <4>. QED  BY <4>1, <2>2, <1>1, <1>2, <1>3, <1>6
    <3>2. CASE x >= e  BY <3>2, <2>2, <1>1, <1>2, <1>3, <1>6
    <3>. QED  BY <3>1, <3>2
  <2>4. x \in DOMAIN v.tail /\ v.tail[x] = s.tail[x] /\ s.tail[x] \in DOMAIN v.back /\ v.back[s.tail[x]] = x
    BY <1>4, <2>1, <2>2, <2>3 DEF Written
  <2>. QED  BY <1>5, <2>2, <2>3, <2>4 DEF Written
<1>10. Tiles(u, Outside(H, h, e) \cup {h, g})
  <2>1. h < e  BY <1>2, <1>3, <1>6
  <2>. QED  BY <1>8, <1>9, <2>1, Retile
<1>11. /\ Memory(u) /\ u.used = s.used \ {h, g} /\ u.table = s.table /\ u.bitmap = s.bitmap
       /\ \A x \in H : x # h /\ x # g => u.tail[x] = s.tail[x]
  BY <1>4, <1>5 DEF Written, Tiles
<1>12. Cut(u, s, H, h, g, e)  BY <1>7, <1>10, <1>11 DEF Cut
<1>. QED  BY <1>12 DEF u, v, g, rest

----------------------------------------------------------------------------
(* The free lists.                                                         *)

\* The lists and the bitmap hold the blocks F, each in the class of its size.
Filed(s, F) ==
    \A l \in Levels :
       /\ ToSet(s.table[l]) = {h \in F : Level(Payload(s, h)) = l}
       /\ IsInjective(s.table[l])
       /\ l \in s.bitmap <=> s.table[l] # <<>>

LEMMA FiledFrame ==
  ASSUME NEW s, NEW F, Filed(s, F), NEW u,
         u.table = s.table, u.bitmap = s.bitmap, \A x \in F : u.tail[x] = s.tail[x]
  PROVE  Filed(u, F)
<1>1. \A x \in F : Payload(u, x) = Payload(s, x)  BY DEF Payload
<1>2. ASSUME NEW l \in Levels
      PROVE  {h \in F : Level(Payload(u, h)) = l} = {h \in F : Level(Payload(s, h)) = l}
  <2>1. \A h \in F : Level(Payload(u, h)) = Level(Payload(s, h))  BY <1>1
  <2>. QED  BY <2>1
<1>. QED  BY <1>2 DEF Filed

\* A list with one element.
LEMMA Alone ==
  ASSUME NEW T, NEW q \in Seq(T), IsInjective(q), NEW x, x \in ToSet(q)
  PROVE  ToSet(q) \ {x} = {} <=> q = <<x>>
<1>1. /\ \A y : y \in ToSet(q) <=> \E i \in 1..Len(q) : q[i] = y
      /\ \A i, j \in 1..Len(q) : q[i] = q[j] => i = j
      /\ Len(q) \in Nat
  <2>1. DOMAIN q = 1..Len(q)  OBVIOUS
  <2>. QED  BY <2>1, ToSetLemma DEF IsInjective
<1>2. ASSUME ToSet(q) \ {x} = {}  PROVE q = <<x>>
  <2>1. \A i \in 1..Len(q) : q[i] = x  BY <1>1, <1>2
  <2>2. Len(q) # 0  BY <1>1
  <2>3. ~(Len(q) >= 2)
    <3> SUFFICES ASSUME Len(q) >= 2  PROVE FALSE
      OBVIOUS
    <3>1. 1 \in 1..Len(q) /\ 2 \in 1..Len(q)  BY <1>1
    <3>2. q[1] = q[2]  BY <2>1, <3>1
    <3>. QED  BY <1>1, <3>1, <3>2
  <2>4. Len(q) = 1
    <3> DEFINE n == Len(q)
    <3>1. n \in Nat /\ n # 0 /\ ~(n >= 2)  BY <1>1, <2>2, <2>3
    <3> HIDE DEF n
    <3>2. n = 1  BY <3>1
    <3>. QED  BY <3>2 DEF n
  <2>5. q[1] = x
    <3>1. 1 \in 1..Len(q)  BY <2>4
    <3>. QED  BY <2>1, <3>1
  <2>. QED  BY <2>4, <2>5
<1>3. ASSUME q = <<x>>  PROVE ToSet(q) \ {x} = {}
  <2>1. Len(q) = 1 /\ q[1] = x  BY <1>3
  <2>. QED  BY <1>1, <2>1
<1>. QED  BY <1>2, <1>3

\* What a step of the lists leaves alone.
SameBlocks(u, s) == Memory(u) /\ u.tail = s.tail /\ u.back = s.back /\ u.used = s.used

\* _RMP_Mem_Del takes a block out of the lists.
LEMMA DelStep ==
  ASSUME NEW s, Memory(s), NEW F, Filed(s, F), NEW h \in F,
         Level(Payload(s, h)) \in Levels
  PROVE  SameBlocks(Mem_Del(s, h), s) /\ Filed(Mem_Del(s, h), F \ {h})
<1> DEFINE k == Level(Payload(s, h))
           q == s.table[k]
           r == RemoveFirst(q, h)
           bits == IF q = <<h>> THEN s.bitmap \ {k} ELSE s.bitmap
           u == Mem_Del(s, h)
<1>1. u = [s EXCEPT !.table = [s.table EXCEPT ![k] = r], !.bitmap = bits]
  BY DEF Mem_Del, Memory
<1>2. /\ q \in Seq(Nat) /\ IsInjective(q) /\ k \in Levels /\ h \in ToSet(q)
      /\ ToSet(q) = {x \in F : Level(Payload(s, x)) = k}
  BY DEF Memory, Filed
<1>3. /\ r \in Seq(Nat) /\ ToSet(r) = ToSet(q) \ {h} /\ IsInjective(r)
  <2> HIDE DEF q
  <2>. QED  BY <1>2, RemoveLemma
<1>4. r = <<>> <=> q = <<h>>
  <2> HIDE DEF q, r
  <2>1. ToSet(q) \ {h} = {} <=> q = <<h>>  BY <1>2, Alone
  <2>2. r = <<>> <=> ToSet(r) = {}
    <3>1. r = <<>> => ToSet(r) = {}  BY DEF ToSet
    <3>2. r # <<>> => r[1] \in ToSet(r)
      <4>1. r # <<>> => Len(r) \in Nat /\ Len(r) # 0  BY <1>3
      <4>2. r # <<>> => 1 \in 1..Len(r)  BY <4>1
      <4>. QED  BY <1>3, <4>2, ToSetLemma
    <3>. QED  BY <3>1, <3>2
  <2>. QED  BY <1>3, <2>1, <2>2
<1> HIDE DEF u, r, q, bits
<1>5. /\ u.tail = s.tail /\ u.back = s.back /\ u.used = s.used
      /\ u.table = [s.table EXCEPT ![k] = r] /\ u.bitmap = bits
      /\ u = [tail |-> u.tail, back |-> u.back, used |-> u.used,
              table |-> u.table, bitmap |-> u.bitmap]
  BY <1>1 DEF Memory
<1>6. SameBlocks(u, s)
  <2>1. u.table \in [Levels -> Seq(Nat)]  BY <1>2, <1>3, <1>5 DEF Memory
  <2>2. u.bitmap \subseteq Levels  BY <1>5 DEF Memory, bits
  <2>. QED  BY <1>5, <2>1, <2>2 DEF SameBlocks, Memory
<1>7. \A x : Payload(u, x) = Payload(s, x)  BY <1>5 DEF Payload
<1>8. ASSUME NEW l \in Levels
      PROVE  /\ ToSet(u.table[l]) = {x \in F \ {h} : Level(Payload(u, x)) = l}
             /\ IsInjective(u.table[l])
             /\ l \in u.bitmap <=> u.table[l] # <<>>
  <2>1. /\ ToSet(s.table[l]) = {x \in F : Level(Payload(s, x)) = l}
        /\ IsInjective(s.table[l])
        /\ l \in s.bitmap <=> s.table[l] # <<>>
    BY DEF Filed
  <2>2. {x \in F \ {h} : Level(Payload(u, x)) = l} = {x \in F : Level(Payload(s, x)) = l} \ {h}
    <3>1. \A x : Level(Payload(u, x)) = Level(Payload(s, x))  BY <1>7
    <3>. QED  BY <3>1
  <2>3. CASE l = k
    <3>1. u.table[l] = r  BY <1>2, <1>5, <2>3 DEF Memory
    <3>2. l \in u.bitmap <=> r # <<>>
      <4>1. k \in s.bitmap <=> q # <<>>  BY <2>1, <2>3 DEF q
      <4>2. q # <<>>
        <5>1. q = <<>> => ToSet(q) = {}  BY DEF ToSet
        <5>. QED  BY <1>2, <5>1
      <4>. QED  BY <1>4, <1>5, <2>3, <4>1, <4>2 DEF bits
    <3>. QED  BY <1>2, <1>3, <2>2, <2>3, <3>1, <3>2
  <2>4. CASE l # k
    <3>1. u.table[l] = s.table[l]  BY <1>2, <1>5, <2>4 DEF Memory
    <3>2. l \in u.bitmap <=> l \in s.bitmap  BY <1>5, <2>4 DEF bits
    <3>3. {x \in F : Level(Payload(s, x)) = l} \ {h} = {x \in F : Level(Payload(s, x)) = l}
      BY <2>4
    <3>. QED  BY <2>1, <2>2, <3>1, <3>2, <3>3
  <2>. QED  BY <2>3, <2>4
<1>9. Filed(u, F \ {h})  BY <1>8 DEF Filed
<1>. QED  BY <1>6, <1>9 DEF u

\* _RMP_Mem_Ins adds one.
LEMMA InsStep ==
  ASSUME NEW s, Memory(s), NEW F, Filed(s, F), NEW h \in Nat, h \notin F,
         Level(Payload(s, h)) \in Levels
  PROVE  SameBlocks(Mem_Ins(s, h), s) /\ Filed(Mem_Ins(s, h), F \cup {h})
<1> DEFINE k == Level(Payload(s, h))
           q == s.table[k]
           r == <<h>> \o q
           u == Mem_Ins(s, h)
<1>1. u = [s EXCEPT !.table = [s.table EXCEPT ![k] = r], !.bitmap = s.bitmap \cup {k}]
  BY DEF Mem_Ins, Memory
<1>2. /\ q \in Seq(Nat) /\ IsInjective(q) /\ k \in Levels /\ h \notin ToSet(q)
      /\ ToSet(q) = {x \in F : Level(Payload(s, x)) = k}
  BY DEF Memory, Filed
<1>3. /\ r \in Seq(Nat) /\ ToSet(r) = ToSet(q) \cup {h} /\ IsInjective(r) /\ r # <<>>
  <2> HIDE DEF q
  <2>1. /\ r \in Seq(Nat) /\ Len(r) = Len(q) + 1 /\ Len(q) \in Nat
        /\ r[1] = h /\ \A i \in 1..Len(q) : r[i + 1] = q[i]
    BY <1>2
  <2> HIDE DEF r
  <2>2. /\ \A x : x \in ToSet(q) <=> \E i \in 1..Len(q) : q[i] = x
        /\ \A x : x \in ToSet(r) <=> \E i \in 1..Len(r) : r[i] = x
    BY <1>2, <2>1, ToSetLemma
  <2>3. \A i \in 1..Len(r) : i = 1 \/ \E j \in 1..Len(q) : i = j + 1
    <3> SUFFICES ASSUME NEW i \in 1..Len(r), i # 1  PROVE \E j \in 1..Len(q) : i = j + 1
      OBVIOUS
    <3>1. i - 1 \in 1..Len(q) /\ i = (i - 1) + 1  BY <2>1
    <3>. QED  BY <3>1
  <2>4. ToSet(r) \subseteq ToSet(q) \cup {h}
    <3> SUFFICES ASSUME NEW x \in ToSet(r), x # h  PROVE x \in ToSet(q)
      OBVIOUS
    <3>1. PICK i \in 1..Len(r) : r[i] = x  BY <2>2
    <3>2. PICK j \in 1..Len(q) : i = j + 1  BY <2>1, <2>3, <3>1
    <3>. QED  BY <2>1, <2>2, <3>1, <3>2
  <2>5. ToSet(q) \cup {h} \subseteq ToSet(r)
    <3>1. 1 \in 1..Len(r) /\ \A i \in 1..Len(q) : i + 1 \in 1..Len(r)  BY <2>1
    <3>. QED  BY <2>1, <2>2, <3>1
  <2>6. ASSUME NEW i \in 1..Len(r), NEW j \in 1..Len(r), r[i] = r[j]  PROVE i = j
    <3>1. \A l \in 1..Len(q) : r[l + 1] # h  BY <1>2, <2>1, <2>2
    <3>2. \A l, n \in 1..Len(q) : q[l] = q[n] => l = n
      <4>1. DOMAIN q = 1..Len(q)  BY <1>2
      <4>. QED  BY <1>2, <4>1 DEF IsInjective
    <3>3. CASE i = 1 \/ j = 1
      BY <2>1, <2>3, <2>6, <3>1, <3>3
    <3>4. CASE i # 1 /\ j # 1
      <4>1. PICK l \in 1..Len(q) : i = l + 1  BY <2>3, <3>4
      <4>2. PICK n \in 1..Len(q) : j = n + 1  BY <2>3, <3>4
      <4>. QED  BY <2>1, <2>6, <3>2, <4>1, <4>2
    <3>. QED  BY <3>3, <3>4
  <2>7. DOMAIN r = 1..Len(r)  BY <2>1
  <2>8. IsInjective(r)  BY <2>6, <2>7 DEF IsInjective
  <2>9. r # <<>>
    <3>1. Len(r) # 0  BY <2>1
    <3>. QED  BY <3>1
  <2>. QED  BY <2>1, <2>4, <2>5, <2>8, <2>9
<1> HIDE DEF u, r, q
<1>4. /\ u.tail = s.tail /\ u.back = s.back /\ u.used = s.used
      /\ u.table = [s.table EXCEPT ![k] = r] /\ u.bitmap = s.bitmap \cup {k}
      /\ u = [tail |-> u.tail, back |-> u.back, used |-> u.used,
              table |-> u.table, bitmap |-> u.bitmap]
  BY <1>1 DEF Memory
<1>5. SameBlocks(u, s)
  <2>1. u.table \in [Levels -> Seq(Nat)]  BY <1>2, <1>3, <1>4 DEF Memory
  <2>2. u.bitmap \subseteq Levels  BY <1>2, <1>4 DEF Memory
  <2>. QED  BY <1>4, <2>1, <2>2 DEF SameBlocks, Memory
<1>6. \A x : Payload(u, x) = Payload(s, x)  BY <1>4 DEF Payload
<1>7. ASSUME NEW l \in Levels
      PROVE  /\ ToSet(u.table[l]) = {x \in F \cup {h} : Level(Payload(u, x)) = l}
             /\ IsInjective(u.table[l])
             /\ l \in u.bitmap <=> u.table[l] # <<>>
  <2>1. /\ ToSet(s.table[l]) = {x \in F : Level(Payload(s, x)) = l}
        /\ IsInjective(s.table[l])
        /\ l \in s.bitmap <=> s.table[l] # <<>>
    BY DEF Filed
  <2>2. \A x : Level(Payload(u, x)) = Level(Payload(s, x))  BY <1>6
  <2>3. CASE l = k
    <3>1. u.table[l] = r  BY <1>2, <1>4, <2>3 DEF Memory
    <3>2. {x \in F \cup {h} : Level(Payload(u, x)) = l} = ToSet(q) \cup {h}
      BY <1>2, <2>2, <2>3
    <3>. QED  BY <1>3, <1>4, <2>3, <3>1, <3>2
  <2>4. CASE l # k
    <3>1. u.table[l] = s.table[l]  BY <1>2, <1>4, <2>4 DEF Memory
    <3>2. l \in u.bitmap <=> l \in s.bitmap  BY <1>4, <2>4
    <3>3. {x \in F \cup {h} : Level(Payload(u, x)) = l} = {x \in F : Level(Payload(s, x)) = l}
      BY <2>2, <2>4
    <3>. QED  BY <2>1, <3>1, <3>2, <3>3
  <2>. QED  BY <2>3, <2>4
<1>8. Filed(u, F \cup {h})  BY <1>7 DEF Filed
<1>. QED  BY <1>5, <1>8 DEF u

----------------------------------------------------------------------------
(* Taking blocks out of the lists, joining them and cutting them.          *)

\* The pool at rest: its blocks tile it, and those that are not in use are on
\* the lists.
Sound(s, H) ==
    /\ Memory(s) /\ Tiles(s, H)
    /\ s.used \subseteq H /\ Filed(s, H \ s.used)

\* The pool while the blocks from h to the border e are worked on: of these
\* only h may be in use, and none is on a list.
Loose(s, H, h, e) ==
    /\ Memory(s) /\ Tiles(s, H)
    /\ h \in H /\ e \in H \cup {PoolSize} /\ h < e
    /\ s.used \ {h} \subseteq Outside(H, h, e)
    /\ Filed(s, Outside(H, h, e) \ s.used)

\* What is outside a block, and outside it and its right neighbour.
LEMMA OutsideBlock ==
  ASSUME NEW s, NEW H, Tiles(s, H), NEW h \in H
  PROVE  /\ End(s, h) \in H \cup {PoolSize} /\ h < End(s, h)
         /\ Outside(H, h, End(s, h)) = H \ {h}
         /\ PoolSize \notin H /\ H \subseteq Nat
<1>1. \A x \in H : x \in Nat /\ End(s, x) \in Nat /\ x < End(s, x) /\ x < PoolSize
  <2> SUFFICES ASSUME NEW x \in H
               PROVE  x \in Nat /\ End(s, x) \in Nat /\ x < End(s, x) /\ x < PoolSize
    OBVIOUS
  <2>1. x \in Nat /\ End(s, x) \in Nat /\ x + Block_Min <= End(s, x) /\ x < PoolSize  BY BlockSize
  <2>. QED  BY <2>1, Words DEF Block_Min, Head_Size, Tail_Size
<1>2. \A x \in H : x # h => x < h \/ x >= End(s, h)
  <2> SUFFICES ASSUME NEW x \in H, x # h  PROVE x < h \/ x >= End(s, h)
    OBVIOUS
  <2>1. h < x => End(s, h) <= x  BY BlocksApart
  <2>. QED  BY <1>1, <2>1
<1>3. Outside(H, h, End(s, h)) = H \ {h}
  <2>1. ~(h < h) /\ ~(h >= End(s, h))  BY <1>1
  <2>. QED  BY <1>2, <2>1 DEF Outside
<1>4. PoolSize \notin H
  <2>1. \A x \in H : x # PoolSize  BY <1>1, Words
  <2>. QED  BY <2>1
<1>. QED  BY <1>1, <1>3, <1>4 DEF Tiles

LEMMA OutsideTwo ==
  ASSUME NEW s, NEW H, Tiles(s, H), NEW h \in H, NEW e \in H, h < e
  PROVE  /\ h < End(s, e)
         /\ Outside(H, h, End(s, e)) = Outside(H, h, e) \ {e}
<1>1. /\ Outside(H, e, End(s, e)) = H \ {e} /\ e < End(s, e) /\ H \subseteq Nat
  BY OutsideBlock
<1>2. End(s, e) \in Nat  BY BlockSize
<1>3. \A x \in H : x < h \/ x >= End(s, e) <=> (x < h \/ x >= e) /\ x # e
  <2> SUFFICES ASSUME NEW x \in H
               PROVE  x < h \/ x >= End(s, e) <=> (x < h \/ x >= e) /\ x # e
    OBVIOUS
  <2>1. x # e <=> x < e \/ x >= End(s, e)  BY <1>1 DEF Outside
  <2>2. x \in Nat /\ h \in Nat /\ e \in Nat  BY <1>1
  <2>. QED  BY <1>1, <1>2, <2>1, <2>2
<1>4. h < End(s, e)  BY <1>1, <1>2
<1>. QED  BY <1>3, <1>4 DEF Outside

\* A free block taken out of its list, and a block in use with or without its
\* mark.
LEMMA LooseDel ==
  ASSUME NEW s, NEW H, Sound(s, H), NEW h \in H \ s.used
  PROVE  /\ SameBlocks(Mem_Del(s, h), s)
         /\ Loose(Mem_Del(s, h), H, h, End(s, h))
<1> DEFINE u == Mem_Del(s, h)
<1>1. Memory(s) /\ Tiles(s, H) /\ s.used \subseteq H /\ Filed(s, H \ s.used)  BY DEF Sound
<1>2. SameBlocks(u, s) /\ Filed(u, (H \ s.used) \ {h})
  <2>1. Level(Payload(s, h)) \in Levels  BY <1>1, BlockSize
  <2>. QED  BY <1>1, <2>1, DelStep
<1> HIDE DEF u
<1>3. Memory(u) /\ Tiles(u, H) /\ u.used = s.used
  BY <1>1, <1>2, TilesFrame DEF SameBlocks
<1>4. /\ End(s, h) \in H \cup {PoolSize} /\ h < End(s, h)
      /\ Outside(H, h, End(s, h)) = H \ {h}
  BY <1>1, OutsideBlock
<1>5. (H \ {h}) \ u.used = (H \ s.used) \ {h}  BY <1>3
<1>6. Loose(u, H, h, End(s, h))
  BY <1>1, <1>2, <1>3, <1>4, <1>5 DEF Loose
<1>. QED  BY <1>2, <1>6 DEF u

Unmarked(s, h) == [s EXCEPT !.used = @ \ {h}]

LEMMA LooseHeld ==
  ASSUME NEW s, NEW H, Sound(s, H), NEW h \in s.used
  PROVE  /\ Loose(s, H, h, End(s, h))
         /\ Loose(Unmarked(s, h), H, h, End(s, h))
         /\ Unmarked(s, h).used = s.used \ {h} /\ Unmarked(s, h).tail = s.tail
         /\ Unmarked(s, h).back = s.back
<1> DEFINE u == Unmarked(s, h)
<1>1. /\ Memory(s) /\ Tiles(s, H) /\ s.used \subseteq H /\ Filed(s, H \ s.used) /\ h \in H
  BY DEF Sound
<1>2. u = [s EXCEPT !.used = s.used \ {h}]  BY DEF Unmarked
<1> HIDE DEF u
<1>3. /\ u.used = s.used \ {h} /\ u.tail = s.tail /\ u.back = s.back
      /\ u.table = s.table /\ u.bitmap = s.bitmap /\ Memory(u)
  BY <1>1, <1>2 DEF Memory
<1>4. Tiles(u, H) /\ Filed(u, H \ s.used)  BY <1>1, <1>3, TilesFrame, FiledFrame
<1>5. /\ End(s, h) \in H \cup {PoolSize} /\ h < End(s, h)
      /\ Outside(H, h, End(s, h)) = H \ {h}
  BY <1>1, OutsideBlock
<1>6. (H \ {h}) \ u.used = H \ s.used /\ (H \ {h}) \ s.used = H \ s.used  BY <1>3
<1>7. Loose(s, H, h, End(s, h))  BY <1>1, <1>5, <1>6 DEF Loose
<1>8. Loose(u, H, h, End(s, h))  BY <1>1, <1>3, <1>4, <1>5, <1>6 DEF Loose
<1>. QED  BY <1>3, <1>7, <1>8 DEF u

\* The free block to the right or to the left joins those worked on.
LEMMA LooseRight ==
  ASSUME NEW s, NEW H, NEW h, NEW e, Loose(s, H, h, e), e \in H \ s.used
  PROVE  SameBlocks(Mem_Del(s, e), s) /\ Loose(Mem_Del(s, e), H, h, End(s, e))
<1> DEFINE u == Mem_Del(s, e)
           F == Outside(H, h, e) \ s.used
<1>1. /\ Memory(s) /\ Tiles(s, H) /\ h \in H /\ e \in H /\ h < e
      /\ s.used \ {h} \subseteq Outside(H, h, e) /\ Filed(s, F)
  BY DEF Loose
<1>2. e \in F
  <2>1. e \in Nat  BY <1>1, BlockSize
  <2>. QED  BY <2>1 DEF Outside
<1>3. SameBlocks(u, s) /\ Filed(u, F \ {e})
  <2>1. Level(Payload(s, e)) \in Levels  BY <1>1, BlockSize
  <2> HIDE DEF F
  <2>. QED  BY <1>1, <1>2, <2>1, DelStep
<1> HIDE DEF u
<1>4. Memory(u) /\ Tiles(u, H) /\ u.used = s.used
  BY <1>1, <1>3, TilesFrame DEF SameBlocks
<1>5. /\ h < End(s, e) /\ Outside(H, h, End(s, e)) = Outside(H, h, e) \ {e}
      /\ End(s, e) \in H \cup {PoolSize}
  BY <1>1, OutsideTwo, OutsideBlock
<1>6. Outside(H, h, End(s, e)) \ u.used = F \ {e}  BY <1>4, <1>5
<1>7. u.used \ {h} \subseteq Outside(H, h, End(s, e))  BY <1>1, <1>4, <1>5
<1>8. Loose(u, H, h, End(s, e))
  BY <1>1, <1>3, <1>4, <1>5, <1>6, <1>7 DEF Loose
<1>. QED  BY <1>3, <1>8 DEF u

LEMMA LooseLeft ==
  ASSUME NEW s, NEW H, NEW h, NEW e, Loose(s, H, h, e), h \notin s.used,
         NEW l \in H \ s.used, End(s, l) = h
  PROVE  SameBlocks(Mem_Del(s, l), s) /\ Loose(Mem_Del(s, l), H, l, e)
<1> DEFINE u == Mem_Del(s, l)
           F == Outside(H, h, e) \ s.used
<1>1. /\ Memory(s) /\ Tiles(s, H) /\ h \in H /\ e \in H \cup {PoolSize} /\ h < e
      /\ s.used \ {h} \subseteq Outside(H, h, e) /\ Filed(s, F)
  BY DEF Loose
<1>2. l < h /\ l \in Nat /\ h \in Nat /\ e \in Nat /\ H \subseteq Nat
  <2>1. l < End(s, l) /\ H \subseteq Nat /\ PoolSize \in Nat  BY <1>1, OutsideBlock, Words
  <2>. QED  BY <1>1, <2>1
<1>3. l \in F  BY <1>2 DEF Outside
<1>4. SameBlocks(u, s) /\ Filed(u, F \ {l})
  <2>1. Level(Payload(s, l)) \in Levels  BY <1>1, BlockSize
  <2> HIDE DEF F
  <2>. QED  BY <1>1, <1>3, <2>1, DelStep
<1> HIDE DEF u
<1>5. Memory(u) /\ Tiles(u, H) /\ u.used = s.used
  BY <1>1, <1>4, TilesFrame DEF SameBlocks
<1>6. Outside(H, l, e) = Outside(H, h, e) \ {l}
  <2>1. Outside(H, l, h) = H \ {l}  BY <1>1, OutsideBlock
  <2>2. \A x \in H : x < l \/ x >= e <=> (x < h \/ x >= e) /\ x # l
    <3> SUFFICES ASSUME NEW x \in H
                 PROVE  x < l \/ x >= e <=> (x < h \/ x >= e) /\ x # l
      OBVIOUS
    <3>1. x # l <=> x < l \/ x >= h  BY <2>1 DEF Outside
    <3>2. x \in Nat  BY <1>2
    <3>. QED  BY <1>1, <1>2, <3>1, <3>2
  <2>. QED  BY <2>2 DEF Outside
<1>7. Outside(H, l, e) \ u.used = F \ {l}  BY <1>5, <1>6
<1>8. u.used \ {l} \subseteq Outside(H, l, e)  BY <1>1, <1>5, <1>6
<1>9. l < e  BY <1>1, <1>2
<1>10. Loose(u, H, l, e)
  BY <1>1, <1>4, <1>5, <1>7, <1>8, <1>9 DEF Loose
<1>. QED  BY <1>4, <1>10 DEF u

\* The blocks worked on become one, not in use.
Joined(u, s, H, h, e) ==
    LET K == Outside(H, h, e)
    IN  /\ Loose(u, K \cup {h}, h, e) /\ End(u, h) = e /\ u.used = s.used \ {h}
        /\ Outside(K \cup {h}, h, e) = K
        /\ \A x \in K : u.tail[x] = s.tail[x]

LEMMA JoinLoose ==
  ASSUME NEW s, NEW H, NEW h, NEW e, Loose(s, H, h, e)
  PROVE  Joined(Mem_Block(s, h, e - h), s, H, h, e)
<1> DEFINE u == Mem_Block(s, h, e - h)
           K == Outside(H, h, e)
           G == K \cup {h}
<1>1. /\ Memory(s) /\ Tiles(s, H) /\ h \in H /\ e \in H \cup {PoolSize} /\ h < e
      /\ s.used \ {h} \subseteq K /\ Filed(s, K \ s.used)
  BY DEF Loose
<1>2. H \subseteq Nat /\ e \in Nat /\ h \in Nat /\ h \notin K
  <2>1. H \subseteq Nat /\ PoolSize \in Nat  BY <1>1, OutsideBlock, Words
  <2>2. e \in Nat /\ h \in Nat  BY <1>1, <2>1
  <2>. QED  BY <1>1, <2>1, <2>2 DEF Outside
<1>3. /\ Memory(u) /\ Tiles(u, {x \in H : x <= h \/ x >= e})
      /\ u.used = s.used \ {h} /\ u.table = s.table /\ u.bitmap = s.bitmap
      /\ End(u, h) = e /\ \A x \in H : x # h => u.tail[x] = s.tail[x]
  <2>1. Memory(s) /\ Tiles(s, H) /\ h \in H /\ e \in H \cup {PoolSize} /\ h < e  BY <1>1
  <2>. QED  BY <2>1, JoinStep
<1> HIDE DEF u
<1>4. {x \in H : x <= h \/ x >= e} = G
  <2>1. \A x \in H : x <= h \/ x >= e <=> (x < h \/ x >= e) \/ x = h  BY <1>1, <1>2
  <2>. QED  BY <1>1, <2>1 DEF Outside
<1>5. Outside(G, h, e) = K
  <2>1. ~(h < h) /\ ~(h >= e)  BY <1>1, <1>2
  <2>. QED  BY <2>1 DEF Outside
<1>6. e \in G \cup {PoolSize}
  <2>1. e \in H => e \in K  BY <1>2 DEF Outside
  <2>. QED  BY <1>1, <2>1
<1>7. \A x \in K : u.tail[x] = s.tail[x]  BY <1>2, <1>3 DEF Outside
<1>8. Filed(u, K \ u.used)
  <2>1. K \ u.used = K \ s.used  BY <1>2, <1>3
  <2>2. Filed(u, K \ s.used)  BY <1>1, <1>3, <1>7, FiledFrame
  <2>. QED  BY <2>1, <2>2
<1>9. Tiles(u, G) /\ u.used \ {h} \subseteq K  BY <1>1, <1>3, <1>4
<1> HIDE DEF K
<1>10. h \in G  OBVIOUS
<1> HIDE DEF G
<1>11. Loose(u, G, h, e)
  BY <1>1, <1>3, <1>5, <1>6, <1>8, <1>9, <1>10 DEF Loose
<1>12. Joined(u, s, H, h, e)
  BY <1>3, <1>5, <1>7, <1>11 DEF G, K, Joined
<1>. QED  BY <1>12 DEF u

\* What a step makes of the blocks worked on: those with heads N, of which U
\* are in use.
Made(u, s, H, h, e, N, U) ==
    /\ Sound(u, Outside(H, h, e) \cup N)
    /\ u.used = (s.used \ {h}) \cup U
    /\ \A x \in Outside(H, h, e) : u.tail[x] = s.tail[x]

\* One block that goes to the lists.
LEMMA InsMade ==
  ASSUME NEW s, NEW H, NEW h, NEW e, Loose(s, H, h, e), End(s, h) = e, h \notin s.used
  PROVE  /\ Made(Mem_Ins(s, h), s, H, h, e, {h}, {})
         /\ SameBlocks(Mem_Ins(s, h), s) /\ Outside(H, h, e) = H \ {h}
<1> DEFINE u == Mem_Ins(s, h)
           K == Outside(H, h, e)
<1>1. /\ Memory(s) /\ Tiles(s, H) /\ h \in H /\ s.used \ {h} \subseteq K /\ Filed(s, K \ s.used)
  BY DEF Loose
<1>2. K = H \ {h} /\ h \in Nat  BY <1>1, OutsideBlock
<1> HIDE DEF K
<1>3. SameBlocks(u, s) /\ Filed(u, (K \ s.used) \cup {h})
  <2>1. Level(Payload(s, h)) \in Levels  BY <1>1, BlockSize
  <2>2. h \notin K \ s.used  BY <1>2
  <2>. QED  BY <1>1, <1>2, <2>1, <2>2, InsStep
<1> HIDE DEF u
<1>4. Memory(u) /\ Tiles(u, H) /\ u.used = s.used /\ u.tail = s.tail
  BY <1>1, <1>3, TilesFrame DEF SameBlocks
<1>5. K \cup {h} = H /\ H \ u.used = (K \ s.used) \cup {h} /\ u.used \subseteq H
  BY <1>1, <1>2, <1>4
<1>6. Sound(u, K \cup {h})  BY <1>3, <1>4, <1>5 DEF Sound
<1>7. u.used = (s.used \ {h}) \cup {}  BY <1>4
<1>. QED  BY <1>2, <1>3, <1>4, <1>6, <1>7 DEF Made, u, K

\* One block that is marked as in use.
LEMMA UsedMade ==
  ASSUME NEW s, NEW H, NEW h, NEW e, Loose(s, H, h, e), End(s, h) = e
  PROVE  /\ Made(Mem_Used(s, h), s, H, h, e, {h}, {h})
         /\ Mem_Used(s, h).tail = s.tail /\ Outside(H, h, e) = H \ {h}
<1> DEFINE u == Mem_Used(s, h)
           K == Outside(H, h, e)
<1>1. /\ Memory(s) /\ Tiles(s, H) /\ h \in H /\ s.used \ {h} \subseteq K /\ Filed(s, K \ s.used)
  BY DEF Loose
<1>2. K = H \ {h} /\ h \in Nat  BY <1>1, OutsideBlock
<1> HIDE DEF K
<1>3. u = [s EXCEPT !.used = s.used \cup {h}]  BY DEF Mem_Used
<1> HIDE DEF u
<1>4. /\ u.used = s.used \cup {h} /\ u.tail = s.tail /\ u.back = s.back
      /\ u.table = s.table /\ u.bitmap = s.bitmap /\ Memory(u)
  BY <1>1, <1>3 DEF Memory
<1>5. Tiles(u, H) /\ Filed(u, K \ s.used)  BY <1>1, <1>4, TilesFrame, FiledFrame
<1>6. K \cup {h} = H /\ H \ u.used = K \ s.used /\ u.used \subseteq H
  BY <1>1, <1>2, <1>4
<1>7. Sound(u, K \cup {h})  BY <1>4, <1>5, <1>6 DEF Sound
<1>8. u.used = (s.used \ {h}) \cup {h}  BY <1>4
<1>. QED  BY <1>2, <1>4, <1>7, <1>8 DEF Made, u, K

\* A block in use and, behind it, a free one.
LEMMA SplitMade ==
  ASSUME NEW s, NEW H, NEW h, NEW e, Loose(s, H, h, e),
         NEW n \in Nat, n >= 64, n % B = 0, h + Head_Size + n + Tail_Size + Block_Min <= e
  PROVE  LET u == Split(s, h, n, e)
             g == h + (Head_Size + n + Tail_Size)
         IN  /\ Made(u, s, H, h, e, {h, g}, {h})
             /\ End(u, h) = g /\ End(u, g) = e /\ Payload(u, h) = n
             /\ g \notin u.used /\ g \notin Outside(H, h, e) /\ h < g
<1> DEFINE size == Head_Size + n + Tail_Size
           g == h + size
           v == Mem_Block(Mem_Block(s, h, size), g, e - h - size)
           w == Mem_Ins(v, g)
           u == Mem_Used(w, h)
           K == Outside(H, h, e)
<1>1. /\ Memory(s) /\ Tiles(s, H) /\ h \in H /\ e \in H \cup {PoolSize} /\ h < e
      /\ s.used \ {h} \subseteq K /\ Filed(s, K \ s.used)
  BY DEF Loose
<1>2. /\ B \in Nat \ {0} /\ Head_Size = 4 * B /\ Tail_Size = B /\ Block_Min = 4 * B + 64 + B
      /\ h \in Nat /\ e \in Nat /\ H \subseteq Nat /\ h % B = 0
  <2>1. h \in Nat /\ H \subseteq Nat /\ PoolSize \in Nat /\ h % B = 0
    BY <1>1, OutsideBlock, BlockSize, Words
  <2>. QED  BY <1>1, <2>1, Words DEF Head_Size, Tail_Size, Block_Min
<1>3. /\ size \in Nat /\ size >= Block_Min /\ h + size + Block_Min <= e
      /\ g \in Nat /\ h < g /\ g < e /\ size = n + 5 * B
  BY <1>2
<1>4. size % B = 0
  <2>1. (B * 5) % B = 0  BY <1>2, Aligned
  <2>2. (n + B * 5) % B = 0
    <3> DEFINE y == B * 5
    <3>1. y \in Int /\ y % B = 0  BY <1>2, <2>1
    <3> HIDE DEF y
    <3>2. (n + y) % B = 0  BY <3>1, Aligned
    <3>. QED  BY <3>2 DEF y
  <2>. QED  BY <1>2, <1>3, <2>2
<1>5. Cut(v, s, H, h, g, e)
  <2> HIDE DEF size
  <2>. QED  BY <1>1, <1>3, <1>4, CutStep
<1> HIDE DEF v, K
<1>6. /\ Memory(v) /\ Tiles(v, K \cup {h, g})
      /\ v.used = s.used \ {h, g} /\ v.table = s.table /\ v.bitmap = s.bitmap
      /\ End(v, h) = g /\ End(v, g) = e
      /\ \A x \in H : x # h /\ x # g => v.tail[x] = s.tail[x]
  BY <1>5 DEF Cut, K
<1>7. h \notin K /\ g \notin K /\ K \subseteq H
  BY <1>2, <1>3 DEF K, Outside
<1> HIDE DEF g, size
<1>8. /\ g \notin s.used /\ v.used = s.used \ {h}
  BY <1>1, <1>3, <1>6, <1>7
<1>9. SameBlocks(w, v) /\ Filed(w, (K \ s.used) \cup {g})
  <2>1. Level(Payload(v, g)) \in Levels
    <3>1. g \in K \cup {h, g}  OBVIOUS
    <3>. QED  BY <1>6, <3>1, BlockSize
  <2>2. Filed(v, K \ s.used)
    <3>1. \A x \in K \ s.used : v.tail[x] = s.tail[x]  BY <1>6, <1>7
    <3>. QED  BY <1>1, <1>6, <3>1, FiledFrame
  <2>3. g \notin K \ s.used  BY <1>7
  <2>. QED  BY <1>3, <1>6, <2>1, <2>2, <2>3, InsStep
<1> HIDE DEF w
<1>10. u = [w EXCEPT !.used = w.used \cup {h}]  BY DEF Mem_Used
<1> HIDE DEF u
<1>11. /\ u.used = (s.used \ {h}) \cup {h} /\ u.tail = v.tail /\ u.back = v.back
       /\ u.tail = w.tail /\ u.table = w.table /\ u.bitmap = w.bitmap /\ Memory(u)
  BY <1>8, <1>9, <1>10 DEF Memory, SameBlocks
<1>12. Tiles(u, K \cup {h, g}) /\ Filed(u, (K \ s.used) \cup {g})
  BY <1>6, <1>9, <1>11, TilesFrame, FiledFrame
<1>13. /\ (K \cup {h, g}) \ u.used = (K \ s.used) \cup {g}
       /\ u.used \subseteq K \cup {h, g} /\ g \notin u.used
  BY <1>1, <1>3, <1>7, <1>8, <1>11
<1>14. Sound(u, K \cup {h, g})  BY <1>11, <1>12, <1>13 DEF Sound
<1>15. \A x \in K : u.tail[x] = s.tail[x]  BY <1>6, <1>7, <1>11
<1>16. Made(u, s, H, h, e, {h, g}, {h})  BY <1>11, <1>14, <1>15 DEF Made, K
<1>17. End(u, h) = g /\ End(u, g) = e  BY <1>6, <1>11 DEF End
<1>18. Payload(u, h) = n
  <2>1. u.tail[h] \in Nat  BY <1>14 DEF Sound, Tiles
  <2>2. u.tail[h] + B = g  BY <1>2, <1>17 DEF End
  <2>3. g = h + size  BY DEF g
  <2>. QED  BY <1>2, <1>3, <2>1, <2>2, <2>3 DEF Payload
<1>19. Split(s, h, n, e) = u  BY DEF Split, u, w, v, g, size
<1>20. g = h + (Head_Size + n + Tail_Size)  BY DEF g, size
<1>. QED  BY <1>3, <1>7, <1>13, <1>16, <1>17, <1>18, <1>19, <1>20 DEF K

----------------------------------------------------------------------------
(* What the operations make of a pool at rest.                             *)

\* No free block is followed by a free block.
Apart(s, H) == \A x \in H \ s.used : End(s, x) \notin H \ s.used

\* A step keeps free blocks apart if those it makes are.
LEMMA ApartMade ==
  ASSUME NEW s, NEW H, NEW h, NEW e, NEW u, NEW N, NEW U, Made(u, s, H, h, e, N, U),
         h \notin Outside(H, h, e), U \cap Outside(H, h, e) = {},
         \A x \in Outside(H, h, e) \ s.used : End(s, x) \notin Outside(H, h, e) \ s.used,
         \A n \in N \ u.used : /\ End(u, n) \notin Outside(H, h, e) \ s.used
                               /\ \A x \in N \ u.used : End(u, n) # x
                               /\ \A x \in Outside(H, h, e) \ s.used : End(s, x) # n
  PROVE  Apart(u, Outside(H, h, e) \cup N)
<1> DEFINE K == Outside(H, h, e)
<1>1. u.used = (s.used \ {h}) \cup U /\ \A x \in K : u.tail[x] = s.tail[x]  BY DEF Made
<1>2. \A x \in K : x \in u.used <=> x \in s.used  BY <1>1
<1>3. \A x \in K : End(u, x) = End(s, x)  BY <1>1 DEF End
<1> HIDE DEF K
<1> SUFFICES ASSUME NEW x \in (K \cup N) \ u.used, NEW y \in (K \cup N) \ u.used, End(u, x) = y
             PROVE  FALSE
  BY DEF Apart, K
<1>4. CASE x \in K /\ y \in K  BY <1>2, <1>3, <1>4 DEF K
<1>5. CASE x \in K /\ y \in N  BY <1>2, <1>3, <1>5 DEF K
<1>6. CASE x \in N /\ y \in K  BY <1>2, <1>6 DEF K
<1>7. CASE x \in N /\ y \in N  BY <1>7
<1>. QED  BY <1>4, <1>5, <1>6, <1>7

\* The pool is at rest again, the blocks in use are U, and those that were but
\* for h have kept their size.
Moved(u, s, U, h) ==
    /\ \E G : Sound(u, G) /\ Apart(u, G)
    /\ u.used = U
    /\ \A x \in s.used \ {h} : u.tail[x] = s.tail[x]

\* _RMP_Mem_Search finds a free block that is large enough.
LEMMA SearchFinds ==
  ASSUME NEW s, NEW H, Sound(s, H), NEW r \in 64..(W - 1), Mem_Search(s, r) # {}
  PROVE  LET h == Head(s.table[Min(Mem_Search(s, r))])
         IN  h \in H \ s.used /\ Payload(s, h) >= r
<1> DEFINE fit == Mem_Search(s, r)
           l == Min(fit)
           q == s.table[l]
           h == Head(q)
           b == Payload(s, h)
<1>1. Memory(s) /\ Tiles(s, H) /\ Filed(s, H \ s.used)  BY DEF Sound
<1>2. /\ W \in Nat /\ Level(r) \in Nat /\ Unit(r) \in Nat \ {0} /\ SLI(r) \in 0..7
      /\ r < Unit(r) * (9 + SLI(r))
  BY LevelOrder, Words
<1>3. l \in fit
  <2>1. FLI_Num \in Nat  BY BaseFacts, Words
  <2>2. Levels \subseteq Nat  BY <2>1 DEF Levels
  <2>3. fit \in SUBSET Nat  BY <1>1, <2>2 DEF Mem_Search, Memory
  <2> HIDE DEF fit
  <2>. QED  BY <2>3, MinOfNats DEF fit
<1>4. /\ l \in s.bitmap /\ l \in Levels /\ l \in Nat
      /\ IF r = Unit(r) * (SLI(r) + 8) THEN l >= Level(r) ELSE l >= Level(r) + 1
  <2>1. FLI_Num \in Nat  BY BaseFacts, Words
  <2> HIDE DEF l
  <2>2. l \in s.bitmap /\ IF r = Unit(r) * (SLI(r) + 8) THEN l >= Level(r) ELSE l >= Level(r) + 1
    BY <1>3 DEF Mem_Search
  <2>. QED  BY <1>1, <2>1, <2>2 DEF Memory, Levels
<1> HIDE DEF l, fit
<1>5. /\ q \in Seq(Nat) /\ q # <<>> /\ ToSet(q) = {x \in H \ s.used : Level(Payload(s, x)) = l}
  BY <1>1, <1>4 DEF Memory, Filed
<1>6. h \in ToSet(q)
  <2> HIDE DEF q
  <2>1. Len(q) \in Nat /\ Len(q) # 0 /\ Head(q) = q[1]  BY <1>5
  <2>2. 1 \in 1..Len(q)  BY <2>1
  <2>. QED  BY <1>5, <2>1, <2>2, ToSetLemma
<1> HIDE DEF q, h
<1>7. h \in H \ s.used /\ Level(b) = l  BY <1>5, <1>6
<1>8. b \in 64..(W - 1)
  <2>1. b \in 64..(PoolSize - Mem_Size)  BY <1>1, <1>7, BlockSize
  <2>2. PoolSize - Mem_Size \in 64..(W - 1)  BY BaseFacts
  <2> HIDE DEF b
  <2>. QED  BY <1>2, <2>1, <2>2
<1> HIDE DEF b
<1>9. /\ Level(r) < Level(b) => Unit(r) * (9 + SLI(r)) <= b
      /\ Level(r) = Level(b) => Unit(r) * (8 + SLI(r)) <= b
  BY <1>8, LevelOrder
<1>10. b >= r
  <2>1. CASE l = Level(r)
    <3>1. r = Unit(r) * (SLI(r) + 8)  BY <1>2, <1>4, <2>1
    <3>2. SLI(r) + 8 = 8 + SLI(r)  BY <1>2
    <3>. QED  BY <1>7, <1>9, <2>1, <3>1, <3>2
  <2>2. CASE l # Level(r)
    <3>1. Level(r) < l  BY <1>2, <1>4, <2>2
    <3>2. Unit(r) * (9 + SLI(r)) <= b  BY <1>7, <1>9, <3>1
    <3> DEFINE z == Unit(r) * (9 + SLI(r))
    <3>3. z \in Int /\ r < z /\ z <= b  BY <1>2, <3>2
    <3> HIDE DEF z
    <3>. QED  BY <1>8, <3>3
  <2>. QED  BY <2>1, <2>2
<1>. QED  BY <1>7, <1>10 DEF h, q, l, fit, b

\* If it finds none, no free block has the rounded size, itself rounded up to
\* the unit of its class.
LEMMA SearchFails ==
  ASSUME NEW s, NEW H, Sound(s, H), NEW r \in 64..(W - 1), Mem_Search(s, r) = {},
         NEW h \in H \ s.used
  PROVE  Payload(s, h) < ((r + Unit(r) - 1) \div Unit(r)) * Unit(r)
<1> DEFINE b == Payload(s, h)
           v == Unit(r)
           k == SLI(r)
           q == (r + v - 1) \div v
<1>1. Memory(s) /\ Tiles(s, H) /\ Filed(s, H \ s.used)  BY DEF Sound
<1>2. b \in 64..(W - 1) /\ Level(b) \in Levels /\ W \in Nat
  <2>1. b \in 64..(PoolSize - Mem_Size) /\ Level(b) \in Levels  BY <1>1, BlockSize
  <2>2. PoolSize - Mem_Size \in 64..(W - 1)  BY BaseFacts
  <2> HIDE DEF b
  <2>. QED  BY <2>1, <2>2, Words
<1>3. Level(b) \in s.bitmap
  <2>1. h \in ToSet(s.table[Level(b)])  BY <1>1, <1>2 DEF Filed
  <2>2. ToSet(<<>>) = {}  BY DEF ToSet
  <2>. QED  BY <1>1, <1>2, <2>1, <2>2 DEF Filed
<1> HIDE DEF b
<1>4. ~(IF r = v * (k + 8) THEN Level(b) >= Level(r) ELSE Level(b) >= Level(r) + 1)
  BY <1>3 DEF Mem_Search
<1>5. /\ Level(r) \in Nat /\ Level(b) \in Nat /\ v \in Nat \ {0} /\ k \in 0..7
      /\ v * (8 + k) <= r /\ r < v * (9 + k)
      /\ Level(r) = Level(b) => b < v * (9 + k)
      /\ Level(b) < Level(r) => b < v * (8 + k)
  BY <1>2, LevelOrder
<1> HIDE DEF v, k
<1>6. CASE r = v * (8 + k)
  <2>1. Level(b) < Level(r)
    <3>1. k + 8 = 8 + k  BY <1>5
    <3>. QED  BY <1>4, <1>5, <1>6, <3>1
  <2>2. q = 8 + k
    <3>1. r + v - 1 = v * (8 + k) + (v - 1)  BY <1>5, <1>6
    <3> DEFINE a == 8 + k
    <3>2. a \in Nat /\ v \in Nat \ {0} /\ r + v - 1 = v * a + (v - 1)  BY <1>5, <3>1
    <3> HIDE DEF a
    <3>3. (v * a + (v - 1)) \div v = a  BY <3>2
    <3>. QED  BY <3>2, <3>3 DEF a
  <2>3. (8 + k) * v = v * (8 + k)  BY <1>5
  <2>. QED  BY <1>5, <2>1, <2>2, <2>3 DEF b, v
<1>7. CASE r # v * (8 + k)
  <2>1. ~(Level(b) >= Level(r) + 1)
    <3>1. k + 8 = 8 + k  BY <1>5
    <3>. QED  BY <1>4, <1>7, <3>1
  <2>2. b < v * (9 + k)
    <3>1. CASE Level(b) = Level(r)  BY <1>5, <3>1
    <3>2. CASE Level(b) < Level(r)
      <4>1. v * (8 + k) <= v * (9 + k) /\ v * (8 + k) \in Int /\ v * (9 + k) \in Int  BY <1>5
      <4>2. b < v * (8 + k)  BY <1>5, <3>2
      <4>. QED  BY <1>2, <4>1, <4>2
    <3>. QED  BY <1>5, <2>1, <3>1, <3>2
  <2>3. q = 9 + k
    <3> DEFINE a == 9 + k
               x == r - v * (8 + k)
    <3>1. x \in 1..(v - 1) /\ r + v - 1 = v * a + (x - 1) /\ a \in Nat
      <4>1. v * (8 + k) + v = v * (9 + k) /\ v * (8 + k) \in Int  BY <1>5
      <4>. QED  BY <1>5, <1>7, <4>1
    <3> HIDE DEF a, x
    <3>2. (v * a + (x - 1)) \div v = a  BY <1>5, <3>1
    <3>. QED  BY <3>1, <3>2 DEF a
  <2>4. (9 + k) * v = v * (9 + k)  BY <1>5
  <2>. QED  BY <2>2, <2>3, <2>4 DEF b, v
<1>. QED  BY <1>6, <1>7

\* Sizes and addresses.
LEMMA Sizes ==
  /\ B \in Nat \ {0} /\ Head_Size = 4 * B /\ Tail_Size = B /\ Block_Min = 5 * B + 64
  /\ \A h \in Nat : Head_Of(Ptr(h)) = h /\ Ptr(h) \in Nat /\ Ptr(h) # NULL
  /\ \A h \in Nat : h % B = 0 => Ptr(h) % B = 0
<1>1. B \in Nat \ {0} /\ Head_Size = 4 * B /\ Tail_Size = B /\ Block_Min = 5 * B + 64
  BY Words DEF Head_Size, Tail_Size, Block_Min
<1>2. \A h \in Nat : Head_Of(Ptr(h)) = h /\ Ptr(h) \in Nat /\ Ptr(h) # NULL
  BY <1>1 DEF Head_Of, Ptr, NULL
<1>3. ASSUME NEW h \in Nat, h % B = 0  PROVE Ptr(h) % B = 0
  <2> DEFINE y == B * 4
  <2>1. y \in Int /\ y % B = 0  BY <1>1, Aligned
  <2>2. Ptr(h) = h + y  BY <1>1 DEF Ptr
  <2> HIDE DEF y
  <2>. QED  BY <1>3, <2>1, <2>2, Aligned
<1>. QED  BY <1>1, <1>2, <1>3

\* RMP_Malloc that finds a block: it takes one that was free, aligned and large
\* enough.
Given(r, s, H, n) ==
    \E h \in H \ s.used :
       /\ h \in Nat /\ h % B = 0 /\ r.ptr = Ptr(h)
       /\ Moved(r.pool, s, s.used \cup {h}, h)
       /\ Payload(r.pool, h) >= Rounded(n)

LEMMA MallocStep ==
  ASSUME NEW s, NEW H, Sound(s, H), Apart(s, H), NEW n \in 0..(W - 1)
  PROVE  IF n = 0 \/ Mem_Search(s, Rounded(n)) = {}
         THEN Malloc(s, n).ptr = NULL /\ Malloc(s, n).pool = s
         ELSE Given(Malloc(s, n), s, H, n)
<1>1. CASE n = 0 \/ Mem_Search(s, Rounded(n)) = {}
  <2>1. Malloc(s, n) = [pool |-> s, ptr |-> NULL]  BY <1>1 DEF Malloc
  <2>. QED  BY <1>1, <2>1
<1>2. CASE ~(n = 0 \/ Mem_Search(s, Rounded(n)) = {})
  <2> DEFINE r == Rounded(n)
             h == Head(s.table[Min(Mem_Search(s, r))])
             e == End(s, h)
             K == Outside(H, h, e)
             d == Mem_Del(s, h)
             u == Malloc(s, n).pool
  <2>1. /\ Malloc(s, n).ptr = Ptr(h)
        /\ u = IF Payload(s, h) - r >= Block_Min THEN Split(d, h, r, e) ELSE Mem_Used(d, h)
    BY <1>2 DEF Malloc
  <2>2. r \in 64..(W - 1) /\ r % B = 0  BY RoundedFacts
  <2>3. h \in H \ s.used /\ Payload(s, h) >= r
    <3> HIDE DEF r
    <3>1. Mem_Search(s, r) # {}  BY <1>2 DEF r
    <3>. QED  BY <2>2, <3>1, SearchFinds
  <2> HIDE DEF r, h, u, e
  <2>4. /\ Tiles(s, H) /\ s.used \subseteq H /\ h \in Nat /\ h % B = 0 /\ e \in Nat
        /\ Payload(s, h) = e - h - 5 * B /\ r \in Nat
    <3>1. Tiles(s, H) /\ s.used \subseteq H  BY DEF Sound
    <3>. QED  BY <2>2, <2>3, <3>1, BlockSize, Words DEF e
  <2>5. /\ SameBlocks(d, s) /\ Loose(d, H, h, e)  BY <2>3, LooseDel DEF e
  <2>6. /\ K = H \ {h} /\ s.used \subseteq K
    BY <2>3, <2>4, OutsideBlock DEF e
  <2> HIDE DEF d, K
  <2>7. d.used = s.used /\ d.tail = s.tail /\ (\A x : End(d, x) = End(s, x))
    BY <2>5 DEF SameBlocks, End
  <2>8. /\ \A x \in K \ d.used : End(d, x) \notin K \ d.used
        /\ e \notin K \ d.used
    BY <2>3, <2>6, <2>7 DEF Apart, e
  <2>9. CASE Payload(s, h) - r >= Block_Min
    <3> DEFINE g == h + (Head_Size + r + Tail_Size)
    <3>1. u = Split(d, h, r, e)  BY <2>1, <2>9
    <3>2. h + Head_Size + r + Tail_Size + Block_Min <= e
      BY <2>4, <2>9, Sizes
    <3>3. /\ Made(u, d, H, h, e, {h, g}, {h})
          /\ End(u, h) = g /\ End(u, g) = e /\ Payload(u, h) = r
          /\ g \notin u.used /\ g \notin K /\ h < g
      <4>1. r \in Nat /\ r >= 64 /\ r % B = 0 /\ Loose(d, H, h, e)
        BY <2>2, <2>4, <2>5
      <4> DEFINE v == Split(d, h, r, e)
      <4>2. /\ Made(v, d, H, h, e, {h, g}, {h})
            /\ End(v, h) = g /\ End(v, g) = e /\ Payload(v, h) = r
            /\ g \notin v.used /\ g \notin Outside(H, h, e) /\ h < g
        BY <3>2, <4>1, SplitMade
      <4> HIDE DEF v
      <4>. QED  BY <3>1, <4>2 DEF K, v
    <3>4. g \in Nat /\ g < e
      BY <2>4, <3>2, Sizes
    <3> HIDE DEF g
    <3>5. /\ Sound(u, K \cup {h, g}) /\ u.used = s.used \cup {h}
          /\ \A x \in K : u.tail[x] = s.tail[x]
      BY <2>3, <2>7, <3>3 DEF Made, K
    <3>6. \A x \in K : End(d, x) # g
      <4> SUFFICES ASSUME NEW x \in K, End(d, x) = g  PROVE FALSE
        OBVIOUS
      <4>1. End(u, x) = End(u, h)  BY <2>7, <3>3, <3>5 DEF End
      <4>2. Tiles(u, K \cup {h, g})  BY <3>5 DEF Sound
      <4>3. x = h
        <5>1. x \in K \cup {h, g} /\ h \in K \cup {h, g}  OBVIOUS
        <5>. QED  BY <4>1, <4>2, <5>1, BlocksApart
      <4>. QED  BY <2>6, <4>3
    <3>7. Apart(u, K \cup {h, g})
      <4>1. {h, g} \ u.used = {g}  BY <3>3, <3>5
      <4>2. \A x \in {h, g} \ u.used :
               /\ End(u, x) \notin K \ d.used
               /\ \A y \in {h, g} \ u.used : End(u, x) # y
               /\ \A y \in K \ d.used : End(d, y) # x
        BY <2>4, <2>8, <3>3, <3>4, <3>6, <4>1
      <4>3. h \notin K /\ {h} \cap K = {}  BY <2>6
      <4>. QED  BY <2>8, <3>3, <4>2, <4>3, ApartMade DEF K
    <3>8. Moved(u, s, s.used \cup {h}, h)
      BY <2>6, <3>5, <3>7 DEF Moved
    <3>9. Payload(u, h) >= r  BY <2>4, <3>3
    <3>. QED  BY <1>2, <2>1, <2>3, <2>4, <3>8, <3>9 DEF Given, u, r
  <2>10. CASE ~(Payload(s, h) - r >= Block_Min)
    <3>1. u = Mem_Used(d, h)  BY <2>1, <2>10
    <3>2. Made(u, d, H, h, e, {h}, {h}) /\ u.tail = s.tail
      <4>1. End(d, h) = e  BY <2>7 DEF e
      <4>. QED  BY <2>5, <2>7, <3>1, <4>1, UsedMade
    <3>3. /\ Sound(u, K \cup {h}) /\ u.used = s.used \cup {h}
      BY <2>3, <2>7, <3>2 DEF Made, K
    <3>4. Apart(u, K \cup {h})
      <4>1. {h} \ u.used = {}  BY <3>3
      <4>2. h \notin K /\ {h} \cap K = {}  BY <2>6
      <4>3. \A x \in {h} \ u.used :
               /\ End(u, x) \notin K \ d.used
               /\ \A y \in {h} \ u.used : End(u, x) # y
               /\ \A y \in K \ d.used : End(d, y) # x
        BY <4>1
      <4>. QED  BY <2>8, <3>2, <4>2, <4>3, ApartMade DEF K
    <3>5. Moved(u, s, s.used \cup {h}, h)  BY <3>2, <3>3, <3>4 DEF Moved
    <3>6. Payload(u, h) >= r  BY <2>3, <3>2 DEF Payload
    <3>. QED  BY <1>2, <2>1, <2>3, <2>4, <3>5, <3>6 DEF Given, u, r
  <2>. QED  BY <2>9, <2>10
<1>. QED  BY <1>1, <1>2

\* RMP_Free after it looked to the right: block h of heads G is one with a free
\* right neighbour of H, ends at e and is on no list.
Freed(two, s, H, h, G, e) ==
    /\ Loose(two, G, h, e) /\ End(two, h) = e /\ two.used = s.used \ {h}
    /\ e \notin H \ s.used /\ G \subseteq H /\ {x \in H : x < h} \subseteq G
    /\ \A x \in Outside(G, h, e) : two.tail[x] = s.tail[x]

LEMMA FreeRight ==
  ASSUME NEW s, NEW H, Sound(s, H), Apart(s, H), NEW h \in s.used
  PROVE  LET rgt == End(s, h)
             one == Unmarked(s, h)
             two == IF ~Right_Free(s, h) THEN one
                    ELSE Mem_Block(Mem_Del(one, rgt), h, End(s, rgt) - h)
         IN  \E G, e : Freed(two, s, H, h, G, e)
<1> DEFINE rgt == End(s, h)
           one == Unmarked(s, h)
           d == Mem_Del(one, rgt)
           e == End(s, rgt)
           two == Mem_Block(d, h, e - h)
<1>1. /\ Tiles(s, H) /\ s.used \subseteq H /\ h \in H  BY DEF Sound
<1>2. /\ rgt \in H \cup {PoolSize} /\ h < rgt /\ Outside(H, h, rgt) = H \ {h}
      /\ PoolSize \notin H /\ H \subseteq Nat
  BY <1>1, OutsideBlock
<1>3. /\ Loose(one, H, h, rgt) /\ one.used = s.used \ {h} /\ one.tail = s.tail
  BY LooseHeld
<1>4. \A x : End(one, x) = End(s, x)  BY <1>3 DEF End
<1> HIDE DEF one
<1>5. CASE ~Right_Free(s, h)
  <2>1. rgt \notin H \ s.used  BY <1>2, <1>5 DEF Right_Free
  <2>2. {x \in H : x < h} \subseteq H  OBVIOUS
  <2>3. Freed(one, s, H, h, H, rgt)
    BY <1>3, <1>4, <2>1, <2>2 DEF Freed
  <2>. QED  BY <1>5, <2>3 DEF one
<1>6. CASE Right_Free(s, h)
  <2>1. rgt \in H \ s.used  BY <1>2, <1>6 DEF Right_Free
  <2> HIDE DEF rgt
  <2>2. rgt \in H \ one.used  BY <1>3, <2>1
  <2>3. SameBlocks(d, one) /\ Loose(d, H, h, e)
    <3>1. SameBlocks(d, one) /\ Loose(d, H, h, End(one, rgt))  BY <1>3, <2>2, LooseRight
    <3>. QED  BY <1>4, <3>1
  <2>4. d.used = s.used \ {h} /\ d.tail = s.tail  BY <1>3, <2>3 DEF SameBlocks
  <2>5. e \notin H \ s.used  BY <2>1 DEF Apart
  <2> HIDE DEF d, e
  <2> DEFINE K == Outside(H, h, e)
             G == K \cup {h}
  <2>6. /\ Loose(two, G, h, e) /\ End(two, h) = e
        /\ two.used = d.used \ {h}
        /\ Outside(G, h, e) = K
        /\ \A x \in K : two.tail[x] = d.tail[x]
    <3>1. Joined(two, d, H, h, e)  BY <2>3, JoinLoose
    <3>. QED  BY <3>1 DEF Joined
  <2> HIDE DEF two
  <2>7. G \subseteq H /\ {x \in H : x < h} \subseteq G  BY <1>1 DEF Outside
  <2>8. two.used = s.used \ {h}  BY <2>4, <2>6
  <2>9. \A x \in Outside(G, h, e) : two.tail[x] = s.tail[x]  BY <2>4, <2>6
  <2>10. Loose(two, G, h, e)  BY <2>6
  <2> HIDE DEF G
  <2>11. Freed(two, s, H, h, G, e)
    BY <2>5, <2>6, <2>7, <2>8, <2>9, <2>10 DEF Freed
  <2>. QED  BY <1>6, <2>11 DEF one, rgt, d, e, two
<1>. QED  BY <1>5, <1>6

LEMMA FreeStep ==
  ASSUME NEW s, NEW H, Sound(s, H), Apart(s, H), NEW h \in s.used
  PROVE  Moved(Free(s, Ptr(h)), s, s.used \ {h}, h)
<1> DEFINE rgt == End(s, h)
           one == Unmarked(s, h)
           two == IF ~Right_Free(s, h) THEN one
                  ELSE Mem_Block(Mem_Del(one, rgt), h, End(s, rgt) - h)
           l == s.back[h - Tail_Size]
           d == Mem_Del(two, l)
           u == Free(s, Ptr(h))
<1>1. /\ Tiles(s, H) /\ s.used \subseteq H /\ h \in H /\ h \in Nat /\ H \subseteq Nat
  <2>1. Tiles(s, H) /\ s.used \subseteq H /\ h \in H  BY DEF Sound
  <2>. QED  BY <2>1, OutsideBlock
<1>2. u = IF h = Base \/ l \in s.used THEN Mem_Ins(two, h)
          ELSE Mem_Ins(Mem_Block(d, l, End(two, h) - l), l)
  <2>1. Head_Of(Ptr(h)) = h  BY <1>1, Sizes
  <2>. QED  BY <2>1 DEF Free, Unmarked
<1>3. PICK G, e : Freed(two, s, H, h, G, e)  BY FreeRight
<1> HIDE DEF two, u, l, d
<1> DEFINE K == Outside(G, h, e)
<1>4. /\ Loose(two, G, h, e) /\ End(two, h) = e /\ two.used = s.used \ {h}
      /\ e \notin H \ s.used /\ G \subseteq H /\ {x \in H : x < h} \subseteq G
      /\ \A x \in K : two.tail[x] = s.tail[x]
  BY <1>3 DEF Freed
<1>5. /\ h < e /\ Tiles(two, G) /\ two.used \ {h} \subseteq K
      /\ e \in Nat /\ h \notin K /\ K \subseteq H
  <2>1. h < e /\ Tiles(two, G) /\ two.used \ {h} \subseteq K /\ e \in G \cup {PoolSize}
    BY <1>4 DEF Loose
  <2>2. e \in Nat  BY <1>1, <1>4, <2>1, Words
  <2>3. K \subseteq G  BY DEF Outside
  <2>4. h \notin K
    <3>1. ~(h < h) /\ ~(h >= e)  BY <1>1, <2>1, <2>2
    <3>. QED  BY <3>1 DEF Outside
  <2>. QED  BY <1>4, <2>1, <2>2, <2>3, <2>4
<1>6. /\ \A x \in K : End(two, x) = End(s, x)
      /\ \A x \in K \ two.used : x \in H \ s.used
      /\ s.used \ {h} \subseteq K
  BY <1>4, <1>5 DEF End
<1>7. \A x \in K \ two.used : End(two, x) \notin K \ two.used
  BY <1>6 DEF Apart
<1>8. \A x \in H \ s.used : End(s, x) = h => h # Base /\ x = l
  <2> SUFFICES ASSUME NEW x \in H \ s.used, End(s, x) = h  PROVE h # Base /\ x = l
    OBVIOUS
  <2>1. h # Base
    <3>1. Base <= x /\ x < End(s, x) /\ x \in Nat  BY <1>1, OutsideBlock DEF Tiles
    <3>. QED  BY <1>1, <3>1, BaseFacts
  <2>2. l \in H /\ End(s, l) = h  BY <1>1, <2>1, Neighbours DEF l
  <2>. QED  BY <1>1, <2>1, <2>2, BlocksApart
<1>9. CASE h = Base \/ l \in s.used
  <2>1. u = Mem_Ins(two, h)  BY <1>2, <1>9
  <2>2. /\ Made(u, two, G, h, e, {h}, {}) /\ SameBlocks(u, two)
    <3>1. h \notin two.used  BY <1>4
    <3>. QED  BY <1>4, <2>1, <3>1, InsMade
  <2>3. /\ Sound(u, K \cup {h}) /\ u.used = s.used \ {h} /\ u.tail = two.tail
    BY <1>4, <2>2 DEF Made, SameBlocks
  <2>4. Apart(u, K \cup {h})
    <3>1. End(u, h) = e  BY <1>4, <2>3 DEF End
    <3>2. \A x \in K \ two.used : End(two, x) # h
      BY <1>6, <1>8, <1>9
    <3>3. \A x \in {h} \ u.used :
             /\ End(u, x) \notin K \ two.used
             /\ \A y \in {h} \ u.used : End(u, x) # y
             /\ \A y \in K \ two.used : End(two, y) # x
      BY <1>1, <1>4, <1>5, <1>6, <3>1, <3>2
    <3>4. {} \cap K = {}  OBVIOUS
    <3>. QED  BY <1>5, <1>7, <2>2, <3>3, <3>4, ApartMade
  <2>5. \A x \in s.used \ {h} : u.tail[x] = s.tail[x]  BY <1>4, <1>6, <2>3
  <2>6. Moved(u, s, s.used \ {h}, h)  BY <2>3, <2>4, <2>5 DEF Moved
  <2>. QED  BY <2>6 DEF u
<1>10. CASE ~(h = Base \/ l \in s.used)
  <2> DEFINE three == Mem_Block(d, l, e - l)
             J == Outside(G, l, e)
             M == J \cup {l}
  <2>1. u = Mem_Ins(three, l)  BY <1>2, <1>4, <1>10
  <2>2. l \in H \ s.used /\ End(s, l) = h
    BY <1>1, <1>10, Neighbours DEF l
  <2>3. l \in G \ two.used /\ End(two, l) = h /\ l \in Nat /\ l < h
    <3>1. l < h /\ l \in Nat  BY <1>1, <2>2, OutsideBlock
    <3>2. l \in G /\ l \in K  BY <1>4, <2>2, <3>1 DEF Outside
    <3>. QED  BY <1>4, <1>6, <2>2, <3>1, <3>2
  <2>4. SameBlocks(d, two) /\ Loose(d, G, l, e)
    <3>1. h \notin two.used  BY <1>4
    <3>. QED  BY <1>4, <2>3, <3>1, LooseLeft DEF d
  <2>5. d.used = two.used /\ d.tail = two.tail  BY <2>4 DEF SameBlocks
  <2>6. /\ Loose(three, M, l, e) /\ End(three, l) = e /\ three.used = d.used \ {l}
        /\ Outside(M, l, e) = J /\ \A x \in J : three.tail[x] = d.tail[x]
    <3>1. Joined(three, d, G, l, e)  BY <2>4, JoinLoose
    <3>. QED  BY <3>1 DEF Joined
  <2> HIDE DEF three, M
  <2>7. three.used = s.used \ {h} /\ l \notin three.used  BY <1>4, <2>2, <2>5, <2>6
  <2>8. Made(u, three, M, l, e, {l}, {}) /\ SameBlocks(u, three)
    BY <2>1, <2>6, <2>7, InsMade
  <2>9. J \subseteq K /\ l \notin J
    <3>1. \A x \in G : x \in Nat  BY <1>1, <1>4
    <3>2. \A x \in G : x < l \/ x >= e => x < h \/ x >= e  BY <1>1, <1>5, <2>3, <3>1
    <3>3. ~(l < l) /\ ~(l >= e)  BY <1>1, <1>5, <2>3
    <3>. QED  BY <3>2, <3>3 DEF Outside
  <2>10. s.used \ {h} \subseteq J
    <3>1. d.used \ {l} \subseteq J  BY <2>4 DEF Loose
    <3>. QED  BY <1>4, <2>3, <2>5, <3>1
  <2> HIDE DEF J, K
  <2>11. /\ Sound(u, J \cup {l}) /\ u.used = s.used \ {h} /\ u.tail = three.tail
    BY <2>6, <2>7, <2>8 DEF Made, SameBlocks
  <2>12. \A x \in J : End(three, x) = End(s, x) /\ three.tail[x] = s.tail[x]
    BY <1>4, <2>5, <2>6, <2>9 DEF End
  <2>13. \A x \in J \ three.used : x \in H \ s.used
    BY <1>4, <1>6, <2>7, <2>9
  <2>14. Apart(u, J \cup {l})
    <3>1. End(u, l) = e  BY <2>6, <2>11 DEF End
    <3>2. \A x \in J \ three.used : End(three, x) \notin J \ three.used /\ End(three, x) # l
      BY <2>2, <2>12, <2>13 DEF Apart
    <3>3. e \notin J \ three.used /\ e # l
      BY <1>1, <1>4, <1>5, <2>3, <2>13
    <3>4. \A x \in {l} \ u.used :
             /\ End(u, x) \notin J \ three.used
             /\ \A y \in {l} \ u.used : End(u, x) # y
             /\ \A y \in J \ three.used : End(three, y) # x
      BY <3>1, <3>2, <3>3
    <3>5. {} \cap J = {}  OBVIOUS
    <3>6. Outside(M, l, e) = J  BY <2>6
    <3>. QED  BY <2>8, <2>9, <3>2, <3>4, <3>5, <3>6, ApartMade
  <2>15. \A x \in s.used \ {h} : u.tail[x] = s.tail[x]  BY <2>10, <2>11, <2>12
  <2>16. Moved(u, s, s.used \ {h}, h)  BY <2>11, <2>14, <2>15 DEF Moved
  <2>. QED  BY <2>16 DEF u
<1>. QED  BY <1>9, <1>10

\* RMP_Realloc in place.
LEMMA ResizeStep ==
  ASSUME NEW s, NEW H, Sound(s, H), Apart(s, H), NEW h \in s.used,
         NEW r \in Nat, r >= 64, r % B = 0, Fits(s, h, r)
  PROVE  /\ Moved(Resize(s, h, r), s, s.used, h)
         /\ Payload(Resize(s, h, r), h) >= r
<1> DEFINE rgt == End(s, h)
           e == IF Right_Free(s, h) THEN End(s, rgt) ELSE rgt
           d == IF Right_Free(s, h) THEN Mem_Del(s, rgt) ELSE s
           u == Resize(s, h, r)
           K == Outside(H, h, e)
           p == Payload(s, h)
<1>1. /\ Tiles(s, H) /\ s.used \subseteq H /\ h \in H /\ h \in Nat /\ H \subseteq Nat
      /\ p \in Nat
  <2>1. Tiles(s, H) /\ s.used \subseteq H /\ h \in H  BY DEF Sound
  <2>2. p \in 64..(PoolSize - Mem_Size)  BY <2>1, BlockSize
  <2>3. p \in Nat  BY <2>2
  <2>. QED  BY <2>1, <2>3, OutsideBlock
<1>2. u = IF r = p THEN s
          ELSE IF e - Tail_Size - Ptr(h) - r >= Block_Min THEN Split(d, h, r, e)
          ELSE IF r < p THEN s
          ELSE Mem_Used(Mem_Block(d, h, e - h), h)
  BY DEF Resize
<1>3. /\ Loose(d, H, h, e) /\ d.used = s.used /\ d.tail = s.tail
      /\ e \notin H \ s.used
      /\ p < r => r <= e - Tail_Size - Ptr(h)
  <2>1. Loose(s, H, h, rgt)  BY LooseHeld
  <2>2. rgt \in H \cup {PoolSize} /\ PoolSize \notin H  BY <1>1, OutsideBlock
  <2>3. CASE ~Right_Free(s, h)
    <3>1. rgt \notin H \ s.used  BY <2>2, <2>3 DEF Right_Free
    <3>2. ~(p < r)  BY <1>1, <2>3 DEF Fits
    <3>. QED  BY <2>1, <2>3, <3>1, <3>2
  <2>4. CASE Right_Free(s, h)
    <3>1. rgt \in H \ s.used  BY <2>2, <2>4 DEF Right_Free
    <3>2. End(s, rgt) \notin H \ s.used  BY <3>1 DEF Apart
    <3>3. p < r => r <= s.tail[rgt] - Ptr(h)  BY <1>1, <2>4 DEF Fits
    <3>4. s.tail[rgt] = End(s, rgt) - Tail_Size  BY <1>1, <3>1, BlockSize
    <3> HIDE DEF rgt
    <3>5. SameBlocks(Mem_Del(s, rgt), s) /\ Loose(Mem_Del(s, rgt), H, h, End(s, rgt))
      BY <2>1, <3>1, LooseRight
    <3>6. d = Mem_Del(s, rgt) /\ e = End(s, rgt)  BY <2>4
    <3>. QED  BY <3>2, <3>3, <3>4, <3>5, <3>6 DEF SameBlocks
  <2>. QED  BY <2>3, <2>4
<1> HIDE DEF d, e, u, p, rgt
<1>4. /\ e \in Nat /\ h \notin K /\ s.used \ {h} \subseteq K
      /\ e \in H \cup {PoolSize} /\ h < e /\ K \subseteq H
  <2>1. e \in H \cup {PoolSize} /\ h < e /\ s.used \ {h} \subseteq K  BY <1>3 DEF Loose
  <2>2. e \in Nat  BY <1>1, <2>1, Words
  <2>3. ~(h < h) /\ ~(h >= e)  BY <1>1, <2>1, <2>2
  <2>. QED  BY <2>1, <2>2, <2>3 DEF Outside
<1> HIDE DEF K
<1>5. \A x : End(d, x) = End(s, x)  BY <1>3 DEF End
<1>6. \A x \in K \ d.used : x \in H \ s.used  BY <1>3, <1>4
<1>7. \A x \in K \ d.used : End(d, x) \notin K \ d.used
  BY <1>5, <1>6 DEF Apart
<1>8. CASE u = s /\ r <= p
  <2>1. Moved(s, s, s.used, h)  BY DEF Moved
  <2>. QED  BY <1>1, <1>8, <2>1 DEF u, p
<1>9. CASE u = Split(d, h, r, e) /\ e - Tail_Size - Ptr(h) - r >= Block_Min
  <2> DEFINE g == h + (Head_Size + r + Tail_Size)
  <2>1. h + Head_Size + r + Tail_Size + Block_Min <= e
    BY <1>1, <1>4, <1>9, Sizes DEF Ptr
  <2>2. /\ Made(u, d, H, h, e, {h, g}, {h})
        /\ End(u, h) = g /\ End(u, g) = e /\ Payload(u, h) = r
        /\ g \notin u.used /\ g \notin K /\ h < g
    <3> DEFINE v == Split(d, h, r, e)
    <3>1. /\ Made(v, d, H, h, e, {h, g}, {h})
          /\ End(v, h) = g /\ End(v, g) = e /\ Payload(v, h) = r
          /\ g \notin v.used /\ g \notin Outside(H, h, e) /\ h < g
      BY <1>3, <2>1, SplitMade
    <3> HIDE DEF v, g
    <3>2. u = v  BY <1>9 DEF v
    <3>. QED  BY <3>1, <3>2 DEF K
  <2>3. g \in Nat /\ g < e  BY <1>1, <1>4, <2>1, Sizes
  <2> HIDE DEF g
  <2>4. /\ Sound(u, K \cup {h, g}) /\ u.used = s.used
        /\ \A x \in K : u.tail[x] = s.tail[x]
    BY <1>3, <2>2 DEF Made, K
  <2>5. \A x \in K : End(d, x) # g
    <3> SUFFICES ASSUME NEW x \in K, End(d, x) = g  PROVE FALSE
      OBVIOUS
    <3>1. End(u, x) = End(u, h)  BY <1>5, <2>2, <2>4 DEF End
    <3>2. Tiles(u, K \cup {h, g})  BY <2>4 DEF Sound
    <3>3. x \in K \cup {h, g} /\ h \in K \cup {h, g}  OBVIOUS
    <3>4. x = h  BY <3>1, <3>2, <3>3, BlocksApart
    <3>. QED  BY <1>4, <3>4
  <2>6. Apart(u, K \cup {h, g})
    <3>1. {h, g} \ u.used = {g}  BY <2>2, <2>4
    <3>2. e \notin K \ d.used  BY <1>3, <1>6
    <3>3. \A x \in {h, g} \ u.used :
             /\ End(u, x) \notin K \ d.used
             /\ \A y \in {h, g} \ u.used : End(u, x) # y
             /\ \A y \in K \ d.used : End(d, y) # x
      BY <1>4, <2>2, <2>3, <2>5, <3>1, <3>2
    <3>4. {h} \cap K = {}  BY <1>4
    <3>. QED  BY <1>4, <1>7, <2>2, <3>3, <3>4, ApartMade DEF K
  <2>7. Moved(u, s, s.used, h)  BY <1>4, <2>4, <2>6 DEF Moved
  <2>8. Payload(u, h) >= r  BY <2>2
  <2>. QED  BY <2>7, <2>8 DEF u
<1>10. CASE u = Mem_Used(Mem_Block(d, h, e - h), h) /\ p < r
  <2> DEFINE b == Mem_Block(d, h, e - h)
             G == K \cup {h}
  <2>1. Joined(b, d, H, h, e)  BY <1>3, JoinLoose
  <2> HIDE DEF b
  <2>2. /\ Loose(b, G, h, e) /\ End(b, h) = e /\ b.used = s.used \ {h}
        /\ Outside(G, h, e) = K /\ \A x \in K : b.tail[x] = s.tail[x]
    BY <1>3, <2>1 DEF Joined, K
  <2>3. u = Mem_Used(b, h)  BY <1>10 DEF b
  <2> HIDE DEF G
  <2>4. Made(u, b, G, h, e, {h}, {h}) /\ u.tail = b.tail
    BY <2>2, <2>3, UsedMade
  <2>5. Sound(u, K \cup {h}) /\ u.used = s.used
    BY <2>2, <2>4 DEF Made
  <2>6. Apart(u, K \cup {h})
    <3>1. {h} \ u.used = {}  BY <2>5
    <3>2. \A x \in K \ b.used : End(b, x) \notin K \ b.used
      <4>1. \A x \in K : End(b, x) = End(s, x)  BY <2>2 DEF End
      <4>2. \A x \in K \ b.used : x \in K \ d.used  BY <1>3, <1>4, <2>2
      <4>. QED  BY <1>5, <1>7, <4>1, <4>2
    <3>3. \A x \in {h} \ u.used :
             /\ End(u, x) \notin K \ b.used
             /\ \A y \in {h} \ u.used : End(u, x) # y
             /\ \A y \in K \ b.used : End(b, y) # x
      BY <3>1
    <3>4. {h} \cap K = {} /\ h \notin K  BY <1>4
    <3>. QED  BY <2>2, <2>4, <3>2, <3>3, <3>4, ApartMade
  <2>7. \A x \in s.used \ {h} : u.tail[x] = s.tail[x]  BY <1>4, <2>2, <2>4
  <2>8. Moved(u, s, s.used, h)  BY <2>5, <2>6, <2>7 DEF Moved
  <2>9. Payload(u, h) >= r
    <3>1. r <= e - Tail_Size - Ptr(h)  BY <1>3, <1>10
    <3>2. End(u, h) = e /\ u.tail[h] \in Nat
      BY <2>2, <2>4, <2>5 DEF End, Sound, Tiles
    <3>. QED  BY <1>1, <1>4, <3>1, <3>2, Sizes DEF End, Payload, Ptr
  <2>. QED  BY <2>8, <2>9 DEF u
<1>11. r = p \/ r < p \/ p < r  BY <1>1
<1>12. r = p \/ r < p => r <= p  BY <1>1
<1>. QED  BY <1>2, <1>8, <1>9, <1>10, <1>11, <1>12

----------------------------------------------------------------------------
(* Blocks, the heads that are found by going through the pool.             *)

\* The heads found in up to n steps of size.
Reach(s, n, g) ==
    g = [i \in 0..n |->
            IF i = 0 THEN {Base}
            ELSE LET q == g[i - 1]
                 IN  q \cup {x \in {End(s, h) : h \in q} : x < PoolSize}]

\* There is such a function.
LEMMA ReachExists ==
  ASSUME NEW s, NEW n \in Nat
  PROVE  \E g : Reach(s, n, g)
<1> DEFINE Go(q) == q \cup {x \in {End(s, h) : h \in q} : x < PoolSize}
           Bad == {k \in Nat : ~\E g : Reach(s, k, g)}
<1>1. SUFFICES ASSUME Bad # {}  PROVE FALSE
  OBVIOUS
<1>2. PICK k \in Bad : \A j \in Bad : k <= j
  BY <1>1, LeastNat
<1>3. \A g : \A j : Reach(s, j, g) <=>
         g = [i \in 0..j |-> IF i = 0 THEN {Base} ELSE Go(g[i - 1])]
  BY DEF Reach
<1> HIDE DEF Go
<1>4. CASE k = 0
  <2> DEFINE g == [i \in 0..0 |-> {Base}]
  <2>1. g = [i \in 0..0 |-> IF i = 0 THEN {Base} ELSE Go(g[i - 1])]
    OBVIOUS
  <2> HIDE DEF g
  <2>. QED  BY <2>1, <1>2, <1>3, <1>4
<1>5. CASE k # 0
  <2>1. k - 1 \in Nat /\ k - 1 \notin Bad /\ k \in Nat  BY <1>2, <1>5
  <2>2. PICK g : Reach(s, k - 1, g)  BY <2>1
  <2> DEFINE h == [i \in 0..k |-> IF i = k THEN Go(g[k - 1]) ELSE g[i]]
             d == [i \in 0..k |-> IF i = 0 THEN {Base} ELSE Go(h[i - 1])]
  <2>3. \A i \in 0..(k - 1) : g[i] = IF i = 0 THEN {Base} ELSE Go(g[i - 1])
    <3> DEFINE j == k - 1
    <3>1. g = [i \in 0..j |-> IF i = 0 THEN {Base} ELSE Go(g[i - 1])]
      BY <2>2, <1>3
    <3> HIDE DEF j
    <3>2. \A i \in 0..j : g[i] = IF i = 0 THEN {Base} ELSE Go(g[i - 1])
      BY <3>1
    <3>. QED  BY <3>2 DEF j
  <2>4. ASSUME NEW i \in 0..k  PROVE h[i] = d[i]
    <3>1. CASE i = k
      <4>1. k - 1 \in 0..k /\ k - 1 # k  BY <2>1
      <4>2. h[k - 1] = g[k - 1]  BY <4>1
      <4>. QED  BY <4>2, <3>1, <1>5
    <3>2. CASE i = 0  BY <3>2, <1>5, <2>1, <2>3
    <3>3. CASE i # 0 /\ i # k
      <4>1. i - 1 \in 0..k /\ i - 1 # k /\ i \in 0..(k - 1)  BY <3>3, <2>1
      <4>2. h[i - 1] = g[i - 1] /\ h[i] = g[i]  BY <4>1, <3>3
      <4>. QED  BY <4>1, <4>2, <3>3, <2>3
    <3>. QED  BY <3>1, <3>2, <3>3
  <2>5. h = d  BY <2>4
  <2> HIDE DEF h
  <2>6. Reach(s, k, h)  BY <2>5, <1>3
  <2>. QED  BY <2>6, <1>2
<1>. QED  BY <1>4, <1>5

\* If the blocks with heads H tile the pool, these are the heads found.
LEMMA BlocksAre ==
  ASSUME NEW H, Tiles(m, H)
  PROVE  Blocks = H
<1> DEFINE n == PoolSize \div 64
           g == CHOOSE f : Reach(m, n, f)
<1>1. n \in Nat /\ PoolSize \in Nat /\ 64 * n <= PoolSize /\ PoolSize < 64 * n + 64
  BY Words
<1> HIDE DEF n
<1>2. Reach(m, n, g)  BY <1>1, ReachExists
<1>3. Blocks = g[n]  BY DEF Blocks, Reach, n
<1> HIDE DEF g
<1>4. /\ g[0] = {Base}
      /\ \A i \in 1..n : g[i] = g[i - 1] \cup {x \in {End(m, h) : h \in g[i - 1]} : x < PoolSize}
  BY <1>1, <1>2 DEF Reach
<1>5. /\ Base \in H /\ Base \in Nat /\ H \subseteq Nat
      /\ \A h \in H : /\ h \in Nat /\ Base <= h /\ h + 64 <= End(m, h) /\ h + 64 <= PoolSize
                      /\ End(m, h) \in H \cup {PoolSize} /\ End(m, h) \in Nat
      /\ \A h \in H : h < PoolSize
      /\ \A h \in H \ {Base} : \E y \in H : End(m, y) = h
  <2>1. ASSUME NEW h \in H
        PROVE  /\ h + 64 <= End(m, h) /\ h + 64 <= PoolSize /\ h \in Nat /\ h < PoolSize
               /\ End(m, h) \in Nat
    <3>1. /\ h \in Nat /\ h + Block_Min <= End(m, h) /\ End(m, h) <= PoolSize /\ h < PoolSize
          /\ End(m, h) \in Nat
      BY BlockSize
    <3>. QED  BY <1>1, <3>1, Sizes
  <2>. QED  BY <2>1, BaseFacts DEF Tiles
<1> DEFINE Ok(i) == g[i] \subseteq H /\ \A h \in H : h <= Base + 64 * i => h \in g[i]
           Bad == {i \in 0..n : ~Ok(i)}
<1>6. Ok(0)
  <2>1. \A h \in H : h <= Base + 64 * 0 => h = Base  BY <1>5
  <2>. QED  BY <1>4, <1>5, <2>1
<1>7. ASSUME NEW i \in 1..n, Ok(i - 1)  PROVE Ok(i)
  <2> DEFINE q == g[i - 1]
  <2>1. g[i] = q \cup {x \in {End(m, h) : h \in q} : x < PoolSize}  BY <1>4
  <2>2. q \subseteq H /\ \A h \in H : h <= Base + 64 * (i - 1) => h \in q  BY <1>7
  <2> HIDE DEF q
  <2>3. g[i] \subseteq H
    <3> SUFFICES ASSUME NEW x \in g[i], x \notin q  PROVE x \in H
      BY <2>2
    <3>1. PICK h \in q : x = End(m, h) /\ x < PoolSize  BY <2>1
    <3>. QED  BY <1>1, <1>5, <2>2, <3>1
  <2>4. ASSUME NEW h \in H, h <= Base + 64 * i  PROVE h \in g[i]
    <3>1. CASE h = Base
      <4>1. Base <= Base + 64 * (i - 1)  BY <1>1, <1>5
      <4>. QED  BY <1>5, <2>1, <2>2, <3>1, <4>1
    <3>2. CASE h # Base
      <4>1. PICK y \in H : End(m, y) = h  BY <1>5, <3>2
      <4>2. y <= Base + 64 * (i - 1)
        <5>1. y \in Nat /\ y + 64 <= h /\ h \in Nat  BY <1>5, <4>1
        <5>. QED  BY <1>1, <1>5, <2>4, <5>1
      <4>3. y \in q /\ h < PoolSize  BY <1>5, <2>2, <4>2
      <4>. QED  BY <2>1, <4>1, <4>3
    <3>. QED  BY <3>1, <3>2
  <2>. QED  BY <2>3, <2>4
<1>8. Ok(n)
  <2> SUFFICES ASSUME Bad # {}  PROVE FALSE
    BY <1>1
  <2>1. PICK i \in Bad : \A l \in Bad : i <= l
    <3>1. Bad \in SUBSET Nat  OBVIOUS
    <3> HIDE DEF Bad
    <3>. QED  BY <3>1, LeastNat
  <2> HIDE DEF Ok
  <2>2. i # 0  BY <1>6, <2>1
  <2>3. i \in 1..n /\ i - 1 \in 0..n /\ i - 1 \notin Bad  BY <1>1, <2>1, <2>2
  <2>4. Ok(i - 1)  BY <2>3
  <2>. QED  BY <1>7, <2>1, <2>3, <2>4
<1>9. H \subseteq g[n]
  <2> SUFFICES ASSUME NEW h \in H  PROVE h \in g[n]
    OBVIOUS
  <2>1. h <= Base + 64 * n  BY <1>1, <1>5
  <2>. QED  BY <1>8, <2>1
<1>. QED  BY <1>3, <1>8, <1>9

----------------------------------------------------------------------------
(* What the user holds.                                                    *)

\* The pointers in w are those of the blocks in use, with the sizes asked for.
Held(s, w) ==
    /\ w = [p \in DOMAIN w |-> w[p]] /\ DOMAIN w = {Ptr(h) : h \in s.used}
    /\ \A h \in s.used :
          /\ h \in Nat /\ h % B = 0
          /\ w[Ptr(h)] <= W - 8 => Payload(s, h) >= w[Ptr(h)]

LEMMA PtrsDiffer == \A g, h \in Nat : Ptr(g) = Ptr(h) => g = h
<1> SUFFICES ASSUME NEW g \in Nat, NEW h \in Nat, Ptr(g) = Ptr(h)  PROVE g = h
  OBVIOUS
<1>1. Head_Of(Ptr(g)) = g /\ Head_Of(Ptr(h)) = h  BY Sizes
<1>. QED  BY <1>1

\* After an allocation, a release and a resize in place.
LEMMA HeldMalloc ==
  ASSUME NEW s, NEW w, Held(s, w), NEW h \in Nat, h % B = 0, h \notin s.used,
         NEW u, Moved(u, s, s.used \cup {h}, h),
         NEW n \in 0..(W - 1), Payload(u, h) >= Rounded(n)
  PROVE  Held(u, Write(w, Ptr(h), n))
<1> DEFINE v == Write(w, Ptr(h), n)
<1>1. u.used = s.used \cup {h} /\ \A x \in s.used : u.tail[x] = s.tail[x]  BY DEF Moved
<1>2. /\ v = [p \in DOMAIN v |-> v[p]] /\ DOMAIN v = DOMAIN w \cup {Ptr(h)}
      /\ v[Ptr(h)] = n /\ \A p \in DOMAIN w : p # Ptr(h) => v[p] = w[p]
  BY DEF Write
<1> HIDE DEF v
<1>3. DOMAIN v = {Ptr(x) : x \in u.used}  BY <1>1, <1>2 DEF Held
<1>4. ASSUME NEW x \in u.used
      PROVE  /\ x \in Nat /\ x % B = 0
             /\ v[Ptr(x)] <= W - 8 => Payload(u, x) >= v[Ptr(x)]
  <2>1. CASE x = h
    <3>1. n <= W - 8 => n <= Rounded(n)  BY RoundedFacts
    <3>2. Rounded(n) \in Nat /\ Rounded(n) \in Int /\ n \in Int /\ W \in Nat
      <4>1. Rounded(n) \in 64..(W - 1)  BY RoundedFacts
      <4>. QED  BY <4>1, Words
    <3>3. Payload(u, h) \in Int
      <4>1. PICK G : Sound(u, G)  BY DEF Moved
      <4>2. h \in G /\ Tiles(u, G)  BY <1>1, <4>1 DEF Sound
      <4>3. Payload(u, h) \in 64..(PoolSize - Mem_Size)  BY <4>2, BlockSize
      <4>. QED  BY <4>3
    <3>. QED  BY <1>2, <2>1, <3>1, <3>2, <3>3
  <2>2. CASE x # h
    <3>1. x \in s.used /\ x \in Nat /\ x % B = 0  BY <1>1, <2>2 DEF Held
    <3>2. Ptr(x) # Ptr(h) /\ Ptr(x) \in DOMAIN w  BY <2>2, <3>1, PtrsDiffer DEF Held
    <3>3. v[Ptr(x)] = w[Ptr(x)]  BY <1>2, <3>2
    <3>4. Payload(u, x) = Payload(s, x)  BY <1>1, <3>1 DEF Payload
    <3>. QED  BY <3>1, <3>3, <3>4 DEF Held
  <2>. QED  BY <2>1, <2>2
<1>5. Held(u, v)  BY <1>2, <1>3, <1>4 DEF Held
<1>. QED  BY <1>5 DEF v

LEMMA HeldFree ==
  ASSUME NEW s, NEW w, Held(s, w), NEW h \in s.used,
         NEW u, Moved(u, s, s.used \ {h}, h)
  PROVE  Held(u, Restrict(w, DOMAIN w \ {Ptr(h)}))
<1> DEFINE v == Restrict(w, DOMAIN w \ {Ptr(h)})
<1>1. u.used = s.used \ {h} /\ \A x \in s.used \ {h} : u.tail[x] = s.tail[x]  BY DEF Moved
<1>2. /\ v = [p \in DOMAIN v |-> v[p]] /\ DOMAIN v = DOMAIN w \ {Ptr(h)}
      /\ \A p \in DOMAIN v : v[p] = w[p]
  BY DEF Restrict
<1> HIDE DEF v
<1>3. \A x \in u.used : x \in s.used /\ x \in Nat /\ Ptr(x) # Ptr(h)
  BY <1>1, PtrsDiffer DEF Held
<1>4. DOMAIN v = {Ptr(x) : x \in u.used}
  BY <1>1, <1>2, <1>3 DEF Held
<1>5. ASSUME NEW x \in u.used
      PROVE  /\ x \in Nat /\ x % B = 0
             /\ v[Ptr(x)] <= W - 8 => Payload(u, x) >= v[Ptr(x)]
  <2>1. x \in s.used /\ x \in Nat /\ x % B = 0  BY <1>3 DEF Held
  <2>2. v[Ptr(x)] = w[Ptr(x)]  BY <1>2, <1>4
  <2>3. Payload(u, x) = Payload(s, x)  BY <1>1 DEF Payload
  <2>. QED  BY <2>1, <2>2, <2>3 DEF Held
<1>6. Held(u, v)  BY <1>2, <1>4, <1>5 DEF Held
<1>. QED  BY <1>6 DEF v

LEMMA HeldResize ==
  ASSUME NEW s, NEW w, Held(s, w), NEW h \in s.used,
         NEW u, Moved(u, s, s.used, h),
         NEW n \in 0..(W - 1), Payload(u, h) >= Rounded(n)
  PROVE  Held(u, Write(Restrict(w, DOMAIN w \ {Ptr(h)}), Ptr(h), n))
<1> DEFINE v == Write(Restrict(w, DOMAIN w \ {Ptr(h)}), Ptr(h), n)
<1>1. u.used = s.used /\ \A x \in s.used \ {h} : u.tail[x] = s.tail[x]  BY DEF Moved
<1>2. h \in Nat /\ h % B = 0 /\ Ptr(h) \in DOMAIN w  BY DEF Held
<1>3. /\ v = [p \in DOMAIN v |-> v[p]] /\ DOMAIN v = DOMAIN w
      /\ v[Ptr(h)] = n /\ \A p \in DOMAIN w : p # Ptr(h) => v[p] = w[p]
  BY <1>2 DEF Write, Restrict
<1> HIDE DEF v
<1>4. DOMAIN v = {Ptr(x) : x \in u.used}  BY <1>1, <1>3 DEF Held
<1>5. ASSUME NEW x \in u.used
      PROVE  /\ x \in Nat /\ x % B = 0
             /\ v[Ptr(x)] <= W - 8 => Payload(u, x) >= v[Ptr(x)]
  <2>1. CASE x = h
    <3>1. n <= W - 8 => n <= Rounded(n)  BY RoundedFacts
    <3>2. Rounded(n) \in Int /\ n \in Int /\ W \in Nat
      <4>1. Rounded(n) \in 64..(W - 1)  BY RoundedFacts
      <4>. QED  BY <4>1, Words
    <3>3. Payload(u, h) \in Int
      <4>1. PICK G : Sound(u, G)  BY DEF Moved
      <4>2. h \in G /\ Tiles(u, G)  BY <1>1, <4>1 DEF Sound
      <4>3. Payload(u, h) \in 64..(PoolSize - Mem_Size)  BY <4>2, BlockSize
      <4>. QED  BY <4>3
    <3>. QED  BY <1>2, <1>3, <2>1, <3>1, <3>2, <3>3
  <2>2. CASE x # h
    <3>1. x \in s.used /\ x \in Nat /\ x % B = 0  BY <1>1 DEF Held
    <3>2. Ptr(x) # Ptr(h) /\ Ptr(x) \in DOMAIN w  BY <1>2, <2>2, <3>1, PtrsDiffer DEF Held
    <3>3. v[Ptr(x)] = w[Ptr(x)]  BY <1>3, <3>2
    <3>4. Payload(u, x) = Payload(s, x)  BY <1>1, <2>2, <3>1 DEF Payload
    <3>. QED  BY <3>1, <3>3, <3>4 DEF Held
  <2>. QED  BY <2>1, <2>2
<1>6. Held(u, v)  BY <1>3, <1>4, <1>5 DEF Held
<1>. QED  BY <1>6 DEF v

----------------------------------------------------------------------------
(* The invariant.                                                          *)

MemIInv == \E H : Sound(m, H) /\ Apart(m, H) /\ Held(m, user)

LEMMA MemInitInv == MemInit => MemIInv
<1> DEFINE size == PoolSize - Base
           v == Mem_Block(Empty_Pool, Base, size)
           u == Mem_Ins(v, Base)
<1>1. /\ Base \in Nat /\ Base % B = 0 /\ Base + Block_Min <= PoolSize
      /\ PoolSize \in Nat /\ PoolSize % B = 0
  BY BaseFacts, Words
<1>2. size \in Nat /\ size >= Tail_Size /\ PoolSize = Base + size  BY <1>1, Sizes
<1>3. Memory(Empty_Pool) /\ Empty_Pool.used = {} /\ Empty_Pool.bitmap = {}
      /\ \A l \in Levels : Empty_Pool.table[l] = <<>>
  BY DEF Memory, Empty_Pool
<1>4. Written(v, Empty_Pool, Base, PoolSize - Tail_Size)
  <2>1. Base + size - Tail_Size = PoolSize - Tail_Size  BY <1>1, <1>2, Sizes
  <2> HIDE DEF size
  <2>2. Written(v, Empty_Pool, Base, Base + size - Tail_Size)  BY <1>1, <1>2, <1>3, BlockFields
  <2>. QED  BY <2>1, <2>2
<1> HIDE DEF v, size
<1>5. Memory(v) /\ v.used = {} /\ v.bitmap = {} /\ \A l \in Levels : v.table[l] = <<>>
  BY <1>3, <1>4 DEF Written
<1>6. Payload(v, Base) >= 64 /\ End(v, Base) = PoolSize
  BY <1>1, <1>4, Sizes DEF Written, Payload, End
<1>7. Tiles(v, {Base})
  BY <1>1, <1>4, <1>6 DEF Tiles, Written
<1>8. Filed(v, {})
  <2>1. ToSet(<<>>) = {} /\ IsInjective(<<>>)  BY DEF ToSet, IsInjective
  <2>. QED  BY <1>5, <2>1 DEF Filed
<1>9. SameBlocks(u, v) /\ Filed(u, {Base})
  <2>1. Level(Payload(v, Base)) \in Levels  BY <1>7, BlockSize
  <2>2. SameBlocks(u, v) /\ Filed(u, {} \cup {Base})  BY <1>1, <1>5, <1>8, <2>1, InsStep
  <2>. QED  BY <2>2
<1> HIDE DEF u
<1>10. Memory(u) /\ u.used = {} /\ Tiles(u, {Base}) /\ End(u, Base) = PoolSize
  BY <1>5, <1>6, <1>7, <1>9, TilesFrame DEF SameBlocks, End
<1>11. Sound(u, {Base})
  <2>1. {Base} \ u.used = {Base}  BY <1>10
  <2>. QED  BY <1>9, <1>10, <2>1 DEF Sound
<1>12. Apart(u, {Base})
  <2>1. PoolSize # Base  BY <1>1, Sizes
  <2>. QED  BY <1>10, <2>1 DEF Apart
<1>13. Held(u, <<>>)  BY <1>10 DEF Held
<1>. QED  BY <1>11, <1>12, <1>13 DEF MemInit, MemIInv, u, v, size

\* RMP_Realloc that moves: the new block is allocated before the old is freed.
LEMMA MoveStep ==
  ASSUME NEW s, NEW H, Sound(s, H), Apart(s, H), NEW w, Held(s, w),
         NEW h \in s.used, NEW n \in 0..(W - 1),
         NEW new, Given(new, s, H, Rounded(n))
  PROVE  /\ \E G : Sound(Free(new.pool, Ptr(h)), G) /\ Apart(Free(new.pool, Ptr(h)), G)
         /\ Held(Free(new.pool, Ptr(h)),
                 Write(Restrict(w, DOMAIN w \ {Ptr(h)}), new.ptr, n))
<1> DEFINE u == Free(new.pool, Ptr(h))
           r == new.pool
<1>1. PICK g \in H \ s.used : /\ g \in Nat /\ g % B = 0 /\ new.ptr = Ptr(g)
                              /\ Moved(r, s, s.used \cup {g}, g)
                              /\ Payload(r, g) >= Rounded(Rounded(n))
  BY DEF Given
<1>2. Rounded(Rounded(n)) = Rounded(n)  BY RoundedFacts
<1>3. Held(r, Write(w, Ptr(g), n))  BY <1>1, <1>2, HeldMalloc
<1>4. h \in r.used  BY <1>1 DEF Moved
<1>5. PICK G : Sound(r, G) /\ Apart(r, G)  BY <1>1 DEF Moved
<1>6. Moved(u, r, r.used \ {h}, h)  BY <1>4, <1>5, FreeStep
<1>7. Held(u, Restrict(Write(w, Ptr(g), n), DOMAIN Write(w, Ptr(g), n) \ {Ptr(h)}))
  BY <1>3, <1>4, <1>6, HeldFree
<1>8. Ptr(g) # Ptr(h)
  <2>1. h \in Nat /\ g # h  BY <1>1 DEF Held
  <2>. QED  BY <1>1, <2>1, PtrsDiffer
<1>9. Restrict(Write(w, Ptr(g), n), DOMAIN Write(w, Ptr(g), n) \ {Ptr(h)})
      = Write(Restrict(w, DOMAIN w \ {Ptr(h)}), Ptr(g), n)
  BY <1>8 DEF Restrict, Write
<1>10. \E F : Sound(u, F) /\ Apart(u, F)  BY <1>6 DEF Moved
<1>. QED  BY <1>1, <1>7, <1>9, <1>10

LEMMA MemNextInv == MemIInv /\ [MemNext]_mvars => MemIInv'
<1> SUFFICES ASSUME MemIInv, [MemNext]_mvars  PROVE MemIInv'
  OBVIOUS
<1>1. PICK H : Sound(m, H) /\ Apart(m, H) /\ Held(m, user)  BY DEF MemIInv
<1>2. /\ \A h \in m.used : h \in Nat /\ Ptr(h) # NULL /\ Head_Of(Ptr(h)) = h
      /\ DOMAIN user = {Ptr(h) : h \in m.used}
  BY <1>1, Sizes DEF Held
<1>3. \A u, w : m' = u /\ user' = w /\ (\E G : Sound(u, G) /\ Apart(u, G)) /\ Held(u, w)
         => MemIInv'
  BY DEF MemIInv
<1>4. CASE UNCHANGED mvars
  <2>1. m' = m /\ user' = user  BY <1>4 DEF mvars
  <2>. QED  BY <1>1, <1>3, <2>1
<1>5. ASSUME NEW n \in 0..(W - 1),
             m' = Malloc(m, n).pool,
             user' = IF Malloc(m, n).ptr = NULL THEN user
                     ELSE Write(user, Malloc(m, n).ptr, n)
      PROVE  MemIInv'
  <2> DEFINE r == Malloc(m, n)
  <2>1. CASE n = 0 \/ Mem_Search(m, Rounded(n)) = {}
    <3>1. r.ptr = NULL /\ r.pool = m  BY <1>1, <2>1, MallocStep
    <3>. QED  BY <1>1, <1>3, <1>5, <3>1
  <2>2. CASE ~(n = 0 \/ Mem_Search(m, Rounded(n)) = {})
    <3>1. Given(r, m, H, n)  BY <1>1, <2>2, MallocStep
    <3> HIDE DEF r
    <3>2. PICK h \in H \ m.used : /\ h \in Nat /\ h % B = 0 /\ r.ptr = Ptr(h)
                                  /\ Moved(r.pool, m, m.used \cup {h}, h)
                                  /\ Payload(r.pool, h) >= Rounded(n)
      BY <3>1 DEF Given
    <3>3. Held(r.pool, Write(user, Ptr(h), n))  BY <1>1, <3>2, HeldMalloc
    <3>4. r.ptr # NULL  BY <3>2, Sizes
    <3>5. m' = r.pool /\ user' = Write(user, Ptr(h), n)  BY <1>5, <3>2, <3>4 DEF r
    <3>6. \E G : Sound(r.pool, G) /\ Apart(r.pool, G)  BY <3>2 DEF Moved
    <3>. QED  BY <1>3, <3>3, <3>5, <3>6
  <2>. QED  BY <2>1, <2>2
<1>6. ASSUME NEW p \in DOMAIN user, m' = Free(m, p), user' = Without(p)
      PROVE  MemIInv'
  <2>1. PICK h \in m.used : p = Ptr(h)  BY <1>2
  <2>2. Moved(Free(m, p), m, m.used \ {h}, h)  BY <1>1, <2>1, FreeStep
  <2>3. Held(Free(m, p), Without(p))
    <3>1. Held(Free(m, p), Restrict(user, DOMAIN user \ {Ptr(h)}))  BY <1>1, <2>2, HeldFree
    <3>. QED  BY <2>1, <3>1 DEF Without
  <2>4. \E G : Sound(Free(m, p), G) /\ Apart(Free(m, p), G)  BY <2>2 DEF Moved
  <2>. QED  BY <1>3, <1>6, <2>3, <2>4
<1>7. ASSUME NEW n \in 0..(W - 1), Do_Malloc(n)  PROVE MemIInv'
  BY <1>5, <1>7 DEF Do_Malloc
<1>8. ASSUME NEW n \in 0..(W - 1), NEW p \in DOMAIN user \cup {NULL}, Do_Realloc(p, n)
      PROVE  MemIInv'
  <2> DEFINE r == Realloc(m, p, n)
             h == Head_Of(p)
             new == Malloc(m, Rounded(n))
  <2>1. /\ m' = r.pool
        /\ user' = IF p # NULL /\ n = 0 THEN Without(p)
                   ELSE IF r.ptr = NULL THEN user
                   ELSE Write(Without(p), r.ptr, n)
    BY <1>8 DEF Do_Realloc
  <2>2. CASE p = NULL
    <3>1. r = Malloc(m, n)  BY <2>2 DEF Realloc
    <3>2. Without(NULL) = user
      <4>1. NULL \notin DOMAIN user  BY <1>2
      <4>2. DOMAIN user \ {NULL} = DOMAIN user  BY <4>1
      <4>3. user = [x \in DOMAIN user |-> user[x]]  BY <1>1 DEF Held
      <4>. QED  BY <4>2, <4>3 DEF Without, Restrict
    <3> HIDE DEF r
    <3>3. user' = IF r.ptr = NULL THEN user ELSE Write(user, r.ptr, n)
      BY <2>1, <2>2, <3>2
    <3>. QED  BY <1>5, <2>1, <3>1, <3>3
  <2>3. CASE p # NULL
    <3>1. p \in DOMAIN user /\ h \in m.used /\ p = Ptr(h) /\ h \in Nat
      <4>1. PICK x \in m.used : p = Ptr(x)  BY <1>2, <2>3
      <4>. QED  BY <1>2, <2>3, <4>1
    <3>2. r = IF n = 0 THEN [pool |-> Free(m, p), ptr |-> NULL]
              ELSE IF Fits(m, h, Rounded(n)) THEN [pool |-> Resize(m, h, Rounded(n)), ptr |-> p]
              ELSE IF new.ptr = NULL THEN [pool |-> m, ptr |-> NULL]
              ELSE [pool |-> Free(new.pool, p), ptr |-> new.ptr]
      BY <2>3 DEF Realloc
    <3> HIDE DEF r, h
    <3>3. CASE n = 0
      <4>1. m' = Free(m, p) /\ user' = Without(p)  BY <2>1, <2>3, <3>2, <3>3
      <4>. QED  BY <1>6, <3>1, <4>1
    <3>4. CASE n # 0 /\ Fits(m, h, Rounded(n))
      <4> DEFINE u == Resize(m, h, Rounded(n))
      <4>1. r.pool = u /\ r.ptr = p  BY <3>2, <3>4
      <4>2. user' = Write(Without(p), p, n)  BY <2>1, <2>3, <3>4, <4>1
      <4>3. /\ Rounded(n) \in Nat /\ Rounded(n) >= 64 /\ Rounded(n) % B = 0
        <5>1. Rounded(n) \in 64..(W - 1) /\ Rounded(n) % B = 0  BY RoundedFacts
        <5>. QED  BY <5>1, Words
      <4>4. Moved(u, m, m.used, h) /\ Payload(u, h) >= Rounded(n)
        BY <1>1, <3>1, <3>4, <4>3, ResizeStep
      <4> HIDE DEF u
      <4>5. Held(u, Write(Without(p), p, n))
        <5>1. Held(u, Write(Restrict(user, DOMAIN user \ {Ptr(h)}), Ptr(h), n))
          BY <1>1, <3>1, <4>4, HeldResize
        <5>. QED  BY <3>1, <5>1 DEF Without
      <4>6. \E G : Sound(u, G) /\ Apart(u, G)  BY <4>4 DEF Moved
      <4>. QED  BY <1>3, <2>1, <4>1, <4>2, <4>5, <4>6
    <3>5. CASE n # 0 /\ ~Fits(m, h, Rounded(n)) /\ new.ptr = NULL
      <4>1. m' = m /\ user' = user  BY <2>1, <3>2, <3>5
      <4>. QED  BY <1>1, <1>3, <4>1
    <3>6. CASE n # 0 /\ ~Fits(m, h, Rounded(n)) /\ new.ptr # NULL
      <4>1. Rounded(n) \in 0..(W - 1)
        <5>1. Rounded(n) \in 64..(W - 1)  BY RoundedFacts
        <5>. QED  BY <5>1, Words
      <4>2. Given(new, m, H, Rounded(n))
        <5> HIDE DEF MemIInv
        <5>1. IF Rounded(n) = 0 \/ Mem_Search(m, Rounded(Rounded(n))) = {}
              THEN new.ptr = NULL /\ new.pool = m
              ELSE Given(new, m, H, Rounded(n))
          BY <1>1, <4>1, MallocStep
        <5>. QED  BY <3>6, <5>1
      <4> HIDE DEF new
      <4>3. /\ \E G : Sound(Free(new.pool, p), G) /\ Apart(Free(new.pool, p), G)
            /\ Held(Free(new.pool, p), Write(Without(p), new.ptr, n))
        <5>1. Without(p) = Restrict(user, DOMAIN user \ {Ptr(h)})  BY <3>1 DEF Without
        <5>. QED  BY <1>1, <3>1, <4>2, <5>1, MoveStep
      <4>4. m' = Free(new.pool, p) /\ user' = Write(Without(p), new.ptr, n)
        BY <2>1, <2>3, <3>2, <3>6
      <4>. QED  BY <1>3, <4>3, <4>4
    <3>. QED  BY <3>3, <3>4, <3>5, <3>6
  <2>. QED  BY <2>2, <2>3
<1>9. CASE MemNext
  <2>1. PICK n \in Requests :
           \/ Do_Malloc(n)
           \/ \E p \in DOMAIN user : Do_Free(p)
           \/ \E p \in DOMAIN user \cup {NULL} : Do_Realloc(p, n)
    BY <1>9 DEF MemNext
  <2>2. n \in 0..(W - 1)  BY MemAssumption
  <2>3. CASE Do_Malloc(n)  BY <1>7, <2>2, <2>3
  <2>4. CASE \E p \in DOMAIN user : Do_Free(p)  BY <1>6, <2>4 DEF Do_Free
  <2>5. CASE \E p \in DOMAIN user \cup {NULL} : Do_Realloc(p, n)  BY <1>8, <2>2, <2>5
  <2>. QED  BY <2>1, <2>3, <2>4, <2>5
<1>. QED  BY <1>4, <1>9

\* However allocations, releases and resizes follow each other, the pool is at
\* rest between them.
THEOREM MemInvariance == MemSpec => []MemIInv
<1>. QED  BY MemInitInv, MemNextInv, PTL DEF MemSpec

\* The invariant in the terms of the properties.
LEMMA MemIInvBlocks ==
  MemIInv => Sound(m, Blocks) /\ Apart(m, Blocks) /\ Held(m, user)
<1> SUFFICES ASSUME MemIInv  PROVE Sound(m, Blocks) /\ Apart(m, Blocks) /\ Held(m, user)
  OBVIOUS
<1>1. PICK H : Sound(m, H) /\ Apart(m, H) /\ Held(m, user)  BY DEF MemIInv
<1>2. Blocks = H
  <2>1. Tiles(m, H)  BY <1>1 DEF Sound
  <2>. QED  BY <2>1, BlocksAre
<1>. QED  BY <1>1, <1>2

\* The blocks tile the pool, heads and tails point to each other, and the free
\* lists and the bitmap hold exactly the free blocks, each in its class.
THEOREM PoolCorrect == MemSpec => []PoolExact
<1>1. MemIInv => PoolExact
  <2> SUFFICES ASSUME MemIInv  PROVE PoolExact
    OBVIOUS
  <2>1. Sound(m, Blocks)  BY MemIInvBlocks
  <2>2. Tiles(m, Blocks) /\ Filed(m, Free_Blocks)  BY <2>1 DEF Sound, Free_Blocks
  <2> HIDE DEF Blocks, Free_Blocks
  <2>3. \A h \in Blocks : /\ m.back[m.tail[h]] = h /\ Payload(m, h) >= 64
                          /\ End(m, h) \in Blocks \cup {PoolSize}
    BY <2>2 DEF Tiles
  <2>4. \A l \in Levels :
           /\ ToSet(m.table[l]) = {h \in Free_Blocks : Level(Payload(m, h)) = l}
           /\ IsInjective(m.table[l])
           /\ l \in m.bitmap <=> m.table[l] # <<>>
    BY <2>2 DEF Filed
  <2>. QED  BY <2>3, <2>4 DEF PoolExact
<1>. QED  BY <1>1, MemInvariance, PTL

\* No two free blocks are neighbours.
THEOREM CoalescedCorrect == MemSpec => []Coalesced
<1>1. MemIInv => Coalesced
  BY MemIInvBlocks DEF Coalesced, Apart, Free_Blocks
<1>. QED  BY <1>1, MemInvariance, PTL

\* What the user holds are exactly the used blocks, each aligned and at least
\* as large as asked for.
THEOREM AllocCorrect == MemSpec => []AllocSound
<1>1. MemIInv => AllocSound
  <2> SUFFICES ASSUME MemIInv  PROVE AllocSound
    OBVIOUS
  <2>1. Sound(m, Blocks) /\ Held(m, user)  BY MemIInvBlocks
  <2>2. m.used \subseteq Blocks  BY <2>1 DEF Sound
  <2> HIDE DEF Blocks
  <2>3. \A h \in m.used : /\ h \in Nat /\ h % B = 0 /\ Head_Of(Ptr(h)) = h /\ Ptr(h) % B = 0
    BY <2>1, Sizes DEF Held
  <2>4. DOMAIN user = {Ptr(h) : h \in m.used}  BY <2>1 DEF Held
  <2>5. {Head_Of(p) : p \in DOMAIN user} = Blocks \cap m.used
    BY <2>2, <2>3, <2>4
  <2>6. ASSUME NEW p \in DOMAIN user
        PROVE  p % B = 0 /\ (user[p] <= W - 8 => Payload(m, Head_Of(p)) >= user[p])
    <3>1. PICK h \in m.used : p = Ptr(h)  BY <2>4
    <3>. QED  BY <2>1, <2>3, <3>1 DEF Held
  <2>. QED  BY <2>5, <2>6 DEF AllocSound
<1>. QED  BY <1>1, MemInvariance, PTL

\* An allocation fails only if every free block is smaller than the rounded
\* size, itself rounded up to the unit of its class.
THEOREM ScarceCorrect == MemSpec => []FailsOnlyIfScarce
<1>1. MemIInv => FailsOnlyIfScarce
  <2> SUFFICES ASSUME MemIInv, NEW n \in Requests \ {0}, Malloc(m, n).ptr = NULL,
                      NEW h \in Free_Blocks
               PROVE  Payload(m, h) < ((Rounded(n) + Unit(Rounded(n)) - 1)
                                       \div Unit(Rounded(n))) * Unit(Rounded(n))
    BY DEF FailsOnlyIfScarce
  <2>1. Sound(m, Blocks) /\ Apart(m, Blocks) /\ h \in Blocks \ m.used
    BY MemIInvBlocks DEF Free_Blocks
  <2>2. n \in 0..(W - 1) /\ n # 0  BY MemAssumption
  <2> HIDE DEF Blocks
  <2>3. Rounded(n) \in 64..(W - 1)  BY <2>2, RoundedFacts
  <2>4. Mem_Search(m, Rounded(n)) = {}
    <3> SUFFICES ASSUME Mem_Search(m, Rounded(n)) # {}  PROVE FALSE
      OBVIOUS
    <3>1. Given(Malloc(m, n), m, Blocks, n)  BY <2>1, <2>2, MallocStep
    <3>2. PICK g \in Nat : Malloc(m, n).ptr = Ptr(g)  BY <3>1 DEF Given
    <3>. QED  BY <3>2, Sizes
  <2>. QED  BY <2>1, <2>3, <2>4, SearchFails
<1>. QED  BY <1>1, MemInvariance, PTL

============================================================================
