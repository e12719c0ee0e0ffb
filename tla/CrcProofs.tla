------------------------------- MODULE CrcProofs -------------------------------
(***************************************************************************)
(* Proofs about the two checksums, for messages of any length: each loop   *)
(* divides the message by its generator, and what damage the CRC16 must    *)
(* notice.                                                                 *)
(*                                                                         *)
(* A loop that is written as a recursive function f is, to the prover,     *)
(* CHOOSE f : f = [i \in 0 .. n |-> ... f[i - 1] ...].  Iterate says that   *)
(* there is such an f, and IntervalInduction what all its values have in   *)
(* common; both come from the well-foundedness of the natural numbers.     *)
(***************************************************************************)
EXTENDS BootCrc, WellFoundedInduction, SequenceTheorems, TLAPS

-------------------------------------------------------------------------------
(* Induction and iteration, over sets and functions.                       *)

LEMMA Least ==
  ASSUME NEW T \in SUBSET Nat, T # {}
  PROVE  \E x \in T : \A y \in T : x <= y
<1> DEFINE Less == OpToRel(<, Nat)
<1>1. \E x \in T : \A y \in T : ~ (<<y, x>> \in Less)
  BY NatLessThanWellFounded, WFMin, Zenon
<1>2. \A x, y \in Nat : y < x => <<y, x>> \in Less
  BY Zenon DEF OpToRel
<1>3. PICK x \in T : \A y \in T : ~ (<<y, x>> \in Less)
  BY <1>1
<1> HIDE DEF Less
<1>4. \A y \in T : ~ (y < x)
  BY <1>2, <1>3
<1>5. \A y \in T : x <= y
  BY <1>4
<1> QED BY <1>5

LEMMA Induction ==
  ASSUME NEW S, 0 \in S, \A n \in Nat : n \in S => n + 1 \in S
  PROVE  Nat \subseteq S
<1> DEFINE T == Nat \ S
<1>1. SUFFICES ASSUME T # {} PROVE FALSE
  OBVIOUS
<1>2. PICK x \in T : \A y \in T : x <= y
  BY <1>1, Least
<1>3. x # 0 /\ x - 1 \in Nat /\ x - 1 \notin T
  BY <1>2
<1> QED BY <1>2, <1>3

LEMMA IntervalInduction ==
  ASSUME NEW n \in Nat, NEW S, 0 \in S, \A i \in 1 .. n : i - 1 \in S => i \in S
  PROVE  0 .. n \subseteq S
<1> DEFINE T == S \cup {m \in Nat : m > n}
<1>1. 0 \in T
  OBVIOUS
<1>2. ASSUME NEW m \in Nat, m \in T PROVE m + 1 \in T
  <2>1. CASE m + 1 > n
    BY <2>1
  <2>2. CASE ~ (m + 1 > n)
    <3>1. m + 1 \in 1 .. n /\ m \in S
      BY <1>2, <2>2
    <3> QED BY <3>1
  <2> QED BY <2>1, <2>2
<1>3. Nat \subseteq T
  BY <1>1, <1>2, Induction
<1> QED BY <1>3

\* f is what the n steps next[1], next[2], ... make of a.
Iterates(f, n, T, a, next) ==
  f \in [0 .. n -> T] /\ f[0] = a /\ \A i \in 1 .. n : f[i] = next[i][f[i - 1]]

\* n steps, each a function of its own, can be taken one after the other.
LEMMA Iterate ==
  ASSUME NEW n \in Nat, NEW T, NEW a \in T, NEW next \in [1 .. n -> [T -> T]]
  PROVE  \E f : Iterates(f, n, T, a, next)
<1> DEFINE Run(f, k) == f \in [0 .. k -> T] /\ f[0] = a /\ \A i \in 1 .. k : f[i] = next[i][f[i - 1]]
           Reached == {k \in 0 .. n : \E f : Run(f, k)}
<1>1. 0 \in Reached
  <2>1. Run([i \in 0 .. 0 |-> a], 0)
    OBVIOUS
  <2> HIDE DEF Run
  <2> QED BY <2>1
<1>2. ASSUME NEW k \in 1 .. n, k - 1 \in Reached PROVE k \in Reached
  <2>1. PICK f : Run(f, k - 1)
    BY <1>2
  <2> DEFINE g == [i \in 0 .. k |-> IF i = k THEN next[k][f[k - 1]] ELSE f[i]]
  <2>2. next[k][f[k - 1]] \in T
    <3>1. f[k - 1] \in T /\ next[k] \in [T -> T]
      BY <2>1
    <3> QED BY <3>1
  <2>3. g \in [0 .. k -> T] /\ g[0] = a
    BY <2>1, <2>2
  <2>4. ASSUME NEW i \in 1 .. k PROVE g[i] = next[i][g[i - 1]]
    BY <2>1
  <2>5. Run(g, k)
    BY <2>3, <2>4
  <2> HIDE DEF Run, g
  <2> QED BY <2>5
<1>3. n \in Reached
  <2> HIDE DEF Reached
  <2>1. 0 .. n \subseteq Reached
    BY <1>1, <1>2, IntervalInduction
  <2> QED BY <2>1
<1> QED BY <1>3 DEF Iterates

LEMMA TypedRun ==
  ASSUME NEW n \in Nat, NEW T, NEW f, f = [i \in 0 .. n |-> f[i]], f[0] \in T,
         \A i \in 1 .. n : f[i - 1] \in T => f[i] \in T
  PROVE  f \in [0 .. n -> T]
<1> DEFINE Typed == {i \in 0 .. n : f[i] \in T}
<1>1. 0 \in Typed /\ \A i \in 1 .. n : i - 1 \in Typed => i \in Typed
  OBVIOUS
<1> HIDE DEF Typed
<1>2. 0 .. n \subseteq Typed
  BY <1>1, IntervalInduction
<1>3. \A i \in 0 .. n : f[i] \in T
  BY <1>2 DEF Typed
<1> QED BY <1>3

-------------------------------------------------------------------------------
Shifted(c, s) == {b + s : b \in c}

LEMMA InXor == ASSUME NEW a, NEW b, NEW x PROVE x \in BitXor(a, b) <=> ~ (x \in a <=> x \in b)
BY DEF BitXor

LEMMA InShifted ==
  ASSUME NEW c \in SUBSET Int, NEW s \in Int, NEW x \in Int
  PROVE  x \in Shifted(c, s) <=> x - s \in c
<1>1. ASSUME x \in Shifted(c, s) PROVE x - s \in c
  BY <1>1 DEF Shifted
<1>2. ASSUME x - s \in c PROVE x \in Shifted(c, s)
  <2>1. x = (x - s) + s
    OBVIOUS
  <2> QED BY <1>2, <2>1 DEF Shifted
<1> QED BY <1>1, <1>2

LEMMA ShiftedType ==
  ASSUME NEW c \in SUBSET Int, NEW s \in Int
  PROVE  Shifted(c, s) \in SUBSET Int
BY DEF Shifted

LEMMA XorType ==
  ASSUME NEW S, NEW a \in SUBSET S, NEW b \in SUBSET S
  PROVE  BitXor(a, b) \in SUBSET S
BY DEF BitXor

LEMMA InShiftLeft ==
  ASSUME NEW w \in Nat, NEW c \in SUBSET (0 .. w - 1), NEW n \in Nat, NEW x \in Int
  PROVE  x \in ShiftLeft(c, n, w) <=> x - n \in c /\ x < w
<1>1. ASSUME x \in ShiftLeft(c, n, w) PROVE x - n \in c /\ x < w
  BY <1>1 DEF ShiftLeft
<1>2. ASSUME x - n \in c, x < w PROVE x \in ShiftLeft(c, n, w)
  <2>1. x = (x - n) + n /\ x - n \in {k \in c : k + n < w}
    BY <1>2
  <2> QED BY <2>1 DEF ShiftLeft
<1> QED BY <1>1, <1>2

LEMMA ShiftLeftType ==
  ASSUME NEW w \in Nat, NEW c \in SUBSET (0 .. w - 1), NEW n \in Nat
  PROVE  ShiftLeft(c, n, w) \in SUBSET (0 .. w - 1)
BY DEF ShiftLeft

-------------------------------------------------------------------------------
LeftBit(c, g, w) == IF w - 1 \in c THEN BitXor(ShiftLeft(c, 1, w), g) ELSE ShiftLeft(c, 1, w)

Divide(r, e, generator, degree) ==
  IF e \in r THEN BitXor(r, {g + e - degree : g \in generator}) ELSE r

LEMMA LeftBitType ==
  ASSUME NEW w \in Nat, NEW c \in SUBSET (0 .. w - 1), NEW g \in SUBSET (0 .. w - 1)
  PROVE  LeftBit(c, g, w) \in SUBSET (0 .. w - 1)
<1>1. ShiftLeft(c, 1, w) \in SUBSET (0 .. w - 1)
  BY ShiftLeftType
<1>2. BitXor(ShiftLeft(c, 1, w), g) \in SUBSET (0 .. w - 1)
  BY <1>1 DEF BitXor
<1> QED BY <1>1, <1>2 DEF LeftBit

LEMMA BitStep ==
  ASSUME NEW w \in Nat \ {0}, NEW s \in Nat, NEW c \in SUBSET (0 .. w - 1), NEW g \in SUBSET (0 .. w - 1),
         NEW low \in SUBSET Int, \A x \in low : x < s + w
  PROVE  Divide(BitXor(Shifted(c, s + 1), low), s + w, {w} \cup g, w)
           = BitXor(Shifted(LeftBit(c, g, w), s), low)
<1> DEFINE r == BitXor(Shifted(c, s + 1), low)
           d == {h + (s + w) - w : h \in {w} \cup g}
           left == LeftBit(c, g, w)
<1>1. c \in SUBSET Int /\ g \in SUBSET Int /\ left \in SUBSET Int
  <2>1. left \in SUBSET (0 .. w - 1)
    BY LeftBitType
  <2> QED BY <2>1
<1>2. \A x \in Int : x \in r <=> ~ (x - (s + 1) \in c <=> x \in low)
  BY <1>1, InXor, InShifted
<1>3. s + w \in r <=> w - 1 \in c
  <2>1. (s + w) - (s + 1) = w - 1 /\ s + w \in Int
    OBVIOUS
  <2>2. s + w \notin low
    OBVIOUS
  <2> QED BY <1>2, <2>1, <2>2
<1>4. \A x \in Int : x \in d <=> x = s + w \/ x - s \in g
  <2> TAKE x \in Int
  <2>1. ASSUME x \in d PROVE x = s + w \/ x - s \in g
    <3>1. PICK h \in {w} \cup g : x = h + (s + w) - w
      BY <2>1
    <3>2. h \in Int /\ x = h + s
      BY <1>1, <3>1
    <3> QED BY <3>1, <3>2
  <2>2. ASSUME x = s + w \/ x - s \in g PROVE x \in d
    <3>1. CASE x = s + w
      <4>1. x = w + (s + w) - w
        BY <3>1
      <4> QED BY <4>1
    <3>2. CASE x - s \in g
      <4>1. x = (x - s) + (s + w) - w
        OBVIOUS
      <4> QED BY <3>2, <4>1
    <3> QED BY <2>2, <3>1, <3>2
  <2> QED BY <2>1, <2>2
<1>5. \A x \in Int : x \in Shifted(left, s) <=> x - s \in left
  BY <1>1, InShifted
<1>6. \A x \in Int : x - s \in ShiftLeft(c, 1, w) <=> x - (s + 1) \in c /\ x # s + w
  <2> TAKE x \in Int
  <2>1. x - s \in ShiftLeft(c, 1, w) <=> (x - s) - 1 \in c /\ x - s < w
    <3>1. x - s \in Int /\ w \in Nat /\ 1 \in Nat
      OBVIOUS
    <3> QED BY <3>1, InShiftLeft
  <2>2. (x - s) - 1 = x - (s + 1)
    OBVIOUS
  <2>3. x - (s + 1) \in c => x - s <= w
    <3> SUFFICES ASSUME x - (s + 1) \in 0 .. w - 1 PROVE x - s <= w
      OBVIOUS
    <3> QED OBVIOUS
  <2> QED BY <2>1, <2>2, <2>3
<1>7. r \in SUBSET Int /\ d \in SUBSET Int /\ Shifted(left, s) \in SUBSET Int
  <2>1. Shifted(c, s + 1) \in SUBSET Int /\ Shifted(left, s) \in SUBSET Int
    BY <1>1, ShiftedType
  <2>2. d \in SUBSET Int
    BY <1>1
  <2> QED BY <2>1, <2>2, XorType
<1> HIDE DEF r, d, left
<1>8. CASE w - 1 \in c
  <2>1. Divide(r, s + w, {w} \cup g, w) = BitXor(r, d)
    BY <1>3, <1>8 DEF Divide, d
  <2>2. left = BitXor(ShiftLeft(c, 1, w), g)
    BY <1>8 DEF left, LeftBit
  <2>3. ASSUME NEW x \in Int PROVE x \in BitXor(r, d) <=> x \in BitXor(Shifted(left, s), low)
    <3>1. x \in BitXor(r, d) <=> ~ (x \in r <=> x \in d)
      BY InXor
    <3>2. x \in BitXor(Shifted(left, s), low) <=> ~ (x - s \in left <=> x \in low)
      BY InXor, <1>5
    <3>3. x - s \in left <=> ~ (x - s \in ShiftLeft(c, 1, w) <=> x - s \in g)
      BY InXor, <2>2
    <3>4. CASE x = s + w
      <4>1. x - s \notin g /\ x \notin low
        BY <3>4
      <4>2. x - (s + 1) \in c
        <5>1. x - (s + 1) = w - 1
          BY <3>4
        <5> QED BY <5>1, <1>8
      <4> QED BY <1>2, <1>4, <1>6, <3>1, <3>2, <3>3, <3>4, <4>1, <4>2
    <3>5. CASE x # s + w
      BY <1>2, <1>4, <1>6, <3>1, <3>2, <3>3, <3>5
    <3> QED BY <3>4, <3>5
  <2>4. BitXor(r, d) \in SUBSET Int /\ BitXor(Shifted(left, s), low) \in SUBSET Int
    BY <1>7, XorType
  <2> QED BY <2>1, <2>3, <2>4 DEF r, left
<1>9. CASE w - 1 \notin c
  <2>1. Divide(r, s + w, {w} \cup g, w) = r
    BY <1>3, <1>9 DEF Divide
  <2>2. left = ShiftLeft(c, 1, w)
    BY <1>9 DEF left, LeftBit
  <2>3. ASSUME NEW x \in Int PROVE x \in r <=> x \in BitXor(Shifted(left, s), low)
    <3>1. x \in BitXor(Shifted(left, s), low) <=> ~ (x - s \in left <=> x \in low)
      BY InXor, <1>5
    <3>2. x - (s + 1) \in c => x # s + w
      <4>1. x = s + w => x - (s + 1) = w - 1
        OBVIOUS
      <4> QED BY <4>1, <1>9
    <3> QED BY <1>2, <1>6, <2>2, <3>1, <3>2
  <2>4. BitXor(Shifted(left, s), low) \in SUBSET Int
    BY <1>7, XorType
  <2> QED BY <1>7, <2>1, <2>3, <2>4 DEF r, left
<1> QED BY <1>8, <1>9
-------------------------------------------------------------------------------
\* The message as a polynomial: byte k of n, given by its exponents m[k].
Message(m, n) == UNION {Shifted(m[k], 8 * (n - k)) : k \in 1 .. n}

\* Its part below t, as the dividend has it.
Below(p, t, w) == Shifted({x \in p : x < t}, w)

LEMMA InMessage ==
  ASSUME NEW n \in Nat, NEW m \in [1 .. n -> SUBSET (0 .. 7)], NEW i \in 1 .. n, NEW b \in 0 .. 7
  PROVE  8 * (n - i) + b \in Message(m, n) <=> b \in m[i]
<1> DEFINE x == 8 * (n - i) + b
<1>1. ASSUME b \in m[i] PROVE x \in Message(m, n)
  <2>1. x = b + 8 * (n - i)
    OBVIOUS
  <2>2. x \in Shifted(m[i], 8 * (n - i))
    BY <1>1, <2>1 DEF Shifted
  <2> QED BY <2>2 DEF Message
<1>2. ASSUME x \in Message(m, n) PROVE b \in m[i]
  <2>1. PICK k \in 1 .. n : x \in Shifted(m[k], 8 * (n - k))
    BY <1>2 DEF Message
  <2>2. PICK h \in m[k] : x = h + 8 * (n - k)
    BY <2>1 DEF Shifted
  <2>3. h \in 0 .. 7
    OBVIOUS
  <2>4. h = b /\ k = i
    BY <2>2, <2>3
  <2> QED BY <2>2, <2>4
<1> QED BY <1>1, <1>2

LEMMA MessageType ==
  ASSUME NEW n \in Nat, NEW m \in [1 .. n -> SUBSET (0 .. 7)]
  PROVE  Message(m, n) \in SUBSET (0 .. 8 * n - 1)
<1> SUFFICES ASSUME NEW x \in Message(m, n) PROVE x \in 0 .. 8 * n - 1
  OBVIOUS
<1>1. PICK k \in 1 .. n : x \in Shifted(m[k], 8 * (n - k))
  BY DEF Message
<1>2. PICK h \in m[k] : x = h + 8 * (n - k)
  BY <1>1 DEF Shifted
<1>3. h \in 0 .. 7
  OBVIOUS
<1> QED BY <1>2, <1>3

LEMMA InBelow ==
  ASSUME NEW p \in SUBSET Int, NEW t \in Int, NEW w \in Int, NEW x \in Int
  PROVE  x \in Below(p, t, w) <=> x - w \in p /\ x - w < t
<1>1. {y \in p : y < t} \in SUBSET Int
  OBVIOUS
<1>2. x \in Below(p, t, w) <=> x - w \in {y \in p : y < t}
  BY <1>1, InShifted DEF Below
<1> QED BY <1>2

\* Taking in a byte moves it from the rest of the message into the register.
LEMMA TakeIn ==
  ASSUME NEW n \in Nat, NEW m \in [1 .. n -> SUBSET (0 .. 7)], NEW i \in 1 .. n,
         NEW w \in Nat, w >= 8, NEW c \in SUBSET (0 .. w - 1)
  PROVE  BitXor(Shifted(c, 8 * (n - i) + 8), Below(Message(m, n), 8 * (n - i) + 8, w))
           = BitXor(Shifted(BitXor(c, Shifted(m[i], w - 8)), 8 * (n - i) + 8), Below(Message(m, n), 8 * (n - i), w))
<1> DEFINE t == 8 * (n - i)
           p == Message(m, n)
           c1 == BitXor(c, Shifted(m[i], w - 8))
<1>1. t \in Nat /\ w - 8 \in Nat
  OBVIOUS
<1>2. p \in SUBSET Int /\ c \in SUBSET Int /\ m[i] \in SUBSET Int /\ c1 \in SUBSET Int
  <2>1. p \in SUBSET Int
    <3>1. p \in SUBSET (0 .. 8 * n - 1)
      BY MessageType
    <3> QED BY <3>1
  <2>2. m[i] \in SUBSET Int /\ c \in SUBSET Int
    <3>1. m[i] \in SUBSET (0 .. 7)
      OBVIOUS
    <3> QED BY <3>1
  <2>3. c1 \in SUBSET Int
    <3>1. Shifted(m[i], w - 8) \in SUBSET Int
      BY <1>1, <2>2, ShiftedType
    <3> QED BY <2>2, <3>1 DEF BitXor
  <2> QED BY <2>1, <2>2, <2>3
<1>3. \A b \in 0 .. 7 : t + b \in p <=> b \in m[i]
  BY InMessage
<1>4. m[i] \subseteq 0 .. 7
  OBVIOUS
<1>c1. \A x \in Int : x \in c1 <=> ~ (x \in c <=> x - (w - 8) \in m[i])
  <2> TAKE x \in Int
  <2>1. x \in Shifted(m[i], w - 8) <=> x - (w - 8) \in m[i]
    BY <1>1, <1>2, InShifted
  <2> QED BY <2>1, InXor
<1> HIDE DEF t, p, c1
<1>5. ASSUME NEW x \in Int
      PROVE  x \in BitXor(Shifted(c, t + 8), Below(p, t + 8, w)) <=> x \in BitXor(Shifted(c1, t + 8), Below(p, t, w))
  <2> DEFINE y == x - w
  <2>0. y \in Int /\ x - (t + 8) \in Int /\ y - t \in Int
    BY <1>1
  <2>1. x \in Shifted(c, t + 8) <=> x - (t + 8) \in c
    BY <1>1, <1>2, InShifted
  <2>2. x \in Shifted(c1, t + 8) <=> x - (t + 8) \in c1
    BY <1>1, <1>2, InShifted
  <2>3. x \in Below(p, t + 8, w) <=> y \in p /\ y < t + 8
    BY <1>1, <1>2, InBelow
  <2>4. x \in Below(p, t, w) <=> y \in p /\ y < t
    BY <1>1, <1>2, InBelow
  <2>5. (x - (t + 8)) - (w - 8) = y - t
    BY <1>1
  <2>6. x - (t + 8) \in c1 <=> ~ (x - (t + 8) \in c <=> y - t \in m[i])
    BY <1>c1, <2>0, <2>5
  <2>7. y \in p /\ y < t + 8 <=> (y \in p /\ y < t) \/ y - t \in m[i]
    <3>1. CASE y - t \in 0 .. 7
      <4>1. y = t + (y - t) /\ ~ (y < t) /\ y < t + 8
        BY <1>1, <2>0, <3>1
      <4>2. y \in p <=> y - t \in m[i]
        BY <1>3, <3>1, <4>1
      <4> QED BY <4>1, <4>2
    <3>2. CASE y - t \notin 0 .. 7
      <4>1. y - t \notin m[i]
        BY <1>4, <3>2
      <4>2. y < t + 8 <=> y < t
        BY <1>1, <2>0, <3>2
      <4> QED BY <4>1, <4>2
    <3> QED BY <3>1, <3>2
  <2>8. y - t \in m[i] => ~ (y < t)
    <3>1. y - t \in m[i] => y - t \in 0 .. 7
      BY <1>4
    <3>2. y - t \in 0 .. 7 => ~ (y < t)
      BY <1>1, <2>0
    <3> QED BY <3>1, <3>2
  <2> HIDE DEF y
  <2> QED BY <2>1, <2>2, <2>3, <2>4, <2>6, <2>7, <2>8, InXor
<1>6. /\ BitXor(Shifted(c, t + 8), Below(p, t + 8, w)) \in SUBSET Int
      /\ BitXor(Shifted(c1, t + 8), Below(p, t, w)) \in SUBSET Int
  <2>1. Shifted(c, t + 8) \in SUBSET Int /\ Shifted(c1, t + 8) \in SUBSET Int
    BY <1>1, <1>2, ShiftedType
  <2>2. Below(p, t + 8, w) \in SUBSET Int /\ Below(p, t, w) \in SUBSET Int
    BY <1>1, <1>2, ShiftedType DEF Below
  <2> QED BY <2>1, <2>2, XorType
<1> QED BY <1>5, <1>6 DEF t, p, c1

-------------------------------------------------------------------------------
\* The division, read from its top exponent down.
Divides(rest, p, generator, degree, length) ==
  /\ rest \in [0 .. length -> SUBSET Int]
  /\ rest[0] = p
  /\ \A i \in 1 .. length : rest[i] = Divide(rest[i - 1], degree + length - i, generator, degree)
  /\ rest[length] = Remainder(p, generator, degree, degree + length)

LEMMA Division ==
  ASSUME NEW p \in SUBSET Int, NEW generator \in SUBSET Int, NEW degree \in Nat, NEW length \in Nat
  PROVE  \E rest : Divides(rest, p, generator, degree, length)
<1> DEFINE size == degree + length
           next == [i \in 1 .. length |-> [r \in SUBSET Int |-> Divide(r, size - i, generator, degree)]]
           Step(f) == [e \in degree .. size |-> IF e = size THEN p ELSE Divide(f[e + 1], e, generator, degree)]
<1>1. ASSUME NEW r \in SUBSET Int, NEW e \in Int PROVE Divide(r, e, generator, degree) \in SUBSET Int
  <2>1. {g + e - degree : g \in generator} \in SUBSET Int
    OBVIOUS
  <2> QED BY <2>1 DEF Divide, BitXor
<1>2. next \in [1 .. length -> [SUBSET Int -> SUBSET Int]]
  BY <1>1
<1>3. PICK f \in [0 .. length -> SUBSET Int] : f[0] = p /\ \A i \in 1 .. length : f[i] = next[i][f[i - 1]]
  <2> DEFINE T == SUBSET Int
  <2>1. p \in T /\ next \in [1 .. length -> [T -> T]]
    BY <1>2
  <2> HIDE DEF next, T
  <2>2. \E f : Iterates(f, length, T, p, next)
    BY <2>1, Iterate
  <2> QED BY <2>2 DEF T, Iterates
<1>4. \A i \in 1 .. length : f[i] = Divide(f[i - 1], size - i, generator, degree)
  <2> TAKE i \in 1 .. length
  <2>1. f[i - 1] \in SUBSET Int
    BY <1>3
  <2>2. next[i] = [r \in SUBSET Int |-> Divide(r, size - i, generator, degree)]
    OBVIOUS
  <2> HIDE DEF next
  <2> QED BY <1>3, <2>1, <2>2
<1> DEFINE g == [e \in degree .. size |-> f[size - e]]
<1>5. g = Step(g)
  <2>1. ASSUME NEW e \in degree .. size, e # size PROVE g[e] = Divide(g[e + 1], e, generator, degree)
    <3> DEFINE i == size - e
    <3>1. i \in 1 .. length /\ e = size - i /\ i - 1 = size - (e + 1) /\ e + 1 \in degree .. size
      BY <2>1
    <3>2. g[e] = f[i] /\ g[e + 1] = f[i - 1]
      BY <3>1
    <3> HIDE DEF i, g
    <3> QED BY <1>4, <3>1, <3>2
  <2>2. g[size] = p
    BY <1>3
  <2> HIDE DEF Step
  <2>3. \A e \in degree .. size : g[e] = Step(g)[e]
    <3> TAKE e \in degree .. size
    <3> HIDE DEF g
    <3> QED BY <2>1, <2>2 DEF Step
  <2>4. DOMAIN Step(g) = degree .. size /\ Step(g) = [e \in degree .. size |-> Step(g)[e]]
    BY DEF Step
  <2> QED BY <2>3, <2>4
<1> DEFINE rest == CHOOSE rest : rest = Step(rest)
<1>6. rest = Step(rest)
  <2> HIDE DEF g, Step
  <2> QED BY <1>5
<1>7. Remainder(p, generator, degree, size) = rest[degree]
  BY DEF Remainder, Divide
<1> HIDE DEF rest
<1>8. \A i \in 0 .. length : rest[size - i] = f[i]
  <2> DEFINE Same == {i \in 0 .. length : rest[size - i] = f[i]}
  <2>1. rest[size] = p
    BY <1>6
  <2>2. \A e \in degree .. size : e # size => rest[e] = Divide(rest[e + 1], e, generator, degree)
    BY <1>6
  <2>3. 0 \in Same
    BY <1>3, <2>1
  <2>4. ASSUME NEW i \in 1 .. length, i - 1 \in Same PROVE i \in Same
    <3>1. /\ size - i \in degree .. size /\ size - i # size
          /\ (size - i) + 1 = size - (i - 1)
      OBVIOUS
    <3>2. rest[size - i] = Divide(rest[size - (i - 1)], size - i, generator, degree)
      BY <2>2, <3>1
    <3> QED BY <1>4, <2>4, <3>2
  <2> HIDE DEF Same
  <2>5. 0 .. length \subseteq Same
    BY <2>3, <2>4, IntervalInduction
  <2> QED BY <2>5 DEF Same
<1>9. f[length] = Remainder(p, generator, degree, size)
  BY <1>7, <1>8
<1> QED BY <1>3, <1>4, <1>9 DEF Divides

-------------------------------------------------------------------------------
\* A loop of the kind both checksums run, on a register of w bits, top bit first: it takes in the n bytes
\* whose exponents are m[1], m[2], ... and steps the register eight times after each.
Loop(crc, bit, m, g, w, n) ==
  /\ crc \in [0 .. n -> SUBSET (0 .. w - 1)]
  /\ bit \in [1 .. n -> [0 .. 8 -> SUBSET (0 .. w - 1)]]
  /\ crc[0] = AllOnes(w)
  /\ \A i \in 1 .. n :
       /\ bit[i][0] = BitXor(crc[i - 1], Shifted(m[i], w - 8))
       /\ \A j \in 1 .. 8 : bit[i][j] = LeftBit(bit[i][j - 1], g, w)
       /\ crc[i] = bit[i][8]

LEMMA LoopDivides ==
  ASSUME NEW n \in Nat, NEW w \in Nat, w >= 8, NEW g \in SUBSET (0 .. w - 1),
         NEW m \in [1 .. n -> SUBSET (0 .. 7)], NEW crc, NEW bit, Loop(crc, bit, m, g, w, n)
  PROVE  crc[n] = Remainder(Dividend(Message(m, n), w, n), {w} \cup g, w, 8 * n + w)
<1> DEFINE M == Message(m, n)
           p == Dividend(M, w, n)
           G == {w} \cup g
           Rest(i) == BitXor(Shifted(crc[i], 8 * (n - i)), Below(M, 8 * (n - i), w))
<1>1. M \in SUBSET (0 .. 8 * n - 1) /\ M \in SUBSET Int /\ G \in SUBSET Int /\ 8 * n \in Nat
  <2>1. M \in SUBSET (0 .. 8 * n - 1)
    BY MessageType
  <2> HIDE DEF M
  <2> QED BY <2>1
<1>2. p = Rest(0)
  <2>1. {e + w : e \in M} = Below(M, 8 * n, w)
    <3>1. {x \in M : x < 8 * n} = M
      BY <1>1
    <3> HIDE DEF M
    <3> QED BY <3>1 DEF Below, Shifted
  <2>2. crc[0] = AllOnes(w) /\ 8 * (n - 0) = 8 * n
    BY DEF Loop
  <2> HIDE DEF M
  <2> QED BY <2>1, <2>2 DEF Dividend, BitXor, Shifted
<1>3. p \in SUBSET Int
  <2>1. {e + w : e \in M} \in SUBSET Int /\ {e + 8 * n : e \in AllOnes(w)} \in SUBSET Int
    <3> HIDE DEF M
    <3> QED BY <1>1 DEF AllOnes
  <2> QED BY <2>1 DEF Dividend, BitXor
<1> HIDE DEF M, p, G
<1>4. PICK rest \in [0 .. 8 * n -> SUBSET Int] :
         /\ rest[0] = p
         /\ \A i \in 1 .. 8 * n : rest[i] = Divide(rest[i - 1], w + 8 * n - i, G, w)
         /\ rest[8 * n] = Remainder(p, G, w, w + 8 * n)
  <2>1. \E rest : Divides(rest, p, G, w, 8 * n)
    BY <1>1, <1>3, Division
  <2> QED BY <2>1 DEF Divides
<1> DEFINE Right == {i \in 0 .. n : rest[8 * i] = Rest(i)}
<1>5. 0 \in Right
  BY <1>2, <1>4
<1>6. ASSUME NEW i \in 1 .. n, i - 1 \in Right PROVE i \in Right
  <2> DEFINE t == 8 * (n - i)
             k == 8 * (i - 1)
             low == Below(M, t, w)
             Done == {j \in 0 .. 8 : rest[k + j] = BitXor(Shifted(bit[i][j], t + 8 - j), low)}
  <2>1. t \in Nat /\ k \in Nat /\ k + t + 8 = 8 * n /\ 8 * (n - (i - 1)) = t + 8
    OBVIOUS
  <2>2. low \in SUBSET Int /\ \A x \in low : x < t + w
    <3>1. {x \in M : x < t} \in SUBSET Int
      BY <1>1
    <3>2. low \in SUBSET Int
      BY <3>1, ShiftedType DEF Below
    <3>3. \A x \in low : x < t + w
      <4> HIDE DEF t
      <4>1. \A x \in low : x - w < t
        BY <1>1, <2>1, <3>2, InBelow
      <4> QED BY <2>1, <3>2, <4>1
    <3> QED BY <3>2, <3>3
  <2>3. 0 \in Done
    <3>1. rest[k] = BitXor(Shifted(crc[i - 1], t + 8), Below(M, t + 8, w))
      BY <1>6, <2>1
    <3>2. crc[i - 1] \in SUBSET (0 .. w - 1) /\ bit[i][0] = BitXor(crc[i - 1], Shifted(m[i], w - 8))
      BY DEF Loop
    <3>3. rest[k] = BitXor(Shifted(bit[i][0], t + 8), low)
      <4>1. BitXor(Shifted(crc[i - 1], t + 8), Below(M, t + 8, w))
              = BitXor(Shifted(BitXor(crc[i - 1], Shifted(m[i], w - 8)), t + 8), low)
        <5>1. crc[i - 1] \in SUBSET (0 .. w - 1)
          BY <3>2
        <5> QED BY <5>1, TakeIn, Zenon DEF M, t, low
      <4> HIDE DEF t, low, M
      <4> QED BY <3>1, <3>2, <4>1
    <3> HIDE DEF t, k, low
    <3> QED BY <2>1, <3>3
  <2>4. ASSUME NEW j \in 1 .. 8, j - 1 \in Done PROVE j \in Done
    <3> DEFINE s == t + 8 - j
    <3> HIDE DEF t, k, low
    <3>1. s \in Nat /\ s + 1 = t + 8 - (j - 1) /\ \A x \in low : x < s + w
      BY <2>1, <2>2
    <3>2. bit[i][j - 1] \in SUBSET (0 .. w - 1) /\ bit[i][j] = LeftBit(bit[i][j - 1], g, w)
      <4> DEFINE R == SUBSET (0 .. w - 1)
      <4>1. bit \in [1 .. n -> [0 .. 8 -> R]] /\ bit[i][j] = LeftBit(bit[i][j - 1], g, w)
        BY DEF Loop
      <4>2. j - 1 \in 0 .. 8
        OBVIOUS
      <4> HIDE DEF R
      <4>3. bit[i][j - 1] \in R
        BY <4>1, <4>2
      <4> QED BY <4>1, <4>3 DEF R
    <3>3. /\ k + j \in 1 .. 8 * n /\ (k + j) - 1 = k + (j - 1)
          /\ w + 8 * n - (k + j) = s + w
      BY <2>1
    <3>4. rest[k + j] = Divide(rest[k + (j - 1)], s + w, G, w)
      BY <1>4, <3>3
    <3>5. rest[k + (j - 1)] = BitXor(Shifted(bit[i][j - 1], s + 1), low)
      BY <2>4, <3>1
    <3> HIDE DEF s
    <3>6. rest[k + j] = BitXor(Shifted(bit[i][j], s), low)
      <4>1. w \in Nat \ {0}
        OBVIOUS
      <4>2. Divide(BitXor(Shifted(bit[i][j - 1], s + 1), low), s + w, G, w)
              = BitXor(Shifted(LeftBit(bit[i][j - 1], g, w), s), low)
        <5>1. /\ s \in Nat /\ bit[i][j - 1] \in SUBSET (0 .. w - 1)
              /\ low \in SUBSET Int /\ \A x \in low : x < s + w
          BY <2>2, <3>1, <3>2
        <5>2. Divide(BitXor(Shifted(bit[i][j - 1], s + 1), low), s + w, {w} \cup g, w)
                = BitXor(Shifted(LeftBit(bit[i][j - 1], g, w), s), low)
          <6> DEFINE c == bit[i][j - 1]
          <6>1. c \in SUBSET (0 .. w - 1)
            BY <5>1
          <6> HIDE DEF c
          <6>2. Divide(BitXor(Shifted(c, s + 1), low), s + w, {w} \cup g, w) = BitXor(Shifted(LeftBit(c, g, w), s), low)
            BY <4>1, <5>1, <6>1, BitStep
          <6> QED BY <6>2 DEF c
        <5> QED BY <5>2, Zenon DEF G
      <4> QED BY <3>2, <3>4, <3>5, <4>2
    <3> QED BY <3>6 DEF s
  <2>5. 8 \in Done
    <3> HIDE DEF Done
    <3>1. 0 .. 8 \subseteq Done
      BY <2>3, <2>4, IntervalInduction
    <3> QED BY <3>1
  <2>6. crc[i] = bit[i][8]
    BY DEF Loop
  <2>7. k + 8 = 8 * i /\ t + 8 - 8 = t
    OBVIOUS
  <2>8. rest[8 * i] = Rest(i)
    BY <2>5, <2>6, <2>7
  <2> HIDE DEF Rest
  <2> QED BY <2>8
<1>7. rest[8 * n] = Rest(n)
  <2> HIDE DEF Right, Rest
  <2>1. 0 .. n \subseteq Right
    BY <1>5, <1>6, IntervalInduction
  <2> QED BY <2>1 DEF Right
<1>8. Rest(n) = crc[n]
  <2>1. crc[n] \in SUBSET Int
    <3>1. crc[n] \in SUBSET (0 .. w - 1)
      BY DEF Loop
    <3> QED BY <3>1
  <2>2. 8 * (n - n) = 0
    OBVIOUS
  <2>3. Shifted(crc[n], 0) = crc[n]
    BY <2>1 DEF Shifted
  <2>4. Below(M, 0, w) = {}
    <3>1. {x \in M : x < 0} = {}
      <4>1. \A x \in M : ~ (x < 0)
        BY <1>1
      <4> QED BY <4>1
    <3> QED BY <3>1 DEF Below, Shifted
  <2> QED BY <2>2, <2>3, <2>4 DEF BitXor
<1>9. w + 8 * n = 8 * n + w
  OBVIOUS
<1> QED BY <1>4, <1>7, <1>8, <1>9 DEF M, p, G

-------------------------------------------------------------------------------
(* CRC16.                                                                  *)

Register16 == SUBSET (0 .. 15)
ByteBits == SUBSET (0 .. 7)

\* The register before each of the eight steps on a byte, and after them.
Bits16(crc, byte) ==
  CHOOSE bit : bit = [i \in 0 .. 8 |-> IF i = 0 THEN BitXor(crc, ShiftLeft(byte, 8, 16)) ELSE Crc16Bit(bit[i - 1])]

LEMMA Bit16 == ASSUME NEW c \in Register16 PROVE Crc16Bit(c) = LeftBit(c, Poly16, 16) /\ Crc16Bit(c) \in Register16
<1>1. Poly16 \in SUBSET (0 .. 16 - 1) /\ c \in SUBSET (0 .. 16 - 1) /\ 16 \in Nat /\ 16 - 1 = 15
  BY DEF Poly16, Register16
<1>2. LeftBit(c, Poly16, 16) \in SUBSET (0 .. 16 - 1)
  BY <1>1, LeftBitType
<1>3. Crc16Bit(c) = LeftBit(c, Poly16, 16)
  BY <1>1 DEF Crc16Bit, LeftBit
<1> QED BY <1>1, <1>2, <1>3 DEF Register16

LEMMA Byte16 ==
  ASSUME NEW c \in Register16, NEW byte \in ByteBits
  PROVE  /\ Bits16(c, byte) \in [0 .. 8 -> Register16]
         /\ Bits16(c, byte)[0] = BitXor(c, Shifted(byte, 8))
         /\ \A j \in 1 .. 8 : Bits16(c, byte)[j] = Crc16Bit(Bits16(c, byte)[j - 1])
         /\ Crc16Byte(c, byte) = Bits16(c, byte)[8]
         /\ Crc16Byte(c, byte) \in Register16
<1> DEFINE a == BitXor(c, ShiftLeft(byte, 8, 16))
           step == [j \in 1 .. 8 |-> [r \in Register16 |-> Crc16Bit(r)]]
           Eq(f) == [i \in 0 .. 8 |-> IF i = 0 THEN a ELSE Crc16Bit(f[i - 1])]
<1>1. a = BitXor(c, Shifted(byte, 8)) /\ a \in Register16
  <2>1. ShiftLeft(byte, 8, 16) = Shifted(byte, 8)
    <3>1. {b \in byte : b + 8 < 16} = byte
      <4>1. \A b \in byte : b + 8 < 16
        BY DEF ByteBits
      <4> QED BY <4>1
    <3> QED BY <3>1 DEF ShiftLeft, Shifted
  <2>2. Shifted(byte, 8) \in Register16
    BY DEF Shifted, ByteBits, Register16
  <2> QED BY <2>1, <2>2 DEF BitXor, Register16
<1>2. step \in [1 .. 8 -> [Register16 -> Register16]]
  BY Bit16
<1> HIDE DEF a
<1>3. \E f : f = Eq(f)
  <2>1. \E f : Iterates(f, 8, Register16, a, step)
    <3> HIDE DEF step
    <3> QED BY <1>1, <1>2, Iterate
  <2>2. PICK f : Iterates(f, 8, Register16, a, step)
    BY <2>1
  <2>3. f \in [0 .. 8 -> Register16] /\ f[0] = a
    BY <2>2 DEF Iterates
  <2>4. ASSUME NEW j \in 1 .. 8 PROVE f[j] = Crc16Bit(f[j - 1])
    <3>1. f[j - 1] \in Register16 /\ f[j] = step[j][f[j - 1]]
      BY <2>2, <2>3 DEF Iterates
    <3> QED BY <3>1
  <2>5. f = Eq(f)
    BY <2>3, <2>4
  <2> QED BY <2>5
<1>4. Bits16(c, byte) = CHOOSE f : f = Eq(f)
  BY DEF Bits16, a
<1> DEFINE bits == Bits16(c, byte)
<1>5. bits = Eq(bits)
  <2> HIDE DEF Eq
  <2> QED BY <1>3, <1>4
<1> HIDE DEF bits
<1>6. bits[0] = a /\ \A j \in 1 .. 8 : bits[j] = Crc16Bit(bits[j - 1])
  BY <1>5
<1>7. bits = [i \in 0 .. 8 |-> bits[i]]
  BY <1>5
<1>8. bits \in [0 .. 8 -> Register16]
  <2>1. \A j \in 1 .. 8 : bits[j - 1] \in Register16 => bits[j] \in Register16
    BY <1>6, Bit16
  <2> QED BY <1>1, <1>6, <1>7, <2>1, TypedRun
<1>9. Crc16Byte(c, byte) = bits[8]
  BY DEF Crc16Byte, bits, Bits16
<1> QED BY <1>1, <1>6, <1>8, <1>9 DEF bits

\* The register before each byte, and after the last.
Run16(crc, data) ==
  /\ crc \in [0 .. Len(data) -> Register16]
  /\ crc[0] = AllOnes(16)
  /\ \A i \in 1 .. Len(data) : crc[i] = Crc16Byte(crc[i - 1], data[i])
  /\ crc[Len(data)] = boot_record_crc16(data)

LEMMA Bytes16 ==
  ASSUME NEW data \in Seq(ByteBits)
  PROVE  \E crc : Run16(crc, data)
<1> DEFINE n == Len(data)
           next == [crc \in SUBSET AllOnes(16) |-> [byte \in SUBSET AllOnes(8) |-> Crc16Byte(crc, byte)]]
           step == [i \in 1 .. n |-> [r \in Register16 |-> Crc16Byte(r, data[i])]]
           Eq(f) == [i \in 0 .. n |-> IF i = 0 THEN AllOnes(16) ELSE next[f[i - 1]][data[i]]]
           crc == CHOOSE f : f = Eq(f)
<1>1. n \in Nat /\ AllOnes(16) \in Register16 /\ \A i \in 1 .. n : data[i] \in ByteBits
  BY DEF AllOnes, Register16
<1>2. AllOnes(16) = 0 .. 15 /\ AllOnes(8) = 0 .. 7
  BY DEF AllOnes
<1>3. \A r \in Register16, byte \in ByteBits : next[r][byte] = Crc16Byte(r, byte) /\ Crc16Byte(r, byte) \in Register16
  BY <1>2, Byte16 DEF Register16, ByteBits
<1>4. step \in [1 .. n -> [Register16 -> Register16]]
  BY <1>1, <1>3
<1> HIDE DEF next, n
<1>5. \E f : f = Eq(f)
  <2>1. \E f : Iterates(f, n, Register16, AllOnes(16), step)
    <3> HIDE DEF step
    <3> QED BY <1>1, <1>4, Iterate
  <2>2. PICK f : Iterates(f, n, Register16, AllOnes(16), step)
    BY <2>1
  <2>3. f \in [0 .. n -> Register16] /\ f[0] = AllOnes(16)
    BY <2>2 DEF Iterates
  <2>4. ASSUME NEW i \in 1 .. n PROVE f[i] = next[f[i - 1]][data[i]]
    <3>1. f[i - 1] \in Register16 /\ f[i] = step[i][f[i - 1]]
      BY <1>1, <2>2, <2>3 DEF Iterates
    <3> QED BY <1>1, <1>3, <3>1
  <2>5. f = Eq(f)
    BY <2>3, <2>4
  <2> QED BY <2>5
<1>6. crc = Eq(crc)
  <2> HIDE DEF Eq
  <2> QED BY <1>5
<1>7. boot_record_crc16(data) = crc[n]
  BY DEF boot_record_crc16, next, n
<1> HIDE DEF crc
<1>8. crc[0] = AllOnes(16) /\ \A i \in 1 .. n : crc[i] = next[crc[i - 1]][data[i]]
  BY <1>1, <1>6
<1>9. crc \in [0 .. n -> Register16]
  <2>1. ASSUME NEW i \in 1 .. n, crc[i - 1] \in Register16 PROVE crc[i] \in Register16
    <3>1. data[i] \in ByteBits /\ crc[i] = next[crc[i - 1]][data[i]]
      BY <1>1, <1>8
    <3>2. next[crc[i - 1]][data[i]] \in Register16
      BY <1>3, <2>1, <3>1, Zenon
    <3> QED BY <3>1, <3>2, Zenon
  <2>2. crc = [i \in 0 .. n |-> crc[i]]
    BY <1>6
  <2>3. n \in Nat /\ crc[0] \in Register16 /\ \A i \in 1 .. n : crc[i - 1] \in Register16 => crc[i] \in Register16
    BY <1>1, <1>8, <2>1
  <2> QED BY <2>2, <2>3, TypedRun, Zenon
<1>10. \A i \in 1 .. n : crc[i] = Crc16Byte(crc[i - 1], data[i])
  <2> TAKE i \in 1 .. n
  <2>1. crc[i - 1] \in Register16
    BY <1>1, <1>9
  <2> QED BY <1>1, <1>3, <1>8, <2>1
<1>11. Run16(crc, data)
  BY <1>7, <1>8, <1>9, <1>10 DEF Run16, n
<1> QED BY <1>11

(* boot_record_crc16() divides the message by the generator of             *)
(* CRC16-CCITT: for every sequence of bytes its result is the remainder.   *)
THEOREM Crc16Divides ==
  ASSUME NEW data \in Seq(ByteBits)
  PROVE  boot_record_crc16(data) = Crc16Spec(data)
<1> DEFINE n == Len(data)
           m == [k \in 1 .. n |-> data[k]]
<1>1. n \in Nat /\ m \in [1 .. n -> SUBSET (0 .. 7)] /\ DOMAIN data = 1 .. n /\ \A i \in 1 .. n : data[i] \in ByteBits
  BY DEF ByteBits
<1>2. PICK crc : Run16(crc, data)
  BY Bytes16
<1> DEFINE bit == [i \in 1 .. n |-> Bits16(crc[i - 1], data[i])]
<1>3. \A i \in 1 .. n : crc[i - 1] \in Register16 /\ crc[i] = Crc16Byte(crc[i - 1], data[i])
  BY <1>1, <1>2 DEF Run16
<1>4. Message(m, n) = TopFirst(data)
  <2> DEFINE Part(i) == Shifted(m[i], 8 * (n - i))
             Sent(i) == {8 * (n - i) + b : b \in data[i]}
  <2>1. \A i \in 1 .. n : Part(i) = Sent(i)
    <3> TAKE i \in 1 .. n
    <3>1. \A b \in data[i] : b + 8 * (n - i) = 8 * (n - i) + b
      BY <1>1 DEF ByteBits
    <3>2. m[i] = data[i]
      OBVIOUS
    <3> QED BY <3>1, <3>2 DEF Shifted
  <2>2. Message(m, n) = UNION {Part(i) : i \in 1 .. n}
    BY DEF Message
  <2>3. TopFirst(data) = UNION {Sent(i) : i \in 1 .. n}
    BY <1>1 DEF TopFirst
  <2> HIDE DEF Part, Sent
  <2> QED BY <2>1, <2>2, <2>3
<1>5. Loop(crc, bit, m, Poly16, 16, n)
  <2>1. bit \in [1 .. n -> [0 .. 8 -> Register16]]
    <3> HIDE DEF n
    <3> QED BY <1>1, <1>3, Byte16
  <2>2. ASSUME NEW i \in 1 .. n
        PROVE  /\ bit[i][0] = BitXor(crc[i - 1], Shifted(m[i], 8))
               /\ \A j \in 1 .. 8 : bit[i][j] = LeftBit(bit[i][j - 1], Poly16, 16)
               /\ crc[i] = bit[i][8]
    <3>1. bit[i] = Bits16(crc[i - 1], data[i]) /\ m[i] = data[i]
      OBVIOUS
    <3>2. ASSUME NEW j \in 1 .. 8 PROVE bit[i][j] = LeftBit(bit[i][j - 1], Poly16, 16)
      <4>1. bit[i][j - 1] \in Register16
        BY <2>1
      <4>2. bit[i][j] = Crc16Bit(bit[i][j - 1])
        BY <1>1, <1>3, <3>1, Byte16
      <4> QED BY <4>1, <4>2, Bit16
    <3> QED BY <1>1, <1>3, <3>1, <3>2, Byte16
  <2>3. crc \in [0 .. n -> Register16] /\ crc[0] = AllOnes(16)
    BY <1>2 DEF Run16
  <2>4. 16 - 1 = 15 /\ 16 - 8 = 8
    OBVIOUS
  <2> HIDE DEF bit, m, n
  <2> QED BY <2>1, <2>2, <2>3, <2>4 DEF Loop, Register16
<1>6. crc[n] = Remainder(Dividend(Message(m, n), 16, n), {16} \cup Poly16, 16, 8 * n + 16)
  <2>1. Poly16 \in SUBSET (0 .. 16 - 1) /\ 16 \in Nat /\ 16 >= 8
    BY DEF Poly16
  <2> HIDE DEF bit, m, n
  <2> QED BY <1>1, <1>5, <2>1, LoopDivides
<1> QED BY <1>2, <1>4, <1>6 DEF Crc16Spec, Run16

-------------------------------------------------------------------------------
(* CRC32: the same division with every word read backwards.                *)

Register32 == SUBSET (0 .. 31)
Mirror(w) == {31 - b : b \in w}

LEMMA InMirror == ASSUME NEW w \in Register32, NEW x \in 0 .. 31 PROVE x \in Mirror(w) <=> 31 - x \in w
<1>1. ASSUME x \in Mirror(w) PROVE 31 - x \in w
  <2>1. PICK b \in w : x = 31 - b
    BY <1>1 DEF Mirror
  <2>2. b \in 0 .. 31
    BY DEF Register32
  <2>3. b = 31 - x
    BY <2>1, <2>2
  <2> QED BY <2>3
<1>2. ASSUME 31 - x \in w PROVE x \in Mirror(w)
  <2>1. x = 31 - (31 - x)
    OBVIOUS
  <2> QED BY <1>2, <2>1 DEF Mirror
<1> QED BY <1>1, <1>2

LEMMA MirrorType == ASSUME NEW w \in Register32 PROVE Mirror(w) \in Register32
BY DEF Mirror, Register32

LEMMA SameBits ==
  ASSUME NEW v \in Register32, NEW w \in Register32, \A x \in 0 .. 31 : x \in v <=> x \in w
  PROVE  v = w
BY DEF Register32

LEMMA MirrorTwice == ASSUME NEW w \in Register32 PROVE Mirror(Mirror(w)) = w
<1>1. \A x \in 0 .. 31 : x \in Mirror(Mirror(w)) <=> x \in w
  <2> TAKE x \in 0 .. 31
  <2>1. 31 - x \in 0 .. 31 /\ 31 - (31 - x) = x
    OBVIOUS
  <2>2. x \in Mirror(Mirror(w)) <=> 31 - x \in Mirror(w)
    BY InMirror, MirrorType
  <2>3. 31 - x \in Mirror(w) <=> x \in w
    BY <2>1, InMirror
  <2> QED BY <2>2, <2>3
<1>2. Mirror(Mirror(w)) \in Register32
  BY MirrorType
<1> QED BY <1>1, <1>2, SameBits

LEMMA XorType32 == ASSUME NEW v \in Register32, NEW w \in Register32 PROVE BitXor(v, w) \in Register32
BY DEF BitXor, Register32

LEMMA MirrorXor ==
  ASSUME NEW v \in Register32, NEW w \in Register32
  PROVE  Mirror(BitXor(v, w)) = BitXor(Mirror(v), Mirror(w))
<1>1. \A x \in 0 .. 31 : x \in Mirror(BitXor(v, w)) <=> x \in BitXor(Mirror(v), Mirror(w))
  <2> TAKE x \in 0 .. 31
  <2>1. x \in Mirror(BitXor(v, w)) <=> 31 - x \in BitXor(v, w)
    BY InMirror, XorType32
  <2>2. (x \in Mirror(v) <=> 31 - x \in v) /\ (x \in Mirror(w) <=> 31 - x \in w)
    BY InMirror
  <2> QED BY <2>1, <2>2 DEF BitXor
<1>2. Mirror(BitXor(v, w)) \in Register32 /\ BitXor(Mirror(v), Mirror(w)) \in Register32
  BY MirrorType, XorType32
<1> QED BY <1>1, <1>2, SameBits

Mirrored32 == Crc32Generator \ {32}

LEMMA Generator32 ==
  /\ Mirror(Poly32) = Mirrored32 /\ Mirrored32 \in Register32 /\ Poly32 \in Register32
  /\ {32} \cup Mirrored32 = Crc32Generator
<1>1. Mirrored32 = {26, 23, 22, 16, 12, 11, 10, 8, 7, 5, 4, 2, 1, 0}
  BY DEF Mirrored32, Crc32Generator
<1>2. Mirror(Poly32) = {26, 23, 22, 16, 12, 11, 10, 8, 7, 5, 4, 2, 1, 0}
  <2>1. Poly32 \in Register32
    BY DEF Poly32, Register32
  <2>2. ASSUME NEW x \in 0 .. 31
        PROVE  31 - x \in Poly32 <=> x \in {26, 23, 22, 16, 12, 11, 10, 8, 7, 5, 4, 2, 1, 0}
    BY DEF Poly32
  <2>3. {26, 23, 22, 16, 12, 11, 10, 8, 7, 5, 4, 2, 1, 0} \in Register32
    BY DEF Register32
  <2> QED BY <2>1, <2>2, <2>3, InMirror, MirrorType, SameBits
<1>3. Poly32 \in Register32 /\ Mirrored32 \in Register32
  BY <1>1 DEF Poly32, Register32
<1>4. {32} \cup Mirrored32 = Crc32Generator
  BY DEF Mirrored32, Crc32Generator
<1> QED BY <1>1, <1>2, <1>3, <1>4

LEMMA MirrorShift ==
  ASSUME NEW c \in Register32
  PROVE  Mirror(ShiftRight(c, 1)) = ShiftLeft(Mirror(c), 1, 32) /\ ShiftRight(c, 1) \in Register32
<1>1. ShiftRight(c, 1) \in Register32
  BY DEF ShiftRight, Register32
<1>2. ShiftLeft(Mirror(c), 1, 32) \in Register32
  BY MirrorType DEF ShiftLeft, Register32
<1>3. ASSUME NEW x \in 0 .. 31 PROVE x \in Mirror(ShiftRight(c, 1)) <=> x \in ShiftLeft(Mirror(c), 1, 32)
  <2>1. x \in Mirror(ShiftRight(c, 1)) <=> 31 - x \in ShiftRight(c, 1)
    BY <1>1, InMirror
  <2>2. 31 - x \in ShiftRight(c, 1) <=> 32 - x \in c
    <3>1. ASSUME 31 - x \in ShiftRight(c, 1) PROVE 32 - x \in c
      <4>1. PICK b \in c : 31 - x = b - 1
        BY <3>1 DEF ShiftRight
      <4>2. b \in 0 .. 31
        BY DEF Register32
      <4>3. b = 32 - x
        BY <4>1, <4>2
      <4> QED BY <4>3
    <3>2. ASSUME 32 - x \in c PROVE 31 - x \in ShiftRight(c, 1)
      <4>1. 32 - x \in {b \in c : b >= 1} /\ 31 - x = (32 - x) - 1
        BY <3>2
      <4> QED BY <4>1 DEF ShiftRight
    <3> QED BY <3>1, <3>2
  <2>3. x \in ShiftLeft(Mirror(c), 1, 32) <=> x - 1 \in Mirror(c) /\ x < 32
    <3>1. Mirror(c) \in SUBSET (0 .. 32 - 1) /\ 32 \in Nat /\ 1 \in Nat /\ x \in Int
      BY MirrorType DEF Register32
    <3> QED BY <3>1, InShiftLeft
  <2>4. x - 1 \in Mirror(c) <=> 32 - x \in c
    <3>1. CASE x = 0
      <4>1. 32 - x \notin c
        BY <3>1 DEF Register32
      <4>2. x - 1 \notin Mirror(c)
        BY <3>1, MirrorType DEF Register32
      <4> QED BY <4>1, <4>2
    <3>2. CASE x # 0
      <4>1. x - 1 \in 0 .. 31 /\ 31 - (x - 1) = 32 - x
        BY <3>2
      <4> QED BY <4>1, InMirror
    <3> QED BY <3>1, <3>2
  <2> QED BY <2>1, <2>2, <2>3, <2>4
<1>4. Mirror(ShiftRight(c, 1)) \in Register32
  BY <1>1, MirrorType
<1> QED BY <1>1, <1>2, <1>3, <1>4, SameBits

LEMMA Bit32 ==
  ASSUME NEW c \in Register32
  PROVE  Crc32Bit(c) \in Register32 /\ Mirror(Crc32Bit(c)) = LeftBit(Mirror(c), Mirrored32, 32)
<1>1. 0 \in c <=> 32 - 1 \in Mirror(c)
  <2>1. 31 \in 0 .. 31 /\ 31 - 31 = 0 /\ 32 - 1 = 31
    OBVIOUS
  <2> QED BY <2>1, InMirror
<1>2. ShiftRight(c, 1) \in Register32 /\ Poly32 \in Register32
  BY MirrorShift, Generator32
<1>3. Crc32Bit(c) \in Register32
  BY <1>2, XorType32 DEF Crc32Bit
<1>4. CASE 0 \in c
  <2>1. Mirror(Crc32Bit(c)) = BitXor(Mirror(ShiftRight(c, 1)), Mirror(Poly32))
    BY <1>2, <1>4, MirrorXor DEF Crc32Bit
  <2> QED BY <1>1, <1>3, <1>4, <2>1, MirrorShift, Generator32 DEF LeftBit
<1>5. CASE 0 \notin c
  BY <1>1, <1>3, <1>5, MirrorShift DEF LeftBit, Crc32Bit
<1> QED BY <1>4, <1>5

Bits32(crc, byte) ==
  CHOOSE bit : bit = [i \in 0 .. 8 |-> IF i = 0 THEN BitXor(crc, byte) ELSE Crc32Bit(bit[i - 1])]

LEMMA Byte32 ==
  ASSUME NEW c \in Register32, NEW byte \in ByteBits
  PROVE  /\ Bits32(c, byte) \in [0 .. 8 -> Register32]
         /\ Bits32(c, byte)[0] = BitXor(c, byte)
         /\ \A j \in 1 .. 8 : Bits32(c, byte)[j] = Crc32Bit(Bits32(c, byte)[j - 1])
         /\ Crc32Byte(c, byte) = Bits32(c, byte)[8]
         /\ Crc32Byte(c, byte) \in Register32
<1> DEFINE a == BitXor(c, byte)
           step == [j \in 1 .. 8 |-> [r \in Register32 |-> Crc32Bit(r)]]
           Eq(f) == [i \in 0 .. 8 |-> IF i = 0 THEN a ELSE Crc32Bit(f[i - 1])]
<1>1. a = BitXor(c, byte) /\ a \in Register32
  BY DEF BitXor, ByteBits, Register32
<1>2. step \in [1 .. 8 -> [Register32 -> Register32]]
  BY Bit32
<1> HIDE DEF a
<1>3. \E f : f = Eq(f)
  <2>1. \E f : Iterates(f, 8, Register32, a, step)
    <3> HIDE DEF step
    <3> QED BY <1>1, <1>2, Iterate
  <2>2. PICK f : Iterates(f, 8, Register32, a, step)
    BY <2>1
  <2>3. f \in [0 .. 8 -> Register32] /\ f[0] = a
    BY <2>2 DEF Iterates
  <2>4. ASSUME NEW j \in 1 .. 8 PROVE f[j] = Crc32Bit(f[j - 1])
    <3>1. f[j - 1] \in Register32 /\ f[j] = step[j][f[j - 1]]
      BY <2>2, <2>3 DEF Iterates
    <3> QED BY <3>1
  <2>5. f = Eq(f)
    BY <2>3, <2>4
  <2> QED BY <2>5
<1>4. Bits32(c, byte) = CHOOSE f : f = Eq(f)
  BY DEF Bits32, a
<1> DEFINE bits == Bits32(c, byte)
<1>5. bits = Eq(bits)
  <2> HIDE DEF Eq
  <2> QED BY <1>3, <1>4
<1> HIDE DEF bits
<1>6. bits[0] = a /\ \A j \in 1 .. 8 : bits[j] = Crc32Bit(bits[j - 1])
  BY <1>5
<1>7. bits = [i \in 0 .. 8 |-> bits[i]]
  BY <1>5
<1>8. bits \in [0 .. 8 -> Register32]
  <2>1. \A j \in 1 .. 8 : bits[j - 1] \in Register32 => bits[j] \in Register32
    BY <1>6, Bit32
  <2> QED BY <1>1, <1>6, <1>7, <2>1, TypedRun
<1>9. Crc32Byte(c, byte) = bits[8]
  BY DEF Crc32Byte, bits, Bits32
<1> QED BY <1>1, <1>6, <1>8, <1>9 DEF bits

Run32(crc, data) ==
  /\ crc \in [0 .. Len(data) -> Register32]
  /\ crc[0] = AllOnes(32)
  /\ \A i \in 1 .. Len(data) : crc[i] = Crc32Byte(crc[i - 1], data[i])
  /\ BitXor(crc[Len(data)], AllOnes(32)) = boot_crc32(data)

LEMMA Bytes32 ==
  ASSUME NEW data \in Seq(ByteBits)
  PROVE  \E crc : Run32(crc, data)
<1> DEFINE n == Len(data)
           next == [crc \in SUBSET AllOnes(32) |-> [byte \in SUBSET AllOnes(8) |-> Crc32Byte(crc, byte)]]
           step == [i \in 1 .. n |-> [r \in Register32 |-> Crc32Byte(r, data[i])]]
           Eq(f) == [i \in 0 .. n |-> IF i = 0 THEN AllOnes(32) ELSE next[f[i - 1]][data[i]]]
           crc == CHOOSE f : f = Eq(f)
<1>1. n \in Nat /\ AllOnes(32) \in Register32 /\ \A i \in 1 .. n : data[i] \in ByteBits
  BY DEF AllOnes, Register32
<1>2. AllOnes(32) = 0 .. 31 /\ AllOnes(8) = 0 .. 7
  BY DEF AllOnes
<1>3. \A r \in Register32, byte \in ByteBits : next[r][byte] = Crc32Byte(r, byte) /\ Crc32Byte(r, byte) \in Register32
  BY <1>2, Byte32 DEF Register32, ByteBits
<1>4. step \in [1 .. n -> [Register32 -> Register32]]
  BY <1>1, <1>3
<1> HIDE DEF next, n
<1>5. \E f : f = Eq(f)
  <2>1. \E f : Iterates(f, n, Register32, AllOnes(32), step)
    <3> HIDE DEF step
    <3> QED BY <1>1, <1>4, Iterate
  <2>2. PICK f : Iterates(f, n, Register32, AllOnes(32), step)
    BY <2>1
  <2>3. f \in [0 .. n -> Register32] /\ f[0] = AllOnes(32)
    BY <2>2 DEF Iterates
  <2>4. ASSUME NEW i \in 1 .. n PROVE f[i] = next[f[i - 1]][data[i]]
    <3>1. f[i - 1] \in Register32 /\ f[i] = step[i][f[i - 1]]
      BY <1>1, <2>2, <2>3 DEF Iterates
    <3> QED BY <1>1, <1>3, <3>1
  <2>5. f = Eq(f)
    BY <2>3, <2>4
  <2> QED BY <2>5
<1>6. crc = Eq(crc)
  <2> HIDE DEF Eq
  <2> QED BY <1>5
<1>7. boot_crc32(data) = BitXor(crc[n], AllOnes(32))
  BY DEF boot_crc32, next, n
<1> HIDE DEF crc
<1>8. crc[0] = AllOnes(32) /\ \A i \in 1 .. n : crc[i] = next[crc[i - 1]][data[i]]
  BY <1>1, <1>6
<1>9. crc \in [0 .. n -> Register32]
  <2>1. ASSUME NEW i \in 1 .. n, crc[i - 1] \in Register32 PROVE crc[i] \in Register32
    <3>1. data[i] \in ByteBits /\ crc[i] = next[crc[i - 1]][data[i]]
      BY <1>1, <1>8
    <3>2. next[crc[i - 1]][data[i]] \in Register32
      BY <1>3, <2>1, <3>1, Zenon
    <3> QED BY <3>1, <3>2, Zenon
  <2>2. crc = [i \in 0 .. n |-> crc[i]]
    BY <1>6
  <2>3. n \in Nat /\ crc[0] \in Register32 /\ \A i \in 1 .. n : crc[i - 1] \in Register32 => crc[i] \in Register32
    BY <1>1, <1>8, <2>1
  <2> QED BY <2>2, <2>3, TypedRun, Zenon
<1>10. \A i \in 1 .. n : crc[i] = Crc32Byte(crc[i - 1], data[i])
  <2> TAKE i \in 1 .. n
  <2>1. crc[i - 1] \in Register32
    BY <1>1, <1>9
  <2> QED BY <1>1, <1>3, <1>8, <2>1
<1>11. Run32(crc, data)
  BY <1>7, <1>8, <1>9, <1>10 DEF Run32, n
<1> QED BY <1>11

\* A byte enters at the low end of the register: mirrored, that is the top end.
LEMMA MirrorByte ==
  ASSUME NEW byte \in ByteBits
  PROVE  /\ byte \in Register32
         /\ Mirror(byte) = Shifted({7 - b : b \in byte}, 32 - 8)
<1>1. \A b \in byte : 31 - b = (7 - b) + (32 - 8)
  BY DEF ByteBits
<1>2. byte \in Register32
  BY DEF ByteBits, Register32
<1>3. Mirror(byte) = {31 - b : b \in byte}
  BY Zenon DEF Mirror
<1>4. Shifted({7 - b : b \in byte}, 32 - 8) = {(7 - b) + (32 - 8) : b \in byte}
  BY DEF Shifted
<1> QED BY <1>1, <1>2, <1>3, <1>4

(* boot_crc32(), whose loop runs on mirrored words, divides the message,   *)
(* low bits first, by the generator of CRC32: for every sequence of bytes  *)
(* its result is the remainder read backwards and inverted.                *)
THEOREM Crc32Divides ==
  ASSUME NEW data \in Seq(ByteBits)
  PROVE  boot_crc32(data) = Crc32Spec(data)
<1> DEFINE n == Len(data)
           m == [k \in 1 .. n |-> {7 - b : b \in data[k]}]
<1>1. n \in Nat /\ DOMAIN data = 1 .. n /\ \A i \in 1 .. n : data[i] \in ByteBits
  OBVIOUS
<1>m. m \in [1 .. n -> SUBSET (0 .. 7)]
  <2>1. \A i \in 1 .. n : {7 - b : b \in data[i]} \in SUBSET (0 .. 7)
    BY <1>1 DEF ByteBits
  <2> HIDE DEF n
  <2> QED BY <2>1
<1>2. PICK c : Run32(c, data)
  BY Bytes32
<1> DEFINE crc == [i \in 0 .. n |-> Mirror(c[i])]
           bit == [i \in 1 .. n |-> [j \in 0 .. 8 |-> Mirror(Bits32(c[i - 1], data[i])[j])]]
<1>3. \A i \in 1 .. n : c[i - 1] \in Register32 /\ c[i] \in Register32 /\ c[i] = Crc32Byte(c[i - 1], data[i])
  BY <1>1, <1>2 DEF Run32
<1>c. c \in [0 .. n -> Register32] /\ c[0] = AllOnes(32) /\ c[n] \in Register32
  BY <1>1, <1>2 DEF Run32
<1>4. Message(m, n) = LowFirst(data)
  <2> DEFINE Part(i) == Shifted(m[i], 8 * (n - i))
             Sent(i) == {8 * (n - i) + 7 - b : b \in data[i]}
  <2>1. \A i \in 1 .. n : Part(i) = Sent(i)
    <3> TAKE i \in 1 .. n
    <3>1. \A b \in data[i] : (7 - b) + 8 * (n - i) = 8 * (n - i) + 7 - b
      BY <1>1 DEF ByteBits
    <3>2. m[i] = {7 - b : b \in data[i]}
      OBVIOUS
    <3> QED BY <3>1, <3>2 DEF Shifted
  <2>2. Message(m, n) = UNION {Part(i) : i \in 1 .. n}
    BY DEF Message
  <2>3. LowFirst(data) = UNION {Sent(i) : i \in 1 .. n}
    BY <1>1 DEF LowFirst
  <2> HIDE DEF Part, Sent
  <2> QED BY <2>1, <2>2, <2>3
<1>5. Loop(crc, bit, m, Mirrored32, 32, n)
  <2>1. bit \in [1 .. n -> [0 .. 8 -> Register32]]
    <3>1. \A i \in 1 .. n, j \in 0 .. 8 : Mirror(Bits32(c[i - 1], data[i])[j]) \in Register32
      <4> TAKE i \in 1 .. n, j \in 0 .. 8
      <4>1. Bits32(c[i - 1], data[i]) \in [0 .. 8 -> Register32]
        BY <1>1, <1>3, Byte32
      <4>2. Bits32(c[i - 1], data[i])[j] \in Register32
        BY <4>1
      <4> QED BY <4>2, MirrorType
    <3> HIDE DEF n
    <3> QED BY <3>1
  <2>2. ASSUME NEW i \in 1 .. n
        PROVE  /\ bit[i][0] = BitXor(crc[i - 1], Shifted(m[i], 32 - 8))
               /\ \A j \in 1 .. 8 : bit[i][j] = LeftBit(bit[i][j - 1], Mirrored32, 32)
               /\ crc[i] = bit[i][8]
    <3> DEFINE b == Bits32(c[i - 1], data[i])
    <3>1. /\ \A j \in 0 .. 8 : bit[i][j] = Mirror(b[j])
          /\ m[i] = {7 - k : k \in data[i]}
          /\ crc[i - 1] = Mirror(c[i - 1]) /\ crc[i] = Mirror(c[i])
      BY <1>1
    <3>2. /\ b \in [0 .. 8 -> Register32] /\ b[0] = BitXor(c[i - 1], data[i])
          /\ \A j \in 1 .. 8 : b[j] = Crc32Bit(b[j - 1])
          /\ c[i] = b[8]
      BY <1>1, <1>3, Byte32
    <3> HIDE DEF b, bit, m, crc
    <3>3. bit[i][0] = BitXor(crc[i - 1], Shifted(m[i], 32 - 8))
      <4>1. data[i] \in Register32 /\ Mirror(data[i]) = Shifted(m[i], 32 - 8)
        BY <1>1, <3>1, MirrorByte
      <4>2. Mirror(b[0]) = BitXor(Mirror(c[i - 1]), Mirror(data[i]))
        BY <1>3, <3>2, <4>1, MirrorXor
      <4> QED BY <3>1, <4>1, <4>2
    <3>4. ASSUME NEW j \in 1 .. 8 PROVE bit[i][j] = LeftBit(bit[i][j - 1], Mirrored32, 32)
      <4>1. b[j - 1] \in Register32 /\ b[j] = Crc32Bit(b[j - 1])
        BY <3>2
      <4>2. bit[i][j] = Mirror(b[j]) /\ bit[i][j - 1] = Mirror(b[j - 1])
        BY <3>1
      <4> QED BY <4>1, <4>2, Bit32
    <3> QED BY <3>1, <3>2, <3>3, <3>4
  <2>3. crc \in [0 .. n -> Register32] /\ crc[0] = AllOnes(32)
    <3>1. \A i \in 0 .. n : c[i] \in Register32
      BY <1>c
    <3>2. crc \in [0 .. n -> Register32]
      <4> HIDE DEF n
      <4> QED BY <3>1, MirrorType
    <3>3. Mirror(AllOnes(32)) = AllOnes(32)
      <4>1. AllOnes(32) \in Register32 /\ \A x \in 0 .. 31 : x \in AllOnes(32) /\ 31 - x \in AllOnes(32)
        BY DEF AllOnes, Register32
      <4>2. Mirror(AllOnes(32)) \in Register32 /\ \A x \in 0 .. 31 : x \in Mirror(AllOnes(32)) <=> x \in AllOnes(32)
        BY <4>1, InMirror, MirrorType
      <4> HIDE DEF AllOnes
      <4> QED BY <4>1, <4>2, SameBits
    <3> QED BY <1>1, <1>c, <3>2, <3>3
  <2>4. 32 - 1 = 31
    OBVIOUS
  <2> HIDE DEF bit, m, n, crc
  <2> QED BY <2>1, <2>2, <2>3, <2>4 DEF Loop, Register32
<1>6. crc[n] = Remainder(Dividend(Message(m, n), 32, n), {32} \cup Mirrored32, 32, 8 * n + 32)
  <2>1. Mirrored32 \in SUBSET (0 .. 32 - 1) /\ 32 \in Nat /\ 32 >= 8
    BY Generator32 DEF Register32
  <2> HIDE DEF bit, m, n, crc
  <2> QED BY <1>1, <1>m, <1>5, <2>1, LoopDivides
<1>7. crc[n] = Mirror(c[n])
  BY <1>1
<1>8. Mirror(crc[n]) = c[n]
  BY <1>c, <1>7, MirrorTwice
<1>9. boot_crc32(data) = BitXor(c[n], AllOnes(32))
  BY <1>2 DEF Run32
<1> HIDE DEF crc, bit, m
<1> QED BY <1>4, <1>6, <1>8, <1>9, Generator32 DEF Crc32Spec, Mirror

-------------------------------------------------------------------------------
(* What the CRC16 detects.                                                 *)

\* The registers agree on their k low bits and on their 8 - k high bits.
Agree(c, d, k) == \A x \in 0 .. 15 : x < k \/ x >= 8 + k => (x \in c <=> x \in d)

LEMMA InCrc16Bit ==
  ASSUME NEW c \in Register16, NEW x \in 0 .. 15
  PROVE  x \in Crc16Bit(c) <=> ~ (x - 1 \in c <=> (15 \in c /\ x \in Poly16))
<1>1. c \in SUBSET (0 .. 16 - 1) /\ 16 \in Nat /\ 1 \in Nat /\ x \in Int /\ x < 16
  BY DEF Register16
<1>2. x \in ShiftLeft(c, 1, 16) <=> x - 1 \in c
  BY <1>1, InShiftLeft
<1> HIDE DEF Register16
<1> QED BY <1>2, InXor DEF Crc16Bit

\* A step taken backwards.
LEMMA BackStep ==
  ASSUME NEW c \in Register16, NEW d \in Register16, NEW k \in 1 .. 8, Agree(Crc16Bit(c), Crc16Bit(d), k)
  PROVE  Agree(c, d, k - 1)
<1>1. 15 \in c <=> 15 \in d
  <2>1. 0 \in Crc16Bit(c) <=> 0 \in Crc16Bit(d)
    BY DEF Agree
  <2>2. 0 - 1 \notin c /\ 0 - 1 \notin d /\ 0 \in Poly16
    BY DEF Register16, Poly16
  <2> QED BY <2>1, <2>2, InCrc16Bit
<1>2. ASSUME NEW x \in 0 .. 15, x < k - 1 \/ x >= 8 + (k - 1) PROVE x \in c <=> x \in d
  <2>1. CASE x = 15
    BY <1>1, <2>1
  <2>2. CASE x # 15
    <3>1. x + 1 \in 0 .. 15 /\ (x + 1 < k \/ x + 1 >= 8 + k) /\ (x + 1) - 1 = x
      BY <1>2, <2>2
    <3>2. x + 1 \in Crc16Bit(c) <=> x + 1 \in Crc16Bit(d)
      BY <3>1 DEF Agree
    <3> QED BY <1>1, <3>1, <3>2, InCrc16Bit
  <2> QED BY <2>1, <2>2
<1> QED BY <1>2 DEF Agree

LEMMA BackBit ==
  ASSUME NEW c \in Register16, NEW d \in Register16, Crc16Bit(c) = Crc16Bit(d)
  PROVE  c = d
<1>1. 15 \in c <=> 15 \in d
  <2>1. 0 - 1 \notin c /\ 0 - 1 \notin d /\ 0 \in Poly16
    BY DEF Register16, Poly16
  <2> QED BY <2>1, InCrc16Bit
<1>2. ASSUME NEW x \in 0 .. 14 PROVE x \in c <=> x \in d
  <2>1. x + 1 \in 0 .. 15 /\ (x + 1) - 1 = x
    OBVIOUS
  <2> QED BY <1>1, <2>1, InCrc16Bit
<1>3. \A x \in 0 .. 15 : x \in c <=> x \in d
  <2> TAKE x \in 0 .. 15
  <2>1. x = 15 \/ x \in 0 .. 14
    OBVIOUS
  <2> QED BY <1>1, <1>2, <2>1
<1> QED BY <1>3 DEF Register16

\* A byte taken back.
LEMMA BackByte ==
  ASSUME NEW c \in Register16, NEW d \in Register16, NEW a \in ByteBits, NEW b \in ByteBits
  PROVE  /\ Agree(Crc16Byte(c, a), Crc16Byte(d, b), 8) => Agree(BitXor(c, Shifted(a, 8)), BitXor(d, Shifted(b, 8)), 0)
         /\ Crc16Byte(c, a) = Crc16Byte(d, b) => BitXor(c, Shifted(a, 8)) = BitXor(d, Shifted(b, 8))
<1> DEFINE p == Bits16(c, a)
           q == Bits16(d, b)
<1>1. /\ p \in [0 .. 8 -> Register16] /\ p[0] = BitXor(c, Shifted(a, 8)) /\ Crc16Byte(c, a) = p[8]
      /\ \A j \in 1 .. 8 : p[j] = Crc16Bit(p[j - 1])
  BY Byte16
<1>2. /\ q \in [0 .. 8 -> Register16] /\ q[0] = BitXor(d, Shifted(b, 8)) /\ Crc16Byte(d, b) = q[8]
      /\ \A j \in 1 .. 8 : q[j] = Crc16Bit(q[j - 1])
  BY Byte16
<1> HIDE DEF p, q
<1>3. ASSUME NEW i \in 1 .. 8
      PROVE  /\ 8 - i \in 0 .. 7 /\ 8 - (i - 1) \in 1 .. 8 /\ (8 - (i - 1)) - 1 = 8 - i
             /\ p[8 - i] \in Register16 /\ q[8 - i] \in Register16
             /\ p[8 - (i - 1)] = Crc16Bit(p[8 - i]) /\ q[8 - (i - 1)] = Crc16Bit(q[8 - i])
  <2>1. /\ 8 - i \in 0 .. 7 /\ 8 - i \in 0 .. 8 /\ 8 - (i - 1) \in 1 .. 8 /\ (8 - (i - 1)) - 1 = 8 - i
    OBVIOUS
  <2>2. p[8 - (i - 1)] = Crc16Bit(p[8 - i]) /\ q[8 - (i - 1)] = Crc16Bit(q[8 - i])
    BY <1>1, <1>2, <2>1
  <2> QED BY <1>1, <1>2, <2>1, <2>2
<1>4. ASSUME Agree(p[8], q[8], 8) PROVE Agree(p[0], q[0], 0)
  <2> DEFINE S == {i \in 0 .. 8 : Agree(p[8 - i], q[8 - i], 8 - i)}
  <2>1. 0 \in S
    <3>1. 8 - 0 = 8
      OBVIOUS
    <3> QED BY <1>4, <3>1
  <2>2. ASSUME NEW i \in 1 .. 8, i - 1 \in S PROVE i \in S
    <3>1. Agree(p[8 - (i - 1)], q[8 - (i - 1)], 8 - (i - 1))
      BY <2>2
    <3>2. Agree(p[8 - i], q[8 - i], (8 - (i - 1)) - 1)
      BY <1>3, <3>1, BackStep
    <3>3. Agree(p[8 - i], q[8 - i], 8 - i)
      BY <1>3, <3>2
    <3> QED BY <3>3
  <2>3. 8 \in S
    <3> HIDE DEF S
    <3>1. 0 .. 8 \subseteq S
      BY <2>1, <2>2, IntervalInduction
    <3> QED BY <3>1
  <2>4. 8 - 8 = 0
    OBVIOUS
  <2> QED BY <2>3, <2>4
<1>5. ASSUME p[8] = q[8] PROVE p[0] = q[0]
  <2> DEFINE S == {i \in 0 .. 8 : p[8 - i] = q[8 - i]}
  <2>1. 0 \in S
    BY <1>5
  <2>2. ASSUME NEW i \in 1 .. 8, i - 1 \in S PROVE i \in S
    <3>1. Crc16Bit(p[8 - i]) = Crc16Bit(q[8 - i])
      BY <1>3, <2>2
    <3>2. p[8 - i] = q[8 - i]
      BY <1>3, <3>1, BackBit
    <3> QED BY <3>2
  <2>3. 8 \in S
    <3> HIDE DEF S
    <3>1. 0 .. 8 \subseteq S
      BY <2>1, <2>2, IntervalInduction
    <3> QED BY <3>1
  <2>4. 8 - 8 = 0
    OBVIOUS
  <2> QED BY <2>3, <2>4
<1> QED BY <1>1, <1>2, <1>4, <1>5

LEMMA InHighByte ==
  ASSUME NEW c \in Register16, NEW a \in ByteBits, NEW x \in 0 .. 15
  PROVE  x \in BitXor(c, Shifted(a, 8)) <=> ~ (x \in c <=> x - 8 \in a)
<1>1. a \in SUBSET Int /\ 8 \in Int /\ x \in Int
  BY DEF ByteBits
<1>2. x \in Shifted(a, 8) <=> x - 8 \in a
  BY <1>1, InShifted
<1> QED BY <1>2, InXor

\* Of three facts about a step, the register before it, the byte and the register after it, two give the third.
LEMMA SameByte ==
  ASSUME NEW c \in Register16, NEW a \in ByteBits, NEW b \in ByteBits,
         Agree(BitXor(c, Shifted(a, 8)), BitXor(c, Shifted(b, 8)), 0)
  PROVE  a = b
<1>1. ASSUME NEW x \in 0 .. 7 PROVE x \in a <=> x \in b
  <2>1. x + 8 \in 0 .. 15 /\ x + 8 >= 8 + 0 /\ (x + 8) - 8 = x
    OBVIOUS
  <2>2. x + 8 \in BitXor(c, Shifted(a, 8)) <=> x + 8 \in BitXor(c, Shifted(b, 8))
    BY <2>1 DEF Agree
  <2> QED BY <2>1, <2>2, InHighByte
<1> QED BY <1>1 DEF ByteBits

LEMMA SameBefore ==
  ASSUME NEW c \in Register16, NEW d \in Register16, NEW a \in ByteBits, Crc16Byte(c, a) = Crc16Byte(d, a)
  PROVE  c = d
<1>1. BitXor(c, Shifted(a, 8)) = BitXor(d, Shifted(a, 8))
  BY BackByte
<1>2. \A x \in 0 .. 15 : x \in c <=> x \in d
  BY <1>1, InHighByte
<1> QED BY <1>2 DEF Register16

\* Two bytes taken in one after the other leave 65536 different registers.
LEMMA TwoBytes ==
  ASSUME NEW r \in Register16, NEW a \in ByteBits, NEW b \in ByteBits, NEW a1 \in ByteBits, NEW b1 \in ByteBits,
         Crc16Byte(Crc16Byte(r, a), b) = Crc16Byte(Crc16Byte(r, a1), b1)
  PROVE  a = a1 /\ b = b1
<1> DEFINE c == Crc16Byte(r, a)
           d == Crc16Byte(r, a1)
<1>1. c \in Register16 /\ d \in Register16
  BY Byte16
<1>2. a = a1
  <2> HIDE DEF c, d
  <2>1. BitXor(c, Shifted(b, 8)) = BitXor(d, Shifted(b1, 8))
    BY <1>1, BackByte DEF c, d
  <2>2. ASSUME NEW x \in 0 .. 7 PROVE x \in c <=> x \in d
    <3>1. x - 8 \notin b /\ x - 8 \notin b1 /\ x \in 0 .. 15
      BY DEF ByteBits
    <3> QED BY <1>1, <2>1, <3>1, InHighByte
  <2>3. Agree(c, d, 8)
    BY <2>2 DEF Agree
  <2>4. Agree(BitXor(r, Shifted(a, 8)), BitXor(r, Shifted(a1, 8)), 0)
    BY <2>3, BackByte DEF c, d
  <2> QED BY <2>4, SameByte
<1>3. BitXor(c, Shifted(b, 8)) = BitXor(c, Shifted(b1, 8))
  BY <1>1, <1>2, BackByte
<1>4. Agree(BitXor(c, Shifted(b, 8)), BitXor(c, Shifted(b1, 8)), 0)
  BY <1>3 DEF Agree
<1> QED BY <1>1, <1>2, <1>4, SameByte

(* Two messages that differ in two adjacent bytes at most do not have the  *)
(* same CRC16: boot_record_crc16() notices any damage of 16 such bits.     *)
THEOREM DetectsBurst ==
  ASSUME NEW m \in Seq(ByteBits), NEW k \in Seq(ByteBits), Len(m) = Len(k),
         NEW at \in 1 .. Len(m) - 1, \A i \in 1 .. Len(m) : i \notin {at, at + 1} => m[i] = k[i],
         boot_record_crc16(m) = boot_record_crc16(k)
  PROVE  m = k
<1> DEFINE n == Len(m)
<1>1. n \in Nat /\ n = Len(k) /\ at \in 1 .. n - 1 /\ \A i \in 1 .. n : m[i] \in ByteBits /\ k[i] \in ByteBits
  OBVIOUS
<1>2. PICK p : Run16(p, m)
  BY Bytes16
<1>3. PICK q : Run16(q, k)
  BY Bytes16
<1> HIDE DEF n
<1>4. /\ p \in [0 .. n -> Register16] /\ q \in [0 .. n -> Register16] /\ p[0] = q[0] /\ p[n] = q[n]
      /\ \A i \in 1 .. n : p[i] = Crc16Byte(p[i - 1], m[i])
      /\ \A i \in 1 .. n : q[i] = Crc16Byte(q[i - 1], k[i])
  BY <1>1, <1>2, <1>3 DEF Run16, n
<1>5. p[at - 1] = q[at - 1]
  <2> DEFINE S == {i \in 0 .. at - 1 : p[i] = q[i]}
  <2>1. at - 1 \in Nat /\ 0 \in S
    BY <1>1, <1>4
  <2>2. ASSUME NEW i \in 1 .. at - 1, i - 1 \in S PROVE i \in S
    <3>1. i \in 1 .. n /\ i \notin {at, at + 1}
      BY <1>1
    <3>2. m[i] = k[i] /\ p[i] = Crc16Byte(p[i - 1], m[i]) /\ q[i] = Crc16Byte(q[i - 1], k[i])
      BY <1>4, <3>1 DEF n
    <3> QED BY <2>2, <3>2
  <2> HIDE DEF S
  <2>3. 0 .. at - 1 \subseteq S
    BY <2>1, <2>2, IntervalInduction
  <2> QED BY <2>1, <2>3 DEF S
<1>6. p[at + 1] = q[at + 1]
  <2> DEFINE S == {i \in 0 .. n - (at + 1) : p[n - i] = q[n - i]}
  <2>1. n - (at + 1) \in Nat /\ 0 \in S
    BY <1>1, <1>4
  <2>2. ASSUME NEW i \in 1 .. n - (at + 1), i - 1 \in S PROVE i \in S
    <3> DEFINE j == n - (i - 1)
    <3>1. j \in 1 .. n /\ j \notin {at, at + 1} /\ j - 1 = n - i /\ j - 1 \in 0 .. n
      BY <1>1
    <3>2. p[j] = q[j]
      BY <2>2
    <3> HIDE DEF j
    <3>3. m[j] = k[j] /\ p[j] = Crc16Byte(p[j - 1], m[j]) /\ q[j] = Crc16Byte(q[j - 1], k[j])
      BY <1>4, <3>1 DEF n
    <3>4. p[j - 1] \in Register16 /\ q[j - 1] \in Register16 /\ m[j] \in ByteBits
      BY <1>1, <1>4, <3>1
    <3>5. p[j - 1] = q[j - 1]
      BY <3>2, <3>3, <3>4, SameBefore
    <3> QED BY <3>1, <3>5
  <2>3. n - (n - (at + 1)) = at + 1
    BY <1>1
  <2> HIDE DEF S
  <2>4. 0 .. n - (at + 1) \subseteq S
    BY <2>1, <2>2, IntervalInduction
  <2>5. n - (at + 1) \in S
    BY <2>1, <2>4
  <2> QED BY <2>3, <2>5 DEF S
<1>7. m[at] = k[at] /\ m[at + 1] = k[at + 1]
  <2>1. at \in 1 .. n /\ at + 1 \in 1 .. n /\ (at + 1) - 1 = at /\ at - 1 \in 0 .. n
    BY <1>1
  <2>2. p[at - 1] \in Register16
    BY <1>4, <2>1
  <2>3. /\ p[at + 1] = Crc16Byte(Crc16Byte(p[at - 1], m[at]), m[at + 1])
        /\ q[at + 1] = Crc16Byte(Crc16Byte(p[at - 1], k[at]), k[at + 1])
    BY <1>4, <1>5, <2>1
  <2>4. m[at] \in ByteBits /\ m[at + 1] \in ByteBits /\ k[at] \in ByteBits /\ k[at + 1] \in ByteBits
    BY <1>1, <2>1
  <2>5. Crc16Byte(Crc16Byte(p[at - 1], m[at]), m[at + 1]) = Crc16Byte(Crc16Byte(p[at - 1], k[at]), k[at + 1])
    BY <1>6, <2>3
  <2> QED BY <2>2, <2>4, <2>5, TwoBytes
<1>8. \A i \in 1 .. n : m[i] = k[i]
  BY <1>7 DEF n
<1>9. Len(m) = Len(k) /\ \A i \in 1 .. Len(m) : m[i] = k[i]
  BY <1>1, <1>8 DEF n
<1> QED BY <1>9, SeqEqual

===============================================================================
