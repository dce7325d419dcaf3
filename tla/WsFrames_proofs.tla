---------------------------- MODULE WsFrames_proofs ----------------------------
(***************************************************************************)
(* Proofs about WsFrames: the frames found in the bytes are the ones sent, *)
(* wherever the reads cut them, and the answers are read as they were      *)
(* meant, for any frames, lengths, reads and base.                         *)
(*                                                                         *)
(* Each recursive function is first shown to exist (Iterated) and then     *)
(* known by its equation.  Parsed says what the header of a frame is read  *)
(* as; the answers are frames of the same form, so it serves both halves.  *)
(***************************************************************************)
EXTENDS WsFrames, FiniteSetTheorems, SequenceTheorems, WellFoundedInduction, TLAPS

-----------------------------------------------------------------------------
(* Numbers, and the functions defined by recursion on them. *)

\* Strong induction on numbers, for a set of them.
LEMMA NatInduct ==
    ASSUME NEW S, \A n \in Nat : (\A m \in 0..(n - 1) : m \in S) => n \in S
    PROVE  Nat \subseteq S
<1>. DEFINE Bad == {n \in Nat : n \notin S}
<1>1. SUFFICES ASSUME Bad # {} PROVE FALSE
  OBVIOUS
<1>2. PICK n \in Bad : \A m \in Bad : <<m, n>> \notin OpToRel(<, Nat)
  <2>. HIDE DEF Bad
  <2>1. Bad \subseteq Nat
    BY DEF Bad
  <2>. QED
    BY <1>1, <2>1, NatLessThanWellFounded, WFMin, Zenon
<1>3. n \in Nat /\ n \notin S
  OBVIOUS
<1>4. \A m \in Bad : ~(m < n)
  BY <1>2, <1>3 DEF OpToRel
<1>5. \A m \in 0..(n - 1) : m \in S
  BY <1>3, <1>4
<1>. QED
  BY <1>3, <1>5

\* f begins with a and goes on, up to n, from its last value.
Goes(f, V, a, n, step) ==
    /\ f \in [0..n -> V] /\ f[0] = a
    /\ \A k \in 1..n : f[k] = step[k][f[k - 1]]

\* There is such a function.
LEMMA Iterated ==
    ASSUME NEW V, NEW a \in V, NEW n \in Nat, NEW step \in [1..n -> [V -> V]]
    PROVE  \E f : Goes(f, V, a, n, step)
<1>. DEFINE Upto(f, m) == /\ f \in [0..m -> V] /\ f[0] = a
                          /\ \A k \in 1..m : f[k] = step[k][f[k - 1]]
            S == {m \in Nat : m <= n => \E f : Upto(f, m)}
<1>1. ASSUME NEW m \in Nat, \A l \in 0..(m - 1) : l \in S PROVE m \in S
  <2>1. CASE m = 0
    <3>1. Upto([k \in 0..0 |-> a], 0)
      OBVIOUS
    <3>. QED
      BY <2>1, <3>1
  <2>2. CASE m > 0 /\ m <= n
    <3>1. m - 1 \in 0..(m - 1) /\ m - 1 \in Nat /\ m - 1 <= n /\ m \in 1..n
      BY <2>2
    <3>2. PICK f : Upto(f, m - 1)
      BY <1>1, <3>1
    <3>. DEFINE g == [k \in 0..m |-> IF k = m THEN step[m][f[m - 1]] ELSE f[k]]
    <3>3. f[m - 1] \in V /\ step[m][f[m - 1]] \in V
      BY <3>1, <3>2
    <3>4. \A k \in 0..m : k # m => k \in 0..(m - 1) /\ g[k] = f[k] /\ f[k] \in V
      BY <3>1, <3>2
    <3>5. g[m] = step[m][f[m - 1]] /\ g \in [0..m -> V]
      BY <3>3, <3>4, <2>2
    <3>6. g[0] = a
      BY <2>2, <3>2, <3>4
    <3>7. ASSUME NEW k \in 1..m PROVE g[k] = step[k][g[k - 1]]
      <4>. HIDE DEF g
      <4>1. k - 1 \in 0..m /\ k - 1 # m /\ k \in 0..m
        OBVIOUS
      <4>2. g[k - 1] = f[k - 1]
        BY <4>1, <3>4
      <4>3. CASE k = m
        BY <4>2, <4>3, <3>5
      <4>4. CASE k # m
        <5>1. k \in 1..(m - 1)
          BY <4>4
        <5>2. f[k] = step[k][f[k - 1]]
          BY <3>2, <5>1
        <5>. QED
          BY <4>1, <4>2, <4>4, <5>2, <3>4
      <4>. QED
        BY <4>3, <4>4
    <3>. HIDE DEF g
    <3>8. Upto(g, m)
      BY <3>5, <3>6, <3>7
    <3>. QED
      BY <3>8
  <2>. QED
    BY <2>1, <2>2
<1>. HIDE DEF S
<1>2. n \in S
  BY <1>1, NatInduct
<1>3. PICK f : Upto(f, n)
  BY <1>2 DEF S
<1>. QED
  BY <1>3 DEF Goes

LEMMA BaseFacts ==
    /\ Base \in Nat /\ Base >= 8 /\ Masked \in Nat /\ Masked >= 4 /\ Base = Masked + Masked
    /\ Bits16 = Masked - 2 /\ Bits64 = Masked - 1
    /\ Digit \subseteq Nat /\ Base - 1 \in Digit /\ 0 \in Digit
BY BaseAssumption DEF Masked, Bits16, Bits64, Digit

LEMMA DivMod ==
    ASSUME NEW n \in Nat
    PROVE  /\ n \div Base \in Nat /\ n % Base \in Digit /\ n \div Base <= n
           /\ n = (n \div Base) * Base + (n % Base)
           /\ n < Base => n \div Base = 0 /\ n % Base = n
           /\ n \div Base < Base <=> n < Base * Base
<1>1. CASE Base = 8
  BY <1>1 DEF Digit
<1>2. CASE Base = 16
  BY <1>2 DEF Digit
<1>3. CASE Base = 32
  BY <1>3 DEF Digit
<1>4. CASE Base = 64
  BY <1>4 DEF Digit
<1>5. CASE Base = 128
  BY <1>5 DEF Digit
<1>6. CASE Base = 256
  BY <1>6 DEF Digit
<1>. QED
  BY <1>1, <1>2, <1>3, <1>4, <1>5, <1>6, BaseAssumption

\* A number shifted to the right, digit by digit.
LEMMA ShiftedIs ==
    ASSUME NEW n \in Nat
    PROVE  /\ Shifted(n) \in [0..7 -> Nat] /\ Shifted(n)[0] = n
           /\ \A k \in 1..7 : Shifted(n)[k] = Shifted(n)[k - 1] \div Base
<1>. DEFINE IsBy(by) == by = [k \in 0..7 |-> IF k = 0 THEN n ELSE by[k - 1] \div Base]
            step == [k \in 1..7 |-> [v \in Nat |-> v \div Base]]
<1>1. step \in [1..7 -> [Nat -> Nat]]
  BY DivMod
<1>2. \A k \in 1..7 : \A v \in Nat : step[k][v] = v \div Base
  OBVIOUS
<1>. HIDE DEF step
<1>3. PICK f : Goes(f, Nat, n, 7, step)
  BY <1>1, Iterated
<1>4. \A k \in 1..7 : f[k] = f[k - 1] \div Base
  <2>. TAKE k \in 1..7
  <2>1. f[k - 1] \in Nat /\ f[k] = step[k][f[k - 1]]
    BY <1>3 DEF Goes
  <2>. QED
    BY <1>2, <2>1
<1>5. IsBy(f)
  BY <1>3, <1>4 DEF Goes
<1>6. Shifted(n) = CHOOSE by : IsBy(by)
  BY DEF Shifted
<1>7. IsBy(Shifted(n))
  <2>. HIDE DEF IsBy
  <2>. QED
    BY <1>5, <1>6
<1>8. /\ DOMAIN Shifted(n) = 0..7 /\ Shifted(n)[0] = n
      /\ \A k \in 1..7 : Shifted(n)[k] = Shifted(n)[k - 1] \div Base
  BY <1>7
<1>. DEFINE by == Shifted(n)
<1>9. \A k \in 0..7 : by[k] \in Nat
  <2>. HIDE DEF by
  <2>0. by[0] = n /\ \A k \in 1..7 : by[k - 1] \in Nat => by[k] \in Nat
    BY <1>8, DivMod DEF by
  <2>1. by[0] \in Nat /\ by[1] \in Nat /\ by[2] \in Nat /\ by[3] \in Nat
    BY <2>0
  <2>2. by[4] \in Nat /\ by[5] \in Nat /\ by[6] \in Nat /\ by[7] \in Nat
    BY <2>0, <2>1
  <2>. QED
    BY <2>1, <2>2
<1>. QED
  BY <1>7, <1>8, <1>9

LEMMA DigitsAre ==
    ASSUME NEW n \in Nat, NEW k \in {2, 8}
    PROVE  /\ Digits(n, k) \in Seq(Digit) /\ Len(Digits(n, k)) = k
           /\ \A i \in 1..k : Digits(n, k)[i] = Shifted(n)[k - i] % Base
<1>1. \A i \in 1..k : Shifted(n)[k - i] % Base \in Digit
  <2>. TAKE i \in 1..k
  <2>1. k - i \in 0..7
    OBVIOUS
  <2>. QED
    BY <2>1, ShiftedIs, DivMod, SMTT(30)
<1>. QED
  BY <1>1 DEF Digits

-----------------------------------------------------------------------------
(* A length, as it is read from the bytes of a long form. *)

\* acc stands for n: it is n, or both are larger than MaxFrame.
StandsFor(acc, n) == acc = n \/ (acc > MaxFrame /\ n > MaxFrame)

LEMMA ShiftType ==
    ASSUME NEW acc \in Nat, NEW d \in Nat
    PROVE  Shift(acc, d) \in Nat
BY BaseFacts DEF Shift

LEMMA ShiftStands ==
    ASSUME NEW n \in Nat, NEW acc \in Nat, StandsFor(acc, n \div Base)
    PROVE  StandsFor(Shift(acc, n % Base), n)
<1>1. /\ n \div Base \in Nat /\ n \div Base <= n
      /\ (n \div Base) * Base + (n % Base) = n /\ MaxFrame \in Nat
  BY DivMod, MaxFrameAssumption
<1>2. CASE acc > MaxFrame /\ n \div Base > MaxFrame
  BY <1>1, <1>2 DEF StandsFor, Shift
<1>3. CASE acc = n \div Base /\ ~(acc > MaxFrame)
  BY <1>1, <1>3 DEF StandsFor, Shift
<1>. QED
  BY <1>2, <1>3 DEF StandsFor

\* plen goes on from 0 with one digit after the other.
LEMMA PlenGoes ==
    ASSUME NEW b, LenBytes(b) \in {2, 8}, \A i \in 1..LenBytes(b) : b[2 + i] \in Nat
    PROVE  \E p \in [0..LenBytes(b) -> Nat] :
              /\ p[0] = 0 /\ \A i \in 1..LenBytes(b) : p[i] = Shift(p[i - 1], b[2 + i])
              /\ Plen(b) = p[LenBytes(b)]
<1>. DEFINE n == LenBytes(b)
            step == [i \in 1..n |-> [v \in Nat |-> Shift(v, b[2 + i])]]
            IsPlen(p) == p = [i \in 0..n |-> IF i = 0 THEN 0 ELSE Shift(p[i - 1], b[2 + i])]
<1>0. n \in Nat /\ n # 0
  OBVIOUS
<1>1. step \in [1..n -> [Nat -> Nat]]
  BY ShiftType
<1>2. \A i \in 1..n : \A v \in Nat : step[i][v] = Shift(v, b[2 + i])
  OBVIOUS
<1>3. Plen(b) = (CHOOSE p : IsPlen(p))[n]
  BY <1>0 DEF Plen
<1>. HIDE DEF step, n
<1>4. 0 \in Nat
  OBVIOUS
<1>5. PICK f : Goes(f, Nat, 0, n, step)
  BY <1>0, <1>1, <1>4, Iterated
<1>6. \A i \in 1..n : f[i] = Shift(f[i - 1], b[2 + i])
  <2>. TAKE i \in 1..n
  <2>1. f[i - 1] \in Nat /\ f[i] = step[i][f[i - 1]]
    BY <1>0, <1>5 DEF Goes
  <2>. QED
    BY <1>2, <2>1
<1>7. IsPlen(f)
  BY <1>5, <1>6 DEF Goes
<1>. DEFINE p == CHOOSE g : IsPlen(g)
<1>8. IsPlen(p)
  <2>. HIDE DEF IsPlen
  <2>. QED
    BY <1>7
<1>. HIDE DEF p
<1>9. DOMAIN p = 0..n /\ p[0] = 0 /\ \A i \in 1..n : p[i] = Shift(p[i - 1], b[2 + i])
  BY <1>0, <1>8
<1>10. \A i \in 0..n : p[i] \in Nat
  <2>1. \A i \in 1..n : p[i - 1] \in Nat => p[i] \in Nat
    BY <1>9, ShiftType DEF n
  <2>2. n = 2 \/ n = 8
    BY DEF n
  <2>3. p[0] \in Nat /\ p[1] \in Nat /\ p[2] \in Nat
    BY <1>9, <2>1, <2>2
  <2>4. ASSUME n = 8 PROVE p[3] \in Nat /\ p[4] \in Nat /\ p[5] \in Nat
    BY <2>1, <2>3, <2>4
  <2>5. ASSUME n = 8 PROVE p[6] \in Nat /\ p[7] \in Nat /\ p[8] \in Nat
    BY <2>1, <2>4, <2>5
  <2>. QED
    BY <2>2, <2>3, <2>4, <2>5
<1>11. p \in [0..n -> Nat]
  BY <1>8, <1>10
<1>12. Plen(b) = p[n]
  BY <1>3 DEF p
<1>. QED
  BY <1>9, <1>11, <1>12 DEF n

\* The digits of a number that fits are read as that number.
LEMMA PlenOfDigits ==
    ASSUME NEW b, NEW n \in Nat, LenBytes(b) \in {2, 8},
           \A i \in 1..LenBytes(b) : b[2 + i] = Digits(n, LenBytes(b))[i],
           Shifted(n)[LenBytes(b) - 1] < Base
    PROVE  Plen(b) \in Nat /\ StandsFor(Plen(b), n)
<1>. DEFINE k == LenBytes(b)
            by == Shifted(n)
<1>1. k \in {2, 8} /\ k \in Nat
  OBVIOUS
<1>2. \A i \in 1..k : b[2 + i] = by[k - i] % Base /\ b[2 + i] \in Nat
  <2>. DEFINE ds == Digits(n, k)
  <2>1. ds \in Seq(Digit) /\ Len(ds) = k /\ \A i \in 1..k : ds[i] = by[k - i] % Base
    BY <1>1, DigitsAre
  <2>2. \A i \in 1..k : b[2 + i] = ds[i]
    OBVIOUS
  <2>. HIDE DEF ds, k, by
  <2>3. \A i \in 1..k : ds[i] \in Digit
    BY <2>1
  <2>. QED
    BY <2>1, <2>2, <2>3, BaseFacts
<1>3. PICK p \in [0..k -> Nat] : /\ p[0] = 0 /\ Plen(b) = p[k]
                                 /\ \A i \in 1..k : p[i] = Shift(p[i - 1], b[2 + i])
  BY <1>2, PlenGoes
<1>4. /\ \A i \in 0..7 : by[i] \in Nat
      /\ \A i \in 1..7 : by[i] = by[i - 1] \div Base
      /\ by[0] = n /\ by[k - 1] < Base
  BY ShiftedIs
<1>. HIDE DEF k, by
<1>5. \A i \in 1..k : StandsFor(p[i - 1], by[k - i] \div Base) => StandsFor(p[i], by[k - i])
  <2>. TAKE i \in 1..k
  <2>1. k - i \in 0..7 /\ i - 1 \in 0..k
    BY <1>1
  <2>2. by[k - i] \in Nat /\ p[i - 1] \in Nat
    BY <2>1, <1>4, <1>3
  <2>3. p[i] = Shift(p[i - 1], by[k - i] % Base)
    BY <1>2, <1>3
  <2>. QED
    BY <2>2, <2>3, ShiftStands
<1>6. \A i \in 2..k : StandsFor(p[i - 1], by[k - i + 1]) => StandsFor(p[i], by[k - i])
  <2>. TAKE i \in 2..k
  <2>1. k - i + 1 \in 1..7 /\ (k - i + 1) - 1 = k - i /\ i \in 1..k
    BY <1>1
  <2>2. by[k - i + 1] = by[k - i] \div Base
    BY <1>4, <2>1
  <2>. QED
    BY <1>5, <2>1, <2>2
<1>7. StandsFor(p[1], by[k - 1])
  <2>1. by[k - 1] \in Nat /\ 1 \in 1..k
    BY <1>1, <1>4, SMTT(30)
  <2>2. by[k - 1] \div Base = 0
    BY <2>1, <1>4, DivMod
  <2>3. StandsFor(p[1 - 1], 0)
    BY <1>3 DEF StandsFor
  <2>. QED
    BY <1>5, <2>1, <2>2, <2>3
<1>8. StandsFor(p[k], by[0])
  <2>1. CASE k = 2
    BY <1>6, <1>7, <2>1
  <2>2. CASE k = 8
    <3>1. StandsFor(p[1], by[7])
      BY <1>7, <2>2
    <3>2. StandsFor(p[2], by[6])
      BY <1>6, <2>2, <3>1
    <3>3. StandsFor(p[3], by[5])
      BY <1>6, <2>2, <3>2
    <3>4. StandsFor(p[4], by[4])
      BY <1>6, <2>2, <3>3
    <3>5. StandsFor(p[5], by[3])
      BY <1>6, <2>2, <3>4
    <3>6. StandsFor(p[6], by[2])
      BY <1>6, <2>2, <3>5
    <3>7. StandsFor(p[7], by[1])
      BY <1>6, <2>2, <3>6
    <3>. QED
      BY <1>6, <2>2, <3>7
  <2>. QED
    BY <1>1, <2>1, <2>2
<1>. QED
  BY <1>1, <1>3, <1>4, <1>8

-----------------------------------------------------------------------------
(* The bytes of a frame. *)

\* Bytes of a long form of the length.
LongBytes(f) == IF f.form = Bits16 THEN 2 ELSE IF f.form = Bits64 THEN 8 ELSE 0

\* Bytes up to the key, and up to the payload.
KeyAt(f) == 2 + LongBytes(f)
BodyAt(f) == KeyAt(f) + Len(f.key)

LEMMA UnmaskType ==
    ASSUME NEW key \in Seq(Digit), key = <<>> \/ Len(key) = 4, NEW body \in Seq(Digit)
    PROVE  Unmask(key, body) \in Seq(Digit) /\ Len(Unmask(key, body)) = Len(body)
<1>1. CASE key = <<>>
  BY <1>1 DEF Unmask
<1>2. CASE key # <<>>
  <2>1. Len(key) = 4 /\ Len(body) \in Nat /\ DOMAIN body = 1..Len(body)
    BY <1>2
  <2>2. \A i \in 1..Len(body) : ByteXor(body[i], key[((i - 1) % 4) + 1]) \in Digit
    <3>. TAKE i \in 1..Len(body)
    <3>1. ((i - 1) % 4) + 1 \in 1..4
      BY <2>1
    <3>2. body[i] \in Digit /\ key[((i - 1) % 4) + 1] \in Digit
      BY <2>1, <3>1, ElementOfSeq
    <3>. QED
      BY <3>2, XorAssumption
  <2>3. Unmask(key, body) = [i \in 1..Len(body) |-> ByteXor(body[i], key[((i - 1) % 4) + 1])]
    BY <1>2, <2>1 DEF Unmask
  <2>. QED
    BY <2>1, <2>2, <2>3
<1>. QED
  BY <1>1, <1>2

\* What was masked is unmasked with the same key.
LEMMA UnmaskTwice ==
    ASSUME NEW key \in Seq(Digit), key = <<>> \/ Len(key) = 4, NEW body \in Seq(Digit)
    PROVE  Unmask(key, Unmask(key, body)) = body
<1>1. CASE key = <<>>
  BY <1>1 DEF Unmask
<1>2. CASE key # <<>>
  <2>. DEFINE once == Unmask(key, body)
              twice == Unmask(key, once)
  <2>1. Len(key) = 4 /\ Len(body) \in Nat /\ DOMAIN body = 1..Len(body)
    BY <1>2
  <2>2. once \in Seq(Digit) /\ Len(once) = Len(body) /\ DOMAIN once = 1..Len(body)
    BY UnmaskType
  <2>3. twice \in Seq(Digit) /\ Len(twice) = Len(body)
    BY <2>2, UnmaskType
  <2>4. ASSUME NEW i \in 1..Len(body) PROVE twice[i] = body[i]
    <3>. DEFINE k == key[((i - 1) % 4) + 1]
    <3>1. ((i - 1) % 4) + 1 \in 1..4
      BY <2>1
    <3>2. body[i] \in Digit /\ k \in Digit
      BY <2>1, <3>1, ElementOfSeq
    <3>3. once[i] = ByteXor(body[i], k)
      BY <1>2, <2>1 DEF Unmask
    <3>4. twice[i] = ByteXor(once[i], k)
      BY <1>2, <2>2 DEF Unmask
    <3>. QED
      BY <3>2, <3>3, <3>4, XorAssumption
  <2>. HIDE DEF once, twice
  <2>5. twice = body
    BY <2>1, <2>3, <2>4, SeqEqual
  <2>. QED
    BY <2>5 DEF once, twice
<1>. QED
  BY <1>1, <1>2

LEMMA FrameType ==
    ASSUME NEW f, IsFrame(f)
    PROVE  /\ f.op \in 0..15 /\ f.fin \in BOOLEAN
           /\ f.body \in Seq(Digit) /\ Len(f.body) \in Nat /\ DOMAIN f.body = 1..Len(f.body)
           /\ f.key \in Seq(Digit) /\ (f.key = <<>> \/ Len(f.key) = 4) /\ Len(f.key) \in {0, 4}
           /\ f.key = <<>> <=> Len(f.key) = 0
           /\ Unmask(f.key, f.body) \in Seq(Digit) /\ Len(Unmask(f.key, f.body)) = Len(f.body)
           /\ LongBytes(f) \in {0, 2, 8}
           /\ KeyAt(f) \in Nat /\ BodyAt(f) \in Nat /\ KeyAt(f) >= 2 /\ BodyAt(f) >= KeyAt(f)
           /\ LongBytes(f) = 0 => Len(f.body) < Bits16
           /\ LongBytes(f) = 2 => f.form = Bits16
           /\ LongBytes(f) = 8 => f.form = Bits64
           /\ LongBytes(f) # 0 => Shifted(Len(f.body))[LongBytes(f) - 1] < Base
<1>1. /\ f.op \in 0..15 /\ f.fin \in BOOLEAN /\ f.body \in Seq(Digit)
      /\ f.key \in {<<>>} \cup [1..4 -> Digit] /\ f.form \in {0, Bits16, Bits64}
  BY DEF IsFrame
<1>2. Len(f.body) \in Nat /\ DOMAIN f.body = 1..Len(f.body)
  BY <1>1
<1>3. f.key \in Seq(Digit) /\ (f.key = <<>> \/ Len(f.key) = 4) /\ Len(f.key) \in {0, 4}
      /\ (f.key = <<>> <=> Len(f.key) = 0)
  <2>1. CASE f.key = <<>>
    BY <2>1
  <2>2. CASE f.key \in [1..4 -> Digit]
    <3>. DEFINE k == f.key
    <3>1. k \in [1..4 -> Digit]
      BY <2>2
    <3>. HIDE DEF k
    <3>. DEFINE four == 4
    <3>. four \in Nat
      OBVIOUS
    <3>. k \in [1..four -> Digit]
      BY <3>1
    <3>. HIDE DEF four
    <3>2. k \in Seq(Digit) /\ Len(k) = 4
      <4>1. k \in Seq(Digit) /\ Len(k) = four
        OBVIOUS
      <4>. QED
        BY <4>1 DEF four
    <3>3. k # <<>>
      BY <3>2, EmptySeq, SMTT(30)
    <3>. QED
      BY <3>2, <3>3 DEF k
  <2>. QED
    BY <1>1, <2>1, <2>2
<1>4. Unmask(f.key, f.body) \in Seq(Digit) /\ Len(Unmask(f.key, f.body)) = Len(f.body)
  BY <1>1, <1>3, UnmaskType
<1>5. LongBytes(f) \in {0, 2, 8}
  BY DEF LongBytes
<1>6. KeyAt(f) \in Nat /\ BodyAt(f) \in Nat /\ KeyAt(f) >= 2 /\ BodyAt(f) >= KeyAt(f)
  BY <1>3, <1>5 DEF KeyAt, BodyAt
<1>7. /\ LongBytes(f) = 0 => f.form = 0
      /\ LongBytes(f) = 2 => f.form = Bits16
      /\ LongBytes(f) = 8 => f.form = Bits64
  BY <1>1 DEF LongBytes
<1>8. /\ LongBytes(f) = 0 => Len(f.body) < Bits16
      /\ LongBytes(f) # 0 => Shifted(Len(f.body))[LongBytes(f) - 1] < Base
  BY <1>5, <1>7 DEF IsFrame
<1>. QED
  BY <1>1, <1>2, <1>3, <1>4, <1>5, <1>6, <1>7, <1>8

LEMMA TwoJoined ==
    ASSUME NEW s \in Seq(Nat), NEW t \in Seq(Nat)
    PROVE  /\ s \o t \in Seq(Nat) /\ Len(s \o t) = Len(s) + Len(t)
           /\ Len(s) \in Nat /\ Len(t) \in Nat
           /\ \A i \in 1..Len(s) : (s \o t)[i] = s[i]
           /\ \A i \in 1..Len(t) : (s \o t)[Len(s) + i] = t[i]
OBVIOUS

\* w is made of four parts.
Parts(w, s, t, u, v) ==
    /\ w \in Seq(Nat) /\ Len(w) = Len(s) + Len(t) + Len(u) + Len(v)
    /\ \A i \in 1..Len(s) : w[i] = s[i]
    /\ \A i \in 1..Len(t) : w[Len(s) + i] = t[i]
    /\ \A i \in 1..Len(u) : w[Len(s) + Len(t) + i] = u[i]
    /\ \A i \in 1..Len(v) : w[Len(s) + Len(t) + Len(u) + i] = v[i]

LEMMA FourJoined ==
    ASSUME NEW s \in Seq(Nat), NEW t \in Seq(Nat), NEW u \in Seq(Nat), NEW v \in Seq(Nat)
    PROVE  Parts(s \o t \o u \o v, s, t, u, v)
<1>. DEFINE x == s \o t
            y == x \o u
            w == y \o v
<1>1. /\ x \in Seq(Nat) /\ Len(x) = Len(s) + Len(t)
      /\ \A i \in 1..Len(s) : x[i] = s[i]
      /\ \A i \in 1..Len(t) : x[Len(s) + i] = t[i]
  BY TwoJoined
<1>. HIDE DEF x
<1>2. /\ y \in Seq(Nat) /\ Len(y) = Len(x) + Len(u)
      /\ \A i \in 1..Len(x) : y[i] = x[i]
      /\ \A i \in 1..Len(u) : y[Len(x) + i] = u[i]
  BY <1>1, TwoJoined, ZenonT(60)
<1>. HIDE DEF y
<1>3. /\ w \in Seq(Nat) /\ Len(w) = Len(y) + Len(v)
      /\ \A i \in 1..Len(y) : w[i] = y[i]
      /\ \A i \in 1..Len(v) : w[Len(y) + i] = v[i]
  BY <1>2, TwoJoined, ZenonT(60)
<1>. HIDE DEF w
<1>4. Len(s) \in Nat /\ Len(t) \in Nat /\ Len(u) \in Nat /\ Len(v) \in Nat
  OBVIOUS
<1>10. Len(x) = Len(s) + Len(t) /\ Len(y) = Len(x) + Len(u)
  BY <1>1, <1>2
<1>5. \A i \in 1..Len(s) : w[i] = s[i]
  <2>. TAKE i \in 1..Len(s)
  <2>1. i \in 1..Len(x) /\ i \in 1..Len(y)
    BY <1>4, <1>10
  <2>. QED
    BY <1>1, <1>2, <1>3, <2>1
<1>6. \A i \in 1..Len(t) : w[Len(s) + i] = t[i]
  <2>. TAKE i \in 1..Len(t)
  <2>1. Len(s) + i \in 1..Len(x) /\ Len(s) + i \in 1..Len(y)
    BY <1>4, <1>10
  <2>. QED
    BY <1>1, <1>2, <1>3, <2>1
<1>7. \A i \in 1..Len(u) : w[Len(s) + Len(t) + i] = u[i]
  <2>. TAKE i \in 1..Len(u)
  <2>1. Len(x) + i \in 1..Len(y)
    BY <1>4, <1>10
  <2>2. w[Len(x) + i] = u[i]
    BY <1>2, <1>3, <2>1
  <2>. QED
    BY <1>1, <2>2
<1>8. \A i \in 1..Len(v) : w[Len(s) + Len(t) + Len(u) + i] = v[i]
  BY <1>1, <1>2, <1>3
<1>9. Len(w) = Len(s) + Len(t) + Len(u) + Len(v)
  BY <1>1, <1>2, <1>3
<1>. QED
  BY <1>3, <1>5, <1>6, <1>7, <1>8, <1>9 DEF w, y, x, Parts

\* Where the parts of a frame are among its bytes.
LEMMA Encoded ==
    ASSUME NEW f, IsFrame(f)
    PROVE  LET e == Encode(f) IN
           /\ e \in Seq(Nat) /\ Len(e) = BodyAt(f) + Len(f.body)
           /\ e[1] = (IF f.fin THEN 128 ELSE 0) + f.op
           /\ e[2] = (IF LongBytes(f) = 0 THEN Len(f.body) ELSE f.form)
                        + (IF f.key = <<>> THEN 0 ELSE Masked)
           /\ LongBytes(f) # 0 =>
                 \A i \in 1..LongBytes(f) : e[2 + i] = Digits(Len(f.body), LongBytes(f))[i]
           /\ \A i \in 1..Len(f.key) : e[KeyAt(f) + i] = f.key[i]
           /\ \A i \in 1..Len(f.body) : e[BodyAt(f) + i] = Unmask(f.key, f.body)[i]
<1>. DEFINE n == Len(f.body)
            lb == LongBytes(f)
            mask == IF f.key = <<>> THEN 0 ELSE Masked
            one == IF lb = 0 THEN n ELSE f.form
            ds == IF lb = 0 THEN <<>> ELSE Digits(n, lb)
            first == (IF f.fin THEN 128 ELSE 0) + f.op
            t == LenField(n, f.form)
            m == [t EXCEPT ![1] = @ + mask]
<1>1. n \in Nat /\ lb \in {0, 2, 8} /\ mask \in Nat /\ one \in Nat /\ first \in Nat
  <2>1. f.form \in {0, Bits16, Bits64}
    BY DEF IsFrame
  <2>2. f.form \in Nat
    BY <2>1, BaseFacts
  <2>3. n \in Nat /\ lb \in {0, 2, 8} /\ f.op \in Nat
    BY FrameType, SMTT(30)
  <2>. HIDE DEF n, lb
  <2>4. mask \in Nat /\ one \in Nat
    BY <2>2, <2>3, BaseFacts
  <2>5. first \in Nat
    BY <2>3
  <2>. QED
    BY <2>3, <2>4, <2>5
<1>2. ds \in Seq(Nat) /\ Len(ds) = lb
  <2>1. CASE lb = 0
    BY <2>1
  <2>2. CASE lb # 0
    <3>1. lb \in {2, 8} /\ ds = Digits(n, lb)
      BY <1>1, <2>2
    <3>2. Digits(n, lb) \in Seq(Digit) /\ Len(Digits(n, lb)) = lb
      BY <1>1, <3>1, DigitsAre
    <3>3. Digits(n, lb) \in Seq(Nat)
      BY <3>2, BaseFacts, SeqMonotonic
    <3>. QED
      BY <3>1, <3>2, <3>3
  <2>. QED
    BY <2>1, <2>2
<1>3. t = <<one>> \o ds
  <2>1. CASE lb = 0
    <3>1. t = <<n>>
      BY <2>1, BaseFacts DEF LenField, LongBytes
    <3>2. <<n>> \o <<>> = <<n>>
      BY <1>1
    <3>. QED
      BY <2>1, <3>1, <3>2
  <2>2. CASE lb # 0
    BY <2>2, BaseFacts DEF LenField, LongBytes
  <2>. QED
    BY <2>1, <2>2
<1>. HIDE DEF ds, one, first, mask, lb, t
<1>4. t \in Seq(Nat) /\ Len(t) = 1 + lb /\ t[1] = one /\ \A i \in 1..lb : t[1 + i] = ds[i]
  BY <1>1, <1>2, <1>3
<1>5. /\ m \in Seq(Nat) /\ Len(m) = 1 + lb /\ m[1] = one + mask
      /\ \A i \in 1..lb : m[1 + i] = ds[i]
  <2>1. 1 \in 1..Len(t) /\ t[1] + mask \in Nat /\ t[1] \in Nat
    BY <1>1, <1>4
  <2>2. m = [t EXCEPT ![1] = t[1] + mask]
    OBVIOUS
  <2>. HIDE DEF m
  <2>3. m \in Seq(Nat) /\ Len(m) = Len(t)
        /\ \A i \in 1..Len(t) : m[i] = IF i = 1 THEN t[1] + mask ELSE t[i]
    BY <2>1, <2>2, <1>4, ExceptSeq
  <2>. QED
    BY <2>1, <2>3, <1>4, <1>1
<1>6. f.key \in Seq(Nat) /\ Unmask(f.key, f.body) \in Seq(Nat)
  BY FrameType, BaseFacts, SeqMonotonic
<1>7. <<first>> \in Seq(Nat) /\ Len(<<first>>) = 1 /\ <<first>>[1] = first
  BY <1>1
<1>. DEFINE h == <<first>>
            u == f.key
            v == Unmask(f.key, f.body)
            e == h \o m \o u \o v
<1>8. Encode(f) = e
  BY DEF Encode, first, t, mask, n
<1>. HIDE DEF h, m, u, v
<1>9. h \in Seq(Nat) /\ m \in Seq(Nat) /\ u \in Seq(Nat) /\ v \in Seq(Nat)
  BY <1>5, <1>6, <1>7 DEF h, u, v
<1>10. Parts(e, h, m, u, v)
  BY <1>9, FourJoined
<1>. HIDE DEF e
<1>11. /\ Len(h) = 1 /\ h[1] = first /\ Len(m) = 1 + lb /\ Len(u) \in {0, 4} /\ Len(v) = n
       /\ Len(h) + Len(m) = KeyAt(f) /\ Len(h) + Len(m) + Len(u) = BodyAt(f)
  BY <1>1, <1>5, <1>7, FrameType, SMTT(30) DEF h, u, v, KeyAt, BodyAt, n, lb
<1>12. e[1] = first /\ e[2] = one + mask
  <2>1. 1 \in 1..Len(h) /\ 1 \in 1..Len(m) /\ Len(h) + 1 = 2
    BY <1>1, <1>11
  <2>2. e[1] = h[1] /\ e[Len(h) + 1] = m[1]
    BY <1>10, <2>1 DEF Parts
  <2>. QED
    BY <2>1, <2>2, <1>5, <1>11
<1>13. \A i \in 1..lb : e[2 + i] = ds[i]
  <2>. TAKE i \in 1..lb
  <2>1. 1 + i \in 1..Len(m) /\ Len(h) + (1 + i) = 2 + i
    BY <1>1, <1>11
  <2>2. e[Len(h) + (1 + i)] = m[1 + i]
    BY <1>10, <2>1 DEF Parts
  <2>. QED
    BY <2>1, <2>2, <1>5
<1>14. e \in Seq(Nat) /\ Len(e) = BodyAt(f) + n
  BY <1>10, <1>11 DEF Parts
<1>15. /\ \A i \in 1..Len(u) : e[KeyAt(f) + i] = u[i]
       /\ \A i \in 1..n : e[BodyAt(f) + i] = v[i]
  BY <1>10, <1>11 DEF Parts
<1>. QED
  BY <1>8, <1>12, <1>13, <1>14, <1>15 DEF first, one, mask, ds, u, v, n, lb

-----------------------------------------------------------------------------
(* A frame as it is read from its bytes. *)

\* As far as they go, the first bytes of b are f's.
Begins(b, f) ==
    b \in Seq(Nat) /\ \A i \in 1..Len(b) : i <= Len(Encode(f)) => b[i] = Encode(f)[i]

LEMMA MaskBit ==
    ASSUME NEW n \in 0..(Masked - 1)
    PROVE  n % Masked = n /\ (n + Masked) % Masked = n
<1>1. CASE Base = 8
  BY <1>1 DEF Masked
<1>2. CASE Base = 16
  BY <1>2 DEF Masked
<1>3. CASE Base = 32
  BY <1>3 DEF Masked
<1>4. CASE Base = 64
  BY <1>4 DEF Masked
<1>5. CASE Base = 128
  BY <1>5 DEF Masked
<1>6. CASE Base = 256
  BY <1>6 DEF Masked
<1>. QED
  BY <1>1, <1>2, <1>3, <1>4, <1>5, <1>6, BaseAssumption

\* The second byte gives away the form of the length and the mask.
LEMMA ParsedForm ==
    ASSUME NEW f, IsFrame(f), NEW b, Begins(b, f), Len(b) >= 2
    PROVE  /\ LenBytes(b) = LongBytes(f)
           /\ IsMasked(b) <=> f.key # <<>>
           /\ Hlen(b) = BodyAt(f)
           /\ LongBytes(f) = 0 => b[2] % Masked = Len(f.body)
<1>. DEFINE one == IF LongBytes(f) = 0 THEN Len(f.body) ELSE f.form
            mask == IF f.key = <<>> THEN 0 ELSE Masked
<1>1. b[2] = one + mask
  <2>1. Len(Encode(f)) >= 2 /\ Len(Encode(f)) \in Nat
    BY Encoded, FrameType
  <2>2. 2 \in 1..Len(b)
    BY DEF Begins
  <2>3. b[2] = Encode(f)[2]
    BY <2>1, <2>2 DEF Begins
  <2>. QED
    BY <2>3, Encoded
<1>2. one \in 0..(Masked - 1)
  <2>1. CASE LongBytes(f) = 0
    BY <2>1, FrameType, BaseFacts, SMTT(30)
  <2>2. CASE LongBytes(f) # 0
    BY <2>2, FrameType, BaseFacts, SMTT(30)
  <2>. QED
    BY <2>1, <2>2
<1>3. /\ one = Bits16 <=> LongBytes(f) = 2
      /\ one = Bits64 <=> LongBytes(f) = 8
      /\ LongBytes(f) \in {0, 2, 8}
  <2>1. CASE LongBytes(f) = 0
    BY <2>1, FrameType, BaseFacts, SMTT(30)
  <2>2. CASE LongBytes(f) # 0
    BY <2>2, FrameType, BaseFacts
  <2>. QED
    BY <2>1, <2>2
<1>4. LongBytes(f) = 0 => one = Len(f.body)
  OBVIOUS
<1>5. mask = (IF f.key = <<>> THEN 0 ELSE Masked)
  OBVIOUS
<1>. HIDE DEF one, mask
<1>6. b[2] % Masked = one
  BY <1>1, <1>2, <1>5, MaskBit, BaseFacts
<1>7. LenBytes(b) = LongBytes(f)
  BY <1>6, <1>3, BaseFacts DEF LenBytes
<1>8. IsMasked(b) <=> f.key # <<>>
  BY <1>1, <1>2, <1>5, BaseFacts DEF IsMasked
<1>9. Hlen(b) = BodyAt(f)
  BY <1>7, <1>8, FrameType DEF Hlen, BodyAt, KeyAt
<1>. QED
  BY <1>4, <1>6, <1>7, <1>8, <1>9

\* Its bytes give the length itself.
LEMMA ParsedLength ==
    ASSUME NEW f, IsFrame(f), NEW b, Begins(b, f), Len(b) >= KeyAt(f)
    PROVE  Plen(b) \in Nat /\ StandsFor(Plen(b), Len(f.body))
<1>1. Len(b) \in Nat /\ Len(b) >= 2 /\ KeyAt(f) \in Nat
  BY FrameType DEF Begins
<1>2. LenBytes(b) = LongBytes(f) /\ (LongBytes(f) = 0 => b[2] % Masked = Len(f.body))
  BY <1>1, ParsedForm
<1>3. CASE LongBytes(f) = 0
  BY <1>2, <1>3, FrameType DEF Plen, StandsFor
<1>4. CASE LongBytes(f) # 0
  <2>. DEFINE n == Len(f.body)
              k == LongBytes(f)
              e == Encode(f)
  <2>1. n \in Nat /\ k \in {2, 8} /\ Shifted(n)[k - 1] < Base
    BY <1>4, FrameType
  <2>2. /\ Len(e) \in Nat /\ Len(e) >= 2 + k
        /\ \A i \in 1..k : e[2 + i] = Digits(n, k)[i]
    BY <1>4, Encoded, FrameType DEF BodyAt, KeyAt
  <2>3. Len(b) >= 2 + k
    BY DEF KeyAt
  <2>4. \A i \in 1..Len(b) : i <= Len(e) => b[i] = e[i]
    BY DEF Begins
  <2>. HIDE DEF n, k, e
  <2>5. \A i \in 1..k : b[2 + i] = Digits(n, k)[i]
    <3>. TAKE i \in 1..k
    <3>1. 2 + i \in 1..Len(b) /\ 2 + i <= Len(e)
      BY <1>1, <2>1, <2>2, <2>3
    <3>. QED
      BY <2>2, <2>4, <3>1
  <2>6. LenBytes(b) = k
    BY <1>2 DEF k
  <2>. QED
    BY <2>1, <2>5, <2>6, PlenOfDigits DEF n
<1>. QED
  BY <1>3, <1>4

LEMMA Within ==
    ASSUME NEW p \in Nat, NEW n \in Nat, NEW m \in Nat, NEW q \in Nat, p + n <= m, m <= q
    PROVE  \A i \in 1..n : p + i \in 1..q /\ p + i <= m
OBVIOUS

\* What is behind the first p bytes of e is found in b, which goes on from e.
LEMMA PartCut ==
    ASSUME NEW e \in Seq(Nat), NEW b \in Seq(Nat), Len(b) >= Len(e),
           \A i \in 1..Len(b) : i <= Len(e) => b[i] = e[i],
           NEW p \in Nat, NEW v \in Seq(Digit), p + Len(v) <= Len(e),
           \A i \in 1..Len(v) : e[p + i] = v[i]
    PROVE  SubSeq(b, p + 1, p + Len(v)) = v
<1>. DEFINE n == Len(v)
            lo == p + 1
            hi == p + n
            k == SubSeq(b, lo, hi)
<1>1. n \in Nat /\ Len(b) \in Nat /\ Len(e) \in Nat
      /\ Len(e) <= Len(b) /\ p + n <= Len(e)
  OBVIOUS
<1>2. \A i \in 1..n : v[i] \in Digit /\ b[p + i] = v[i]
  <2>. TAKE i \in 1..n
  <2>1. p + i \in 1..Len(b) /\ p + i <= Len(e)
    <3>. HIDE DEF n
    <3>. QED
      BY <1>1, Within
  <2>2. b[p + i] = e[p + i] /\ e[p + i] = v[i] /\ v[i] \in Digit
    BY <2>1, ElementOfSeq
  <2>. QED
    BY <2>2
<1>. HIDE DEF n
<1>3. \A j \in lo..hi : b[j] \in Digit
  <2>. TAKE j \in lo..hi
  <2>1. j - p \in 1..n /\ p + (j - p) = j
    BY <1>1
  <2>2. v[j - p] \in Digit /\ b[p + (j - p)] = v[j - p]
    BY <1>2, <2>1
  <2>. QED
    BY <2>1, <2>2
<1>4. lo \in Int /\ hi \in Int /\ hi - lo + 1 = n /\ (lo <= hi <=> n # 0)
  <2>1. n \in Nat
    BY <1>1
  <2>. HIDE DEF n
  <2>. QED
    BY <2>1, SMTT(30)
<1>5. /\ k \in Seq(Digit) /\ Len(k) = (IF lo <= hi THEN hi - lo + 1 ELSE 0)
      /\ \A i \in 1..(hi - lo + 1) : k[i] = b[lo + i - 1]
  <2>. HIDE DEF lo, hi
  <2>. QED
    BY <1>3, <1>4, SubSeqProperties
<1>6. Len(k) = n
  BY <1>1, <1>4, <1>5
<1>7. ASSUME NEW i \in 1..n PROVE k[i] = v[i]
  <2>1. lo + i - 1 = p + i
    BY <1>1
  <2>2. k[i] = b[lo + i - 1]
    BY <1>4, <1>5
  <2>. HIDE DEF lo, k
  <2>. QED
    BY <2>1, <2>2, <1>2
<1>. HIDE DEF k
<1>8. k = v
  BY <1>5, <1>6, <1>7, SeqEqual DEF n
<1>. QED
  BY <1>8 DEF k, n

\* A frame that is not too long and all there is seen as it was sent.
LEMMA Parsed ==
    ASSUME NEW f, IsFrame(f), Len(f.body) <= MaxFrame,
           NEW b, Begins(b, f), Len(b) >= Len(Encode(f))
    PROVE  /\ Plen(b) = Len(f.body) /\ Hlen(b) + Plen(b) = Len(Encode(f))
           /\ Frame(b) = AsSent(f)
<1>. DEFINE n == Len(f.body)
            e == Encode(f)
            m == Len(f.key)
            v == Unmask(f.key, f.body)
<1>1. /\ n \in Nat /\ Len(e) = BodyAt(f) + n /\ Len(b) \in Nat /\ b \in Seq(Nat)
      /\ BodyAt(f) = KeyAt(f) + m /\ KeyAt(f) \in Nat /\ KeyAt(f) >= 2 /\ m \in {0, 4}
      /\ BodyAt(f) \in Nat
  BY Encoded, FrameType DEF Begins, BodyAt
<1>2. /\ \A i \in 1..m : e[KeyAt(f) + i] = f.key[i]
      /\ \A i \in 1..n : e[BodyAt(f) + i] = v[i]
      /\ e[1] = (IF f.fin THEN 128 ELSE 0) + f.op
  BY Encoded
<1>3. /\ v \in Seq(Digit) /\ Len(v) = n /\ f.key \in Seq(Digit) /\ f.body \in Seq(Digit)
      /\ f.key = <<>> \/ Len(f.key) = 4
      /\ f.key = <<>> <=> m = 0
      /\ f.op \in 0..15 /\ f.fin \in BOOLEAN
  BY FrameType
<1>4. \A i \in 1..Len(b) : i <= Len(e) => b[i] = e[i]
  BY DEF Begins
<1>5. Len(b) >= Len(e) /\ Len(f.body) <= MaxFrame
  OBVIOUS
<1>6. Hlen(b) = BodyAt(f) /\ (IsMasked(b) <=> f.key # <<>>)
  <2>. HIDE DEF n, e, m, v
  <2>1. Len(b) >= 2
    BY <1>1, <1>5
  <2>. QED
    BY <2>1, ParsedForm
<1>7. Plen(b) = n
  <2>1. Len(b) >= KeyAt(f)
    <3>. HIDE DEF n, e, m, v
    <3>. QED
      BY <1>1, <1>5
  <2>2. StandsFor(Plen(b), n)
    BY <2>1, ParsedLength
  <2>. QED
    BY <2>2, <1>1, MaxFrameAssumption DEF StandsFor
<1>14. e \in Seq(Nat) /\ BodyAt(f) + n <= Len(e) /\ KeyAt(f) + m <= Len(e)
  <2>1. e \in Seq(Nat)
    BY Encoded
  <2>. HIDE DEF n, e, m, v
  <2>2. m \in Nat
    BY <1>1
  <2>. QED
    BY <2>1, <2>2, <1>1, SMTT(30)
<1>15. ASSUME NEW p \in Nat, NEW w \in Seq(Digit), p + Len(w) <= Len(e),
              \A i \in 1..Len(w) : e[p + i] = w[i]
       PROVE  SubSeq(b, p + 1, p + Len(w)) = w
  <2>. HIDE DEF e
  <2>. QED
    BY <1>1, <1>4, <1>5, <1>14, <1>15, PartCut, ZenonT(60)
<1>8. KeyOf(b) = f.key
  <2>1. CASE f.key = <<>>
    BY <2>1, <1>6 DEF KeyOf
  <2>2. CASE f.key # <<>>
    <3>1. m = 4
      BY <1>1, <1>3, <2>2
    <3>2. BodyAt(f) - 3 = KeyAt(f) + 1 /\ BodyAt(f) = KeyAt(f) + m
      BY <1>1, <3>1
    <3>3. KeyOf(b) = SubSeq(b, KeyAt(f) + 1, KeyAt(f) + m)
      BY <3>2, <2>2, <1>6 DEF KeyOf
    <3>. QED
      BY <3>3, <1>1, <1>2, <1>3, <1>14, <1>15
  <2>. QED
    BY <2>1, <2>2
<1>9. SubSeq(b, BodyAt(f) + 1, BodyAt(f) + n) = v
  <2>. HIDE DEF v, e
  <2>. QED
    BY <1>1, <1>2, <1>3, <1>14, <1>15
<1>10. Payload(b) = f.body
  <2>1. Payload(b) = Unmask(f.key, v)
    <3>. HIDE DEF n, v
    <3>. QED
      BY <1>6, <1>7, <1>8, <1>9 DEF Payload
  <2>. QED
    BY <2>1, <1>3, UnmaskTwice
<1>11. b[1] = (IF f.fin THEN 128 ELSE 0) + f.op
  <2>. HIDE DEF n, e, m, v
  <2>1. 1 \in 1..Len(b) /\ 1 <= Len(e)
    BY <1>1, <1>5, SMTT(30)
  <2>. QED
    BY <2>1, <1>2, <1>4
<1>12. b[1] % 16 = f.op /\ (b[1] >= 128) = f.fin
  <2>0. f.op \in 0..15 /\ f.fin \in BOOLEAN
    BY <1>3
  <2>1. CASE f.fin
    <3>1. b[1] = 128 + f.op
      BY <2>1, <1>11
    <3>. DEFINE op == f.op
    <3>2. (128 + op) % 16 = op /\ 128 + op >= 128
      <4>1. op \in 0..15
        BY <2>0
      <4>. HIDE DEF op
      <4>. QED
        BY <4>1
    <3>3. b[1] % 16 = f.op /\ b[1] >= 128
      BY <3>1, <3>2
    <3>. QED
      BY <2>1, <3>3
  <2>2. CASE ~f.fin
    <3>1. b[1] = f.op
      BY <2>0, <2>2, <1>11, SMTT(30)
    <3>. DEFINE op == f.op
    <3>2. op % 16 = op /\ ~(op >= 128)
      <4>1. op \in 0..15
        BY <2>0
      <4>. HIDE DEF op
      <4>. QED
        BY <4>1
    <3>3. b[1] % 16 = f.op /\ ~(b[1] >= 128)
      BY <3>1, <3>2
    <3>. QED
      BY <2>0, <2>2, <3>3
  <2>. QED
    BY <2>1, <2>2
<1>13. Frame(b) = AsSent(f)
  BY <1>10, <1>12 DEF Frame, AsSent
<1>. QED
  BY <1>1, <1>6, <1>7, <1>13

-----------------------------------------------------------------------------
(* The peer's stream. *)

LEMMA StreamIs ==
    ASSUME NEW fs \in Seq(Frames)
    PROVE  /\ Len(fs) \in Nat /\ \A k \in 0..Len(fs) : Stream(fs)[k] \in Seq(Nat)
           /\ Stream(fs)[0] = <<>> /\ Wire(fs) = Stream(fs)[Len(fs)]
           /\ \A k \in 1..Len(fs) : /\ IsFrame(fs[k])
                                    /\ Stream(fs)[k] = Stream(fs)[k - 1] \o Encode(fs[k])
<1>. DEFINE n == Len(fs)
            V == Seq(Nat)
            Joined(k, v) == v \o Encode(fs[k])
            step == [k \in 1..n |-> [v \in V |-> Joined(k, v)]]
            IsUpto(u) == u = [k \in 0..n |-> IF k = 0 THEN <<>> ELSE Joined(k, u[k - 1])]
<1>1. n \in Nat /\ \A k \in 1..n : fs[k] \in Frames
  OBVIOUS
<1>2. \A k \in 1..n : IsFrame(fs[k]) /\ Encode(fs[k]) \in V
  <2>. TAKE k \in 1..n
  <2>1. IsFrame(fs[k])
    BY <1>1, FramesAssumption
  <2>. QED
    BY <2>1, Encoded
<1>. HIDE DEF n
<1>3. \A k \in 1..n : \A v \in V : Joined(k, v) \in V
  BY <1>2
<1>6. <<>> \in V
  OBVIOUS
<1>10. Stream(fs) = CHOOSE u : IsUpto(u)
  BY DEF Stream, n
<1>. HIDE DEF V, Joined
<1>4. step \in [1..n -> [V -> V]]
  BY <1>3
<1>5. \A k \in 1..n : \A v \in V : step[k][v] = Joined(k, v)
  OBVIOUS
<1>. HIDE DEF step
<1>7. PICK g : Goes(g, V, <<>>, n, step)
  BY <1>1, <1>4, <1>6, Iterated
<1>8. \A k \in 1..n : g[k] = Joined(k, g[k - 1])
  <2>. TAKE k \in 1..n
  <2>1. g[k - 1] \in V /\ g[k] = step[k][g[k - 1]]
    BY <1>1, <1>7 DEF Goes
  <2>. QED
    BY <1>5, <2>1
<1>9. IsUpto(g)
  BY <1>1, <1>7, <1>8 DEF Goes
<1>11. IsUpto(Stream(fs))
  <2>. HIDE DEF IsUpto
  <2>. QED
    BY <1>9, <1>10
<1>. DEFINE u == Stream(fs)
<1>12. u[0] = <<>> /\ \A k \in 1..n : u[k] = Joined(k, u[k - 1])
  BY <1>1, <1>11
<1>. HIDE DEF u
<1>13. \A k \in 0..n : u[k] \in V
  <2>. DEFINE S == {m \in Nat : m <= n => u[m] \in V}
  <2>1. ASSUME NEW m \in Nat, \A l \in 0..(m - 1) : l \in S PROVE m \in S
    <3>1. CASE m = 0
      BY <3>1, <1>6, <1>12
    <3>2. CASE m > 0 /\ m <= n
      <4>1. m - 1 \in 0..(m - 1) /\ m - 1 \in Nat /\ m - 1 <= n /\ m \in 1..n
        BY <3>2, <1>1
      <4>2. u[m - 1] \in V
        BY <2>1, <4>1
      <4>. QED
        BY <1>3, <1>12, <4>1, <4>2
    <3>3. CASE ~(m <= n)
      BY <3>3
    <3>. QED
      BY <3>1, <3>2, <3>3
  <2>. HIDE DEF S
  <2>2. Nat \subseteq S
    BY <2>1, NatInduct
  <2>. USE DEF S
  <2>. QED
    BY <1>1, <2>2
<1>. QED
  BY <1>1, <1>2, <1>12, <1>13 DEF u, n, V, Wire, Joined

\* It only grows, by the next frame's bytes.
LEMMA StreamGrows ==
    ASSUME NEW fs \in Seq(Frames), NEW j \in 0..Len(fs), NEW k \in 0..Len(fs), j <= k
    PROVE  /\ Len(Stream(fs)[j]) <= Len(Stream(fs)[k])
           /\ \A i \in 1..Len(Stream(fs)[j]) : Stream(fs)[k][i] = Stream(fs)[j][i]
<1>. DEFINE u == Stream(fs)
            n == Len(fs)
            Grown(m) == Len(u[j]) <= Len(u[m]) /\ \A i \in 1..Len(u[j]) : u[m][i] = u[j][i]
            S == {m \in Nat : m \in j..n => Grown(m)}
<1>1. /\ n \in Nat /\ \A m \in 0..n : u[m] \in Seq(Nat)
      /\ \A m \in 1..n : u[m] = u[m - 1] \o Encode(fs[m]) /\ Encode(fs[m]) \in Seq(Nat)
  BY StreamIs, Encoded
<1>. HIDE DEF u, n
<1>2. j \in 0..n /\ k \in 0..n
  BY DEF n
<1>3. \A m \in 0..n : Len(u[m]) \in Nat
  BY <1>1
<1>4. ASSUME NEW m \in Nat, \A l \in 0..(m - 1) : l \in S PROVE m \in S
  <2>1. CASE m = j
    BY <2>1, <1>2, <1>3
  <2>2. CASE m \in j..n /\ m # j
    <3>1. m - 1 \in 0..(m - 1) /\ m - 1 \in Nat /\ m - 1 \in j..n /\ m \in 1..n /\ m - 1 \in 0..n
      BY <2>2, <1>1, <1>2
    <3>2. Grown(m - 1)
      BY <1>4, <3>1
    <3>3. u[m - 1] \in Seq(Nat) /\ u[m] = u[m - 1] \o Encode(fs[m]) /\ Encode(fs[m]) \in Seq(Nat)
      BY <1>1, <3>1
    <3>. DEFINE s == u[m - 1]
                e == Encode(fs[m])
    <3>. HIDE DEF s, e
    <3>9. s \in Seq(Nat) /\ e \in Seq(Nat) /\ u[m] = s \o e
      BY <3>3 DEF s, e
    <3>10. /\ Len(u[m]) = Len(s) + Len(e) /\ Len(e) \in Nat
           /\ \A i \in 1..Len(s) : u[m][i] = s[i]
      BY <3>9, TwoJoined
    <3>4. /\ Len(u[m]) = Len(u[m - 1]) + Len(e) /\ Len(e) \in Nat
          /\ \A i \in 1..Len(u[m - 1]) : u[m][i] = u[m - 1][i]
      BY <3>10 DEF s
    <3>5. Len(u[j]) \in Nat /\ Len(u[m - 1]) \in Nat
      BY <1>2, <1>3, <3>1
    <3>6. Len(u[j]) <= Len(u[m])
      BY <3>2, <3>4, <3>5, SMTT(30)
    <3>7. \A i \in 1..Len(u[j]) : u[m][i] = u[j][i]
      <4>. TAKE i \in 1..Len(u[j])
      <4>1. i \in 1..Len(u[m - 1])
        BY <3>2, <3>5
      <4>. QED
        BY <3>2, <3>4, <4>1
    <3>. QED
      BY <3>6, <3>7
  <2>3. CASE m \notin j..n
    BY <2>3
  <2>. QED
    BY <2>1, <2>2, <2>3
<1>. HIDE DEF S
<1>5. Nat \subseteq S
  BY <1>4, NatInduct
<1>6. k \in S
  BY <1>5, <1>2
<1>. USE DEF S
<1>7. Grown(k)
  BY <1>2, <1>6
<1>. QED
  BY <1>7 DEF u

\* A frame's bytes are in the wire behind those of the frames before it.
LEMMA InWire ==
    ASSUME NEW fs \in Seq(Frames), NEW k \in 1..Len(fs)
    PROVE  LET at == Len(Stream(fs)[k - 1])
               e == Encode(fs[k]) IN
           /\ IsFrame(fs[k]) /\ at \in Nat /\ Len(Wire(fs)) \in Nat
           /\ Len(Stream(fs)[k]) = at + Len(e) /\ at + Len(e) <= Len(Wire(fs))
           /\ \A i \in 1..Len(e) : Wire(fs)[at + i] = e[i]
<1>. DEFINE u == Stream(fs)
            n == Len(fs)
            e == Encode(fs[k])
            at == Len(u[k - 1])
            w == Wire(fs)
<1>1. n \in Nat /\ k \in 1..n /\ k - 1 \in 0..n /\ k \in 0..n /\ n \in 0..n /\ k <= n
  BY StreamIs
<1>2. /\ IsFrame(fs[k]) /\ u[k - 1] \in Seq(Nat) /\ u[k] = u[k - 1] \o e
      /\ u[k] \in Seq(Nat) /\ w = u[n] /\ u[n] \in Seq(Nat)
  BY <1>1, StreamIs
<1>3. e \in Seq(Nat)
  BY <1>2, Encoded
<1>4. Len(u[k]) <= Len(u[n]) /\ \A i \in 1..Len(u[k]) : u[n][i] = u[k][i]
  BY <1>1, StreamGrows
<1>. HIDE DEF u, n, e, w
<1>5. /\ Len(u[k]) = at + Len(e) /\ at \in Nat /\ Len(e) \in Nat
      /\ \A i \in 1..Len(e) : u[k][at + i] = e[i]
  BY <1>2, <1>3, TwoJoined
<1>6. \A i \in 1..Len(e) : at + i \in 1..Len(u[k])
  BY <1>5
<1>7. \A i \in 1..Len(e) : w[at + i] = e[i]
  BY <1>2, <1>4, <1>5, <1>6
<1>8. Len(w) \in Nat
  BY <1>2
<1>. QED
  BY <1>2, <1>4, <1>5, <1>7, <1>8 DEF u, e, w

\* After how many of its bytes a frame is told.
LEMMA SeenAfterIs ==
    ASSUME NEW f, IsFrame(f)
    PROVE  /\ SeenAfter(f) = IF TooLong(f) THEN KeyAt(f) ELSE Len(Encode(f))
           /\ SeenAfter(f) \in Nat /\ Len(Encode(f)) \in Nat
           /\ 2 <= KeyAt(f) /\ KeyAt(f) <= SeenAfter(f) /\ SeenAfter(f) <= Len(Encode(f))
<1>1. Len(Encode(f)) = KeyAt(f) + Len(f.key) + Len(f.body)
  BY Encoded DEF BodyAt
<1>2. KeyAt(f) \in Nat /\ KeyAt(f) >= 2 /\ Len(f.key) \in Nat /\ Len(f.body) \in Nat
  BY FrameType
<1>3. CASE TooLong(f)
  <2>1. SeenAfter(f) = Len(Encode(f)) - (Len(f.key) + Len(f.body))
    BY <1>3 DEF SeenAfter
  <2>. DEFINE e == Len(Encode(f))
              k == Len(f.key)
              n == Len(f.body)
  <2>2. e = KeyAt(f) + k + n /\ k \in Nat /\ n \in Nat /\ SeenAfter(f) = e - (k + n)
    BY <1>1, <1>2, <2>1
  <2>. HIDE DEF e, k, n
  <2>3. SeenAfter(f) = KeyAt(f) /\ KeyAt(f) <= e /\ e \in Nat
    BY <2>2, <1>2
  <2>. QED
    BY <2>3, <1>2, <1>3 DEF e
<1>4. CASE ~TooLong(f)
  <2>1. SeenAfter(f) = Len(Encode(f)) - 0
    BY <1>4 DEF SeenAfter
  <2>. QED
    BY <2>1, <1>1, <1>2, <1>4, SMTT(30)
<1>. QED
  BY <1>3, <1>4

-----------------------------------------------------------------------------
(* The invariant of the reader: what was handled, what is left, and why. *)

\* The bytes of the frames handled, and whether the next one can be told by what
\* arrived: it is whole, or announced as too large.
Handled == Len(Stream(sent)[Len(got)])
NextSeen ==
    /\ Len(got) < Len(sent)
    /\ Handled + SeenAfter(sent[Len(got) + 1]) <= arrived

\* The frames handled are the first ones sent, none of them too long and none but
\* the last an end.
PrefixOK ==
    /\ Len(got) \in 0..Len(sent)
    /\ got = [i \in 1..Len(got) |-> AsSent(sent[i])]
    /\ \A i \in 1..Len(got) : ~TooLong(sent[i]) /\ (i < Len(got) => ~Ends(sent[i]))

\* What is left in rbuf begins where the frames handled end.
RestOK == Handled <= arrived /\ rbuf = SubSeq(wire, Handled + 1, arrived)

\* An open connection has met no end, and waits only for what did not arrive; what
\* closed it was the last frame handled, or the length of the next one.
StateOK ==
    /\ state = "WS_OPEN" => /\ \A i \in 1..Len(got) : ~Ends(sent[i])
                            /\ ctl = "loop" => ~NextSeen
    /\ state = "CLOSE" =>
          /\ ctl = "loop"
          /\ \/ Len(got) > 0 /\ Ends(sent[Len(got)])
             \/ /\ NextSeen /\ TooLong(sent[Len(got) + 1])
                /\ \A i \in 1..Len(got) : ~Ends(sent[i])

\* The wire is what the peer sends.
StreamOK ==
    /\ sent \in Seq(Frames) /\ wire = Wire(sent) /\ arrived \in 0..Len(wire)
    /\ ctl \in {"loop", "frames"} /\ state \in {"WS_OPEN", "CLOSE"}

FramesInv == StreamOK /\ PrefixOK /\ RestOK /\ StateOK


LEMMA WireType ==
    ASSUME StreamOK
    PROVE  /\ sent \in Seq(Frames) /\ Len(sent) \in Nat /\ wire \in Seq(Nat)
           /\ Len(wire) \in Nat /\ arrived \in Nat /\ arrived <= Len(wire)
           /\ wire = Stream(sent)[Len(sent)]
<1>1. sent \in Seq(Frames) /\ wire = Wire(sent)
  BY DEF StreamOK
<1>2. Len(sent) \in Nat /\ wire = Stream(sent)[Len(sent)]
  BY <1>1, StreamIs
<1>3. Len(sent) \in 0..Len(sent)
  BY <1>2
<1>4. wire \in Seq(Nat)
  BY <1>1, <1>2, <1>3, StreamIs
<1>. QED
  BY <1>1, <1>2, <1>4 DEF StreamOK

\* The frame that is next.
Coming == sent[Len(got) + 1]

LEMMA ComingIs ==
    ASSUME StreamOK, PrefixOK, RestOK, Len(got) < Len(sent)
    PROVE  /\ IsFrame(Coming) /\ Handled \in Nat /\ arrived \in Nat /\ Len(wire) \in Nat
           /\ Handled + Len(Encode(Coming)) = Len(Stream(sent)[Len(got) + 1])
           /\ Handled + Len(Encode(Coming)) <= Len(wire)
           /\ Begins(rbuf, Coming) /\ Len(rbuf) = arrived - Handled /\ Len(rbuf) \in Nat
<1>. DEFINE g == Len(got)
            e == Encode(Coming)
            at == Handled
<1>1. g + 1 \in 1..Len(sent) /\ (g + 1) - 1 = g /\ sent \in Seq(Frames)
  BY StreamIs DEF StreamOK, PrefixOK
<1>2. /\ IsFrame(Coming) /\ at \in Nat /\ Len(wire) \in Nat
      /\ Len(Stream(sent)[g + 1]) = at + Len(e) /\ at + Len(e) <= Len(wire)
      /\ \A i \in 1..Len(e) : wire[at + i] = e[i]
  <2>1. wire = Wire(sent)
    BY DEF StreamOK
  <2>2. at = Len(Stream(sent)[(g + 1) - 1])
    BY <1>1 DEF Handled
  <2>. HIDE DEF at
  <2>. QED
    BY <1>1, <2>1, <2>2, InWire DEF Coming
<1>3. arrived \in Nat /\ arrived <= Len(wire) /\ at <= arrived
      /\ rbuf = SubSeq(wire, at + 1, arrived)
  BY <1>2 DEF StreamOK, RestOK
<1>4. wire \in Seq(Nat)
  BY WireType
<1>. HIDE DEF at, e, g
<1>5. \A j \in (at + 1)..arrived : wire[j] \in Nat
  BY <1>2, <1>3, <1>4, SMTT(30)
<1>6. /\ rbuf \in Seq(Nat)
      /\ Len(rbuf) = IF at + 1 <= arrived THEN arrived - (at + 1) + 1 ELSE 0
      /\ \A i \in 1..(arrived - (at + 1) + 1) : rbuf[i] = wire[(at + 1) + i - 1]
  <2>1. at + 1 \in Int /\ arrived \in Int
    BY <1>2, <1>3
  <2>. QED
    BY <1>3, <1>5, <2>1, SubSeqProperties, SMTT(30)
<1>7. Len(rbuf) = arrived - at /\ Len(rbuf) \in Nat
  BY <1>2, <1>3, <1>6
<1>8. \A i \in 1..Len(rbuf) : rbuf[i] = wire[at + i]
  <2>. TAKE i \in 1..Len(rbuf)
  <2>1. i \in 1..(arrived - (at + 1) + 1) /\ (at + 1) + i - 1 = at + i
    BY <1>2, <1>3, <1>7
  <2>2. rbuf[i] = wire[(at + 1) + i - 1]
    BY <1>6, <2>1
  <2>. QED
    BY <2>1, <2>2
<1>9. \A i \in 1..Len(rbuf) : i <= Len(e) => rbuf[i] = e[i]
  <2>. TAKE i \in 1..Len(rbuf)
  <2>1. ASSUME i <= Len(e) PROVE rbuf[i] = e[i]
    <3>1. Len(e) \in Nat
      BY <1>2, SeenAfterIs DEF e
    <3>2. i \in 1..Len(e)
      BY <2>1, <1>7, <3>1
    <3>. QED
      BY <1>2, <1>8, <3>2
  <2>. QED
    BY <2>1
<1>10. Begins(rbuf, Coming)
  BY <1>6, <1>9 DEF Begins, e
<1>. QED
  BY <1>2, <1>3, <1>7, <1>10 DEF at, e, g

LEMMA NoneComing ==
    ASSUME StreamOK, PrefixOK, RestOK, Len(got) = Len(sent)
    PROVE  Len(rbuf) = 0 /\ ~NextSeen
<1>1. Handled = Len(wire) /\ Len(wire) \in Nat /\ arrived = Len(wire)
  <2>3. Handled = Len(wire)
    BY WireType DEF Handled
  <2>4. Len(wire) \in Nat
    BY WireType
  <2>. QED
    BY <2>3, <2>4 DEF StreamOK, RestOK
<1>2. rbuf = <<>>
  <2>1. rbuf = SubSeq(wire, Handled + 1, arrived)
    BY DEF RestOK
  <2>2. Handled + 1 \in Int /\ arrived \in Int /\ arrived < Handled + 1
    BY <1>1
  <2>. QED
    BY <2>1, <2>2, SubSeqEmpty
<1>3. ~NextSeen
  BY StreamIs DEF NextSeen, StreamOK
<1>. QED
  BY <1>2, <1>3

\* A turn of the loop refuses the next frame, takes it or waits for it just when
\* what arrived of it says so.
LEMMA Turn ==
    ASSUME StreamOK, PrefixOK, RestOK
    PROVE  /\ (HeaderRead(rbuf) /\ ~Admitted(rbuf)) <=> (NextSeen /\ TooLong(Coming))
           /\ (HeaderRead(rbuf) /\ Admitted(rbuf) /\ Whole(rbuf))
                 <=> (NextSeen /\ ~TooLong(Coming))
           /\ NextSeen /\ ~TooLong(Coming) =>
                 /\ Frame(rbuf) = AsSent(Coming)
                 /\ Hlen(rbuf) + Plen(rbuf) = Len(Encode(Coming))
<1>1. CASE Len(got) = Len(sent)
  <2>1. ~HeaderRead(rbuf)
    BY <1>1, NoneComing DEF HeaderRead
  <2>. QED
    BY <1>1, <2>1, NoneComing
<1>2. CASE Len(got) < Len(sent)
  <2>. DEFINE f == Coming
              b == rbuf
              e == Encode(f)
  <2>1. /\ IsFrame(f) /\ Begins(b, f) /\ Len(b) = arrived - Handled /\ Len(b) \in Nat
        /\ Handled \in Nat /\ arrived \in Nat
    BY <1>2, ComingIs
  <2>2. /\ SeenAfter(f) = (IF TooLong(f) THEN KeyAt(f) ELSE Len(e))
        /\ SeenAfter(f) \in Nat /\ Len(e) \in Nat
        /\ 2 <= KeyAt(f) /\ KeyAt(f) <= SeenAfter(f) /\ SeenAfter(f) <= Len(e)
    BY <2>1, SeenAfterIs
  <2>3. KeyAt(f) \in Nat /\ Len(f.body) \in Nat /\ BodyAt(f) \in Nat /\ KeyAt(f) = 2 + LongBytes(f)
        /\ LongBytes(f) \in {0, 2, 8}
    BY <2>1, FrameType DEF KeyAt
  <2>4. NextSeen <=> Len(b) >= SeenAfter(f)
    <3>1. NextSeen <=> Handled + SeenAfter(f) <= arrived
      BY <1>2 DEF NextSeen, Coming
    <3>. HIDE DEF f, b
    <3>. QED
      BY <3>1, <2>1, <2>2
  <2>5. HeaderRead(b) <=> Len(b) >= KeyAt(f)
    <3>1. CASE Len(b) >= 2
      <4>1. LenBytes(b) = LongBytes(f)
        BY <2>1, <3>1, ParsedForm
      <4>. HIDE DEF f, b
      <4>. QED
        BY <3>1, <4>1, <2>3 DEF HeaderRead
    <3>2. CASE ~(Len(b) >= 2)
      <4>. HIDE DEF f, b
      <4>. QED
        BY <3>2, <2>1, <2>2, <2>3 DEF HeaderRead
    <3>. QED
      BY <3>1, <3>2
  <2>6. ASSUME Len(b) >= KeyAt(f)
        PROVE  /\ Plen(b) \in Nat /\ (Admitted(b) <=> ~TooLong(f))
               /\ ~TooLong(f) => Plen(b) = Len(f.body)
               /\ Hlen(b) = BodyAt(f)
    <3>1. Plen(b) \in Nat /\ StandsFor(Plen(b), Len(f.body))
      BY <2>1, <2>6, ParsedLength
    <3>2. Len(b) >= 2
      <4>. HIDE DEF f, b
      <4>. QED
        BY <2>1, <2>2, <2>3, <2>6
    <3>3. Hlen(b) = BodyAt(f)
      BY <2>1, <3>2, ParsedForm
    <3>. HIDE DEF f, b
    <3>. QED
      BY <3>1, <3>3, <2>3, MaxFrameAssumption DEF StandsFor, Admitted, TooLong
  <2>7. Len(e) = BodyAt(f) + Len(f.body)
    BY <2>1, Encoded
  <2>8. (HeaderRead(b) /\ ~Admitted(b)) <=> (NextSeen /\ TooLong(f))
    <3>. HIDE DEF f, b
    <3>. QED
      BY <2>1, <2>2, <2>3, <2>4, <2>5, <2>6
  <2>9. (HeaderRead(b) /\ Admitted(b) /\ Whole(b)) <=> (NextSeen /\ ~TooLong(f))
    <3>. HIDE DEF f, b, e
    <3>1. CASE Len(b) >= KeyAt(f) /\ ~TooLong(f)
      <4>1. Whole(b) <=> Len(b) >= Len(e)
        BY <3>1, <2>6, <2>7 DEF Whole
      <4>. QED
        BY <3>1, <4>1, <2>2, <2>4, <2>5, <2>6
    <3>2. CASE Len(b) >= KeyAt(f) /\ TooLong(f)
      BY <3>2, <2>6
    <3>3. CASE ~(Len(b) >= KeyAt(f))
      BY <3>3, <2>1, <2>2, <2>3, <2>4, <2>5
    <3>. QED
      BY <3>1, <3>2, <3>3
  <2>10. ASSUME NextSeen, ~TooLong(f)
         PROVE  Frame(b) = AsSent(f) /\ Hlen(b) + Plen(b) = Len(e)
    <3>1. Len(b) >= Len(e) /\ Len(f.body) <= MaxFrame
      <4>. HIDE DEF f, b, e
      <4>. QED
        BY <2>10, <2>2, <2>3, <2>4, MaxFrameAssumption DEF TooLong
    <3>. QED
      BY <2>1, <3>1, Parsed
  <2>. QED
    BY <2>8, <2>9, <2>10
<1>. QED
  BY <1>1, <1>2, StreamIs DEF PrefixOK, StreamOK

LEMMA FramesInit ==
    ASSUME Init
    PROVE  FramesInv
<1>1. sent \in Seq(Frames)
  BY DEF Init
<1>2. /\ wire = Wire(sent) /\ arrived = 0 /\ rbuf = <<>> /\ ctl = "loop" /\ state = "WS_OPEN"
      /\ got = <<>> /\ Len(got) = 0
  BY DEF Init
<1>3. Len(sent) \in Nat /\ Stream(sent)[0] = <<>> /\ Wire(sent) = Stream(sent)[Len(sent)]
      /\ \A k \in 0..Len(sent) : Stream(sent)[k] \in Seq(Nat)
  BY <1>1, StreamIs
<1>4. StreamOK
  <2>1. Len(wire) \in Nat
    BY <1>2, <1>3
  <2>. QED
    BY <1>1, <1>2, <2>1 DEF StreamOK
<1>5. PrefixOK
  <2>1. got = [i \in 1..Len(got) |-> AsSent(sent[i])]
    BY <1>2
  <2>. QED
    BY <1>2, <1>3, <2>1 DEF PrefixOK
<1>6. Handled = 0
  <2>1. Handled = Len(<<>>)
    BY <1>2, <1>3 DEF Handled
  <2>. QED
    BY <2>1
<1>7. RestOK
  <2>1. SubSeq(wire, 1, 0) = <<>>
    BY SubSeqEmpty
  <2>. QED
    BY <1>2, <1>6, <2>1 DEF RestOK
<1>8. ~NextSeen
  <2>1. SUFFICES ASSUME NextSeen PROVE FALSE
    OBVIOUS
  <2>2. 1 \in 1..Len(sent) /\ Handled + SeenAfter(sent[1]) <= 0
    BY <2>1, <1>2, <1>3 DEF NextSeen
  <2>3. IsFrame(sent[1])
    BY <1>1, <2>2, StreamIs
  <2>4. SeenAfter(sent[1]) \in Nat /\ 2 <= KeyAt(sent[1]) /\ KeyAt(sent[1]) <= SeenAfter(sent[1])
    BY <2>3, SeenAfterIs
  <2>5. KeyAt(sent[1]) \in Nat
    BY <2>3, FrameType
  <2>. QED
    BY <2>2, <2>4, <2>5, <1>6
<1>9. StateOK
  BY <1>2, <1>8 DEF StateOK
<1>. QED
  BY <1>4, <1>5, <1>7, <1>9 DEF FramesInv

LEMMA FramesOnData ==
    ASSUME FramesInv, NEW n \in 1..(Len(wire) - arrived), OnData(n)
    PROVE  FramesInv'
<1>. USE DEF FramesInv
<1>1. /\ state = "WS_OPEN" /\ rbuf' = rbuf \o SubSeq(wire, arrived + 1, arrived + n)
      /\ arrived' = arrived + n /\ ctl' = "frames"
      /\ sent' = sent /\ wire' = wire /\ state' = state /\ got' = got
  BY DEF OnData, peer
<1>2. /\ wire \in Seq(Nat) /\ Len(wire) \in Nat /\ arrived \in Nat /\ n \in Nat
      /\ arrived + n <= Len(wire)
  BY WireType
<1>3. Handled \in Nat /\ Handled' = Handled
  <2>1. Len(got) \in 0..Len(sent) /\ sent \in Seq(Frames)
    BY DEF PrefixOK, StreamOK
  <2>2. Stream(sent)[Len(got)] \in Seq(Nat)
    BY <2>1, StreamIs
  <2>. QED
    BY <1>1, <2>2 DEF Handled
<1>4. StreamOK'
  BY <1>1, <1>2 DEF StreamOK
<1>5. PrefixOK'
  BY <1>1 DEF PrefixOK
<1>6. RestOK'
  <2>1. Handled <= arrived /\ rbuf = SubSeq(wire, Handled + 1, arrived)
    BY DEF RestOK
  <2>2. SubSeq(wire, Handled + 1, arrived) \o SubSeq(wire, arrived + 1, arrived + n)
           = SubSeq(wire, Handled + 1, arrived + n)
    <3>. DEFINE lo == Handled + 1
                hi == arrived + n
    <3>1. lo \in 1..(Len(wire) + 1) /\ arrived \in (lo - 1)..Len(wire) /\ hi \in arrived..Len(wire)
      BY <1>2, <1>3, <2>1
    <3>. HIDE DEF lo, hi
    <3>2. SubSeq(wire, lo, arrived) \o SubSeq(wire, arrived + 1, hi) = SubSeq(wire, lo, hi)
      BY <1>2, <3>1, ConcatAdjacentSubSeq
    <3>. QED
      BY <3>2 DEF lo, hi
  <2>3. rbuf' = SubSeq(wire', Handled' + 1, arrived')
    BY <1>1, <1>3, <2>1, <2>2
  <2>4. Handled' <= arrived'
    BY <1>1, <1>2, <1>3, <2>1
  <2>. QED
    BY <2>3, <2>4 DEF RestOK
<1>7. StateOK'
  BY <1>1 DEF StateOK
<1>. QED
  BY <1>4, <1>5, <1>6, <1>7

\* Nothing of what the invariant speaks of moves.
LEMMA SamePlaces ==
    ASSUME sent' = sent, wire' = wire, arrived' = arrived, rbuf' = rbuf, got' = got
    PROVE  /\ PrefixOK => PrefixOK'
           /\ RestOK => RestOK'
           /\ NextSeen' = NextSeen
<1>1. PrefixOK => PrefixOK'
  BY DEF PrefixOK
<1>2. Handled' = Handled
  BY DEF Handled
<1>3. RestOK => RestOK'
  BY <1>2 DEF RestOK
<1>4. NextSeen' = NextSeen
  BY <1>2 DEF NextSeen
<1>. QED
  BY <1>1, <1>3, <1>4

LEMMA FramesWait ==
    ASSUME FramesInv, Wait
    PROVE  FramesInv'
<1>. USE DEF FramesInv
<1>1. /\ ctl = "frames" /\ ctl' = "loop" /\ sent' = sent /\ wire' = wire /\ arrived' = arrived
      /\ rbuf' = rbuf /\ state' = state /\ got' = got
      /\ HeaderRead(rbuf) => Admitted(rbuf) /\ ~Whole(rbuf)
  BY DEF Wait, peer
<1>2. ~NextSeen
  BY <1>1, Turn
<1>3. state = "WS_OPEN" /\ \A i \in 1..Len(got) : ~Ends(sent[i])
  BY <1>1 DEF StateOK, StreamOK
<1>4. PrefixOK' /\ RestOK' /\ ~NextSeen'
  BY <1>1, <1>2, SamePlaces
<1>5. StreamOK'
  BY <1>1 DEF StreamOK
<1>6. StateOK'
  BY <1>1, <1>3, <1>4 DEF StateOK
<1>. QED
  BY <1>4, <1>5, <1>6

LEMMA FramesRefuse ==
    ASSUME FramesInv, Refuse
    PROVE  FramesInv'
<1>. USE DEF FramesInv
<1>1. /\ ctl = "frames" /\ ctl' = "loop" /\ sent' = sent /\ wire' = wire /\ arrived' = arrived
      /\ rbuf' = rbuf /\ state' = "CLOSE" /\ got' = got
      /\ HeaderRead(rbuf) /\ ~Admitted(rbuf)
  BY DEF Refuse, CloseWith, peer
<1>2. NextSeen /\ TooLong(sent[Len(got) + 1])
  BY <1>1, Turn DEF Coming
<1>3. \A i \in 1..Len(got) : ~Ends(sent[i])
  BY <1>1 DEF StateOK, StreamOK
<1>4. PrefixOK' /\ RestOK' /\ NextSeen'
  BY <1>1, <1>2, SamePlaces
<1>5. StreamOK'
  BY <1>1 DEF StreamOK
<1>6. StateOK'
  BY <1>1, <1>2, <1>3, <1>4 DEF StateOK
<1>. QED
  BY <1>4, <1>5, <1>6

LEMMA RestOfRest ==
    ASSUME NEW w \in Seq(Nat), NEW at \in Nat, NEW k \in Nat, NEW m \in Nat,
           at + k <= m, m <= Len(w)
    PROVE  SubSeq(SubSeq(w, at + 1, m), k + 1, m - at) = SubSeq(w, at + k + 1, m)
<1>. DEFINE i == at + 1
            lo == k + 1
            hi == m - at
            low == at + k + 1
<1>1. Len(w) \in Nat
  OBVIOUS
<1>2. CASE at + k = m
  <2>1. SubSeq(SubSeq(w, i, m), lo, hi) = <<>>
    <3>1. lo \in Int /\ hi \in Int /\ hi < lo
      BY <1>2
    <3>. HIDE DEF lo, hi, i
    <3>. QED
      BY <3>1, SubSeqEmpty
  <2>2. SubSeq(w, low, m) = <<>>
    <3>1. low \in Int /\ m \in Int /\ m < low
      BY <1>2
    <3>. HIDE DEF low
    <3>. QED
      BY <3>1, SubSeqEmpty
  <2>. QED
    BY <2>1, <2>2
<1>3. CASE at + k < m
  <2>1. /\ i \in 1..Len(w) /\ m \in 1..Len(w) /\ lo \in 1..(m - i + 1) /\ hi \in 1..(m - i + 1)
        /\ i + lo - 1 = low /\ i + hi - 1 = m
    BY <1>1, <1>3
  <2>. HIDE DEF i, lo, hi, low
  <2>2. SubSeq(SubSeq(w, i, m), lo, hi) = SubSeq(w, i + lo - 1, i + hi - 1)
    BY <2>1, SubSeqOfSubSeq
  <2>3. SubSeq(SubSeq(w, i, m), lo, hi) = SubSeq(w, low, m)
    BY <2>1, <2>2
  <2>. QED
    BY <2>3 DEF i, lo, hi, low
<1>. QED
  BY <1>1, <1>2, <1>3

\* What a turn that takes a frame does, of whatever kind.
LEMMA Taken ==
    ASSUME FramesInv, Take
    PROVE  /\ NextSeen /\ ~TooLong(Coming) /\ IsFrame(Coming) /\ Frame(rbuf) = AsSent(Coming)
           /\ got' = Append(got, AsSent(Coming)) /\ Len(got) + 1 \in 1..Len(sent)
           /\ state = "WS_OPEN" /\ \A i \in 1..Len(got) : ~Ends(sent[i])
           /\ sent' = sent /\ wire' = wire /\ arrived' = arrived
           /\ rbuf' = SubSeq(rbuf, Len(Encode(Coming)) + 1, Len(rbuf))
           /\ \/ Ends(Coming) /\ state' = "CLOSE" /\ ctl' = "loop"
              \/ ~Ends(Coming) /\ state' = state /\ ctl' = ctl
<1>. USE DEF FramesInv
<1>1. /\ ctl = "frames" /\ HeaderRead(rbuf) /\ Admitted(rbuf) /\ Whole(rbuf)
      /\ rbuf' = SubSeq(rbuf, Hlen(rbuf) + Plen(rbuf) + 1, Len(rbuf))
      /\ sent' = sent /\ wire' = wire /\ arrived' = arrived
      /\ got' = Append(got, Frame(rbuf))
  BY DEF Take, peer
<1>2. /\ NextSeen /\ ~TooLong(Coming) /\ Frame(rbuf) = AsSent(Coming)
      /\ Hlen(rbuf) + Plen(rbuf) = Len(Encode(Coming))
  BY <1>1, Turn
<1>3. state = "WS_OPEN" /\ \A i \in 1..Len(got) : ~Ends(sent[i])
  BY <1>1 DEF StateOK, StreamOK
<1>4. Len(got) < Len(sent) /\ Len(got) + 1 \in 1..Len(sent)
  BY <1>2, WireType DEF NextSeen, PrefixOK
<1>5. IsFrame(Coming)
  BY <1>4, ComingIs
<1>6. Frame(rbuf).op = Coming.op
  BY <1>2 DEF AsSent
<1>7. \/ Ends(Coming) /\ state' = "CLOSE" /\ ctl' = "loop"
      \/ ~Ends(Coming) /\ state' = state /\ ctl' = ctl
  <2>1. CASE Coming.op \in {Cont, Text, Binary, Ping, Pong}
    <3>1. Coming.op # Close
      BY <2>1 DEF Cont, Text, Binary, Ping, Pong, Close
    <3>2. state' = state /\ ctl' = ctl
      BY <2>1, <3>1, <1>6 DEF Take
    <3>. QED
      BY <2>1, <3>2, <1>2 DEF Ends
  <2>2. CASE Coming.op \notin {Cont, Text, Binary, Ping, Pong}
    <3>1. state' = "CLOSE" /\ ctl' = "loop"
      BY <2>2, <1>6 DEF Take, CloseWith
    <3>. QED
      BY <2>2, <3>1 DEF Ends
  <2>. QED
    BY <2>1, <2>2
<1>. QED
  BY <1>1, <1>2, <1>3, <1>4, <1>5, <1>7

LEMMA FramesTake ==
    ASSUME FramesInv, Take
    PROVE  FramesInv'
<1>. USE DEF FramesInv
<1>. DEFINE g == Len(got)
            e == Encode(Coming)
<1>1. /\ NextSeen /\ ~TooLong(sent[g + 1]) /\ Coming = sent[g + 1]
      /\ got' = Append(got, AsSent(sent[g + 1])) /\ g + 1 \in 1..Len(sent)
      /\ state = "WS_OPEN" /\ \A i \in 1..g : ~Ends(sent[i])
      /\ sent' = sent /\ wire' = wire /\ arrived' = arrived
      /\ rbuf' = SubSeq(rbuf, Len(e) + 1, Len(rbuf))
      /\ \/ Ends(sent[g + 1]) /\ state' = "CLOSE" /\ ctl' = "loop"
         \/ ~Ends(sent[g + 1]) /\ state' = state /\ ctl' = ctl
  BY Taken DEF Coming
<1>2. /\ got = [i \in 1..g |-> AsSent(sent[i])] /\ g \in Nat /\ g \in 0..Len(sent)
      /\ \A i \in 1..g : ~TooLong(sent[i]) /\ (i < g => ~Ends(sent[i]))
  BY WireType DEF PrefixOK
<1>3. StreamOK'
  BY <1>1 DEF StreamOK
<1>4. Len(got') = g + 1 /\ got' = [i \in 1..(g + 1) |-> AsSent(sent[i])]
  <2>. HIDE DEF g
  <2>. DEFINE h == [i \in 1..g |-> AsSent(sent[i])]
  <2>1. h \in Seq({AsSent(sent[i]) : i \in 1..(g + 1)}) /\ Len(h) = g
    BY <1>2
  <2>2. Append(h, AsSent(sent[g + 1])) = [i \in 1..(g + 1) |-> AsSent(sent[i])]
    BY <1>2
  <2>. QED
    BY <1>1, <1>2, <2>1, <2>2
<1>5. PrefixOK'
  <2>1. Len(got') \in 0..Len(sent')
    BY <1>1, <1>4
  <2>2. got' = [i \in 1..Len(got') |-> AsSent(sent'[i])]
    BY <1>1, <1>4
  <2>3. \A i \in 1..Len(got') : ~TooLong(sent'[i]) /\ (i < Len(got') => ~Ends(sent'[i]))
    <3>. HIDE DEF g
    <3>1. \A i \in 1..(g + 1) : i \in 1..g \/ i = g + 1
      BY <1>2
    <3>. QED
      BY <1>1, <1>2, <1>4, <3>1
  <2>. QED
    BY <2>1, <2>2, <2>3 DEF PrefixOK
<1>6. Handled \in Nat /\ Len(e) \in Nat /\ Handled' = Handled + Len(e) /\ Handled' <= arrived
  <2>1. g < Len(sent) /\ Handled + SeenAfter(Coming) <= arrived
    BY <1>1 DEF NextSeen
  <2>2. /\ IsFrame(Coming) /\ Handled \in Nat /\ Handled + Len(e) = Len(Stream(sent)[g + 1])
    BY <2>1, ComingIs
  <2>3. Handled' = Len(Stream(sent)[g + 1])
    BY <1>1, <1>4 DEF Handled
  <2>4. SeenAfter(Coming) = Len(e) /\ Len(e) \in Nat
    BY <1>1, <2>2, SeenAfterIs
  <2>. HIDE DEF e
  <2>. QED
    BY <2>1, <2>2, <2>3, <2>4
<1>7. RestOK'
  <2>1. g < Len(sent)
    BY <1>1 DEF NextSeen
  <2>2. Len(rbuf) = arrived - Handled
    BY <2>1, ComingIs
  <2>3. wire \in Seq(Nat) /\ arrived \in Nat /\ arrived <= Len(wire)
    BY WireType
  <2>4. rbuf = SubSeq(wire, Handled + 1, arrived)
    BY DEF RestOK
  <2>. DEFINE k == Len(e)
              at == Handled
  <2>5. at \in Nat /\ k \in Nat /\ at + k <= arrived
    BY <1>6
  <2>6. rbuf' = SubSeq(SubSeq(wire, at + 1, arrived), k + 1, arrived - at)
    BY <1>1, <2>2, <2>4
  <2>. HIDE DEF k, at
  <2>7. rbuf' = SubSeq(wire, at + k + 1, arrived)
    BY <2>3, <2>5, <2>6, RestOfRest
  <2>8. Handled' = at + k
    BY <1>6 DEF at, k
  <2>. QED
    BY <1>1, <1>6, <2>7, <2>8 DEF RestOK
<1>8. StateOK'
  <2>1. CASE Ends(sent[g + 1])
    <3>1. state' = "CLOSE" /\ ctl' = "loop" /\ Len(got') > 0 /\ Ends(sent'[Len(got')])
      BY <2>1, <1>1, <1>2, <1>4
    <3>. QED
      BY <3>1 DEF StateOK
  <2>2. CASE ~Ends(sent[g + 1])
    <3>1. state' = "WS_OPEN" /\ ctl' = "frames"
      <4>1. ctl = "frames"
        BY DEF Take
      <4>. QED
        BY <2>2, <1>1, <4>1
    <3>2. \A i \in 1..Len(got') : ~Ends(sent'[i])
      <4>. HIDE DEF g
      <4>1. \A i \in 1..(g + 1) : i \in 1..g \/ i = g + 1
        BY <1>2
      <4>. QED
        BY <2>2, <1>1, <1>4, <4>1
    <3>. QED
      BY <3>1, <3>2 DEF StateOK
  <2>. QED
    BY <2>1, <2>2
<1>. QED
  BY <1>3, <1>5, <1>7, <1>8

LEMMA FramesStep ==
    ASSUME FramesInv, [Next]_vars
    PROVE  FramesInv'
<1>1. ASSUME NEW n \in 1..(Len(wire) - arrived), OnData(n) PROVE FramesInv'
  BY <1>1, FramesOnData
<1>2. CASE Wait
  BY <1>2, FramesWait
<1>3. CASE Refuse
  BY <1>3, FramesRefuse
<1>4. CASE Take
  BY <1>4, FramesTake
<1>5. CASE UNCHANGED vars
  <2>1. /\ sent' = sent /\ wire' = wire /\ arrived' = arrived /\ rbuf' = rbuf /\ ctl' = ctl
        /\ state' = state /\ got' = got
    BY <1>5 DEF vars, peer
  <2>2. (PrefixOK => PrefixOK') /\ (RestOK => RestOK') /\ NextSeen' = NextSeen
    BY <2>1, SamePlaces
  <2>3. StateOK => StateOK'
    BY <2>1, <2>2 DEF StateOK
  <2>4. StreamOK => StreamOK'
    BY <2>1 DEF StreamOK
  <2>. QED
    BY <2>2, <2>3, <2>4 DEF FramesInv
<1>. QED
  BY <1>1, <1>2, <1>3, <1>4, <1>5 DEF Next

\* The frames handled are the first ones sent, and what is left in the buffer is
\* the beginning of the next.
THEOREM ReadInvariant == Spec => []FramesInv
<1>1. Init => FramesInv
  BY FramesInit
<1>2. FramesInv /\ [Next]_vars => FramesInv'
  BY FramesStep
<1>. QED
  BY <1>1, <1>2, PTL DEF Spec

\* What is seen of the peer's frames are its first ones.
LEMMA SeenBefore ==
    ASSUME StreamOK, NEW k \in Nat, Seen(k), NEW j \in 0..k
    PROVE  Seen(j)
<1>1. sent \in Seq(Frames) /\ Len(sent) \in Nat /\ arrived \in Nat
  BY WireType
<1>2. /\ k <= Len(sent) /\ \A i \in 1..(k - 1) : ~Ends(sent[i])
      /\ k > 0 => Len(Stream(sent)[k - 1]) + SeenAfter(sent[k]) <= arrived
  BY DEF Seen
<1>3. j <= Len(sent) /\ \A i \in 1..(j - 1) : ~Ends(sent[i])
  BY <1>1, <1>2
<1>4. ASSUME j > 0 PROVE Len(Stream(sent)[j - 1]) + SeenAfter(sent[j]) <= arrived
  <2>1. CASE j = k
    BY <2>1, <1>2, <1>4
  <2>2. CASE j # k
    <3>1. /\ j \in 1..Len(sent) /\ j \in 0..Len(sent) /\ k - 1 \in 0..Len(sent) /\ j <= k - 1
          /\ k \in 1..Len(sent) /\ k > 0
      BY <2>2, <1>1, <1>2, <1>4
    <3>. DEFINE before == Len(Stream(sent)[j - 1])
                upto == Len(Stream(sent)[j])
                later == Len(Stream(sent)[k - 1])
                e == Len(Encode(sent[j]))
    <3>2. IsFrame(sent[j]) /\ before \in Nat /\ upto = before + e
      BY <3>1, <1>1, InWire
    <3>3. upto <= later
      BY <3>1, <1>1, StreamGrows
    <3>4. SeenAfter(sent[j]) \in Nat /\ SeenAfter(sent[j]) <= e /\ e \in Nat
      BY <3>2, SeenAfterIs
    <3>5. IsFrame(sent[k]) /\ later \in Nat
      BY <3>1, <1>1, InWire
    <3>6. SeenAfter(sent[k]) \in Nat /\ later + SeenAfter(sent[k]) <= arrived
      BY <3>1, <3>5, <1>2, SeenAfterIs
    <3>7. before + SeenAfter(sent[j]) <= arrived
      <4>. HIDE DEF before, upto, later, e
      <4>. QED
        BY <3>2, <3>3, <3>4, <3>5, <3>6, <1>1
    <3>. QED
      BY <3>7
  <2>. QED
    BY <2>1, <2>2
<1>. QED
  BY <1>3, <1>4 DEF Seen

\* So only one number of frames is all that is seen.
LEMMA SeenOnce ==
    ASSUME StreamOK, NEW k \in 0..Len(sent), Seen(k), ~Seen(k + 1)
    PROVE  k = CHOOSE n \in 0..Len(sent) : Seen(n) /\ ~Seen(n + 1)
<1>1. ASSUME NEW n \in 0..Len(sent), Seen(n), ~Seen(n + 1) PROVE n = k
  <2>0. Len(sent) \in Nat /\ n \in Nat /\ k \in Nat
    BY WireType
  <2>1. CASE n < k
    <3>1. n + 1 \in 0..k
      BY <2>0, <2>1
    <3>. QED
      BY <3>1, <2>0, <1>1, SeenBefore
  <2>2. CASE k < n
    <3>1. k + 1 \in 0..n
      BY <2>0, <2>2
    <3>. QED
      BY <3>1, <2>0, <1>1, SeenBefore
  <2>. QED
    BY <2>0, <2>1, <2>2
<1>. QED
  BY <1>1

\* All frames that were handled are seen.
LEMMA HandledSeen ==
    ASSUME FramesInv
    PROVE  Seen(Len(got))
<1>. USE DEF FramesInv
<1>. DEFINE g == Len(got)
<1>1. /\ sent \in Seq(Frames) /\ Len(sent) \in Nat /\ arrived \in Nat
      /\ g \in Nat /\ g <= Len(sent) /\ \A i \in 1..g : i < g => ~Ends(sent[i])
  BY WireType DEF PrefixOK
<1>2. \A i \in 1..(g - 1) : ~Ends(sent[i])
  <2>. HIDE DEF g
  <2>. QED
    BY <1>1
<1>3. ASSUME g > 0 PROVE Len(Stream(sent)[g - 1]) + SeenAfter(sent[g]) <= arrived
  <2>1. g \in 1..Len(sent)
    BY <1>1, <1>3
  <2>. DEFINE before == Len(Stream(sent)[g - 1])
              e == Len(Encode(sent[g]))
  <2>2. IsFrame(sent[g]) /\ before \in Nat /\ Handled = before + e
    BY <1>1, <2>1, InWire DEF Handled
  <2>3. SeenAfter(sent[g]) \in Nat /\ SeenAfter(sent[g]) <= e /\ e \in Nat
    BY <2>2, SeenAfterIs
  <2>4. Handled <= arrived
    BY DEF RestOK
  <2>5. before + SeenAfter(sent[g]) <= arrived
    <3>. HIDE DEF before, e, g
    <3>. QED
      BY <2>2, <2>3, <2>4, <1>1
  <2>. QED
    BY <2>5
<1>. QED
  BY <1>1, <1>2, <1>3 DEF Seen

LEMMA FramesAreExact ==
    ASSUME FramesInv
    PROVE  FramesExact
<1>. USE DEF FramesInv
<1>. SUFFICES ASSUME ctl = "loop" PROVE FramesExact
  BY DEF FramesExact
<1>. DEFINE g == Len(got)
            Exact(k) == LET handled == IF k > 0 /\ TooLong(sent[k]) THEN k - 1 ELSE k
                        IN  /\ got = [i \in 1..handled |-> AsSent(sent[i])]
                            /\ state = "CLOSE" <=> k > 0 /\ Ends(sent[k])
<1>1. /\ Len(sent) \in Nat /\ g \in Nat /\ g <= Len(sent) /\ g \in 0..Len(sent)
      /\ got = [i \in 1..g |-> AsSent(sent[i])] /\ \A i \in 1..g : ~TooLong(sent[i])
      /\ state \in {"WS_OPEN", "CLOSE"}
  BY WireType DEF PrefixOK, StreamOK
<1>2. Seen(g)
  BY HandledSeen
<1>5. /\ (g + 1) - 1 = g /\ g + 1 > 0 /\ g + 1 \in 1..(((g + 1) + 1) - 1)
      /\ g > 0 => g \in 1..((g + 1) - 1) /\ g \in 1..g
      /\ g < Len(sent) => g + 1 \in 0..Len(sent) /\ g + 1 <= Len(sent)
      /\ g + 1 <= Len(sent) => g < Len(sent)
  <2>1. g \in Nat /\ Len(sent) \in Nat
    BY <1>1, SMTT(30)
  <2>. HIDE DEF g
  <2>. QED
    BY <2>1
<1>6. ASSUME g > 0 => ~TooLong(sent[g]), state = "CLOSE" <=> g > 0 /\ Ends(sent[g]) PROVE Exact(g)
  BY <1>1, <1>6
<1>7. Exact(g + 1) <=> LET handled == IF g + 1 > 0 /\ TooLong(sent[g + 1]) THEN (g + 1) - 1 ELSE g + 1
                       IN  /\ got = [i \in 1..handled |-> AsSent(sent[i])]
                           /\ state = "CLOSE" <=> g + 1 > 0 /\ Ends(sent[g + 1])
  OBVIOUS
<1>. HIDE DEF Exact
<1>3. SUFFICES ASSUME NEW k \in 0..Len(sent), Seen(k), ~Seen(k + 1), Exact(k) PROVE FramesExact
  <2>1. \E k \in 0..Len(sent) : Seen(k) /\ ~Seen(k + 1) /\ Exact(k)
    <3>1. CASE state = "WS_OPEN"
      <4>1. ~NextSeen /\ \A i \in 1..g : ~Ends(sent[i])
        BY <3>1 DEF StateOK
      <4>2. ~Seen(g + 1)
        <5>1. SUFFICES ASSUME Seen(g + 1) PROVE FALSE
          OBVIOUS
        <5>2. (g + 1) - 1 = g /\ g + 1 > 0
          BY <1>5
        <5>3. g + 1 <= Len(sent) /\ Len(Stream(sent)[g]) + SeenAfter(sent[g + 1]) <= arrived
          BY <5>1, <5>2 DEF Seen
        <5>4. NextSeen
          BY <5>3, <1>5 DEF NextSeen, Handled
        <5>. QED
          BY <5>4, <4>1
      <4>3. Exact(g)
        BY <1>1, <1>5, <1>6, <3>1, <4>1
      <4>. QED
        BY <1>1, <1>2, <4>2, <4>3
    <3>2. CASE state = "CLOSE" /\ g > 0 /\ Ends(sent[g])
      <4>1. ~Seen(g + 1)
        <5>1. g \in 1..((g + 1) - 1)
          BY <1>5, <3>2
        <5>. QED
          BY <5>1, <3>2 DEF Seen
      <4>2. Exact(g)
        BY <1>1, <1>5, <1>6, <3>2
      <4>. QED
        BY <1>1, <1>2, <4>1, <4>2
    <3>3. CASE /\ state = "CLOSE" /\ NextSeen /\ TooLong(sent[g + 1])
               /\ \A i \in 1..g : ~Ends(sent[i])
      <4>1. g < Len(sent) /\ Len(Stream(sent)[g]) + SeenAfter(sent[g + 1]) <= arrived
        BY <3>3 DEF NextSeen, Handled
      <4>2. g + 1 \in 0..Len(sent) /\ (g + 1) - 1 = g /\ g + 1 <= Len(sent) /\ g + 1 > 0
        BY <1>5, <4>1
      <4>3. Seen(g + 1)
        BY <3>3, <4>1, <4>2 DEF Seen
      <4>4. Ends(sent[g + 1])
        BY <3>3 DEF Ends
      <4>5. ~Seen((g + 1) + 1)
        <5>1. g + 1 \in 1..(((g + 1) + 1) - 1)
          BY <1>5
        <5>. QED
          BY <5>1, <4>4 DEF Seen
      <4>6. Exact(g + 1)
        BY <1>1, <1>7, <3>3, <4>2, <4>4
      <4>. QED
        BY <4>2, <4>3, <4>5, <4>6
    <3>. QED
      BY <1>1, <3>1, <3>2, <3>3 DEF StateOK
  <2>. QED
    BY <1>3, <2>1
<1>4. k = CHOOSE n \in 0..Len(sent) : Seen(n) /\ ~Seen(n + 1)
  BY <1>3, SeenOnce
<1>. QED
  BY <1>3, <1>4 DEF FramesExact, Exact

\* Wherever the reads cut the bytes, the frames handled are those the peer has sent
\* in full, each with its bits and its payload, and one too large is refused as soon
\* as its length is read.
THEOREM FramesArriveExact == Spec => []FramesExact
<1>1. FramesInv => FramesExact
  BY FramesAreExact
<1>. QED
  BY <1>1, ReadInvariant, PTL

-----------------------------------------------------------------------------
(* The answers as the peer reads them. *)

\* An answer with a length of one byte or two is a frame as RFC 6455 has it.
LEMMA ShortAnswer ==
    ASSUME NEW op \in 0..15, NEW body \in Seq(Digit), Len(body) < Base * Base
    PROVE  \E f : /\ IsFrame(f) /\ f.op = op /\ f.fin = TRUE /\ f.body = body
                  /\ Encode(f) = BuildFrame(op, body)
<1>. DEFINE n == Len(body)
            form == IF n < Bits16 THEN 0 ELSE Bits16
            f == [op |-> op, fin |-> TRUE, form |-> form, key |-> <<>>, body |-> body]
            t == BuildLen(n)
<1>1. n \in Nat /\ n < Base * Base /\ form \in {0, Bits16, Bits64}
  OBVIOUS
<1>2. Shifted(n)[1] < Base
  <2>1. Shifted(n)[1] = Shifted(n)[0] \div Base /\ Shifted(n)[0] = n
    BY <1>1, ShiftedIs
  <2>. QED
    BY <1>1, <2>1, DivMod
<1>3. /\ form = 0 => n < Bits16
      /\ form # Bits64
  BY <1>1, BaseFacts
<1>4. IsFrame(f)
  <2>1. f \in [op : 0..15, fin : BOOLEAN, form : {0, Bits16, Bits64},
               key : {<<>>} \cup [1..4 -> Digit], body : Seq(Digit)]
    <3>. HIDE DEF form
    <3>. QED
      BY <1>1
  <2>2. f.form = form /\ Len(f.body) = n
    OBVIOUS
  <2>. HIDE DEF f, form, n
  <2>. QED
    BY <1>2, <1>3, <2>1, <2>2 DEF IsFrame
<1>5. LenField(n, form) = t
  BY <1>1, BaseFacts DEF LenField, BuildLen
<1>6. t \in Seq(Nat) /\ Len(t) >= 1
  <2>1. CASE n < Bits16
    BY <2>1, <1>1 DEF BuildLen
  <2>2. CASE ~(n < Bits16)
    <3>. DEFINE ds == Digits(n, 2)
    <3>1. t = <<Bits16>> \o ds
      BY <2>2, <1>1 DEF BuildLen
    <3>2. ds \in Seq(Nat)
      BY <1>1, DigitsAre, BaseFacts, SeqMonotonic
    <3>3. <<Bits16>> \in Seq(Nat) /\ Len(<<Bits16>>) = 1
      BY BaseFacts
    <3>. HIDE DEF ds, t
    <3>. QED
      BY <3>1, <3>2, <3>3, TwoJoined
  <2>. QED
    BY <2>1, <2>2
<1>7. [t EXCEPT ![1] = @ + 0] = t
  <2>. HIDE DEF t
  <2>1. 1 \in 1..Len(t) /\ t[1] + 0 = t[1] /\ t[1] \in Nat
    BY <1>6
  <2>. QED
    BY <1>6, <2>1
<1>8. Encode(f) = <<128 + op>> \o t \o <<>> \o body
  <2>1. f.fin = TRUE /\ f.op = op /\ f.key = <<>> /\ f.body = body /\ f.form = form
    OBVIOUS
  <2>2. LenField(Len(f.body), f.form) = t
    BY <1>5, <2>1
  <2>3. Unmask(f.key, f.body) = body
    BY <2>1 DEF Unmask
  <2>. HIDE DEF f, t, form
  <2>. QED
    BY <1>7, <2>1, <2>2, <2>3 DEF Encode
<1>9. <<128 + op>> \o t \o <<>> = <<128 + op>> \o t
  <2>1. <<128 + op>> \in Seq(Nat)
    OBVIOUS
  <2>2. <<128 + op>> \o t \in Seq(Nat)
    BY <1>6, <2>1, TwoJoined
  <2>. DEFINE s == <<128 + op>> \o t
  <2>. HIDE DEF s
  <2>3. s \o <<>> = s
    BY <2>2, ConcatEmptySeq DEF s
  <2>. QED
    BY <2>3 DEF s
<1>10. Encode(f) = BuildFrame(op, body)
  BY <1>8, <1>9 DEF BuildFrame
<1>11. f.op = op /\ f.fin = TRUE /\ f.body = body
  OBVIOUS
<1>. HIDE DEF f
<1>. QED
  BY <1>4, <1>10, <1>11

LEMMA ShortRead ==
    ASSUME NEW op \in 0..15, NEW body \in Seq(Digit), Len(body) < Base * Base,
           Len(body) <= MaxFrame
    PROVE  LET b == BuildFrame(op, body) IN
           /\ Frame(b) = [op |-> op, fin |-> TRUE, body |-> body]
           /\ Plen(b) = Len(body) /\ Len(b) = Hlen(b) + Plen(b)
<1>1. PICK f : /\ IsFrame(f) /\ f.op = op /\ f.fin = TRUE /\ f.body = body
               /\ Encode(f) = BuildFrame(op, body)
  BY ShortAnswer
<1>. DEFINE b == BuildFrame(op, body)
<1>2. b \in Seq(Nat) /\ Len(b) \in Nat /\ b = Encode(f)
  BY <1>1, Encoded
<1>. HIDE DEF b
<1>3. Begins(b, f) /\ Len(b) >= Len(Encode(f))
  BY <1>2 DEF Begins
<1>4. /\ Plen(b) = Len(body) /\ Hlen(b) + Plen(b) = Len(Encode(f)) /\ Frame(b) = AsSent(f)
  BY <1>1, <1>3, Parsed
<1>. QED
  BY <1>1, <1>2, <1>4 DEF b, AsSent

\* Once larger than what is left of a number, a length stays larger.
LEMMA Exceeds ==
    ASSUME NEW m \in Nat, m <= MaxFrame, NEW acc \in Nat, NEW d \in Nat, acc > m \div Base
    PROVE  Shift(acc, d) > m
<1>1. m \div Base \in Nat /\ m = (m \div Base) * Base + (m % Base) /\ m % Base \in 0..(Base - 1)
  BY DivMod DEF Digit
<1>2. CASE acc > MaxFrame
  BY <1>2, MaxFrameAssumption DEF Shift
<1>3. CASE ~(acc > MaxFrame)
  <2>. DEFINE q == m \div Base
  <2>1. q \in Nat /\ acc >= q + 1 /\ m = q * Base + (m % Base) /\ Base \in Nat
    BY <1>1, BaseFacts
  <2>. HIDE DEF q
  <2>2. acc * Base >= (q + 1) * Base
    BY <2>1
  <2>3. (q + 1) * Base = q * Base + Base
    BY <2>1
  <2>4. m < q * Base + Base
    BY <1>1, <2>1
  <2>5. acc * Base > m /\ acc * Base \in Nat
    BY <2>1, <2>2, <2>3, <2>4
  <2>6. Shift(acc, d) = acc * Base + d
    BY <1>3 DEF Shift
  <2>. QED
    BY <2>5, <2>6
<1>. QED
  BY <1>2, <1>3

LEMMA ShiftPositive ==
    ASSUME NEW acc \in Nat, NEW d \in Nat, acc > 0 \/ d > 0
    PROVE  Shift(acc, d) > 0
<1>1. CASE acc > MaxFrame
  BY <1>1, MaxFrameAssumption DEF Shift
<1>2. CASE ~(acc > MaxFrame)
  <2>1. acc * Base \in Nat /\ (acc > 0 => acc * Base > 0)
    BY BaseFacts
  <2>. QED
    BY <1>2, <2>1 DEF Shift
<1>. QED
  BY <1>1, <1>2

LEMMA DivLess ==
    ASSUME NEW a \in Nat, NEW b \in Nat, a <= b
    PROVE  a \div Base <= b \div Base
<1>1. CASE Base = 8
  BY <1>1
<1>2. CASE Base = 16
  BY <1>2
<1>3. CASE Base = 32
  BY <1>3
<1>4. CASE Base = 64
  BY <1>4
<1>5. CASE Base = 128
  BY <1>5
<1>6. CASE Base = 256
  BY <1>6
<1>. QED
  BY <1>1, <1>2, <1>3, <1>4, <1>5, <1>6, BaseAssumption


\* An answer whose length takes eight bytes: that of a number of at least three digits,
\* turned round, is larger than any that the peer would take.
LEMMA LongAnswer ==
    ASSUME NEW op \in 0..15, NEW body \in Seq(Digit), Base * Base <= Len(body)
    PROVE  LET b == BuildFrame(op, body) IN
           /\ b[2] = Bits64
           /\ \A i \in 1..8 : b[2 + i] = Shifted(Len(body))[i - 1] % Base
<1>. DEFINE n == Len(body)
            ds == Digits(n, 8)
            t == <<Bits64>> \o Reverse(ds)
<1>0. body \in Seq(Nat)
  <2>1. Digit \subseteq Nat
    BY BaseFacts
  <2>. QED
    BY <2>1, SeqMonotonic
<1>1. n \in Nat /\ body \in Seq(Nat)
  BY <1>0
<1>2. ds \in Seq(Nat) /\ Len(ds) = 8 /\ \A i \in 1..8 : ds[i] = Shifted(n)[8 - i] % Base
  BY <1>1, DigitsAre, BaseFacts, SeqMonotonic
<1>3. BuildLen(n) = t
  <2>1. Base * Base >= Base
    BY BaseFacts
  <2>2. ~(n < Bits16) /\ ~(n < Base * Base)
    BY <1>1, <2>1, BaseFacts, SMTT(30)
  <2>. QED
    BY <2>2 DEF BuildLen
<1>. HIDE DEF n
<1>4. /\ Reverse(ds) \in Seq(Nat) /\ Len(Reverse(ds)) = 8
      /\ \A i \in 1..8 : Reverse(ds)[i] = Shifted(n)[i - 1] % Base
  <2>. HIDE DEF ds
  <2>1. Reverse(ds) = [i \in 1..8 |-> ds[(8 - i) + 1]]
    BY <1>2 DEF Reverse
  <2>2. \A i \in 1..8 : (8 - i) + 1 \in 1..8 /\ 8 - ((8 - i) + 1) = i - 1
    OBVIOUS
  <2>3. \A i \in 1..8 : ds[i] \in Nat
    BY <1>2, ElementOfSeq
  <2>4. \A i \in 1..8 : ds[(8 - i) + 1] \in Nat
    BY <2>2, <2>3
  <2>. QED
    BY <1>2, <2>1, <2>2, <2>4
<1>. DEFINE r == Reverse(ds)
<1>. HIDE DEF ds, r
<1>5. <<128 + op>> \in Seq(Nat) /\ Len(<<128 + op>>) = 1 /\ <<Bits64>> \in Seq(Nat)
      /\ Len(<<Bits64>>) = 1 /\ <<Bits64>>[1] = Bits64
  BY BaseFacts
<1>6. /\ t \in Seq(Nat) /\ Len(t) = 9 /\ t[1] = Bits64
      /\ \A i \in 1..8 : t[1 + i] = r[i]
  <2>1. r \in Seq(Nat) /\ Len(r) = 8 /\ t = <<Bits64>> \o r
    BY <1>4 DEF r
  <2>. DEFINE s == <<Bits64>>
  <2>2. s \in Seq(Nat) /\ Len(s) = 1 /\ s[1] = Bits64
    BY <1>5
  <2>. HIDE DEF s
  <2>3. /\ s \o r \in Seq(Nat) /\ Len(s \o r) = Len(s) + Len(r)
        /\ \A i \in 1..Len(s) : (s \o r)[i] = s[i]
        /\ \A i \in 1..Len(r) : (s \o r)[Len(s) + i] = r[i]
    BY <2>1, <2>2, TwoJoined
  <2>4. t = s \o r
    BY <2>1 DEF s
  <2>. HIDE DEF t
  <2>5. t \in Seq(Nat) /\ Len(t) = 9
    <3>1. Len(s) = 1 /\ Len(r) = 8
      BY <2>1, <2>2
    <3>2. t \in Seq(Nat) /\ Len(t) = Len(s) + Len(r)
      BY <2>3, <2>4, Zenon
    <3>. QED
      BY <3>1, <3>2
  <2>6. 1 \in 1..Len(s)
    BY <2>2
  <2>7. t[1] = Bits64
    BY <2>2, <2>3, <2>4, <2>6
  <2>8. \A i \in 1..8 : i \in 1..Len(r) /\ Len(s) + i = 1 + i
    BY <2>1, <2>2
  <2>9. \A i \in 1..8 : t[1 + i] = r[i]
    BY <2>3, <2>4, <2>8
  <2>. QED
    BY <2>5, <2>7, <2>9
<1>. HIDE DEF t
<1>7. \A i \in 1..9 : (<<128 + op>> \o t)[1 + i] = t[i]
  <2>. DEFINE h == <<128 + op>>
  <2>1. h \in Seq(Nat) /\ Len(h) = 1
    BY <1>5
  <2>. HIDE DEF h
  <2>2. \A i \in 1..Len(t) : (h \o t)[Len(h) + i] = t[i]
    BY <1>6, <2>1, TwoJoined
  <2>3. \A i \in 1..9 : (h \o t)[1 + i] = t[i]
    BY <1>6, <2>1, <2>2
  <2>. QED
    BY <2>3 DEF h
<1>. DEFINE x == <<128 + op>> \o t
<1>8. x \in Seq(Nat) /\ Len(x) = 10
  <2>. DEFINE h == <<128 + op>>
  <2>1. h \in Seq(Nat) /\ Len(h) = 1
    BY <1>5
  <2>. HIDE DEF h
  <2>2. h \o t \in Seq(Nat) /\ Len(h \o t) = Len(h) + Len(t)
    BY <1>6, <2>1, TwoJoined
  <2>3. Len(h \o t) = 10
    BY <1>6, <2>1, <2>2
  <2>. QED
    BY <2>2, <2>3 DEF h
<1>9. BuildFrame(op, body) = x \o body
  BY <1>3 DEF BuildFrame, n
<1>. HIDE DEF x
<1>10. \A i \in 1..10 : (x \o body)[i] = x[i]
  <2>1. \A i \in 1..Len(x) : (x \o body)[i] = x[i]
    BY <1>0, <1>8, TwoJoined
  <2>. QED
    BY <1>8, <2>1
<1>11. x[2] = Bits64
  <2>1. 1 \in 1..9 /\ 1 + 1 = 2
    OBVIOUS
  <2>. QED
    BY <1>6, <1>7, <2>1, ZenonT(60) DEF x
<1>12. \A i \in 1..8 : x[2 + i] = r[i]
  <2>. TAKE i \in 1..8
  <2>1. 1 + i \in 1..9 /\ 1 + (1 + i) = 2 + i
    OBVIOUS
  <2>2. x[1 + (1 + i)] = t[1 + i]
    BY <1>7, <2>1 DEF x
  <2>. QED
    BY <1>6, <2>1, <2>2
<1>13. \A i \in 1..8 : (x \o body)[2 + i] = Shifted(n)[i - 1] % Base
  <2>. TAKE i \in 1..8
  <2>1. 2 + i \in 1..10
    OBVIOUS
  <2>. QED
    BY <1>4, <1>10, <1>12, <2>1 DEF r
<1>14. (x \o body)[2] = Bits64
  <2>1. 2 \in 1..10
    OBVIOUS
  <2>. QED
    BY <1>10, <1>11, <2>1
<1>. QED
  BY <1>9, <1>13, <1>14 DEF n

LEMMA LongRead ==
    ASSUME NEW op \in 0..15, NEW body \in Seq(Digit), Base * Base <= Len(body),
           Len(body) <= MaxFrame
    PROVE  Plen(BuildFrame(op, body)) > MaxFrame /\ Plen(BuildFrame(op, body)) \in Nat
<1>. DEFINE b == BuildFrame(op, body)
            n == Len(body)
            s == Shifted(n)
            m == Shifted(MaxFrame)
<1>1. n \in Nat /\ MaxFrame \in Nat /\ n <= MaxFrame /\ Base * Base <= n
  BY MaxFrameAssumption
<1>2. b[2] = Bits64 /\ \A i \in 1..8 : b[2 + i] = s[i - 1] % Base
  BY LongAnswer
<1>. HIDE DEF b, n
<1>3. /\ s[0] \in Nat /\ s[1] \in Nat /\ s[2] \in Nat /\ s[3] \in Nat
      /\ s[0] = n /\ s[1] = s[0] \div Base /\ s[2] = s[1] \div Base /\ s[3] = s[2] \div Base
      /\ \A i \in 1..8 : s[i - 1] % Base \in Nat
  <2>1. /\ s \in [0..7 -> Nat] /\ s[0] = n
        /\ \A k \in 1..7 : s[k] = s[k - 1] \div Base
    BY <1>1, ShiftedIs
  <2>. HIDE DEF s
  <2>2. s[1] = s[1 - 1] \div Base /\ s[2] = s[2 - 1] \div Base /\ s[3] = s[3 - 1] \div Base
    BY <2>1
  <2>3. \A i \in 1..8 : s[i - 1] \in Nat
    BY <2>1, SMTT(30)
  <2>4. \A i \in 1..8 : s[i - 1] % Base \in Nat
    BY <2>3, DivMod, BaseFacts
  <2>. QED
    BY <2>1, <2>2, <2>4
<1>4. /\ m[0] \in Nat /\ m[1] \in Nat /\ m[2] \in Nat /\ m[3] \in Nat
      /\ m[0] = MaxFrame /\ m[1] = m[0] \div Base /\ m[2] = m[1] \div Base
      /\ m[3] = m[2] \div Base /\ m[3] < Base
  <2>1. /\ m \in [0..7 -> Nat] /\ m[0] = MaxFrame
        /\ \A k \in 1..7 : m[k] = m[k - 1] \div Base
    BY <1>1, ShiftedIs
  <2>2. m[3] < Base
    BY MaxFrameAssumption
  <2>. HIDE DEF m
  <2>3. m[1] = m[1 - 1] \div Base /\ m[2] = m[2 - 1] \div Base /\ m[3] = m[3 - 1] \div Base
    BY <2>1
  <2>. QED
    BY <2>1, <2>2, <2>3
<1>. HIDE DEF s, m
<1>5. m[1] <= MaxFrame /\ m[2] <= MaxFrame /\ m[3] <= MaxFrame /\ m[3] \div Base = 0
  <2>1. m[1] <= m[0]
    BY <1>4, DivMod
  <2>2. m[2] <= m[1]
    BY <1>4, DivMod
  <2>3. m[3] <= m[2]
    BY <1>4, DivMod
  <2>4. m[3] \div Base = 0
    BY <1>4, DivMod
  <2>. QED
    BY <1>1, <1>4, <2>1, <2>2, <2>3, <2>4
<1>6. s[3] < Base
  <2>1. s[1] <= m[1]
    BY <1>1, <1>3, <1>4, DivLess
  <2>2. s[2] <= m[2]
    BY <2>1, <1>3, <1>4, DivLess
  <2>3. s[3] <= m[3]
    BY <2>2, <1>3, <1>4, DivLess
  <2>4. Base \in Nat /\ s[3] \in Nat /\ m[3] \in Nat /\ m[3] < Base
    BY <1>3, <1>4, BaseFacts
  <2>. QED
    BY <2>3, <2>4
<1>7. s[2] % Base > 0 \/ s[3] % Base > 0
  <2>1. s[2] >= 1
    <3>1. s[1] >= Base
      <4>1. ~(n < Base * Base)
        BY <1>1, BaseFacts
      <4>2. ~(s[1] < Base)
        BY <4>1, <1>1, <1>3, DivMod
      <4>3. Base \in Nat /\ s[1] \in Nat
        BY <1>3, BaseFacts
      <4>. QED
        BY <4>2, <4>3
    <3>2. s[1] = s[2] * Base + (s[1] % Base) /\ s[1] % Base \in Digit
      BY <1>3, DivMod
    <3>3. CASE s[2] = 0
      <4>1. s[2] * Base = 0
        BY <3>3, BaseFacts
      <4>. DEFINE d == s[1] % Base
      <4>2. d \in Nat /\ d < Base /\ Base \in Nat /\ s[1] \in Nat
        <5>1. Base \in Nat /\ s[1] \in Nat
          BY <1>3, BaseFacts
        <5>2. d \in 0..(Base - 1)
          BY <3>2 DEF Digit
        <5>. HIDE DEF d
        <5>. QED
          BY <5>1, <5>2
      <4>3. s[1] = 0 + d /\ s[1] >= Base
        BY <3>1, <3>2, <4>1
      <4>. HIDE DEF d
      <4>. QED
        BY <4>2, <4>3
    <3>4. s[2] \in Nat
      BY <1>3
    <3>. QED
      BY <3>3, <3>4
  <2>2. CASE s[3] = 0
    <3>1. s[2] = s[3] * Base + (s[2] % Base) /\ s[2] % Base \in Nat
      BY <1>3, DivMod, BaseFacts
    <3>2. s[3] * Base = 0
      BY <2>2, BaseFacts
    <3>. QED
      BY <2>1, <3>1, <3>2
  <2>3. CASE s[3] # 0
    <3>1. s[3] \in Nat
      BY <1>3
    <3>2. s[3] % Base = s[3]
      BY <1>6, <3>1, DivMod
    <3>. QED
      BY <2>3, <3>1, <3>2
  <2>. QED
    BY <2>2, <2>3
<1>8. LenBytes(b) = 8
  <2>1. Bits64 % Masked = Bits64 /\ Bits64 # Bits16
    BY BaseAssumption DEF Bits64, Bits16, Masked
  <2>. QED
    BY <1>2, <2>1 DEF LenBytes
<1>9. PICK p \in [0..8 -> Nat] :
         /\ p[0] = 0 /\ \A i \in 1..8 : p[i] = Shift(p[i - 1], b[2 + i])
         /\ Plen(b) = p[8]
  <2>1. \A i \in 1..LenBytes(b) : b[2 + i] \in Nat
    BY <1>2, <1>3, <1>8
  <2>2. \E p \in [0..LenBytes(b) -> Nat] :
              /\ p[0] = 0 /\ \A i \in 1..LenBytes(b) : p[i] = Shift(p[i - 1], b[2 + i])
              /\ Plen(b) = p[LenBytes(b)]
    <3>1. LenBytes(b) \in {2, 8}
      BY <1>8
    <3>. QED
      BY <2>1, <3>1, PlenGoes
  <2>. QED
    BY <1>8, <2>2
<1>10. /\ p[2] \in Nat /\ p[3] \in Nat /\ p[4] \in Nat /\ p[5] \in Nat /\ p[6] \in Nat
       /\ p[7] \in Nat /\ p[8] \in Nat
       /\ p[3] = Shift(p[2], s[2] % Base) /\ p[4] = Shift(p[3], s[3] % Base)
       /\ s[2] % Base \in Nat /\ s[3] % Base \in Nat
  <2>1. 3 \in 1..8 /\ 4 \in 1..8 /\ 3 - 1 = 2 /\ 4 - 1 = 3 /\ 2 + 3 = 5 /\ 2 + 4 = 6
    OBVIOUS
  <2>2. b[5] = s[2] % Base /\ b[6] = s[3] % Base
    BY <1>2, <2>1
  <2>3. p[3] = Shift(p[2], b[5]) /\ p[4] = Shift(p[3], b[6])
    BY <1>9, <2>1
  <2>4. s[2] % Base \in Nat /\ s[3] % Base \in Nat
    BY <1>3, DivMod, BaseFacts
  <2>. QED
    BY <1>9, <2>2, <2>3, <2>4
<1>11. p[4] > 0
  <2>1. p[3] > 0 \/ s[3] % Base > 0
    BY <1>7, <1>10, ShiftPositive
  <2>. QED
    BY <2>1, <1>10, ShiftPositive
<1>12. \A i \in 5..8 : \E d \in Nat : p[i] = Shift(p[i - 1], d)
  <2>. TAKE i \in 5..8
  <2>1. i \in 1..8
    OBVIOUS
  <2>2. b[2 + i] \in Nat /\ p[i] = Shift(p[i - 1], b[2 + i])
    BY <2>1, <1>2, <1>3, <1>9
  <2>. QED
    BY <2>2
<1>13. \E d \in Nat : p[5] = Shift(p[4], d)
  BY <1>12
<1>14. \E d \in Nat : p[6] = Shift(p[5], d)
  BY <1>12
<1>15. \E d \in Nat : p[7] = Shift(p[6], d)
  BY <1>12
<1>16. \E d \in Nat : p[8] = Shift(p[7], d)
  BY <1>12
<1>17. p[5] > m[3]
  BY <1>4, <1>5, <1>10, <1>11, <1>13, Exceeds, ZenonT(60)
<1>18. p[6] > m[2]
  BY <1>4, <1>5, <1>10, <1>14, <1>17, Exceeds, ZenonT(60)
<1>19. p[7] > m[1]
  BY <1>4, <1>5, <1>10, <1>15, <1>18, Exceeds, ZenonT(60)
<1>20. p[8] > m[0]
  <2>1. m[0] <= MaxFrame
    BY <1>1, <1>4
  <2>. QED
    BY <1>4, <1>10, <1>16, <1>19, <2>1, Exceeds, ZenonT(60)
<1>. QED
  BY <1>4, <1>9, <1>10, <1>20 DEF b


\* A C string ends before the first zero.
LEMMA StringIs ==
    ASSUME NEW s \in Seq(Nat)
    PROVE  \E n \in 0..Len(s) : CString(s) = SubSeq(s, 1, n) /\ \A i \in 1..n : s[i] # 0
<1>. DEFINE Ends0(n) == (\A i \in 1..n : s[i] # 0) /\ (n < Len(s) => s[n + 1] = 0)
            Some == \E n \in 0..Len(s) : Ends0(n)
            S == {n \in Nat : n <= Len(s) => Some \/ \A i \in 1..n : s[i] # 0}
<1>1. Len(s) \in Nat
  OBVIOUS
<1>2. ASSUME NEW n \in Nat, \A m \in 0..(n - 1) : m \in S PROVE n \in S
  <2>. HIDE DEF Some
  <2>1. SUFFICES ASSUME n <= Len(s), ~Some PROVE \A i \in 1..n : s[i] # 0
    OBVIOUS
  <2>2. CASE n = 0
    BY <2>2
  <2>3. CASE n > 0
    <3>1. n - 1 \in 0..(n - 1) /\ n - 1 \in Nat /\ n - 1 <= Len(s) /\ n - 1 < Len(s)
          /\ (n - 1) + 1 = n /\ n - 1 \in 0..Len(s)
      BY <1>1, <2>1, <2>3
    <3>2. n - 1 \in S
      BY <1>2, <3>1
    <3>3. \A i \in 1..(n - 1) : s[i] # 0
      BY <2>1, <3>1, <3>2
    <3>4. s[n] # 0
      <4>1. SUFFICES ASSUME s[n] = 0 PROVE FALSE
        OBVIOUS
      <4>2. Ends0(n - 1)
        BY <3>1, <3>3, <4>1
      <4>3. Some
        BY <3>1, <4>2 DEF Some
      <4>. QED
        BY <2>1, <4>3
    <3>5. \A i \in 1..n : i \in 1..(n - 1) \/ i = n
      OBVIOUS
    <3>. QED
      BY <3>3, <3>4, <3>5
  <2>. QED
    BY <2>2, <2>3
<1>3. Some
  <2>1. Nat \subseteq S
    <3>. HIDE DEF S
    <3>. QED
      BY <1>2, NatInduct
  <2>2. SUFFICES ASSUME ~Some PROVE FALSE
    OBVIOUS
  <2>3. \A i \in 1..Len(s) : s[i] # 0
    <3>. HIDE DEF Some
    <3>1. Len(s) \in S
      BY <1>1, <2>1
    <3>. QED
      BY <1>1, <2>2, <3>1
  <2>4. Ends0(Len(s)) /\ Len(s) \in 0..Len(s)
    BY <1>1, <2>3
  <2>. QED
    BY <2>2, <2>4
<1>. DEFINE k == CHOOSE n \in 0..Len(s) : Ends0(n)
<1>4. k \in 0..Len(s) /\ Ends0(k)
  BY <1>3
<1>5. CString(s) = SubSeq(s, 1, k)
  BY DEF CString
<1>. HIDE DEF k
<1>. QED
  BY <1>4, <1>5

\* What a close frame is answered with is the code and the reason up to a zero.
LEMMA CloseBodyIs ==
    ASSUME NEW s \in Seq(Digit), Len(s) >= 2
    PROVE  \E n \in 2..Len(s) : CloseBody(s) = SubSeq(s, 1, n) /\ \A i \in 3..n : s[i] # 0
<1>. DEFINE r == SubSeq(s, 3, Len(s))
            l == Len(s)
<1>1. s \in Seq(Nat) /\ l \in Nat /\ l >= 2
  <2>1. Digit \subseteq Nat
    BY BaseFacts
  <2>2. s \in Seq(Nat)
    BY <2>1, SeqMonotonic
  <2>. QED
    BY <2>2
<1>2. /\ r \in Seq(Nat) /\ Len(r) = l - 2
      /\ \A i \in 1..(l - 2) : r[i] = s[i + 2]
  <2>1. \A i \in 3..l : s[i] \in Nat
    <3>1. \A i \in 3..l : i \in 1..Len(s)
      BY <1>1
    <3>. QED
      BY <1>1, <3>1, ElementOfSeq
  <2>. HIDE DEF l
  <2>2. /\ SubSeq(s, 3, l) \in Seq(Nat)
        /\ Len(SubSeq(s, 3, l)) = IF 3 <= l THEN l - 3 + 1 ELSE 0
        /\ \A i \in 1..(l - 3 + 1) : SubSeq(s, 3, l)[i] = s[3 + i - 1]
    BY <1>1, <2>1, SubSeqProperties
  <2>3. r = SubSeq(s, 3, l)
    BY DEF l
  <2>. HIDE DEF r
  <2>4. l - 3 + 1 = l - 2 /\ \A i \in 1..(l - 2) : 3 + i - 1 = i + 2
    BY <1>1
  <2>5. Len(r) = l - 2
    BY <1>1, <2>2, <2>3
  <2>. QED
    BY <2>2, <2>3, <2>4, <2>5
<1>. HIDE DEF r
<1>3. PICK m \in 0..Len(r) : CString(r) = SubSeq(r, 1, m) /\ \A i \in 1..m : r[i] # 0
  BY <1>2, StringIs
<1>4. m \in Nat /\ m <= l - 2
  BY <1>1, <1>2, <1>3
<1>5. SubSeq(r, 1, m) = SubSeq(s, 3, m + 2)
  <2>1. CASE m = 0
    <3>1. SubSeq(r, 1, m) = <<>> /\ SubSeq(s, 3, m + 2) = <<>>
      BY <2>1, SubSeqEmpty
    <3>. QED
      BY <3>1
  <2>2. CASE m # 0
    <3>. DEFINE hi == m + 2
    <3>1. /\ 3 \in 1..l /\ l \in 1..l /\ 1 \in 1..(l - 3 + 1) /\ m \in 1..(l - 3 + 1)
          /\ 3 + 1 - 1 = 3 /\ 3 + m - 1 = hi
      BY <1>1, <1>4, <2>2
    <3>2. SubSeq(SubSeq(s, 3, l), 1, m) = SubSeq(s, 3 + 1 - 1, 3 + m - 1)
      BY <1>1, <3>1, SubSeqOfSubSeq
    <3>3. SubSeq(SubSeq(s, 3, l), 1, m) = SubSeq(s, 3, hi)
      BY <3>1, <3>2
    <3>. QED
      BY <3>3 DEF r
  <2>. QED
    BY <2>1, <2>2
<1>6. SubSeq(s, 1, 2) \o SubSeq(s, 3, m + 2) = SubSeq(s, 1, m + 2)
  <2>. DEFINE hi == m + 2
  <2>1. 1 \in 1..(l + 1) /\ 2 \in (1 - 1)..l /\ hi \in 2..l /\ 2 + 1 = 3
    BY <1>1, <1>4
  <2>. HIDE DEF hi
  <2>2. SubSeq(s, 1, 2) \o SubSeq(s, 2 + 1, hi) = SubSeq(s, 1, hi)
    BY <1>1, <2>1, ConcatAdjacentSubSeq
  <2>3. SubSeq(s, 1, 2) \o SubSeq(s, 3, hi) = SubSeq(s, 1, hi)
    BY <2>1, <2>2
  <2>. QED
    BY <2>3 DEF hi
<1>7. CloseBody(s) = SubSeq(s, 1, m + 2)
  BY <1>1, <1>3, <1>5, <1>6, SMTT(30) DEF CloseBody, r
<1>8. \A i \in 3..(m + 2) : s[i] # 0
  <2>. TAKE i \in 3..(m + 2)
  <2>1. i - 2 \in 1..m /\ i - 2 \in 1..(l - 2) /\ (i - 2) + 2 = i
    BY <1>1, <1>4
  <2>. QED
    BY <1>2, <1>3, <2>1
<1>9. m + 2 \in 2..l
  BY <1>1, <1>4
<1>. QED
  BY <1>7, <1>8, <1>9


LEMMA CodeIs ==
    ASSUME NEW code \in Nat
    PROVE  /\ CodeBytes(code) \in Seq(Digit)
           /\ Len(CodeBytes(code)) = 2 /\ 2 <= MaxFrame /\ 2 < Base * Base
<1>. DEFINE n == code % (Base * Base)
<1>1. Base * Base \in Nat /\ Base * Base > 0
  BY BaseAssumption
<1>2. n \in Nat
  BY <1>1
<1>. HIDE DEF n
<1>3. 2 <= MaxFrame /\ 2 < Base * Base
  BY MaxFrameAssumption, BaseAssumption
<1>. QED
  BY <1>2, <1>3, DigitsAre DEF CodeBytes, n

\* An answer to a close frame is no longer than the frame's body, or a code.
LEMMA CloseBodyType ==
    ASSUME NEW s \in Seq(Digit), Len(s) <= MaxFrame
    PROVE  /\ CloseBody(s) \in Seq(Digit)
           /\ Len(CloseBody(s)) >= 2 /\ Len(CloseBody(s)) <= MaxFrame
           /\ Len(CloseBody(s)) >= Base * Base => Len(s) >= Base * Base
<1>1. CASE Len(s) >= 2
  <2>1. PICK n \in 2..Len(s) : CloseBody(s) = SubSeq(s, 1, n)
    BY <1>1, CloseBodyIs
  <2>2. \A i \in 1..n : s[i] \in Digit
    <3>1. \A i \in 1..n : i \in 1..Len(s)
      OBVIOUS
    <3>. QED
      BY <3>1, ElementOfSeq
  <2>3. SubSeq(s, 1, n) \in Seq(Digit) /\ Len(SubSeq(s, 1, n)) = n
    BY <2>2, SubSeqProperties
  <2>4. n \in Nat /\ Len(s) \in Nat /\ n <= Len(s) /\ n >= 2 /\ Base * Base \in Nat
    BY BaseFacts
  <2>5. MaxFrame \in Nat
    BY MaxFrameAssumption
  <2>. QED
    BY <2>1, <2>3, <2>4, <2>5
<1>2. CASE ~(Len(s) >= 2)
  <2>1. CloseBody(s) = CodeBytes(1000)
    BY <1>2 DEF CloseBody
  <2>2. CloseBody(s) \in Seq(Digit) /\ Len(CloseBody(s)) = 2
    BY <2>1, CodeIs
  <2>3. Base * Base > 2
    BY BaseAssumption
  <2>4. MaxFrame \in Nat /\ MaxFrame >= 2 /\ Base * Base \in Nat
    BY MaxFrameAssumption, BaseFacts
  <2>. QED
    BY <2>2, <2>3, <2>4
<1>. QED
  BY <1>1, <1>2

LEMMA BuildFrameType ==
    ASSUME NEW op \in 0..15, NEW body \in Seq(Digit)
    PROVE  BuildFrame(op, body) \in Seq(Nat)
<1>1. Len(body) \in Nat /\ body \in Seq(Nat)
  <2>1. Digit \subseteq Nat
    BY BaseFacts
  <2>2. body \in Seq(Nat)
    BY <2>1, SeqMonotonic
  <2>. QED
    BY <2>2
<1>. DEFINE t == BuildLen(Len(body))
<1>2. \A k \in {2, 8} : Digits(Len(body), k) \in Seq(Nat)
  <2>. TAKE k \in {2, 8}
  <2>1. Digits(Len(body), k) \in Seq(Digit) /\ Digit \subseteq Nat
    BY <1>1, DigitsAre, BaseFacts
  <2>. QED
    BY <2>1, SeqMonotonic
<1>3. t \in Seq(Nat)
  <2>. DEFINE two == Digits(Len(body), 2)
              ds == Digits(Len(body), 8)
              eight == Reverse(ds)
  <2>1. two \in Seq(Nat) /\ ds \in Seq(Nat)
    BY <1>2
  <2>2. eight \in Seq(Nat)
    <3>. HIDE DEF ds
    <3>1. Len(ds) \in Nat
      BY <2>1
    <3>2. \A i \in 1..Len(ds) : (Len(ds) - i) + 1 \in 1..Len(ds)
      BY <3>1
    <3>3. \A i \in 1..Len(ds) : ds[i] \in Nat
      BY <2>1, ElementOfSeq
    <3>4. \A i \in 1..Len(ds) : ds[(Len(ds) - i) + 1] \in Nat
      BY <3>2, <3>3
    <3>. QED
      BY <3>1, <3>4 DEF Reverse
  <2>3. \/ t = <<Len(body)>>
        \/ t = <<Bits16>> \o two
        \/ t = <<Bits64>> \o eight
    BY DEF BuildLen
  <2>. HIDE DEF t, two, eight
  <2>4. <<Len(body)>> \in Seq(Nat) /\ <<Bits16>> \in Seq(Nat) /\ <<Bits64>> \in Seq(Nat)
    BY <1>1, BaseFacts
  <2>5. <<Bits16>> \o two \in Seq(Nat)
    BY <2>1, <2>4, TwoJoined
  <2>6. <<Bits64>> \o eight \in Seq(Nat)
    BY <2>2, <2>4, TwoJoined
  <2>. QED
    BY <2>3, <2>4, <2>5, <2>6
<1>. HIDE DEF t
<1>4. <<128 + op>> \in Seq(Nat)
  OBVIOUS
<1>5. <<128 + op>> \o t \in Seq(Nat)
  BY <1>3, <1>4, TwoJoined
<1>6. (<<128 + op>> \o t) \o body \in Seq(Nat)
  BY <1>1, <1>5, TwoJoined
<1>. QED
  BY <1>6 DEF BuildFrame, t


-----------------------------------------------------------------------------
(* Which answers there are. *)

HeardFrame == [op : 0..15, fin : BOOLEAN, body : Seq(Digit)]

\* How many of the first k frames of g are pings.
PingsOf(g, k) == {i \in 1..k : g[i].op = Ping}
Count(g, k) == Cardinality(PingsOf(g, k))

IsAnswer(b) ==
    \E op \in {Close, Pong}, body \in Seq(Digit) :
        Len(body) <= MaxFrame /\ b = BuildFrame(op, body)

\* What a close frame says after the frames g: the answer to the last of them, or
\* why there are no more.
Says(g, body) ==
    \/ g # <<>> /\ g[Len(g)].op = Close /\ body = CloseBody(g[Len(g)].body)
    \/ (g # <<>> => g[Len(g)].op # Close) /\ body \in {CodeBytes(1002), CodeBytes(1009)}

ClosedWith(g, b) ==
    \E body \in Seq(Digit) :
        Len(body) <= MaxFrame /\ Says(g, body) /\ b = BuildFrame(Close, body)

\* o are the answers to the frames g: one pong for each ping, in their order, and a
\* close frame if that is the end.
AnswersOf(g, o, closed) ==
    /\ g \in Seq(HeardFrame) /\ \A i \in 1..Len(g) : Len(g[i].body) <= MaxFrame
    /\ o \in Seq(Seq(Nat)) /\ Len(o) = Count(g, Len(g)) + IF closed THEN 1 ELSE 0
    /\ \A i \in 1..Len(o) : IsAnswer(o[i])
    /\ \A i \in PingsOf(g, Len(g)) : o[Count(g, i)] = BuildFrame(Pong, g[i].body)
    /\ closed => ClosedWith(g, o[Len(o)])

AnswersInv == AnswersOf(got, out, state = "CLOSE")

LEMMA CountIs ==
    ASSUME NEW g, NEW n \in Nat
    PROVE  /\ Count(g, n) \in Nat /\ Count(g, 0) = 0
           /\ \A i \in PingsOf(g, n) : Count(g, i) \in 1..Count(g, n)
           /\ \A i \in 0..n : Count(g, i) <= Count(g, n)
<1>1. \A k \in Nat : IsFiniteSet(PingsOf(g, k)) /\ Count(g, k) \in Nat
  <2>. TAKE k \in Nat
  <2>1. IsFiniteSet(1..k)
    BY FS_Interval
  <2>2. PingsOf(g, k) \subseteq 1..k
    BY DEF PingsOf
  <2>3. IsFiniteSet(PingsOf(g, k))
    BY <2>1, <2>2, FS_Subset
  <2>. QED
    BY <2>3, FS_CardinalityType DEF Count
<1>2. Count(g, 0) = 0
  <2>1. PingsOf(g, 0) = {}
    BY DEF PingsOf
  <2>. QED
    BY <2>1, FS_EmptySet DEF Count
<1>3. \A i \in 0..n : Count(g, i) <= Count(g, n)
  <2>. TAKE i \in 0..n
  <2>1. PingsOf(g, i) \subseteq PingsOf(g, n)
    BY DEF PingsOf
  <2>. QED
    BY <1>1, <2>1, FS_Subset DEF Count
<1>4. \A i \in PingsOf(g, n) : Count(g, i) \in 1..Count(g, n)
  <2>. TAKE i \in PingsOf(g, n)
  <2>1. i \in 1..n /\ i \in PingsOf(g, i) /\ i \in Nat /\ i \in 0..n
    BY DEF PingsOf
  <2>2. Count(g, i) \in Nat /\ Count(g, n) \in Nat /\ Count(g, i) <= Count(g, n)
    BY <1>1, <1>3, <2>1
  <2>3. Count(g, i) # 0
    BY <1>1, <2>1, FS_EmptySet DEF Count
  <2>. QED
    BY <2>2, <2>3
<1>. QED
  BY <1>1, <1>2, <1>3, <1>4

\* One more frame is one more ping, or none.
LEMMA CountMore ==
    ASSUME NEW g \in Seq(HeardFrame), NEW f \in HeardFrame
    PROVE  LET h == Append(g, f) IN
           /\ h \in Seq(HeardFrame) /\ Len(h) = Len(g) + 1 /\ h[Len(g) + 1] = f
           /\ Len(g) \in Nat /\ \A i \in 1..Len(g) : h[i] = g[i]
           /\ \A i \in 1..Len(g) : Count(h, i) = Count(g, i)
           /\ f.op = Ping => /\ PingsOf(h, Len(h)) = PingsOf(g, Len(g)) \cup {Len(h)}
                             /\ Count(h, Len(h)) = Count(g, Len(g)) + 1
           /\ f.op # Ping => PingsOf(h, Len(h)) = PingsOf(g, Len(g))
<1>. DEFINE h == Append(g, f)
            n == Len(g)
<1>1. /\ h \in Seq(HeardFrame) /\ Len(h) = n + 1 /\ h[n + 1] = f
      /\ n \in Nat /\ \A i \in 1..n : h[i] = g[i]
  OBVIOUS
<1>. HIDE DEF h, n
<1>2. \A k \in 0..n : PingsOf(h, k) = PingsOf(g, k)
  BY <1>1 DEF PingsOf
<1>3. \A i \in 1..n : Count(h, i) = Count(g, i)
  BY <1>1, <1>2 DEF Count
<1>4. \A i \in 1..(n + 1) : i \in 1..n \/ i = n + 1
  BY <1>1
<1>5. f.op = Ping => PingsOf(h, n + 1) = PingsOf(g, n) \cup {n + 1}
  BY <1>1, <1>4 DEF PingsOf
<1>6. f.op # Ping => PingsOf(h, n + 1) = PingsOf(g, n)
  BY <1>1, <1>4 DEF PingsOf
<1>7. f.op = Ping => Count(h, n + 1) = Count(g, n) + 1
  <2>1. SUFFICES ASSUME f.op = Ping PROVE Count(h, n + 1) = Count(g, n) + 1
    OBVIOUS
  <2>2. IsFiniteSet(PingsOf(g, n))
    <3>1. PingsOf(g, n) \subseteq 1..n /\ IsFiniteSet(1..n)
      BY <1>1, FS_Interval DEF PingsOf
    <3>. QED
      BY <3>1, FS_Subset
  <2>3. n + 1 \notin PingsOf(g, n)
    BY <1>1 DEF PingsOf
  <2>. QED
    BY <1>5, <2>1, <2>2, <2>3, FS_AddElement DEF Count
<1>. QED
  BY <1>1, <1>3, <1>5, <1>6, <1>7 DEF h, n


LEMMA PongIsAnswer ==
    ASSUME NEW op \in {Close, Pong}, NEW body \in Seq(Digit), Len(body) <= MaxFrame
    PROVE  IsAnswer(BuildFrame(op, body)) /\ BuildFrame(op, body) \in Seq(Nat)
<1>1. op \in 0..15
  BY DEF Close, Pong
<1>. QED
  BY <1>1, BuildFrameType DEF IsAnswer

LEMMA OneMore ==
    ASSUME NEW o \in Seq(Seq(Nat)), NEW b \in Seq(Nat)
    PROVE  /\ Append(o, b) \in Seq(Seq(Nat)) /\ Len(Append(o, b)) = Len(o) + 1
           /\ Len(o) \in Nat /\ Append(o, b)[Len(o) + 1] = b
           /\ \A i \in 1..Len(o) : Append(o, b)[i] = o[i]
<1>. DEFINE S == Seq(Nat)
<1>1. o \in Seq(S) /\ b \in S
  OBVIOUS
<1>. HIDE DEF S
<1>2. /\ Append(o, b) \in Seq(S) /\ Len(Append(o, b)) = Len(o) + 1
      /\ Len(o) \in Nat /\ Append(o, b)[Len(o) + 1] = b
      /\ \A i \in 1..Len(o) : Append(o, b)[i] = o[i]
  BY <1>1
<1>. QED
  BY <1>2 DEF S

\* A frame that is no ping is not answered, or not at once.
LEMMA NoPing ==
    ASSUME NEW g, NEW o, AnswersOf(g, o, FALSE),
           NEW f \in HeardFrame, f.op # Ping, Len(f.body) <= MaxFrame
    PROVE  AnswersOf(Append(g, f), o, FALSE)
<1>. DEFINE h == Append(g, f)
            n == Len(g)
<1>1. /\ g \in Seq(HeardFrame) /\ \A i \in 1..n : Len(g[i].body) <= MaxFrame
      /\ o \in Seq(Seq(Nat)) /\ Len(o) = Count(g, n)
      /\ \A i \in 1..Len(o) : IsAnswer(o[i])
      /\ \A i \in PingsOf(g, n) : o[Count(g, i)] = BuildFrame(Pong, g[i].body)
  <2>1. Len(o) = Count(g, n) + 0
    BY DEF AnswersOf
  <2>2. Count(g, n) \in Nat
    <3>1. n \in Nat
      BY DEF AnswersOf
    <3>. QED
      BY <3>1, CountIs
  <2>. QED
    BY <2>1, <2>2 DEF AnswersOf
<1>2. /\ h \in Seq(HeardFrame) /\ Len(h) = n + 1 /\ h[n + 1] = f
      /\ n \in Nat /\ \A i \in 1..n : h[i] = g[i]
      /\ \A i \in 1..n : Count(h, i) = Count(g, i)
      /\ PingsOf(h, Len(h)) = PingsOf(g, n)
  BY <1>1, CountMore
<1>. HIDE DEF h, n
<1>3. \A i \in 1..Len(h) : Len(h[i].body) <= MaxFrame
  <2>1. \A i \in 1..Len(h) : i \in 1..n \/ i = n + 1
    BY <1>2
  <2>. QED
    BY <1>1, <1>2, <2>1
<1>4. \A i \in PingsOf(g, n) : i \in 1..n
  BY DEF PingsOf
<1>5. \A i \in PingsOf(h, Len(h)) : o[Count(h, i)] = BuildFrame(Pong, h[i].body)
  BY <1>1, <1>2, <1>4
<1>6. Count(h, Len(h)) = Count(g, n)
  BY <1>2 DEF Count
<1>7. Len(o) = Count(h, Len(h)) + IF FALSE THEN 1 ELSE 0
  <2>1. Count(g, n) \in Nat
    BY <1>2, CountIs
  <2>. QED
    BY <1>1, <1>6, <2>1
<1>. QED
  BY <1>1, <1>2, <1>3, <1>5, <1>7 DEF AnswersOf, h

\* A ping is answered with a pong.
LEMMA OnePing ==
    ASSUME NEW g, NEW o, AnswersOf(g, o, FALSE),
           NEW f \in HeardFrame, f.op = Ping, Len(f.body) <= MaxFrame
    PROVE  AnswersOf(Append(g, f), Append(o, BuildFrame(Pong, f.body)), FALSE)
<1>. DEFINE h == Append(g, f)
            n == Len(g)
            b == BuildFrame(Pong, f.body)
            p == Append(o, b)
<1>1. /\ g \in Seq(HeardFrame) /\ \A i \in 1..n : Len(g[i].body) <= MaxFrame
      /\ o \in Seq(Seq(Nat)) /\ Len(o) = Count(g, n) /\ Count(g, n) \in Nat
      /\ \A i \in 1..Len(o) : IsAnswer(o[i])
      /\ \A i \in PingsOf(g, n) : o[Count(g, i)] = BuildFrame(Pong, g[i].body)
  <2>1. Len(o) = Count(g, n) + 0
    BY DEF AnswersOf
  <2>2. Count(g, n) \in Nat
    <3>1. n \in Nat
      BY DEF AnswersOf
    <3>. QED
      BY <3>1, CountIs
  <2>. QED
    BY <2>1, <2>2 DEF AnswersOf
<1>2. /\ h \in Seq(HeardFrame) /\ Len(h) = n + 1 /\ h[n + 1] = f
      /\ n \in Nat /\ \A i \in 1..n : h[i] = g[i]
      /\ \A i \in 1..n : Count(h, i) = Count(g, i)
      /\ PingsOf(h, Len(h)) = PingsOf(g, n) \cup {Len(h)}
      /\ Count(h, Len(h)) = Count(g, n) + 1
  BY <1>1, CountMore
<1>3. IsAnswer(b) /\ b \in Seq(Nat)
  <2>1. f.body \in Seq(Digit)
    BY DEF HeardFrame
  <2>. QED
    BY <2>1, PongIsAnswer
<1>. HIDE DEF h, n, b
<1>4. /\ p \in Seq(Seq(Nat)) /\ Len(p) = Len(o) + 1 /\ Len(o) \in Nat
      /\ p[Len(o) + 1] = b /\ \A i \in 1..Len(o) : p[i] = o[i]
  BY <1>1, <1>3, OneMore
<1>. HIDE DEF p
<1>5. \A i \in 1..Len(h) : Len(h[i].body) <= MaxFrame
  <2>1. \A i \in 1..Len(h) : i \in 1..n \/ i = n + 1
    BY <1>2
  <2>. QED
    BY <1>1, <1>2, <2>1
<1>6. \A i \in 1..Len(p) : IsAnswer(p[i])
  <2>1. \A i \in 1..Len(p) : i \in 1..Len(o) \/ i = Len(o) + 1
    BY <1>4
  <2>. QED
    BY <1>1, <1>3, <1>4, <2>1
<1>7. \A i \in PingsOf(h, Len(h)) : p[Count(h, i)] = BuildFrame(Pong, h[i].body)
  <2>. TAKE i \in PingsOf(h, Len(h))
  <2>1. CASE i = n + 1
    <3>1. Count(h, i) = Len(o) + 1
      BY <2>1, <1>1, <1>2
    <3>. QED
      BY <2>1, <3>1, <1>2, <1>4 DEF b
  <2>2. CASE i \in PingsOf(g, n)
    <3>1. i \in 1..n
      BY <2>2 DEF PingsOf
    <3>2. Count(g, i) \in 1..Len(o)
      BY <2>2, <1>1, <1>2, CountIs
    <3>3. p[Count(h, i)] = o[Count(g, i)]
      BY <3>1, <3>2, <1>2, <1>4
    <3>. QED
      BY <2>2, <3>1, <3>3, <1>1, <1>2
  <2>. QED
    BY <1>2, <2>1, <2>2
<1>8. Len(p) = Count(h, Len(h)) + IF FALSE THEN 1 ELSE 0
  BY <1>1, <1>2, <1>4
<1>. QED
  BY <1>2, <1>4, <1>5, <1>6, <1>7, <1>8 DEF AnswersOf, h, p, b

\* The end is said in a close frame.
LEMMA OneEnd ==
    ASSUME NEW g, NEW o, AnswersOf(g, o, FALSE),
           NEW body \in Seq(Digit), Len(body) <= MaxFrame, Says(g, body)
    PROVE  AnswersOf(g, Append(o, BuildFrame(Close, body)), TRUE)
<1>. DEFINE n == Len(g)
            b == BuildFrame(Close, body)
            p == Append(o, b)
<1>1. /\ g \in Seq(HeardFrame) /\ \A i \in 1..n : Len(g[i].body) <= MaxFrame
      /\ o \in Seq(Seq(Nat)) /\ Len(o) = Count(g, n) /\ Count(g, n) \in Nat /\ n \in Nat
      /\ \A i \in 1..Len(o) : IsAnswer(o[i])
      /\ \A i \in PingsOf(g, n) : o[Count(g, i)] = BuildFrame(Pong, g[i].body)
  <2>1. Len(o) = Count(g, n) + 0 /\ n \in Nat
    BY DEF AnswersOf
  <2>2. Count(g, n) \in Nat
    BY <2>1, CountIs
  <2>. QED
    BY <2>1, <2>2 DEF AnswersOf
<1>2. IsAnswer(b) /\ b \in Seq(Nat)
  BY PongIsAnswer
<1>3. ClosedWith(g, b)
  BY DEF ClosedWith
<1>. HIDE DEF n, b
<1>4. /\ p \in Seq(Seq(Nat)) /\ Len(p) = Len(o) + 1 /\ Len(o) \in Nat
      /\ p[Len(o) + 1] = b /\ \A i \in 1..Len(o) : p[i] = o[i]
  BY <1>1, <1>2, OneMore
<1>. HIDE DEF p
<1>5. \A i \in 1..Len(p) : IsAnswer(p[i])
  <2>1. \A i \in 1..Len(p) : i \in 1..Len(o) \/ i = Len(o) + 1
    BY <1>4
  <2>. QED
    BY <1>1, <1>2, <1>4, <2>1
<1>6. \A i \in PingsOf(g, n) : p[Count(g, i)] = BuildFrame(Pong, g[i].body)
  <2>. TAKE i \in PingsOf(g, n)
  <2>1. Count(g, i) \in 1..Len(o)
    BY <1>1, CountIs
  <2>. QED
    BY <2>1, <1>1, <1>4
<1>7. Len(p) = Count(g, n) + IF TRUE THEN 1 ELSE 0
  BY <1>1, <1>4
<1>8. ClosedWith(g, p[Len(p)])
  BY <1>3, <1>4
<1>. QED
  BY <1>1, <1>4, <1>5, <1>6, <1>7, <1>8 DEF AnswersOf, p, b, n


LEMMA AnswersInit ==
    ASSUME Init
    PROVE  AnswersInv
<1>1. got = <<>> /\ out = <<>> /\ state = "WS_OPEN" /\ Len(got) = 0 /\ Len(out) = 0
  BY DEF Init
<1>2. Count(got, 0) = 0
  BY CountIs
<1>3. Len(out) = Count(got, Len(got)) + IF FALSE THEN 1 ELSE 0
  BY <1>1, <1>2
<1>4. \A i \in PingsOf(got, Len(got)) : FALSE
  BY <1>1 DEF PingsOf
<1>5. got \in Seq(HeardFrame) /\ out \in Seq(Seq(Nat))
  BY <1>1
<1>6. AnswersOf(got, out, FALSE)
  BY <1>1, <1>3, <1>4, <1>5 DEF AnswersOf
<1>. QED
  BY <1>1, <1>6 DEF AnswersInv

LEMMA AnswersRefuse ==
    ASSUME FramesInv, AnswersInv, Refuse
    PROVE  AnswersInv'
<1>1. /\ ctl = "frames" /\ got' = got /\ state' = "CLOSE"
      /\ out' = Append(out, BuildFrame(Close, CodeBytes(1009)))
  BY DEF Refuse, CloseWith, Write
<1>2. /\ state = "WS_OPEN" /\ \A i \in 1..Len(got) : ~Ends(sent[i])
      /\ Len(got) \in Nat /\ got = [i \in 1..Len(got) |-> AsSent(sent[i])]
  BY <1>1 DEF FramesInv, StateOK, StreamOK, PrefixOK
<1>3. got # <<>> => got[Len(got)].op # Close
  <2>1. SUFFICES ASSUME got # <<>> PROVE got[Len(got)].op # Close
    OBVIOUS
  <2>. DEFINE n == Len(got)
  <2>2. n \in 1..n
    <3>1. n # 0
      BY <1>2, <2>1
    <3>. QED
      BY <1>2, <3>1
  <2>. HIDE DEF n
  <2>3. got[n] = AsSent(sent[n]) /\ ~Ends(sent[n])
    BY <1>2, <2>2 DEF n
  <2>4. got[n].op = sent[n].op
    BY <2>3 DEF AsSent
  <2>5. sent[n].op # Close
    BY <2>3 DEF Ends, Cont, Text, Binary, Ping, Pong, Close
  <2>. QED
    BY <2>4, <2>5 DEF n
<1>4. Says(got, CodeBytes(1009))
  BY <1>3 DEF Says
<1>. DEFINE body == CodeBytes(1009)
<1>5. body \in Seq(Digit) /\ Len(body) <= MaxFrame
  <2>1. body \in Seq(Digit) /\ Len(body) = 2 /\ 2 <= MaxFrame
    BY CodeIs
  <2>. HIDE DEF body
  <2>. QED
    BY <2>1
<1>6. AnswersOf(got, out, FALSE)
  BY <1>2 DEF AnswersInv
<1>7. AnswersOf(got, out', TRUE)
  <2>1. Says(got, body) /\ out' = Append(out, BuildFrame(Close, body))
    BY <1>1, <1>4
  <2>. HIDE DEF body
  <2>. QED
    BY <1>5, <1>6, <2>1, OneEnd
<1>8. (state' = "CLOSE") = TRUE
  BY <1>1
<1>9. AnswersOf(got', out', state' = "CLOSE")
  BY <1>1, <1>7, <1>8, ZenonT(30)
<1>. QED
  BY <1>9 DEF AnswersInv

LEMMA AnswersTake ==
    ASSUME FramesInv, AnswersInv, Take
    PROVE  AnswersInv'
<1>. DEFINE f == Frame(rbuf)
            g == Append(got, f)
<1>1. /\ ~TooLong(Coming) /\ IsFrame(Coming) /\ f = AsSent(Coming) /\ state = "WS_OPEN"
  BY Taken
<1>2. f \in HeardFrame /\ Len(f.body) <= MaxFrame /\ f.body \in Seq(Digit)
  <2>1. /\ Coming.op \in 0..15 /\ Coming.fin \in BOOLEAN /\ Coming.body \in Seq(Digit)
        /\ Len(Coming.body) \in Nat
    BY <1>1, FrameType
  <2>2. Len(Coming.body) <= MaxFrame
    BY <1>1, <2>1, MaxFrameAssumption DEF TooLong
  <2>3. f = [op |-> Coming.op, fin |-> Coming.fin, body |-> Coming.body]
    BY <1>1 DEF AsSent
  <2>. HIDE DEF f
  <2>. QED
    BY <2>1, <2>2, <2>3 DEF HeardFrame
<1>3. AnswersOf(got, out, FALSE)
  BY <1>1 DEF AnswersInv
<1>4. got' = g
  BY DEF Take
<1>. HIDE DEF f
<1>5. CASE f.op \in {Cont, Text, Binary, Pong}
  <2>1. f.op # Ping /\ f.op # Close /\ f.op \in {Cont, Text, Binary, Close, Ping, Pong}
    BY <1>5 DEF Cont, Text, Binary, Ping, Pong, Close
  <2>2. out' = out /\ state' = state
    BY <1>5, <2>1 DEF Take, f
  <2>3. AnswersOf(g, out, FALSE)
    BY <1>2, <1>3, <2>1, NoPing
  <2>. QED
    BY <1>1, <1>4, <2>2, <2>3 DEF AnswersInv
<1>6. CASE f.op = Ping
  <2>1. f.op \notin {Cont, Text, Binary, Pong} /\ f.op # Close
    BY <1>6 DEF Cont, Text, Binary, Ping, Pong, Close
  <2>2. out' = Append(out, BuildFrame(Pong, f.body)) /\ state' = state
    BY <1>6, <2>1 DEF Take, Write, f
  <2>3. AnswersOf(g, out', FALSE)
    BY <1>2, <1>3, <1>6, <2>2, OnePing
  <2>. QED
    BY <1>1, <1>4, <2>2, <2>3 DEF AnswersInv
<1>7. CASE f.op \notin {Cont, Text, Binary, Ping, Pong}
  <2>. DEFINE body == IF f.op = Close THEN CloseBody(f.body) ELSE CodeBytes(1002)
  <2>1. f.op # Ping
    BY <1>7
  <2>2. AnswersOf(g, out, FALSE)
    BY <1>2, <1>3, <2>1, NoPing
  <2>3. g # <<>> /\ g[Len(g)] = f
    <3>1. got \in Seq(HeardFrame)
      BY <1>3 DEF AnswersOf
    <3>. QED
      BY <1>2, <3>1
  <2>4. Says(g, body)
    BY <2>3 DEF Says
  <2>5. body \in Seq(Digit) /\ Len(body) <= MaxFrame
    <3>. DEFINE why == CodeBytes(1002)
    <3>1. why \in Seq(Digit) /\ Len(why) = 2 /\ 2 <= MaxFrame
      BY CodeIs
    <3>2. CloseBody(f.body) \in Seq(Digit) /\ Len(CloseBody(f.body)) <= MaxFrame
      BY <1>2, CloseBodyType
    <3>3. body = CloseBody(f.body) \/ body = why
      OBVIOUS
    <3>. HIDE DEF why, body
    <3>. QED
      BY <3>1, <3>2, <3>3
  <2>6. out' = Append(out, BuildFrame(Close, body)) /\ state' = "CLOSE"
    BY <1>7, <2>1 DEF Take, CloseWith, Write, f
  <2>. HIDE DEF body, g
  <2>7. AnswersOf(g, out', TRUE)
    BY <2>2, <2>4, <2>5, <2>6, OneEnd
  <2>. QED
    BY <1>4, <2>6, <2>7 DEF AnswersInv
<1>. QED
  BY <1>5, <1>6, <1>7

LEMMA AnswersStep ==
    ASSUME FramesInv, AnswersInv, [Next]_vars
    PROVE  AnswersInv'
<1>1. CASE \/ \E n \in 1..(Len(wire) - arrived) : OnData(n)
           \/ Wait \/ UNCHANGED vars
  <2>1. got' = got /\ out' = out /\ state' = state
    BY <1>1 DEF OnData, Wait, vars
  <2>. QED
    BY <2>1 DEF AnswersInv
<1>2. CASE Refuse
  BY <1>2, AnswersRefuse
<1>3. CASE Take
  BY <1>3, AnswersTake
<1>. QED
  BY <1>1, <1>2, <1>3 DEF Next

\* One pong has been written for each ping handled, in their order, and one close
\* frame for the end of the connection.
THEOREM AnswersInvariant == Spec => []AnswersInv
<1>1. Init => AnswersInv
  BY AnswersInit
<1>2. FramesInv /\ AnswersInv /\ [Next]_vars => AnswersInv'
  BY AnswersStep
<1>. QED
  BY <1>1, <1>2, ReadInvariant, PTL DEF Spec

-----------------------------------------------------------------------------

\* An answer is read as it was meant, or as one that is never whole.
LEMMA AnswerRead ==
    ASSUME NEW op \in {Close, Pong}, NEW body \in Seq(Digit), Len(body) <= MaxFrame
    PROVE  LET b == BuildFrame(op, body) IN
           IF Len(body) < Base * Base
           THEN /\ Frame(b) = [op |-> op, fin |-> TRUE, body |-> body]
                /\ Len(b) = Hlen(b) + Plen(b)
           ELSE Plen(b) > MaxFrame /\ Plen(b) \in Nat
<1>1. op \in 0..15
  BY DEF Close, Pong
<1>2. Len(body) < Base * Base \/ Base * Base <= Len(body)
  BY BaseFacts
<1>. QED
  BY <1>1, <1>2, ShortRead, LongRead

LEMMA CloseIsSaid ==
    ASSUME AnswersInv, state = "CLOSE"
    PROVE  (LongClose /\ Plen(out[Len(out)]) > MaxFrame) \/ CloseSaid
<1>. DEFINE b == out[Len(out)]
            ask == got[Len(got)]
<1>1. PICK body \in Seq(Digit) :
         Len(body) <= MaxFrame /\ Says(got, body) /\ b = BuildFrame(Close, body)
  BY DEF AnswersInv, AnswersOf, ClosedWith
<1>2. /\ got \in Seq(HeardFrame) /\ \A i \in 1..Len(got) : Len(got[i].body) <= MaxFrame
  BY DEF AnswersInv, AnswersOf
<1>3. got # <<>> => ask \in HeardFrame /\ ask.body \in Seq(Digit) /\ Len(ask.body) <= MaxFrame
  <2>1. got # <<>> => Len(got) \in 1..Len(got)
    BY <1>2
  <2>2. got # <<>> => ask \in HeardFrame
    BY <1>2, <2>1, ElementOfSeq
  <2>. QED
    BY <1>2, <2>1, <2>2 DEF HeardFrame
<1>. HIDE DEF b, ask
<1>4. CASE Len(body) < Base * Base
  <2>1. Frame(b) = [op |-> Close, fin |-> TRUE, body |-> body]
    BY <1>1, <1>4, AnswerRead
  <2>2. Frame(b).op = Close /\ Frame(b).body = body
    BY <2>1
  <2>3. Len(body) >= 2
    <3>1. CASE got # <<>> /\ ask.op = Close /\ body = CloseBody(ask.body)
      BY <3>1, <1>3, CloseBodyType
    <3>2. CASE body \in {CodeBytes(1002), CodeBytes(1009)}
      <4>1. Len(CodeBytes(1002)) = 2
        BY CodeIs
      <4>2. Len(CodeBytes(1009)) = 2
        BY CodeIs
      <4>3. Len(body) = 2
        BY <3>2, <4>1, <4>2
      <4>. QED
        BY <4>3
    <3>. QED
      BY <3>1, <3>2, <1>1 DEF Says, ask
  <2>4. ASSUME got # <<>>, ask.op = Close, Len(ask.body) >= 2
        PROVE  /\ SubSeq(body, 1, 2) = SubSeq(ask.body, 1, 2)
               /\ IsPrefix(body, ask.body)
               /\ ~Contains(SubSeq(body, 3, Len(body)), 0)
    <3>. DEFINE s == ask.body
                l == Len(s)
    <3>1. s \in Seq(Digit) /\ l \in Nat /\ l >= 2
      BY <1>3, <2>4
    <3>2. body = CloseBody(s)
      BY <1>1, <2>4 DEF Says, ask
    <3>. HIDE DEF s
    <3>3. PICK n \in 2..l : CloseBody(s) = SubSeq(s, 1, n) /\ \A i \in 3..n : s[i] # 0
      BY <3>1, CloseBodyIs
    <3>4. n \in Nat /\ n >= 2 /\ n <= l /\ \A i \in 1..n : i \in 1..l
      BY <3>1, <3>3
    <3>5. /\ body \in Seq(Digit) /\ Len(body) = n
          /\ \A i \in 1..n : body[i] = s[i]
      <4>1. \A i \in 1..n : s[i] \in Digit
        BY <3>1, <3>4, ElementOfSeq
      <4>2. /\ SubSeq(s, 1, n) \in Seq(Digit)
            /\ Len(SubSeq(s, 1, n)) = IF 1 <= n THEN n - 1 + 1 ELSE 0
            /\ \A i \in 1..(n - 1 + 1) : SubSeq(s, 1, n)[i] = s[1 + i - 1]
        BY <3>4, <4>1, SubSeqProperties
      <4>3. n - 1 + 1 = n /\ 1 <= n /\ \A i \in 1..n : 1 + i - 1 = i
        BY <3>4
      <4>. QED
        BY <3>2, <3>3, <4>2, <4>3
    <3>6. SubSeq(body, 1, 2) = SubSeq(s, 1, 2)
      <4>1. body[1] = s[1] /\ body[2] = s[2]
        BY <3>4, <3>5
      <4>. QED
        BY <4>1, <3>1, <3>4, <3>5
    <3>7. IsPrefix(body, s)
      <4>1. SubSeq(body, 1, n) = body
        BY <3>4, <3>5
      <4>2. SubSeq(s, 1, n) = body
        BY <3>2, <3>3
      <4>. QED
        BY <3>4, <3>5, <4>1, <4>2 DEF IsPrefix
    <3>8. ~Contains(SubSeq(body, 3, Len(body)), 0)
      <4>. DEFINE t == SubSeq(body, 3, n)
      <4>1. \A i \in 3..n : i \in 1..n /\ body[i] \in Digit /\ body[i] # 0
        <5>1. \A i \in 3..n : i \in 1..n
          BY <3>4
        <5>. QED
          BY <5>1, <3>3, <3>5, ElementOfSeq
      <4>2. /\ Len(t) = IF 3 <= n THEN n - 3 + 1 ELSE 0
            /\ \A i \in 1..(n - 3 + 1) : t[i] = body[3 + i - 1]
        BY <3>4, <4>1, SubSeqProperties
      <4>. HIDE DEF t
      <4>3. \A i \in 1..Len(t) : t[i] # 0
        <5>. TAKE i \in 1..Len(t)
        <5>1. i \in 1..(n - 3 + 1) /\ 3 + i - 1 \in 3..n
          BY <3>4, <4>2
        <5>. QED
          BY <5>1, <4>1, <4>2
      <4>4. ~Contains(t, 0)
        BY <4>3 DEF Contains
      <4>. QED
        BY <3>5, <4>4 DEF t
    <3>. QED
      BY <3>6, <3>7, <3>8 DEF s
  <2>5. CloseSaid
    <3>1. Frame(out[Len(out)]).op = Close /\ Frame(out[Len(out)]).body = body
      BY <2>2 DEF b
    <3>. QED
      BY <2>3, <2>4, <3>1 DEF CloseSaid, ask
  <2>. QED
    BY <2>5
<1>5. CASE ~(Len(body) < Base * Base)
  <2>1. Plen(b) > MaxFrame
    BY <1>1, <1>5, AnswerRead
  <2>2. Len(body) >= Base * Base
    <3>1. Len(body) \in Nat /\ Base * Base \in Nat
      BY <1>1, BaseFacts
    <3>. QED
      BY <1>5, <3>1
  <2>3. ~(body \in {CodeBytes(1002), CodeBytes(1009)})
    <3>1. Base * Base \in Nat /\ 2 < Base * Base
      BY BaseFacts, BaseAssumption
    <3>2. Len(CodeBytes(1002)) = 2
      BY CodeIs
    <3>3. Len(CodeBytes(1009)) = 2
      BY CodeIs
    <3>4. Len(body) # 2
      <4>. DEFINE q == Base * Base
                  k == Len(body)
      <4>1. q \in Nat /\ 2 < q /\ k >= q
        BY <2>2, <3>1
      <4>. HIDE DEF q, k
      <4>2. k # 2
        BY <4>1
      <4>. QED
        BY <4>2 DEF k
    <3>. QED
      BY <3>2, <3>3, <3>4
  <2>4. got # <<>> /\ ask.op = Close /\ body = CloseBody(ask.body)
    BY <1>1, <2>3 DEF Says, ask
  <2>5. Len(ask.body) >= Base * Base
    BY <1>3, <2>2, <2>4, CloseBodyType
  <2>6. LongClose
    BY <2>4, <2>5 DEF LongClose, ask
  <2>. QED
    BY <2>1, <2>6 DEF b
<1>. QED
  BY <1>4, <1>5

LEMMA AnswersAreExact ==
    ASSUME AnswersInv
    PROVE  AnswersExact
<1>1. /\ got \in Seq(HeardFrame) /\ \A i \in 1..Len(got) : Len(got[i].body) <= MaxFrame
      /\ out \in Seq(Seq(Nat)) /\ Len(got) \in Nat
      /\ Len(out) = Count(got, Len(got)) + IF state = "CLOSE" THEN 1 ELSE 0
      /\ \A i \in 1..Len(out) : IsAnswer(out[i])
      /\ \A i \in PingsOf(got, Len(got)) : out[Count(got, i)] = BuildFrame(Pong, got[i].body)
  BY DEF AnswersInv, AnswersOf
<1>2. \A k : Pings(k) = PingsOf(got, k) /\ Cardinality(Pings(k)) = Count(got, k)
  BY DEF Pings, PingsOf, Count
<1>3. \A i \in DOMAIN out :
         Plen(out[i]) <= MaxFrame => Len(out[i]) = Hlen(out[i]) + Plen(out[i])
  <2>. TAKE i \in DOMAIN out
  <2>1. i \in 1..Len(out)
    BY <1>1
  <2>2. PICK op \in {Close, Pong}, body \in Seq(Digit) :
           Len(body) <= MaxFrame /\ out[i] = BuildFrame(op, body)
    BY <1>1, <2>1 DEF IsAnswer
  <2>. DEFINE b == out[i]
  <2>. HIDE DEF b
  <2>3. Len(b) = Hlen(b) + Plen(b) \/ (Plen(b) > MaxFrame /\ Plen(b) \in Nat)
    BY <2>2, AnswerRead DEF b
  <2>4. Plen(b) > MaxFrame /\ Plen(b) \in Nat => ~(Plen(b) <= MaxFrame)
    BY MaxFrameAssumption
  <2>. QED
    BY <2>3, <2>4 DEF b
<1>4. \A i \in Pings(Len(got)) :
         LET pong == out[Cardinality(Pings(i))] IN
         IF Len(got[i].body) < Base * Base
         THEN Frame(pong) = [op |-> Pong, fin |-> TRUE, body |-> got[i].body]
         ELSE Plen(pong) > MaxFrame
  <2>. TAKE i \in Pings(Len(got))
  <2>1. i \in PingsOf(got, Len(got)) /\ i \in 1..Len(got)
    BY <1>2 DEF PingsOf
  <2>2. out[Cardinality(Pings(i))] = BuildFrame(Pong, got[i].body)
    BY <1>1, <1>2, <2>1
  <2>3. got[i].body \in Seq(Digit) /\ Len(got[i].body) <= MaxFrame
    <3>1. got[i] \in HeardFrame
      BY <1>1, <2>1, ElementOfSeq
    <3>. QED
      BY <1>1, <2>1, <3>1 DEF HeardFrame
  <2>. QED
    BY <2>2, <2>3, AnswerRead
<1>5. state = "CLOSE" => (LongClose /\ Plen(out[Len(out)]) > MaxFrame) \/ CloseSaid
  BY CloseIsSaid
<1>6. Len(out) = Cardinality(Pings(Len(got))) + IF state = "CLOSE" THEN 1 ELSE 0
  BY <1>1, <1>2
<1>. QED
  BY <1>3, <1>4, <1>5, <1>6 DEF AnswersExact

\* The peer reads the answers as they were meant, one pong for each ping and a close
\* frame for the end; one of 65536 bytes or more it never sees the end of.
THEOREM AnswersReadBack == Spec => []AnswersExact
<1>1. AnswersInv => AnswersExact
  BY AnswersAreExact
<1>. QED
  BY <1>1, AnswersInvariant, PTL

=============================================================================
