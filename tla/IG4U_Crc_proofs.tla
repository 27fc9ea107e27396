--------------------------- MODULE IG4U_Crc_proofs ---------------------------
(* Proofs about IG4U_Crc: the two loops of CalcCRC16 divide polynomials,    *)
(* for a buffer of any length, and what follows about damaged buffers.      *)
EXTENDS IG4U_Crc, Integers, WellFoundedInduction, SequenceTheorems, TLAPS

-----------------------------------------------------------------------------
(* Induction, with sets for predicates. *)

LEMMA LeastNumber ==
  ASSUME NEW T \in SUBSET Nat, T # {}
  PROVE  \E x \in T : \A y \in T : x <= y
<1>1. PICK x \in T : \A y \in T : ~(<<y, x>> \in OpToRel(<, Nat))
  BY NatLessThanWellFounded, WFMin
<1>2. \A y \in T : ~(y < x)
  BY <1>1 DEF OpToRel
<1> QED
  BY <1>2

LEMMA GreatestNumber ==
  ASSUME NEW n \in Nat, NEW T \in SUBSET (0 .. n), T # {}
  PROVE  \E x \in T : \A y \in T : y <= x
<1> DEFINE U == {n - x : x \in T}
<1>1. U \in SUBSET Nat /\ U # {}
  <2>1. PICK x \in T : n - x \in U
    OBVIOUS
  <2>2. \A u \in U : u \in Nat
    OBVIOUS
  <2> HIDE DEF U
  <2> QED
    BY <2>1, <2>2
<1>2. PICK u \in U : \A v \in U : u <= v
  <2> HIDE DEF U
  <2> QED
    BY <1>1, LeastNumber
<1>3. PICK x \in T : u = n - x
  OBVIOUS
<1>4. \A y \in T : n - x <= n - y
  BY <1>2, <1>3
<1> QED
  BY <1>4

LEMMA Induction ==
  ASSUME NEW n \in Nat, NEW S, 0 \in S,
         \A t \in 0 .. n - 1 : t \in S => t + 1 \in S
  PROVE  \A t \in 0 .. n : t \in S
<1> DEFINE T == {t \in 0 .. n : t \notin S}
<1> SUFFICES ASSUME T # {} PROVE FALSE
  OBVIOUS
<1>1. PICK x \in T : \A y \in T : x <= y
  <2>1. T \in SUBSET Nat
    OBVIOUS
  <2> HIDE DEF T
  <2> QED
    BY <2>1, LeastNumber
<1>2. x - 1 \in 0 .. n - 1 /\ x - 1 \in S
  BY <1>1
<1>3. x \in S
  BY <1>2
<1> QED
  BY <1>3

-----------------------------------------------------------------------------
(* The register, shift by shift. *)

LEMMA RegisterUnfolds ==
  ASSUME NEW data, Len(data) \in Nat
  PROVE  LET r == Register(data) IN
         /\ r[0] = CRC16_INIT
         /\ \A t \in 0 .. 8 * Len(data) - 1 :
              r[t + 1] = ShiftBit(Loaded(data, t, r[t]))
<1> DEFINE n == 8 * Len(data)
           Next(t, crc) == ShiftBit(Loaded(data, t, crc))
           Unfolds(g, k) ==
             g = [t \in 0 .. k |-> IF t = 0 THEN CRC16_INIT ELSE Next(t - 1, g[t - 1])]
           S == {k \in 0 .. n : \E g : Unfolds(g, k)}
<1>1. n \in Nat
  OBVIOUS
<1>2. Register(data) = CHOOSE g : Unfolds(g, n)
  BY DEF Register
<1> HIDE DEF n, Next
<1>3. 0 \in S
  <2> DEFINE g == [t \in 0 .. 0 |-> CRC16_INIT]
  <2>1. Unfolds(g, 0)
    OBVIOUS
  <2>2. \E f : Unfolds(f, 0)
    <3> HIDE DEF g, Unfolds
    <3> QED
      BY <2>1
  <2> HIDE DEF Unfolds
  <2> QED
    BY <1>1, <2>2
<1>4. ASSUME NEW k \in 0 .. n - 1, k \in S PROVE k + 1 \in S
  <2>1. PICK g : Unfolds(g, k)
    BY <1>4
  <2> DEFINE h == [t \in 0 .. k + 1 |-> IF t <= k THEN g[t] ELSE Next(k, g[k])]
  <2>2. ASSUME NEW t \in 0 .. k + 1
        PROVE  h[t] = IF t = 0 THEN CRC16_INIT ELSE Next(t - 1, h[t - 1])
    <3>1. CASE t <= k /\ t # 0
      BY <1>1, <2>1, <3>1
    <3>2. CASE t = 0
      BY <1>1, <2>1, <3>2
    <3>3. CASE t = k + 1
      BY <1>1, <3>3
    <3> QED
      BY <1>1, <3>1, <3>2, <3>3
  <2>3. Unfolds(h, k + 1)
    BY <2>2
  <2>4. \E f : Unfolds(f, k + 1)
    <3> HIDE DEF h, Unfolds
    <3> QED
      BY <2>3
  <2> HIDE DEF Unfolds
  <2> QED
    BY <1>1, <2>4
<1>5. n \in S
  <2> HIDE DEF S
  <2>1. \A k \in 0 .. n - 1 : k \in S => k + 1 \in S
    BY <1>4
  <2>2. \A k \in 0 .. n : k \in S
    BY <1>1, <1>3, <2>1, Induction
  <2> QED
    BY <1>1, <2>2
<1>6. Unfolds(Register(data), n)
  BY <1>2, <1>5
<1>7. \A t \in 0 .. n - 1 : Register(data)[t + 1] = Next(t, Register(data)[t])
  BY <1>1, <1>6
<1> QED
  BY <1>1, <1>6, <1>7 DEF n, Next

-----------------------------------------------------------------------------
(* Polynomials, exponent by exponent. *)

LEMMA PlusIn ==
  \A p, q, e : e \in Plus(p, q) <=> ~(e \in p <=> e \in q)
  BY DEF Plus

LEMMA UpIn ==
  ASSUME NEW p \in SUBSET Nat, NEW s \in Nat
  PROVE  /\ Up(p, s) \in SUBSET Nat
         /\ \A e \in Nat : e \in Up(p, s) <=> (e >= s /\ e - s \in p)
<1>1. Up(p, s) \in SUBSET Nat
  BY DEF Up
<1>2. ASSUME NEW e \in Nat PROVE e \in Up(p, s) <=> (e >= s /\ e - s \in p)
  <2>1. ASSUME e \in Up(p, s) PROVE e >= s /\ e - s \in p
    <3>1. PICK x \in p : e = x + s
      BY <2>1 DEF Up
    <3> QED
      BY <3>1
  <2>2. ASSUME e >= s, e - s \in p PROVE e \in Up(p, s)
    <3>1. e = (e - s) + s
      OBVIOUS
    <3> QED
      BY <2>2, <3>1 DEF Up
  <2> QED
    BY <2>1, <2>2
<1> QED
  BY <1>1, <1>2

(* Membership in a product, and in the product of one power of x. *)
LEMMA TimesIn ==
  ASSUME NEW q \in SUBSET Nat
  PROVE  /\ Times(q) \in SUBSET Nat
         /\ \A e \in Nat :
              e \in Times(q) <=>
                ~(~((e >= 16 /\ e - 16 \in q) <=> (e >= 12 /\ e - 12 \in q))
                    <=> ~((e >= 5 /\ e - 5 \in q) <=> e \in q))
<1>1. /\ Up(q, 16) \in SUBSET Nat
      /\ \A e \in Nat : e \in Up(q, 16) <=> (e >= 16 /\ e - 16 \in q)
  BY UpIn
<1>2. /\ Up(q, 12) \in SUBSET Nat
      /\ \A e \in Nat : e \in Up(q, 12) <=> (e >= 12 /\ e - 12 \in q)
  BY UpIn
<1>3. /\ Up(q, 5) \in SUBSET Nat
      /\ \A e \in Nat : e \in Up(q, 5) <=> (e >= 5 /\ e - 5 \in q)
  BY UpIn
<1>4. Times(q) \in SUBSET Nat
  BY <1>1, <1>2, <1>3 DEF Times, Plus
<1>5. ASSUME NEW e \in Nat
      PROVE  e \in Times(q) <=>
               ~(~(e \in Up(q, 16) <=> e \in Up(q, 12))
                   <=> ~(e \in Up(q, 5) <=> e \in q))
  BY PlusIn DEF Times
<1> QED
  BY <1>1, <1>2, <1>3, <1>4, <1>5

(* Multiplication distributes over addition. *)
LEMMA TimesPlus ==
  ASSUME NEW p \in SUBSET Nat, NEW q \in SUBSET Nat
  PROVE  Times(Plus(p, q)) = Plus(Times(p), Times(q))
<1> DEFINE u == Plus(p, q)
<1>1. u \in SUBSET Nat /\ \A e : e \in u <=> ~(e \in p <=> e \in q)
  BY PlusIn DEF Plus
<1> HIDE DEF u
<1>2. ASSUME NEW e \in Nat
      PROVE  e \in Times(u) <=> ~(e \in Times(p) <=> e \in Times(q))
  <2>1. /\ e - 16 \in u <=> ~(e - 16 \in p <=> e - 16 \in q)
        /\ e - 12 \in u <=> ~(e - 12 \in p <=> e - 12 \in q)
        /\ e - 5 \in u <=> ~(e - 5 \in p <=> e - 5 \in q)
        /\ e \in u <=> ~(e \in p <=> e \in q)
    BY <1>1
  <2>2. e \in Times(u) <=>
          ~(~((e >= 16 /\ e - 16 \in u) <=> (e >= 12 /\ e - 12 \in u))
              <=> ~((e >= 5 /\ e - 5 \in u) <=> e \in u))
    BY <1>1, TimesIn
  <2>3. e \in Times(p) <=>
          ~(~((e >= 16 /\ e - 16 \in p) <=> (e >= 12 /\ e - 12 \in p))
              <=> ~((e >= 5 /\ e - 5 \in p) <=> e \in p))
    BY TimesIn
  <2>4. e \in Times(q) <=>
          ~(~((e >= 16 /\ e - 16 \in q) <=> (e >= 12 /\ e - 12 \in q))
              <=> ~((e >= 5 /\ e - 5 \in q) <=> e \in q))
    BY TimesIn
  <2> QED
    BY <2>1, <2>2, <2>3, <2>4
<1>3. Times(u) \in SUBSET Nat /\ Times(p) \in SUBSET Nat /\ Times(q) \in SUBSET Nat
  BY <1>1, TimesIn
<1>4. \A e : e \in Plus(Times(p), Times(q)) <=> ~(e \in Times(p) <=> e \in Times(q))
  BY PlusIn
<1>5. Times(u) = Plus(Times(p), Times(q))
  BY <1>2, <1>3, <1>4
<1> QED
  BY <1>5 DEF u

LEMMA TimesPower ==
  ASSUME NEW d \in Nat
  PROVE  \A e \in Nat :
           e \in Times({d}) <=> (e = d + 16 \/ e = d + 12 \/ e = d + 5 \/ e = d)
<1>1. {d} \in SUBSET Nat
  OBVIOUS
<1>2. ASSUME NEW e \in Nat
      PROVE  e \in Times({d}) <=>
               ~(~((e >= 16 /\ e - 16 \in {d}) <=> (e >= 12 /\ e - 12 \in {d}))
                   <=> ~((e >= 5 /\ e - 5 \in {d}) <=> e \in {d}))
  BY <1>1, TimesIn
<1> QED
  BY <1>2

(* Shifting out a one subtracts a multiple of the generator. *)
LEMMA ShiftDivides ==
  ASSUME NEW crc \in SUBSET (0 .. 15), NEW s \in Nat, s > 0
  PROVE  /\ ShiftBit(crc) \in SUBSET (0 .. 15)
         /\ \A e \in Nat :
              e \in Up(crc, s) <=>
                ~(e \in Up(ShiftBit(crc), s - 1)
                    <=> (15 \in crc /\ e \in Times({s - 1})))
<1> DEFINE shifted == Up(crc \ {15}, 1)
<1>1. \A e \in Nat : e \in shifted <=> (e >= 1 /\ e - 1 \in crc /\ e - 1 # 15)
  <2>1. crc \ {15} \in SUBSET Nat
    OBVIOUS
  <2> QED
    BY <2>1, UpIn
<1>2. shifted \in SUBSET (0 .. 15)
  BY DEF Up
<1>3. \A e \in Nat : e \in ShiftBit(crc) <=>
        ~((e >= 1 /\ e - 1 \in crc /\ e - 1 # 15)
            <=> (15 \in crc /\ (e = 12 \/ e = 5 \/ e = 0)))
  <2> HIDE DEF shifted
  <2>1. CASE 15 \in crc
    <3>1. ShiftBit(crc) = Plus(shifted, {12, 5, 0})
      BY <2>1 DEF ShiftBit, shifted, CRC16_POLY
    <3> QED
      BY <1>1, <2>1, <3>1, PlusIn
  <2>2. CASE 15 \notin crc
    <3>1. ShiftBit(crc) = shifted
      <4>1. crc \ {15} = crc
        BY <2>2
      <4> QED
        BY <2>2, <4>1 DEF ShiftBit, shifted
    <3> QED
      BY <1>1, <2>2, <3>1
  <2> QED
    BY <2>1, <2>2
<1>4. ShiftBit(crc) \in SUBSET (0 .. 15)
  <2>1. CASE 15 \in crc
    <3>1. ShiftBit(crc) = Plus(shifted, {12, 5, 0})
      BY <2>1 DEF ShiftBit, CRC16_POLY
    <3> HIDE DEF shifted
    <3> QED
      BY <1>2, <3>1 DEF Plus
  <2>2. CASE 15 \notin crc
    <3>1. crc \ {15} = crc
      BY <2>2
    <3>2. ShiftBit(crc) = shifted
      BY <2>2, <3>1 DEF ShiftBit
    <3> HIDE DEF shifted
    <3> QED
      BY <1>2, <3>2
  <2> QED
    BY <2>1, <2>2
<1>5. ASSUME NEW e \in Nat
      PROVE  e \in Up(crc, s) <=>
               ~(e \in Up(ShiftBit(crc), s - 1)
                   <=> (15 \in crc /\ e \in Times({s - 1})))
  <2>1. e \in Up(crc, s) <=> (e >= s /\ e - s \in crc)
    <3>1. crc \in SUBSET Nat
      OBVIOUS
    <3> QED
      BY <3>1, UpIn
  <2>2. e \in Up(ShiftBit(crc), s - 1)
          <=> (e >= s - 1 /\ e - (s - 1) \in ShiftBit(crc))
    <3>1. ShiftBit(crc) \in SUBSET Nat /\ s - 1 \in Nat
      BY <1>4
    <3> QED
      BY <3>1, UpIn
  <2>3. e >= s - 1 =>
          (e - (s - 1) \in ShiftBit(crc) <=>
            ~((e - (s - 1) >= 1 /\ e - (s - 1) - 1 \in crc /\ e - (s - 1) - 1 # 15)
                <=> (15 \in crc /\ (e = s + 11 \/ e = s + 4 \/ e = s - 1))))
    BY <1>3
  <2>4. e \in Times({s - 1}) <=> (e = s + 15 \/ e = s + 11 \/ e = s + 4 \/ e = s - 1)
    <3>1. s - 1 \in Nat
      OBVIOUS
    <3> QED
      BY <3>1, TimesPower
  <2>5. e >= s - 1 => e - (s - 1) - 1 = e - s
    OBVIOUS
  <2> QED
    BY <2>1, <2>2, <2>3, <2>4, <2>5
<1> QED
  BY <1>4, <1>5

-----------------------------------------------------------------------------
(* The loops divide. *)

LEMMA LoadedIn ==
  ASSUME NEW data, NEW t \in Nat, NEW crc \in SUBSET (0 .. 15)
  PROVE  Loaded(data, t, crc) \in SUBSET (0 .. 15)
<1> DEFINE byte == Bits(data[t \div 8 + 1])
<1>1. byte \in SUBSET (0 .. 7)
  BY DEF Bits
<1> HIDE DEF byte
<1>2. Up(byte, 8) \in SUBSET (0 .. 15)
  BY <1>1 DEF Up
<1> QED
  BY <1>2 DEF Loaded, Plus, byte

LEMMA RegisterIn ==
  ASSUME NEW data, Len(data) \in Nat
  PROVE  \A t \in 0 .. 8 * Len(data) : Register(data)[t] \in SUBSET (0 .. 15)
<1> DEFINE n == 8 * Len(data)
           r == Register(data)
           S == {t \in 0 .. n : r[t] \in SUBSET (0 .. 15)}
<1>1. n \in Nat
  OBVIOUS
<1>2. r[0] = CRC16_INIT /\ \A t \in 0 .. n - 1 : r[t + 1] = ShiftBit(Loaded(data, t, r[t]))
  BY RegisterUnfolds
<1> HIDE DEF n, r
<1>3. 0 \in S
  BY <1>1, <1>2 DEF CRC16_INIT
<1>4. ASSUME NEW t \in 0 .. n - 1, t \in S PROVE t + 1 \in S
  <2>1. Loaded(data, t, r[t]) \in SUBSET (0 .. 15)
    <3>1. t \in Nat /\ r[t] \in SUBSET (0 .. 15)
      BY <1>1, <1>4
    <3> QED
      BY <3>1, LoadedIn
  <2>2. ShiftBit(Loaded(data, t, r[t])) \in SUBSET (0 .. 15)
    <3>1. 1 \in Nat /\ 1 > 0
      OBVIOUS
    <3> QED
      BY <2>1, <3>1, ShiftDivides
  <2> QED
    BY <1>1, <1>2, <2>2
<1>5. \A t \in 0 .. n : t \in S
  <2> HIDE DEF S
  <2>1. \A t \in 0 .. n - 1 : t \in S => t + 1 \in S
    BY <1>4
  <2> QED
    BY <1>1, <1>3, <2>1, Induction
<1> QED
  BY <1>5 DEF n, r

(* A byte enters the register where the message has it, sixteen places      *)
(* above the shifts that are left after its own eight.                      *)
LEMMA LoadingAdds ==
  ASSUME NEW data, Len(data) \in Nat, NEW t \in 0 .. 8 * Len(data) - 1,
         NEW crc \in SUBSET (0 .. 15), NEW e \in Nat
  PROVE  LET n == Len(data)
             s == 8 * n - t
             ahead(u) == e \in Message(data) /\ e < 16 + 8 * (n - (u + 7) \div 8)
         IN  (e \in Up(crc, s) <=> ahead(t))
               <=> (e \in Up(Loaded(data, t, crc), s) <=> ahead(t + 1))
<1> DEFINE n == Len(data)
           s == 8 * n - t
           ahead(u) == e \in Message(data) /\ e < 16 + 8 * (n - (u + 7) \div 8)
<1> SUFFICES (e \in Up(crc, s) <=> ahead(t))
               <=> (e \in Up(Loaded(data, t, crc), s) <=> ahead(t + 1))
  OBVIOUS
<1>1. n \in Nat /\ s \in Nat /\ s > 0
  OBVIOUS
<1>2. CASE t % 8 # 0
  <2>1. (t + 7) \div 8 = (t + 8) \div 8
    BY <1>2
  <2>2. Loaded(data, t, crc) = crc
    BY <1>2 DEF Loaded
  <2>3. ahead(t) <=> ahead(t + 1)
    BY <2>1
  <2> HIDE DEF ahead
  <2> QED
    BY <2>2, <2>3
<1>3. CASE t % 8 = 0
  <2> DEFINE i == t \div 8 + 1
             byte == Bits(data[i])
  <2>1. i \in 1 .. n /\ t = 8 * (i - 1) /\ (t + 7) \div 8 = i - 1 /\ (t + 8) \div 8 = i
    BY <1>3
  <2>2. s = 8 * (n - i) + 8
    BY <2>1
  <2>3. Loaded(data, t, crc) = Plus(crc, Up(byte, 8))
    BY <1>3 DEF Loaded
  <2>4. byte \in SUBSET (0 .. 7) /\ Up(byte, 8) \in SUBSET Nat
    <3>1. byte \in SUBSET (0 .. 7)
      BY DEF Bits
    <3> HIDE DEF byte
    <3> QED
      BY <3>1 DEF Up
  <2> HIDE DEF i, byte, n, s
  <2>5. e \in Up(crc, s) <=> (e >= s /\ e - s \in crc)
    <3>1. crc \in SUBSET Nat
      OBVIOUS
    <3> QED
      BY <1>1, <3>1, UpIn
  <2>6. e \in Up(Loaded(data, t, crc), s)
          <=> (e >= s /\ ~(e - s \in crc <=> e - s \in Up(byte, 8)))
    <3>1. Loaded(data, t, crc) \in SUBSET Nat
      <4>1. LET b == Up(byte, 8) IN Plus(crc, b) \in SUBSET Nat
        <5>1. \A x : x \in Plus(crc, Up(byte, 8)) => x \in crc \/ x \in Up(byte, 8)
          BY PlusIn, Zenon
        <5>2. \A x : x \in crc => x \in Nat
          OBVIOUS
        <5>3. \A x : x \in Up(byte, 8) => x \in Nat
          BY <2>4
        <5> QED
          BY <5>1, <5>2, <5>3
      <4> QED
        BY <2>3, <4>1
    <3>2. e - s \in Loaded(data, t, crc) <=> ~(e - s \in crc <=> e - s \in Up(byte, 8))
      BY <2>3, PlusIn
    <3> QED
      BY <1>1, <3>1, <3>2, UpIn
  <2>7. e >= s => (e - s \in Up(byte, 8) <=> (e - s >= 8 /\ e - s - 8 \in byte))
    <3>1. byte \in SUBSET Nat /\ 8 \in Nat
      BY <2>4
    <3>2. e >= s => e - s \in Nat
      BY <1>1
    <3> QED
      BY <3>1, <3>2, UpIn
  <2>8. (e >= s /\ e - s >= 8 /\ e - s - 8 \in byte)
          <=> (e \in Message(data) /\ 16 + 8 * (n - i) <= e /\ e < 16 + 8 * (n - i) + 8)
    <3> DEFINE m == 16 + 8 * (n - i)
    <3>1. m \in Nat /\ e - s - 8 = e - m /\ (e >= s /\ e - s >= 8 <=> e >= m)
      BY <1>1, <2>1, <2>2
    <3>2. ASSUME m <= e, e < m + 8
          PROVE  e \in Message(data) <=> e - m \in byte
      <4>1. e \div 8 = 2 + n - i /\ e % 8 = e - m
        BY <1>1, <2>1, <3>2
      <4>2. e \in 16 .. 8 * n + 15 /\ n + 2 - e \div 8 = i
        BY <1>1, <2>1, <3>2, <4>1
      <4>3. e \in Message(data) <=> e % 8 \in Bits(data[n + 2 - e \div 8])
        BY <4>2 DEF Message, n
      <4> QED
        BY <4>1, <4>2, <4>3 DEF byte
    <3>3. e - m \in byte => m <= e /\ e < m + 8
      BY <2>4, <3>1
    <3> HIDE DEF m
    <3>4. (e >= m /\ e - m \in byte) <=> (e \in Message(data) /\ m <= e /\ e < m + 8)
      BY <3>1, <3>2, <3>3
    <3> QED
      BY <3>1, <3>4 DEF m
  <2>9. /\ ahead(t) <=> (e \in Message(data) /\ e < 16 + 8 * (n - i) + 8)
        /\ ahead(t + 1) <=> (e \in Message(data) /\ e < 16 + 8 * (n - i))
    <3>1. 16 + 8 * (n - (i - 1)) = 16 + 8 * (n - i) + 8
      BY <1>1, <2>1
    <3>2. (t + 1 + 7) \div 8 = i
      BY <2>1
    <3> QED
      BY <2>1, <3>1, <3>2
  <2> DEFINE m == 16 + 8 * (n - i)
             M == e \in Message(data)
             C == e \in Up(crc, s)
             L == e \in Up(Loaded(data, t, crc), s)
             B == M /\ m <= e /\ e < m + 8
  <2>10. m \in Int /\ (ahead(t) <=> (M /\ e < m + 8)) /\ (ahead(t + 1) <=> (M /\ e < m))
    BY <1>1, <2>1, <2>9
  <2>11. L <=> ~(C <=> B)
    BY <2>5, <2>6, <2>7, <2>8
  <2> HIDE DEF m, M, C, L, ahead
  <2>12. (C <=> ahead(t)) <=> (L <=> ahead(t + 1))
    BY <2>10, <2>11
  <2> QED
    BY <2>12 DEF C, L
<1> QED
  BY <1>2, <1>3

LEMMA DividendIn ==
  ASSUME NEW data, Len(data) \in Nat
  PROVE  /\ Message(data) \in SUBSET Nat /\ Dividend(data) \in SUBSET Nat
         /\ \A e \in Message(data) : 16 <= e /\ e < 16 + 8 * Len(data)
         /\ \A e \in Nat : e \in Dividend(data) <=>
              ~(e \in Message(data) <=> e \in Up(CRC16_INIT, 8 * Len(data)))
<1> DEFINE n == 8 * Len(data)
<1>1. n \in Nat /\ CRC16_INIT \in SUBSET Nat
  BY DEF CRC16_INIT
<1>2. Message(data) \in SUBSET Nat /\ \A e \in Message(data) : 16 <= e /\ e < 16 + n
  BY DEF Message
<1>3. Up(CRC16_INIT, n) \in SUBSET Nat
  <2> HIDE DEF n
  <2> QED
    BY <1>1, UpIn
<1>4. Dividend(data) \in SUBSET Nat
  BY <1>2, <1>3 DEF Dividend, Plus
<1>5. \A e : e \in Dividend(data) <=> ~(e \in Message(data) <=> e \in Up(CRC16_INIT, n))
  BY PlusIn DEF Dividend
<1> QED
  BY <1>2, <1>4, <1>5

(* The quotient grows by the power that is shifted out.                     *)
LEMMA QuotientGrows ==
  ASSUME NEW data, Len(data) \in Nat, NEW t \in 0 .. 8 * Len(data) - 1
  PROVE  LET s == 8 * Len(data) - t
             q(low) == {d \in Quotient(data) : d >= low}
         IN  \A e \in Nat :
               e \in Times(q(s - 1)) <=>
                 ~(e \in Times(q(s))
                     <=> (/\ 15 \in Loaded(data, t, Register(data)[t])
                          /\ e \in Times({s - 1})))
<1> DEFINE n == 8 * Len(data)
           s == n - t
           q(low) == {d \in Quotient(data) : d >= low}
           one == 15 \in Loaded(data, t, Register(data)[t])
<1> SUFFICES ASSUME NEW e \in Nat
             PROVE  e \in Times(q(s - 1)) <=>
                      ~(e \in Times(q(s)) <=> (one /\ e \in Times({s - 1})))
  OBVIOUS
<1>1. n \in Nat /\ s \in Nat /\ s - 1 \in 0 .. n - 1 /\ n - 1 - (s - 1) = t
  OBVIOUS
<1>2. Quotient(data) \in SUBSET Nat /\ (s - 1 \in Quotient(data) <=> one)
  BY <1>1 DEF Quotient
<1> HIDE DEF n, s, one
<1>3. CASE one
  <2>1. \A d : d \in q(s - 1) <=> (d \in q(s) \/ d = s - 1)
    BY <1>1, <1>2, <1>3
  <2>2. q(s) \in SUBSET Nat /\ {s - 1} \in SUBSET Nat /\ s - 1 \notin q(s)
    BY <1>1, <1>2
  <2> HIDE DEF q
  <2>3. \A d : d \in q(s - 1) <=> d \in Plus(q(s), {s - 1})
    BY <2>1, <2>2, PlusIn
  <2>4. q(s - 1) = Plus(q(s), {s - 1})
    BY <2>3
  <2>5. Times(q(s - 1)) = Plus(Times(q(s)), Times({s - 1}))
    BY <2>2, <2>4, TimesPlus
  <2> QED
    BY <1>3, <2>5, PlusIn
<1>4. CASE ~one
  <2>1. \A d : d \in q(s - 1) <=> d \in q(s)
    BY <1>1, <1>2, <1>4
  <2>2. q(s - 1) = q(s)
    BY <2>1
  <2> HIDE DEF q
  <2> QED
    BY <1>4, <2>2
<1> QED
  BY <1>3, <1>4

(* What the loops leave in the register is the dividend without a multiple  *)
(* of the generator, and too short to be divided further: the remainder.    *)
THEOREM LoopsDivide ==
  ASSUME NEW data, Len(data) \in Nat
  PROVE  LET rest == Register(data)[8 * Len(data)] IN
         /\ rest = Plus(Dividend(data), Times(Quotient(data)))
         /\ rest \in SUBSET (0 .. 15)
<1> DEFINE n == 8 * Len(data)
           r == Register(data)
           q(low) == {d \in Quotient(data) : d >= low}
           ahead(u, e) == e \in Message(data) /\ e < 16 + 8 * (Len(data) - (u + 7) \div 8)
           Holds(t, e) == e \in Dividend(data) <=>
                            (e \in Times(q(n - t)) <=> (e \in Up(r[t], n - t) <=> ahead(t, e)))
           S == {t \in 0 .. n : \A e \in Nat : Holds(t, e)}
<1>1. n \in Nat /\ Quotient(data) \in SUBSET (0 .. n - 1)
  BY DEF Quotient
<1>2. r[0] = CRC16_INIT /\ \A t \in 0 .. n - 1 : r[t + 1] = ShiftBit(Loaded(data, t, r[t]))
  BY RegisterUnfolds
<1>3. \A t \in 0 .. n : r[t] \in SUBSET (0 .. 15)
  BY RegisterIn
<1>4. \A e \in Nat : ~(e \in Times({}))
  <2>1. {} \in SUBSET Nat
    OBVIOUS
  <2> QED
    BY <2>1, TimesIn
<1>5. 0 \in S
  <2>1. q(n - 0) = {}
    BY <1>1
  <2>2. ASSUME NEW e \in Nat PROVE Holds(0, e)
    <3>1. ahead(0, e) <=> e \in Message(data)
      BY DividendIn
    <3>2. e \in Dividend(data) <=> ~(e \in Message(data) <=> e \in Up(CRC16_INIT, n))
      BY DividendIn
    <3>3. n - 0 = n /\ ~(e \in Times(q(n - 0)))
      <4>1. n - 0 = n
        BY <1>1
      <4>2. Times(q(n - 0)) = Times({})
        BY <2>1, Zenon
      <4>3. ~(e \in Times(q(n - 0)))
        BY <1>4, <4>2, Zenon
      <4> QED
        BY <4>1, <4>3
    <3> HIDE DEF n, q, r, ahead
    <3> QED
      BY <1>2, <3>1, <3>2, <3>3
  <2> HIDE DEF Holds
  <2> QED
    BY <1>1, <2>2
<1>6. ASSUME NEW t \in 0 .. n - 1, t \in S PROVE t + 1 \in S
  <2> DEFINE s == n - t
             crc == Loaded(data, t, r[t])
  <2>1. s \in Nat /\ s > 0 /\ n - (t + 1) = s - 1 /\ t + 1 \in 0 .. n /\ t \in 0 .. n
    BY <1>1
  <2>2. r[t] \in SUBSET (0 .. 15) /\ crc \in SUBSET (0 .. 15)
    <3>1. t \in Nat /\ r[t] \in SUBSET (0 .. 15)
      BY <1>3, <2>1
    <3> HIDE DEF r
    <3> QED
      BY <3>1, LoadedIn
  <2>3. ASSUME NEW e \in Nat PROVE Holds(t + 1, e)
    <3>1. Holds(t, e)
      BY <1>6
    <3>2. (e \in Up(r[t], s) <=> ahead(t, e)) <=> (e \in Up(crc, s) <=> ahead(t + 1, e))
      BY <2>2, LoadingAdds
    <3>3. e \in Times(q(s - 1)) <=>
            ~(e \in Times(q(s)) <=> (15 \in crc /\ e \in Times({s - 1})))
      BY QuotientGrows
    <3> HIDE DEF n, crc, q, ahead, r
    <3>4. e \in Up(crc, s) <=>
            ~(e \in Up(ShiftBit(crc), s - 1) <=> (15 \in crc /\ e \in Times({s - 1})))
      <4> HIDE DEF s
      <4> QED
        BY <2>1, <2>2, ShiftDivides
    <3>5. r[t + 1] = ShiftBit(crc)
      BY <1>2 DEF crc
    <3>6. n - t = s /\ n - (t + 1) = s - 1
      BY <2>1
    <3> HIDE DEF s
    <3> QED
      BY <3>1, <3>2, <3>3, <3>4, <3>5, <3>6
  <2> HIDE DEF Holds
  <2> QED
    BY <2>1, <2>3
<1>7. n \in S
  <2> HIDE DEF S, n
  <2>1. \A t \in 0 .. n - 1 : t \in S => t + 1 \in S
    BY <1>6
  <2>2. \A t \in 0 .. n : t \in S
    BY <1>1, <1>5, <2>1, Induction
  <2> QED
    BY <1>1, <2>2
<1>8. ASSUME NEW e \in Nat
      PROVE  e \in r[n] <=> ~(e \in Dividend(data) <=> e \in Times(Quotient(data)))
  <2>1. Holds(n, e)
    BY <1>7
  <2>2. ~ahead(n, e)
    <3>1. (n + 7) \div 8 = Len(data)
      OBVIOUS
    <3> QED
      BY <3>1, DividendIn
  <2>3. n - n = 0 /\ q(0) = Quotient(data)
    BY <1>1
  <2>4. e \in Up(r[n], 0) <=> e \in r[n]
    <3>1. r[n] \in SUBSET Nat
      BY <1>1, <1>3
    <3> HIDE DEF r, n
    <3> QED
      BY <3>1, UpIn
  <2> HIDE DEF n, r, q, ahead
  <2> QED
    BY <2>1, <2>2, <2>3, <2>4
<1>9. Plus(Dividend(data), Times(Quotient(data))) \in SUBSET Nat
  <2>1. Dividend(data) \in SUBSET Nat /\ Times(Quotient(data)) \in SUBSET Nat
    BY <1>1, DividendIn, TimesIn
  <2> QED
    BY <2>1 DEF Plus
<1>10. r[n] \in SUBSET (0 .. 15)
  BY <1>1, <1>3
<1> HIDE DEF r, n
<1>11. \A e : e \in r[n] <=> e \in Plus(Dividend(data), Times(Quotient(data)))
  BY <1>8, <1>9, <1>10, PlusIn
<1>12. r[n] = Plus(Dividend(data), Times(Quotient(data)))
  BY <1>11
<1> QED
  BY <1>10, <1>12 DEF r, n

-----------------------------------------------------------------------------
(* What a product can be, and what a division can leave. *)

(* A multiple of the generator is at least as long as the generator.        *)
LEMMA MultiplesAreLong ==
  ASSUME NEW n \in Nat, NEW q \in SUBSET (0 .. n), q # {}
  PROVE  \E low, high \in Times(q) : high >= low + 16
<1>1. PICK low \in q : \A d \in q : low <= d
  <2>1. q \in SUBSET Nat
    OBVIOUS
  <2> QED
    BY <2>1, LeastNumber
<1>2. PICK high \in q : \A d \in q : d <= high
  BY GreatestNumber
<1>3. low \in Nat /\ high \in Nat /\ low <= high
  BY <1>1, <1>2
<1>4. \A e \in Nat :
        e \in Times(q) <=>
          ~(~((e >= 16 /\ e - 16 \in q) <=> (e >= 12 /\ e - 12 \in q))
              <=> ~((e >= 5 /\ e - 5 \in q) <=> e \in q))
  <2>1. q \in SUBSET Nat
    OBVIOUS
  <2> QED
    BY <2>1, TimesIn
<1>5. low \in Times(q)
  <2>1. low - 16 \notin q /\ low - 12 \notin q /\ low - 5 \notin q
    BY <1>1, <1>3
  <2> QED
    BY <1>1, <1>3, <1>4, <2>1
<1>6. high + 16 \in Times(q)
  <2>1. high + 16 \notin q /\ high + 11 \notin q /\ high + 4 \notin q
    BY <1>2, <1>3
  <2>2. high + 16 \in Nat /\ high + 16 - 16 = high /\ high + 16 - 12 = high + 4
        /\ high + 16 - 5 = high + 11 /\ high + 16 >= 16
    BY <1>3
  <2> QED
    BY <1>2, <1>4, <2>1, <2>2
<1> QED
  BY <1>3, <1>5, <1>6

(* However the dividend is divided, the remainder is the same: CalcCRC16    *)
(* (ig4u_protocol.c 32-59) computes the checksum, not just one of many.     *)
THEOREM RemainderIsUnique ==
  ASSUME NEW n \in Nat, NEW p \in SUBSET (0 .. n), NEW q \in SUBSET (0 .. n),
         NEW d \in SUBSET Nat,
         Plus(d, Times(p)) \in SUBSET (0 .. 15),
         Plus(d, Times(q)) \in SUBSET (0 .. 15)
  PROVE  Plus(d, Times(p)) = Plus(d, Times(q))
<1> DEFINE u == Plus(p, q)
<1>1. Times(u) = Plus(Times(p), Times(q))
  <2>1. p \in SUBSET Nat /\ q \in SUBSET Nat
    OBVIOUS
  <2> QED
    BY <2>1, TimesPlus
<1>2. \A e : e \in Times(u) <=> ~(e \in Plus(d, Times(p)) <=> e \in Plus(d, Times(q)))
  BY <1>1, PlusIn
<1>3. u \in SUBSET (0 .. n)
  BY DEF Plus
<1>4. u = {}
  <2> SUFFICES ASSUME u # {} PROVE FALSE
    OBVIOUS
  <2>1. PICK low \in Times(u), high \in Times(u) : high >= low + 16
    <3> HIDE DEF u
    <3> QED
      BY <1>3, MultiplesAreLong
  <2>2. low \in 0 .. 15 /\ high \in 0 .. 15
    BY <1>2, <2>1
  <2> QED
    BY <2>1, <2>2
<1>5. \A e : e \in p <=> e \in q
  BY <1>4, PlusIn
<1>6. p = q
  BY <1>5
<1> QED
  BY <1>6

-----------------------------------------------------------------------------
(* Bytes and words as sets of bits. *)

(* Halving, again and again. *)
LEMMA Halves ==
  ASSUME NEW x \in 0 .. 255
  PROVE  /\ x = (x % 2) + 2 * (x \div 2)
         /\ x \div 2 = ((x \div 2) % 2) + 2 * (x \div 4)
         /\ x \div 4 = ((x \div 4) % 2) + 2 * (x \div 8)
         /\ x \div 8 = ((x \div 8) % 2) + 2 * (x \div 16)
         /\ x \div 16 = ((x \div 16) % 2) + 2 * (x \div 32)
         /\ x \div 32 = ((x \div 32) % 2) + 2 * (x \div 64)
         /\ x \div 64 = ((x \div 64) % 2) + 2 * (x \div 128)
         /\ x \div 128 = (x \div 128) % 2
<1>1. x = (x % 2) + 2 * (x \div 2) /\ x \div 128 = (x \div 128) % 2
  OBVIOUS
<1>2. x \div 2 = ((x \div 2) % 2) + 2 * (x \div 4)
  OBVIOUS
<1>3. x \div 4 = ((x \div 4) % 2) + 2 * (x \div 8)
  OBVIOUS
<1>4. x \div 8 = ((x \div 8) % 2) + 2 * (x \div 16)
  OBVIOUS
<1>5. x \div 16 = ((x \div 16) % 2) + 2 * (x \div 32)
  OBVIOUS
<1>6. x \div 32 = ((x \div 32) % 2) + 2 * (x \div 64)
  OBVIOUS
<1>7. x \div 64 = ((x \div 64) % 2) + 2 * (x \div 128)
  OBVIOUS
<1> QED
  BY <1>1, <1>2, <1>3, <1>4, <1>5, <1>6, <1>7

(* An exponent names a byte and a bit of it. *)
LEMMA ByteAndBit ==
  ASSUME NEW m \in Nat, NEW k \in 0 .. 7
  PROVE  (8 * m + k) % 8 = k /\ (8 * m + k) \div 8 = m
<1>1. PICK e \in Nat : e = 8 * m + k
  OBVIOUS
<1>2. e = 8 * (e \div 8) + (e % 8) /\ e % 8 \in 0 .. 7 /\ e \div 8 \in Nat
  OBVIOUS
<1> QED
  BY <1>1, <1>2

LEMMA BitsCarryTheByte ==
  ASSUME NEW x \in 0 .. 255
  PROVE  LowByte(Bits(x)) = x
<1> DEFINE b(k) == IF k \in Bits(x) THEN 1 ELSE 0
<1>1. /\ b(0) = x % 2            /\ b(1) = (x \div 2) % 2
      /\ b(2) = (x \div 4) % 2   /\ b(3) = (x \div 8) % 2
      /\ b(4) = (x \div 16) % 2  /\ b(5) = (x \div 32) % 2
      /\ b(6) = (x \div 64) % 2  /\ b(7) = (x \div 128) % 2
  BY DEF Bits
<1>2. LowByte(Bits(x)) = b(0) + 2 * (b(1) + 2 * (b(2) + 2 * (b(3)
                           + 2 * (b(4) + 2 * (b(5) + 2 * (b(6) + 2 * b(7)))))))
  BY DEF LowByte
<1> HIDE DEF b
<1>3. x = b(0) + 2 * (x \div 2)
  <2>1. b(0) = x % 2
    BY <1>1
  <2>2. x = (x % 2) + 2 * (x \div 2)
    BY Halves
  <2> QED
    BY <2>1, <2>2
<1>4. x \div 2 = b(1) + 2 * (x \div 4)
  BY <1>1, Halves, Zenon
<1>5. x \div 4 = b(2) + 2 * (x \div 8)
  BY <1>1, Halves, Zenon
<1>6. x \div 8 = b(3) + 2 * (x \div 16)
  BY <1>1, Halves, Zenon
<1>7. x \div 16 = b(4) + 2 * (x \div 32)
  BY <1>1, Halves, Zenon
<1>8. x \div 32 = b(5) + 2 * (x \div 64)
  BY <1>1, Halves, Zenon
<1>9. x \div 64 = b(6) + 2 * (x \div 128)
  BY <1>1, Halves, Zenon
<1>10. x \div 128 = b(7)
  BY <1>1, Halves, Zenon
<1> QED
  BY <1>2, <1>3, <1>4, <1>5, <1>6, <1>7, <1>8, <1>9, <1>10, Zenon

(* The lowest digit of a sum is told by its remainder. *)
LEMMA ParityTells ==
  ASSUME NEW a, NEW c, NEW x, NEW y,
         a \in 0 .. 1, c \in 0 .. 1, x \in Int, y \in Int,
         a + 2 * x = c + 2 * y
  PROVE  a = c /\ x = y
  OBVIOUS

LEMMA ByteTells ==
  ASSUME NEW a, NEW c, NEW x, NEW y,
         a \in 0 .. 255, c \in 0 .. 255, x \in Int, y \in Int,
         a + 256 * x = c + 256 * y
  PROVE  a = c /\ x = y
  OBVIOUS

LEMMA TwoBytes ==
  ASSUME NEW a, NEW x, a \in 0 .. 255, x \in 0 .. 255
  PROVE  a + 256 * x \in Nat /\ a + 256 * x < 65536
  OBVIOUS

LEMMA LowByteIn ==
  ASSUME NEW w
  PROVE  LowByte(w) \in 0 .. 255
<1> DEFINE b(k) == IF k \in w THEN 1 ELSE 0
           h7 == b(7)
           h6 == b(6) + 2 * h7
           h5 == b(5) + 2 * h6
           h4 == b(4) + 2 * h5
           h3 == b(3) + 2 * h4
           h2 == b(2) + 2 * h3
           h1 == b(1) + 2 * h2
           h0 == b(0) + 2 * h1
<1>1. LowByte(w) = h0
  BY DEF LowByte
<1>2. /\ b(0) \in 0 .. 1 /\ b(1) \in 0 .. 1 /\ b(2) \in 0 .. 1 /\ b(3) \in 0 .. 1
      /\ b(4) \in 0 .. 1 /\ b(5) \in 0 .. 1 /\ b(6) \in 0 .. 1 /\ b(7) \in 0 .. 1
  OBVIOUS
<1> HIDE DEF b, h0, h1, h2, h3, h4, h5, h6
<1>3. h6 \in 0 .. 3
  <2>1. \A a \in 0 .. 1, x \in 0 .. 1 : a + 2 * x \in 0 .. 3
    OBVIOUS
  <2> QED
    BY <1>2, <2>1 DEF h6
<1>4. h5 \in 0 .. 7
  <2>1. \A a \in 0 .. 1, x \in 0 .. 3 : a + 2 * x \in 0 .. 7
    OBVIOUS
  <2> QED
    BY <1>2, <1>3, <2>1 DEF h5
<1>5. h4 \in 0 .. 15
  <2>1. \A a \in 0 .. 1, x \in 0 .. 7 : a + 2 * x \in 0 .. 15
    OBVIOUS
  <2> QED
    BY <1>2, <1>4, <2>1 DEF h4
<1>6. h3 \in 0 .. 31
  <2>1. \A a \in 0 .. 1, x \in 0 .. 15 : a + 2 * x \in 0 .. 31
    OBVIOUS
  <2> QED
    BY <1>2, <1>5, <2>1 DEF h3
<1>7. h2 \in 0 .. 63
  <2>1. \A a \in 0 .. 1, x \in 0 .. 31 : a + 2 * x \in 0 .. 63
    OBVIOUS
  <2> QED
    BY <1>2, <1>6, <2>1 DEF h2
<1>8. h1 \in 0 .. 127
  <2>1. \A a \in 0 .. 1, x \in 0 .. 63 : a + 2 * x \in 0 .. 127
    OBVIOUS
  <2> QED
    BY <1>2, <1>7, <2>1 DEF h1
<1>9. h0 \in 0 .. 255
  <2>1. \A a \in 0 .. 1, x \in 0 .. 127 : a + 2 * x \in 0 .. 255
    OBVIOUS
  <2> QED
    BY <1>2, <1>8, <2>1 DEF h0
<1> QED
  BY <1>1, <1>9

LEMMA LowByteCarriesTheBits ==
  ASSUME NEW v, NEW w, LowByte(v) = LowByte(w)
  PROVE  \A k \in 0 .. 7 : k \in v <=> k \in w
<1> DEFINE b(k, u) == IF k \in u THEN 1 ELSE 0
           h7(u) == b(7, u)
           h6(u) == b(6, u) + 2 * h7(u)
           h5(u) == b(5, u) + 2 * h6(u)
           h4(u) == b(4, u) + 2 * h5(u)
           h3(u) == b(3, u) + 2 * h4(u)
           h2(u) == b(2, u) + 2 * h3(u)
           h1(u) == b(1, u) + 2 * h2(u)
           h0(u) == b(0, u) + 2 * h1(u)
<1>1. LowByte(v) = h0(v) /\ LowByte(w) = h0(w)
  BY DEF LowByte
<1>2. \A k, u : b(k, u) \in 0 .. 1
  OBVIOUS
<1>3. \A k : b(k, v) = b(k, w) => (k \in v <=> k \in w)
  OBVIOUS
<1> HIDE DEF b, h0, h1, h2, h3, h4, h5, h6, h7
<1>4. \A u : h7(u) \in Int
  BY <1>2 DEF h7
<1>5. \A u : h6(u) \in Int
  BY <1>2, <1>4 DEF h6
<1>6. \A u : h5(u) \in Int
  BY <1>2, <1>5 DEF h5
<1>7. \A u : h4(u) \in Int
  BY <1>2, <1>6 DEF h4
<1>8. \A u : h3(u) \in Int
  BY <1>2, <1>7 DEF h3
<1>9. \A u : h2(u) \in Int
  BY <1>2, <1>8 DEF h2
<1>10. \A u : h1(u) \in Int
  BY <1>2, <1>9 DEF h1
<1>11. b(0, v) = b(0, w) /\ h1(v) = h1(w)
  <2>1. b(0, v) \in 0 .. 1 /\ b(0, w) \in 0 .. 1 /\ h1(v) \in Int /\ h1(w) \in Int
    BY <1>2, <1>10
  <2>2. b(0, v) + 2 * h1(v) = b(0, w) + 2 * h1(w)
    BY <1>1 DEF h0
  <2> QED
    BY <2>1, <2>2, ParityTells
<1>12. b(1, v) = b(1, w) /\ h2(v) = h2(w)
  <2>1. b(1, v) \in 0 .. 1 /\ b(1, w) \in 0 .. 1 /\ h2(v) \in Int /\ h2(w) \in Int
    BY <1>2, <1>9
  <2>2. b(1, v) + 2 * h2(v) = b(1, w) + 2 * h2(w)
    BY <1>11 DEF h1
  <2> QED
    BY <2>1, <2>2, ParityTells
<1>13. b(2, v) = b(2, w) /\ h3(v) = h3(w)
  <2>1. b(2, v) \in 0 .. 1 /\ b(2, w) \in 0 .. 1 /\ h3(v) \in Int /\ h3(w) \in Int
    BY <1>2, <1>8
  <2>2. b(2, v) + 2 * h3(v) = b(2, w) + 2 * h3(w)
    BY <1>12 DEF h2
  <2> QED
    BY <2>1, <2>2, ParityTells
<1>14. b(3, v) = b(3, w) /\ h4(v) = h4(w)
  <2>1. b(3, v) \in 0 .. 1 /\ b(3, w) \in 0 .. 1 /\ h4(v) \in Int /\ h4(w) \in Int
    BY <1>2, <1>7
  <2>2. b(3, v) + 2 * h4(v) = b(3, w) + 2 * h4(w)
    BY <1>13 DEF h3
  <2> QED
    BY <2>1, <2>2, ParityTells
<1>15. b(4, v) = b(4, w) /\ h5(v) = h5(w)
  <2>1. b(4, v) \in 0 .. 1 /\ b(4, w) \in 0 .. 1 /\ h5(v) \in Int /\ h5(w) \in Int
    BY <1>2, <1>6
  <2>2. b(4, v) + 2 * h5(v) = b(4, w) + 2 * h5(w)
    BY <1>14 DEF h4
  <2> QED
    BY <2>1, <2>2, ParityTells
<1>16. b(5, v) = b(5, w) /\ h6(v) = h6(w)
  <2>1. b(5, v) \in 0 .. 1 /\ b(5, w) \in 0 .. 1 /\ h6(v) \in Int /\ h6(w) \in Int
    BY <1>2, <1>5
  <2>2. b(5, v) + 2 * h6(v) = b(5, w) + 2 * h6(w)
    BY <1>15 DEF h5
  <2> QED
    BY <2>1, <2>2, ParityTells
<1>17. b(6, v) = b(6, w) /\ h7(v) = h7(w)
  <2>1. b(6, v) \in 0 .. 1 /\ b(6, w) \in 0 .. 1 /\ h7(v) \in Int /\ h7(w) \in Int
    BY <1>2, <1>4
  <2>2. b(6, v) + 2 * h7(v) = b(6, w) + 2 * h7(w)
    BY <1>16 DEF h6
  <2> QED
    BY <2>1, <2>2, ParityTells
<1>18. b(7, v) = b(7, w)
  BY <1>17 DEF h7
<1>19. ASSUME NEW k \in 0 .. 7 PROVE b(k, v) = b(k, w)
  <2>1. k = 0 \/ k = 1 \/ k = 2 \/ k = 3 \/ k = 4 \/ k = 5 \/ k = 6 \/ k = 7
    OBVIOUS
  <2> QED
    BY <1>11, <1>12, <1>13, <1>14, <1>15, <1>16, <1>17, <1>18, <2>1
<1> QED
  BY <1>3, <1>19

LEMMA WordIn ==
  \A w : Word(w) \in Nat /\ Word(w) < 65536
<1>1. ASSUME NEW w PROVE Word(w) \in Nat /\ Word(w) < 65536
  <2> DEFINE low == LowByte(w)
             high == LowByte({k - 8 : k \in w \ (0 .. 7)})
  <2>1. low \in 0 .. 255 /\ high \in 0 .. 255
    BY LowByteIn
  <2>2. Word(w) = low + 256 * high
    BY DEF Word
  <2> HIDE DEF low, high
  <2>3. low + 256 * high \in Nat /\ low + 256 * high < 65536
    BY <2>1, TwoBytes
  <2> QED
    BY <2>2, <2>3
<1> QED
  BY <1>1

LEMMA WordCarriesTheBits ==
  ASSUME NEW v \in SUBSET (0 .. 15), NEW w \in SUBSET (0 .. 15), Word(v) = Word(w)
  PROVE  v = w
<1> DEFINE h(u) == {k - 8 : k \in u \ (0 .. 7)}
<1>1. /\ LowByte(v) \in 0 .. 255 /\ LowByte(h(v)) \in 0 .. 255
      /\ LowByte(w) \in 0 .. 255 /\ LowByte(h(w)) \in 0 .. 255
  BY LowByteIn
<1>2. Word(v) = LowByte(v) + 256 * LowByte(h(v)) /\ Word(w) = LowByte(w) + 256 * LowByte(h(w))
  BY DEF Word
<1>3. \A k \in 8 .. 15 : (k \in v <=> k - 8 \in h(v)) /\ (k \in w <=> k - 8 \in h(w))
  OBVIOUS
<1> HIDE DEF h
<1>4. LowByte(v) = LowByte(w) /\ LowByte(h(v)) = LowByte(h(w))
  <2>1. LowByte(v) + 256 * LowByte(h(v)) = LowByte(w) + 256 * LowByte(h(w))
    BY <1>2, Zenon
  <2>2. LowByte(h(v)) \in Int /\ LowByte(h(w)) \in Int
    BY <1>1
  <2> QED
    BY <1>1, <2>1, <2>2, ByteTells
<1>5. \A k \in 0 .. 7 : k \in v <=> k \in w
  BY <1>4, LowByteCarriesTheBits
<1>6. \A k \in 0 .. 7 : k \in h(v) <=> k \in h(w)
  BY <1>4, LowByteCarriesTheBits
<1>7. ASSUME NEW k \in 8 .. 15 PROVE k \in v <=> k \in w
  <2>1. k - 8 \in 0 .. 7
    OBVIOUS
  <2> QED
    BY <1>3, <1>6, <2>1
<1>8. \A k \in 0 .. 15 : k \in v <=> k \in w
  BY <1>5, <1>7
<1> QED
  BY <1>8

(* CalcCRC16 returns a uint16_t. *)
LEMMA CRC16In ==
  \A data : CRC16(data) \in Nat /\ CRC16(data) < 65536
  BY WordIn DEF CRC16

-----------------------------------------------------------------------------
(* Two buffers of one length that differ in no more than two neighbouring   *)
(* bytes have different checksums: what DecodeTM's comparison is worth      *)
(* (ig4u_protocol.c 195-206).                                               *)
THEOREM DamageChangesTheChecksum ==
  ASSUME NEW a \in Seq(0 .. 255), NEW b \in Seq(0 .. 255), Len(a) = Len(b), a # b,
         NEW i \in 1 .. Len(a),
         \A j \in 1 .. Len(a) : j \notin {i, i + 1} => a[j] = b[j]
  PROVE  CRC16(a) # CRC16(b)
<1> SUFFICES ASSUME CRC16(a) = CRC16(b) PROVE FALSE
  OBVIOUS
<1> DEFINE n == Len(a)
           q == Plus(Quotient(a), Quotient(b))
<1>1. n \in Nat /\ Len(b) = n
  OBVIOUS
<1> HIDE DEF n
<1>2. Register(a)[8 * n] = Register(b)[8 * n]
  <2> DEFINE v == Register(a)[8 * n]
             w == Register(b)[8 * n]
  <2>1. v \in SUBSET (0 .. 15) /\ w \in SUBSET (0 .. 15)
    BY <1>1, LoopsDivide DEF n
  <2>2. Word(v) = Word(w)
    BY <1>1 DEF CRC16, n
  <2> HIDE DEF v, w
  <2>3. v = w
    BY <2>1, <2>2, WordCarriesTheBits
  <2> QED
    BY <2>3 DEF v, w
<1>3. Plus(Dividend(a), Times(Quotient(a))) = Plus(Dividend(b), Times(Quotient(b)))
  BY <1>1, <1>2, LoopsDivide DEF n
<1>4. Times(q) = Plus(Times(Quotient(a)), Times(Quotient(b)))
  <2>1. Quotient(a) \in SUBSET Nat /\ Quotient(b) \in SUBSET Nat
    BY <1>1 DEF Quotient, n
  <2> QED
    BY <2>1, TimesPlus
<1>5. \A e : e \in Times(q) <=> ~(e \in Dividend(a) <=> e \in Dividend(b))
  <2> HIDE DEF q
  <2>1. \A e : e \in Times(q) <=> ~(e \in Times(Quotient(a)) <=> e \in Times(Quotient(b)))
    BY <1>4, PlusIn
  <2>2. \A e : ~(e \in Dividend(a) <=> e \in Times(Quotient(a)))
                 <=> e \in Plus(Dividend(b), Times(Quotient(b)))
    BY <1>3, PlusIn, Zenon
  <2>3. \A e : e \in Plus(Dividend(b), Times(Quotient(b)))
                 <=> ~(e \in Dividend(b) <=> e \in Times(Quotient(b)))
    BY PlusIn, Zenon
  <2> QED
    BY <2>1, <2>2, <2>3
<1>6. \A e : e \in Times(q) <=> ~(e \in Message(a) <=> e \in Message(b))
  <2> DEFINE start == Up(CRC16_INIT, 8 * n)
  <2>1. Dividend(a) = Plus(Message(a), start) /\ Dividend(b) = Plus(Message(b), start)
    BY <1>1 DEF Dividend, n
  <2> HIDE DEF start, q
  <2>2. \A e : /\ e \in Dividend(a) <=> ~(e \in Message(a) <=> e \in start)
               /\ e \in Dividend(b) <=> ~(e \in Message(b) <=> e \in start)
    BY <2>1, PlusIn
  <2> QED
    BY <1>5, <2>2
<1>7. ASSUME NEW e \in 16 .. 8 * n + 15
      PROVE  /\ e \in Message(a) <=> e % 8 \in Bits(a[n + 2 - e \div 8])
             /\ e \in Message(b) <=> e % 8 \in Bits(b[n + 2 - e \div 8])
  BY <1>1 DEF Message, n
<1>8. \A e \in Times(q) : e \in 8 * (n + 1 - i) .. 8 * (n + 1 - i) + 15
  <2> SUFFICES ASSUME NEW e \in Times(q)
               PROVE  e \in 8 * (n + 1 - i) .. 8 * (n + 1 - i) + 15
    OBVIOUS
  <2> DEFINE j == n + 2 - e \div 8
  <2>1. e \in 16 .. 8 * n + 15
    BY <1>1, <1>6 DEF Message, n
  <2>2. j \in 1 .. n
    BY <1>1, <2>1
  <2>3. a[j] # b[j]
    BY <1>6, <1>7, <2>1
  <2>4. j = i \/ j = i + 1
    BY <2>2, <2>3 DEF n
  <2>5. i \in 1 .. n
    BY DEF n
  <2> QED
    BY <1>1, <2>1, <2>4, <2>5
<1>9. q = {}
  <2> SUFFICES ASSUME q # {} PROVE FALSE
    OBVIOUS
  <2>1. q \in SUBSET (0 .. 8 * n)
    BY <1>1 DEF Quotient, Plus, n
  <2>2. 8 * n \in Nat
    BY <1>1
  <2> HIDE DEF q
  <2>3. PICK low \in Times(q), high \in Times(q) : high >= low + 16
    BY <2>1, <2>2, MultiplesAreLong
  <2>4. i \in 1 .. n
    BY DEF n
  <2>5. 8 * (n + 1 - i) \in Int
    BY <1>1, <2>4
  <2> QED
    BY <1>8, <2>3, <2>5
<1>10. \A e \in Nat : ~(e \in Times(q))
  <2>1. {} \in SUBSET Nat
    OBVIOUS
  <2>2. \A e \in Nat : ~(e \in Times({}))
    BY <2>1, TimesIn
  <2> HIDE DEF q
  <2> QED
    BY <1>9, <2>2
<1>11. ASSUME NEW j \in 1 .. n PROVE a[j] = b[j]
  <2>1. a[j] \in 0 .. 255 /\ b[j] \in 0 .. 255
    <3>1. j \in 1 .. Len(a) /\ j \in 1 .. Len(b)
      BY <1>1 DEF n
    <3> QED
      BY <3>1, ElementOfSeq
  <2>2. ASSUME NEW k \in 0 .. 7 PROVE k \in Bits(a[j]) <=> k \in Bits(b[j])
    <3> DEFINE e == 8 * (n + 2 - j) + k
    <3>1. e \in 16 .. 8 * n + 15 /\ e % 8 = k /\ n + 2 - e \div 8 = j /\ e \in Nat
      <4>1. e \in 16 .. 8 * n + 15 /\ e \in Nat
        BY <1>1
      <4>2. e % 8 = k /\ e \div 8 = n + 2 - j
        <5>1. n + 2 - j \in Nat
          BY <1>1
        <5> QED
          BY <5>1, ByteAndBit
      <4>3. n + 2 - (n + 2 - j) = j
        BY <1>1
      <4> HIDE DEF e, q
      <4> QED
        BY <4>1, <4>2, <4>3
    <3> HIDE DEF e, q
    <3>2. e \in Message(a) <=> e \in Message(b)
      BY <1>6, <1>10, <3>1
    <3> QED
      BY <1>7, <3>1, <3>2
  <2>3. \A x : Bits(x) \in SUBSET (0 .. 7)
    BY DEF Bits
  <2>4. Bits(a[j]) = Bits(b[j])
    BY <2>2, <2>3
  <2> QED
    BY <2>1, <2>4, BitsCarryTheByte
<1>12. a = b
  BY <1>1, <1>11, SeqEqual DEF n
<1> QED
  BY <1>12
=============================================================================
