------------------------------- MODULE IG4U_Crc -------------------------------
(***************************************************************************)
(* The checksum of ig4u_protocol.c, computed bit by bit as the code does,  *)
(* and the division of polynomials over GF(2) it stands for.  A word is    *)
(* the set of the positions of its ones, a polynomial the set of its       *)
(* exponents: exclusive or and addition are the symmetric difference, a    *)
(* left shift is a multiplication by a power of x.                         *)
(***************************************************************************)
EXTENDS Naturals, Sequences

Plus(p, q) == (p \cup q) \ (p \cap q)
Up(p, s) == {e + s : e \in p}

CRC16_POLY == {12, 5, 0}      \* 0x1021
CRC16_INIT == 0 .. 15         \* 0xFFFF

(* A byte as a word, and a word as the uint16_t that is sent.              *)
Bits(byte) ==
  {k \in 0 .. 7 : (byte \div <<1, 2, 4, 8, 16, 32, 64, 128>>[k + 1]) % 2 = 1}

LowByte(w) ==
  LET bit(k) == IF k \in w THEN 1 ELSE 0
  IN  bit(0) + 2 * (bit(1) + 2 * (bit(2) + 2 * (bit(3)
        + 2 * (bit(4) + 2 * (bit(5) + 2 * (bit(6) + 2 * bit(7)))))))

Word(w) == LowByte(w) + 256 * LowByte({k - 8 : k \in w \ (0 .. 7)})

(* Seeded fault: the highest bit is looked at after the shift. *)
ShiftedFirst(crc) ==
  IF 14 \in crc THEN Plus(Up(crc \ {15}, 1), CRC16_POLY) ELSE Up(crc \ {15}, 1)

ShiftBit(crc) ==
  IF 15 \in crc THEN Plus(Up(crc \ {15}, 1), CRC16_POLY) ELSE Up(crc, 1)

(* The register as the shift number t + 1 finds it: the outer loop adds a  *)
(* byte ahead of every eighth shift.                                       *)
Loaded(data, t, crc) ==
  IF t % 8 = 0 THEN Plus(crc, Up(Bits(data[t \div 8 + 1]), 8)) ELSE crc

(* The register after each of the shifts of both loops.                    *)
Register(data) ==
  LET crc[t \in 0 .. 8 * Len(data)] ==
        IF t = 0 THEN CRC16_INIT ELSE ShiftBit(Loaded(data, t - 1, crc[t - 1]))
  IN  crc

CRC16(data) == Word(Register(data)[8 * Len(data)])

-----------------------------------------------------------------------------
(* What is computed.  The first bit of the first byte has the highest      *)
(* exponent; sixteen zero bits make room for the checksum, the initial     *)
(* value inverts the first sixteen bits.                                   *)
Message(data) ==
  {e \in 16 .. 8 * Len(data) + 15 : e % 8 \in Bits(data[Len(data) + 2 - e \div 8])}

Dividend(data) == Plus(Message(data), Up(CRC16_INIT, 8 * Len(data)))

(* The generator x^16 + x^12 + x^5 + 1 times q.                            *)
Times(q) == Plus(Plus(Up(q, 16), Up(q, 12)), Plus(Up(q, 5), q))

(* The ones that the loop shifts out.                                      *)
Quotient(data) ==
  {e \in 0 .. 8 * Len(data) - 1 :
     LET t == 8 * Len(data) - 1 - e
     IN  15 \in Loaded(data, t, Register(data)[t])}
=============================================================================
