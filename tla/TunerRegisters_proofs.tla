----------------------- MODULE TunerRegisters_proofs -----------------------
(***************************************************************************)
(* Lemmas about lists of register writes: what After and Apply leave, for  *)
(* lists of any length. After is a recursive function; the proofs about it *)
(* go by induction over the number of writes done.                         *)
(***************************************************************************)
EXTENDS TunerRegisters, TLAPS, WellFoundedInduction

(* Induction over the naturals for a set: the library's theorem takes a    *)
(* predicate, this one follows from the well-foundedness of <.             *)
LEMMA NatSetInduction ==
    ASSUME NEW P, 0 \in P, \A n \in Nat : n \in P => n + 1 \in P
    PROVE  Nat \subseteq P
<1>. SUFFICES ASSUME Nat \ P # {} PROVE FALSE
     OBVIOUS
<1>. DEFINE T == Nat \ P
<1>1. PICK x \in T : \A y \in T : ~ (<<y, x>> \in OpToRel(<, Nat))
      BY NatLessThanWellFounded, WFMin, T # {}, T \subseteq Nat
<1>2. \A y \in T : ~ (y < x)
  <2>. SUFFICES ASSUME NEW y \in T, y < x PROVE FALSE
       OBVIOUS
  <2>1. <<y, x>> \in OpToRel(<, Nat)
        BY SMT DEF OpToRel
  <2>. QED
       BY <2>1, <1>1
<1>3. x \in Nat /\ x # 0
      OBVIOUS
<1>4. x - 1 \in Nat /\ x - 1 < x /\ (x - 1) + 1 = x
      BY <1>3
<1>. QED
     BY <1>2, <1>4

---------------------------------------------------------------------------
(* The registers after the write w.                                        *)
Wrote(chip, w) == [chip EXCEPT ![w.reg] = Masked(@, w)]

(* at[i] are the registers after i of the writes.                          *)
ChipAt(s, writes, n, at) ==
    at = [i \in 0..n |-> IF i = 0 THEN s.chip ELSE Wrote(at[i - 1], writes[i])]

(* A recursive function with the equations of After exists, however many   *)
(* writes there are, ...                                                   *)
LEMMA ChipAtExists == ASSUME NEW s, NEW writes, NEW n \in Nat
                    PROVE  \E at : ChipAt(s, writes, n, at)
<1>. DEFINE P == {m \in Nat : \E at : ChipAt(s, writes, m, at)}
<1>1. 0 \in P
  <2>. DEFINE at == [i \in 0..0 |-> s.chip]
  <2>1. ChipAt(s, writes, 0, at)
        BY DEF ChipAt
  <2>. QED
       BY <2>1
<1>2. ASSUME NEW m \in Nat, m \in P PROVE m + 1 \in P
  <2>1. PICK at : ChipAt(s, writes, m, at)
        BY <1>2
  <2>. DEFINE g == [i \in 0..(m + 1) |-> IF i = m + 1 THEN Wrote(at[m], writes[m + 1]) ELSE at[i]]
  <2>2. g = [i \in 0..(m + 1) |-> IF i = 0 THEN s.chip ELSE Wrote(g[i - 1], writes[i])]
    <3>1. ASSUME NEW i \in 0..(m + 1) PROVE g[i] = IF i = 0 THEN s.chip ELSE Wrote(g[i - 1], writes[i])
      <4>1. CASE i = m + 1
            BY <4>1
      <4>2. CASE i # m + 1
        <5>1. i \in 0..m /\ (i # 0 => i - 1 \in 0..m /\ i - 1 # m + 1)
              BY <4>2
        <5>2. at[i] = IF i = 0 THEN s.chip ELSE Wrote(at[i - 1], writes[i])
              BY <2>1, <5>1 DEF ChipAt
        <5>3. g[i] = at[i] /\ (i # 0 => g[i - 1] = at[i - 1])
              BY <4>2, <5>1
        <5>. QED
             BY <5>2, <5>3
      <4>. QED
           BY <4>1, <4>2
    <3>. QED
         BY <3>1
  <2>3. ChipAt(s, writes, m + 1, g)
        BY <2>2 DEF ChipAt
  <2>. QED
       BY <2>3
<1>3. Nat \subseteq P
      BY <1>1, <1>2, NatSetInduction
<1>. QED
     BY <1>3

(* ... and After(s, writes, n) is its last value.                          *)
LEMMA AfterChipAt == ASSUME NEW s, NEW writes, NEW n \in Nat
                    PROVE  \E at : ChipAt(s, writes, n, at) /\ After(s, writes, n) = [s EXCEPT !.chip = at[n]]
<1>. DEFINE at == CHOOSE at : ChipAt(s, writes, n, at)
<1>1. ChipAt(s, writes, n, at)
      BY ChipAtExists
<1>2. After(s, writes, n) = [s EXCEPT !.chip = at[n]]
      BY DEF After, ChipAt, Wrote
<1>. QED
     BY <1>1, <1>2

(* Writes that keep the registers in a set S one by one keep them there.   *)
LEMMA AfterStays ==
    ASSUME NEW S, NEW s, s.chip \in S, NEW writes, NEW n \in Nat,
           \A i \in 1..n : \A c \in S : Wrote(c, writes[i]) \in S
    PROVE  \E c \in S : After(s, writes, n) = [s EXCEPT !.chip = c]
<1>1. PICK at : ChipAt(s, writes, n, at) /\ After(s, writes, n) = [s EXCEPT !.chip = at[n]]
      BY AfterChipAt
<1>. DEFINE P == {m \in Nat : m <= n => at[m] \in S}
<1>2. 0 \in P
      BY <1>1 DEF ChipAt
<1>3. ASSUME NEW m \in Nat, m \in P PROVE m + 1 \in P
  <2>1. CASE m + 1 <= n
    <3>1. at[m + 1] = Wrote(at[m], writes[m + 1])
          BY <1>1, <2>1 DEF ChipAt
    <3>2. at[m] \in S /\ m + 1 \in 1..n
          BY <1>3, <2>1
    <3>. QED
         BY <3>1, <3>2
  <2>. QED
       BY <2>1
<1>4. n \in P
      BY <1>2, <1>3, NatSetInduction
<1>. QED
     BY <1>1, <1>4

(* What one write, and two, leave behind.                                  *)
LEMMA AfterOne == ASSUME NEW s, NEW w
                  PROVE  After(s, <<w>>, 1) = [s EXCEPT !.chip = Wrote(s.chip, w)]
<1>1. PICK at : ChipAt(s, <<w>>, 1, at) /\ After(s, <<w>>, 1) = [s EXCEPT !.chip = at[1]]
      BY AfterChipAt
<1>2. at[0] = s.chip
      BY <1>1 DEF ChipAt
<1>3. at[1] = Wrote(at[0], <<w>>[1])
      BY <1>1 DEF ChipAt
<1>. QED
     BY <1>1, <1>2, <1>3

LEMMA AfterTwo == ASSUME NEW s, NEW v, NEW w
                  PROVE  After(s, <<v, w>>, 2) = [s EXCEPT !.chip = Wrote(Wrote(s.chip, v), w)]
<1>1. PICK at : ChipAt(s, <<v, w>>, 2, at) /\ After(s, <<v, w>>, 2) = [s EXCEPT !.chip = at[2]]
      BY AfterChipAt
<1>2. at[0] = s.chip
      BY <1>1 DEF ChipAt
<1>3. at[1] = Wrote(at[0], <<v, w>>[1])
      BY <1>1 DEF ChipAt
<1>4. at[2] = Wrote(at[1], <<v, w>>[2])
      BY <1>1 DEF ChipAt
<1>. QED
     BY <1>1, <1>2, <1>3, <1>4

---------------------------------------------------------------------------
Failed(s, c) == [s EXCEPT !.chip = c, !.faults = @ - 1, !.err = "usb"]

(* The outcomes of Apply: all writes done, or one of them failed, with the *)
(* registers in the same set S wherever it was.                            *)
LEMMA ApplyOutcome ==
    ASSUME NEW S, NEW s, {"chip", "faults", "err"} \subseteq DOMAIN s, s.chip \in S,
           NEW writes, Len(writes) \in Nat,
           \A i \in 1..Len(writes) : \A c \in S : Wrote(c, writes[i]) \in S,
           NEW t \in Apply(s, writes)
    PROVE  \/ t = After(s, writes, Len(writes)) /\ \E c \in S : t = [s EXCEPT !.chip = c]
           \/ s.faults > 0 /\ \E c \in S : t = Failed(s, c)
<1>1. CASE t = After(s, writes, Len(writes))
      BY <1>1, AfterStays
<1>2. CASE t # After(s, writes, Len(writes))
  <2>1. t \in Faulty({After(s, writes, n) : n \in 0..Len(writes)})
        BY <1>2 DEF Apply
  <2>2. PICK n \in 0..Len(writes) :
           /\ After(s, writes, n).faults > 0
           /\ t = [After(s, writes, n) EXCEPT !.faults = @ - 1, !.err = "usb"]
        BY <2>1 DEF Faulty
  <2>3. PICK c \in S : After(s, writes, n) = [s EXCEPT !.chip = c]
    <3>1. \A i \in 1..n : \A c \in S : Wrote(c, writes[i]) \in S
          OBVIOUS
    <3>. QED
         BY <3>1, AfterStays
  <2>4. t = Failed(s, c) /\ s.faults > 0
        BY <2>2, <2>3 DEF Failed
  <2>. QED
       BY <2>4
<1>. QED
     BY <1>1, <1>2

(* The outcomes for one write, and for two.                                *)
LEMMA ApplyOne ==
    ASSUME NEW S, NEW s, {"chip", "faults", "err"} \subseteq DOMAIN s, s.chip \in S,
           NEW w, \A c \in S : Wrote(c, w) \in S, NEW t \in Apply(s, <<w>>)
    PROVE  \/ t = [s EXCEPT !.chip = Wrote(s.chip, w)]
           \/ s.faults > 0 /\ \E c \in S : t = Failed(s, c)
<1>. DEFINE writes == <<w>>
<1>1. Len(writes) = 1 /\ writes[1] = w
      OBVIOUS
<1>2. \A i \in 1..Len(writes) : \A c \in S : Wrote(c, writes[i]) \in S
      BY <1>1
<1>3. After(s, writes, Len(writes)) = [s EXCEPT !.chip = Wrote(s.chip, w)]
      BY <1>1, AfterOne
<1>4. t \in Apply(s, writes) /\ Len(writes) \in Nat
      OBVIOUS
<1>. HIDE DEF writes
<1>. QED
     BY <1>2, <1>3, <1>4, ApplyOutcome

LEMMA ApplyTwo ==
    ASSUME NEW S, NEW s, {"chip", "faults", "err"} \subseteq DOMAIN s, s.chip \in S,
           NEW v, \A c \in S : Wrote(c, v) \in S, NEW w, \A c \in S : Wrote(c, w) \in S,
           NEW t \in Apply(s, <<v, w>>)
    PROVE  \/ t = [s EXCEPT !.chip = Wrote(Wrote(s.chip, v), w)]
           \/ s.faults > 0 /\ \E c \in S : t = Failed(s, c)
<1>. DEFINE writes == <<v, w>>
<1>1. Len(writes) = 2 /\ writes[1] = v /\ writes[2] = w
      OBVIOUS
<1>2. \A i \in 1..Len(writes) : \A c \in S : Wrote(c, writes[i]) \in S
      BY <1>1
<1>3. After(s, writes, Len(writes)) = [s EXCEPT !.chip = Wrote(Wrote(s.chip, v), w)]
      BY <1>1, AfterTwo
<1>4. t \in Apply(s, writes) /\ Len(writes) \in Nat
      OBVIOUS
<1>. HIDE DEF writes
<1>. QED
     BY <1>2, <1>3, <1>4, ApplyOutcome

---------------------------------------------------------------------------
(* Bytes, and the numbers that their bits spell                            *)

Bits == SUBSET (0..7)

(* The bits of a byte, written out: 2^b is evaluated for each b.           *)
LEMMA Powers == /\ 2^0 = 1 /\ 2^1 = 2 /\ 2^2 = 4 /\ 2^3 = 8
                /\ 2^4 = 16 /\ 2^5 = 32 /\ 2^6 = 64 /\ 2^7 = 128
OBVIOUS

LEMMA ByteBits ==
    ASSUME NEW n \in Int, NEW b \in 0..7
    PROVE  b \in Byte(n) <=>
             \/ b = 0 /\ n % 2 = 1
             \/ b = 1 /\ (n \div 2) % 2 = 1
             \/ b = 2 /\ (n \div 4) % 2 = 1
             \/ b = 3 /\ (n \div 8) % 2 = 1
             \/ b = 4 /\ (n \div 16) % 2 = 1
             \/ b = 5 /\ (n \div 32) % 2 = 1
             \/ b = 6 /\ (n \div 64) % 2 = 1
             \/ b = 7 /\ (n \div 128) % 2 = 1
<1>1. b \in Byte(n) <=> (n \div 2^b) % 2 = 1
      BY DEF Byte
<1>2. n \div 1 = n
      OBVIOUS
<1>3. CASE b = 0
      BY <1>1, <1>2, <1>3, Powers
<1>4. CASE b = 1
      BY <1>1, <1>4, Powers
<1>5. CASE b = 2
      BY <1>1, <1>5, Powers
<1>6. CASE b = 3
      BY <1>1, <1>6, Powers
<1>7. CASE b = 4
      BY <1>1, <1>7, Powers
<1>8. CASE b = 5
      BY <1>1, <1>8, Powers
<1>9. CASE b = 6
      BY <1>1, <1>9, Powers
<1>10. CASE b = 7
      BY <1>1, <1>10, Powers
<1>. QED
     BY <1>3, <1>4, <1>5, <1>6, <1>7, <1>8, <1>9, <1>10

LEMMA ByteType == ASSUME NEW n PROVE Byte(n) \in Bits /\ \A b \in Byte(n) : b \in 0..7
BY DEF Byte, Bits

(* A byte is the number that its bits spell, and so are parts of it.       *)
LEMMA Halves ==
    ASSUME NEW n \in Nat, n <= 255
    PROVE  /\ n % 2 = n - 2 * (n \div 2) /\ n % 2 \in 0..1
           /\ (n \div 2) % 2 = (n \div 2) - 2 * (n \div 4) /\ (n \div 2) % 2 \in 0..1
           /\ (n \div 4) % 2 = (n \div 4) - 2 * (n \div 8) /\ (n \div 4) % 2 \in 0..1
           /\ (n \div 8) % 2 = (n \div 8) - 2 * (n \div 16) /\ (n \div 8) % 2 \in 0..1
           /\ (n \div 16) % 2 = (n \div 16) - 2 * (n \div 32) /\ (n \div 16) % 2 \in 0..1
           /\ (n \div 32) % 2 = (n \div 32) - 2 * (n \div 64) /\ (n \div 32) % 2 \in 0..1
           /\ (n \div 64) % 2 = (n \div 64) - 2 * (n \div 128) /\ (n \div 64) % 2 \in 0..1
           /\ (n \div 128) % 2 = n \div 128 /\ (n \div 128) % 2 \in 0..1
<1>1. n % 2 = n - 2 * (n \div 2) /\ n % 2 \in 0..1
      OBVIOUS
<1>2. (n \div 2) % 2 = (n \div 2) - 2 * (n \div 4) /\ (n \div 2) % 2 \in 0..1
      OBVIOUS
<1>3. (n \div 4) % 2 = (n \div 4) - 2 * (n \div 8) /\ (n \div 4) % 2 \in 0..1
      OBVIOUS
<1>4. (n \div 8) % 2 = (n \div 8) - 2 * (n \div 16) /\ (n \div 8) % 2 \in 0..1
      OBVIOUS
<1>5. (n \div 16) % 2 = (n \div 16) - 2 * (n \div 32) /\ (n \div 16) % 2 \in 0..1
      OBVIOUS
<1>6. (n \div 32) % 2 = (n \div 32) - 2 * (n \div 64) /\ (n \div 32) % 2 \in 0..1
      OBVIOUS
<1>7. (n \div 64) % 2 = (n \div 64) - 2 * (n \div 128) /\ (n \div 64) % 2 \in 0..1
      OBVIOUS
<1>8. (n \div 128) % 2 = n \div 128 /\ (n \div 128) % 2 \in 0..1
      OBVIOUS
<1>. QED
     BY <1>1, <1>2, <1>3, <1>4, <1>5, <1>6, <1>7, <1>8

LEMMA ByteSpells ==
    ASSUME NEW n \in Nat, n <= 255
    PROVE  /\ ByteValue(Byte(n)) = n
           /\ ByteValue(Byte(n) \cap 0..5) = n - 64 * (n \div 64)
           /\ ByteValue(Byte(n) \ (0..5)) = 64 * (n \div 64)
<1>. DEFINE x0 == n % 2
            x1 == (n \div 2) % 2
            x2 == (n \div 4) % 2
            x3 == (n \div 8) % 2
            x4 == (n \div 16) % 2
            x5 == (n \div 32) % 2
            x6 == (n \div 64) % 2
            x7 == (n \div 128) % 2
            q == n \div 64
            B == Byte(n)
<1>1. /\ 0 \in B <=> x0 = 1
      /\ 1 \in B <=> x1 = 1
      /\ 2 \in B <=> x2 = 1
      /\ 3 \in B <=> x3 = 1
      /\ 4 \in B <=> x4 = 1
      /\ 5 \in B <=> x5 = 1
      /\ 6 \in B <=> x6 = 1
      /\ 7 \in B <=> x7 = 1
  <2>1. \A b \in 0..7 : b \in Byte(n) <=>
             \/ b = 0 /\ n % 2 = 1
             \/ b = 1 /\ (n \div 2) % 2 = 1
             \/ b = 2 /\ (n \div 4) % 2 = 1
             \/ b = 3 /\ (n \div 8) % 2 = 1
             \/ b = 4 /\ (n \div 16) % 2 = 1
             \/ b = 5 /\ (n \div 32) % 2 = 1
             \/ b = 6 /\ (n \div 64) % 2 = 1
             \/ b = 7 /\ (n \div 128) % 2 = 1
        BY ByteBits
  <2>. QED
       BY <2>1
<1>2. /\ x0 \in 0..1 /\ x1 \in 0..1 /\ x2 \in 0..1 /\ x3 \in 0..1
      /\ x4 \in 0..1 /\ x5 \in 0..1 /\ x6 \in 0..1 /\ x7 \in 0..1
      BY Halves
<1>3. x6 = q - 2 * x7 /\ q \in Int
      BY Halves
<1>4. n - 64 * q = x0 + 2 * x1 + 4 * x2 + 8 * x3 + 16 * x4 + 32 * x5
  <2>. DEFINE a == n \div 2
              b == n \div 4
              c == n \div 8
              d == n \div 16
              e == n \div 32
  <2>1. /\ x0 = n - 2 * a /\ x1 = a - 2 * b /\ x2 = b - 2 * c /\ x3 = c - 2 * d
        /\ x4 = d - 2 * e /\ x5 = e - 2 * q
        BY Halves
  <2>2. a \in Int /\ b \in Int /\ c \in Int /\ d \in Int /\ e \in Int /\ q \in Int
        OBVIOUS
  <2>. HIDE DEF a, b, c, d, e, x0, x1, x2, x3, x4, x5, q
  <2>. QED
       BY <1>2, <2>1, <2>2
<1>. HIDE DEF x0, x1, x2, x3, x4, x5, x6, x7, q, B
<1>5. ByteValue(B) = x0 + 2 * x1 + 4 * x2 + 8 * x3 + 16 * x4 + 32 * x5 + 64 * x6 + 128 * x7
      BY <1>1, <1>2 DEF ByteValue
<1>6. ByteValue(B \cap 0..5) = x0 + 2 * x1 + 4 * x2 + 8 * x3 + 16 * x4 + 32 * x5
  <2>. DEFINE C == B \cap 0..5
  <2>1. /\ 0 \in C <=> x0 = 1
        /\ 1 \in C <=> x1 = 1
        /\ 2 \in C <=> x2 = 1
        /\ 3 \in C <=> x3 = 1
        /\ 4 \in C <=> x4 = 1
        /\ 5 \in C <=> x5 = 1
        /\ 6 \notin C /\ 7 \notin C
        BY <1>1
  <2>. HIDE DEF C
  <2>2. ByteValue(C) = x0 + 2 * x1 + 4 * x2 + 8 * x3 + 16 * x4 + 32 * x5
        BY <1>2, <2>1 DEF ByteValue
  <2>. QED
       BY <2>2 DEF C
<1>7. ByteValue(B \ (0..5)) = 64 * x6 + 128 * x7
  <2>. DEFINE C == B \ (0..5)
  <2>1. /\ 0 \notin C /\ 1 \notin C /\ 2 \notin C /\ 3 \notin C /\ 4 \notin C /\ 5 \notin C
        /\ 6 \in C <=> x6 = 1
        /\ 7 \in C <=> x7 = 1
        BY <1>1
  <2>. HIDE DEF C
  <2>2. ByteValue(C) = 64 * x6 + 128 * x7
        BY <1>2, <2>1 DEF ByteValue
  <2>. QED
       BY <2>2 DEF C
<1>8. n = x0 + 2 * x1 + 4 * x2 + 8 * x3 + 16 * x4 + 32 * x5 + 64 * x6 + 128 * x7
      BY <1>2, <1>3, <1>4
<1>9. 64 * q = 64 * x6 + 128 * x7
      BY <1>2, <1>3
<1>. QED
     BY <1>4, <1>5, <1>6, <1>7, <1>8, <1>9 DEF q, B

(* All bits of a byte.                                                     *)
LEMMA FullByte == Byte(255) = 0..7
<1>. SUFFICES ASSUME NEW b \in 0..7 PROVE (255 \div 2^b) % 2 = 1
     BY DEF Byte
<1>2. CASE b = 0 BY <1>2, Powers
<1>3. CASE b = 1 BY <1>3, Powers
<1>4. CASE b = 2 BY <1>4, Powers
<1>5. CASE b = 3 BY <1>5, Powers
<1>6. CASE b = 4 BY <1>6, Powers
<1>7. CASE b = 5 BY <1>7, Powers
<1>8. CASE b = 6 BY <1>8, Powers
<1>9. CASE b = 7 BY <1>9, Powers
<1>. QED
     BY <1>2, <1>3, <1>4, <1>5, <1>6, <1>7, <1>8, <1>9

(* A register that is put is overwritten whole.                            *)
LEMMA WholeByte == ASSUME NEW reg, NEW val, NEW old \in SUBSET (0..7)
                   PROVE  Masked(old, Put(reg, val)) = Byte(val) /\ Byte(val) \in SUBSET (0..7)
<1>1. Byte(255) = 0..7 /\ \hff = 255
      BY FullByte
<1>2. Byte(val) \subseteq 0..7
      BY DEF Byte
<1>. QED
     BY <1>1, <1>2 DEF Masked, Put, W

(* What the bits of a byte that lie in S are worth.                        *)
PartSum(n, S) ==
    LET Part(b, p) == IF b \in S THEN p * ((n \div p) % 2) ELSE 0
    IN  Part(0, 1) + Part(1, 2) + Part(2, 4) + Part(3, 8) + Part(4, 16) + Part(5, 32) + Part(6, 64)
        + Part(7, 128)

LEMMA PartSpells == ASSUME NEW n \in Int, NEW S PROVE ByteValue(Byte(n) \cap S) = PartSum(n, S)
<1>. DEFINE x0 == n % 2
            x1 == (n \div 2) % 2
            x2 == (n \div 4) % 2
            x3 == (n \div 8) % 2
            x4 == (n \div 16) % 2
            x5 == (n \div 32) % 2
            x6 == (n \div 64) % 2
            x7 == (n \div 128) % 2
            C == Byte(n) \cap S
<1>1. /\ 0 \in C <=> 0 \in S /\ x0 = 1
      /\ 1 \in C <=> 1 \in S /\ x1 = 1
      /\ 2 \in C <=> 2 \in S /\ x2 = 1
      /\ 3 \in C <=> 3 \in S /\ x3 = 1
      /\ 4 \in C <=> 4 \in S /\ x4 = 1
      /\ 5 \in C <=> 5 \in S /\ x5 = 1
      /\ 6 \in C <=> 6 \in S /\ x6 = 1
      /\ 7 \in C <=> 7 \in S /\ x7 = 1
  <2>1. \A b \in 0..7 : b \in Byte(n) <=>
             \/ b = 0 /\ n % 2 = 1
             \/ b = 1 /\ (n \div 2) % 2 = 1
             \/ b = 2 /\ (n \div 4) % 2 = 1
             \/ b = 3 /\ (n \div 8) % 2 = 1
             \/ b = 4 /\ (n \div 16) % 2 = 1
             \/ b = 5 /\ (n \div 32) % 2 = 1
             \/ b = 6 /\ (n \div 64) % 2 = 1
             \/ b = 7 /\ (n \div 128) % 2 = 1
        BY ByteBits
  <2>. QED
       BY <2>1
<1>2. /\ x0 \in 0..1 /\ x1 \in 0..1 /\ x2 \in 0..1 /\ x3 \in 0..1
      /\ x4 \in 0..1 /\ x5 \in 0..1 /\ x6 \in 0..1 /\ x7 \in 0..1
      OBVIOUS
<1>3. n \div 1 = n
      OBVIOUS
<1>4. PartSum(n, S) =
        (IF 0 \in S THEN 1 * x0 ELSE 0) + (IF 1 \in S THEN 2 * x1 ELSE 0)
        + (IF 2 \in S THEN 4 * x2 ELSE 0) + (IF 3 \in S THEN 8 * x3 ELSE 0)
        + (IF 4 \in S THEN 16 * x4 ELSE 0) + (IF 5 \in S THEN 32 * x5 ELSE 0)
        + (IF 6 \in S THEN 64 * x6 ELSE 0) + (IF 7 \in S THEN 128 * x7 ELSE 0)
      BY <1>3 DEF PartSum
<1>. HIDE DEF x0, x1, x2, x3, x4, x5, x6, x7, C
<1>5. ByteValue(C) =
        (IF 0 \in C THEN 1 ELSE 0) + (IF 1 \in C THEN 2 ELSE 0) + (IF 2 \in C THEN 4 ELSE 0)
        + (IF 3 \in C THEN 8 ELSE 0) + (IF 4 \in C THEN 16 ELSE 0) + (IF 5 \in C THEN 32 ELSE 0)
        + (IF 6 \in C THEN 64 ELSE 0) + (IF 7 \in C THEN 128 ELSE 0)
      BY Powers DEF ByteValue
<1>6. /\ (IF 0 \in C THEN 1 ELSE 0) = (IF 0 \in S THEN 1 * x0 ELSE 0)
      /\ (IF 1 \in C THEN 2 ELSE 0) = (IF 1 \in S THEN 2 * x1 ELSE 0)
      /\ (IF 2 \in C THEN 4 ELSE 0) = (IF 2 \in S THEN 4 * x2 ELSE 0)
      /\ (IF 3 \in C THEN 8 ELSE 0) = (IF 3 \in S THEN 8 * x3 ELSE 0)
      BY <1>1, <1>2
<1>7. /\ (IF 4 \in C THEN 16 ELSE 0) = (IF 4 \in S THEN 16 * x4 ELSE 0)
      /\ (IF 5 \in C THEN 32 ELSE 0) = (IF 5 \in S THEN 32 * x5 ELSE 0)
      /\ (IF 6 \in C THEN 64 ELSE 0) = (IF 6 \in S THEN 64 * x6 ELSE 0)
      /\ (IF 7 \in C THEN 128 ELSE 0) = (IF 7 \in S THEN 128 * x7 ELSE 0)
      BY <1>1, <1>2
<1>. QED
     BY <1>4, <1>5, <1>6, <1>7 DEF C

(* What a write, and a list of writes within T, may change.                *)
Touches(w, r, b) == w.reg = r /\ b \in w.mask

Covers(T, writes) ==
    \A i \in 1..Len(writes) : \A b \in writes[i].mask : <<writes[i].reg, b>> \in T

---------------------------------------------------------------------------
(* The greatest of the numbers up to n in a set.                           *)
LEMMA MaxOf ==
    ASSUME NEW n \in Nat, NEW S \in SUBSET (0..n), S # {}
    PROVE  Max(S) \in S /\ \A y \in S : Max(S) >= y
<1>. DEFINE P == {m \in Nat : \A T \in SUBSET (0..m) : T # {} => \E x \in T : \A y \in T : x >= y}
<1>1. 0 \in P
  <2>1. ASSUME NEW T \in SUBSET (0..0), T # {} PROVE \E x \in T : \A y \in T : x >= y
    <3>1. \A y \in T : y = 0
          OBVIOUS
    <3>2. 0 \in T
          BY <2>1, <3>1
    <3>. QED
         BY <3>1, <3>2
  <2>. QED
       BY <2>1
<1>2. ASSUME NEW m \in Nat, m \in P PROVE m + 1 \in P
  <2>1. SUFFICES ASSUME NEW T \in SUBSET (0..(m + 1)), T # {} PROVE \E x \in T : \A y \in T : x >= y
        OBVIOUS
  <2>2. CASE m + 1 \in T
        BY <2>2
  <2>3. CASE m + 1 \notin T
    <3>1. T \in SUBSET (0..m)
          BY <2>3
    <3>. QED
         BY <1>2, <2>1, <3>1
  <2>. QED
       BY <2>2, <2>3
<1>3. n \in P
      BY <1>1, <1>2, NatSetInduction
<1>4. \E x \in S : \A y \in S : x >= y
      BY <1>3
<1>. QED
     BY <1>4 DEF Max

(* The least of finitely many numbers.                                     *)
LEMMA MinOf ==
    ASSUME NEW n \in Nat, NEW S \in SUBSET (0..n), S # {}
    PROVE  Min(S) \in S /\ \A y \in S : Min(S) <= y
<1>. DEFINE P == {m \in Nat : \A T \in SUBSET Nat : m \in T => \E x \in T : \A y \in T : x <= y}
<1>1. 0 \in P
      OBVIOUS
<1>2. ASSUME NEW m \in Nat, m \in P PROVE m + 1 \in P
  <2>1. ASSUME NEW T \in SUBSET Nat, m + 1 \in T PROVE \E x \in T : \A y \in T : x <= y
    <3>. DEFINE U == T \cup {m}
    <3>1. PICK x \in U : \A y \in U : x <= y
          BY <1>2
    <3>2. CASE x \in T
          BY <3>1, <3>2
    <3>3. CASE x \notin T
      <4>1. x = m /\ \A y \in T : m <= y /\ y # m
            BY <3>1, <3>3
      <4>2. \A y \in T : m + 1 <= y
            BY <4>1
      <4>. QED
           BY <2>1, <4>2
    <3>. QED
         BY <3>2, <3>3
  <2>. QED
       BY <2>1
<1>3. \A m \in Nat : m \in P
      BY <1>1, <1>2, NatSetInduction
<1>4. PICK m \in S : TRUE
      OBVIOUS
<1>5. \E x \in S : \A y \in S : x <= y
      BY <1>3, <1>4
<1>. QED
     BY <1>5 DEF Min

---------------------------------------------------------------------------
(* A bit after a list of writes: as it was, if none writes it; what the    *)
(* last write of it says, if there is one.                                 *)
LEMMA WroteBit ==
    ASSUME NEW Regs, NEW c \in [Regs -> Bits], NEW w, NEW r \in Regs, NEW b
    PROVE  /\ ~Touches(w, r, b) => (b \in Wrote(c, w)[r] <=> b \in c[r])
           /\ Touches(w, r, b) => (b \in Wrote(c, w)[r] <=> b \in w.val)
BY DEF Wrote, Masked, Touches

LEMMA WroteTyped ==
    ASSUME NEW Regs, NEW c \in [Regs -> Bits], NEW w, w.val \in Bits
    PROVE  Wrote(c, w) \in [Regs -> Bits]
BY DEF Wrote, Masked, Bits

Typed(writes) == Len(writes) \in Nat /\ \A i \in 1..Len(writes) : writes[i].val \in Bits

LEMMA AfterTyped ==
    ASSUME NEW Regs, NEW s, s.chip \in [Regs -> Bits], NEW writes, Typed(writes),
           NEW n \in 0..Len(writes)
    PROVE  \E c \in [Regs -> Bits] : After(s, writes, n) = [s EXCEPT !.chip = c]
<1>. DEFINE S == [Regs -> Bits]
<1>1. \A i \in 1..n : \A c \in [Regs -> Bits] : Wrote(c, writes[i]) \in [Regs -> Bits]
  <2>1. \A i \in 1..n : i \in 1..Len(writes)
        BY DEF Typed
  <2>. QED
       BY <2>1, WroteTyped DEF Typed
<1>2. n \in Nat
      BY DEF Typed
<1>3. s.chip \in S
      OBVIOUS
<1>4. \A i \in 1..n : \A c \in S : Wrote(c, writes[i]) \in S
      BY <1>1
<1>. HIDE DEF S
<1>5. \E c \in S : After(s, writes, n) = [s EXCEPT !.chip = c]
      BY <1>2, <1>3, <1>4, AfterStays
<1>. QED
     BY <1>5 DEF S

(* The registers c and d agree in the bits outside of T.                   *)
Agree(Regs, c, d, T) == \A r \in Regs, b \in 0..7 : <<r, b>> \notin T => (b \in c[r] <=> b \in d[r])

LEMMA AfterKeeps ==
    ASSUME NEW Regs, NEW s, s.chip \in [Regs -> Bits], NEW writes, Typed(writes),
           NEW n \in 0..Len(writes), NEW T, Covers(T, writes)
    PROVE  \E c \in [Regs -> Bits] :
              /\ After(s, writes, n) = [s EXCEPT !.chip = c]
              /\ Agree(Regs, c, s.chip, T)
<1>. DEFINE S == {c \in [Regs -> Bits] : Agree(Regs, c, s.chip, T)}
<1>1. s.chip \in S
      BY DEF Agree
<1>2. ASSUME NEW i \in 1..n, NEW c \in S PROVE Wrote(c, writes[i]) \in S
  <2>1. i \in 1..Len(writes)
        BY DEF Typed
  <2>2. Wrote(c, writes[i]) \in [Regs -> Bits]
        BY <2>1, WroteTyped DEF Typed
  <2>3. ASSUME NEW r \in Regs, NEW b \in 0..7, <<r, b>> \notin T
        PROVE  b \in Wrote(c, writes[i])[r] <=> b \in c[r]
    <3>1. ~Touches(writes[i], r, b)
          BY <2>1, <2>3 DEF Touches, Covers
    <3>. QED
         BY <3>1, WroteBit
  <2>. QED
       BY <2>2, <2>3 DEF Agree
<1>3. n \in Nat
      BY DEF Typed
<1>. HIDE DEF S
<1>4. \E c \in S : After(s, writes, n) = [s EXCEPT !.chip = c]
      BY <1>1, <1>2, <1>3, AfterStays
<1>. QED
     BY <1>4 DEF S

LEMMA AfterSets ==
    ASSUME NEW Regs, NEW s, s.chip \in [Regs -> Bits], {"chip"} \subseteq DOMAIN s,
           NEW writes, Typed(writes), NEW k \in 1..Len(writes),
           NEW r \in Regs, NEW b, Touches(writes[k], r, b),
           \A i \in (k + 1)..Len(writes) : ~Touches(writes[i], r, b)
    PROVE  b \in After(s, writes, Len(writes)).chip[r] <=> b \in writes[k].val
<1>. DEFINE n == Len(writes)
<1>0. n \in Nat /\ k \in Nat /\ k > 0 /\ k <= n
      BY DEF Typed
<1>1. PICK at : ChipAt(s, writes, n, at) /\ After(s, writes, n) = [s EXCEPT !.chip = at[n]]
      BY <1>0, AfterChipAt
<1>. DEFINE P == {m \in Nat : m <= n => /\ at[m] \in [Regs -> Bits]
                                        /\ m >= k => (b \in at[m][r] <=> b \in writes[k].val)}
<1>2. 0 \in P
      BY <1>0, <1>1 DEF ChipAt
<1>3. ASSUME NEW m \in Nat, m \in P PROVE m + 1 \in P
  <2>1. CASE m + 1 <= n
    <3>1. at[m + 1] = Wrote(at[m], writes[m + 1])
          BY <1>0, <1>1, <2>1 DEF ChipAt
    <3>2. at[m] \in [Regs -> Bits] /\ m + 1 \in 1..Len(writes)
          BY <1>3, <2>1
    <3>3. at[m + 1] \in [Regs -> Bits]
          BY <3>1, <3>2, WroteTyped DEF Typed
    <3>4. CASE m + 1 < k
          BY <1>0, <3>3, <3>4
    <3>5. CASE m + 1 = k
      <4>1. b \in at[m + 1][r] <=> b \in writes[k].val
            BY <3>1, <3>2, <3>5, WroteBit
      <4>. QED
           BY <3>3, <4>1
    <3>6. CASE m + 1 > k
      <4>1. m >= k /\ m <= n /\ m + 1 \in (k + 1)..Len(writes)
            BY <1>0, <2>1, <3>6
      <4>2. b \in at[m][r] <=> b \in writes[k].val
            BY <1>3, <4>1
      <4>3. ~Touches(writes[m + 1], r, b)
            BY <4>1
      <4>4. b \in at[m + 1][r] <=> b \in at[m][r]
            BY <3>1, <3>2, <4>3, WroteBit
      <4>. QED
           BY <3>3, <4>2, <4>4
    <3>. QED
         BY <1>0, <3>4, <3>5, <3>6
  <2>. QED
       BY <2>1
<1>4. n \in P
      BY <1>0, <1>2, <1>3, NatSetInduction
<1>5. b \in at[n][r] <=> b \in writes[k].val
      BY <1>0, <1>4
<1>. QED
     BY <1>1, <1>5

---------------------------------------------------------------------------
(* The long division divides: after i steps, with P[i] = 2^i, it has the   *)
(* quotient and the remainder of rem * 2^i.                                *)
Doubled(den, prev) ==
    LET over == IF 2 * prev[2] >= den THEN 1 ELSE 0
    IN  <<2 * prev[1] + over, 2 * prev[2] - over * den>>

DividedAt(rem, den, n, at) ==
    at = [i \in 0..n |-> IF i = 0 THEN <<0, rem>> ELSE Doubled(den, at[i - 1])]

LEMMA DividedAtExists ==
    ASSUME NEW rem, NEW den, NEW n \in Nat PROVE \E at : DividedAt(rem, den, n, at)
<1>. DEFINE P == {m \in Nat : \E at : DividedAt(rem, den, m, at)}
<1>1. 0 \in P
  <2>. DEFINE at == [i \in 0..0 |-> <<0, rem>>]
  <2>1. DividedAt(rem, den, 0, at)
        BY DEF DividedAt
  <2>. QED
       BY <2>1
<1>2. ASSUME NEW m \in Nat, m \in P PROVE m + 1 \in P
  <2>1. PICK at : DividedAt(rem, den, m, at)
        BY <1>2
  <2>. DEFINE g == [i \in 0..(m + 1) |-> IF i = m + 1 THEN Doubled(den, at[m]) ELSE at[i]]
  <2>2. g = [i \in 0..(m + 1) |-> IF i = 0 THEN <<0, rem>> ELSE Doubled(den, g[i - 1])]
    <3>1. ASSUME NEW i \in 0..(m + 1) PROVE g[i] = IF i = 0 THEN <<0, rem>> ELSE Doubled(den, g[i - 1])
      <4>1. CASE i = m + 1
            BY <4>1
      <4>2. CASE i # m + 1
        <5>1. i \in 0..m /\ (i # 0 => i - 1 \in 0..m /\ i - 1 # m + 1)
              BY <4>2
        <5>2. at[i] = IF i = 0 THEN <<0, rem>> ELSE Doubled(den, at[i - 1])
              BY <2>1, <5>1 DEF DividedAt
        <5>3. g[i] = at[i] /\ (i # 0 => g[i - 1] = at[i - 1])
              BY <4>2, <5>1
        <5>. QED
             BY <5>2, <5>3
      <4>. QED
           BY <4>1, <4>2
    <3>. QED
         BY <3>1
  <2>3. DividedAt(rem, den, m + 1, g)
        BY <2>2 DEF DividedAt
  <2>. QED
       BY <2>3
<1>3. n \in P
      BY <1>1, <1>2, NatSetInduction
<1>. QED
     BY <1>3

LEMMA ShiftedAt ==
    ASSUME NEW rem, NEW den, NEW n \in Nat
    PROVE  \E at : DividedAt(rem, den, n, at) /\ Shifted(rem, den, n) = at[n]
<1>. DEFINE at == CHOOSE at : DividedAt(rem, den, n, at)
<1>1. DividedAt(rem, den, n, at)
      BY DividedAtExists
<1>2. Shifted(rem, den, n) = at[n]
      BY DEF Shifted, DividedAt, Doubled
<1>. QED
     BY <1>1, <1>2

(* One step: with q * den + r = rem * p before it, with 2 * p after it.    *)
Divided(rem, den, p, x) ==
    /\ x = <<x[1], x[2]>> /\ x[1] \in Nat /\ x[2] \in Nat
    /\ x[1] < p /\ x[2] < den /\ den * x[1] + x[2] = p * rem

LEMMA DoubledDivides ==
    ASSUME NEW den \in Nat, NEW rem \in Nat, NEW p \in Nat, NEW x, Divided(rem, den, p, x)
    PROVE  Divided(rem, den, 2 * p, Doubled(den, x))
<1>. DEFINE q == x[1]
            r == x[2]
            y == Doubled(den, x)
<1>1. q \in Nat /\ r \in Nat /\ q < p /\ r < den /\ den * q + r = p * rem
      BY DEF Divided
<1>2. den * (2 * q) + 2 * r = (2 * p) * rem
  <2>. DEFINE u == den * q
              v == p * rem
              uu == den * (2 * q)
              vv == (2 * p) * rem
  <2>1. u \in Int /\ v \in Int /\ uu = 2 * u /\ vv = 2 * v /\ u + r = v
        BY <1>1
  <2>. HIDE DEF u, v, uu, vv
  <2>2. uu + 2 * r = vv
        BY <1>1, <2>1
  <2>. QED
       BY <2>2 DEF uu, vv
<1>3. CASE 2 * r >= den
  <2>1. y = <<2 * q + 1, 2 * r - den>>
        BY <1>1, <1>3 DEF Doubled
  <2>2. den * (2 * q + 1) = den * (2 * q) + den
        BY <1>1
  <2>. HIDE DEF q, r, y
  <2>3. 2 * q + 1 \in Nat /\ 2 * r - den \in Nat /\ 2 * q + 1 < 2 * p /\ 2 * r - den < den
        BY <1>1, <1>3
  <2>4. den * (2 * q + 1) + (2 * r - den) = (2 * p) * rem
    <3>1. den * (2 * q) \in Int /\ (2 * p) * rem \in Int /\ den * (2 * q + 1) \in Int
          BY <1>1
    <3>. QED
         BY <1>1, <1>2, <2>2, <3>1
  <2>. QED
       BY <2>1, <2>3, <2>4 DEF Divided, y
<1>4. CASE ~(2 * r >= den)
  <2>1. y = <<2 * q, 2 * r>>
        BY <1>1, <1>4 DEF Doubled
  <2>. HIDE DEF q, r, y
  <2>2. 2 * q \in Nat /\ 2 * r \in Nat /\ 2 * q < 2 * p /\ 2 * r < den
        BY <1>1, <1>4
  <2>. QED
       BY <1>2, <2>1, <2>2 DEF Divided, y
<1>. QED
     BY <1>3, <1>4

\* powers of two
Pow2 == [i \in 0..20 |-> 2^i]

LEMMA Pow2Is ==
    /\ Pow2[0] = 1 /\ Pow2[15] = 32768 /\ Pow2[16] = 65536 /\ Pow2[20] = 1048576
    /\ \A i \in 0..20 : Pow2[i] \in Nat
    /\ \A i \in 0..19 : Pow2[i + 1] = 2 * Pow2[i]
<1>1. \A i \in 0..20 : Pow2[i] = 2^i
      BY DEF Pow2
<1>2. /\ 2^0 = 1 /\ 2^1 = 2 /\ 2^2 = 4 /\ 2^3 = 8 /\ 2^4 = 16 /\ 2^5 = 32 /\ 2^6 = 64
      /\ 2^7 = 128 /\ 2^8 = 256 /\ 2^9 = 512 /\ 2^10 = 1024
      BY SMT
<1>3. /\ 2^11 = 2048 /\ 2^12 = 4096 /\ 2^13 = 8192 /\ 2^14 = 16384 /\ 2^15 = 32768
      /\ 2^16 = 65536 /\ 2^17 = 131072 /\ 2^18 = 262144 /\ 2^19 = 524288 /\ 2^20 = 1048576
      BY SMT
<1>4. /\ Pow2[0] = 1 /\ Pow2[1] = 2 /\ Pow2[2] = 4 /\ Pow2[3] = 8 /\ Pow2[4] = 16
      /\ Pow2[5] = 32 /\ Pow2[6] = 64 /\ Pow2[7] = 128 /\ Pow2[8] = 256 /\ Pow2[9] = 512
      /\ Pow2[10] = 1024
      BY <1>1, <1>2, SMT
<1>5. /\ Pow2[11] = 2048 /\ Pow2[12] = 4096 /\ Pow2[13] = 8192 /\ Pow2[14] = 16384
      /\ Pow2[15] = 32768 /\ Pow2[16] = 65536 /\ Pow2[17] = 131072 /\ Pow2[18] = 262144
      /\ Pow2[19] = 524288 /\ Pow2[20] = 1048576
      BY <1>1, <1>3, SMT
<1>6. ASSUME NEW i \in 0..9 PROVE Pow2[i] \in Nat /\ Pow2[i + 1] = 2 * Pow2[i]
      BY <1>4, SMT
<1>7. ASSUME NEW i \in 10..19 PROVE Pow2[i] \in Nat /\ Pow2[i + 1] = 2 * Pow2[i]
      BY <1>4, <1>5, SMT
<1>8. \A i \in 0..19 : Pow2[i] \in Nat /\ Pow2[i + 1] = 2 * Pow2[i]
  <2>. TAKE i \in 0..19
  <2>1. i \in 0..9 \/ i \in 10..19
        OBVIOUS
  <2>. QED
       BY <1>6, <1>7, <2>1
<1>9. \A i \in 0..20 : Pow2[i] \in Nat
  <2>. TAKE i \in 0..20
  <2>1. i \in 0..19 \/ i = 20
        OBVIOUS
  <2>2. Pow2[20] \in Nat
        BY <1>5, SMT
  <2>. QED
       BY <1>8, <2>1, <2>2
<1>. QED
     BY <1>4, <1>5, <1>8, <1>9

LEMMA ShiftedDivides ==
    ASSUME NEW den \in Nat, NEW rem \in Nat, rem < den, NEW n \in 0..20
    PROVE  Divided(rem, den, Pow2[n], Shifted(rem, den, n))
<1>1. PICK at : DividedAt(rem, den, n, at) /\ Shifted(rem, den, n) = at[n]
      BY ShiftedAt
<1>. DEFINE P == {m \in Nat : m <= n => Divided(rem, den, Pow2[m], at[m])}
<1>2. 0 \in P
  <2>1. at[0] = <<0, rem>>
        BY <1>1 DEF DividedAt
  <2>2. den * 0 + rem = 1 * rem
        OBVIOUS
  <2>. QED
       BY <2>1, <2>2, Pow2Is DEF Divided
<1>3. ASSUME NEW m \in Nat, m \in P PROVE m + 1 \in P
  <2>1. CASE m + 1 <= n
    <3>1. at[m + 1] = Doubled(den, at[m])
          BY <1>1, <2>1 DEF DividedAt
    <3>2. m \in 0..19
          BY <2>1
    <3>3. Pow2[m] \in Nat /\ Pow2[m + 1] = 2 * Pow2[m]
          BY <3>2, Pow2Is
    <3>4. Divided(rem, den, Pow2[m], at[m])
          BY <1>3, <2>1
    <3>. QED
         BY <3>1, <3>3, <3>4, DoubledDivides
  <2>. QED
       BY <2>1
<1>4. n \in P
      BY <1>2, <1>3, NatSetInduction
<1>. QED
     BY <1>1, <1>4
============================================================================
